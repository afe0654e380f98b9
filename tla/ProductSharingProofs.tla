------------------------- MODULE ProductSharingProofs -------------------------
(***************************************************************************)
(* Proofs about ProductSharing, for any accounts, URLs, quota and bound.   *)
(* The invariant adds to the types what a request in progress may rely on: *)
(* its own listings and the subscriptions it has locked stay as they are,  *)
(* and what it will subscribe to is within the quota already.              *)
(***************************************************************************)
EXTENDS ProductSharing, FiniteSetTheorems, TLAPS

Joins(u) == IF job[u] = Idle THEN {} ELSE job[u].urls

(* What a request in progress may rely on.                                  *)
JobsHold ==
  \A u \in Users : job[u] # Idle =>
    /\ job[u].op \in {"repoint", "deactivate", "set_tracking"} => job[u].touch \subseteq Listed(u)
    /\ job[u].op = "pause" /\ job[u].counted => job[u].touch \subseteq Watched(u)
    /\ job[u].op = "pause" => job[u].want \in {"watching", "paused"}
    /\ job[u].op = "set_tracking" => job[u].want \in Tracking

(* The quota counts what a request in progress is about to add.             *)
QuotaReserved ==
  \A u \in Users \ Exempt : Cardinality(Watched(u) \cup Joins(u)) <= Limit

IInv == TypeOK /\ ListingsKeepTheirProduct /\ JobsHold

(* A request that begins, of any kind.                                      *)
Starts(u, op, T, L, want) ==
  /\ Begin(u, Ask(op, T, L, want))
  /\ op \in Ops /\ T \in SUBSET Urls /\ L \in SUBSET Urls
  /\ want \in Tracking \cup {"watching"}
  /\ T = {} \/ QuotaAllows(u, T)
  /\ op \in {"repoint", "deactivate", "set_tracking"} => L \subseteq Listed(u)
  /\ op = "pause" => want \in {"watching", "paused"}
  /\ op = "set_tracking" => want \in Tracking

Ends(u) ==
  \/ FinishTrack(u) \/ FinishRepoint(u) \/ FinishDeactivate(u)
  \/ \E p \in Urls : FinishLeave(u, p) \/ FinishDelete(u, p) \/ FinishPause(u, p)
  \/ FinishSetTracking(u)
  \/ Fail(u)

LEMMA StepKinds ==
  ASSUME Next
  PROVE  \E u \in Users :
           \/ \E op, T, L, want : Starts(u, op, T, L, want)
           \/ Count(u)
           \/ Ends(u)
<1>1. PICK u \in Users :
        \/ \E p \in Urls : StartAdd(u, p) \/ StartRemove(u, p)
        \/ \E T \in SUBSET Urls : StartEntry(u, T) \/ StartDeactivate(u, T)
        \/ \E old, new \in Urls : StartRepoint(u, old, new)
        \/ \E p \in Urls, want \in {"watching", "paused"} : StartPause(u, p, want)
        \/ \E L \in SUBSET Urls, want \in Tracking : StartSetTracking(u, L, want)
        \/ Count(u)
        \/ Ends(u)
  BY Zenon DEF Next, Ends
<1>2. ASSUME NEW p \in Urls, StartAdd(u, p)
      PROVE  Starts(u, "add", {p}, {}, "watching")
  BY <1>2 DEF StartAdd, Starts, Ops, Counting, Tracking
<1>3. ASSUME NEW p \in Urls, StartRemove(u, p)
      PROVE  Starts(u, "remove", {}, {p}, "paused")
  BY <1>3 DEF StartRemove, Starts, Ops, Counting, Tracking
<1>4. ASSUME NEW T \in SUBSET Urls, StartEntry(u, T)
      PROVE  Starts(u, "entry", T, {}, "watching")
  BY <1>4 DEF StartEntry, Starts, Ops, Counting, Tracking
<1>5. ASSUME NEW L \in SUBSET Urls, StartDeactivate(u, L)
      PROVE  Starts(u, "deactivate", {}, L, "paused")
  BY <1>5 DEF StartDeactivate, Starts, Ops, Counting, Tracking
<1>6. ASSUME NEW old \in Urls, NEW new \in Urls, StartRepoint(u, old, new)
      PROVE  Starts(u, "repoint", {new}, {old}, "watching")
  BY <1>6 DEF StartRepoint, Starts, Ops, Counting, Tracking
<1>7. ASSUME NEW p \in Urls, NEW want \in {"watching", "paused"}, StartPause(u, p, want)
      PROVE  Starts(u, "pause", {}, {p}, want)
  BY <1>7 DEF StartPause, Starts, Ops, Counting, Tracking
<1>8. ASSUME NEW L \in SUBSET Urls, NEW want \in Tracking, StartSetTracking(u, L, want)
      PROVE  Starts(u, "set_tracking", {}, L, want)
  BY <1>8 DEF StartSetTracking, Starts, Ops, Counting, Tracking
<1> QED BY <1>1, <1>2, <1>3, <1>4, <1>5, <1>6, <1>7, <1>8, Zenon

(* A request is typed when it begins.                                       *)
LEMMA AskTyped ==
  ASSUME TypeOK, NEW op \in Ops, NEW T \in SUBSET Urls, NEW L \in SUBSET Urls,
         NEW want \in Tracking \cup {"watching"}
  PROVE  Ask(op, T, L, want) \in Job
<1> DEFINE ids == [p \in T \cup L |-> row[p]]
           was == [p \in L |-> IF op = "remove" THEN "paused" ELSE status[p]]
           others == [p \in L |-> {}]
<1>1. ids \in Partial(0 .. MaxRows)
  <2>1. ids \in [T \cup L -> 0 .. MaxRows]  BY DEF TypeOK
  <2>2. T \cup L \in SUBSET Urls  OBVIOUS
  <2> QED BY <2>1, <2>2, Zenon DEF Partial
<1>2. was \in Partial(Tracking)
  <2>1. was \in [L -> Tracking]  BY DEF TypeOK, Tracking
  <2> QED BY <2>1, Zenon DEF Partial
<1>3. others \in Partial(SUBSET Users)
  <2>1. others \in [L -> SUBSET Users]  OBVIOUS
  <2> QED BY <2>1, Zenon DEF Partial
<1> HIDE DEF ids, was, others
<1> QED BY <1>1, <1>2, <1>3 DEF Ask, Job, ids, was, others

-----------------------------------------------------------------------------
(* The invariant                                                            *)

LEMMA Initially == ASSUME SharingAssumption, Init PROVE IInv
BY DEF Init, IInv, TypeOK, ListingsKeepTheirProduct, JobsHold, Tracking, Exists,
       Subscribers, Subscribed, Referenced, SharingAssumption

LEMMA StartKeeps ==
  ASSUME IInv, NEW u \in Users, NEW op, NEW T, NEW L, NEW want,
         Starts(u, op, T, L, want)
  PROVE  IInv'
<1> DEFINE r == Ask(op, T, L, want)
<1>1. r \in Job  BY AskTyped DEF Starts, IInv
<1>2. /\ r.op = op /\ r.touch = L /\ r.counted = FALSE /\ r.want = want
  BY DEF Ask
<1>3. /\ job' = [job EXCEPT ![u] = r]
      /\ UNCHANGED <<row, made, status, sub, live, retired>>
  BY DEF Starts, Begin, products
<1> HIDE DEF r
<1>4. TypeOK'
  BY <1>1, <1>3 DEF IInv, TypeOK, Exists, Subscribers, Subscribed
<1>5. ListingsKeepTheirProduct'
  BY <1>3 DEF IInv, ListingsKeepTheirProduct, Referenced, Exists
<1>6. JobsHold'
  BY <1>2, <1>3 DEF IInv, TypeOK, JobsHold, Starts, Listed, Watched, Subscribed
<1> QED BY <1>4, <1>5, <1>6 DEF IInv

LEMMA CountKeeps ==
  ASSUME IInv, NEW u \in Users, Count(u)
  PROVE  IInv'
<1> DEFINE others == [p \in job[u].touch |-> Counted(u, p)]
<1>1. job[u] \in Job /\ job[u] # Idle  BY DEF Count, IInv, TypeOK
<1>2. others \in Partial(SUBSET Users)
  <2>1. others \in [job[u].touch -> SUBSET Users]
    BY DEF Counted, Subscribers
  <2>2. job[u].touch \in SUBSET Urls  BY <1>1 DEF Job
  <2> QED BY <2>1, <2>2, Zenon DEF Partial
<1>3. /\ job' = [job EXCEPT ![u] = [job[u] EXCEPT !.counted = TRUE, !.others = others]]
      /\ UNCHANGED <<row, made, status, sub, live, retired>>
  BY DEF Count, products
<1> HIDE DEF others
<1>4. /\ job'[u] \in Job
      /\ job'[u].op = job[u].op /\ job'[u].touch = job[u].touch
      /\ job'[u].want = job[u].want
  BY <1>1, <1>2, <1>3 DEF IInv, TypeOK, Job
<1>5. \A v \in Users \ {u} : job'[v] = job[v]
  BY <1>3 DEF IInv, TypeOK
<1>6. TypeOK'
  BY <1>3, <1>4 DEF IInv, TypeOK, Exists, Subscribers, Subscribed
<1>7. ListingsKeepTheirProduct'
  BY <1>3 DEF IInv, ListingsKeepTheirProduct, Referenced, Exists
<1>8. JobsHold'
  <2>1. \A v \in Users : Listed(v)' = Listed(v) /\ Watched(v)' = Watched(v)
    BY <1>3 DEF Listed, Watched, Subscribed
  <2>2. job[u].op = "pause" => job[u].touch \subseteq Watched(u)
    BY <1>1 DEF Count, Job, Watched
  <2> QED BY <1>1, <1>4, <1>5, <2>1, <2>2 DEF IInv, JobsHold
<1> QED BY <1>6, <1>7, <1>8 DEF IInv

(* Tracking URLs gives each a row and takes none away.                      *)
LEMMA TrackMakesRows ==
  ASSUME TypeOK, NEW u \in Users, job[u] \in Job, Track(u)
  PROVE  /\ row' \in [Urls -> 0 .. MaxRows] /\ made' \in [Urls -> 0 .. MaxRows]
         /\ \A p \in Urls : row'[p] \in {0, made'[p]}
         /\ \A p \in Urls : Exists(p)' <=> Exists(p) \/ p \in job[u].urls
<1>1. \A p \in NewRows(u) : p \in Urls /\ made[p] + 1 \in 1 .. MaxRows
  BY SharingAssumption DEF TypeOK, Track, NewRows, Job
<1>2. made' \in [Urls -> 0 .. MaxRows]
  BY <1>1 DEF TypeOK, Track
<1>3. \A p \in Urls : row'[p] = IF p \in NewRows(u) THEN made[p] + 1 ELSE row[p]
  BY DEF Track
<1>4. row' \in [Urls -> 0 .. MaxRows]
  BY <1>1, <1>3 DEF TypeOK, Track
<1>5. \A p \in Urls : row'[p] \in {0, made'[p]}
  BY <1>3 DEF TypeOK, Track
<1>6. \A p \in Urls : Exists(p)' <=> Exists(p) \/ p \in job[u].urls
  BY <1>1, <1>3 DEF Exists, NewRows, TypeOK
<1> QED BY <1>2, <1>4, <1>5, <1>6

(* What leaving L and joining T does to subscriptions.                      *)
LEMMA SubAfterTyped ==
  ASSUME TypeOK, NEW u \in Users, NEW T \in SUBSET Urls, NEW L \in SUBSET Urls
  PROVE  SubAfter(u, T, L) \in [Urls -> [Users -> {"none", "watching", "paused"}]]
BY DEF TypeOK, SubAfter

LEMMA SubAfterJoins ==
  ASSUME TypeOK, NEW u \in Users, NEW T \in SUBSET Urls, NEW L \in SUBSET Urls,
         NEW p \in Urls \ T, NEW v \in Users, sub[p][v] = "none"
  PROVE  SubAfter(u, T, L)[p][v] = "none"
BY DEF TypeOK, SubAfter

(* What an ending request leaves: a status that is active, or a             *)
(* subscription, only where a row is.                                       *)
LEMMA EndKeepsTypes ==
  ASSUME IInv, NEW u \in Users, Ends(u)
  PROVE  TypeOK'
<1>1. /\ job[u] \in Job /\ job[u] # Idle
      /\ job' = [job EXCEPT ![u] = Idle]
      /\ job' \in [Users -> Job \cup {Idle}]
  <2>1. job' = [job EXCEPT ![u] = Idle] /\ job[u] # Idle
    BY DEF Ends, FinishTrack, FinishRepoint, FinishDeactivate, FinishLeave, FinishDelete,
           FinishPause, FinishSetTracking, Fail, End, Ready
  <2> QED BY <2>1 DEF IInv, TypeOK
<1>2. job[u].urls \in SUBSET Urls /\ job[u].touch \in SUBSET Urls
  BY <1>1 DEF Job
<1>3. TypeOK /\ ListingsKeepTheirProduct /\ JobsHold  BY DEF IInv
<1>5. CASE FinishTrack(u)
  <2>1. Track(u) /\ retired' = retired  BY <1>5 DEF FinishTrack
  <2>2. /\ sub' = SubAfter(u, job[u].urls, {})
        /\ status' = StatusAfter(u, NewRows(u), {}, "active")
    BY <1>5 DEF FinishTrack
  <2>3. live' \in SUBSET (Users \X Urls)
    BY <1>2, <1>3, <1>5 DEF FinishTrack, TypeOK
  <2>4. status' \in [Urls -> Tracking]
    BY <1>3, <2>2 DEF StatusAfter, Tracking, TypeOK
  <2>5. \A p \in Urls : ~Exists(p)' => status'[p] = "paused" /\ Subscribers(p)' = {}
    <3> SUFFICES ASSUME NEW p \in Urls, ~Exists(p)'
                 PROVE  status'[p] = "paused" /\ Subscribers(p)' = {}
      OBVIOUS
    <3>1. ~Exists(p) /\ p \notin job[u].urls
      BY <1>1, <1>3, <2>1, TrackMakesRows
    <3>2. status[p] = "paused" /\ \A v \in Users : sub[p][v] = "none"
      BY <1>3, <3>1 DEF TypeOK, Subscribers, Subscribed
    <3>3. status'[p] = "paused"
      BY <2>2, <3>1, <3>2 DEF StatusAfter, NewRows
    <3>4. \A v \in Users : sub'[p][v] = "none"
      BY <1>2, <2>2, <3>1, <3>2, <1>3, SubAfterJoins
    <3> QED BY <3>3, <3>4 DEF Subscribers, Subscribed
  <2>6. sub' \in [Urls -> [Users -> {"none", "watching", "paused"}]]
    BY <1>2, <1>3, <2>2, SubAfterTyped
  <2> QED BY <1>1, <1>3, <2>1, <2>3, <2>4, <2>5, <2>6, TrackMakesRows DEF TypeOK
<1>6. CASE FinishRepoint(u)
  <2>1. Track(u) /\ retired' = retired  BY <1>6 DEF FinishRepoint
  <2>2. /\ sub' = SubAfter(u, job[u].urls, job[u].touch)
        /\ status' = StatusAfter(u, NewRows(u), Released(u), "paused")
    BY <1>6 DEF FinishRepoint
  <2>3. live' \in SUBSET (Users \X Urls)
    BY <1>2, <1>3, <1>6 DEF FinishRepoint, TypeOK
  <2>4. status' \in [Urls -> Tracking]
    BY <1>3, <2>2 DEF StatusAfter, Tracking, TypeOK
  <2>5. \A p \in Urls : ~Exists(p)' => status'[p] = "paused" /\ Subscribers(p)' = {}
    <3> SUFFICES ASSUME NEW p \in Urls, ~Exists(p)'
                 PROVE  status'[p] = "paused" /\ Subscribers(p)' = {}
      OBVIOUS
    <3>1. ~Exists(p) /\ p \notin job[u].urls
      BY <1>1, <1>3, <2>1, TrackMakesRows
    <3>2. status[p] = "paused" /\ \A v \in Users : sub[p][v] = "none"
      BY <1>3, <3>1 DEF TypeOK, Subscribers, Subscribed
    <3>3. status'[p] = "paused"
      BY <2>2, <3>1, <3>2 DEF StatusAfter, NewRows
    <3>4. \A v \in Users : sub'[p][v] = "none"
      BY <1>2, <2>2, <3>1, <3>2, <1>3, SubAfterJoins
    <3> QED BY <3>3, <3>4 DEF Subscribers, Subscribed
  <2>6. sub' \in [Urls -> [Users -> {"none", "watching", "paused"}]]
    BY <1>2, <1>3, <2>2, SubAfterTyped
  <2> QED BY <1>1, <1>3, <2>1, <2>3, <2>4, <2>5, <2>6, TrackMakesRows DEF TypeOK
<1>7. CASE FinishDeactivate(u)
  <2>1. /\ sub' = SubAfter(u, {}, job[u].touch)
        /\ status' = StatusAfter(u, {}, Released(u), "paused")
        /\ row' = row /\ made' = made
    BY <1>7 DEF FinishDeactivate
  <2>2. live' \in SUBSET (Users \X Urls) /\ retired' \in SUBSET Urls
    BY <1>2, <1>3, <1>7 DEF FinishDeactivate, TypeOK
  <2>3. status' \in [Urls -> Tracking]
    BY <1>3, <2>1 DEF StatusAfter, Tracking, TypeOK
  <2>4. \A p \in Urls : ~Exists(p)' => status'[p] = "paused"
    BY <1>3, <2>1 DEF TypeOK, Exists, StatusAfter
  <2>5. \A p \in Urls : ~Exists(p)' => Subscribers(p)' = {}
    <3> SUFFICES ASSUME NEW p \in Urls, ~Exists(p)'
                 PROVE  Subscribers(p)' = {}
      OBVIOUS
    <3>1. \A v \in Users : sub[p][v] = "none"
      BY <1>3, <2>1 DEF TypeOK, Exists, Subscribers, Subscribed
    <3>2. \A v \in Users : sub'[p][v] = "none"
      BY <1>2, <1>3, <2>1, <3>1, SubAfterJoins
    <3> QED BY <3>2 DEF Subscribers, Subscribed
  <2>6. sub' \in [Urls -> [Users -> {"none", "watching", "paused"}]]
    BY <1>2, <1>3, <2>1, SubAfterTyped
  <2> QED BY <1>1, <1>3, <2>1, <2>2, <2>3, <2>4, <2>5, <2>6 DEF TypeOK
<1>8. CASE \E p \in Urls : FinishLeave(u, p)
  <2>1. PICK p \in Urls : FinishLeave(u, p)  BY <1>8
  <2>2. /\ sub' = sub \/ sub' = SubAfter(u, {}, {p})
        /\ UNCHANGED <<row, made, status, live, retired>>
    BY <2>1 DEF FinishLeave, products
  <2>3. sub' \in [Urls -> [Users -> {"none", "watching", "paused"}]]
    <3>1. {} \in SUBSET Urls /\ {p} \in SUBSET Urls  OBVIOUS
    <3>2. SubAfter(u, {}, {p}) \in [Urls -> [Users -> {"none", "watching", "paused"}]]
      BY <1>3, <3>1, SubAfterTyped
    <3> QED BY <1>3, <2>2, <3>2 DEF TypeOK
  <2>4. \A q \in Urls, v \in Users : sub[q][v] = "none" => sub'[q][v] = "none"
    BY <1>3, <2>2 DEF SubAfter, TypeOK
  <2>5. \A q \in Urls : Subscribers(q)' \subseteq Subscribers(q)
    BY <2>4 DEF Subscribers, Subscribed
  <2> QED BY <1>1, <1>3, <2>2, <2>3, <2>5 DEF TypeOK, Exists
<1>9. CASE \E p \in Urls : FinishDelete(u, p)
  <2>1. PICK p \in Urls : FinishDelete(u, p)  BY <1>9
  <2>2. sub' \in [Urls -> [Users -> {"none", "watching", "paused"}]]
    BY <1>3, <2>1 DEF FinishDelete, TypeOK
  <2>3. status' \in [Urls -> Tracking] /\ row' \in [Urls -> 0 .. MaxRows]
    BY <1>3, <2>1, SharingAssumption DEF FinishDelete, TypeOK, Tracking
  <2>4. \A q \in Urls : ~Exists(q)' => status'[q] = "paused" /\ Subscribers(q)' = {}
    BY <1>3, <2>1 DEF FinishDelete, TypeOK, Exists, Subscribers, Subscribed
  <2> QED BY <1>1, <1>3, <2>1, <2>2, <2>3, <2>4 DEF TypeOK, FinishDelete
<1>10. CASE \E p \in Urls : FinishPause(u, p)
  <2>1. PICK p \in Urls : FinishPause(u, p)  BY <1>10
  <2>2. p \in Watched(u) /\ job[u].want \in {"watching", "paused"}
    BY <1>1, <1>3, <2>1 DEF FinishPause, Ready, Counting, JobsHold
  <2>3. Exists(p)
    BY <1>3, <2>2 DEF TypeOK, Watched, Subscribers
  <2>4. /\ sub' \in [Urls -> [Users -> {"none", "watching", "paused"}]]
        /\ \A q \in Urls \ {p} : sub'[q] = sub[q]
    BY <1>3, <2>1, <2>2 DEF FinishPause, TypeOK
  <2>5. /\ status' \in [Urls -> Tracking]
        /\ \A q \in Urls \ {p} : status'[q] = status[q]
    BY <1>3, <2>1 DEF FinishPause, StatusAfter, TypeOK, Tracking
  <2>6. UNCHANGED <<row, made, live, retired>>  BY <2>1 DEF FinishPause
  <2> QED BY <1>1, <1>3, <2>3, <2>4, <2>5, <2>6 DEF TypeOK, Exists, Subscribers, Subscribed
<1>11. CASE FinishSetTracking(u)
  <2>1. job[u].want \in Tracking /\ \A p \in job[u].touch : Exists(p)
    BY <1>1, <1>2, <1>3, <1>11
       DEF FinishSetTracking, Ready, JobsHold, Listed, ListingsKeepTheirProduct, Referenced
  <2>2. UNCHANGED <<row, made, sub, live, retired>>
    BY <1>11 DEF FinishSetTracking
  <2>3. /\ status' \in [Urls -> Tracking]
        /\ \A p \in Urls \ job[u].touch : status'[p] = status[p]
    BY <1>3, <1>11, <2>1 DEF FinishSetTracking, StatusAfter, TypeOK
  <2> QED BY <1>1, <1>3, <2>1, <2>2, <2>3 DEF TypeOK, Exists, Subscribers, Subscribed
<1>12. CASE Fail(u)
  <2>1. UNCHANGED <<row, made, status, sub, live, retired>>
    BY <1>12 DEF Fail, products
  <2> QED BY <1>1, <1>3, <2>1 DEF TypeOK, Exists, Subscribers, Subscribed
<1> QED BY <1>5, <1>6, <1>7, <1>8, <1>9, <1>10, <1>11, <1>12 DEF Ends

(* A listing's row stays: only a removal deletes one, and not while it is   *)
(* referenced.                                                              *)
LEMMA EndKeepsRows ==
  ASSUME IInv, NEW u \in Users, Ends(u)
  PROVE  ListingsKeepTheirProduct'
<1>1. TypeOK /\ ListingsKeepTheirProduct /\ JobsHold  BY DEF IInv
<1>2. job[u] \in Job /\ job[u] # Idle
  BY <1>1 DEF Ends, FinishTrack, FinishRepoint, FinishDeactivate, FinishLeave, FinishDelete,
              FinishPause, FinishSetTracking, Fail, Ready, TypeOK
<1>3. CASE FinishTrack(u) \/ FinishRepoint(u)
  <2>1. Track(u) /\ retired' = retired
    BY <1>3 DEF FinishTrack, FinishRepoint
  <2>2. live' \subseteq live \cup ({u} \X job[u].urls)
    BY <1>3 DEF FinishTrack, FinishRepoint
  <2>3. \A p \in Urls : Exists(p) \/ p \in job[u].urls => Exists(p)'
    BY <1>1, <1>2, <2>1, TrackMakesRows
  <2> QED BY <1>1, <2>1, <2>2, <2>3 DEF ListingsKeepTheirProduct, Referenced
<1>4. CASE FinishDeactivate(u)
  <2>1. job[u].touch \subseteq Listed(u)
    BY <1>1, <1>2, <1>4 DEF FinishDeactivate, Ready, JobsHold
  <2> QED BY <1>1, <1>4, <2>1
          DEF FinishDeactivate, Listed, ListingsKeepTheirProduct, Referenced, Exists
<1>5. CASE \E p \in Urls : FinishDelete(u, p)
  <2>1. PICK p \in Urls : FinishDelete(u, p)  BY <1>5
  <2>2. ~Referenced(p) /\ live' = live /\ retired' = retired
    BY <2>1 DEF FinishDelete, Deletable
  <2>3. \A q \in Urls \ {p} : row'[q] = row[q]
    BY <1>1, <2>1 DEF FinishDelete, TypeOK
  <2> QED BY <1>1, <2>2, <2>3 DEF ListingsKeepTheirProduct, Referenced, Exists
<1>6. CASE \/ \E p \in Urls : FinishLeave(u, p) \/ FinishPause(u, p)
           \/ FinishSetTracking(u) \/ Fail(u)
  <2>1. UNCHANGED <<row, live, retired>>
    BY <1>6 DEF FinishLeave, FinishPause, FinishSetTracking, Fail, products
  <2> QED BY <1>1, <2>1 DEF ListingsKeepTheirProduct, Referenced, Exists
<1> QED BY <1>3, <1>4, <1>5, <1>6 DEF Ends

(* Requests in progress keep what they rely on: only an account's own       *)
(* requests change its listings, and a deletion waits for the subscriptions *)
(* that others have locked.                                                 *)
LEMMA EndKeepsJobs ==
  ASSUME IInv, NEW u \in Users, Ends(u)
  PROVE  JobsHold'
<1>1. TypeOK /\ JobsHold  BY DEF IInv
<1>2. job' = [job EXCEPT ![u] = Idle]
  BY DEF Ends, FinishTrack, FinishRepoint, FinishDeactivate, FinishLeave, FinishDelete,
         FinishPause, FinishSetTracking, Fail, End
<1>3. job'[u] = Idle /\ \A v \in Users \ {u} : job'[v] = job[v]
  BY <1>1, <1>2 DEF TypeOK
<1>4. \A v \in Users \ {u} : Listed(v)' = Listed(v)
  BY DEF Ends, FinishTrack, FinishRepoint, FinishDeactivate, FinishLeave, FinishDelete,
         FinishPause, FinishSetTracking, Fail, products, Listed
<1>5. ASSUME NEW v \in Users \ {u}, NEW p \in Watched(v), job[v] # Idle,
             job[v].counted, p \in job[v].touch
      PROVE  p \in Watched(v)'
  <2>0. p \in Urls /\ sub[p][v] # "none"  BY DEF Watched, Subscribed
  <2>1. CASE \E q \in Urls : FinishDelete(u, q)
    <3>1. PICK q \in Urls : FinishDelete(u, q)  BY <2>1
    <3>2. p # q
      BY <1>5, <2>0, <3>1 DEF FinishDelete, SubscriptionLocked, Subscribed
    <3> QED BY <1>1, <2>0, <3>1, <3>2 DEF FinishDelete, Watched, Subscribed, TypeOK
  <2>2. CASE \E q \in Urls : FinishLeave(u, q) \/ FinishPause(u, q)
    <3>1. sub'[p][v] = sub[p][v]
      BY <1>1, <2>0, <2>2 DEF FinishLeave, FinishPause, SubAfter, TypeOK
    <3> QED BY <2>0, <3>1 DEF Watched, Subscribed
  <2>3. CASE FinishTrack(u) \/ FinishRepoint(u) \/ FinishDeactivate(u)
    <3>1. sub'[p][v] = sub[p][v]
      BY <1>1, <2>0, <2>3 DEF FinishTrack, FinishRepoint, FinishDeactivate, SubAfter, TypeOK
    <3> QED BY <2>0, <3>1 DEF Watched, Subscribed
  <2>4. CASE FinishSetTracking(u) \/ Fail(u)
    BY <2>0, <2>4 DEF FinishSetTracking, Fail, Watched, Subscribed
  <2> QED BY <2>1, <2>2, <2>3, <2>4 DEF Ends
<1> QED BY <1>1, <1>3, <1>4, <1>5, Zenon DEF JobsHold

LEMMA StutterKeeps == ASSUME IInv, UNCHANGED vars PROVE IInv'
<1> USE DEF vars, Subscribed, Subscribers, Exists
<1>1. TypeOK'  BY DEF IInv, TypeOK
<1>2. ListingsKeepTheirProduct'  BY DEF IInv, ListingsKeepTheirProduct, Referenced
<1>3. JobsHold'  BY DEF IInv, JobsHold, Listed, Watched
<1> QED BY <1>1, <1>2, <1>3 DEF IInv

LEMMA NextKeeps == ASSUME IInv, [Next]_vars PROVE IInv'
<1>1. CASE UNCHANGED vars  BY <1>1, StutterKeeps
<1>2. CASE Next
  <2>1. PICK u \in Users : \/ \E op, T, L, want : Starts(u, op, T, L, want)
                           \/ Count(u)
                           \/ Ends(u)
    BY <1>2, StepKinds
  <2>2. CASE \E op, T, L, want : Starts(u, op, T, L, want)  BY <2>2, StartKeeps
  <2>3. CASE Count(u)  BY <2>3, CountKeeps
  <2>4. CASE Ends(u)  BY <2>4, EndKeepsTypes, EndKeepsRows, EndKeepsJobs DEF IInv
  <2> QED BY <2>1, <2>2, <2>3, <2>4
<1> QED BY <1>1, <1>2

THEOREM Invariant == Spec => []IInv
<1>1. Init => IInv  BY Initially, SharingAssumption
<1>2. IInv /\ [Next]_vars => IInv'  BY NextKeeps
<1> QED BY <1>1, <1>2, PTL DEF Spec

(* The rows, subscriptions and requests keep their types, and a URL without *)
(* a row has neither subscribers nor an active status.                      *)
THEOREM TypeCorrect == Spec => []TypeOK
<1>1. IInv => TypeOK  BY DEF IInv
<1> QED BY <1>1, Invariant, PTL

(* No interleaving of removals, moves and deactivations takes the product   *)
(* row from under a listing (RESTRICT, db/models.py:337-340).               *)
THEOREM ListingsSafe == Spec => []ListingsKeepTheirProduct
<1>1. IInv => ListingsKeepTheirProduct  BY DEF IInv
<1> QED BY <1>1, Invariant, PTL

-----------------------------------------------------------------------------
(* The quota.  What an account watches, with what its request in progress   *)
(* is about to add, only grows at the check.                                *)

Reserved(v) == Watched(v) \cup Joins(v)

LEMMA FewerUnderQuota ==
  ASSUME NEW A, NEW B \in SUBSET A, IsFiniteSet(A), Cardinality(A) <= Limit
  PROVE  Cardinality(B) <= Limit
<1>1. IsFiniteSet(B) /\ Cardinality(B) <= Cardinality(A)  BY FS_Subset
<1>2. Cardinality(A) \in Nat /\ Cardinality(B) \in Nat  BY <1>1, FS_CardinalityType
<1> QED BY <1>1, <1>2, SharingAssumption

LEMMA ReservedFinite ==
  ASSUME TypeOK, NEW v \in Users
  PROVE  /\ IsFiniteSet(Watched(v)) /\ IsFiniteSet(Reserved(v))
         /\ Reserved(v) \in SUBSET Urls
<1>1. Watched(v) \in SUBSET Urls /\ Joins(v) \in SUBSET Urls
  BY DEF Watched, Joins, TypeOK, Job
<1> QED BY <1>1, FS_Subset, SharingAssumption DEF Reserved

(* The check itself.                                                        *)
LEMMA QuotaCheck ==
  ASSUME TypeOK, NEW u \in Users \ Exempt, NEW T \in SUBSET Urls,
         QuotaAllows(u, T), Cardinality(Watched(u)) <= Limit
  PROVE  Cardinality(Watched(u) \cup T) <= Limit
<1> DEFINE new == T \ Watched(u)
<1>1. Watched(u) \cup T = Watched(u) \cup new  OBVIOUS
<1>2. CASE new = {}
  <2>1. Watched(u) \cup T = Watched(u)  BY <1>2
  <2>2. Cardinality(Watched(u) \cup T) = Cardinality(Watched(u))  BY <2>1, Zenon
  <2> QED BY <2>2
<1>3. CASE new # {}
  <2>1. Cardinality(Watched(u)) + Cardinality(new) <= Limit
    BY <1>3 DEF QuotaAllows
  <2>2. IsFiniteSet(Watched(u)) /\ IsFiniteSet(new)
    BY ReservedFinite, FS_Subset, SharingAssumption
  <2>3. Watched(u) \cap new = {}  OBVIOUS
  <2>4. Cardinality(Watched(u) \cup new) = Cardinality(Watched(u)) + Cardinality(new) - 0
    BY <2>2, <2>3, FS_Union, FS_EmptySet
  <2>5. Cardinality(Watched(u)) \in Nat /\ Cardinality(new) \in Nat
    BY <2>2, FS_CardinalityType
  <2>6. Cardinality(Watched(u) \cup T) = Cardinality(Watched(u) \cup new)
    BY <1>1, Zenon
  <2> HIDE DEF new
  <2> QED BY <2>1, <2>4, <2>5, <2>6
<1> QED BY <1>2, <1>3

(* No ending, of whatever account, adds what was not reserved.              *)
LEMMA EndReservesNoMore ==
  ASSUME IInv, NEW u \in Users, Ends(u), NEW v \in Users
  PROVE  Reserved(v)' \subseteq Reserved(v)
<1>1. TypeOK  BY DEF IInv
<1>2. job' = [job EXCEPT ![u] = Idle] /\ job[u] # Idle
  BY DEF Ends, FinishTrack, FinishRepoint, FinishDeactivate, FinishLeave, FinishDelete,
         FinishPause, FinishSetTracking, Fail, End, Ready
<1>3. Joins(v)' \subseteq Joins(v)
  BY <1>1, <1>2 DEF Joins, TypeOK
<1>4. ASSUME NEW p \in Urls, sub[p][v] = "none", sub'[p][v] # "none"
      PROVE  v = u /\ p \in job[u].urls
  <2>1. CASE FinishTrack(u) \/ FinishRepoint(u)
    BY <1>1, <1>4, <2>1 DEF FinishTrack, FinishRepoint, SubAfter, TypeOK
  <2>2. CASE FinishDeactivate(u)
    BY <1>1, <1>4, <2>2 DEF FinishDeactivate, SubAfter, TypeOK
  <2>3. CASE \E q \in Urls : FinishLeave(u, q) \/ FinishDelete(u, q)
    BY <1>1, <1>4, <2>3 DEF FinishLeave, FinishDelete, SubAfter, TypeOK
  <2>4. CASE \E q \in Urls : FinishPause(u, q)
    <3>1. PICK q \in Urls : FinishPause(u, q)  BY <2>4
    <3>2. sub[q][u] # "none"
      BY <1>1, <1>2, <3>1
         DEF FinishPause, Ready, Counting, IInv, JobsHold, Watched, Subscribed
    <3> QED BY <1>1, <1>4, <3>1, <3>2 DEF FinishPause, TypeOK
  <2>5. CASE FinishSetTracking(u) \/ Fail(u)
    BY <1>4, <2>5 DEF FinishSetTracking, Fail
  <2> QED BY <2>1, <2>2, <2>3, <2>4, <2>5 DEF Ends
<1>5. Watched(v)' \subseteq Reserved(v)
  BY <1>2, <1>4 DEF Watched, Subscribed, Reserved, Joins
<1> QED BY <1>3, <1>5 DEF Reserved

LEMMA NextKeepsQuota ==
  ASSUME IInv, QuotaReserved, [Next]_vars
  PROVE  QuotaReserved'
<1>1. TypeOK  BY DEF IInv
<1> SUFFICES ASSUME NEW v \in Users \ Exempt
             PROVE  Cardinality(Reserved(v))' <= Limit
  BY DEF QuotaReserved, Reserved
<1>2. Cardinality(Reserved(v)) <= Limit /\ IsFiniteSet(Reserved(v))
  BY <1>1, ReservedFinite DEF QuotaReserved, Reserved
<1>3. CASE Reserved(v)' \subseteq Reserved(v)
  BY <1>2, <1>3, FewerUnderQuota
<1>4. CASE UNCHANGED vars
  <2>1. Reserved(v)' = Reserved(v)
    BY <1>4 DEF vars, Reserved, Watched, Joins, Subscribed
  <2> QED BY <1>3, <2>1
<1>5. CASE Next
  <2>1. PICK u \in Users : \/ \E op, T, L, want : Starts(u, op, T, L, want)
                           \/ Count(u)
                           \/ Ends(u)
    BY <1>5, StepKinds
  <2>2. CASE Ends(u)  BY <1>3, <2>2, EndReservesNoMore
  <2>3. CASE Count(u)
    <3>1. sub' = sub /\ Joins(v)' = Joins(v)
      <4>1. job[u] \in Job /\ job[u] # Idle  BY <1>1, <2>3 DEF Count, TypeOK
      <4>2. job'[u] # Idle /\ job'[u].urls = job[u].urls
        BY <1>1, <2>3, <4>1 DEF Count, TypeOK, Job, Idle
      <4>3. v # u => job'[v] = job[v]
        BY <1>1, <2>3 DEF Count, TypeOK
      <4>4. Joins(v)' = Joins(v)
        <5>1. CASE v = u  BY <4>1, <4>2, <5>1 DEF Joins
        <5>2. CASE v # u  BY <4>3, <5>2 DEF Joins
        <5> QED BY <5>1, <5>2
      <4> QED BY <2>3, <4>4 DEF Count
    <3> QED BY <1>3, <3>1 DEF Reserved, Watched, Subscribed
  <2>4. CASE \E op, T, L, want : Starts(u, op, T, L, want)
    <3>1. PICK op, T, L, want : Starts(u, op, T, L, want)  BY <2>4
    <3>2. /\ job' = [job EXCEPT ![u] = Ask(op, T, L, want)]
          /\ job[u] = Idle /\ sub' = sub /\ T \in SUBSET Urls
          /\ T = {} \/ QuotaAllows(u, T)
      BY <3>1 DEF Starts, Begin
    <3>3. Watched(v)' = Watched(v)  BY <3>2 DEF Watched, Subscribed
    <3>4. CASE v # u
      <4>1. Joins(v)' = Joins(v)  BY <1>1, <3>2, <3>4 DEF Joins, TypeOK
      <4> QED BY <1>3, <3>3, <4>1 DEF Reserved
    <3>5. CASE v = u
      <4>1. Joins(v)' \subseteq T
        <5>1. job'[u] = Ask(op, T, L, want)  BY <1>1, <3>2 DEF TypeOK
        <5>2. Ask(op, T, L, want).urls = T  BY DEF Ask
        <5> QED BY <3>5, <5>1, <5>2 DEF Joins
      <4>2. Reserved(v) = Watched(v)  BY <3>2, <3>5 DEF Reserved, Joins
      <4>3. CASE T = {}  BY <1>3, <3>3, <4>1, <4>2, <4>3 DEF Reserved
      <4>4. CASE QuotaAllows(u, T)
        <5>1. Cardinality(Watched(v) \cup T) <= Limit
          BY <1>1, <1>2, <3>2, <3>5, <4>2, <4>4, QuotaCheck
        <5>2. IsFiniteSet(Watched(v) \cup T)
          <6>1. Watched(v) \cup T \in SUBSET Urls  BY <3>2 DEF Watched
          <6> QED BY <6>1, FS_Subset, SharingAssumption
        <5>3. Reserved(v)' \subseteq Watched(v) \cup T  BY <3>3, <4>1 DEF Reserved
        <5> QED BY <5>1, <5>2, <5>3, FewerUnderQuota
      <4> QED BY <3>2, <4>3, <4>4
    <3> QED BY <3>4, <3>5
  <2> QED BY <2>1, <2>2, <2>3, <2>4
<1> QED BY <1>4, <1>5

(* An account that makes one request at a time never watches more than the  *)
(* quota, whatever other accounts do meanwhile (_check_quota).              *)
THEOREM QuotaHolds == Spec => []QuotaKept
<1>1. Init => QuotaReserved
  <2> SUFFICES ASSUME Init PROVE QuotaReserved  OBVIOUS
  <2>1. \A v \in Users : Watched(v) \cup Joins(v) = {}
    BY DEF Init, Watched, Subscribed, Joins
  <2> QED BY <2>1, FS_EmptySet, SharingAssumption DEF QuotaReserved
<1>2. IInv /\ QuotaReserved /\ [Next]_vars => QuotaReserved'  BY NextKeepsQuota
<1>3. IInv /\ QuotaReserved => QuotaKept
  <2> SUFFICES ASSUME IInv, QuotaReserved, NEW v \in Users \ Exempt
               PROVE  Cardinality(Watched(v)) <= Limit
    BY DEF QuotaKept
  <2>1. Cardinality(Reserved(v)) <= Limit /\ IsFiniteSet(Reserved(v))
    BY ReservedFinite DEF IInv, QuotaReserved, Reserved
  <2> QED BY <2>1, FewerUnderQuota DEF Reserved
<1> QED BY <1>1, <1>2, <1>3, Invariant, PTL DEF Spec

-----------------------------------------------------------------------------
(* Subscriptions that end                                                   *)

(* Only an ending request ends subscriptions: its own to what it touches,   *)
(* or all of a product it deletes.                                          *)
LEMMA LosesHow ==
  ASSUME IInv, [Next]_vars, NEW v \in Users, NEW p \in Urls,
         Subscribed(v, p), ~Subscribed(v, p)'
  PROVE  \E u \in Users : /\ Ends(u) /\ job[u] # Idle /\ job'[u] = Idle
                          /\ p \in job[u].touch
                          /\ u = v \/ FinishDelete(u, p)
<1>1. TypeOK  BY DEF IInv
<1>2. sub' # sub  BY DEF Subscribed
<1>3. Next  BY <1>2 DEF vars
<1>4. PICK u \in Users : \/ \E op, T, L, want : Starts(u, op, T, L, want)
                         \/ Count(u)
                         \/ Ends(u)
  BY <1>3, StepKinds
<1>5. Ends(u)
  BY <1>2, <1>4 DEF Starts, Begin, Count
<1>6. job[u] # Idle /\ job'[u] = Idle
  BY <1>1, <1>5
     DEF Ends, FinishTrack, FinishRepoint, FinishDeactivate, FinishLeave, FinishDelete,
         FinishPause, FinishSetTracking, Fail, End, Ready, TypeOK
<1>7. p \in job[u].touch /\ (u = v \/ FinishDelete(u, p))
  <2>1. CASE FinishTrack(u) \/ FinishRepoint(u) \/ FinishDeactivate(u)
    BY <1>1, <2>1
       DEF FinishTrack, FinishRepoint, FinishDeactivate, SubAfter, Subscribed, TypeOK
  <2>2. CASE \E q \in Urls : FinishLeave(u, q)
    BY <1>1, <2>2 DEF FinishLeave, SubAfter, Subscribed, TypeOK
  <2>3. CASE \E q \in Urls : FinishDelete(u, q)
    <3>1. PICK q \in Urls : FinishDelete(u, q)  BY <2>3
    <3>2. p = q  BY <1>1, <3>1 DEF FinishDelete, Subscribed, TypeOK
    <3> QED BY <3>1, <3>2 DEF FinishDelete
  <2>4. CASE \E q \in Urls : FinishPause(u, q)
    <3>1. PICK q \in Urls : FinishPause(u, q)  BY <2>4
    <3>2. job[u].want # "none"
      BY <1>6, <3>1 DEF FinishPause, Ready, IInv, JobsHold
    <3> QED BY <1>1, <3>1, <3>2 DEF FinishPause, Subscribed, TypeOK
  <2>5. CASE FinishSetTracking(u) \/ Fail(u)
    BY <1>2, <2>5 DEF FinishSetTracking, Fail
  <2> QED BY <1>5, <2>1, <2>2, <2>3, <2>4, <2>5 DEF Ends
<1> QED BY <1>5, <1>6, <1>7

(* An account loses a subscription by its own request, or to a removal that *)
(* had not counted it (remove, unsubscribe, _release).                      *)
THEOREM OthersKeepSubscriptions == Spec => OthersLoseOnlyUncounted
<1> DEFINE Loses(v, p) ==
      Subscribed(v, p) /\ ~Subscribed(v, p)' =>
        \/ job[v] # Idle /\ p \in job[v].touch /\ job'[v] = Idle
        \/ \E u \in Users \ {v} : /\ job[u] # Idle /\ job'[u] = Idle
                                  /\ job[u].op = "remove"
                                  /\ p \in job[u].touch
                                  /\ v \notin job[u].others[p]
<1>1. ASSUME IInv, [Next]_vars, NEW v \in Users, NEW p \in Urls
      PROVE  Loses(v, p)
  <2> SUFFICES ASSUME Subscribed(v, p), ~Subscribed(v, p)'
               PROVE  \/ job[v] # Idle /\ p \in job[v].touch /\ job'[v] = Idle
                      \/ \E u \in Users \ {v} : /\ job[u] # Idle /\ job'[u] = Idle
                                                /\ job[u].op = "remove"
                                                /\ p \in job[u].touch
                                                /\ v \notin job[u].others[p]
    OBVIOUS
  <2>1. PICK u \in Users : /\ Ends(u) /\ job[u] # Idle /\ job'[u] = Idle
                           /\ p \in job[u].touch
                           /\ u = v \/ FinishDelete(u, p)
    BY <1>1, LosesHow
  <2>2. CASE u # v
    BY <2>1, <2>2 DEF FinishDelete, Ready, LastToLeave
  <2> QED BY <2>1, <2>2
<1>2. IInv /\ [Next]_vars => [\A v \in Users, p \in Urls : Loses(v, p)]_vars
  BY <1>1
<1> QED BY <1>2, Invariant, PTL DEF Spec, OthersLoseOnlyUncounted

(* A product whose last subscriber leaves is not scheduled any more, but    *)
(* for the two races the property names (_release, remove).                 *)
THEOREM LastLeaverQuiets == Spec => UnwatchedIsQuiet
<1> DEFINE Quiets(p) ==
      Subscribers(p) # {} /\ Subscribers(p)' = {} /\ status'[p] = "active" =>
        \E u \in Subscribers(p) :
          /\ job[u] # Idle /\ job'[u] = Idle /\ p \in job[u].touch
          /\ job[u].others[p] # {} \/ job[u].was[p] = "paused"
<1>1. ASSUME IInv, [Next]_vars, NEW p \in Urls
      PROVE  Quiets(p)
  <2> SUFFICES ASSUME Subscribers(p) # {}, Subscribers(p)' = {}, status'[p] = "active"
               PROVE  \E u \in Subscribers(p) :
                        /\ job[u] # Idle /\ job'[u] = Idle /\ p \in job[u].touch
                        /\ job[u].others[p] # {} \/ job[u].was[p] = "paused"
    OBVIOUS
  <2>0. TypeOK  BY <1>1 DEF IInv
  <2>1. PICK v \in Users : Subscribed(v, p) /\ ~Subscribed(v, p)'
    BY DEF Subscribers
  <2>2. PICK u \in Users : /\ Ends(u) /\ job[u] # Idle /\ job'[u] = Idle
                           /\ p \in job[u].touch
                           /\ u = v \/ FinishDelete(u, p)
    BY <1>1, <2>1, LosesHow
  <2>3. ~FinishDelete(u, p)
    BY <2>0 DEF FinishDelete, TypeOK
  <2>4. u \in Subscribers(p)  BY <2>1, <2>2, <2>3 DEF Subscribers
  <2>5. Exists(p)  BY <2>0, <2>4 DEF TypeOK
  <2>6. ASSUME job[u].others[p] = {}, job[u].was[p] # "paused"
        PROVE  FALSE
    <3>1. LastToLeave(u, p)  BY <2>6 DEF LastToLeave
    <3>2. CASE FinishRepoint(u) \/ FinishDeactivate(u)
      <4>1. p \in Released(u) /\ p \notin NewRows(u)
        BY <2>2, <2>5, <3>1 DEF Released, NewRows
      <4> QED BY <2>6, <3>2, <4>1 DEF FinishRepoint, FinishDeactivate, StatusAfter
    <3>3. CASE \E q \in Urls : FinishLeave(u, q)
      BY <2>0, <2>1, <2>2, <2>3, <3>1, <3>3
         DEF FinishLeave, SubAfter, Subscribed, TypeOK
    <3>4. CASE \E q \in Urls : FinishDelete(u, q)
      BY <2>0, <2>1, <2>3, <3>4 DEF FinishDelete, Subscribed, TypeOK
    <3>5. CASE \E q \in Urls : FinishPause(u, q)
      <4>1. PICK q \in Urls : FinishPause(u, q)  BY <3>5
      <4>2. job[u].want # "none"
        BY <1>1, <2>2, <4>1 DEF FinishPause, Ready, IInv, JobsHold
      <4> QED BY <2>0, <2>1, <4>1, <4>2 DEF FinishPause, Subscribed, TypeOK
    <3>6. CASE FinishTrack(u) \/ FinishSetTracking(u) \/ Fail(u)
      BY <2>0, <2>1, <3>6
         DEF FinishTrack, FinishSetTracking, Fail, SubAfter, Subscribed, TypeOK
    <3> QED BY <2>2, <3>2, <3>3, <3>4, <3>5, <3>6 DEF Ends
  <2> QED BY <2>2, <2>4, <2>6
<1>2. IInv /\ [Next]_vars => [\A p \in Urls : Quiets(p)]_vars
  BY <1>1
<1> QED BY <1>2, Invariant, PTL DEF Spec, UnwatchedIsQuiet
===============================================================================
