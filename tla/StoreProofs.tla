---------------------------- MODULE StoreProofs ----------------------------
(***************************************************************************)
(* Proofs about the two modules between a check and a store: StorePacing,  *)
(* for any number of callers and any intervals, and StoreFetch, for any    *)
(* pages the stores may answer with.                                       *)
(***************************************************************************)
EXTENDS StorePacing, StoreFetch, WellFoundedInduction, TLAPS

(* StorePacing.                                                            *)
(*                                                                         *)
(* The queue is kept honest by PacedInv: the next free slot lies a gap     *)
(* behind every sleeper, any two sleepers lie a gap apart, and both lie a  *)
(* gap behind the last request.  The gap lost to a transaction that waited *)
(* for the row is paid once, by the caller that waited.                    *)

Gap == MinInterval - LockWait

Sleeps(c) == pc[c] = "sleeping"

QueueEndsBehind == \A c \in Caller : Sleeps(c) => nextIn - timer[c] >= Gap

SleepersApart ==
  \A c, d \in Caller :
    Sleeps(c) /\ Sleeps(d) /\ c # d => timer[c] - timer[d] >= Gap \/ timer[d] - timer[c] >= Gap

SleepersBehindLast == \A c \in Caller : Sleeps(c) => since + timer[c] >= Gap

SlotBehindLast == since + nextIn >= Gap

PacedInv ==
  /\ TypeOK
  /\ QueueEndsBehind
  /\ SleepersApart
  /\ SleepersBehindLast
  /\ SlotBehindLast
  /\ QuietSoonAfterOpening

(* What a caller is once it has moved.                                      *)
LEMMA MoveMoves ==
  ASSUME TypeOK, NEW c \in Caller, NEW where, NEW time, Move(c, where, time)
  PROVE  /\ pc'[c] = where /\ timer'[c] = time
         /\ \A d \in Caller \ {c} : pc'[d] = pc[d] /\ timer'[d] = timer[d]
BY DEF TypeOK, Move

(* Types after a move, when the caller's new place suits its timer.         *)
TimerSuits(where, time) ==
  /\ where \in {"idle", "claiming", "sleeping", "fetching", "reporting"}
  /\ time \in Nat
  /\ where = "sleeping" => time <= MaxWait
  /\ where \in {"claiming", "reporting"} => time <= LockWait
  /\ where \in {"idle", "fetching"} => time = 0

TimersTyped ==
  /\ pc \in [Caller -> {"idle", "claiming", "sleeping", "fetching", "reporting"}]
  /\ timer \in [Caller -> Nat]
  /\ \A c \in Caller : TimerSuits(pc[c], timer[c])

LEMMA MoveKeepsTypes ==
  ASSUME TypeOK, NEW c \in Caller, NEW where, NEW time, Move(c, where, time),
         TimerSuits(where, time)
  PROVE  TimersTyped'
<1>1. /\ pc' \in [Caller -> {"idle", "claiming", "sleeping", "fetching", "reporting"}]
      /\ timer' \in [Caller -> Nat]
  BY DEF TypeOK, Move, TimerSuits
<1>2. \A d \in Caller : TimerSuits(pc[d], timer[d])
  BY DEF TypeOK, TimerSuits
<1>3. \A d \in Caller : TimerSuits(pc'[d], timer'[d])
  BY <1>2, MoveMoves DEF TimerSuits
<1> QED BY <1>1, <1>3 DEF TimersTyped, TimerSuits

(* A caller that does not go to sleep, sends nothing, and leaves the slot   *)
(* alone disturbs nobody's place in the queue.                              *)
LEMMA LeavingKeepsQueue ==
  ASSUME PacedInv, NEW c \in Caller, NEW where, NEW time \in Nat, Move(c, where, time),
         where # "sleeping", nextIn' = nextIn, since' = since
  PROVE  (QueueEndsBehind /\ SleepersApart /\ SleepersBehindLast /\ SlotBehindLast)'
<1> USE MoveMoves DEF PacedInv
<1>1. ASSUME NEW d \in Caller, Sleeps(d)'
      PROVE  d # c /\ Sleeps(d) /\ timer'[d] = timer[d]
  BY <1>1 DEF Sleeps
<1> QED BY <1>1 DEF QueueEndsBehind, SleepersApart, SleepersBehindLast, SlotBehindLast,
                    Sleeps, Gap

LEMMA InvInit == Init => PacedInv
BY PacingAssumption
   DEF Init, PacedInv, TypeOK, NotOpen, QueueEndsBehind, SleepersApart, SleepersBehindLast,
       SlotBehindLast, QuietSoonAfterOpening, Sleeps, Gap

(* The steps that touch neither the slot nor the circuit.                   *)
LEMMA PlainStepKeepsInv ==
  ASSUME PacedInv, NEW c \in Caller,
         Ask(c) \/ RefusedOpen(c) \/ Answered(c) \/ Declined(c) \/ Crash(c)
  PROVE  PacedInv'
<1> USE PacingAssumption
<1>1. PICK where, time : /\ Move(c, where, time) /\ TimerSuits(where, time)
                         /\ where # "sleeping"
  BY DEF Ask, RefusedOpen, Answered, Declined, Crash, TimerSuits
<1>2. UNCHANGED <<nextIn, openIn, failures, since>>
  BY DEF Ask, RefusedOpen, Answered, Declined, Crash
<1>3. TimersTyped'
  BY <1>1, MoveKeepsTypes DEF PacedInv
<1>4. TypeOK'
  <2>1. succeeded' \in [Caller -> BOOLEAN]
    BY DEF Ask, RefusedOpen, Answered, Declined, Crash, PacedInv, TypeOK
  <2>2. faults' \in 0 .. MaxFaults
    BY DEF Ask, RefusedOpen, Answered, Declined, Crash, PacedInv, TypeOK
  <2> QED
    BY <1>2, <1>3, <2>1, <2>2 DEF PacedInv, TypeOK, NotOpen, TimersTyped, TimerSuits
<1>5. (QueueEndsBehind /\ SleepersApart /\ SleepersBehindLast /\ SlotBehindLast)'
  BY <1>1, <1>2, LeavingKeepsQueue DEF TimerSuits
<1>6. QuietSoonAfterOpening'
  BY <1>1, <1>2, MoveMoves DEF PacedInv, QuietSoonAfterOpening
<1> QED BY <1>4, <1>5, <1>6 DEF PacedInv

LEMMA BusyKeepsInv ==
  ASSUME PacedInv, NEW c \in Caller, RefusedBusy(c)
  PROVE  PacedInv'
<1> USE PacingAssumption DEF RefusedBusy
<1>1. Move(c, "idle", 0) /\ TimerSuits("idle", 0)
  BY DEF TimerSuits
<1>2. TypeOK'
  BY <1>1, MoveKeepsTypes DEF PacedInv, TypeOK, NotOpen, TimersTyped, TimerSuits
<1>3. (QueueEndsBehind /\ SleepersApart /\ SleepersBehindLast /\ SlotBehindLast)'
  BY <1>1, LeavingKeepsQueue
<1>4. QuietSoonAfterOpening'
  BY DEF QuietSoonAfterOpening, NotOpen
<1> QED BY <1>2, <1>3, <1>4 DEF PacedInv

(* A granted caller queues behind all sleepers, and the next slot behind it.*)
LEMMA GrantKeepsInv ==
  ASSUME PacedInv, NEW c \in Caller, Granted(c)
  PROVE  PacedInv'
<1> DEFINE age == timer[c]
           time == WaitFor(age)
<1> USE PacingAssumption
<1>1. PICK jitter \in 0 .. Jitter : nextIn' = NextSlot(age, MinInterval + jitter)
  BY DEF Granted
<1>2. age \in 0 .. LockWait /\ nextIn \in Int /\ since \in Int
  BY DEF PacedInv, TypeOK, Granted
<1>3. /\ time \in Nat /\ time <= MaxWait /\ time >= nextIn + age
      /\ nextIn' = time - age + MinInterval + jitter
  BY <1>1, <1>2 DEF Granted, WorthQueueing, WaitFor, NextSlot, Larger
<1>4. Move(c, "sleeping", time) /\ TimerSuits("sleeping", time)
  BY <1>3 DEF Granted, TimerSuits
<1>5. /\ pc'[c] = "sleeping" /\ timer'[c] = time
      /\ \A d \in Caller \ {c} : pc'[d] = pc[d] /\ timer'[d] = timer[d]
  BY <1>4, MoveMoves DEF PacedInv
<1> HIDE DEF age, time
<1>6. TypeOK'
  <2>1. TimersTyped'
    BY <1>4, MoveKeepsTypes DEF PacedInv
  <2>2. nextIn' \in -LockWait .. MaxWait + MinInterval + Jitter
    BY <1>1, <1>2, <1>3
  <2>3. UNCHANGED <<failures, succeeded, since, faults>> /\ openIn' = NotOpen
    BY DEF Granted
  <2> QED BY <2>1, <2>2, <2>3 DEF PacedInv, TypeOK, NotOpen, TimersTyped, TimerSuits
<1>7. \A d \in Caller : timer[d] \in Int
  BY DEF PacedInv, TypeOK
<1>8. QueueEndsBehind'
  BY <1>1, <1>2, <1>3, <1>5, <1>7 DEF PacedInv, QueueEndsBehind, Sleeps, Gap
<1>9. SleepersApart'
  <2>1. \A d \in Caller : Sleeps(d) /\ d # c => time - timer[d] >= Gap
    BY <1>2, <1>3, <1>7 DEF PacedInv, QueueEndsBehind, Gap
  <2> QED BY <2>1, <1>3, <1>5, <1>7 DEF PacedInv, SleepersApart, Sleeps, Gap
<1>10. since' = since
  BY DEF Granted
<1>11. SleepersBehindLast'
  BY <1>2, <1>3, <1>5, <1>7, <1>10 DEF PacedInv, SleepersBehindLast, SlotBehindLast, Sleeps, Gap
<1>12. SlotBehindLast'
  BY <1>1, <1>2, <1>3, <1>10 DEF PacedInv, SlotBehindLast, Gap
<1>13. QuietSoonAfterOpening'
  BY DEF Granted, QuietSoonAfterOpening, NotOpen
<1> QED BY <1>6, <1>8, <1>9, <1>11, <1>12, <1>13 DEF PacedInv

LEMMA SendKeepsInv ==
  ASSUME PacedInv, NEW c \in Caller, Send(c)
  PROVE  PacedInv'
<1> USE PacingAssumption
<1>1. Move(c, "fetching", 0) /\ TimerSuits("fetching", 0)
  BY DEF Send, TimerSuits
<1>2. /\ pc'[c] = "fetching" /\ timer'[c] = 0
      /\ \A d \in Caller \ {c} : pc'[d] = pc[d] /\ timer'[d] = timer[d]
  BY <1>1, MoveMoves DEF PacedInv
<1>3. UNCHANGED <<nextIn, openIn, failures, succeeded, faults>> /\ since' = 0
  BY DEF Send
<1>4. TypeOK'
  BY <1>1, <1>3, MoveKeepsTypes DEF PacedInv, TypeOK, NotOpen, TimersTyped, TimerSuits
<1>5. Sleeps(c) /\ timer[c] = 0 /\ nextIn \in Int /\ \A d \in Caller : timer[d] \in Nat
  BY DEF Send, Sleeps, PacedInv, TypeOK
<1>6. QueueEndsBehind' /\ SleepersApart'
  BY <1>2, <1>3 DEF PacedInv, QueueEndsBehind, SleepersApart, Sleeps, Gap
<1>7. SleepersBehindLast'
  BY <1>2, <1>3, <1>5 DEF PacedInv, SleepersApart, SleepersBehindLast, Sleeps, Gap
<1>8. SlotBehindLast'
  BY <1>3, <1>5 DEF PacedInv, QueueEndsBehind, SlotBehindLast, Gap
<1>9. QuietSoonAfterOpening'
  BY <1>2, <1>3 DEF PacedInv, QuietSoonAfterOpening
<1> QED BY <1>4, <1>6, <1>7, <1>8, <1>9 DEF PacedInv

LEMMA ReportKeepsInv ==
  ASSUME PacedInv, NEW c \in Caller, ReportSuccess(c) \/ ReportFailure(c)
  PROVE  PacedInv'
<1> USE PacingAssumption
<1>1. Move(c, "idle", 0) /\ TimerSuits("idle", 0) /\ Reported(c)
  BY DEF ReportSuccess, ReportFailure, Reported, TimerSuits
<1>2. /\ pc'[c] = "idle" /\ \A d \in Caller \ {c} : pc'[d] = pc[d] /\ timer'[d] = timer[d]
  BY <1>1, MoveMoves DEF PacedInv
<1>3. timer[c] \in 0 .. LockWait /\ \A d \in Caller : timer[d] \in Nat
  BY DEF ReportSuccess, ReportFailure, Reported, PacedInv, TypeOK
<1>4. \/ openIn' \in {NotOpen, openIn}
      \/ openIn' = Reset - timer[c]
  BY DEF ReportSuccess, ReportFailure
<1>5. failures' \in 0 .. FailureThreshold
  BY DEF ReportSuccess, ReportFailure, PacedInv, TypeOK, Smaller
<1>6. TypeOK'
  BY <1>1, <1>3, <1>4, <1>5, MoveKeepsTypes
     DEF Reported, PacedInv, TypeOK, NotOpen, TimersTyped, TimerSuits
<1>7. (QueueEndsBehind /\ SleepersApart /\ SleepersBehindLast /\ SlotBehindLast)'
  BY <1>1, LeavingKeepsQueue DEF Reported
<1>8. QuietSoonAfterOpening'
  <2>1. \A d \in Caller : Sleeps(d) => timer[d] <= MaxWait
    BY DEF PacedInv, TypeOK, Sleeps
  <2> QED BY <1>2, <1>3, <1>4, <2>1 DEF PacedInv, QuietSoonAfterOpening, Sleeps, NotOpen
<1> QED BY <1>6, <1>7, <1>8 DEF PacedInv

LEMMA TickKeepsInv ==
  ASSUME PacedInv, Tick
  PROVE  PacedInv'
<1> USE PacingAssumption DEF Tick
<1>1. /\ nextIn \in Int /\ openIn \in Int /\ since \in 0 .. MinInterval
      /\ \A c \in Caller : timer[c] \in Nat
  BY DEF PacedInv, TypeOK, NotOpen
<1>2. \A c \in Caller : Sleeps(c) => timer[c] > 0 /\ timer'[c] = timer[c] - 1
  BY DEF Sleeps
<1>3. nextIn' \in Int /\ nextIn' >= nextIn - 1 /\ nextIn' >= -LockWait
  BY <1>1 DEF Larger
<1>4. (since' = since + 1 \/ since' = MinInterval) /\ since' \in 0 .. MinInterval
  BY <1>1 DEF Smaller
<1>5. TypeOK'
  <2>1. timer' \in [Caller -> Nat]
    BY DEF PacedInv, TypeOK
  <2>2. nextIn' \in -LockWait .. MaxWait + MinInterval + Jitter
    BY DEF PacedInv, TypeOK, Larger
  <2>3. openIn' \in NotOpen .. Reset
    BY DEF PacedInv, TypeOK, Larger, NotOpen
  <2> QED BY <1>4, <2>1, <2>2, <2>3 DEF PacedInv, TypeOK
<1>6. QueueEndsBehind'
  <2>1. \A c \in Caller : Sleeps(c)' => Sleeps(c)
    BY DEF Sleeps
  <2> HIDE DEF Tick
  <2> QED BY <1>1, <1>2, <1>3, <2>1 DEF PacedInv, QueueEndsBehind, Gap
<1>7. SleepersApart'
  BY <1>1, <1>2 DEF PacedInv, SleepersApart, Sleeps, Gap
<1>8. SleepersBehindLast'
  BY <1>1, <1>2, <1>4 DEF PacedInv, SleepersBehindLast, Sleeps, Gap
<1>9. SlotBehindLast'
  <2>1. since + nextIn >= MinInterval - LockWait
    BY DEF PacedInv, SlotBehindLast, Gap
  <2>2. PICK next \in Int, last \in Int : next = nextIn' /\ last = since'
    BY <1>3, <1>4
  <2>3. /\ next >= nextIn - 1 /\ next >= -LockWait
        /\ last = since + 1 \/ last = MinInterval
    BY <1>3, <1>4, <2>2
  <2>4. last + next >= MinInterval - LockWait
    BY <1>1, <2>1, <2>3
  <2> QED BY <2>2, <2>4 DEF SlotBehindLast, Gap
<1>10. QuietSoonAfterOpening'
  BY <1>1, <1>2 DEF PacedInv, QuietSoonAfterOpening, Sleeps, Larger, NotOpen
<1> QED BY <1>5, <1>6, <1>7, <1>8, <1>9, <1>10 DEF PacedInv

LEMMA PacedStep == PacedInv /\ [Next]_vars => PacedInv'
<1> SUFFICES ASSUME PacedInv, [Next]_vars PROVE PacedInv'
  OBVIOUS
<1>1. CASE UNCHANGED vars
  BY <1>1 DEF vars, PacedInv, TypeOK, NotOpen, QueueEndsBehind, SleepersApart,
              SleepersBehindLast, SlotBehindLast, QuietSoonAfterOpening, Sleeps
<1> QED
  BY <1>1, PlainStepKeepsInv, BusyKeepsInv, GrantKeepsInv, SendKeepsInv, ReportKeepsInv,
     TickKeepsInv DEF Next, Steps

-----------------------------------------------------------------------------
(* The guard's state and its callers' timers keep their types: no caller    *)
(* ever sleeps longer than MaxWait, and the queue never reaches further     *)
(* than MaxWait and one gap.                                                *)
THEOREM TypeCorrect == Spec => []TypeOK
<1>1. PacedInv => TypeOK
  BY DEF PacedInv
<1> QED BY <1>1, InvInit, PacedStep, PTL DEF Spec

(* The guard paces the host: two requests it lets through are MinInterval   *)
(* apart, less what a transaction waited for the host's row, whoever asks.  *)
THEOREM Paces == Spec => RequestsPaced
<1>1. ASSUME PacedInv, [Next]_vars, NEW c \in Caller, pc[c] = "sleeping", pc'[c] = "fetching"
      PROVE  since >= MinInterval - LockWait
  <2> USE MoveMoves DEF PacedInv
  <2>1. Send(c)
    BY <1>1
       DEF Next, Steps, vars, Ask, RefusedOpen, RefusedBusy, Granted, Send, Answered,
           Declined, ReportSuccess, ReportFailure, Reported, Crash, Tick
  <2> QED BY <1>1, <2>1, PacingAssumption DEF Send, SleepersBehindLast, Sleeps, Gap, TypeOK
<1>2. PacedInv /\ [Next]_vars =>
        [\A c \in Caller :
           pc[c] = "sleeping" /\ pc'[c] = "fetching" => since >= MinInterval - LockWait]_vars
  BY <1>1
<1> QED BY <1>2, InvInit, PacedStep, PTL DEF Spec, RequestsPaced

(* Whenever the circuit opens, the callers still waiting for their slot are *)
(* gone within MaxWait (and the report's own wait for the row).             *)
THEOREM OpeningQuiets == Spec => []QuietSoonAfterOpening
<1>1. PacedInv => QuietSoonAfterOpening
  BY DEF PacedInv
<1> QED BY <1>1, InvInit, PacedStep, PTL DEF Spec

-----------------------------------------------------------------------------
(* StoreFetch: what a fetch leaves running.                                *)

Fetching == {"http", "render", "launch", "load", "localise"}

(* Each phase of a fetch or a session holds what it has opened so far.     *)
OpenByPhase ==
  /\ phase \in {"idle", "http", "render"} =>
       page = None /\ driver = (session = "open") /\ chromium = (session = "open")
  /\ phase = "opening" => page = None /\ driver /\ ~chromium /\ session = "none"
  /\ phase = "launch" => page = None /\ driver /\ ~chromium /\ session # "open"
  /\ phase \in {"load", "localise"} => driver /\ chromium
  /\ phase = "load" => page = None

(* What a page may be while it is loaded.                                  *)
PageOf(t) == [shows : Pages[t.adapter], area : BOOLEAN,
              status : {"ok", "blocked", "unavailable", "http_error"}]

(* A fetch under way has a task and no conclusion yet.                     *)
TaskByPhase ==
  /\ phase \in Fetching => task \in Tasks /\ result = None
  /\ phase = "localise" => page \in PageOf(task)

FetchInv ==
  /\ FetchTypeOK
  /\ OpenByPhase
  /\ TaskByPhase
  /\ StockIsEvidence

-----------------------------------------------------------------------------
(* StoreFetch: what is read off a page was there.                           *)

(* A set of naturals has a least element.                                   *)
LEMMA MinIsLeast ==
  ASSUME NEW S \in SUBSET Nat, S # {}
  PROVE  Min(S) \in S /\ \A y \in S : Min(S) <= y
<1> DEFINE less == {p \in Nat \X Nat : p[1] < p[2]}
<1>1. IsWellFoundedOn(less, Nat)
  BY NatLessThanWellFounded DEF OpToRel
<1>2. \A x, y \in Nat : x < y => <<x, y>> \in less
  OBVIOUS
<1> HIDE DEF less
<1>3. PICK x \in S : \A y \in S : ~(<<y, x>> \in less)
  <2>1. S \subseteq Nat /\ S # {}
    OBVIOUS
  <2> QED
    BY <1>1, <2>1, WFMin
<1>4. \A y \in S : x <= y
  <2>1. \A y \in S : y \in Nat /\ x \in Nat /\ ~(y < x)
    BY <1>2, <1>3, Zenon
  <2> QED
    BY <2>1
<1> QED
  BY <1>4 DEF Min

(* A node that was found is not the None of one that was not.               *)
LEMMA SaidIsSomething ==
  ASSUME NEW d \in Said
  PROVE  d # None
<1>1. DOMAIN d = {"name", "price", "token"}
  BY DEF Said
<1>2. DOMAIN None = {"none"}
  BY DEF None
<1> QED
  BY <1>1, <1>2

LEMMA StatementSays ==
  ASSUME NEW d \in Said
  PROVE  /\ Statement(d).stock = ParseAvailability(d.token)
         /\ Statement(d).price = d.price
         /\ Statement(d).stock \in Availability
BY DEF Statement, ParseAvailability, Availability

(* What from_json_ld returns is what one of the nodes says.                 *)
LEMMA JsonLdSays ==
  ASSUME NEW nodes \in Seq(Said), FromJsonLd(nodes) # None
  PROVE  \E d \in Range(nodes) : d \in Said /\ FromJsonLd(nodes) = Statement(d)
<1> DEFINE usable == {i \in DOMAIN nodes : Usable(nodes[i])}
           priced == {i \in usable : nodes[i].price}
           best == IF priced # {} THEN priced ELSE usable
<1>1. FromJsonLd(nodes) = FirstAt([i \in DOMAIN nodes |-> Statement(nodes[i])], best)
  BY DEF FromJsonLd
<1>2. best \in SUBSET DOMAIN nodes /\ best \in SUBSET Nat
  OBVIOUS
<1> HIDE DEF best
<1>3. best # {}
  BY <1>1 DEF FirstAt
<1>4. Min(best) \in DOMAIN nodes
  BY <1>2, <1>3, MinIsLeast
<1>5. FromJsonLd(nodes) = Statement(nodes[Min(best)])
  BY <1>1, <1>3, <1>4 DEF FirstAt
<1>6. nodes[Min(best)] \in Range(nodes) /\ nodes[Min(best)] \in Said
  BY <1>4 DEF Range
<1> QED
  BY <1>5, <1>6

(* What extract returns is what a node or the meta tags say, or the label,  *)
(* which says nothing of stock.                                             *)
LEMMA ExtractSays ==
  ASSUME NEW pg \in GenericPages, Extract(pg) # None
  PROVE  \/ \E d \in Range(pg.ld) \cup {pg.meta} : d \in Said /\ Extract(pg) = Statement(d)
         \/ Extract(pg).stock = "unknown" /\ Extract(pg).price
<1> DEFINE all == <<FromJsonLd(pg.ld), FromMeta(pg.meta), FromLabel(pg.labelled)>>
           found == {i \in 1 .. 3 : all[i] # None}
           priced == {i \in found : all[i].price}
           stocked == {i \in found : all[i].stock # "unknown"}
           named == {i \in found : all[i].name}
           best == IF priced # {} THEN priced ELSE IF stocked # {} THEN stocked ELSE named
<1>1. Extract(pg) = FirstAt(all, best)
  BY DEF Extract
<1>2. best \in SUBSET found /\ best \in SUBSET Nat
  OBVIOUS
<1>3. best # {}
  <2> HIDE DEF all, best
  <2> QED
    BY <1>1 DEF FirstAt
<1>4. Min(best) \in found
  <2> HIDE DEF best
  <2> QED
    BY <1>2, <1>3, MinIsLeast
<1> DEFINE k == Min(best)
<1>5. Extract(pg) = all[k] /\ k \in 1 .. 3 /\ all[k] # None
  <2> HIDE DEF best, all
  <2> QED
    BY <1>1, <1>3, <1>4 DEF FirstAt
<1> HIDE DEF k
<1>6. pg.ld \in Seq(Said) /\ pg.meta \in Said \cup {None} /\ pg.labelled \in BOOLEAN
  BY PagesAssumption
<1>7. CASE k = 1
  BY <1>5, <1>6, <1>7, JsonLdSays
<1>8. CASE k = 2
  <2>1. Extract(pg) = FromMeta(pg.meta) /\ FromMeta(pg.meta) # None
    BY <1>5, <1>8
  <2> QED
    BY <2>1, <1>6 DEF FromMeta
<1>9. CASE k = 3
  <2>1. Extract(pg) = FromLabel(pg.labelled) /\ FromLabel(pg.labelled) # None
    BY <1>5, <1>9
  <2> QED
    BY <2>1, <1>6 DEF FromLabel
<1> QED
  BY <1>5, <1>7, <1>8, <1>9

(* A result may claim stock only where the page says so.                    *)
Evident(t, pg, r) ==
  /\ r.availability \in Availability
  /\ r.availability # "unknown" =>
       /\ Says(t, pg, r.availability, r.price)
       /\ (t.rule # None /\ t.rule.gated /\ ~r.price) => r.availability = "in_stock"

(* The adapter of a task is one of three; a gated host ships nowhere        *)
(* without an area, and of the three only the generic adapter meets one.    *)
LEMMA TaskFits ==
  ASSUME NEW t \in Tasks
  PROVE  /\ t.adapter \in {"generic", "flipkart", "amazon"}
         /\ Pages[t.adapter] = CASE t.adapter = "generic" -> GenericPages
                                 [] t.adapter = "flipkart" -> FlipkartPages
                                 [] t.adapter = "amazon" -> AmazonPages
         /\ t.rule # None /\ t.rule.gated => ~t.rule.national /\ t.adapter = "generic"
<1>1. PICK a \in DOMAIN Pages :
        t \in [adapter : {a}, rule : Rules(a), allowBrowser : BOOLEAN, pincode : BOOLEAN]
  BY DEF Tasks
<1>2. a \in {"generic", "flipkart", "amazon"} /\ t.adapter = a /\ t.rule \in Rules(a)
  BY <1>1 DEF Pages
<1> QED
  BY <1>2 DEF Pages, Rules, Rule

(* escalate takes a claim about stock back, and makes none.                 *)
LEMMA EscalateKeeps ==
  ASSUME NEW t \in Tasks, NEW outcome, NEW stock \in Availability,
         NEW r, r = Escalate(t, Result(outcome, stock, FALSE))
  PROVE  /\ r.availability \in {stock, "unknown"} /\ r.price = FALSE
         /\ t.rule # None /\ t.rule.gated => r.availability \in {"in_stock", "unknown"}
<1>1. t.rule # None /\ t.rule.gated => ~t.rule.national
  BY TaskFits
<1> QED
  BY <1>1 DEF Escalate, Result, Availability

LEMMA GenericEvident ==
  ASSUME NEW t \in Tasks, t.adapter = "generic", NEW pg \in GenericPages
  PROVE  Evident(t, pg, Generic(t, pg))
<1> DEFINE d == Extract(pg)
           r == Generic(t, pg)
<1>1. CASE d = None
  BY <1>1 DEF Generic, Failed, Result, Evident, Availability
<1>2. CASE d # None /\ d.stock = "unknown" /\ d.price
  BY <1>2 DEF Generic, Result, Evident, Availability
<1>3. ASSUME NEW n \in Range(pg.ld) \cup {pg.meta}, n \in Said, d = Statement(n), d # None
      PROVE  Evident(t, pg, r)
  <2>1. d.stock = ParseAvailability(n.token) /\ d.price = n.price /\ d.stock \in Availability
        /\ n # None
    BY <1>3, StatementSays, SaidIsSomething
  <2> HIDE DEF d
  <2>2. CASE d.price
    <3>1. r = Result("ok", d.stock, TRUE)
      BY <1>3, <2>2 DEF Generic, d
    <3>2. r.availability = d.stock /\ r.price = TRUE
      BY <3>1 DEF Result
    <3> HIDE DEF r
    <3> QED
      BY <1>3, <2>1, <2>2, <3>2 DEF Evident, Says
  <2>3. CASE ~d.price
    <3>1. PICK outcome : r = Escalate(t, Result(outcome, d.stock, FALSE))
      BY <1>3, <2>3 DEF Generic, d
    <3>2. /\ r.availability \in {d.stock, "unknown"} /\ r.price = FALSE
          /\ t.rule # None /\ t.rule.gated => r.availability \in {"in_stock", "unknown"}
      BY <2>1, <3>1, EscalateKeeps
    <3> HIDE DEF r
    <3> QED
      BY <1>3, <2>1, <3>2 DEF Evident, Says, Availability
  <2> QED
    BY <2>2, <2>3
<1> QED
  BY <1>1, <1>2, <1>3, ExtractSays

LEMMA FlipkartEvident ==
  ASSUME NEW t \in Tasks, t.adapter = "flipkart", NEW pg \in FlipkartPages
  PROVE  Evident(t, pg, Flipkart(t, pg))
<1> DEFINE d == FromJsonLd(pg.ld)
           r == Flipkart(t, pg)
<1>1. pg.ld \in Seq(Said) /\ pg.soldOut \in BOOLEAN /\ pg.price \in BOOLEAN
  BY PagesAssumption
<1>2. ~(t.rule # None /\ t.rule.gated)
  BY TaskFits
<1>3. CASE d # None /\ d.price
  <2>1. PICK n \in Range(pg.ld) : n \in Said /\ d = Statement(n)
    BY <1>1, <1>3, JsonLdSays
  <2>2. d.stock = ParseAvailability(n.token) /\ n.price /\ d.stock \in Availability
    BY <1>3, <2>1, StatementSays
  <2>3. Flipkart(t, pg).availability = d.stock /\ Flipkart(t, pg).price = TRUE
    BY <1>3 DEF Flipkart, Result
  <2> HIDE DEF d
  <2> QED
    BY <1>2, <2>1, <2>2, <2>3 DEF Evident, Says
<1>4. CASE ~(d # None /\ d.price)
  <2>1. CASE pg.soldOut
    BY <1>2, <1>4, <2>1 DEF Flipkart, Result, Evident, Says, Availability
  <2>2. CASE ~pg.soldOut /\ pg.price
    BY <1>2, <1>4, <2>2 DEF Flipkart, Result, Evident, Says, Availability
  <2>3. CASE ~pg.soldOut /\ ~pg.price /\ pg.name
    <3>1. r = Escalate(t, Result("price_not_found", "unknown", FALSE))
      BY <1>4, <2>3 DEF Flipkart
    <3>2. r.availability = "unknown"
      BY <3>1, EscalateKeeps DEF Availability
    <3> QED
      BY <3>2 DEF Evident, Availability
  <2>4. CASE ~pg.soldOut /\ ~pg.price /\ ~pg.name
    BY <1>4, <2>4 DEF Flipkart, Failed, Result, Evident, Availability
  <2> QED
    BY <2>1, <2>2, <2>3, <2>4
<1> QED
  BY <1>3, <1>4

LEMMA AmazonEvident ==
  ASSUME NEW t \in Tasks, t.adapter = "amazon", NEW pg \in AmazonPages
  PROVE  Evident(t, pg, Amazon(t, pg))
<1> DEFINE stock == IF pg.soldOut THEN "out_of_stock" ELSE ReadAvailability(pg.wording)
           r == Amazon(t, pg)
<1>1. pg.soldOut \in BOOLEAN /\ pg.price \in BOOLEAN /\ pg.wording \in SUBSET {"yes", "no"}
  BY PagesAssumption
<1>2. ~(t.rule # None /\ t.rule.gated)
  BY TaskFits
<1>3. /\ stock \in {"in_stock", "out_of_stock", "unknown"}
      /\ stock = "out_of_stock" => pg.soldOut \/ "no" \in pg.wording
      /\ stock = "in_stock" => ~pg.soldOut /\ pg.wording = {"yes"}
  BY <1>1 DEF ReadAvailability
<1>4. /\ r.availability \in {stock, "unknown"}
      /\ r.availability = "out_of_stock" => ~r.price
  <2>1. CASE stock = "out_of_stock"
    BY <2>1 DEF Amazon, Result
  <2>2. CASE stock # "out_of_stock" /\ pg.price
    BY <2>2 DEF Amazon, Result
  <2>3. CASE stock # "out_of_stock" /\ ~pg.price /\ pg.name
    <3>1. r = Escalate(t, Result("price_not_found", stock, FALSE))
      BY <2>3 DEF Amazon
    <3> HIDE DEF stock, r
    <3> QED
      BY <1>3, <2>3, <3>1, EscalateKeeps DEF Availability
  <2>4. CASE stock # "out_of_stock" /\ ~pg.price /\ ~pg.name
    BY <2>4 DEF Amazon, Failed, Result
  <2> QED
    BY <2>1, <2>2, <2>3, <2>4
<1> HIDE DEF stock, r
<1> QED
  BY <1>2, <1>3, <1>4 DEF Evident, Says, Availability, r

(* Whatever page a store answers with, the adapter's verdict on it is       *)
(* evidence.                                                                *)
LEMMA InterpretEvident ==
  ASSUME NEW t \in Tasks, NEW pg \in Pages[t.adapter]
  PROVE  Evident(t, pg, Interpret(t, pg))
<1>1. /\ t.adapter \in {"generic", "flipkart", "amazon"}
      /\ pg \in CASE t.adapter = "generic" -> GenericPages
                  [] t.adapter = "flipkart" -> FlipkartPages
                  [] t.adapter = "amazon" -> AmazonPages
  BY TaskFits
<1>2. CASE t.adapter = "generic"
  BY <1>1, <1>2, GenericEvident DEF Interpret
<1>3. CASE t.adapter = "flipkart"
  BY <1>1, <1>3, FlipkartEvident DEF Interpret
<1>4. CASE t.adapter = "amazon"
  BY <1>1, <1>4, AmazonEvident DEF Interpret
<1> QED
  BY <1>1, <1>2, <1>3, <1>4

-----------------------------------------------------------------------------
(* StoreFetch: the steps of a fetch, of a rendering and of a session.       *)

(* What a concluded result is: nothing said of stock, or evidence of the    *)
(* page just heard, or a listing that is gone.                              *)
Concluded ==
  /\ result' # None => result'.availability \in Availability
  /\ StockIsEvidence'

LEMMA PageConcludes ==
  ASSUME NEW t \in Tasks, NEW pg \in Pages[t.adapter], task' = t,
         heard' = FetchSuccess(pg), result' = Interpret(t, pg)
  PROVE  Concluded
<1>1. Evident(t, pg, Interpret(t, pg))
  BY InterpretEvident
<1>2. heard'.answer = "page" /\ heard'.shows = pg
  BY DEF FetchSuccess
<1> QED
  BY <1>1, <1>2 DEF Evident, Concluded, StockIsEvidence

LEMMA FailureConcludes ==
  ASSUME NEW f \in Failures, heard' = FetchFailure(f), result' = FailureToResult(f)
  PROVE  Concluded
<1>1. heard'.answer = f /\ f # "page"
  BY DEF FetchFailure, Failures
<1>2. result'.availability = IF f = "unavailable" THEN "unavailable" ELSE "unknown"
  BY DEF FailureToResult, Failed, Result
<1> QED
  BY <1>1, <1>2 DEF Concluded, StockIsEvidence, Availability

LEMMA RenderingConcludes ==
  ASSUME NEW f, RenderFails(f)
  PROVE  Concluded /\ phase' = "idle"
<1>1. result'.availability = "unknown" /\ phase' = "idle"
  BY DEF RenderFails, Conclude, Combined, Failed, Result
<1> QED
  BY <1>1 DEF Concluded, StockIsEvidence, Availability

(* A step that concludes nothing leaves what was concluded, or forgets it.  *)
LEMMA NothingConcludes ==
  ASSUME FetchInv,
         \/ result' = None
         \/ UNCHANGED <<task, heard, result>>
  PROVE  Concluded
BY DEF FetchInv, FetchTypeOK, Concluded, StockIsEvidence, Says

(* What is left to show of a step once its result is accounted for.         *)
LEMMA FetchKept ==
  ASSUME Concluded, OpenByPhase', TaskByPhase',
         installed' \in BOOLEAN, driver' \in BOOLEAN, chromium' \in BOOLEAN,
         session' \in {"none", "empty", "open"},
         phase' \in {"idle", "http", "render", "launch", "load", "localise", "opening"},
         task' = None \/ task' \in Tasks,
         page' # None => page'.shows \in Pages[task'.adapter]
  PROVE  FetchInv'
BY DEF Concluded, FetchInv, FetchTypeOK

LEMMA StartFetchKeeps == FetchInv /\ StartFetch => FetchInv'
<1> SUFFICES ASSUME FetchInv, StartFetch PROVE FetchInv'
  OBVIOUS
<1> USE DEF StartFetch, browser, FetchInv
<1>1. Concluded
  BY NothingConcludes
<1>2. OpenByPhase' /\ TaskByPhase' /\ page' = None
  BY DEF OpenByPhase, TaskByPhase, Fetching
<1> QED
  BY <1>1, <1>2, FetchKept DEF FetchTypeOK

LEMMA HttpPageKeeps == FetchInv /\ HttpPage => FetchInv'
<1> SUFFICES ASSUME FetchInv, HttpPage PROVE FetchInv'
  OBVIOUS
<1>1. task \in Tasks /\ result = None /\ phase = "http" /\ page = None
  BY DEF HttpPage, FetchInv, TaskByPhase, OpenByPhase, Fetching
<1>2. PICK pg \in Pages[task.adapter] :
        /\ heard' = FetchSuccess(pg)
        /\ \/ result' = Interpret(task, pg) /\ phase' = "idle"
           \/ result' = result /\ phase' = "render"
  BY DEF HttpPage, Conclude
<1>3. UNCHANGED <<installed, task, session, driver, chromium, page>>
  BY DEF HttpPage, browser
<1>4. Concluded
  BY <1>1, <1>2, <1>3, PageConcludes, NothingConcludes
<1>5. OpenByPhase' /\ TaskByPhase'
  BY <1>1, <1>2, <1>3 DEF FetchInv, OpenByPhase, TaskByPhase, Fetching
<1> QED
  BY <1>1, <1>2, <1>3, <1>4, <1>5, FetchKept DEF FetchInv, FetchTypeOK

LEMMA HttpFailsKeeps == FetchInv /\ HttpFails => FetchInv'
<1> SUFFICES ASSUME FetchInv, HttpFails PROVE FetchInv'
  OBVIOUS
<1>1. task \in Tasks /\ result = None /\ phase = "http" /\ page = None
  BY DEF HttpFails, FetchInv, TaskByPhase, OpenByPhase, Fetching
<1>2. PICK f \in Failures :
        /\ heard' = FetchFailure(f)
        /\ \/ result' = FailureToResult(f) /\ phase' = "idle"
           \/ result' = result /\ phase' = "render"
  BY DEF HttpFails, Conclude
<1>3. UNCHANGED <<installed, task, session, driver, chromium, page>>
  BY DEF HttpFails, browser
<1>4. Concluded
  BY <1>1, <1>2, <1>3, FailureConcludes, NothingConcludes
<1>5. OpenByPhase' /\ TaskByPhase'
  BY <1>1, <1>2, <1>3 DEF FetchInv, OpenByPhase, TaskByPhase, Fetching
<1> QED
  BY <1>1, <1>2, <1>3, <1>4, <1>5, FetchKept DEF FetchInv, FetchTypeOK

(* However a rendering fails, what it had opened is closed.                 *)
LEMMA RenderingFailsKeeps ==
  FetchInv /\ (Refuse \/ NotInstalled \/ LaunchFails \/ LoadFails) => FetchInv'
<1> SUFFICES ASSUME FetchInv, Refuse \/ NotInstalled \/ LaunchFails \/ LoadFails
             PROVE  FetchInv'
  OBVIOUS
<1>1. /\ Concluded /\ phase' = "idle" /\ task \in Tasks
      /\ UNCHANGED <<installed, task, session>>
  <2>1. phase \in Fetching /\ UNCHANGED <<installed, task, session>>
    BY DEF Refuse, NotInstalled, LaunchFails, LoadFails, browser, Fetching
  <2> QED
    BY <2>1, RenderingConcludes
       DEF Refuse, NotInstalled, LaunchFails, LoadFails, FetchInv, TaskByPhase
<1>2. page' = None /\ driver' = (session = "open") /\ chromium' = (session = "open")
  <2>1. CASE Refuse \/ NotInstalled
    BY <2>1 DEF Refuse, NotInstalled, browser, FetchInv, OpenByPhase
  <2>2. CASE LaunchFails
    <3>1. page = None /\ session # "open" /\ chromium = FALSE
      BY <2>2 DEF LaunchFails, FetchInv, FetchTypeOK, OpenByPhase
    <3> QED
      BY <2>2, <3>1 DEF LaunchFails
  <2>3. CASE LoadFails
    BY <2>3 DEF LoadFails, KeepBrowser
  <2> QED
    BY <2>1, <2>2, <2>3
<1>3. OpenByPhase' /\ TaskByPhase'
  BY <1>1, <1>2 DEF OpenByPhase, TaskByPhase, Fetching
<1> QED
  BY <1>1, <1>2, <1>3, FetchKept DEF FetchInv, FetchTypeOK

(* The steps that only open something or wait.                              *)
LEMMA OpeningKeeps ==
  FetchInv /\ (UseSession \/ StartDriver \/ Launch \/ OpenEmpty \/ OpenSession \/ Opened
                 \/ OpenFails \/ CloseSession) => FetchInv'
<1> SUFFICES ASSUME FetchInv,
                    UseSession \/ StartDriver \/ Launch \/ OpenEmpty \/ OpenSession \/ Opened
                      \/ OpenFails \/ CloseSession
             PROVE  FetchInv'
  OBVIOUS
<1>1. /\ UNCHANGED <<installed, task, heard, result, page>>
      /\ page = None
  BY DEF UseSession, StartDriver, Launch, OpenEmpty, OpenSession, Opened, OpenFails,
         CloseSession, browser, FetchInv, OpenByPhase
<1>2. Concluded
  BY <1>1, NothingConcludes
<1>3. /\ OpenByPhase' /\ TaskByPhase'
      /\ driver' \in BOOLEAN /\ chromium' \in BOOLEAN
      /\ session' \in {"none", "empty", "open"}
      /\ phase' \in {"idle", "http", "render", "launch", "load", "localise", "opening"}
  <2> USE <1>1 DEF FetchInv, FetchTypeOK, OpenByPhase, TaskByPhase, Fetching, browser
  <2>1. CASE UseSession
    BY <2>1 DEF UseSession
  <2>2. CASE StartDriver
    BY <2>2 DEF StartDriver
  <2>3. CASE Launch
    BY <2>3 DEF Launch
  <2>4. CASE OpenEmpty
    BY <2>4 DEF OpenEmpty
  <2>5. CASE OpenSession
    BY <2>5 DEF OpenSession
  <2>6. CASE Opened
    BY <2>6 DEF Opened
  <2>7. CASE OpenFails
    BY <2>7 DEF OpenFails
  <2>8. CASE CloseSession
    BY <2>8 DEF CloseSession
  <2> QED
    BY <2>1, <2>2, <2>3, <2>4, <2>5, <2>6, <2>7, <2>8
<1> QED
  BY <1>1, <1>2, <1>3, FetchKept DEF FetchInv, FetchTypeOK

LEMMA LoadKeeps == FetchInv /\ (Load \/ Localise) => FetchInv'
<1> SUFFICES ASSUME FetchInv, Load \/ Localise PROVE FetchInv'
  OBVIOUS
<1>1. /\ phase \in {"load", "localise"} /\ phase' = "localise"
      /\ UNCHANGED <<installed, task, heard, result, session, driver, chromium>>
  BY DEF Load, Localise
<1>2. task \in Tasks /\ result = None /\ driver /\ chromium
  BY <1>1 DEF FetchInv, TaskByPhase, OpenByPhase, Fetching
<1>3. page' \in PageOf(task)
  <2>1. CASE Load
    BY <2>1 DEF Load, PageOf
  <2>2. CASE Localise
    BY <2>2 DEF Localise, FetchInv, TaskByPhase, PageOf
  <2> QED
    BY <2>1, <2>2
<1>4. Concluded
  BY <1>1, NothingConcludes
<1>5. OpenByPhase' /\ TaskByPhase'
  BY <1>1, <1>2, <1>3 DEF OpenByPhase, TaskByPhase, Fetching, PageOf
<1> QED
  BY <1>1, <1>2, <1>3, <1>4, <1>5, FetchKept DEF FetchInv, FetchTypeOK, PageOf

LEMMA ReadKeeps == FetchInv /\ Read => FetchInv'
<1> SUFFICES ASSUME FetchInv, Read PROVE FetchInv'
  OBVIOUS
<1>1. task \in Tasks /\ page.shows \in Pages[task.adapter]
  BY DEF Read, FetchInv, TaskByPhase, Fetching, PageOf
<1>2. UNCHANGED <<installed, task, session>>
  BY DEF Read
<1>3. Concluded /\ phase' = "idle"
  <2>1. CASE page.status = "ok"
    BY <1>1, <1>2, <2>1, PageConcludes DEF Read, Conclude
  <2>2. CASE page.status # "ok"
    BY <2>2, RenderingConcludes DEF Read
  <2> QED
    BY <2>1, <2>2
<1>4. page' = None /\ driver' = (session = "open") /\ chromium' = (session = "open")
  BY DEF Read, KeepBrowser
<1>5. OpenByPhase' /\ TaskByPhase'
  BY <1>2, <1>3, <1>4 DEF OpenByPhase, TaskByPhase, Fetching
<1> QED
  BY <1>1, <1>2, <1>3, <1>4, <1>5, FetchKept DEF FetchInv, FetchTypeOK

LEMMA FetchInvHolds == FetchSpec => []FetchInv
<1>1. FetchInit => FetchInv
  BY DEF FetchInit, FetchInv, FetchTypeOK, OpenByPhase, TaskByPhase, StockIsEvidence, Fetching
<1>2. FetchInv /\ [FetchNext]_fetchVars => FetchInv'
  <2> SUFFICES ASSUME FetchInv, [FetchNext]_fetchVars PROVE FetchInv'
    OBVIOUS
  <2>1. CASE UNCHANGED fetchVars
    BY <2>1 DEF fetchVars, FetchInv, FetchTypeOK, OpenByPhase, TaskByPhase, StockIsEvidence
  <2> QED
    BY <2>1, StartFetchKeeps, HttpPageKeeps, HttpFailsKeeps, RenderingFailsKeeps, OpeningKeeps,
       LoadKeeps, ReadKeeps DEF FetchNext
<1> QED
  BY <1>1, <1>2, PTL DEF FetchSpec

(* A fetch keeps its types: the page being rendered is one the store may    *)
(* answer with, and what it concludes of stock is one of four words.        *)
THEOREM FetchTypeCorrect == FetchSpec => []FetchTypeOK
<1>1. FetchInv => FetchTypeOK
  BY DEF FetchInv
<1> QED
  BY FetchInvHolds, <1>1, PTL

(* Whatever pages the stores serve, a fetch claims stock only where the     *)
(* answer it heard last says so, and a gated host without an area is never  *)
(* quoted as sold out (_interpret of the adapters, escalate).               *)
THEOREM StockClaimsHaveEvidence == FetchSpec => []StockIsEvidence
<1>1. FetchInv => StockIsEvidence
  BY DEF FetchInv
<1> QED
  BY FetchInvHolds, <1>1, PTL

(* However a rendering or the opening of a session ends, no page, browser   *)
(* or driver is left running but those of an open session (render,          *)
(* BrowserSession).                                                         *)
THEOREM BrowsersAreClosed == FetchSpec => []NothingLeftOpen
<1>1. FetchInv => NothingLeftOpen
  BY DEF FetchInv, FetchTypeOK, OpenByPhase, NothingLeftOpen
<1> QED
  BY FetchInvHolds, <1>1, PTL

=============================================================================
