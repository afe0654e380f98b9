--------------------- MODULE NotificationDeliveryProofs ---------------------
(* What holds of NotificationDelivery for any alerts, passes, keys, limits  *)
(* and faults.                                                              *)
EXTENDS NotificationDelivery, WellFoundedInduction, TLAPS

(* The parts of the inductive invariant.  What a pass has listed and not    *)
(* marked yet is due, what it has marked is a draft, never both.            *)

InHand(d) == {n \in Notification : seen[d][n] # Absent}

(* An alert that is not recorded has neither a status nor a pass.           *)
Recorded == \A n \in Notification :
  row[n].status = "absent" =>
    row[n] = Absent /\ \A d \in Pass : n \notin InHand(d) /\ draft[d][n] = NoDraft

(* Listed rows were due when they were listed.                              *)
HandIsDue == \A d \in Pass : \A n \in InHand(d) :
  seen[d][n].status \in {"pending", "failed"}
  /\ seen[d][n].attempts < MaxDeliveryAttempts

(* A row in hand is in one batch to send, or in the batch just sent.        *)
BatchesInHand == \A d \in Pass :
  /\ {} \notin todo[d]
  /\ \A b \in todo[d] : b \subseteq InHand(d) /\ b \cap current[d] = {}
  /\ \A b, c \in todo[d] : b \cap c # {} => b = c
  /\ current[d] \subseteq InHand(d)
  /\ \A n \in InHand(d) : draft[d][n] = NoDraft

StageFits == \A d \in Pass :
  /\ pc[d] = "idle" => InHand(d) = {}
  /\ pc[d] = "sending" => current[d] = {}
  /\ pc[d] \in {"marking", "waiting"} => current[d] # {}

(* What a verdict says of the batch it is about.                            *)
VerdictTrue == \A d \in Pass : \A n \in current[d] :
  /\ verdict[d] = "sent" => copies[n] > 0
  /\ verdict[d] = "suppressed" => key[n].route = {}
  /\ verdict[d] # "suppressed" => seen[d][n].attempts + 1 <= tries[n]

DraftTrue == \A d \in Pass, n \in Notification :
  /\ draft[d][n].status = "sent" => copies[n] > 0
  /\ draft[d][n].status = "suppressed" => key[n].route = {}
  /\ draft[d][n].attempts <= tries[n]

HandTried == \A d \in Pass : \A n \in InHand(d) : seen[d][n].attempts <= tries[n]

(* Whoever lists an undisturbed alert has it alone and finds it unsent.     *)
UndisturbedAlone == \A n \in Notification \ disturbed :
  /\ \A d, e \in Pass : n \in Listed(d) /\ n \in Listed(e) => d = e
  /\ \A d \in Pass : n \in Listed(d) => row[n].status \in {"pending", "failed"}

(* Its one message is on record, or about to be.                            *)
UndisturbedOnce == \A n \in Notification \ disturbed :
  /\ copies[n] <= 1
  /\ copies[n] > 0 =>
       \/ row[n].status = "sent"
       \/ \E d \in Pass : n \in current[d] /\ verdict[d] = "sent"
       \/ \E d \in Pass : draft[d][n].status = "sent"

(* It has tries left: whoever could give it up has it alone.                *)
UndisturbedDue == \A n \in Notification \ disturbed, d \in Pass :
  n \in Listed(d) => row[n].attempts < MaxDeliveryAttempts

-----------------------------------------------------------------------------
(* Min and NextBatch, where they are defined                                *)

(* A set of naturals has a least element.                                   *)
LEMMA MinIsLeast ==
  ASSUME NEW S \in SUBSET Nat, S # {}
  PROVE  Min(S) \in S /\ \A y \in S : Min(S) <= y
<1> DEFINE less == {p \in Nat \X Nat : p[1] < p[2]}
<1>1. IsWellFoundedOn(less, Nat)
  BY NatLessThanWellFounded DEF OpToRel
<1>2. \A x, y \in Nat : x < y => <<x, y>> \in less
  OBVIOUS
<1> HIDE DEF less
<1>3. PICK x \in S : \A y \in S : ~(<<y, x>> \in less)
  <2>1. S \subseteq Nat /\ S # {}
    OBVIOUS
  <2> QED
    BY <1>1, <2>1, WFMin
<1>4. \A y \in S : x <= y
  <2>1. \A y \in S : y \in Nat /\ x \in Nat /\ ~(y < x)
    BY <1>2, <1>3, Zenon
  <2> QED
    BY <2>1
<1> QED
  BY <1>4 DEF Min

Shape == TypeOK /\ Recorded /\ HandIsDue /\ BatchesInHand /\ StageFits

(* The next batch is one of those to send, and its first row one of its own.*)
LEMMA NextBatchIsListed ==
  ASSUME Shape, NEW d \in Pass, todo[d] # {}
  PROVE  /\ NextBatch(d) \in todo[d]
         /\ Min(NextBatch(d)) \in NextBatch(d)
<1>1. \A b \in todo[d] : b \in SUBSET Nat /\ b # {}
  <2>1. todo[d] \subseteq SUBSET Notification /\ {} \notin todo[d]
    BY DEF Shape, TypeOK, BatchesInHand
  <2>2. SUBSET Notification \subseteq SUBSET Nat
    BY DeliveryAssumption
  <2> QED
    BY <2>1, <2>2
<1>2. \A b \in todo[d] : Min(b) \in b /\ Min(b) \in Nat
  BY <1>1, MinIsLeast
<1> DEFINE first == {Min(b) : b \in todo[d]}
<1>3. first \in SUBSET Nat /\ first # {}
  BY <1>2
<1>4. Min(first) \in first /\ \A y \in first : Min(first) <= y
  BY <1>3, MinIsLeast
<1>5. PICK b \in todo[d] : Min(first) = Min(b)
  BY <1>4
<1>6. \A c \in todo[d] : Min(b) <= Min(c)
  BY <1>4, <1>5
<1>7. NextBatch(d) \in todo[d]
  BY <1>6 DEF NextBatch
<1> QED
  BY <1>2, <1>7

(* The next row to mark is in hand.                                         *)
LEMMA NextRowInHand ==
  ASSUME Shape, NEW d \in Pass, current[d] # {}
  PROVE  /\ Min(current[d]) \in current[d] /\ Min(current[d]) \in InHand(d)
         /\ Min(current[d]) \in Notification
<1>1. current[d] \in SUBSET Nat
  BY DeliveryAssumption DEF Shape, TypeOK
<1>2. Min(current[d]) \in current[d]
  BY <1>1, MinIsLeast
<1> QED
  BY <1>2 DEF Shape, BatchesInHand, TypeOK

(* What a pass lists: due rows of its scope, in disjoint batches of theirs. *)
LEMMA DueRows ==
  ASSUME TypeOK, NEW d \in Pass
  PROVE  /\ Due(d) \subseteq Notification
         /\ \A n \in Due(d) : /\ row[n].status \in {"pending", "failed"}
                              /\ row[n].attempts < MaxDeliveryAttempts
                              /\ row[n] # Absent
<1>1. Scope[d] \subseteq Notification
  BY DeliveryAssumption
<1> QED
  BY <1>1 DEF Due, Retryable, Absent

LEMMA BatchesPartition ==
  ASSUME NEW due \in SUBSET Notification
  PROVE  /\ {} \notin Batches(due)
         /\ \A b \in Batches(due) : b \subseteq due
         /\ \A b, c \in Batches(due) : b \cap c # {} => b = c
         /\ \A b \in Batches(due) : \A m, n \in b : key[m] = key[n]
<1>1. CASE digest
  <2> DEFINE with(m) == {n \in due : key[n] = key[m]}
  <2>1. Batches(due) = {with(m) : m \in due}
    BY <1>1 DEF Batches
  <2>2. \A m \in due : m \in with(m) /\ with(m) \subseteq due
    OBVIOUS
  <2>3. \A m, k \in due : with(m) \cap with(k) # {} => with(m) = with(k)
    OBVIOUS
  <2>4. \A k \in due : \A m, n \in with(k) : key[m] = key[n]
    OBVIOUS
  <2> HIDE DEF with
  <2> QED
    BY <2>1, <2>2, <2>3, <2>4
<1>2. CASE ~digest
  BY <1>2 DEF Batches
<1> QED
  BY <1>1, <1>2

-----------------------------------------------------------------------------
(* Who has which rows, and of what types                                    *)

LEMMA InitShape == Init => Shape
<1> SUFFICES ASSUME Init PROVE Shape
  OBVIOUS
<1> USE DeliveryAssumption DEF Init
<1>1. Absent \in RowType
  BY DEF Absent, RowType
<1>2. NoDraft \in [status : Verdict \cup {"same"}, attempts : -1 .. MaxDeliveryAttempts]
  BY DEF NoDraft, Verdict
<1>3. TypeOK
  BY <1>1, <1>2 DEF TypeOK, Verdict
<1>4. \A d \in Pass : InHand(d) = {}
  BY DEF InHand
<1> QED
  BY <1>3, <1>4 DEF Shape, Recorded, HandIsDue, BatchesInHand, StageFits

LEMMA RecordShape ==
  ASSUME Shape, NEW n \in Notification, Record(n)
  PROVE  Shape'
<1> USE DeliveryAssumption DEF Shape, Record, history
<1>1. [status |-> "pending", attempts |-> 0] \in RowType
  BY DEF RowType
<1>2. /\ row' = [row EXCEPT ![n] = [status |-> "pending", attempts |-> 0]]
      /\ row' \in [Notification -> RowType]
  BY <1>1 DEF TypeOK
<1>3. TypeOK'
  BY <1>2 DEF TypeOK, Checks
<1>4. \A d \in Pass : InHand(d)' = InHand(d)
  BY DEF InHand
<1> QED
  BY <1>2, <1>3, <1>4 DEF Recorded, HandIsDue, BatchesInHand, StageFits

LEMMA AgeShape ==
  ASSUME Shape, NEW n \in Notification, Age(n)
  PROVE  Shape'
<1> USE DEF Shape, Age, history
<1>1. TypeOK'
  BY DEF TypeOK
<1>2. \A d \in Pass : InHand(d)' = InHand(d)
  BY DEF InHand
<1> QED
  BY <1>1, <1>2 DEF Recorded, HandIsDue, BatchesInHand, StageFits

LEMMA ReconfigureShape ==
  ASSUME Shape, Reconfigure
  PROVE  Shape'
<1> USE DEF Shape, Reconfigure, history
<1>1. TypeOK'
  BY DEF TypeOK
<1>2. \A d \in Pass : InHand(d)' = InHand(d)
  BY DEF InHand
<1> QED
  BY <1>1, <1>2 DEF Recorded, HandIsDue, BatchesInHand, StageFits

LEMMA ReturnShape ==
  ASSUME Shape, NEW d \in Pass, Return(d)
  PROVE  Shape'
<1> USE DEF Shape, Return, history
<1>1. TypeOK'
  BY DEF TypeOK
<1>2. \A e \in Pass : InHand(e)' = InHand(e)
  BY DEF InHand
<1> QED
  BY <1>1, <1>2 DEF Recorded, HandIsDue, BatchesInHand, StageFits

LEMMA WaitShape ==
  ASSUME Shape, NEW d \in Pass, Wait(d)
  PROVE  Shape'
<1> USE DEF Shape, Wait, history
<1>1. TypeOK'
  BY DEF TypeOK
<1>2. \A e \in Pass : InHand(e)' = InHand(e)
  BY DEF InHand
<1>3. StageFits'
  BY <1>2 DEF StageFits, TypeOK
<1> QED
  BY <1>1, <1>2, <1>3 DEF Recorded, HandIsDue, BatchesInHand

LEMMA StartShape ==
  ASSUME Shape, NEW d \in Pass, Start(d)
  PROVE  Shape'
<1> USE DEF Shape, Start
<1> DEFINE listing == [n \in Notification |-> IF n \in Due(d) THEN row[n] ELSE Absent]
<1>1. Due(d) \subseteq Notification /\ Batches(Due(d)) \in SUBSET SUBSET Notification
      /\ listing \in [Notification -> RowType]
  <2>1. Absent \in RowType
    BY DeliveryAssumption DEF Absent, RowType
  <2> QED
    <3>1. Due(d) \subseteq Notification
      BY DueRows
    <3>2. Batches(Due(d)) \in SUBSET SUBSET Notification
      BY <3>1, BatchesPartition
    <3>3. \A n \in Notification : row[n] \in RowType
      BY DEF TypeOK
    <3> QED
      BY <2>1, <3>1, <3>2, <3>3
<1>2. /\ pc' = [pc EXCEPT ![d] = "sending"] /\ seen' = [seen EXCEPT ![d] = listing]
      /\ todo' = [todo EXCEPT ![d] = Batches(Due(d))]
      /\ pc[d] = "idle" /\ UNCHANGED <<row, current, draft>>
  OBVIOUS
<1>3. TypeOK'
  <2>1. called' \in SUBSET (Pass \ {Retry}) /\ disturbed' \in SUBSET Notification
    BY <1>1 DEF TypeOK
  <2>2. /\ pc' \in [Pass -> {"idle", "sending", "marking", "waiting"}]
        /\ todo' \in [Pass -> SUBSET SUBSET Notification]
        /\ seen' \in [Pass -> [Notification -> RowType]]
    BY <1>1, <1>2 DEF TypeOK
  <2>3. \A e, f \in Pass, n \in Notification :
          draft'[e][n] # NoDraft => pc'[e] # "idle" /\ (e = f \/ draft'[f][n] = NoDraft)
    BY <1>2 DEF TypeOK
  <2> QED
    BY <2>1, <2>2, <2>3 DEF TypeOK
<1>4. /\ \A e \in Pass \ {d} : /\ seen'[e] = seen[e] /\ todo'[e] = todo[e]
                               /\ pc'[e] = pc[e] /\ InHand(e)' = InHand(e)
      /\ seen'[d] = listing /\ todo'[d] = Batches(Due(d)) /\ pc'[d] = "sending"
  BY <1>2 DEF TypeOK, InHand
<1>5. InHand(d)' = Due(d)
  BY <1>1, <1>4, DueRows DEF InHand
<1>6. InHand(d) = {} /\ current[d] = {} /\ \A n \in Notification : draft[d][n] = NoDraft
  BY <1>2 DEF StageFits, BatchesInHand, TypeOK
<1>7. Recorded'
  BY <1>2, <1>4, <1>5, DueRows DEF Recorded
<1>8. HandIsDue'
  <2>1. \A n \in Due(d) : seen'[d][n] = row[n]
    BY <1>1, <1>4
  <2>2. \A e \in Pass \ {d} : \A n \in InHand(e)' :
          seen'[e][n].status \in {"pending", "failed"}
          /\ seen'[e][n].attempts < MaxDeliveryAttempts
    BY <1>4 DEF HandIsDue
  <2>3. \A n \in InHand(d)' :
          seen'[d][n].status \in {"pending", "failed"}
          /\ seen'[d][n].attempts < MaxDeliveryAttempts
    BY <2>1, <1>5, DueRows
  <2> QED
    BY <2>2, <2>3 DEF HandIsDue
<1>9. BatchesInHand'
  <2>1. \A e \in Pass \ {d} :
          /\ {} \notin todo'[e]
          /\ \A b \in todo'[e] : b \subseteq InHand(e)' /\ b \cap current'[e] = {}
          /\ \A b, c \in todo'[e] : b \cap c # {} => b = c
          /\ current'[e] \subseteq InHand(e)'
          /\ \A n \in InHand(e)' : draft'[e][n] = NoDraft
    BY <1>2, <1>4 DEF BatchesInHand
  <2>2. /\ {} \notin todo'[d]
        /\ \A b \in todo'[d] : b \subseteq InHand(d)' /\ b \cap current'[d] = {}
        /\ \A b, c \in todo'[d] : b \cap c # {} => b = c
        /\ current'[d] \subseteq InHand(d)'
        /\ \A n \in InHand(d)' : draft'[d][n] = NoDraft
    BY <1>1, <1>2, <1>4, <1>5, <1>6, BatchesPartition
  <2> QED
    BY <2>1, <2>2 DEF BatchesInHand
<1>10. StageFits'
  BY <1>2, <1>4, <1>6 DEF StageFits
<1> QED
  BY <1>3, <1>7, <1>8, <1>9, <1>10

(* What Send does to its own pass and to the others.                        *)
LEMMA SendEffect ==
  ASSUME Shape, NEW d \in Pass, Send(d)
  PROVE  /\ NextBatch(d) \in todo[d] /\ Min(NextBatch(d)) \in NextBatch(d)
         /\ NextBatch(d) \subseteq InHand(d) /\ NextBatch(d) # {}
         /\ \A e \in Pass : InHand(e)' = InHand(e)
         /\ \A e \in Pass \ {d} : /\ todo'[e] = todo[e] /\ current'[e] = current[e]
                                  /\ pc'[e] = pc[e] /\ verdict'[e] = verdict[e]
         /\ todo'[d] = todo[d] \ {NextBatch(d)} /\ current'[d] = NextBatch(d)
         /\ pc[d] = "sending" /\ pc'[d] = "marking" /\ verdict'[d] \in Verdict
         /\ verdict' \in [Pass -> Verdict]
         /\ \A n \in Notification : copies'[n] \in 0 .. 2 /\ copies'[n] >= copies[n]
         /\ copies' \in [Notification -> 0 .. 2]
         /\ \A n \in Notification : n \notin NextBatch(d) => copies'[n] = copies[n]
         /\ \A n \in NextBatch(d) : verdict'[d] = "sent" => copies'[n] > 0
         /\ key[Min(NextBatch(d))].route = {} <=> verdict'[d] = "suppressed"
<1> USE DEF Shape, Send
<1>1. /\ NextBatch(d) \in todo[d] /\ Min(NextBatch(d)) \in NextBatch(d)
      /\ NextBatch(d) \subseteq InHand(d) /\ NextBatch(d) # {}
  BY NextBatchIsListed DEF BatchesInHand
<1>2. \A e \in Pass : InHand(e)' = InHand(e)
  BY DEF InHand
<1>3. PICK v \in Verdict, sent \in 0 .. 2 :
        /\ verdict' = [verdict EXCEPT ![d] = v]
        /\ copies' = [n \in Notification |->
             IF n \in NextBatch(d) THEN AtMost(2, copies[n] + sent) ELSE copies[n]]
        /\ v = "sent" => sent > 0
        /\ key[Min(NextBatch(d))].route = {} <=> v = "suppressed"
  BY DEF Verdict
<1>4. \A n \in Notification :
        /\ copies[n] \in 0 .. 2
        /\ n \in NextBatch(d) =>
             /\ copies'[n] \in 0 .. 2 /\ copies'[n] >= copies[n]
             /\ v = "sent" => copies'[n] > 0
        /\ n \notin NextBatch(d) => copies'[n] = copies[n]
  BY <1>3 DEF AtMost, TypeOK
<1>5. copies' \in [Notification -> 0 .. 2]
  <2> DEFINE after(n) == IF n \in NextBatch(d) THEN AtMost(2, copies[n] + sent) ELSE copies[n]
  <2>1. \A n \in Notification : after(n) \in 0 .. 2
    BY DEF AtMost, TypeOK
  <2>2. copies' = [n \in Notification |-> after(n)]
    BY <1>3
  <2> HIDE DEF after
  <2> QED
    BY <2>1, <2>2
<1>6. /\ \A e \in Pass \ {d} : /\ todo'[e] = todo[e] /\ current'[e] = current[e]
                               /\ pc'[e] = pc[e] /\ verdict'[e] = verdict[e]
      /\ todo'[d] = todo[d] \ {NextBatch(d)} /\ current'[d] = NextBatch(d)
      /\ pc[d] = "sending" /\ pc'[d] = "marking" /\ verdict'[d] = v
      /\ verdict' \in [Pass -> Verdict]
  BY <1>3 DEF TypeOK
<1>7. NextBatch(d) \subseteq Notification
  BY <1>1 DEF InHand
<1>8. key[Min(NextBatch(d))].route = {} <=> verdict'[d] = "suppressed"
  BY <1>3, <1>6
<1>9. /\ \A n \in Notification : copies'[n] \in 0 .. 2 /\ copies'[n] >= copies[n]
      /\ \A n \in NextBatch(d) : verdict'[d] = "sent" => copies'[n] > 0
  BY <1>4, <1>6, <1>7
<1> HIDE DEF Shape, Send
<1> QED
  BY <1>1, <1>2, <1>4, <1>5, <1>6, <1>8, <1>9

LEMMA SendShape ==
  ASSUME Shape, NEW d \in Pass, Send(d)
  PROVE  Shape'
<1>1. NextBatch(d) \in SUBSET Notification /\ NextBatch(d) # {}
  BY SendEffect DEF InHand
<1>2. TypeOK'
  <2>1. tries' \in [Notification -> 0 .. MaxDeliveryAttempts]
    <3> DEFINE after(n) == IF n \in NextBatch(d) /\ key[Min(NextBatch(d))].route # {}
                             THEN AtMost(MaxDeliveryAttempts, tries[n] + 1) ELSE tries[n]
    <3>1. \A n \in Notification : after(n) \in 0 .. MaxDeliveryAttempts
      BY DeliveryAssumption DEF Shape, TypeOK, AtMost
    <3>2. tries' = [n \in Notification |-> after(n)]
      BY DEF Send
    <3> HIDE DEF after
    <3> QED
      BY <3>1, <3>2
  <2>2. disturbed' \in SUBSET Notification /\ faults' \in 0 .. MaxFaults
    BY <1>1, DeliveryAssumption DEF Send, Shape, TypeOK
  <2>3. /\ pc' \in [Pass -> {"idle", "sending", "marking", "waiting"}]
        /\ todo' \in [Pass -> SUBSET SUBSET Notification]
        /\ current' \in [Pass -> SUBSET Notification]
        /\ pc[d] = "sending" /\ pc' = [pc EXCEPT ![d] = "marking"]
    BY <1>1 DEF Send, Shape, TypeOK
  <2>4. UNCHANGED <<row, key, aged, digest, called, seen, draft>>
    BY DEF Send
  <2>5. verdict' \in [Pass -> Verdict] /\ copies' \in [Notification -> 0 .. 2]
    BY SendEffect
  <2>6. \A e, f \in Pass, n \in Notification :
          draft'[e][n] # NoDraft => pc'[e] # "idle" /\ (e = f \/ draft'[f][n] = NoDraft)
    <3>1. \A e \in Pass : pc[e] # "idle" => pc'[e] # "idle"
      BY SendEffect
    <3> QED
      BY <2>4, <3>1 DEF Shape, TypeOK
  <2> QED
    BY <2>1, <2>2, <2>3, <2>4, <2>5, <2>6 DEF Shape, TypeOK
<1>3. Recorded' /\ HandIsDue'
  <2>1. UNCHANGED <<row, seen, draft>>
    BY DEF Send
  <2> QED
    BY <2>1, SendEffect DEF Shape, Recorded, HandIsDue
<1>4. BatchesInHand'
  <2>1. draft' = draft
    BY DEF Send
  <2>2. ASSUME NEW e \in Pass \ {d}
        PROVE  /\ {} \notin todo'[e]
               /\ \A b \in todo'[e] : b \subseteq InHand(e)' /\ b \cap current'[e] = {}
               /\ \A b, c \in todo'[e] : b \cap c # {} => b = c
               /\ current'[e] \subseteq InHand(e)'
               /\ \A n \in InHand(e)' : draft'[e][n] = NoDraft
    BY <2>1, SendEffect DEF Shape, BatchesInHand
  <2>3. /\ {} \notin todo'[d]
        /\ \A b \in todo'[d] : b \subseteq InHand(d)' /\ b \cap current'[d] = {}
        /\ \A b, c \in todo'[d] : b \cap c # {} => b = c
        /\ current'[d] \subseteq InHand(d)'
        /\ \A n \in InHand(d)' : draft'[d][n] = NoDraft
    BY <2>1, SendEffect DEF Shape, BatchesInHand
  <2> QED
    BY <2>2, <2>3 DEF BatchesInHand
<1>5. StageFits'
  BY <1>1, SendEffect DEF Shape, StageFits
<1> QED
  BY <1>2, <1>3, <1>4, <1>5 DEF Shape

(* What Mark does to its own pass, and that the others are left alone.      *)
LEMMA MarkEffect ==
  ASSUME Shape, NEW d \in Pass, Mark(d),
         NEW n, n = Min(current[d])
  PROVE  /\ n \in current[d] /\ n \in InHand(d) /\ n \in Notification
         /\ \A e \in Pass : draft[e][n] = NoDraft
         /\ \A e \in Pass \ {d} : /\ seen'[e] = seen[e] /\ draft'[e] = draft[e]
                                  /\ current'[e] = current[e] /\ pc'[e] = pc[e]
                                  /\ verdict'[e] = verdict[e] /\ InHand(e)' = InHand(e)
         /\ InHand(d)' = InHand(d) \ {n} /\ current'[d] = current[d] \ {n}
         /\ \A m \in Notification \ {n} : seen'[d][m] = seen[d][m] /\ draft'[d][m] = draft[d][m]
         /\ seen'[d][n] = Absent
         /\ draft'[d][n] = Update(seen[d][n], verdict[d])
         /\ pc'[d] = IF current'[d] = {} THEN "sending" ELSE "marking"
         /\ verdict'[d] = IF current'[d] = {} THEN "failed" ELSE verdict[d]
         /\ UNCHANGED <<row, key, todo, copies, tries, disturbed>>
<1> USE DEF Shape, Mark
<1>1. n \in current[d] /\ n \in InHand(d) /\ n \in Notification
  BY NextRowInHand DEF StageFits
<1>2. \A e \in Pass : draft[e][n] = NoDraft
  BY DEF Holders
<1>3. /\ draft' = [draft EXCEPT ![d][n] = Update(seen[d][n], verdict[d])]
      /\ seen' = [seen EXCEPT ![d][n] = Absent]
      /\ current' = [current EXCEPT ![d] = @ \ {n}]
      /\ pc' = [pc EXCEPT ![d] = IF current[d] = {n} THEN "sending" ELSE "marking"]
      /\ verdict' = [verdict EXCEPT ![d] = IF current[d] = {n} THEN "failed" ELSE @]
  OBVIOUS
<1>4. \A e \in Pass \ {d} : /\ seen'[e] = seen[e] /\ draft'[e] = draft[e]
                            /\ current'[e] = current[e] /\ pc'[e] = pc[e]
                            /\ verdict'[e] = verdict[e] /\ InHand(e)' = InHand(e)
  BY <1>3 DEF TypeOK, InHand
<1>5. /\ current'[d] = current[d] \ {n}
      /\ \A m \in Notification \ {n} : seen'[d][m] = seen[d][m] /\ draft'[d][m] = draft[d][m]
      /\ seen'[d][n] = Absent
      /\ draft'[d][n] = Update(seen[d][n], verdict[d])
  BY <1>1, <1>3 DEF TypeOK
<1>6. InHand(d)' = InHand(d) \ {n}
  BY <1>5 DEF InHand
<1>7. current[d] = {n} <=> current'[d] = {}
  BY <1>1, <1>5
<1>8. /\ pc'[d] = IF current'[d] = {} THEN "sending" ELSE "marking"
      /\ verdict'[d] = IF current'[d] = {} THEN "failed" ELSE verdict[d]
  BY <1>3, <1>7 DEF TypeOK
<1>9. UNCHANGED <<row, key, todo, copies, tries, disturbed>>
  BY DEF history
<1> HIDE DEF Shape, Mark
<1> QED
  BY <1>1, <1>2, <1>4, <1>5, <1>6, <1>8, <1>9

(* What a mark writes.                                                      *)
LEMMA MarkUpdates ==
  ASSUME Shape, NEW d \in Pass, NEW n \in InHand(d),
         NEW u, u = Update(seen[d][n], verdict[d])
  PROVE  /\ u \in [status : Verdict \cup {"same"}, attempts : -1 .. MaxDeliveryAttempts]
         /\ u # NoDraft
         /\ u.status \in {"same", verdict[d]}
         /\ verdict[d] \in {"sent", "suppressed"} => u.status = verdict[d]
         /\ u.attempts = IF verdict[d] = "suppressed" THEN -1 ELSE seen[d][n].attempts + 1
<1> DEFINE old == seen[d][n]
<1>1. /\ old.status \in {"pending", "failed"} /\ old.attempts < MaxDeliveryAttempts
      /\ old.attempts \in Nat /\ MaxDeliveryAttempts \in Nat /\ verdict[d] \in Verdict
  BY DeliveryAssumption DEF Shape, HandIsDue, TypeOK, RowType, InHand
<1>2. u = [status |-> IF verdict[d] = old.status THEN "same" ELSE verdict[d],
           attempts |-> IF verdict[d] = "suppressed" THEN -1 ELSE old.attempts + 1]
  BY DEF Update
<1> HIDE DEF old
<1>3. u.status = IF verdict[d] = old.status THEN "same" ELSE verdict[d]
  BY <1>2
<1>4. u.attempts = IF verdict[d] = "suppressed" THEN -1 ELSE old.attempts + 1
  BY <1>2
<1>5. u \in [status : Verdict \cup {"same"}, attempts : -1 .. MaxDeliveryAttempts]
  BY <1>1, <1>2
<1>6. /\ u.status \in {"same", verdict[d]}
      /\ verdict[d] \in {"sent", "suppressed"} => u.status = verdict[d]
  BY <1>1, <1>3
<1>7. u # NoDraft
  <2>1. u.status # "same" \/ u.attempts # -1
    BY <1>1, <1>4, <1>6 DEF Verdict
  <2> QED
    BY <2>1 DEF NoDraft
<1> QED
  BY <1>4, <1>5, <1>6, <1>7 DEF old

LEMMA MarkShape ==
  ASSUME Shape, NEW d \in Pass, Mark(d)
  PROVE  Shape'
<1> DEFINE n == Min(current[d])  u == Update(seen[d][n], verdict[d])
<1>1. /\ n \in InHand(d) /\ n \in Notification
      /\ u \in [status : Verdict \cup {"same"}, attempts : -1 .. MaxDeliveryAttempts]
      /\ u # NoDraft /\ Absent \in RowType
  BY MarkEffect, MarkUpdates, DeliveryAssumption DEF Absent, RowType
<1>2. TypeOK'
  <2>1. /\ draft' = [draft EXCEPT ![d][n] = u] /\ seen' = [seen EXCEPT ![d][n] = Absent]
        /\ current' = [current EXCEPT ![d] = @ \ {n}]
        /\ pc' = [pc EXCEPT ![d] = IF current[d] = {n} THEN "sending" ELSE "marking"]
        /\ verdict' = [verdict EXCEPT ![d] = IF current[d] = {n} THEN "failed" ELSE @]
        /\ UNCHANGED <<row, key, aged, digest, called, todo, history>>
    BY DEF Mark
  <2> HIDE DEF n, u
  <2>2. /\ draft' \in [Pass -> [Notification ->
             [status : Verdict \cup {"same"}, attempts : -1 .. MaxDeliveryAttempts]]]
        /\ seen' \in [Pass -> [Notification -> RowType]]
    BY <1>1, <2>1 DEF Shape, TypeOK
  <2>3. /\ current' \in [Pass -> SUBSET Notification]
        /\ pc' \in [Pass -> {"idle", "sending", "marking", "waiting"}]
        /\ verdict' \in [Pass -> Verdict]
    BY <2>1 DEF Shape, TypeOK, Verdict
  <2>4. \A e, f \in Pass, m \in Notification :
          draft'[e][m] # NoDraft => pc'[e] # "idle" /\ (e = f \/ draft'[f][m] = NoDraft)
    <3>1. /\ \A e \in Pass \ {d} : draft'[e] = draft[e] /\ pc'[e] = pc[e]
          /\ \A m \in Notification \ {n} : draft'[d][m] = draft[d][m]
          /\ pc'[d] # "idle" /\ \A e \in Pass : draft[e][n] = NoDraft
      BY MarkEffect DEF n
    <3>2. \A e, f \in Pass, m \in Notification :
            draft[e][m] # NoDraft => pc[e] # "idle" /\ (e = f \/ draft[f][m] = NoDraft)
      BY DEF Shape, TypeOK
    <3>3. ASSUME NEW e \in Pass, NEW f \in Pass, NEW m \in Notification,
                 draft'[e][m] # NoDraft
          PROVE  pc'[e] # "idle" /\ (e = f \/ draft'[f][m] = NoDraft)
      <4>1. CASE m = n
        BY <3>1, <3>3, <4>1
      <4>2. CASE m # n
        <5>1. draft'[e][m] = draft[e][m] /\ draft'[f][m] = draft[f][m]
          BY <3>1, <4>2
        <5> QED
          BY <3>1, <3>2, <3>3, <5>1
      <4> QED
        BY <4>1, <4>2
    <3> QED
      BY <3>3
  <2> QED
    BY <2>1, <2>2, <2>3, <2>4 DEF Shape, TypeOK, history
<1> HIDE DEF n, u
<1>3. Recorded'
  BY <1>1, MarkEffect DEF Shape, Recorded, n
<1>4. HandIsDue'
  <2>1. \A e \in Pass : \A m \in InHand(e)' :
          m \in InHand(e) /\ m \in Notification /\ seen'[e][m] = seen[e][m]
    BY <1>1, MarkEffect DEF n, InHand
  <2> QED
    BY <2>1 DEF Shape, HandIsDue
<1>5. BatchesInHand'
  <2>1. ASSUME NEW e \in Pass \ {d}
        PROVE  /\ {} \notin todo'[e]
               /\ \A b \in todo'[e] : b \subseteq InHand(e)' /\ b \cap current'[e] = {}
               /\ \A b, c \in todo'[e] : b \cap c # {} => b = c
               /\ current'[e] \subseteq InHand(e)'
               /\ \A m \in InHand(e)' : draft'[e][m] = NoDraft
    BY MarkEffect DEF Shape, BatchesInHand
  <2>2. /\ todo'[d] = todo[d] /\ n \in current[d] /\ InHand(d)' = InHand(d) \ {n}
        /\ current'[d] = current[d] \ {n} /\ InHand(d) \subseteq Notification
        /\ \A m \in Notification \ {n} : draft'[d][m] = draft[d][m]
    BY MarkEffect DEF n, InHand
  <2>3. /\ {} \notin todo'[d]
        /\ \A b \in todo'[d] : b \subseteq InHand(d)' /\ b \cap current'[d] = {}
        /\ \A b, c \in todo'[d] : b \cap c # {} => b = c
        /\ current'[d] \subseteq InHand(d)'
        /\ \A m \in InHand(d)' : draft'[d][m] = NoDraft
    BY <2>2 DEF Shape, BatchesInHand
  <2> QED
    BY <2>1, <2>3 DEF BatchesInHand
<1>6. StageFits'
  BY MarkEffect DEF Shape, StageFits, n
<1> QED
  BY <1>2, <1>3, <1>4, <1>5, <1>6 DEF Shape

-----------------------------------------------------------------------------

(* What is left of a pass that is over.                                     *)
LEMMA CloseEffect ==
  ASSUME Shape, NEW d \in Pass, Close(d)
  PROVE  /\ \A e \in Pass \ {d} : /\ seen'[e] = seen[e] /\ draft'[e] = draft[e]
                                  /\ current'[e] = current[e] /\ pc'[e] = pc[e]
                                  /\ verdict'[e] = verdict[e] /\ todo'[e] = todo[e]
                                  /\ InHand(e)' = InHand(e)
         /\ InHand(d)' = {} /\ current'[d] = {} /\ todo'[d] = {} /\ pc'[d] = "idle"
         /\ \A n \in Notification : draft'[d][n] = NoDraft
         /\ BatchesInHand' /\ StageFits'
         /\ pc' \in [Pass -> {"idle", "sending", "marking", "waiting"}]
         /\ todo' \in [Pass -> SUBSET SUBSET Notification]
         /\ current' \in [Pass -> SUBSET Notification]
         /\ verdict' \in [Pass -> Verdict]
         /\ seen' \in [Pass -> [Notification -> RowType]]
         /\ draft' \in [Pass -> [Notification ->
              [status : Verdict \cup {"same"}, attempts : -1 .. MaxDeliveryAttempts]]]
         /\ \A e, f \in Pass, n \in Notification :
              draft'[e][n] # NoDraft => pc'[e] # "idle" /\ (e = f \/ draft'[f][n] = NoDraft)
<1>1. Absent \in RowType
  BY DeliveryAssumption DEF Absent, RowType
<1>2. NoDraft \in [status : Verdict \cup {"same"}, attempts : -1 .. MaxDeliveryAttempts]
  BY DeliveryAssumption DEF NoDraft, Verdict
<1>3. /\ pc' \in [Pass -> {"idle", "sending", "marking", "waiting"}]
      /\ todo' \in [Pass -> SUBSET SUBSET Notification]
      /\ current' \in [Pass -> SUBSET Notification]
      /\ verdict' \in [Pass -> Verdict]
  BY DEF Close, Shape, TypeOK, Verdict
<1>4. /\ seen' \in [Pass -> [Notification -> RowType]]
      /\ draft' \in [Pass -> [Notification ->
           [status : Verdict \cup {"same"}, attempts : -1 .. MaxDeliveryAttempts]]]
  BY <1>1, <1>2 DEF Close, Shape, TypeOK
<1>5. /\ \A e \in Pass \ {d} : /\ seen'[e] = seen[e] /\ draft'[e] = draft[e]
                               /\ current'[e] = current[e] /\ pc'[e] = pc[e]
                               /\ verdict'[e] = verdict[e] /\ todo'[e] = todo[e]
                               /\ InHand(e)' = InHand(e)
      /\ InHand(d)' = {} /\ current'[d] = {} /\ todo'[d] = {} /\ pc'[d] = "idle"
      /\ \A n \in Notification : draft'[d][n] = NoDraft
  BY DEF Close, Shape, TypeOK, InHand
<1>6. BatchesInHand'
  BY <1>5 DEF Shape, BatchesInHand
<1>7. StageFits'
  BY <1>5 DEF Shape, StageFits
<1>8. \A e, f \in Pass, n \in Notification :
        draft'[e][n] # NoDraft => pc'[e] # "idle" /\ (e = f \/ draft'[f][n] = NoDraft)
  <2>1. \A e, f \in Pass, n \in Notification :
          draft[e][n] # NoDraft => pc[e] # "idle" /\ (e = f \/ draft[f][n] = NoDraft)
    BY DEF Shape, TypeOK
  <2> QED
    BY <1>5, <2>1
<1> QED
  BY <1>3, <1>4, <1>5, <1>6, <1>7, <1>8

(* A pass that is over takes nothing up.                                    *)
LEMMA CloseDrops ==
  ASSUME Shape, NEW d \in Pass, Close(d), NEW e \in Pass
  PROVE  /\ todo'[e] \subseteq todo[e]
         /\ \A n \in current'[e] :
              n \in current[e] /\ verdict'[e] = verdict[e] /\ seen'[e] = seen[e]
         /\ \A n \in InHand(e)' : n \in InHand(e) /\ seen'[e] = seen[e]
         /\ \A n \in Notification : draft'[e][n] = draft[e][n] \/ draft'[e][n] = NoDraft
<1>1. CASE e = d
  BY <1>1, CloseEffect
<1>2. CASE e # d
  BY <1>2, CloseEffect
<1> QED
  BY <1>1, <1>2

(* A pass that ends without a commit.                                       *)
LEMMA LostShape ==
  ASSUME Shape, NEW d \in Pass, Close(d), faults' \in {faults, faults + 1},
         faults' \in 0 .. MaxFaults, disturbed' = disturbed \cup Listed(d),
         UNCHANGED <<row, key, aged, digest, called, copies, tries>>
  PROVE  Shape'
<1>1. disturbed' \in SUBSET Notification
  BY DEF Listed, Shape, TypeOK
<1>2. TypeOK'
  BY <1>1, CloseEffect DEF Shape, TypeOK
<1>3. \A e \in Pass, n \in Notification :
        /\ n \in InHand(e)' => n \in InHand(e)
        /\ draft[e][n] = NoDraft => draft'[e][n] = NoDraft
  BY CloseDrops
<1>4. Recorded'
  BY <1>3 DEF Shape, Recorded
<1>5. HandIsDue'
  <2> SUFFICES ASSUME NEW e \in Pass, NEW n \in InHand(e)'
               PROVE  /\ seen'[e][n].status \in {"pending", "failed"}
                      /\ seen'[e][n].attempts < MaxDeliveryAttempts
    BY DEF HandIsDue
  <2>1. n \in InHand(e) /\ seen'[e] = seen[e]
    BY CloseDrops
  <2> QED
    BY <2>1 DEF Shape, HandIsDue
<1> QED
  BY <1>2, <1>4, <1>5, CloseEffect DEF Shape

(* What a commit leaves in a row.                                           *)
LEMMA CommitRows ==
  ASSUME Shape, NEW d \in Pass, Commit(d), NEW n \in Notification
  PROVE  /\ row'[n] \in RowType
         /\ draft[d][n] = NoDraft => row'[n] = row[n]
         /\ row'[n].status = IF draft[d][n].status = "same" THEN row[n].status
                                                          ELSE draft[d][n].status
         /\ row'[n].attempts = IF draft[d][n].attempts = -1 THEN row[n].attempts
                                                           ELSE draft[d][n].attempts
<1>1. row'[n] = Written(row[n], draft[d][n])
  BY DEF Commit
<1>2. /\ row[n] \in RowType
      /\ draft[d][n] \in [status : Verdict \cup {"same"}, attempts : -1 .. MaxDeliveryAttempts]
  BY DEF Shape, TypeOK
<1>3. Written(row[n], draft[d][n]) \in RowType
  BY <1>2 DEF Written, RowType
<1>4. draft[d][n] = NoDraft => Written(row[n], draft[d][n]) = row[n]
  BY <1>2 DEF Written, RowType, NoDraft
<1> QED
  BY <1>1, <1>3, <1>4 DEF Written

LEMMA CommitShape ==
  ASSUME Shape, NEW d \in Pass, Commit(d)
  PROVE  Shape'
<1>1. Close(d) /\ UNCHANGED <<key, aged, digest, called, history>>
      /\ row' = [n \in Notification |-> Written(row[n], draft[d][n])]
  BY DEF Commit
<1>2. row' \in [Notification -> RowType]
  BY <1>1, CommitRows
<1>3. TypeOK'
  BY <1>1, <1>2, CloseEffect DEF Shape, TypeOK, history
<1>4. Recorded'
  <2> SUFFICES ASSUME NEW n \in Notification, row'[n].status = "absent"
               PROVE  /\ row'[n] = Absent
                      /\ \A e \in Pass : n \notin InHand(e)' /\ draft'[e][n] = NoDraft
    BY DEF Recorded
  <2>1. row'[n].status = IF draft[d][n].status = "same" THEN row[n].status
                                                     ELSE draft[d][n].status
    BY CommitRows
  <2>2. draft[d][n].status \in {"sent", "failed", "suppressed", "same"}
    <3>1. draft[d][n] \in
            [status : Verdict \cup {"same"}, attempts : -1 .. MaxDeliveryAttempts]
      BY DEF Shape, TypeOK
    <3> QED
      BY <3>1 DEF Verdict
  <2>3. row[n].status = "absent"
    BY <2>1, <2>2
  <2>4. row[n] = Absent /\ \A e \in Pass : n \notin InHand(e) /\ draft[e][n] = NoDraft
    BY <2>3 DEF Shape, Recorded
  <2>5. row'[n] = row[n]
    BY <2>4, CommitRows
  <2>6. \A e \in Pass : n \notin InHand(e)' /\ draft'[e][n] = NoDraft
    BY <1>1, <2>4, CloseDrops
  <2> QED
    BY <2>4, <2>5, <2>6
<1>5. HandIsDue'
  <2> SUFFICES ASSUME NEW e \in Pass, NEW n \in InHand(e)'
               PROVE  /\ seen'[e][n].status \in {"pending", "failed"}
                      /\ seen'[e][n].attempts < MaxDeliveryAttempts
    BY DEF HandIsDue
  <2>1. n \in InHand(e) /\ seen'[e] = seen[e]
    BY <1>1, CloseDrops
  <2> QED
    BY <2>1 DEF Shape, HandIsDue
<1> QED
  BY <1>1, <1>3, <1>4, <1>5, CloseEffect DEF Shape

LEMMA StepShape == Shape /\ [Next]_vars => Shape'
<1> SUFFICES ASSUME Shape, [Next]_vars PROVE Shape'
  OBVIOUS
<1>1. ASSUME NEW n \in Notification, Record(n) \/ Age(n) PROVE Shape'
  BY <1>1, RecordShape, AgeShape
<1>2. CASE Reconfigure
  BY <1>2, ReconfigureShape
<1>3. ASSUME NEW d \in Pass, PassNext(d) PROVE Shape'
  <2>1. CASE Start(d)
    BY <2>1, StartShape
  <2>2. CASE Return(d)
    BY <2>2, ReturnShape
  <2>3. CASE Send(d)
    BY <2>3, SendShape
  <2>4. CASE Wait(d)
    BY <2>4, WaitShape
  <2>5. CASE Mark(d)
    BY <2>5, MarkShape
  <2>6. CASE Commit(d)
    BY <2>6, CommitShape
  <2>7. CASE Crash(d)
    <3>1. faults' = faults + 1 /\ faults' \in 0 .. MaxFaults
      BY <2>7, DeliveryAssumption DEF Crash, Shape, TypeOK
    <3> QED
      BY <2>7, <3>1, LostShape DEF Crash
  <2>8. CASE Deadlock(d)
    <3>1. faults' = faults /\ faults' \in 0 .. MaxFaults
      BY <2>8 DEF Deadlock, Shape, TypeOK
    <3> QED
      BY <2>8, <3>1, LostShape DEF Deadlock
  <2> QED
    BY <1>3, <2>1, <2>2, <2>3, <2>4, <2>5, <2>6, <2>7, <2>8 DEF PassNext
<1>4. CASE UNCHANGED vars
  <2>1. TypeOK'
    BY <1>4 DEF vars, history, Shape, TypeOK
  <2>2. \A d \in Pass : InHand(d)' = InHand(d)
    BY <1>4 DEF vars, InHand
  <2> QED
    BY <1>4, <2>1, <2>2 DEF vars, Shape, Recorded, HandIsDue, BatchesInHand, StageFits
<1> QED
  BY <1>1, <1>2, <1>3, <1>4 DEF Next

LEMMA ShapeHolds == Spec => []Shape
<1>1. Shape /\ [Next]_vars => Shape'
  BY StepShape
<1> QED
  BY InitShape, <1>1, PTL DEF Spec

(* Rows, passes and what a pass holds keep their types; a row is locked by  *)
(* at most one pass, and only while that pass runs.                         *)
THEOREM TypeCorrect == Spec => []TypeOK
<1>1. Shape => TypeOK
  BY DEF Shape
<1> QED
  BY ShapeHolds, <1>1, PTL

-----------------------------------------------------------------------------
(* What the rows say of the messages                                        *)

Truth ==
  VerdictTrue /\ DraftTrue /\ HandTried /\ SentWasSent /\ NotGivenUpEarly /\ OneRecipient

LEMMA InitTruth == Init => Truth
<1> SUFFICES ASSUME Init PROVE Truth
  OBVIOUS
<1>1. /\ \A n \in Notification : /\ row[n] = Absent /\ copies[n] = 0 /\ tries[n] = 0
      /\ \A d \in Pass : current[d] = {} /\ todo[d] = {} /\ InHand(d) = {}
      /\ \A d \in Pass, n \in Notification : draft[d][n] = NoDraft
  BY DEF Init, InHand
<1>2. /\ NoDraft.status = "same" /\ NoDraft.attempts = -1
      /\ Absent.status = "absent" /\ Absent.attempts = 0
  BY DEF NoDraft, Absent
<1> QED
  BY <1>1, <1>2 DEF Truth, VerdictTrue, DraftTrue, HandTried, SentWasSent, NotGivenUpEarly,
     OneRecipient

(* Without a draft there is nothing to be said of one.                      *)
LEMMA NoDraftTrue ==
  /\ NoDraft.status = "same" /\ NoDraft.attempts = -1
  /\ Absent.status = "absent" /\ Absent.attempts = 0
BY DEF NoDraft, Absent

LEMMA RecordTruth ==
  ASSUME Shape, Truth, NEW n \in Notification, Record(n)
  PROVE  Truth'
<1>1. /\ row[n] = Absent /\ UNCHANGED <<todo, current, verdict, seen, draft, copies, tries>>
      /\ \A m \in Notification \ {n} : row'[m] = row[m] /\ key'[m] = key[m]
      /\ row'[n] = [status |-> "pending", attempts |-> 0]
  <2>1. \A m \in Notification \ {n} : key'[m] = key[m]
    BY DEF Record, Shape, TypeOK
  <2> QED
    BY <2>1 DEF Record, Shape, TypeOK, history
<1>2. \A d \in Pass : n \notin InHand(d) /\ draft[d][n] = NoDraft /\ InHand(d)' = InHand(d)
  BY <1>1, NoDraftTrue DEF Shape, Recorded, InHand
<1>3. \A d \in Pass : n \notin current[d] /\ \A b \in todo[d] : n \notin b
  BY <1>2 DEF Shape, BatchesInHand
<1>4. \A m \in Notification : tries[m] \in Nat
  BY DeliveryAssumption DEF Shape, TypeOK
<1>5. VerdictTrue'
  <2>1. \A d \in Pass : \A m \in current[d] : m \in Notification \ {n}
    BY <1>3 DEF Shape, TypeOK
  <2> QED
    BY <1>1, <2>1 DEF Truth, VerdictTrue
<1>6. DraftTrue'
  BY <1>1, <1>2, <1>4, NoDraftTrue DEF Truth, DraftTrue
<1>7. HandTried'
  BY <1>1, <1>2 DEF Truth, HandTried
<1>8. SentWasSent' /\ NotGivenUpEarly'
  <2>1. row'[n].status = "pending" /\ row'[n].attempts = 0
    BY <1>1
  <2> QED
    BY <1>1, <1>4, <2>1 DEF Truth, SentWasSent, NotGivenUpEarly
<1>9. OneRecipient'
  <2>1. \A d \in Pass : \A b \in todo[d] : b \subseteq Notification
    BY DEF Shape, TypeOK
  <2> QED
    BY <1>1, <1>3, <2>1 DEF Truth, OneRecipient
<1> QED
  BY <1>5, <1>6, <1>7, <1>8, <1>9 DEF Truth

(* Steps that touch neither rows, batches nor messages.                     *)
LEMMA QuietTruth ==
  ASSUME Truth, UNCHANGED <<row, key, todo, current, verdict, seen, draft, copies, tries>>
  PROVE  Truth'
<1>1. \A d \in Pass : InHand(d)' = InHand(d)
  BY DEF InHand
<1> QED
  BY <1>1 DEF Truth, VerdictTrue, DraftTrue, HandTried, SentWasSent, NotGivenUpEarly,
     OneRecipient

LEMMA StartTruth ==
  ASSUME Shape, Truth, NEW d \in Pass, Start(d)
  PROVE  Truth'
<1>1. /\ UNCHANGED <<row, key, current, verdict, draft, copies, tries>>
      /\ \A e \in Pass \ {d} : seen'[e] = seen[e] /\ todo'[e] = todo[e]
      /\ todo'[d] = Batches(Due(d)) /\ pc[d] = "idle"
      /\ seen'[d] = [n \in Notification |-> IF n \in Due(d) THEN row[n] ELSE Absent]
  BY DEF Start, Shape, TypeOK
<1>2. current[d] = {}
  BY <1>1 DEF Shape, StageFits, BatchesInHand
<1>3. VerdictTrue'
  BY <1>1, <1>2 DEF Truth, VerdictTrue
<1>4. HandTried'
  <2>1. \A e \in Pass \ {d} : InHand(e)' = InHand(e)
    BY <1>1 DEF InHand
  <2>2. \A n \in InHand(d)' : n \in Notification /\ seen'[d][n] = row[n]
    BY <1>1 DEF InHand
  <2> QED
    BY <1>1, <2>1, <2>2 DEF Truth, HandTried, NotGivenUpEarly
<1>5. OneRecipient'
  <2>1. Due(d) \in SUBSET Notification
    BY DueRows DEF Shape
  <2>2. \A b \in todo'[d] : \A m, n \in b : key[m] = key[n]
    BY <1>1, <2>1, BatchesPartition
  <2> QED
    BY <1>1, <2>2 DEF Truth, OneRecipient
<1> QED
  BY <1>1, <1>3, <1>4, <1>5 DEF Truth, DraftTrue, SentWasSent, NotGivenUpEarly

(* A batch that some provider may take costs each of its rows a try.        *)
LEMMA SendTries ==
  ASSUME Shape, NEW d \in Pass, Send(d), NEW n \in Notification
  PROVE  /\ tries[n] \in Nat /\ tries'[n] \in Nat /\ tries'[n] >= tries[n]
         /\ n \in NextBatch(d) /\ verdict'[d] # "suppressed" =>
              tries'[n] = AtMost(MaxDeliveryAttempts, tries[n] + 1)
<1>1. tries'[n] = IF n \in NextBatch(d) /\ key[Min(NextBatch(d))].route # {}
                    THEN AtMost(MaxDeliveryAttempts, tries[n] + 1) ELSE tries[n]
  BY DEF Send
<1>2. tries[n] \in 0 .. MaxDeliveryAttempts /\ MaxDeliveryAttempts \in Nat
  BY DeliveryAssumption DEF Shape, TypeOK
<1>3. verdict'[d] # "suppressed" => key[Min(NextBatch(d))].route # {}
  BY SendEffect
<1> QED
  BY <1>1, <1>2, <1>3 DEF AtMost

(* What is counted is counted in numbers.                                   *)
LEMMA Counts ==
  ASSUME Shape, NEW n \in Notification
  PROVE  /\ copies[n] \in Nat /\ tries[n] \in Nat /\ row[n].attempts \in Nat
         /\ \A e \in Pass : seen[e][n].attempts \in Nat /\ draft[e][n].attempts \in Int
<1>1. MaxDeliveryAttempts \in Nat
  BY DeliveryAssumption
<1>2. copies[n] \in 0 .. 2 /\ tries[n] \in 0 .. MaxDeliveryAttempts /\ row[n] \in RowType
  BY DEF Shape, TypeOK
<1>3. \A e \in Pass : /\ seen[e][n] \in RowType
                      /\ draft[e][n] \in [status : Verdict \cup {"same"},
                                          attempts : -1 .. MaxDeliveryAttempts]
  BY DEF Shape, TypeOK
<1> QED
  BY <1>1, <1>2, <1>3 DEF RowType

LEMMA SendTruth ==
  ASSUME Shape, Truth, NEW d \in Pass, Send(d)
  PROVE  Truth'
<1>1. UNCHANGED <<row, key, seen, draft>>
  BY DEF Send
<1>2. \A n \in Notification :
        /\ copies[n] \in Nat /\ copies'[n] \in Nat /\ copies'[n] >= copies[n]
        /\ tries[n] \in Nat /\ tries'[n] \in Nat /\ tries'[n] >= tries[n]
        /\ row[n].attempts \in Nat /\ \A e \in Pass : seen[e][n].attempts \in Nat
        /\ \A e \in Pass : draft[e][n].attempts \in Int
  <2> SUFFICES ASSUME NEW n \in Notification
               PROVE  /\ copies[n] \in Nat /\ copies'[n] \in Nat /\ copies'[n] >= copies[n]
                      /\ tries[n] \in Nat /\ tries'[n] \in Nat /\ tries'[n] >= tries[n]
                      /\ row[n].attempts \in Nat
                      /\ \A e \in Pass : seen[e][n].attempts \in Nat
                      /\ \A e \in Pass : draft[e][n].attempts \in Int
    OBVIOUS
  <2>1. copies'[n] \in 0 .. 2 /\ copies'[n] >= copies[n]
    BY SendEffect
  <2> QED
    BY <2>1, Counts, SendTries
<1>3. \A e \in Pass : InHand(e) \subseteq Notification /\ current[e] \subseteq Notification
  BY DEF InHand, Shape, TypeOK
<1>4. VerdictTrue'
  <2>1. ASSUME NEW e \in Pass \ {d}, NEW n \in current'[e]
        PROVE  /\ verdict'[e] = "sent" => copies'[n] > 0
               /\ verdict'[e] = "suppressed" => key'[n].route = {}
               /\ verdict'[e] # "suppressed" => seen'[e][n].attempts + 1 <= tries'[n]
    <3>1. n \in current[e] /\ verdict'[e] = verdict[e] /\ n \in Notification
      BY <1>3, <2>1, SendEffect
    <3> QED
      BY <1>1, <1>2, <3>1 DEF Truth, VerdictTrue
  <2>2. ASSUME NEW n \in current'[d]
        PROVE  /\ verdict'[d] = "sent" => copies'[n] > 0
               /\ verdict'[d] = "suppressed" => key'[n].route = {}
               /\ verdict'[d] # "suppressed" => seen'[d][n].attempts + 1 <= tries'[n]
    <3>1. /\ n \in NextBatch(d) /\ NextBatch(d) \in todo[d] /\ n \in InHand(d)
          /\ n \in Notification /\ Min(NextBatch(d)) \in NextBatch(d)
      BY <1>3, <2>2, SendEffect
    <3>2. key[n] = key[Min(NextBatch(d))]
      BY <3>1 DEF Truth, OneRecipient
    <3>3. seen[d][n].attempts < MaxDeliveryAttempts /\ seen[d][n].attempts <= tries[n]
      BY <3>1 DEF Truth, HandTried, Shape, HandIsDue
    <3>4. verdict'[d] # "suppressed" => seen[d][n].attempts + 1 <= tries'[n]
      BY <1>2, <3>1, <3>3, SendTries, DeliveryAssumption DEF AtMost
    <3> QED
      BY <1>1, <3>1, <3>2, <3>4, SendEffect
  <2> QED
    BY <2>1, <2>2 DEF VerdictTrue
<1>5. DraftTrue'
  BY <1>1, <1>2 DEF Truth, DraftTrue
<1>6. HandTried'
  <2>1. \A e \in Pass : InHand(e)' = InHand(e)
    BY SendEffect
  <2> QED
    BY <1>1, <1>2, <1>3, <2>1 DEF Truth, HandTried
<1>7. SentWasSent' /\ NotGivenUpEarly'
  BY <1>1, <1>2 DEF Truth, SentWasSent, NotGivenUpEarly
<1>8. OneRecipient'
  BY <1>1, SendEffect DEF Truth, OneRecipient
<1> QED
  BY <1>4, <1>5, <1>6, <1>7, <1>8 DEF Truth

LEMMA MarkTruth ==
  ASSUME Shape, Truth, NEW d \in Pass, Mark(d)
  PROVE  Truth'
<1> DEFINE n == Min(current[d])  u == Update(seen[d][n], verdict[d])
<1>1. /\ UNCHANGED <<row, key, todo, copies, tries>>
      /\ n \in current[d] /\ n \in InHand(d) /\ n \in Notification
  BY MarkEffect
<1>2. /\ verdict[d] = "sent" => copies[n] > 0
      /\ verdict[d] = "suppressed" => key[n].route = {}
      /\ verdict[d] # "suppressed" => seen[d][n].attempts + 1 <= tries[n]
      /\ seen[d][n].attempts <= tries[n] /\ tries[n] \in Nat
  <2> HIDE DEF n
  <2>1. tries[n] \in Nat
    BY <1>1, Counts
  <2> QED
    BY <1>1, <2>1 DEF Truth, VerdictTrue, HandTried
<1>3. /\ u.status = "sent" => copies[n] > 0
      /\ u.status = "suppressed" => key[n].route = {}
      /\ u.attempts <= tries[n]
  <2>1. /\ u.status \in {"same", verdict[d]}
        /\ u.attempts = IF verdict[d] = "suppressed" THEN -1 ELSE seen[d][n].attempts + 1
    BY <1>1, MarkUpdates
  <2> QED
    BY <1>2, <2>1
<1>4. VerdictTrue'
  <2>1. ASSUME NEW e \in Pass, NEW m \in current'[e]
        PROVE  m \in current[e] /\ verdict'[e] = verdict[e] /\ seen'[e][m] = seen[e][m]
    <3>1. CASE e = d
      <4>1. current'[d] = current[d] \ {n} /\ current'[d] # {} /\ m \in Notification
        BY <2>1, <3>1, MarkEffect DEF Shape, TypeOK
      <4> QED
        BY <2>1, <3>1, <4>1, MarkEffect
    <3>2. CASE e # d
      BY <2>1, <3>2, MarkEffect
    <3> QED
      BY <3>1, <3>2
  <2> QED
    BY <1>1, <2>1 DEF Truth, VerdictTrue
<1> HIDE DEF u
<1>5. DraftTrue'
  <2>1. /\ \A e \in Pass \ {d} : draft'[e] = draft[e]
        /\ \A m \in Notification \ {n} : draft'[d][m] = draft[d][m]
        /\ draft'[d][n] = u
    BY MarkEffect DEF u
  <2> HIDE DEF n
  <2> QED
    BY <1>1, <1>3, <2>1 DEF Truth, DraftTrue
<1>6. HandTried'
  <2>1. \A e \in Pass : \A m \in InHand(e)' :
          m \in InHand(e) /\ seen'[e][m] = seen[e][m]
    <3>1. \A m \in InHand(d)' : m \in InHand(d) \ {n} /\ m \in Notification \ {n}
      BY MarkEffect DEF InHand
    <3> QED
      BY <3>1, MarkEffect
  <2> QED
    BY <1>1, <2>1 DEF Truth, HandTried
<1> QED
  BY <1>1, <1>4, <1>5, <1>6 DEF Truth, SentWasSent, NotGivenUpEarly, OneRecipient

(* A pass that is over says nothing any more.                               *)
LEMMA CloseTruth ==
  ASSUME Shape, Truth, NEW d \in Pass, Close(d), UNCHANGED <<key, copies, tries>>
  PROVE  VerdictTrue' /\ DraftTrue' /\ HandTried' /\ OneRecipient'
<1>1. \A n \in Notification : tries[n] \in Nat
  BY DeliveryAssumption DEF Shape, TypeOK
<1>2. VerdictTrue'
  <2> SUFFICES ASSUME NEW e \in Pass, NEW n \in current'[e]
               PROVE  /\ verdict'[e] = "sent" => copies'[n] > 0
                      /\ verdict'[e] = "suppressed" => key'[n].route = {}
                      /\ verdict'[e] # "suppressed" => seen'[e][n].attempts + 1 <= tries'[n]
    BY DEF VerdictTrue
  <2>1. n \in current[e] /\ verdict'[e] = verdict[e] /\ seen'[e] = seen[e]
    BY CloseDrops
  <2> QED
    BY <2>1 DEF Truth, VerdictTrue
<1>3. DraftTrue'
  <2> SUFFICES ASSUME NEW e \in Pass, NEW n \in Notification
               PROVE  /\ draft'[e][n].status = "sent" => copies[n] > 0
                      /\ draft'[e][n].status = "suppressed" => key[n].route = {}
                      /\ draft'[e][n].attempts <= tries[n]
    BY DEF DraftTrue
  <2>1. draft'[e][n] = draft[e][n] \/ draft'[e][n] = NoDraft
    BY CloseDrops
  <2> QED
    BY <1>1, <2>1, NoDraftTrue DEF Truth, DraftTrue
<1>4. HandTried'
  <2> SUFFICES ASSUME NEW e \in Pass, NEW n \in InHand(e)'
               PROVE  seen'[e][n].attempts <= tries[n]
    BY DEF HandTried
  <2>1. n \in InHand(e) /\ seen'[e] = seen[e]
    BY CloseDrops
  <2> QED
    BY <2>1 DEF Truth, HandTried
<1>5. OneRecipient'
  BY CloseDrops DEF Truth, OneRecipient
<1> QED
  BY <1>2, <1>3, <1>4, <1>5

LEMMA CommitTruth ==
  ASSUME Shape, Truth, NEW d \in Pass, Commit(d)
  PROVE  Truth'
<1>1. Close(d) /\ UNCHANGED <<key, copies, tries>>
  BY DEF Commit, history
<1>2. SentWasSent'
  BY <1>1, CommitRows DEF Truth, SentWasSent, DraftTrue
<1>3. NotGivenUpEarly'
  BY <1>1, CommitRows DEF Truth, NotGivenUpEarly, DraftTrue
<1> QED
  BY <1>1, <1>2, <1>3, CloseTruth DEF Truth

LEMMA StepTruth == Shape /\ Truth /\ [Next]_vars => Truth'
<1> SUFFICES ASSUME Shape, Truth, [Next]_vars PROVE Truth'
  OBVIOUS
<1>1. ASSUME NEW n \in Notification, Record(n) \/ Age(n) PROVE Truth'
  <2>1. CASE Record(n)
    BY <2>1, RecordTruth
  <2>2. CASE Age(n)
    BY <2>2, QuietTruth DEF Age, history
  <2> QED
    BY <1>1, <2>1, <2>2
<1>2. CASE Reconfigure
  BY <1>2, QuietTruth DEF Reconfigure, history
<1>3. ASSUME NEW d \in Pass, PassNext(d) PROVE Truth'
  <2>1. CASE Start(d)
    BY <2>1, StartTruth
  <2>2. CASE Return(d)
    BY <2>2, QuietTruth DEF Return, history
  <2>3. CASE Send(d)
    BY <2>3, SendTruth
  <2>4. CASE Wait(d)
    BY <2>4, QuietTruth DEF Wait, history
  <2>5. CASE Mark(d)
    BY <2>5, MarkTruth
  <2>6. CASE Commit(d)
    BY <2>6, CommitTruth
  <2>7. CASE Crash(d)
    BY <2>7, CloseTruth DEF Crash, Truth, SentWasSent, NotGivenUpEarly
  <2>8. CASE Deadlock(d)
    BY <2>8, CloseTruth DEF Deadlock, Truth, SentWasSent, NotGivenUpEarly
  <2> QED
    BY <1>3, <2>1, <2>2, <2>3, <2>4, <2>5, <2>6, <2>7, <2>8 DEF PassNext
<1>4. CASE UNCHANGED vars
  BY <1>4, QuietTruth DEF vars, history
<1> QED
  BY <1>1, <1>2, <1>3, <1>4 DEF Next

LEMMA TruthHolds == Spec => []Truth
<1>1. Shape /\ Truth /\ [Next]_vars => Truth'
  BY StepTruth
<1> QED
  BY InitTruth, ShapeHolds, <1>1, PTL DEF Spec

(* No alert is closed without a message: a row marked sent was sent,        *)
(* whichever passes overlap, crash or end in a deadlock, and whatever they  *)
(* overwrite of each other's marks.                                         *)
THEOREM SentHasCopy == Spec => []SentWasSent
<1>1. Truth => SentWasSent
  BY DEF Truth
<1> QED
  BY TruthHolds, <1>1, PTL

(* attempts never runs ahead of the tries made, and a row is suppressed only*)
(* where no provider would take it.                                         *)
THEOREM TriesAreKept == Spec => []NotGivenUpEarly
<1>1. Truth => NotGivenUpEarly
  BY DEF Truth
<1> QED
  BY TruthHolds, <1>1, PTL

(* A digest never holds the alerts of two recipients, whenever digests are  *)
(* switched on or off.                                                      *)
THEOREM DigestsHaveOneRecipient == Spec => []OneRecipient
<1>1. Truth => OneRecipient
  BY DEF Truth
<1> QED
  BY TruthHolds, <1>1, PTL

-----------------------------------------------------------------------------
(* Alerts that nothing disturbed                                            *)

Once == UndisturbedAlone /\ UndisturbedOnce

(* An alert with a verdict or a draft is listed by the pass that has it.    *)
LEMMA ListedRows ==
  ASSUME Shape, NEW d \in Pass, NEW n \in Notification
  PROVE  /\ n \in Listed(d) <=> n \in InHand(d) \/ draft[d][n] # NoDraft
         /\ n \in current[d] => n \in Listed(d) /\ draft[d][n] = NoDraft
         /\ draft[d][n].status = "sent" => n \in Listed(d)
         /\ pc[d] = "idle" => n \notin Listed(d)
BY NoDraftTrue DEF Shape, Listed, InHand, BatchesInHand, StageFits, TypeOK

LEMMA InitOnce == Init => Once
<1> SUFFICES ASSUME Init PROVE Once
  OBVIOUS
<1>1. /\ \A n \in Notification : copies[n] = 0
      /\ \A d \in Pass, n \in Notification : draft[d][n] = NoDraft /\ seen[d][n] = Absent
  BY DEF Init
<1> QED
  BY <1>1 DEF Once, UndisturbedAlone, UndisturbedOnce, Listed

LEMMA RecordOnce ==
  ASSUME Shape, Once, NEW n \in Notification, Record(n)
  PROVE  Once'
<1>1. /\ row[n] = Absent /\ UNCHANGED <<current, verdict, seen, draft, copies, disturbed>>
      /\ \A m \in Notification \ {n} : row'[m] = row[m]
  BY DEF Record, Shape, TypeOK, history
<1>2. \A d \in Pass : Listed(d)' = Listed(d)
  BY <1>1 DEF Listed
<1>3. \A d \in Pass : n \notin InHand(d) /\ draft[d][n] = NoDraft
  BY <1>1, NoDraftTrue DEF Shape, Recorded
<1>4. \A d \in Pass : n \notin Listed(d) /\ n \notin current[d] /\ draft[d][n].status # "sent"
  BY <1>3, ListedRows
<1>5. n \notin disturbed => ~(copies[n] > 0)
  BY <1>1, <1>4, NoDraftTrue DEF Once, UndisturbedOnce
<1>6. UndisturbedAlone'
  BY <1>1, <1>2, <1>4 DEF Once, UndisturbedAlone
<1>7. UndisturbedOnce'
  BY <1>1, <1>5 DEF Once, UndisturbedOnce
<1> QED
  BY <1>6, <1>7 DEF Once

LEMMA QuietOnce ==
  ASSUME Once, UNCHANGED <<row, current, verdict, seen, draft, copies, disturbed>>
  PROVE  Once'
<1>1. \A d \in Pass : Listed(d)' = Listed(d)
  BY DEF Listed
<1> QED
  BY <1>1 DEF Once, UndisturbedAlone, UndisturbedOnce

LEMMA StartOnce ==
  ASSUME Shape, Once, NEW d \in Pass, Start(d)
  PROVE  Once'
<1>1. /\ UNCHANGED <<row, current, verdict, draft, copies>> /\ pc[d] = "idle"
      /\ disturbed' = disturbed \cup (Due(d) \cap UNION {Listed(e) : e \in Pass})
      /\ \A e \in Pass \ {d} : seen'[e] = seen[e]
      /\ seen'[d] = [n \in Notification |-> IF n \in Due(d) THEN row[n] ELSE Absent]
  BY DEF Start, Shape, TypeOK
<1>2. \A e \in Pass \ {d} : Listed(e)' = Listed(e)
  BY <1>1 DEF Listed
<1>3. \A n \in Notification : n \in Listed(d)' => n \in Due(d)
  <2>1. \A n \in Notification : draft[d][n] = NoDraft
    BY <1>1, ListedRows
  <2> QED
    BY <1>1, <2>1 DEF Listed
<1>4. \A n \in Due(d) : n \notin disturbed' => \A e \in Pass : n \notin Listed(e)
  BY <1>1
<1>5. UndisturbedAlone'
  <2> SUFFICES ASSUME NEW n \in Notification \ disturbed'
               PROVE  /\ \A e, f \in Pass : n \in Listed(e)' /\ n \in Listed(f)' => e = f
                      /\ \A e \in Pass : n \in Listed(e)' => row'[n].status \in {"pending", "failed"}
    BY DEF UndisturbedAlone
  <2>1. n \notin disturbed
    BY <1>1
  <2>2. CASE n \in Due(d)
    BY <1>1, <1>2, <1>4, <2>2, DueRows DEF Shape
  <2>3. CASE n \notin Due(d)
    BY <1>1, <1>2, <1>3, <2>1, <2>3 DEF Once, UndisturbedAlone
  <2> QED
    BY <2>2, <2>3
<1>6. UndisturbedOnce'
  BY <1>1 DEF Once, UndisturbedOnce
<1> QED
  BY <1>5, <1>6 DEF Once

(* Whoever has an undisturbed alert still to send finds it unsent.          *)
LEMMA ToSendUnsent ==
  ASSUME Shape, Once, NEW d \in Pass, NEW b \in todo[d], NEW n \in b, n \notin disturbed
  PROVE  copies[n] \in Nat /\ ~(copies[n] > 0)
<1>1. /\ n \in InHand(d) /\ n \notin current[d] /\ draft[d][n] = NoDraft /\ n \in Notification
  BY DEF Shape, BatchesInHand, InHand
<1>2. n \in Listed(d) /\ row[n].status # "sent"
  BY <1>1, ListedRows DEF Once, UndisturbedAlone
<1>3. \A e \in Pass : n \in Listed(e) => e = d
  BY <1>1, <1>2 DEF Once, UndisturbedAlone
<1>4. ~\E e \in Pass : n \in current[e] \/ draft[e][n].status = "sent"
  BY <1>1, <1>3, ListedRows, NoDraftTrue
<1>5. ~(copies[n] > 0)
  BY <1>1, <1>2, <1>4 DEF Once, UndisturbedOnce
<1> QED
  BY <1>1, <1>5, Counts

(* A message that goes out without a fault goes out once.                   *)
LEMMA SendsOnce ==
  ASSUME Shape, NEW d \in Pass, Send(d), NEW n \in Notification, n \notin disturbed'
  PROVE  /\ n \notin disturbed
         /\ n \in NextBatch(d) =>
              copies'[n] = AtMost(2, copies[n] + (IF verdict'[d] = "sent" THEN 1 ELSE 0))
<1>1. verdict \in [Pass -> Verdict]
  BY DEF Shape, TypeOK
<1>2. CASE UNCHANGED <<disturbed, faults>>
  BY <1>1, <1>2 DEF Send
<1>3. CASE disturbed' = disturbed \cup NextBatch(d)
  BY <1>3
<1> QED
  BY <1>2, <1>3 DEF Send

LEMMA SendOnce ==
  ASSUME Shape, Once, NEW d \in Pass, Send(d)
  PROVE  Once'
<1>1. UNCHANGED <<row, seen, draft>>
  BY DEF Send
<1>2. \A e \in Pass : Listed(e)' = Listed(e)
  BY <1>1 DEF Listed
<1>3. \A n \in Notification \ disturbed' : n \notin disturbed
  BY SendsOnce
<1>4. UndisturbedAlone'
  BY <1>1, <1>2, <1>3 DEF Once, UndisturbedAlone
<1>5. ASSUME NEW n \in Notification \ disturbed'
      PROVE  /\ copies'[n] <= 1
             /\ copies'[n] > 0 =>
                  \/ row'[n].status = "sent"
                  \/ \E e \in Pass : n \in current'[e] /\ verdict'[e] = "sent"
                  \/ \E e \in Pass : draft'[e][n].status = "sent"
  <2>1. CASE n \in NextBatch(d)
    <3>1. copies[n] = 0
      BY <1>3, <1>5, <2>1, SendEffect, ToSendUnsent
    <3>2. copies'[n] = AtMost(2, copies[n] + (IF verdict'[d] = "sent" THEN 1 ELSE 0))
      BY <1>5, <2>1, SendsOnce
    <3>3. copies'[n] = IF verdict'[d] = "sent" THEN 1 ELSE 0
      BY <3>1, <3>2 DEF AtMost
    <3>4. n \in current'[d]
      BY <2>1, SendEffect
    <3> QED
      BY <3>3, <3>4
  <2>2. CASE n \notin NextBatch(d)
    <3>1. copies'[n] = copies[n]
      BY <1>5, <2>2, SendEffect
    <3>2. \A e \in Pass : n \in current[e] => e # d
      BY SendEffect DEF Shape, StageFits
    <3> QED
      BY <1>1, <1>3, <1>5, <3>1, <3>2, SendEffect DEF Once, UndisturbedOnce
  <2> QED
    BY <2>1, <2>2
<1> QED
  BY <1>4, <1>5 DEF Once, UndisturbedOnce

LEMMA MarkOnce ==
  ASSUME Shape, Once, NEW d \in Pass, Mark(d)
  PROVE  Once'
<1> DEFINE m == Min(current[d])
<1>1. UNCHANGED <<row, copies, disturbed>> /\ m \in current[d] /\ m \in InHand(d)
      /\ m \in Notification
  BY MarkEffect
<1>2. draft'[d][m] # NoDraft /\ (verdict[d] = "sent" => draft'[d][m].status = "sent")
  BY <1>1, MarkEffect, MarkUpdates
<1>3. \A e \in Pass, n \in Notification : n \in Listed(e)' <=> n \in Listed(e)
  <2>1. ASSUME NEW e \in Pass \ {d} PROVE Listed(e)' = Listed(e)
    BY MarkEffect DEF Listed
  <2>2. m \in Listed(d)' /\ m \in Listed(d)
    BY <1>1, <1>2 DEF Listed, InHand
  <2>3. ASSUME NEW n \in Notification \ {m} PROVE n \in Listed(d)' <=> n \in Listed(d)
    BY MarkEffect DEF Listed
  <2> QED
    BY <2>1, <2>2, <2>3
<1>4. UndisturbedAlone'
  BY <1>1, <1>3 DEF Once, UndisturbedAlone
<1>5. ASSUME NEW n \in Notification \ disturbed, copies[n] > 0
      PROVE  \/ row[n].status = "sent"
             \/ \E e \in Pass : n \in current'[e] /\ verdict'[e] = "sent"
             \/ \E e \in Pass : draft'[e][n].status = "sent"
  <2>1. ASSUME NEW e \in Pass, n \in current[e], verdict[e] = "sent"
        PROVE  \/ n \in current'[e] /\ verdict'[e] = "sent"
               \/ draft'[e][n].status = "sent"
    <3>1. CASE e # d
      BY <2>1, <3>1, MarkEffect
    <3>2. CASE e = d /\ n = m
      BY <1>2, <2>1, <3>2
    <3>3. CASE e = d /\ n # m
      <4>1. n \in current'[d]
        BY <2>1, <3>3, MarkEffect
      <4> QED
        BY <2>1, <3>3, <4>1, MarkEffect
    <3> QED
      BY <3>1, <3>2, <3>3
  <2>2. ASSUME NEW e \in Pass, draft[e][n].status = "sent"
        PROVE  draft'[e][n].status = "sent"
    <3>1. n # m
      BY <2>2, MarkEffect, NoDraftTrue
    <3> QED
      BY <2>2, <3>1, MarkEffect
  <2> QED
    BY <1>5, <2>1, <2>2 DEF Once, UndisturbedOnce
<1>6. UndisturbedOnce'
  BY <1>1, <1>5 DEF Once, UndisturbedOnce
<1> QED
  BY <1>4, <1>6 DEF Once

(* The rows of a pass that is over are no longer listed by it.              *)
LEMMA ClosedLists ==
  ASSUME Shape, NEW d \in Pass, Close(d)
  PROVE  \A n \in Notification : n \notin Listed(d)'
         /\ \A e \in Pass \ {d} : n \in Listed(e)' <=> n \in Listed(e)
<1>1. \A n \in Notification : draft'[d][n] = NoDraft /\ seen'[d][n] = Absent
  BY CloseEffect DEF InHand
<1> QED
  BY <1>1, CloseEffect DEF Listed

LEMMA LostOnce ==
  ASSUME Shape, Once, NEW d \in Pass, Close(d), disturbed' = disturbed \cup Listed(d),
         UNCHANGED <<row, copies>>
  PROVE  Once'
<1>1. ASSUME NEW n \in Notification \ disturbed'
      PROVE  n \notin disturbed /\ n \notin current[d] /\ draft[d][n].status # "sent"
  BY <1>1, ListedRows
<1>2. UndisturbedAlone'
  BY <1>1, ClosedLists DEF Once, UndisturbedAlone
<1>3. ASSUME NEW n \in Notification \ disturbed', copies[n] > 0
      PROVE  \/ row[n].status = "sent"
             \/ \E e \in Pass : n \in current'[e] /\ verdict'[e] = "sent"
             \/ \E e \in Pass : draft'[e][n].status = "sent"
  <2>1. ASSUME NEW e \in Pass, n \in current[e], verdict[e] = "sent"
        PROVE  n \in current'[e] /\ verdict'[e] = "sent"
    <3>1. e # d
      BY <1>1, <1>3, <2>1
    <3> QED
      BY <2>1, <3>1, CloseEffect
  <2>2. ASSUME NEW e \in Pass, draft[e][n].status = "sent"
        PROVE  draft'[e][n].status = "sent"
    <3>1. e # d
      BY <1>1, <1>3, <2>2
    <3> QED
      BY <2>2, <3>1, CloseEffect
  <2> QED
    BY <1>1, <1>3, <2>1, <2>2 DEF Once, UndisturbedOnce
<1>4. UndisturbedOnce'
  BY <1>1, <1>3 DEF Once, UndisturbedOnce
<1> QED
  BY <1>2, <1>4 DEF Once

LEMMA CommitOnce ==
  ASSUME Shape, Once, NEW d \in Pass, Commit(d)
  PROVE  Once'
<1>1. Close(d) /\ UNCHANGED <<copies, disturbed>> /\ current[d] = {}
  BY DEF Commit, history, Shape, StageFits
<1>2. ASSUME NEW n \in Notification \ disturbed, NEW e \in Pass, n \in Listed(e)'
      PROVE  e # d /\ n \in Listed(e) /\ row'[n] = row[n]
  <2>1. e # d /\ n \in Listed(e)
    BY <1>1, <1>2, ClosedLists
  <2>2. draft[d][n] = NoDraft
    BY <2>1, ListedRows DEF Once, UndisturbedAlone
  <2> QED
    BY <2>1, <2>2, CommitRows
<1>3. UndisturbedAlone'
  BY <1>1, <1>2 DEF Once, UndisturbedAlone
<1>4. ASSUME NEW n \in Notification \ disturbed, copies[n] > 0
      PROVE  \/ row'[n].status = "sent"
             \/ \E e \in Pass : n \in current'[e] /\ verdict'[e] = "sent"
             \/ \E e \in Pass : draft'[e][n].status = "sent"
  <2>1. CASE row[n].status = "sent"
    <3>1. n \notin Listed(d)
      BY <2>1 DEF Once, UndisturbedAlone
    <3> QED
      BY <2>1, <3>1, ListedRows, CommitRows
  <2>2. ASSUME NEW e \in Pass, n \in current[e], verdict[e] = "sent"
        PROVE  n \in current'[e] /\ verdict'[e] = "sent"
    BY <1>1, <2>2, CloseEffect
  <2>3. ASSUME NEW e \in Pass, draft[e][n].status = "sent"
        PROVE  row'[n].status = "sent" \/ draft'[e][n].status = "sent"
    <3>1. CASE e = d
      <4>1. row'[n].status = draft[d][n].status
        BY <1>4, <2>3, <3>1, CommitRows
      <4> QED
        BY <2>3, <3>1, <4>1
    <3>2. CASE e # d
      BY <1>1, <2>3, <3>2, CloseEffect
    <3> QED
      BY <3>1, <3>2
  <2> QED
    BY <1>4, <2>1, <2>2, <2>3 DEF Once, UndisturbedOnce
<1>5. UndisturbedOnce'
  BY <1>1, <1>4 DEF Once, UndisturbedOnce
<1> QED
  BY <1>3, <1>5 DEF Once

LEMMA StepOnce == Shape /\ Once /\ [Next]_vars => Once'
<1> SUFFICES ASSUME Shape, Once, [Next]_vars PROVE Once'
  OBVIOUS
<1>1. ASSUME NEW n \in Notification, Record(n) \/ Age(n) PROVE Once'
  <2>1. CASE Record(n)
    BY <2>1, RecordOnce
  <2>2. CASE Age(n)
    BY <2>2, QuietOnce DEF Age, history
  <2> QED
    BY <1>1, <2>1, <2>2
<1>2. CASE Reconfigure
  BY <1>2, QuietOnce DEF Reconfigure, history
<1>3. ASSUME NEW d \in Pass, PassNext(d) PROVE Once'
  <2>1. CASE Start(d)
    BY <2>1, StartOnce
  <2>2. CASE Return(d)
    BY <2>2, QuietOnce DEF Return, history
  <2>3. CASE Send(d)
    BY <2>3, SendOnce
  <2>4. CASE Wait(d)
    BY <2>4, QuietOnce DEF Wait, history
  <2>5. CASE Mark(d)
    BY <2>5, MarkOnce
  <2>6. CASE Commit(d)
    BY <2>6, CommitOnce
  <2>7. CASE Crash(d)
    BY <2>7, LostOnce DEF Crash
  <2>8. CASE Deadlock(d)
    BY <2>8, LostOnce DEF Deadlock
  <2> QED
    BY <1>3, <2>1, <2>2, <2>3, <2>4, <2>5, <2>6, <2>7, <2>8 DEF PassNext
<1>4. CASE UNCHANGED vars
  BY <1>4, QuietOnce DEF vars, history
<1> QED
  BY <1>1, <1>2, <1>3, <1>4 DEF Next

(* A second message of an alert has a cause: two passes had it at once, the *)
(* pass that sent it did not commit, or a provider's answer was lost.       *)
THEOREM SecondMessageHasCause == Spec => []TwiceOnlyWhenDisturbed
<1>1. Shape /\ Once /\ [Next]_vars => Once'
  BY StepOnce
<1>2. Shape /\ Once => TwiceOnlyWhenDisturbed
  <2> SUFFICES ASSUME Shape, Once, NEW n \in Notification, copies[n] > 1, n \notin disturbed
               PROVE  FALSE
    BY DEF TwiceOnlyWhenDisturbed
  <2>1. copies[n] \in Nat
    BY Counts
  <2>2. copies[n] <= 1
    BY DEF Once, UndisturbedOnce
  <2> QED
    BY <2>1, <2>2
<1> QED
  BY InitOnce, ShapeHolds, <1>1, <1>2, PTL DEF Spec

-----------------------------------------------------------------------------
(* One outbox                                                               *)

LEMMA InitDue == Init => UndisturbedDue
BY DEF Init, UndisturbedDue, Listed

(* A step that neither writes a row nor lists one.                          *)
LEMMA QuietDue ==
  ASSUME UndisturbedDue, row' = row, disturbed \subseteq disturbed',
         \A d \in Pass, n \in Notification : n \in Listed(d)' => n \in Listed(d)
  PROVE  UndisturbedDue'
BY DEF UndisturbedDue

LEMMA StillDue ==
  ASSUME UndisturbedDue, UNCHANGED <<row, seen, draft>>, disturbed \subseteq disturbed'
  PROVE  UndisturbedDue'
<1>1. \A d \in Pass : Listed(d)' = Listed(d)
  BY DEF Listed
<1> QED
  BY <1>1, QuietDue

LEMMA RecordDue ==
  ASSUME Shape, UndisturbedDue, NEW n \in Notification, Record(n)
  PROVE  UndisturbedDue'
<1>1. /\ row[n] = Absent /\ UNCHANGED <<seen, draft, disturbed>>
      /\ \A m \in Notification \ {n} : row'[m] = row[m]
  BY DEF Record, Shape, TypeOK, history
<1>2. \A d \in Pass : Listed(d)' = Listed(d)
  BY <1>1 DEF Listed
<1>3. \A d \in Pass : n \notin Listed(d)
  BY <1>1, NoDraftTrue, ListedRows DEF Shape, Recorded
<1> QED
  BY <1>1, <1>2, <1>3 DEF UndisturbedDue

LEMMA StartDue ==
  ASSUME Shape, UndisturbedDue, NEW d \in Pass, Start(d)
  PROVE  UndisturbedDue'
<1>1. /\ UNCHANGED <<row, draft>> /\ pc[d] = "idle" /\ disturbed \subseteq disturbed'
      /\ \A e \in Pass \ {d} : seen'[e] = seen[e]
      /\ seen'[d] = [n \in Notification |-> IF n \in Due(d) THEN row[n] ELSE Absent]
  BY DEF Start, Shape, TypeOK
<1>2. \A e \in Pass \ {d} : Listed(e)' = Listed(e)
  BY <1>1 DEF Listed
<1>3. \A n \in Notification : n \in Listed(d)' => n \in Due(d)
  <2>1. \A n \in Notification : draft[d][n] = NoDraft
    BY <1>1, ListedRows
  <2> QED
    BY <1>1, <2>1 DEF Listed
<1>4. \A n \in Due(d) : row[n].attempts < MaxDeliveryAttempts
  BY DueRows DEF Shape
<1> QED
  BY <1>1, <1>2, <1>3, <1>4 DEF UndisturbedDue

LEMMA MarkDue ==
  ASSUME Shape, UndisturbedDue, NEW d \in Pass, Mark(d)
  PROVE  UndisturbedDue'
<1> DEFINE m == Min(current[d])
<1>1. UNCHANGED <<row, disturbed>> /\ m \in InHand(d) /\ m \in Notification
  BY MarkEffect
<1>2. ASSUME NEW e \in Pass \ {d} PROVE Listed(e)' = Listed(e)
  BY MarkEffect DEF Listed
<1>3. m \in Listed(d)
  BY <1>1 DEF Listed, InHand
<1>4. ASSUME NEW n \in Notification \ {m} PROVE n \in Listed(d)' <=> n \in Listed(d)
  BY MarkEffect DEF Listed
<1> QED
  BY <1>1, <1>2, <1>3, <1>4, QuietDue

LEMMA CommitDue ==
  ASSUME Shape, Once, UndisturbedDue, NEW d \in Pass, Commit(d)
  PROVE  UndisturbedDue'
<1>1. Close(d) /\ disturbed' = disturbed
  BY DEF Commit, history
<1>2. ASSUME NEW n \in Notification \ disturbed, NEW e \in Pass, n \in Listed(e)'
      PROVE  n \in Listed(e) /\ row'[n] = row[n]
  <2>1. e # d /\ n \in Listed(e)
    BY <1>1, <1>2, ClosedLists
  <2>2. draft[d][n] = NoDraft
    BY <2>1, ListedRows DEF Once, UndisturbedAlone
  <2> QED
    BY <2>1, <2>2, CommitRows
<1> QED
  BY <1>1, <1>2 DEF UndisturbedDue

LEMMA StepDue == Shape /\ Once /\ UndisturbedDue /\ [Next]_vars => UndisturbedDue'
<1> SUFFICES ASSUME Shape, Once, UndisturbedDue, [Next]_vars PROVE UndisturbedDue'
  OBVIOUS
<1>1. ASSUME NEW n \in Notification, Record(n) PROVE UndisturbedDue'
  BY <1>1, RecordDue
<1>2. ASSUME NEW n \in Notification, Age(n) PROVE UndisturbedDue'
  BY <1>2, StillDue DEF Age, history
<1>3. CASE Reconfigure
  BY <1>3, StillDue DEF Reconfigure, history
<1>4. ASSUME NEW d \in Pass, PassNext(d) PROVE UndisturbedDue'
  <2>1. CASE Start(d)
    BY <2>1, StartDue
  <2>2. CASE Return(d)
    BY <2>2, StillDue DEF Return, history
  <2>3. CASE Send(d)
    BY <2>3, StillDue DEF Send
  <2>4. CASE Wait(d)
    BY <2>4, StillDue DEF Wait, history
  <2>5. CASE Mark(d)
    BY <2>5, MarkDue
  <2>6. CASE Commit(d)
    BY <2>6, CommitDue
  <2>7. CASE Crash(d) \/ Deadlock(d)
    <3>1. Close(d) /\ row' = row /\ disturbed \subseteq disturbed'
      BY <2>7 DEF Crash, Deadlock
    <3>2. \A e \in Pass, n \in Notification : n \in Listed(e)' => n \in Listed(e)
      BY <3>1, ClosedLists
    <3> QED
      BY <3>1, <3>2, QuietDue
  <2> QED
    BY <1>4, <2>1, <2>2, <2>3, <2>4, <2>5, <2>6, <2>7 DEF PassNext
<1>5. CASE UNCHANGED vars
  BY <1>5, StillDue DEF vars, history
<1> QED
  BY <1>1, <1>2, <1>3, <1>4, <1>5 DEF Next

(* What a row says of its alert, case by case.                              *)
LEMMA StandingOf ==
  ASSUME NEW r \in RowType
  PROVE  /\ StandsAs(r) \in {"absent", "open"} \cup Box!Decided
         /\ StandsAs(r) = "absent" <=> r.status = "absent"
         /\ StandsAs(r) = "sent" => r.status = "sent"
         /\ StandsAs(r) = "suppressed" => r.status = "suppressed"
         /\ StandsAs(r) = "given_up" => r.attempts = MaxDeliveryAttempts
         /\ r.status \in {"pending", "failed"} /\ r.attempts < MaxDeliveryAttempts =>
              StandsAs(r) = "open"
<1>1. r.status \in {"absent", "pending", "sent", "failed", "suppressed"}
      /\ r.attempts \in 0 .. MaxDeliveryAttempts /\ MaxDeliveryAttempts \in Nat
  BY DeliveryAssumption DEF RowType, Verdict
<1> QED
  BY <1>1 DEF StandsAs, Box!Decided

LEMMA Stands ==
  ASSUME Shape, NEW n \in Notification
  PROVE  Standing[n] = StandsAs(row[n]) /\ row[n] \in RowType
BY DEF Standing, Shape, TypeOK

(* What a pass has listed is on record, and open unless it is disturbed.    *)
LEMMA ListedIsLive ==
  ASSUME Shape, Once, UndisturbedDue, NEW d \in Pass, NEW n \in Listed(d)
  PROVE  Box!Live(n)
<1>1. n \in Notification
  BY DEF Listed
<1>2. row[n].status # "absent"
  BY <1>1, ListedRows DEF Shape, Recorded
<1>3. n \notin disturbed => row[n].status \in {"pending", "failed"}
                           /\ row[n].attempts < MaxDeliveryAttempts
  BY <1>1 DEF Once, UndisturbedAlone, UndisturbedDue
<1> QED
  BY <1>1, <1>2, <1>3, Stands, StandingOf DEF Box!Live

LEMMA InitBox == Init => Box!Init
<1> SUFFICES ASSUME Init PROVE Box!Init
  OBVIOUS
<1>1. Standing = [n \in Notification |-> "absent"]
  BY DEF Init, Standing, StandsAs, Absent
<1> QED
  BY <1>1 DEF Init, Box!Init

(* A step that leaves rows, addresses and counts alone.                     *)
LEMMA QuietBox ==
  ASSUME UNCHANGED <<row, key, copies, tries, disturbed>>
  PROVE  UNCHANGED Box!vars
<1>1. Standing' = Standing
  BY DEF Standing
<1> QED
  BY <1>1 DEF Box!vars

LEMMA RecordPosts ==
  ASSUME Shape, NEW n \in Notification, Record(n)
  PROVE  Box!Post(n)
<1>1. /\ row[n] = Absent /\ UNCHANGED <<copies, tries, disturbed>>
      /\ row'[n] = [status |-> "pending", attempts |-> 0]
      /\ \A m \in Notification \ {n} : row'[m] = row[m]
      /\ \E k \in Keys[n] : key' = [key EXCEPT ![n] = k]
  BY DEF Record, Shape, TypeOK, history
<1>2. MaxDeliveryAttempts \in Nat \ {0}
  BY DeliveryAssumption
<1>3. /\ Standing[n] = "absent" /\ Standing'[n] = "open"
      /\ \A m \in Notification \ {n} : Standing'[m] = Standing[m]
  BY <1>1, <1>2 DEF Standing, StandsAs, Absent
<1>4. Standing' = [Standing EXCEPT ![n] = "open"]
  BY <1>3 DEF Standing
<1> QED
  BY <1>1, <1>3, <1>4 DEF Box!Post

(* Whoever lists what others have, or ends without a commit, disturbs.      *)
LEMMA Disturbs ==
  ASSUME Shape, NEW B \in SUBSET Notification, disturbed' = disturbed \cup B,
         \A n \in B : \E d \in Pass : n \in Listed(d),
         UNCHANGED <<row, key, copies, tries>>
  PROVE  Box!Next
<1>1. \A n \in B : Standing[n] # "absent"
  BY Stands, StandingOf, ListedRows DEF Shape, Recorded
<1>2. Standing' = Standing
  BY DEF Standing
<1>3. Box!Disturb(B)
  BY <1>1, <1>2 DEF Box!Disturb
<1> QED
  BY <1>3 DEF Box!Next

LEMMA SendOffers ==
  ASSUME Shape, Truth, Once, UndisturbedDue, NEW d \in Pass, Send(d)
  PROVE  [Box!Next]_(Box!vars)
<1> DEFINE b == NextBatch(d)
<1>1. /\ b \in todo[d] /\ Min(b) \in b /\ b \subseteq InHand(d) /\ b # {}
      /\ UNCHANGED <<row, key>>
  BY SendEffect DEF Send
<1>2. b \subseteq Notification /\ \A n \in b : n \in Listed(d)
  BY <1>1 DEF InHand, Listed
<1>3. \A m, n \in b : key[m] = key[n]
  BY <1>1 DEF Truth, OneRecipient
<1>4. Standing' = Standing
  BY <1>1 DEF Standing
<1>5. CASE key[Min(b)].route = {}
  <2>1. UNCHANGED <<disturbed, tries>>
    BY <1>5 DEF Send, Shape, TypeOK
  <2>2. copies' = copies
    <3>1. copies' = [n \in Notification |->
            IF n \in b THEN AtMost(2, copies[n] + 0) ELSE copies[n]]
      BY <1>5 DEF Send
    <3>2. copies \in [Notification -> 0 .. 2]
      BY DEF Shape, TypeOK
    <3>3. \A n \in Notification : AtMost(2, copies[n] + 0) = copies[n]
      BY <3>2 DEF AtMost
    <3> HIDE DEF b
    <3> QED
      BY <3>1, <3>2, <3>3
  <2> QED
    BY <1>4, <2>1, <2>2, <1>1 DEF Box!vars
<1>6. CASE key[Min(b)].route # {}
  <2>1. PICK sent \in 0 .. 2 :
          /\ copies' = [n \in Notification |->
               IF n \in b THEN AtMost(2, copies[n] + sent) ELSE copies[n]]
          /\ disturbed' \in {disturbed, disturbed \cup b}
    BY <1>6 DEF Send
  <2>2. tries' = [n \in Notification |->
          IF n \in b THEN AtMost(MaxDeliveryAttempts, tries[n] + 1) ELSE tries[n]]
    BY <1>6 DEF Send
  <2>3. \A n \in b : Box!Live(n) /\ key[n].route # {}
    BY <1>1, <1>2, <1>3, <1>6, ListedIsLive
  <2>4. ASSUME NEW n \in b, copies'[n] > 1 PROVE n \in disturbed'
    <3>1. Once' /\ Shape'
      BY SendOnce, SendShape
    <3>2. copies'[n] \in Nat /\ n \in Notification
      BY <1>2, SendEffect
    <3> QED
      BY <2>4, <3>1, <3>2 DEF Once, UndisturbedOnce
  <2>5. Box!Offer(b, sent)
    <3> HIDE DEF b
    <3> QED
      BY <1>1, <1>3, <1>4, <2>1, <2>2, <2>3, <2>4 DEF Box!Offer, Box!AtMost, AtMost
  <2> HIDE DEF b
  <2> QED
    BY <1>2, <2>1, <2>5 DEF Box!Next
<1> QED
  BY <1>5, <1>6

LEMMA CommitDecides ==
  ASSUME Shape, Truth, Once, UndisturbedDue, NEW d \in Pass, Commit(d)
  PROVE  Box!Decide
<1>1. UNCHANGED <<key, copies, tries, disturbed>>
  BY DEF Commit, history
<1>2. Shape' /\ Truth'
  BY CommitShape, CommitTruth
<1>3. \A n \in Notification : Standing'[n] = StandsAs(row'[n]) /\ row'[n] \in RowType
  BY CommitRows DEF Standing
<1>4. Standing' \in [Notification -> {"absent", "open"} \cup Box!Decided]
  <2>1. \A n \in Notification : Standing'[n] \in {"absent", "open"} \cup Box!Decided
    BY <1>3, StandingOf
  <2>2. Standing' = [n \in Notification |-> Standing'[n]]
    BY DEF Standing
  <2> QED
    BY <2>1, <2>2
<1>5. ASSUME NEW n \in Notification, Standing'[n] # Standing[n]
      PROVE  Box!Live(n) /\ Box!Reason(n, Standing'[n])
  <2>1. draft[d][n] # NoDraft
    BY <1>3, <1>5, CommitRows, Stands
  <2>2. Box!Live(n)
    BY <2>1, ListedRows, ListedIsLive
  <2>3. Standing'[n] # "absent"
    <3>1. row[n].status # "absent"
      BY <2>1 DEF Shape, Recorded
    <3>2. draft[d][n].status \in Verdict \cup {"same"}
      BY DEF Shape, TypeOK
    <3>3. row'[n].status # "absent"
      BY <3>1, <3>2, CommitRows DEF Verdict
    <3> QED
      BY <1>3, <3>3, StandingOf
  <2>4. Standing'[n] = "sent" => copies[n] > 0
    <3>1. row'[n].status = "sent" => copies'[n] > 0
      BY <1>2 DEF Truth, SentWasSent
    <3> QED
      BY <1>1, <1>3, <3>1, StandingOf
  <2>5. /\ row'[n].attempts <= tries[n]
        /\ row'[n].status = "suppressed" => key[n].route = {}
    BY <1>1, <1>2 DEF Truth, NotGivenUpEarly
  <2>6. Standing'[n] = "given_up" => tries[n] = MaxDeliveryAttempts
    <3>1. tries[n] \in 0 .. MaxDeliveryAttempts /\ MaxDeliveryAttempts \in Nat
      BY DeliveryAssumption DEF Shape, TypeOK
    <3> QED
      BY <1>3, <2>5, <3>1, StandingOf
  <2>7. Standing'[n] = "suppressed" => key[n].route = {}
    BY <1>3, <2>5, StandingOf
  <2>8. Standing'[n] \in {"absent", "open", "sent", "suppressed", "given_up"}
    BY <1>3, StandingOf DEF Box!Decided
  <2> QED
    BY <2>2, <2>3, <2>4, <2>6, <2>7, <2>8 DEF Box!Reason
<1> QED
  BY <1>1, <1>4, <1>5 DEF Box!Decide

LEMMA StepBox ==
  Shape /\ Truth /\ Once /\ UndisturbedDue /\ [Next]_vars => [Box!Next]_(Box!vars)
<1> SUFFICES ASSUME Shape, Truth, Once, UndisturbedDue, [Next]_vars
             PROVE  [Box!Next]_(Box!vars)
  OBVIOUS
<1>1. ASSUME NEW n \in Notification, Record(n) PROVE [Box!Next]_(Box!vars)
  BY <1>1, RecordPosts DEF Box!Next
<1>2. ASSUME NEW n \in Notification, Age(n) PROVE [Box!Next]_(Box!vars)
  BY <1>2, QuietBox DEF Age, history
<1>3. CASE Reconfigure
  BY <1>3, QuietBox DEF Reconfigure, history
<1>4. ASSUME NEW d \in Pass, PassNext(d) PROVE [Box!Next]_(Box!vars)
  <2>1. CASE Start(d)
    <3> DEFINE B == Due(d) \cap UNION {Listed(e) : e \in Pass}
    <3>1. disturbed' = disturbed \cup B /\ UNCHANGED <<row, key, copies, tries>>
      BY <2>1 DEF Start
    <3>2. B \in SUBSET Notification /\ \A n \in B : \E e \in Pass : n \in Listed(e)
      BY DueRows DEF Shape
    <3> HIDE DEF B
    <3> QED
      BY <3>1, <3>2, Disturbs
  <2>2. CASE Return(d)
    BY <2>2, QuietBox DEF Return, history
  <2>3. CASE Send(d)
    BY <2>3, SendOffers
  <2>4. CASE Wait(d)
    BY <2>4, QuietBox DEF Wait, history
  <2>5. CASE Mark(d)
    BY <2>5, QuietBox DEF Mark, history
  <2>6. CASE Commit(d)
    BY <2>6, CommitDecides DEF Box!Next
  <2>7. CASE Crash(d) \/ Deadlock(d)
    <3>1. disturbed' = disturbed \cup Listed(d) /\ UNCHANGED <<row, key, copies, tries>>
      BY <2>7 DEF Crash, Deadlock
    <3>2. Listed(d) \in SUBSET Notification
      BY DEF Listed
    <3> QED
      BY <3>1, <3>2, Disturbs
  <2> QED
    BY <1>4, <2>1, <2>2, <2>3, <2>4, <2>5, <2>6, <2>7 DEF PassNext
<1>5. CASE UNCHANGED vars
  BY <1>5, QuietBox DEF vars, history
<1> QED
  BY <1>1, <1>2, <1>3, <1>4, <1>5 DEF Next

(* The passes, however many there are and whatever becomes of them, are one *)
(* outbox (the guarantee that _deliver_digest's docstring names).           *)
THEOREM PassesAreOneOutbox == Spec => OneOutbox
<1>1. Shape /\ Once /\ [Next]_vars => Once'
  BY StepOnce
<1>2. Shape /\ Once /\ UndisturbedDue /\ [Next]_vars => UndisturbedDue'
  BY StepDue
<1>3. Shape /\ Truth /\ Once /\ UndisturbedDue /\ [Next]_vars => [Box!Next]_(Box!vars)
  BY StepBox
<1> QED
  BY InitOnce, InitDue, InitBox, ShapeHolds, TruthHolds, <1>1, <1>2, <1>3, PTL
     DEF Spec, OneOutbox, Box!Spec

=============================================================================
