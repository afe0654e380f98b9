------------------------ MODULE NotificationDelivery ------------------------
(***************************************************************************)
(* Delivery of recorded notifications (deliver_pending and what it calls   *)
(* in services/notification_service.py, repositories/notifications.py).    *)
(*                                                                         *)
(* A delivery pass is one transaction: it lists the rows that are due,     *)
(* sends their messages, and marks each row as it goes.  Several passes    *)
(* may run at once: the worker's retry job over everything, and the pass   *)
(* each check makes over its own product.  Listing takes no lock; a mark   *)
(* is flushed at once and holds its row until the pass commits.            *)
(***************************************************************************)
EXTENDS Integers, FiniteSets, FiniteSetsExt

CONSTANTS
  Notification,          \* ids; their order is the order of recording
  Pass,                  \* what may run a delivery pass
  Retry,                 \* the pass of the periodic retry job
  Scope,                 \* the notifications each pass asks for (product_id)
  Keys,                  \* where each alert may go, a set of keys, see NoKey
  Limit,                 \* rows a pass lists at most
  MaxDeliveryAttempts,   \* MAX_DELIVERY_ATTEMPTS
  MaxFaults              \* bound on crashes, database errors, lost answers

ASSUME DeliveryAssumption ==
  /\ Notification \subseteq Nat /\ IsFiniteSet(Notification)
  /\ Retry \in Pass
  /\ Scope \in [Pass -> SUBSET Notification]
  /\ Scope[Retry] = Notification
  /\ Limit \in Nat \ {0}
  /\ MaxDeliveryAttempts \in Nat \ {0}
  /\ MaxFaults \in Nat

VARIABLES
  row,       \* the committed notification rows
  key,       \* route (set of providers) and recipient of each row
  aged,      \* rows older than the digest window
  digest,    \* NOTIFICATION_DIGEST_MINUTES > 0
  called,    \* the checks that recorded alerts and are about to deliver them
  pc,        \* where each pass is
  todo,      \* the batches a pass has still to send
  current,   \* the rows of the batch just sent still to be marked
  verdict,   \* what the pass marks them with
  seen,      \* the rows as the pass loaded them
  draft,     \* the pass's uncommitted updates
  copies,    \* history: messages that went out for each, up to two
  tries,     \* history: times a pass offered it, up to the budget
  disturbed, \* history: alerts two passes had at once, or whose pass did not
             \* commit, or for which a provider's answer was lost
  faults     \* crashes, errors and lost answers so far

history == <<copies, tries, disturbed, faults>>

vars == <<row, key, aged, digest, called, pc, todo, current, verdict, seen, draft, history>>

(* A key is a route, the set of providers an alert may go through, and the  *)
(* recipient its owner has set.                                             *)
NoKey == [route |-> {}, recipient |-> "none"]

Absent == [status |-> "absent", attempts |-> 0]

NoDraft == [status |-> "same", attempts |-> -1]

Verdict == {"sent", "failed", "suppressed"}

RowType == [status : {"absent", "pending"} \cup Verdict,
            attempts : 0 .. MaxDeliveryAttempts]

TypeOK ==
  /\ row \in [Notification -> RowType]
  /\ DOMAIN key = Notification
  /\ \A n \in Notification : key[n] \in Keys[n] \cup {NoKey}
  /\ aged \in SUBSET Notification
  /\ digest \in BOOLEAN
  /\ called \in SUBSET (Pass \ {Retry})
  /\ pc \in [Pass -> {"idle", "sending", "marking", "waiting"}]
  /\ todo \in [Pass -> SUBSET SUBSET Notification]
  /\ current \in [Pass -> SUBSET Notification]
  /\ verdict \in [Pass -> Verdict]
  /\ seen \in [Pass -> [Notification -> RowType]]
  /\ draft \in [Pass -> [Notification ->
       [status : Verdict \cup {"same"}, attempts : -1 .. MaxDeliveryAttempts]]]
  /\ copies \in [Notification -> 0 .. 2]
  /\ tries \in [Notification -> 0 .. MaxDeliveryAttempts]
  /\ disturbed \in SUBSET Notification
  /\ faults \in 0 .. MaxFaults
  \* a row is locked by at most one pass, and only while the pass runs
  /\ \A d, e \in Pass, n \in Notification :
       draft[d][n] # NoDraft => pc[d] # "idle" /\ (d = e \/ draft[e][n] = NoDraft)

Init ==
  /\ row = [n \in Notification |-> Absent]
  /\ key = [n \in Notification |-> NoKey]
  /\ aged = {}
  /\ digest \in BOOLEAN
  /\ called = {}
  /\ pc = [d \in Pass |-> "idle"]
  /\ todo = [d \in Pass |-> {}]
  /\ current = [d \in Pass |-> {}]
  /\ verdict = [d \in Pass |-> "failed"]
  /\ seen = [d \in Pass |-> row]
  /\ draft = [d \in Pass |-> [n \in Notification |-> NoDraft]]
  /\ copies = [n \in Notification |-> 0]
  /\ tries = [n \in Notification |-> 0]
  /\ disturbed = {}
  /\ faults = 0

-----------------------------------------------------------------------------
(* The environment.                                                         *)

Checks(n) == {d \in Pass \ {Retry} : n \in Scope[d]}

(* A check commits a new alert and goes on to deliver it; its rule's channel *)
(* and owner say where it goes (payload.provider, recipients_for).  A        *)
(* product has one check at a time, claimed or by hand.                      *)
Record(n) ==
  /\ row[n] = Absent
  /\ \A m \in Notification : m < n => row[m] # Absent
  /\ \A d \in Checks(n) : pc[d] = "idle"
  /\ called' = called \cup Checks(n)
  /\ row' = [row EXCEPT ![n] = [status |-> "pending", attempts |-> 0]]
  /\ \E k \in Keys[n] : key' = [key EXCEPT ![n] = k]
  /\ UNCHANGED <<aged, digest, pc, todo, current, verdict, seen, draft, history>>

(* created_at passes the digest window; followed while there is one.        *)
Age(n) ==
  /\ digest
  /\ row[n] # Absent
  /\ n \notin aged
  /\ \A m \in Notification : m < n => m \in aged
  /\ aged' = aged \cup {n}
  /\ UNCHANGED <<row, key, digest, called, pc, todo, current, verdict, seen, draft, history>>

(* Digests are switched off with rows waiting (`turning the setting off     *)
(* mid-flight').                                                            *)
Reconfigure ==
  /\ \A d \in Pass : pc[d] = "idle"
  /\ digest
  /\ digest' = FALSE
  /\ aged' = {}
  /\ UNCHANGED <<row, key, called, pc, todo, current, verdict, seen, draft, history>>

-----------------------------------------------------------------------------
(* A delivery pass.                                                         *)

(* Mutant: a row out of attempts is still listed.                           *)
RetryableForever(d) ==
  {n \in Scope[d] : row[n].status \in {"pending", "failed"}}

(* Mutant: only rows never tried are listed.                                *)
RetryableOnce(d) == {n \in Scope[d] : row[n].status = "pending"}

(* list_retryable, before its LIMIT.                                        *)
Retryable(d) ==
  {n \in Scope[d] : /\ row[n].status \in {"pending", "failed"}
                    /\ row[n].attempts < MaxDeliveryAttempts}

(* The first Limit of them by id.                                           *)
Due(d) ==
  {n \in Retryable(d) :
     Cardinality({m \in Retryable(d) : m < n}) < Limit}

(* Mutant: a digest is grouped by its providers alone.                      *)
BatchesByRoute(due) ==
  {{n \in due : key[n].route = key[m].route} : m \in due}

(* A digest holds the rows with the same providers and the same recipients; *)
(* without digests every row is a message of its own.                       *)
Batches(due) ==
  IF digest THEN {{n \in due : key[n] = key[m]} : m \in due}
            ELSE {{n} : n \in due}

(* The rows in a pass's hands.                                              *)
Listed(d) ==
  {n \in Notification : seen[d][n] # Absent \/ draft[d][n] # NoDraft}

(* Nothing is due, or a digest is still collecting until its oldest row has *)
(* aged.                                                                    *)
NothingToSend(d) == Due(d) # {} => digest /\ Min(Due(d)) \notin aged

(* The pass lists its rows.  The retry job comes round; a check's pass runs *)
(* once, after the check that recorded an alert.                            *)
Start(d) ==
  /\ pc[d] = "idle"
  /\ d = Retry \/ d \in called
  /\ called' = called \ {d}
  /\ ~NothingToSend(d)
  /\ pc' = [pc EXCEPT ![d] = "sending"]
  /\ todo' = [todo EXCEPT ![d] = Batches(Due(d))]
  /\ seen' = [seen EXCEPT ![d] =
       [n \in Notification |-> IF n \in Due(d) THEN row[n] ELSE Absent]]
  /\ disturbed' = disturbed \cup (Due(d) \cap UNION {Listed(e) : e \in Pass})
  /\ UNCHANGED <<row, key, aged, digest, current, verdict, draft, copies, tries,
                 faults>>

Return(d) ==
  /\ pc[d] = "idle"
  /\ d \in called
  /\ NothingToSend(d)
  /\ called' = called \ {d}
  /\ UNCHANGED <<row, key, aged, digest, pc, todo, current, verdict, seen, draft,
                 history>>

(* Batches come in the order of their first rows.                           *)
NextBatch(d) == CHOOSE b \in todo[d] : \A c \in todo[d] : Min(b) <= Min(c)

AtMost(bound, n) == IF n > bound THEN bound ELSE n

(* One message is offered to the batch's providers until one takes it.  A   *)
(* provider may have taken it although its answer was lost: the next one,   *)
(* or the next pass, sends it again.                                        *)
Send(d) ==
  LET b == NextBatch(d)
      route == key[Min(b)].route
      Outcome(v, sent) ==
        /\ verdict' = [verdict EXCEPT ![d] = v]
        /\ copies' = [n \in Notification |->
             IF n \in b THEN AtMost(2, copies[n] + sent) ELSE copies[n]]
  IN  /\ pc[d] = "sending"
      /\ todo[d] # {}
      /\ \/ /\ \/ route = {} /\ Outcome("suppressed", 0)
               \/ route # {} /\ Outcome("sent", 1)
               \/ route # {} /\ Outcome("failed", 0)
            /\ UNCHANGED <<disturbed, faults>>
         \/ /\ route # {} /\ faults < MaxFaults
            /\ faults' = faults + 1 /\ disturbed' = disturbed \cup b
            /\ \/ Outcome("failed", 1)
               \/ Cardinality(route) > 1 /\ Outcome("sent", 2)
      /\ tries' = [n \in Notification |->
           IF n \in b /\ route # {} THEN AtMost(MaxDeliveryAttempts, tries[n] + 1)
                                    ELSE tries[n]]
      /\ todo' = [todo EXCEPT ![d] = @ \ {b}]
      /\ current' = [current EXCEPT ![d] = b]
      /\ pc' = [pc EXCEPT ![d] = "marking"]
      /\ UNCHANGED <<row, key, aged, digest, called, seen, draft>>

(* Mutant: marking a row counts the attempt and leaves the status alone.    *)
UpdateWithoutStatus(old, v) == [status |-> "same", attempts |-> old.attempts + 1]

(* Mutant: mark_sent is written for every verdict.                          *)
UpdateSent(old, v) == [status |-> "sent", attempts |-> old.attempts + 1]

(* Mutant: an attempt is counted for each provider that failed.             *)
UpdatePerProvider(old, v) ==
  [status |-> v, attempts |-> IF v = "failed" THEN MaxDeliveryAttempts ELSE 1]

(* mark_sent, mark_failed, mark_suppressed on a row loaded as `old'.  The   *)
(* ORM writes the attributes that differ from the loaded ones.              *)
Update(old, v) ==
  [status |-> IF v = old.status THEN "same" ELSE v,
   attempts |-> IF v = "suppressed" THEN -1 ELSE old.attempts + 1]

Holders(n) == {d \in Pass : draft[d][n] # NoDraft}

WaitingFor(n) == {d \in Pass : pc[d] = "waiting" /\ Min(current[d]) = n}

(* The next row of the batch is held by another pass, or promised to one:   *)
(* the UPDATE queues up.                                                    *)
Wait(d) ==
  LET n == Min(current[d])
  IN  /\ pc[d] = "marking"
      /\ Holders(n) \cup WaitingFor(n) # {}
      /\ pc' = [pc EXCEPT ![d] = "waiting"]
      /\ UNCHANGED <<row, key, aged, digest, called, todo, current, verdict, seen, draft,
                     history>>

(* The next row of the batch is marked.                                     *)
Mark(d) ==
  LET n == Min(current[d])
  IN  /\ pc[d] \in {"marking", "waiting"}
      /\ Holders(n) = {}
      /\ pc[d] = "marking" => WaitingFor(n) = {}
      /\ draft' = [draft EXCEPT ![d][n] = Update(seen[d][n], verdict[d])]
      /\ seen' = [seen EXCEPT ![d][n] = Absent]
      /\ current' = [current EXCEPT ![d] = @ \ {n}]
      /\ pc' = [pc EXCEPT ![d] = IF current[d] = {n} THEN "sending" ELSE "marking"]
      /\ verdict' = [verdict EXCEPT ![d] = IF current[d] = {n} THEN "failed" ELSE @]
      /\ UNCHANGED <<row, key, aged, digest, called, todo, history>>

Written(r, u) ==
  [status |-> IF u.status = "same" THEN r.status ELSE u.status,
   attempts |-> IF u.attempts = -1 THEN r.attempts ELSE u.attempts]

(* The pass is over: nothing of the session is left.                        *)
Close(d) ==
  /\ pc' = [pc EXCEPT ![d] = "idle"]
  /\ todo' = [todo EXCEPT ![d] = {}]
  /\ current' = [current EXCEPT ![d] = {}]
  /\ verdict' = [verdict EXCEPT ![d] = "failed"]
  /\ seen' = [seen EXCEPT ![d] = [n \in Notification |-> Absent]]
  /\ draft' = [draft EXCEPT ![d] = [n \in Notification |-> NoDraft]]

Commit(d) ==
  /\ pc[d] = "sending"
  /\ todo[d] = {}
  /\ row' = [n \in Notification |-> Written(row[n], draft[d][n])]
  /\ Close(d)
  /\ UNCHANGED <<key, aged, digest, called, history>>

(* The process dies or the database fails: what was sent stays sent, what   *)
(* was marked is forgotten.                                                 *)
Crash(d) ==
  /\ pc[d] # "idle"
  /\ faults < MaxFaults
  /\ faults' = faults + 1
  /\ disturbed' = disturbed \cup Listed(d)
  /\ Close(d)
  /\ UNCHANGED <<row, key, aged, digest, called, copies, tries>>

WaitsFor(d) ==
  IF pc[d] = "waiting" THEN Holders(Min(current[d])) ELSE {}

(* Two passes with rows in common may take them in different orders when    *)
(* they batch them; PostgreSQL then ends one of them.                       *)
Deadlock(d) ==
  /\ \E S \in SUBSET Pass :
       /\ d \in S
       /\ \A e \in S : WaitsFor(e) \cap S # {} /\ \E f \in S : e \in WaitsFor(f)
  /\ disturbed' = disturbed \cup Listed(d)
  /\ Close(d)
  /\ UNCHANGED <<row, key, aged, digest, called, copies, tries, faults>>

PassNext(d) ==
  \/ Start(d) \/ Return(d) \/ Send(d) \/ Wait(d) \/ Mark(d) \/ Commit(d)
  \/ Crash(d) \/ Deadlock(d)

Next ==
  \/ \E n \in Notification : Record(n) \/ Age(n)
  \/ Reconfigure
  \/ \E d \in Pass : PassNext(d)

Spec == Init /\ [][Next]_vars

(* Time passes and a pass that runs goes on; PostgreSQL ends deadlocks and  *)
(* hands a released row to who has waited for it; the retry job comes round *)
(* every five minutes.  Nothing promises another pass after a check.        *)
Fairness ==
  /\ \A n \in Notification : WF_vars(Age(n))
  /\ \A d \in Pass :
       /\ WF_vars(Send(d)) /\ WF_vars(Commit(d))
       /\ WF_vars(Wait(d)) /\ SF_vars(Mark(d))
  /\ WF_vars(\E d \in Pass : Deadlock(d))
  /\ SF_vars(Start(Retry))

FairSpec == Spec /\ Fairness

-----------------------------------------------------------------------------
(* Properties.                                                              *)

(* A row marked sent was sent: whatever passes overlap, crash or end in a   *)
(* deadlock, no alert is closed without a message.                          *)
SentWasSent ==
  \A n \in Notification : row[n].status = "sent" => copies[n] > 0

(* An alert is given up only after the tries it is owed, and suppressed     *)
(* only when no provider would take it: attempts never runs ahead of the    *)
(* tries made (MAX_DELIVERY_ATTEMPTS).                                      *)
NotGivenUpEarly ==
  \A n \in Notification :
    /\ row[n].attempts <= tries[n]
    /\ row[n].status = "suppressed" => key[n].route = {}

(* A message never holds the alerts of two recipients (comment in           *)
(* _deliver_digest: it must never widen who can see an alert).              *)
OneRecipient ==
  \A d \in Pass : \A b \in todo[d] : \A m, n \in b : key[m] = key[n]

(* An alert goes out twice only when two passes had it at once, the pass    *)
(* that sent it did not commit, or a provider's answer was lost.            *)
TwiceOnlyWhenDisturbed == \A n \in Notification : copies[n] > 1 => n \in disturbed

(* What a row says of its alert: pending and failed rows are open while they *)
(* have attempts left.                                                      *)
StandsAs(r) ==
  IF r.status \notin {"pending", "failed"} THEN r.status
  ELSE IF r.attempts < MaxDeliveryAttempts THEN "open" ELSE "given_up"

Standing == [n \in Notification |-> StandsAs(row[n])]

Box == INSTANCE Outbox
         WITH Alert <- Notification, Address <- Keys, Nowhere <- NoKey,
              MaxTries <- MaxDeliveryAttempts, standing <- Standing, to <- key

(* All passes together keep the promise of the outbox: whatever they list,  *)
(* overwrite or lose, an alert is decided for a reason, goes out only with  *)
(* others of its address, and, while it is not disturbed, is neither        *)
(* offered nor decided again (_deliver_digest, on what every row keeps).    *)
OneOutbox == Box!Spec

Settled(n) ==
  \/ row[n].status \in {"sent", "suppressed"}
  \/ row[n].attempts = MaxDeliveryAttempts

(* Every recorded alert is sent in the end, suppressed, or tried until its  *)
(* attempts are used up: passes that crash, overwrite each other's marks or *)
(* end in a deadlock, and digests that wait, delay it but never lose it.    *)
EveryAlertSettles ==
  \A n \in Notification : row[n] # Absent ~> Settled(n)

=============================================================================
