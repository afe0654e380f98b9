----------------------------- MODULE RateLimit -----------------------------
(***************************************************************************)
(* SharedTokenBucketLimiter (api/ratelimit.py): the bucket of one client   *)
(* is a row that all API processes spend from.  A call is a transaction of *)
(* three or four statements, READ COMMITTED, whose now() is the time it    *)
(* began, and a process makes one call at a time.  Calls for other clients *)
(* matter when they sweep this client's row away.                          *)
(***************************************************************************)
EXTENDS Integers

CONSTANTS
  Procs,
  Rate, Cost, Burst,  \* as in TokenBucket
  Stale,              \* STALE_BUCKET_SECONDS
  MaxLag,             \* bound on the age of a call's transaction
  MaxFaults           \* bound on database errors

(* An untouched bucket is full before it is swept.  The settings do not     *)
(* enforce this: a burst of more than an hour's refill breaks it.           *)
ASSUME RateAssumption ==
  /\ Rate \in Nat \ {0} /\ Cost \in Nat \ {0} /\ Burst \in Nat \ {0}
  /\ Stale \in Nat /\ MaxLag \in Nat /\ MaxFaults \in Nat
  /\ Stale * Rate >= Burst * Cost

VARIABLES
  row,      \* the newest version of the row: credit at last_refill, and its age
  held,     \* the lock on the row, with the committed version behind it
  call,     \* the call a process is making
  reply,    \* the answer to its last request of this client
  promise,  \* seconds left of the Retry-After it was given (history), -1 for none
  faults    \* database errors so far (history)

vars == <<row, held, call, reply, promise, faults>>

Full == Burst * Cost
AtMost(a, b) == IF a < b THEN a ELSE b
AtLeast(a, b) == IF a < b THEN b ELSE a

None == [credit |-> 0, age |-> -1]
Free == [by |-> "nobody"]
Idle == [at |-> "idle", lag |-> 0]
NoPromise == -1

MaxAge == Stale + MaxLag + 1
Row == [credit : 0 .. Full, age : 0 .. MaxAge]

(* What other transactions see, and the tokens it is worth now              *)
Committed == IF held = Free THEN row ELSE held.was
Tokens == IF Committed = None THEN Full
          ELSE AtMost(Full, Committed.credit + Committed.age * Rate)

TypeOK ==
  /\ row \in Row \cup {None}
  /\ held \in {Free} \cup [by : Procs, was : Row \cup {None}]
  /\ reply \in [Procs -> {"none", "allowed", "refused", "forgotten", "excused"}]
  /\ faults \in 0 .. MaxFaults
  /\ \A p \in Procs :
       /\ call[p] \in [at : {"idle", "insert", "spend", "look", "gone", "other", "allowed",
                             "refused", "forgotten", "swept"}, lag : 0 .. MaxLag]
       /\ promise[p] \in NoPromise .. Cost + MaxLag * Rate + 1
       /\ call[p].at = "allowed" => held # Free /\ held.by = p

Init ==
  /\ row = None
  /\ held = Free
  /\ call = [p \in Procs |-> Idle]
  /\ reply = [p \in Procs |-> "none"]
  /\ promise = [p \in Procs |-> NoPromise]
  /\ faults = 0

MayLock(p) == held = Free \/ held.by = p
To(p, stage) == call' = [call EXCEPT ![p].at = stage]
Lock(p) == held' = [by |-> p, was |-> Committed]

-----------------------------------------------------------------------------
(* A request that changes state, not to an exempt path                      *)
Ask(p) ==
  /\ call[p] = Idle
  /\ call' = [call EXCEPT ![p] = [at |-> "insert", lag |-> 0]]
  /\ reply' = [reply EXCEPT ![p] = "none"]
  /\ UNCHANGED <<row, held, promise, faults>>

(* A request of another client, whose call is a five-hundredth              *)
AskOther(p) ==
  /\ call[p] = Idle
  /\ call' = [call EXCEPT ![p] = [at |-> "other", lag |-> 0]]
  /\ UNCHANGED <<row, held, reply, promise, faults>>

(* INSERT ... ON CONFLICT DO NOTHING.  It waits where the row's existence   *)
(* is not yet decided.                                                      *)
Insert(p) ==
  /\ call[p].at = "insert"
  /\ IF Committed # None /\ row # None THEN UNCHANGED <<row, held>>
     ELSE /\ held = Free
          /\ row' = [credit |-> Full, age |-> call[p].lag]
          /\ Lock(p)
  /\ To(p, "spend")
  /\ UNCHANGED <<reply, promise, faults>>

(* _REFILL, evaluated on version v by the transaction's clock               *)
Refilled(p, v) == AtMost(Full, v.credit + (v.age - call[p].lag) * Rate)

Affords(p) == Refilled(p, row) >= Cost

(* Mutant: the row as it was read is spent from, without waiting.           *)
SpendableNow(p) == TRUE

Spendable(p) == MayLock(p)

(* _SPEND: the row is locked, then tested and written by one statement.     *)
Spend(p) ==
  /\ call[p].at = "spend" /\ Spendable(p)
  /\ IF row # None /\ Affords(p)
     THEN /\ row' = [credit |-> Refilled(p, row) - Cost, age |-> call[p].lag]
          /\ Lock(p)
          /\ To(p, "allowed")
     ELSE /\ To(p, IF row = None THEN "gone" ELSE "look")
          /\ UNCHANGED <<row, held>>
  /\ UNCHANGED <<reply, promise, faults>>

(* Mutant: the division is not rounded up.                                  *)
RetryAfterShort(remaining) == AtLeast(1, AtLeast(0, Cost - remaining) \div Rate)

RetryAfter(remaining) == AtLeast(1, AtLeast(0, Cost - remaining) \div Rate + 1)

(* _REMAINING, a statement of its own: the row may have changed meanwhile.  *)
(* It is asked as well where there was no row to spend from.                *)
Look(p) ==
  /\ call[p].at \in {"look", "gone"}
  /\ promise' = [promise EXCEPT ![p] =
       RetryAfter(IF Committed = None THEN 0 ELSE Refilled(p, Committed))]
  /\ To(p, IF call[p].at = "look" THEN "refused" ELSE "forgotten")
  /\ UNCHANGED <<row, held, reply, faults>>

(* Mutant: the sweep goes by the call's count alone.                        *)
SweptAtOnce(p) == TRUE

Swept(p) == row.age - call[p].lag > Stale

(* _maybe_sweep, once in _SWEEP_EVERY calls of a process                    *)
Sweep(p) ==
  /\ call[p].at = "other"
  /\ Committed # None
  /\ MayLock(p)
  /\ row # None /\ Swept(p)
  /\ row' = None
  /\ Lock(p)
  /\ To(p, "swept")
  /\ UNCHANGED <<reply, promise, faults>>

(* The session closes.  Retry-After was worth what it said unless somebody  *)
(* else of this client is let in first.                                     *)
Commit(p) ==
  /\ call[p].at \in {"allowed", "refused", "forgotten", "other", "swept"}
  /\ call' = [call EXCEPT ![p] = Idle]
  /\ held' = IF held # Free /\ held.by = p THEN Free ELSE held
  /\ reply' = IF call[p].at \in {"other", "swept"} THEN reply
              ELSE [reply EXCEPT ![p] = call[p].at]
  /\ promise' = IF call[p].at = "allowed" THEN [q \in Procs |-> NoPromise] ELSE promise
  /\ UNCHANGED <<row, faults>>

(* A statement fails, or two sweeps deadlock: rolled back, and let in.      *)
Fail(p) ==
  /\ call[p] # Idle
  /\ faults < MaxFaults /\ faults' = faults + 1
  /\ call' = [call EXCEPT ![p] = Idle]
  /\ row' = IF held # Free /\ held.by = p THEN held.was ELSE row
  /\ held' = IF held # Free /\ held.by = p THEN Free ELSE held
  /\ reply' = IF call[p].at \in {"other", "swept"} THEN reply ELSE [reply EXCEPT ![p] = "excused"]
  /\ UNCHANGED promise

Older(v) == IF v = None THEN None ELSE [v EXCEPT !.age = AtMost(MaxAge, @ + 1)]

Tick ==
  /\ \A p \in Procs : call[p].lag < MaxLag
  /\ row' = Older(row)
  /\ held' = IF held = Free THEN held ELSE [held EXCEPT !.was = Older(@)]
  /\ call' = [p \in Procs |-> IF call[p] = Idle THEN Idle ELSE [call[p] EXCEPT !.lag = @ + 1]]
  /\ promise' = [p \in Procs |-> AtLeast(0, promise[p] - 1) - (IF promise[p] = NoPromise THEN 1 ELSE 0)]
  /\ UNCHANGED <<reply, faults>>

Next ==
  \/ Tick
  \/ \E p \in Procs :
       \/ Ask(p) \/ AskOther(p)
       \/ Insert(p) \/ Spend(p) \/ Look(p) \/ Sweep(p)
       \/ Commit(p) \/ Fail(p)

Spec == Init /\ [][Next]_vars

-----------------------------------------------------------------------------
(* Properties                                                               *)

Bucket == INSTANCE TokenBucket WITH Callers <- Procs, tokens <- Tokens

(* All processes together are one token bucket: whatever transactions       *)
(* overlap, roll back or sweep, a request is let in for a whole token the   *)
(* bucket holds and refused for the lack of one, up to the lag of the       *)
(* clocks (ratelimit.py:14-16, "the configured ceiling is the ceiling").    *)
OneBucket == Bucket!Spec

(* A client that waits as long as Retry-After said finds a token, if no     *)
(* other request of it was let in meanwhile (ratelimit.py:155-157).         *)
RetryAfterKept ==
  \A p \in Procs : promise[p] = 0 => Tokens >= Cost
=============================================================================
