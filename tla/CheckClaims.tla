---------------------------- MODULE CheckClaims ----------------------------
(***************************************************************************)
(* The lease on a product's check (scheduler/claims.py) and the two things *)
(* that run under it: a scheduled job of a worker process                  *)
(* (apscheduler_queue._run_check) and a bulk sweep                         *)
(* (check_runner.run_all_checks), which takes the products one by one.     *)
(*                                                                         *)
(* A claim is the pair of columns check_claimed_by, check_claimed_at of    *)
(* the product's row.  Only the age of a claim is ever compared, with the  *)
(* lease, so the model keeps the age: it grows with Tick and stops at      *)
(* Lease + 1, the first value at which the claim is free to take.          *)
(*                                                                         *)
(* What a check does is the subject of CheckPipeline; here it takes time.  *)
(***************************************************************************)
EXTENDS Integers, FiniteSets

CONSTANTS
  Product,           \* product ids
  Task,              \* threads that run checks under a claim
  Sweep,             \* the tasks that run bulk sweeps; the others run jobs
  Worker,            \* process identities, host:pid
  NoWorker,          \* check_claimed_by IS NULL
  NoProduct,         \* the target of a task outside the with-block
  WorkerOf,          \* the process each task runs in
  Lease,             \* lease_seconds, in ticks
  MaxHold,           \* the longest a task stays inside its claim, in ticks
  MaxFaults          \* bound on database errors and crashes

ASSUME LeaseAssumption == Lease \in Nat
ASSUME MaxHoldAssumption == MaxHold \in Nat
ASSUME MaxFaultsAssumption == MaxFaults \in Nat
ASSUME TaskAssumption == Sweep \subseteq Task /\ WorkerOf \in [Task -> Worker]
ASSUME NullAssumption == NoWorker \notin Worker /\ NoProduct \notin Product

VARIABLES
  alive,        \* the products whose row exists
  claimedBy,    \* check_claimed_by of each row
  age,          \* now() - check_claimed_at, saturating
  pc,           \* where each task is
  target,       \* the product a task is checking
  ran,          \* time since the task's claim was granted, saturating
  todo,         \* the products a sweep has still to take
  faults        \* errors and crashes so far

vars == <<alive, claimedBy, age, pc, target, ran, todo, faults>>

(* idle: not running.  sweeping: between two products of a sweep.           *)
(* checking: inside the with-block.  releasing and unwinding: the block has *)
(* been left, normally or by an exception, and the release is to come.      *)
Stage == {"idle", "sweeping", "checking", "releasing", "unwinding"}

Job == Task \ Sweep

Holding(t) == target[t] # NoProduct

InLease(t) == Holding(t) /\ ran[t] <= Lease

(* Time does not run past the lease: beyond it nothing depends on it.       *)
Older(n) == IF n > Lease THEN n ELSE n + 1

(* Besides the types: the two columns of a claim are NULL together, and a   *)
(* task has a target exactly while it is inside the with-block.             *)
TypeOK ==
  /\ alive \in SUBSET Product
  /\ claimedBy \in [Product -> Worker \cup {NoWorker}]
  /\ age \in [Product -> 0 .. Lease + 1]
  /\ pc \in [Task -> Stage]
  /\ target \in [Task -> Product \cup {NoProduct}]
  /\ ran \in [Task -> 0 .. Lease + 1]
  /\ todo \in [Task -> SUBSET Product]
  /\ faults \in 0 .. MaxFaults
  /\ \A p \in Product : claimedBy[p] = NoWorker => age[p] = 0
  /\ \A t \in Task :
       /\ Holding(t) <=> pc[t] \in {"checking", "releasing", "unwinding"}
       /\ t \notin Sweep => todo[t] = {}

Init ==
  /\ alive = Product
  /\ claimedBy = [p \in Product |-> NoWorker]
  /\ age = [p \in Product |-> 0]
  /\ pc = [t \in Task |-> "idle"]
  /\ target = [t \in Task |-> NoProduct]
  /\ ran = [t \in Task |-> 0]
  /\ todo = [t \in Task |-> {}]
  /\ faults = 0

-----------------------------------------------------------------------------
(* The two statements of claims.py.                                         *)

(* Mutants of the two statements: a claim may be taken over as soon as it   *)
(* reaches the lease; a lock instead of a lease; a takeover that keeps the  *)
(* old check_claimed_at; a release not scoped to the worker; a release that *)
(* clears one of the two columns only.                                      *)
ClaimableAtLease(p) ==
  p \in alive /\ (claimedBy[p] = NoWorker \/ age[p] >= Lease)

ClaimableOnlyWhenFree(p) == p \in alive /\ claimedBy[p] = NoWorker

WriteClaimKeepingTime(p, w) ==
  claimedBy' = [claimedBy EXCEPT ![p] = w] /\ age' = age

WriteReleaseOfAnyone(p, w) ==
  IF p \in alive
    THEN /\ claimedBy' = [claimedBy EXCEPT ![p] = NoWorker]
         /\ age' = [age EXCEPT ![p] = 0]
    ELSE UNCHANGED <<claimedBy, age>>

WriteReleaseKeepingTime(p, w) ==
  /\ claimedBy' = IF p \in alive /\ claimedBy[p] = w
                    THEN [claimedBy EXCEPT ![p] = NoWorker] ELSE claimedBy
  /\ age' = age

(* The WHERE clause of _CLAIM, which the UPDATE tests as it writes.         *)
Claimable(p) ==
  /\ p \in alive
  /\ claimedBy[p] = NoWorker \/ age[p] > Lease

WriteClaim(p, w) ==
  /\ claimedBy' = [claimedBy EXCEPT ![p] = w]
  /\ age' = [age EXCEPT ![p] = 0]

(* _RELEASE: the row is cleared only while it names the releasing worker.   *)
WriteRelease(p, w) ==
  IF p \in alive /\ claimedBy[p] = w
    THEN /\ claimedBy' = [claimedBy EXCEPT ![p] = NoWorker]
         /\ age' = [age EXCEPT ![p] = 0]
    ELSE UNCHANGED <<claimedBy, age>>

-----------------------------------------------------------------------------
(* Entering the with-block.                                                 *)

(* A job fires for any product, but a worker runs at most one instance of   *)
(* a product's job at a time (max_instances = 1); a sweep takes one of the  *)
(* products it listed.                                                      *)
MayAttempt(t, p) ==
  \/ /\ t \in Job /\ pc[t] = "idle"
     /\ \A u \in Job \ {t} :
          WorkerOf[u] = WorkerOf[t] => target[u] # p
  \/ /\ t \in Sweep /\ pc[t] = "sweeping"
     /\ p \in todo[t]

(* Mutant: the sweep comes back to a product until it gets it.              *)
AttemptedAgain(t, p) == UNCHANGED todo

Attempted(t, p) == todo' = [todo EXCEPT ![t] = @ \ {p}]

ClaimGranted(t, p) ==
  /\ MayAttempt(t, p)
  /\ Claimable(p)
  /\ WriteClaim(p, WorkerOf[t])
  /\ pc' = [pc EXCEPT ![t] = "checking"]
  /\ target' = [target EXCEPT ![t] = p]
  /\ ran' = [ran EXCEPT ![t] = 0]
  /\ Attempted(t, p)
  /\ UNCHANGED <<alive, faults>>

(* No row came back: the job ends, the sweep moves on to its next product.  *)
ClaimDeclined(t, p) ==
  /\ MayAttempt(t, p)
  /\ ~Claimable(p)
  /\ Attempted(t, p)
  /\ UNCHANGED <<alive, claimedBy, age, pc, target, ran, faults>>

(* The database failed: claim() answers False.  If it was the commit whose  *)
(* acknowledgement was lost, the claim stands with nobody behind it.        *)
ClaimError(t, p) ==
  /\ MayAttempt(t, p)
  /\ faults < MaxFaults
  /\ faults' = faults + 1
  /\ \/ UNCHANGED <<claimedBy, age>>
     \/ Claimable(p) /\ WriteClaim(p, WorkerOf[t])
  /\ Attempted(t, p)
  /\ UNCHANGED <<alive, pc, target, ran>>

-----------------------------------------------------------------------------
(* Leaving it.                                                              *)

(* The check ended.  The worker's run_check never lets an exception out.    *)
Finish(t) ==
  /\ pc[t] = "checking"
  /\ pc' = [pc EXCEPT ![t] = "releasing"]
  /\ UNCHANGED <<alive, claimedBy, age, target, ran, todo, faults>>

(* The check raised inside a sweep, which catches nothing: its product was  *)
(* deleted, or the database failed.                                         *)
Raise(t) ==
  /\ t \in Sweep
  /\ pc[t] = "checking"
  /\ \/ target[t] \notin alive /\ UNCHANGED faults
     \/ faults < MaxFaults /\ faults' = faults + 1
  /\ pc' = [pc EXCEPT ![t] = "unwinding"]
  /\ UNCHANGED <<alive, claimedBy, age, target, ran, todo>>

(* A sweep goes on to its next product unless an exception is on its way.   *)
LeaveBlock(t) ==
  LET goesOn == t \in Sweep /\ pc[t] = "releasing"
  IN  /\ pc' = [pc EXCEPT ![t] = IF goesOn THEN "sweeping" ELSE "idle"]
      /\ todo' = [todo EXCEPT ![t] = IF goesOn THEN @ ELSE {}]
      /\ target' = [target EXCEPT ![t] = NoProduct]
      /\ ran' = [ran EXCEPT ![t] = 0]

Release(t) ==
  /\ pc[t] \in {"releasing", "unwinding"}
  /\ WriteRelease(target[t], WorkerOf[t])
  /\ LeaveBlock(t)
  /\ UNCHANGED <<alive, faults>>

(* Best effort: an error of the release is logged and forgotten, whether    *)
(* or not the statement took effect.                                        *)
ReleaseError(t) ==
  /\ pc[t] \in {"releasing", "unwinding"}
  /\ faults < MaxFaults
  /\ faults' = faults + 1
  /\ WriteRelease(target[t], WorkerOf[t]) \/ UNCHANGED <<claimedBy, age>>
  /\ LeaveBlock(t)
  /\ UNCHANGED alive

-----------------------------------------------------------------------------
(* Bulk sweeps.                                                             *)

(* The ids of some active products, listed in a transaction of their own.   *)
StartSweep(t) ==
  /\ t \in Sweep
  /\ pc[t] = "idle"
  /\ \E listed \in SUBSET alive \ {{}} : todo' = [todo EXCEPT ![t] = listed]
  /\ pc' = [pc EXCEPT ![t] = "sweeping"]
  /\ UNCHANGED <<alive, claimedBy, age, target, ran, faults>>

(* The loop is over: one delivery pass, and the summary is returned.        *)
DeliverAfterSweep(t) ==
  /\ t \in Sweep
  /\ pc[t] = "sweeping"
  /\ todo[t] = {}
  /\ pc' = [pc EXCEPT ![t] = "idle"]
  /\ UNCHANGED <<alive, claimedBy, age, target, ran, todo, faults>>

-----------------------------------------------------------------------------
(* The environment.                                                         *)

(* A process dies: its tasks are gone, the rows they claimed are not.       *)
Crash(w) ==
  /\ faults < MaxFaults
  /\ faults' = faults + 1
  /\ \E t \in Task : WorkerOf[t] = w /\ pc[t] # "idle"
  /\ pc' = [t \in Task |-> IF WorkerOf[t] = w THEN "idle" ELSE pc[t]]
  /\ todo' = [t \in Task |-> IF WorkerOf[t] = w THEN {} ELSE todo[t]]
  /\ target' = [t \in Task |-> IF WorkerOf[t] = w THEN NoProduct ELSE target[t]]
  /\ ran' = [t \in Task |-> IF WorkerOf[t] = w THEN 0 ELSE ran[t]]
  /\ UNCHANGED <<alive, claimedBy, age>>

(* The product is removed through the API, with its claim; ids are not      *)
(* used again.                                                              *)
DeleteProduct(p) ==
  /\ p \in alive
  /\ alive' = alive \ {p}
  /\ claimedBy' = [claimedBy EXCEPT ![p] = NoWorker]
  /\ age' = [age EXCEPT ![p] = 0]
  /\ UNCHANGED <<pc, target, ran, todo, faults>>

(* Time passes, but not while a task has used up its MaxHold.               *)
Tick ==
  /\ \A t \in Task : Holding(t) => ran[t] < MaxHold
  /\ age' = [p \in Product |->
               IF claimedBy[p] = NoWorker THEN age[p] ELSE Older(age[p])]
  /\ ran' = [t \in Task |-> IF Holding(t) THEN Older(ran[t]) ELSE ran[t]]
  /\ UNCHANGED <<alive, claimedBy, pc, target, todo, faults>>

TaskNext(t) ==
  \/ \E p \in Product :
       ClaimGranted(t, p) \/ ClaimDeclined(t, p) \/ ClaimError(t, p)
  \/ Finish(t) \/ Raise(t) \/ Release(t) \/ ReleaseError(t)
  \/ StartSweep(t) \/ DeliverAfterSweep(t)

Next ==
  \/ \E t \in Task : TaskNext(t)
  \/ \E w \in Worker : Crash(w)
  \/ \E p \in Product : DeleteProduct(p)
  \/ Tick

Spec == Init /\ [][Next]_vars

(* A check and a release end, the clock runs, a sweep takes its products;   *)
(* every product has a job of its own, due again each interval and queued   *)
(* first come first served, so no product's job is passed over for ever.    *)
Fairness ==
  /\ WF_vars(Tick)
  /\ \A t \in Task :
       /\ WF_vars(Finish(t))
       /\ WF_vars(Release(t))
       /\ WF_vars(DeliverAfterSweep(t))
       /\ WF_vars(t \in Sweep /\ \E p \in Product :
                     ClaimGranted(t, p) \/ ClaimDeclined(t, p))
  /\ \A p \in Product : SF_vars(\E t \in Job : ClaimGranted(t, p))

FairSpec == Spec /\ Fairness

-----------------------------------------------------------------------------
(* Properties.                                                              *)

(* Two checks of one product overlap only when one of them has outlived its *)
(* lease, whatever crashes, errors and deletions happen on the way: a check *)
(* within its lease is the only one (claims.py, module docstring).          *)
NoOverlapWithinLease ==
  \A t, u \in Task :
    t # u /\ InLease(t) /\ InLease(u) => target[t] # target[u]

(* When no task stays longer than the lease, no product is ever checked by  *)
(* two tasks at once (README: two workers never check the same product).    *)
AtMostOneCheck ==
  \A t, u \in Task :
    t # u /\ Holding(t) => target[t] # target[u]

(* A claim is cleared only by a task of the worker it names, or with the    *)
(* whole row: a late release never frees a claim that another worker has    *)
(* taken over (comment on _RELEASE).                                        *)
ReleaseOnlyOwn ==
  [][\A p \in alive' :
       claimedBy[p] # NoWorker /\ claimedBy'[p] = NoWorker =>
         \E t \in Task : /\ target[t] = p /\ target'[t] = NoProduct
                         /\ WorkerOf[t] = claimedBy[p]]_vars

(* A claim nobody stands behind does not stall its product: for as long as  *)
(* it exists a product is checked again and again (the lease is what lets   *)
(* a worker take over from one that died).                                  *)
KeepsBeingChecked ==
  \A p \in Product :
    []<>(p \in alive => \E t \in Task : target[t] = p)

(* Every sweep comes to an end, though products are claimed elsewhere,      *)
(* deleted under it and its own checks fail.                                *)
SweepEnds == \A t \in Sweep : pc[t] = "sweeping" ~> pc[t] = "idle"

=============================================================================
