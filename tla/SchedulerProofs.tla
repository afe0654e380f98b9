-------------------------- MODULE SchedulerProofs --------------------------
(* What holds of the two modules of scheduler/: of CheckClaims for any      *)
(* products, tasks, processes and lease, and of WorkerSchedule for any      *)
(* products, workers and intervals.                                         *)
EXTENDS CheckClaims, WorkerSchedule, FiniteSetTheorems, TLAPS

-----------------------------------------------------------------------------
(* CheckClaims                                                              *)

(* The columns of a claim keep their types, are NULL together, and a task   *)
(* has a target exactly while it is inside claimed()'s with-block.          *)
THEOREM TypeCorrect == Spec => []TypeOK
<1> USE LeaseAssumption, MaxFaultsAssumption, TaskAssumption, NullAssumption
        DEF Holding
<1>1. Init => TypeOK
  BY DEF Init, TypeOK, Stage
<1>2. TypeOK /\ [Next]_vars => TypeOK'
  <2> SUFFICES ASSUME TypeOK, [Next]_vars PROVE TypeOK'
    OBVIOUS
  <2> USE DEF TypeOK, Stage
  <2>1. ASSUME NEW t \in Task, NEW p \in Product, ClaimGranted(t, p)
        PROVE  TypeOK'
    BY <2>1 DEF ClaimGranted, MayAttempt, WriteClaim, Attempted, Job
  <2>2. ASSUME NEW t \in Task, NEW p \in Product, ClaimDeclined(t, p)
        PROVE  TypeOK'
    BY <2>2 DEF ClaimDeclined, Attempted
  <2>3. ASSUME NEW t \in Task, NEW p \in Product, ClaimError(t, p)
        PROVE  TypeOK'
    BY <2>3 DEF ClaimError, WriteClaim, Attempted
  <2>4. ASSUME NEW t \in Task, Finish(t) PROVE TypeOK'
    BY <2>4 DEF Finish
  <2>5. ASSUME NEW t \in Task, Raise(t) PROVE TypeOK'
    BY <2>5 DEF Raise
  <2>6. ASSUME NEW t \in Task, Release(t) PROVE TypeOK'
    BY <2>6 DEF Release, WriteRelease, LeaveBlock
  <2>7. ASSUME NEW t \in Task, ReleaseError(t) PROVE TypeOK'
    BY <2>7 DEF ReleaseError, WriteRelease, LeaveBlock
  <2>8. ASSUME NEW t \in Task, StartSweep(t) PROVE TypeOK'
    BY <2>8 DEF StartSweep
  <2>9. ASSUME NEW t \in Task, DeliverAfterSweep(t) PROVE TypeOK'
    BY <2>9 DEF DeliverAfterSweep
  <2>10. ASSUME NEW w \in Worker, Crash(w) PROVE TypeOK'
    BY <2>10 DEF Crash
  <2>11. ASSUME NEW p \in Product, DeleteProduct(p) PROVE TypeOK'
    BY <2>11 DEF DeleteProduct
  <2>12. CASE Tick
    BY <2>12 DEF Tick, Older
  <2>13. CASE UNCHANGED vars
    BY <2>13 DEF vars
  <2> QED
    BY <2>1, <2>2, <2>3, <2>4, <2>5, <2>6, <2>7, <2>8, <2>9, <2>10, <2>11,
       <2>12, <2>13 DEF Next, TaskNext
<1> QED
  BY <1>1, <1>2, PTL DEF Spec

-----------------------------------------------------------------------------
(* Within its lease a task owns the claim on its product, and the claim is  *)
(* exactly as old as the task's stay: that is why nobody can take it over.  *)
InLeaseOwns ==
  \A t \in Task :
    InLease(t) /\ target[t] \in alive =>
      claimedBy[target[t]] = WorkerOf[t] /\ age[target[t]] = ran[t]

(* No worker runs two checks of one product: a release can then only clear  *)
(* the releasing task's own claim.                                          *)
OncePerWorker ==
  \A t, u \in Task :
    t # u /\ WorkerOf[t] = WorkerOf[u] /\ Holding(t) => target[t] # target[u]

ClaimInv == InLeaseOwns /\ OncePerWorker /\ NoOverlapWithinLease

(* A process that runs a sweep runs nothing else under a claim; the jobs of *)
(* one process are kept apart by max_instances.                             *)
SweepsAlone ==
  \A t, u \in Task : t # u /\ WorkerOf[t] = WorkerOf[u] => t \in Job /\ u \in Job

LEMMA ClaimInvInit == Init => ClaimInv
BY DEF Init, ClaimInv, InLeaseOwns, OncePerWorker, NoOverlapWithinLease,
       InLease, Holding

(* A claim is granted only where no task is within its lease.               *)
LEMMA GrantKeepsClaimInv ==
  ASSUME SweepsAlone, TypeOK, ClaimInv,
         NEW t \in Task, NEW p \in Product, ClaimGranted(t, p)
  PROVE  ClaimInv'
<1> USE LeaseAssumption, TaskAssumption, NullAssumption
<1>1. \A u \in Task : InLease(u) => target[u] # p
  <2> SUFFICES ASSUME NEW u \in Task, InLease(u), target[u] = p PROVE FALSE
    OBVIOUS
  <2>1. p \in alive /\ (claimedBy[p] = NoWorker \/ age[p] > Lease)
    BY DEF ClaimGranted, Claimable
  <2>2. claimedBy[p] = WorkerOf[u] /\ age[p] = ran[u] /\ ran[u] <= Lease
    BY <2>1 DEF ClaimInv, InLeaseOwns, InLease
  <2>3. WorkerOf[u] # NoWorker
    OBVIOUS
  <2> QED
    BY <2>1, <2>2, <2>3 DEF TypeOK
<1>2. \A u \in Task \ {t} : WorkerOf[u] = WorkerOf[t] => target[u] # p
  BY DEF SweepsAlone, ClaimGranted, MayAttempt, Job
<1>3. /\ target' = [target EXCEPT ![t] = p]
      /\ ran' = [ran EXCEPT ![t] = 0]
      /\ claimedBy' = [claimedBy EXCEPT ![p] = WorkerOf[t]]
      /\ age' = [age EXCEPT ![p] = 0]
      /\ alive' = alive
  BY DEF ClaimGranted, WriteClaim
<1>4. InLeaseOwns'
  BY <1>1, <1>3 DEF TypeOK, ClaimInv, InLeaseOwns, InLease, Holding
<1>5. OncePerWorker'
  BY <1>2, <1>3 DEF TypeOK, ClaimInv, OncePerWorker, Holding
<1>6. NoOverlapWithinLease'
  BY <1>1, <1>3 DEF TypeOK, ClaimInv, NoOverlapWithinLease, InLease, Holding
<1> QED
  BY <1>4, <1>5, <1>6 DEF ClaimInv

(* Leaving the block clears at most the claim of the leaving task: another  *)
(* task on the same product has another worker.                             *)
LEMMA LeaveKeepsClaimInv ==
  ASSUME TypeOK, ClaimInv, NEW t \in Task, Holding(t),
         WriteRelease(target[t], WorkerOf[t]) \/ UNCHANGED <<claimedBy, age>>,
         LeaveBlock(t), alive' = alive
  PROVE  ClaimInv'
<1> USE LeaseAssumption, TaskAssumption, NullAssumption
<1>1. /\ target' = [target EXCEPT ![t] = NoProduct]
      /\ ran' = [ran EXCEPT ![t] = 0]
  BY DEF LeaveBlock
<1>2. ASSUME NEW u \in Task \ {t}, InLease(u), target[u] \in alive
      PROVE  /\ claimedBy'[target[u]] = claimedBy[target[u]]
             /\ age'[target[u]] = age[target[u]]
  <2>1. claimedBy[target[u]] = WorkerOf[u]
    BY <1>2 DEF ClaimInv, InLeaseOwns
  <2>2. target[u] = target[t] => WorkerOf[u] # WorkerOf[t]
    BY <1>2 DEF ClaimInv, OncePerWorker
  <2> QED
    BY <1>2, <2>1, <2>2 DEF WriteRelease, TypeOK
<1>3. InLeaseOwns'
  BY <1>1, <1>2 DEF TypeOK, ClaimInv, InLeaseOwns, InLease, Holding
<1>4. OncePerWorker' /\ NoOverlapWithinLease'
  BY <1>1 DEF TypeOK, ClaimInv, OncePerWorker, NoOverlapWithinLease, InLease,
              Holding
<1> QED
  BY <1>3, <1>4 DEF ClaimInv

(* A lost acknowledgement claims only what was claimable, so nothing a task *)
(* within its lease owns.                                                   *)
LEMMA ClaimErrorKeepsClaimInv ==
  ASSUME TypeOK, ClaimInv, NEW t \in Task, NEW p \in Product, ClaimError(t, p)
  PROVE  ClaimInv'
<1> USE LeaseAssumption, TaskAssumption, NullAssumption
<1>1. UNCHANGED <<alive, target, ran>>
  BY DEF ClaimError
<1>2. ASSUME NEW u \in Task, InLease(u), target[u] \in alive
      PROVE  /\ claimedBy'[target[u]] = claimedBy[target[u]]
             /\ age'[target[u]] = age[target[u]]
  <2>1. /\ claimedBy[target[u]] = WorkerOf[u]
        /\ age[target[u]] = ran[u] /\ ran[u] <= Lease
    BY <1>2 DEF ClaimInv, InLeaseOwns, InLease
  <2>2. WorkerOf[u] # NoWorker /\ ran[u] \in Int
    BY DEF TypeOK
  <2>3. ~Claimable(target[u])
    BY <2>1, <2>2 DEF Claimable
  <2> QED
    BY <1>2, <2>3 DEF ClaimError, WriteClaim, TypeOK
<1>3. InLeaseOwns'
  BY <1>1, <1>2 DEF ClaimInv, InLeaseOwns, InLease, Holding
<1> QED
  BY <1>1, <1>3 DEF ClaimInv, OncePerWorker, NoOverlapWithinLease, InLease,
                    Holding

(* The claim and the stay of its owner grow older together.                 *)
LEMMA TickKeepsClaimInv == TypeOK /\ ClaimInv /\ Tick => ClaimInv'
<1> USE LeaseAssumption, TaskAssumption, NullAssumption
<1> SUFFICES ASSUME TypeOK, ClaimInv, Tick PROVE ClaimInv'
  OBVIOUS
<1>1. UNCHANGED <<alive, claimedBy, target>>
  BY DEF Tick
<1>2. \A u \in Task : (InLease(u))' => InLease(u) /\ ran'[u] = ran[u] + 1
  BY DEF Tick, InLease, Holding, Older, TypeOK
<1>3. InLeaseOwns'
  <2> SUFFICES ASSUME NEW u \in Task, (InLease(u))', target[u] \in alive
               PROVE  /\ claimedBy[target[u]] = WorkerOf[u]
                      /\ age'[target[u]] = ran'[u]
    BY <1>1 DEF InLeaseOwns
  <2>1. claimedBy[target[u]] = WorkerOf[u] /\ age[target[u]] = ran[u]
    BY <1>2 DEF ClaimInv, InLeaseOwns
  <2>2. ran[u] <= Lease /\ ran[u] \in Int /\ target[u] \in Product
    BY <1>2 DEF InLease, TypeOK
  <2>3. age'[target[u]] = age[target[u]] + 1
    BY <2>1, <2>2 DEF Tick, Older
  <2> QED
    BY <1>2, <2>1, <2>3
<1> QED
  BY <1>1, <1>2, <1>3 DEF ClaimInv, OncePerWorker, NoOverlapWithinLease, Holding

LEMMA ClaimInvStep ==
  ASSUME SweepsAlone, TypeOK, ClaimInv, [Next]_vars
  PROVE  ClaimInv'
<1> USE DEF ClaimInv, InLeaseOwns, OncePerWorker, NoOverlapWithinLease, InLease,
        Holding
<1>1. ASSUME NEW t \in Task, NEW p \in Product, ClaimGranted(t, p)
      PROVE  ClaimInv'
  BY <1>1, GrantKeepsClaimInv
<1>2. ASSUME NEW t \in Task, NEW p \in Product, ClaimDeclined(t, p)
      PROVE  ClaimInv'
  BY <1>2 DEF ClaimDeclined
<1>3. ASSUME NEW t \in Task, NEW p \in Product, ClaimError(t, p)
      PROVE  ClaimInv'
  BY <1>3, ClaimErrorKeepsClaimInv
<1>4. ASSUME NEW t \in Task,
             Finish(t) \/ Raise(t) \/ StartSweep(t) \/ DeliverAfterSweep(t)
      PROVE  ClaimInv'
  BY <1>4 DEF Finish, Raise, StartSweep, DeliverAfterSweep
<1>5. ASSUME NEW t \in Task, Release(t) \/ ReleaseError(t) PROVE ClaimInv'
  <2>1. Holding(t)
    BY <1>5 DEF Release, ReleaseError, TypeOK
  <2> QED
    BY <1>5, <2>1, LeaveKeepsClaimInv DEF Release, ReleaseError
<1>6. ASSUME NEW w \in Worker, Crash(w) PROVE ClaimInv'
  BY <1>6, TaskAssumption, NullAssumption DEF Crash, TypeOK
<1>7. ASSUME NEW p \in Product, DeleteProduct(p) PROVE ClaimInv'
  BY <1>7 DEF DeleteProduct, TypeOK
<1>8. CASE Tick
  BY <1>8, TickKeepsClaimInv
<1>9. CASE UNCHANGED vars
  BY <1>9 DEF vars
<1> QED
  BY <1>1, <1>2, <1>3, <1>4, <1>5, <1>6, <1>7, <1>8, <1>9 DEF Next, TaskNext

(* However many workers and products there are, whatever crashes, errors    *)
(* and deletions happen, a check within its lease is the only one of its    *)
(* product that is within its lease.                                        *)
THEOREM LeaseExcludes ==
  ASSUME SweepsAlone
  PROVE  Spec => []NoOverlapWithinLease
<1>1. TypeOK /\ ClaimInv /\ [Next]_vars => ClaimInv'
  BY ClaimInvStep
<1>2. ClaimInv => NoOverlapWithinLease
  BY DEF ClaimInv
<1> QED
  BY <1>1, <1>2, ClaimInvInit, TypeCorrect, PTL DEF Spec

-----------------------------------------------------------------------------
(* No task stays in the block beyond MaxHold.                               *)
WithinMaxHold == \A t \in Task : Holding(t) => ran[t] <= MaxHold

LEMMA WithinMaxHoldStep ==
  TypeOK /\ WithinMaxHold /\ [Next]_vars => WithinMaxHold'
<1> USE LeaseAssumption, MaxHoldAssumption, NullAssumption
        DEF WithinMaxHold, Holding, TypeOK
<1> SUFFICES ASSUME TypeOK, WithinMaxHold, [Next]_vars PROVE WithinMaxHold'
  OBVIOUS
<1>1. ASSUME NEW t \in Task, TaskNext(t) PROVE WithinMaxHold'
  BY <1>1 DEF TaskNext, ClaimGranted, ClaimDeclined, ClaimError, Finish, Raise,
    Release, ReleaseError, StartSweep, DeliverAfterSweep, LeaveBlock
<1>2. ASSUME NEW w \in Worker, Crash(w) PROVE WithinMaxHold'
  BY <1>2 DEF Crash
<1>3. ASSUME NEW p \in Product, DeleteProduct(p) PROVE WithinMaxHold'
  BY <1>3 DEF DeleteProduct
<1>4. CASE Tick
  BY <1>4 DEF Tick, Older
<1>5. CASE UNCHANGED vars
  BY <1>5 DEF vars
<1> QED
  BY <1>1, <1>2, <1>3, <1>4, <1>5 DEF Next

(* When the lease is set above the longest honest check, as its comment     *)
(* says it is, no product is ever checked by two tasks at once.             *)
THEOREM OneCheckAtATime ==
  ASSUME SweepsAlone, MaxHold <= Lease
  PROVE  Spec => []AtMostOneCheck
<1>1. Init => WithinMaxHold
  BY DEF Init, WithinMaxHold, Holding
<1>2. Spec => []WithinMaxHold
  BY <1>1, WithinMaxHoldStep, TypeCorrect, PTL DEF Spec
<1>3. TypeOK /\ WithinMaxHold /\ NoOverlapWithinLease => AtMostOneCheck
  <2> SUFFICES ASSUME TypeOK, WithinMaxHold, NoOverlapWithinLease,
                      NEW t \in Task, NEW u \in Task, t # u, Holding(t),
                      target[t] = target[u]
               PROVE  FALSE
    BY DEF AtMostOneCheck
  <2>1. Holding(u)
    BY DEF Holding
  <2>2. InLease(t) /\ InLease(u)
    BY <2>1, LeaseAssumption, MaxHoldAssumption
    DEF WithinMaxHold, InLease, TypeOK
  <2> QED
    BY <2>2 DEF NoOverlapWithinLease
<1> QED
  BY <1>2, <1>3, LeaseExcludes, TypeCorrect, PTL

-----------------------------------------------------------------------------
(* A release clears a claim that names its worker, and leaves the block.    *)
LEMMA ReleaseClearsOwn ==
  ASSUME TypeOK, NEW t \in Task, Release(t) \/ ReleaseError(t), NEW p \in Product,
         claimedBy[p] # NoWorker, claimedBy'[p] = NoWorker
  PROVE  target[t] = p /\ target'[t] = NoProduct /\ WorkerOf[t] = claimedBy[p]
<1>1. target'[t] = NoProduct
  BY DEF Release, ReleaseError, LeaveBlock, TypeOK
<1>2. claimedBy' # claimedBy
  OBVIOUS
<1>3. WriteRelease(target[t], WorkerOf[t])
  BY <1>2 DEF Release, ReleaseError
<1>4. /\ claimedBy[target[t]] = WorkerOf[t]
      /\ claimedBy' = [claimedBy EXCEPT ![target[t]] = NoWorker]
  BY <1>2, <1>3 DEF WriteRelease
<1>5. target[t] = p
  BY <1>4 DEF TypeOK
<1> QED
  BY <1>1, <1>4, <1>5

(* However late a release comes, and with any number of tasks, sweeps and   *)
(* workers, sharing a process or not: it never frees the claim of another   *)
(* worker, and no error, crash or deletion frees one in a row that stays.   *)
THEOREM ReleasesFreeOwn == Spec => ReleaseOnlyOwn
<1> DEFINE Freed(p) == claimedBy[p] # NoWorker /\ claimedBy'[p] = NoWorker
           ByOwner(p) == \E t \in Task : /\ target[t] = p /\ target'[t] = NoProduct
                                         /\ WorkerOf[t] = claimedBy[p]
<1>1. TypeOK /\ [Next]_vars => \A p \in alive' : Freed(p) => ByOwner(p)
  <2> SUFFICES ASSUME TypeOK, [Next]_vars, NEW p \in alive', Freed(p) PROVE ByOwner(p)
    OBVIOUS
  <2>1. p \in Product
    <3>1. alive' \subseteq alive
      BY DEF Next, TaskNext, vars, ClaimGranted, ClaimDeclined, ClaimError, Finish, Raise,
             Release, ReleaseError, StartSweep, DeliverAfterSweep, Crash, DeleteProduct, Tick
    <3> QED
      BY <3>1 DEF TypeOK
  <2>2. ASSUME NEW t \in Task, NEW q \in Product,
               ClaimGranted(t, q) \/ ClaimDeclined(t, q) \/ ClaimError(t, q)
        PROVE  FALSE
    BY <2>1, <2>2, TaskAssumption, NullAssumption
    DEF ClaimGranted, ClaimDeclined, ClaimError, WriteClaim, TypeOK
  <2>3. ASSUME NEW t \in Task,
               Finish(t) \/ Raise(t) \/ StartSweep(t) \/ DeliverAfterSweep(t)
        PROVE  FALSE
    BY <2>3 DEF Finish, Raise, StartSweep, DeliverAfterSweep
  <2>4. ASSUME NEW t \in Task, Release(t) \/ ReleaseError(t) PROVE ByOwner(p)
    BY <2>1, <2>4, ReleaseClearsOwn
  <2>5. ASSUME NEW w \in Worker, Crash(w) PROVE FALSE
    BY <2>5 DEF Crash
  <2>6. ASSUME NEW q \in Product, DeleteProduct(q) PROVE FALSE
    BY <2>1, <2>6 DEF DeleteProduct, TypeOK
  <2>7. CASE Tick
    BY <2>7 DEF Tick
  <2>8. CASE UNCHANGED vars
    BY <2>8 DEF vars
  <2> HIDE DEF ByOwner, Freed
  <2> QED
    BY <2>2, <2>3, <2>4, <2>5, <2>6, <2>7, <2>8 DEF Next, TaskNext
<1> QED
  BY <1>1, TypeCorrect, PTL DEF Spec, ReleaseOnlyOwn

-----------------------------------------------------------------------------
(* WorkerSchedule                                                           *)

(* At most one session holds the advisory lock.                             *)
OneHolder == lock = {} \/ \E w \in Workers : lock = {w}

(* Without several workers and without a fault a worker that is up holds it.*)
HoldersWork == ~multiple /\ errors = 0 => \A w \in Workers : Up(w) => lock = {w}

(* What a pass is to schedule is wanted.                                    *)
SchedulesWanted ==
  \A w \in Workers : pass[w].at = "apply" =>
    \A p \in pass[w].todo : pass[w].desired[p] # 0

(* A job that a loop has taken is still in the table when it is written     *)
(* back: only another worker could remove it meanwhile.                     *)
TakenStays ==
  ~multiple /\ errors = 0 =>
    \A w \in Workers : Taken(w) => job[loop[w].product] # 0

ScheduleInv ==
  /\ ScheduleTypeOK
  /\ OneHolder
  /\ HoldersWork
  /\ SchedulesWanted
  /\ TakenStays
  /\ StallsOnlyBesideAnother

LEMMA FewHolders ==
  ASSUME NEW S, S = {} \/ \E w \in Workers : S = {w}
  PROVE  Cardinality(S) <= 1
<1>1. CASE S = {}
  BY <1>1, FS_EmptySet
<1>2. ASSUME NEW w \in Workers, S = {w} PROVE Cardinality(S) <= 1
  <2>1. Cardinality(S) = 1
    BY <1>2, FS_Singleton, Zenon
  <2> QED
    BY <2>1
<1> QED
  BY <1>1, <1>2

(* Faults are only counted, and the setting is read once.                   *)
Counted == multiple' = multiple /\ errors' \in 0 .. MaxErrors /\ errors' >= errors

LEMMA FaultCounted ==
  ASSUME ScheduleInv, Fault, multiple' = multiple
  PROVE  Counted /\ errors' > 0
BY ScheduleAssumption DEF Fault, Counted, ScheduleInv, ScheduleTypeOK

LEMMA NoFaultCounted ==
  ASSUME ScheduleInv, UNCHANGED <<multiple, errors>>
  PROVE  Counted
BY ScheduleAssumption DEF Counted, ScheduleInv, ScheduleTypeOK

LEMMA StillFaultless ==
  ASSUME ScheduleInv, Counted, ~multiple', errors' = 0
  PROVE  ~multiple /\ errors = 0
BY ScheduleAssumption DEF Counted, ScheduleInv, ScheduleTypeOK

(* A worker that has gone has no loop, no pass and no lock.                 *)
LEMMA ExitKeeps ==
  ASSUME ScheduleInv, NEW w \in Workers, Exit(w), Counted,
         UNCHANGED <<want, job>>, fresh' \subseteq Workers
  PROVE  ScheduleInv'
<1>1. /\ life' = [life EXCEPT ![w] = "off"] /\ loop' = [loop EXCEPT ![w] = Alone]
      /\ pass' = [pass EXCEPT ![w] = Idle] /\ lock' = lock \ {w}
  BY DEF Exit
<1>2. OneHolder'
  BY <1>1 DEF ScheduleInv, OneHolder
<1>3. HoldersWork'
  <2> SUFFICES ASSUME ~multiple', errors' = 0, NEW v \in Workers, Up(v)' PROVE lock' = {v}
    BY DEF HoldersWork
  <2>1. v # w /\ Up(v)
    BY <1>1 DEF Up, ScheduleInv, ScheduleTypeOK
  <2>2. lock = {v}
    BY <2>1, StillFaultless DEF ScheduleInv, HoldersWork
  <2> QED
    BY <1>1, <2>1, <2>2
<1>4. /\ \A v \in Workers \ {w} : pass'[v] = pass[v] /\ loop'[v] = loop[v] /\ life'[v] = life[v]
      /\ pass'[w] = Idle /\ loop'[w] = Alone /\ life'[w] = "off"
  BY <1>1 DEF ScheduleInv, ScheduleTypeOK
<1>5. ScheduleTypeOK'
  <2>1. Cardinality(lock') <= 1
    BY <1>2, FewHolders DEF OneHolder
  <2>2. loop' \in [Workers -> Loops] /\ pass' \in [Workers -> Passes]
    BY <1>1 DEF ScheduleInv, ScheduleTypeOK, Loops, Passes
  <2>3. life' \in [Workers -> {"off", "setup", "running"}]
    BY <1>1 DEF ScheduleInv, ScheduleTypeOK
  <2> QED
    BY <1>1, <1>4, <2>1, <2>2, <2>3 DEF ScheduleInv, ScheduleTypeOK, Counted, Up
<1>6. SchedulesWanted'
  BY <1>4 DEF ScheduleInv, SchedulesWanted, Idle
<1>7. TakenStays' /\ StallsOnlyBesideAnother'
  <2>1. Alone # Dead /\ Alone.at # "taken"
    BY DEF Alone, Dead
  <2>2. TakenStays'
    BY <1>4, <2>1, StillFaultless DEF ScheduleInv, TakenStays, Taken
  <2>3. StallsOnlyBesideAnother'
    BY <1>4, <2>1, StillFaultless
       DEF ScheduleInv, ScheduleTypeOK, StallsOnlyBesideAnother, Counted
  <2> QED
    BY <2>2, <2>3
<1> QED
  BY <1>2, <1>3, <1>5, <1>6, <1>7 DEF ScheduleInv

(* A step of a pass leaves the processes alone, and removes no job that a   *)
(* loop has taken.                                                          *)
LEMMA PassKeeps ==
  ASSUME ScheduleInv, NEW w \in Workers, NEW q \in Passes, Counted,
         pass' = [pass EXCEPT ![w] = q], q # Idle => Up(w),
         q.at = "apply" => \A p \in q.todo : q.desired[p] # 0,
         UNCHANGED <<want, process>>, job' \in Schedules, fresh' \subseteq Workers,
         ~multiple /\ errors = 0 => \A v \in Workers : Taken(v) => job'[loop[v].product] # 0
  PROVE  ScheduleInv'
<1>1. UNCHANGED <<life, loop, lock>>
  BY DEF process
<1>2. /\ pass' \in [Workers -> Passes] /\ pass'[w] = q
      /\ \A v \in Workers \ {w} : pass'[v] = pass[v]
  BY DEF ScheduleInv, ScheduleTypeOK
<1>3. ScheduleTypeOK'
  BY <1>1, <1>2 DEF ScheduleInv, ScheduleTypeOK, Counted, Up
<1>4. OneHolder' /\ HoldersWork'
  BY <1>1, StillFaultless DEF ScheduleInv, OneHolder, HoldersWork, Up
<1>5. SchedulesWanted'
  BY <1>2 DEF ScheduleInv, SchedulesWanted
<1>6. TakenStays'
  BY <1>1, StillFaultless DEF TakenStays, Taken
<1>7. StallsOnlyBesideAnother'
  BY <1>1, StillFaultless DEF ScheduleInv, ScheduleTypeOK, StallsOnlyBesideAnother, Counted
<1> QED
  BY <1>3, <1>4, <1>5, <1>6, <1>7 DEF ScheduleInv

(* A step of a loop that has not died without a cause.                      *)
LEMMA LoopKeeps ==
  ASSUME ScheduleInv, NEW w \in Workers, NEW l \in Loops, Counted,
         loop' = [loop EXCEPT ![w] = l], l # Alone, life[w] = "running",
         UNCHANGED <<want, life, pass, lock, fresh>>, job' \in Schedules,
         \A v \in Workers \ {w} :
           Taken(v) /\ job[loop[v].product] # 0 => job'[loop[v].product] # 0,
         l.at = "taken" => job'[l.product] # 0,
         l = Dead => multiple \/ errors' > 0
  PROVE  ScheduleInv'
<1>1. /\ loop' \in [Workers -> Loops] /\ loop'[w] = l
      /\ \A v \in Workers \ {w} : loop'[v] = loop[v]
  BY DEF ScheduleInv, ScheduleTypeOK
<1>2. ScheduleTypeOK'
  BY <1>1 DEF ScheduleInv, ScheduleTypeOK, Counted, Up
<1>3. OneHolder' /\ HoldersWork'
  BY StillFaultless DEF ScheduleInv, OneHolder, HoldersWork, Up
<1>4. SchedulesWanted'
  BY DEF ScheduleInv, SchedulesWanted
<1>5. TakenStays'
  BY <1>1, StillFaultless DEF ScheduleInv, TakenStays, Taken
<1>6. StallsOnlyBesideAnother'
  BY <1>1, StillFaultless DEF ScheduleInv, ScheduleTypeOK, StallsOnlyBesideAnother, Counted
<1> QED
  BY <1>2, <1>3, <1>4, <1>5, <1>6 DEF ScheduleInv

LEMMA ScheduleStarts ==
  ASSUME ScheduleInit
  PROVE  ScheduleInv
<1>1. ScheduleTypeOK
  <2>1. Cardinality(lock) <= 1
    BY FewHolders DEF ScheduleInit
  <2> QED
    BY <2>1, ScheduleAssumption
    DEF ScheduleInit, ScheduleTypeOK, Schedules, Loops, Passes, Alone, Idle, Up
<1> QED
  BY <1>1
  DEF ScheduleInit, ScheduleInv, OneHolder, HoldersWork, SchedulesWanted, TakenStays,
      StallsOnlyBesideAnother, Up, Taken, Alone, Idle, Dead

(* A worker starts with the lock, or where it needs none.                   *)
LEMMA StartKeeps ==
  ASSUME ScheduleInv, NEW w \in Workers, Start(w)
  PROVE  ScheduleInv'
<1> DEFINE q == [at |-> "jobs", desired |-> want]
<1>1. /\ UNCHANGED <<multiple, want, job, loop, errors>>
      /\ life' = [life EXCEPT ![w] = "setup"] /\ pass' = [pass EXCEPT ![w] = q]
      /\ fresh' = fresh \cup {w} /\ life[w] = "off"
  BY DEF Start, Up
<1>2. /\ life' \in [Workers -> {"off", "setup", "running"}] /\ life'[w] = "setup"
      /\ \A v \in Workers \ {w} : life'[v] = life[v]
  BY <1>1 DEF ScheduleInv, ScheduleTypeOK
<1>3. /\ pass' \in [Workers -> Passes] /\ pass'[w] = q
      /\ \A v \in Workers \ {w} : pass'[v] = pass[v]
  BY <1>1 DEF ScheduleInv, ScheduleTypeOK, Passes
<1>4. /\ lock' = lock \/ (lock = {} /\ lock' = {w})
      /\ ~multiple => lock = {} /\ lock' = {w}
  BY DEF Start, Acquired, ScheduleInv, ScheduleTypeOK
<1>5. OneHolder'
  BY <1>4 DEF ScheduleInv, OneHolder
<1>6. HoldersWork'
  BY <1>1, <1>2, <1>4 DEF ScheduleInv, HoldersWork, Up
<1>7. ScheduleTypeOK'
  <2>1. Cardinality(lock') <= 1
    BY <1>5, FewHolders DEF OneHolder
  <2>2. lock' \subseteq Workers /\ \A v \in lock' : Up(v)'
    BY <1>2, <1>4 DEF ScheduleInv, ScheduleTypeOK, Up
  <2>3. ASSUME NEW v \in Workers
        PROVE  /\ loop'[v] = Alone <=> life'[v] \in {"off", "setup"}
               /\ pass'[v] # Idle => life'[v] \in {"setup", "running"}
    BY <1>1, <1>2, <1>3 DEF ScheduleInv, ScheduleTypeOK
  <2> QED
    BY <1>1, <1>2, <1>3, <2>1, <2>2, <2>3 DEF ScheduleInv, ScheduleTypeOK
<1>8. SchedulesWanted'
  BY <1>3 DEF ScheduleInv, SchedulesWanted
<1>9. TakenStays' /\ StallsOnlyBesideAnother'
  BY <1>1 DEF ScheduleInv, TakenStays, StallsOnlyBesideAnother, Taken
<1> QED
  BY <1>5, <1>6, <1>7, <1>8, <1>9 DEF ScheduleInv

LEMMA LoseLockKeeps ==
  ASSUME ScheduleInv, NEW w \in Workers, LoseLock(w)
  PROVE  ScheduleInv'
<1>1. /\ UNCHANGED <<multiple, want, job, life, loop, pass, fresh>>
      /\ lock' = {} /\ Counted /\ errors' > 0
  BY FaultCounted DEF LoseLock
<1>2. Cardinality(lock') <= 1
  BY <1>1, FewHolders
<1>3. ScheduleTypeOK'
  BY <1>1, <1>2 DEF ScheduleInv, ScheduleTypeOK, Counted
<1>4. errors' # 0
  BY <1>1 DEF Counted
<1>5. OneHolder' /\ HoldersWork' /\ TakenStays'
  BY <1>1, <1>4 DEF OneHolder, HoldersWork, TakenStays
<1>6. SchedulesWanted' /\ StallsOnlyBesideAnother'
  BY <1>1 DEF ScheduleInv, SchedulesWanted, StallsOnlyBesideAnother
<1> QED
  BY <1>3, <1>5, <1>6 DEF ScheduleInv

(* Steps of other programs, of the clock and of nobody.                     *)
LEMMA OthersKeep ==
  ASSUME ScheduleInv, want' \in Schedules, fresh' \subseteq Workers,
         UNCHANGED <<multiple, job, process, pass, errors>>
  PROVE  ScheduleInv'
<1>1. UNCHANGED <<life, loop, lock>>
  BY DEF process
<1> QED
  BY <1>1
  DEF ScheduleInv, ScheduleTypeOK, OneHolder, HoldersWork, SchedulesWanted, TakenStays,
      StallsOnlyBesideAnother, Up, Taken

LEMMA EndPassKeeps ==
  ASSUME ScheduleInv, NEW w \in Workers, EndPass(w)
  PROVE  ScheduleInv'
<1>1. pass[w].at = "apply" /\ pass' = [pass EXCEPT ![w] = Idle]
      /\ UNCHANGED <<multiple, want, job, lock, fresh, errors>>
  BY DEF EndPass
<1>2. /\ pass' \in [Workers -> Passes] /\ pass'[w] = Idle
      /\ \A v \in Workers \ {w} : pass'[v] = pass[v]
  BY <1>1 DEF ScheduleInv, ScheduleTypeOK, Passes
<1>3. CASE life[w] = "setup"
  <2>1. life' = [life EXCEPT ![w] = "running"] /\ loop' = [loop EXCEPT ![w] = Idle]
    BY <1>3 DEF EndPass
  <2>2. /\ life' \in [Workers -> {"off", "setup", "running"}] /\ loop' \in [Workers -> Loops]
        /\ life'[w] = "running" /\ loop'[w] = Idle
        /\ \A v \in Workers \ {w} : life'[v] = life[v] /\ loop'[v] = loop[v]
    BY <2>1 DEF ScheduleInv, ScheduleTypeOK, Loops
  <2>3. ScheduleTypeOK'
    BY <1>1, <1>2, <1>3, <2>2 DEF ScheduleInv, ScheduleTypeOK, Up, Idle, Alone
  <2>4. OneHolder' /\ HoldersWork'
    BY <1>1, <1>3, <2>2 DEF ScheduleInv, OneHolder, HoldersWork, Up
  <2>5. SchedulesWanted'
    BY <1>2 DEF ScheduleInv, SchedulesWanted, Idle
  <2>6. TakenStays' /\ StallsOnlyBesideAnother'
    BY <1>1, <2>2
    DEF ScheduleInv, TakenStays, StallsOnlyBesideAnother, Taken, Idle, Dead
  <2> QED
    BY <2>3, <2>4, <2>5, <2>6 DEF ScheduleInv
<1>4. CASE life[w] # "setup"
  <2>1. UNCHANGED process
    BY <1>1, <1>4 DEF EndPass, process
  <2>2. Idle \in Passes /\ Idle.at # "apply"
    BY DEF Passes, Idle
  <2> QED
    BY <1>1, <2>1, <2>2, NoFaultCounted, PassKeeps
    DEF ScheduleInv, ScheduleTypeOK, TakenStays
<1> QED
  BY <1>3, <1>4

(* A pass that has read or compared leaves the table as it is.              *)
LEMMA ReadKeeps ==
  ASSUME ScheduleInv, NEW w \in Workers, NEW q \in Passes, Up(w),
         pass' = [pass EXCEPT ![w] = q],
         q.at = "apply" => \A p \in q.todo : q.desired[p] # 0,
         UNCHANGED <<multiple, want, job, process, errors>>, fresh' \subseteq Workers
  PROVE  ScheduleInv'
<1>1. job' \in Schedules
  BY DEF ScheduleInv, ScheduleTypeOK
<1>2. ~multiple /\ errors = 0 => \A v \in Workers : Taken(v) => job'[loop[v].product] # 0
  BY DEF ScheduleInv, TakenStays
<1> QED
  BY <1>1, <1>2, NoFaultCounted, PassKeeps

LEMMA BeginPassKeeps ==
  ASSUME ScheduleInv, NEW w \in Workers, BeginPass(w)
  PROVE  ScheduleInv'
<1> DEFINE q == [at |-> "jobs", desired |-> want]
<1>1. q \in Passes /\ q.at # "apply"
  BY DEF Passes, ScheduleInv, ScheduleTypeOK
<1>2. Up(w) /\ fresh' \subseteq Workers
  BY DEF BeginPass, Scheduling, Up, ScheduleInv, ScheduleTypeOK
<1>3. pass' = [pass EXCEPT ![w] = q] /\ UNCHANGED <<multiple, want, job, process, errors>>
  BY DEF BeginPass
<1> HIDE DEF q
<1> QED
  BY <1>1, <1>2, <1>3, ReadKeeps

LEMMA ReadJobsKeeps ==
  ASSUME ScheduleInv, NEW w \in Workers, ReadJobs(w)
  PROVE  ScheduleInv'
<1> DEFINE desired == pass[w].desired
           q == [at |-> "apply", desired |-> desired, todo |-> ToSchedule(desired),
                 gone |-> {p \in Products : job[p] # 0 /\ desired[p] = 0}, found |-> {}]
<1>1. desired \in Schedules
  BY DEF ReadJobs, ScheduleInv, ScheduleTypeOK, Passes, Idle
<1>2. q \in Passes
  <2> HIDE DEF desired
  <2> QED
    BY <1>1 DEF Passes, ToSchedule
<1>3. \A p \in q.todo : q.desired[p] # 0
  BY DEF ToSchedule
<1>4. Up(w) /\ fresh' \subseteq Workers
  BY DEF ReadJobs, MayUseTable, ScheduleInv, ScheduleTypeOK
<1>5. pass' = [pass EXCEPT ![w] = q] /\ UNCHANGED <<multiple, want, job, process, errors>>
  BY DEF ReadJobs
<1> HIDE DEF q
<1> QED
  BY <1>2, <1>3, <1>4, <1>5, ReadKeeps

(* What a pass that applies its findings consists of.                       *)
LEMMA Applying ==
  ASSUME ScheduleInv, NEW w \in Workers, pass[w].at = "apply"
  PROVE  /\ pass[w] \in [at : {"apply"}, desired : Schedules, todo : SUBSET Products,
                         gone : SUBSET Products, found : SUBSET Products]
         /\ Up(w)
         /\ \A p \in pass[w].todo : pass[w].desired[p] # 0
BY DEF ScheduleInv, ScheduleTypeOK, SchedulesWanted, Passes, Idle, Up

LEMMA ScheduleKeeps ==
  ASSUME ScheduleInv, NEW w \in Workers, NEW p \in Products, Schedule(w, p)
  PROVE  ScheduleInv'
<1> DEFINE q == [pass[w] EXCEPT !.todo = @ \ {p}]
<1>1. pass[w].at = "apply" /\ p \in pass[w].todo /\ job' = [job EXCEPT ![p] = pass[w].desired[p]]
  BY DEF Schedule
<1>2. q \in Passes /\ q.todo \subseteq pass[w].todo /\ q.desired = pass[w].desired
  BY <1>1, Applying DEF Passes
<1>3. job' \in Schedules /\ job'[p] # 0
  BY <1>1, Applying DEF ScheduleInv, ScheduleTypeOK, Schedules
<1>4. \A r \in Products : job[r] # 0 => job'[r] # 0
  BY <1>1, <1>3 DEF ScheduleInv, ScheduleTypeOK, Schedules
<1>5. \A v \in Workers : Taken(v) => loop[v].product \in Products
  BY DEF ScheduleInv, ScheduleTypeOK, Loops, Alone, Idle, Dead, Taken
<1>6. ~multiple /\ errors = 0 => \A v \in Workers : Taken(v) => job'[loop[v].product] # 0
  BY <1>4, <1>5 DEF ScheduleInv, TakenStays
<1>7. fresh' \subseteq Workers /\ UNCHANGED <<multiple, want, process, errors>>
      /\ pass' = [pass EXCEPT ![w] = q]
  BY DEF Schedule, ScheduleInv, ScheduleTypeOK
<1>8. Up(w) /\ \A r \in q.todo : q.desired[r] # 0
  BY <1>1, <1>2, Applying
<1> HIDE DEF q
<1> QED
  BY <1>2, <1>3, <1>6, <1>7, <1>8, NoFaultCounted, PassKeeps

LEMMA LookUpKeeps ==
  ASSUME ScheduleInv, NEW w \in Workers, NEW p \in Products, LookUp(w, p)
  PROVE  ScheduleInv'
<1> DEFINE q == [pass[w] EXCEPT !.found = IF job[p] # 0 THEN {p} ELSE {},
                                !.gone = IF job[p] # 0 THEN @ ELSE @ \ {p}]
<1>1. pass[w].at = "apply"
  BY DEF LookUp
<1>2. q \in Passes /\ q.todo = pass[w].todo /\ q.desired = pass[w].desired
  BY <1>1, Applying DEF Passes
<1>3. pass' = [pass EXCEPT ![w] = q]
  BY <1>1, Applying DEF LookUp, ScheduleInv, ScheduleTypeOK
<1>4. fresh' \subseteq Workers /\ UNCHANGED <<multiple, want, job, process, errors>>
  BY DEF LookUp, ScheduleInv, ScheduleTypeOK
<1>5. Up(w) /\ \A r \in q.todo : q.desired[r] # 0
  BY <1>1, <1>2, Applying
<1> HIDE DEF q
<1> QED
  BY <1>2, <1>3, <1>4, <1>5, ReadKeeps

(* A worker that is alone removes a job only when its own loop has taken    *)
(* none.                                                                    *)
LEMMA RemoveKeeps ==
  ASSUME ScheduleInv, NEW w \in Workers, NEW p \in Products, Remove(w, p)
  PROVE  ScheduleInv'
<1> DEFINE q == [pass[w] EXCEPT !.gone = @ \ {p}, !.found = {}]
<1>1. pass[w].at = "apply" /\ Up(w) /\ ~Taken(w) /\ job' = [job EXCEPT ![p] = 0]
  BY DEF Remove, MayUseTable
<1>2. q \in Passes /\ q.todo = pass[w].todo /\ q.desired = pass[w].desired
  BY <1>1, Applying DEF Passes
<1>3. job' \in Schedules
  BY <1>1 DEF ScheduleInv, ScheduleTypeOK, Schedules
<1>4. ASSUME ~multiple, errors = 0, NEW v \in Workers, Taken(v)
      PROVE  FALSE
  <2>1. Up(v)
    BY <1>4 DEF ScheduleInv, ScheduleTypeOK, Taken, Up, Alone
  <2>2. lock = {v} /\ lock = {w}
    BY <1>1, <1>4, <2>1 DEF ScheduleInv, HoldersWork
  <2> QED
    BY <1>1, <1>4, <2>2
<1>5. pass' = [pass EXCEPT ![w] = q]
  BY <1>1, Applying DEF Remove, ScheduleInv, ScheduleTypeOK
<1>6. fresh' \subseteq Workers /\ UNCHANGED <<multiple, want, process, errors>>
  BY DEF Remove, ScheduleInv, ScheduleTypeOK
<1>7. \A r \in q.todo : q.desired[r] # 0
  BY <1>1, <1>2, Applying
<1> HIDE DEF q
<1> QED
  BY <1>1, <1>2, <1>3, <1>4, <1>5, <1>6, <1>7, NoFaultCounted, PassKeeps

(* A pass an exception ends is over, at setup with the worker.              *)
LEMMA AbandonKeeps ==
  ASSUME ScheduleInv, NEW w \in Workers, Abandon(w), Counted, UNCHANGED <<want, job, fresh>>
  PROVE  ScheduleInv'
<1>1. fresh' \subseteq Workers
  BY DEF ScheduleInv, ScheduleTypeOK
<1>2. CASE life[w] = "setup"
  BY <1>1, <1>2, ExitKeeps DEF Abandon
<1>3. CASE life[w] # "setup"
  <2>1. pass' = [pass EXCEPT ![w] = Idle] /\ UNCHANGED process
    BY <1>3 DEF Abandon
  <2>2. Idle \in Passes /\ Idle.at # "apply" /\ job' \in Schedules
    BY DEF Passes, Idle, ScheduleInv, ScheduleTypeOK
  <2>3. ~multiple /\ errors = 0 => \A v \in Workers : Taken(v) => job'[loop[v].product] # 0
    BY DEF ScheduleInv, TakenStays
  <2> QED
    BY <1>1, <2>1, <2>2, <2>3, PassKeeps
<1> QED
  BY <1>2, <1>3

-----------------------------------------------------------------------------
LEMMA FireKeeps ==
  ASSUME ScheduleInv, NEW w \in Workers, NEW p \in Products, Fire(w, p)
  PROVE  ScheduleInv'
<1> DEFINE l == [at |-> "taken", product |-> p, interval |-> job[p]]
<1>1. l \in Loops /\ l.at = "taken" /\ l.product = p /\ l # Alone /\ l # Dead
  BY DEF Fire, ScheduleInv, ScheduleTypeOK, Schedules, Loops, Alone, Dead
<1>2. /\ loop' = [loop EXCEPT ![w] = l] /\ life[w] = "running" /\ job' = job /\ job'[p] # 0
      /\ UNCHANGED <<multiple, want, life, pass, lock, fresh, errors>>
  BY DEF Fire
<1>3. job' \in Schedules
  BY <1>2 DEF ScheduleInv, ScheduleTypeOK
<1> HIDE DEF l
<1> QED
  BY <1>1, <1>2, <1>3, NoFaultCounted, LoopKeeps

LEMMA AdvanceKeeps ==
  ASSUME ScheduleInv, NEW w \in Workers, Advance(w)
  PROVE  ScheduleInv'
<1>1. /\ loop[w] \in [at : {"taken"}, product : Products, interval : Intervals]
      /\ life[w] = "running"
  BY DEF Advance, Taken, ScheduleInv, ScheduleTypeOK, Loops, Alone, Idle, Dead
<1>2. job' \in Schedules /\ \A r \in Products : job[r] # 0 => job'[r] # 0
  BY <1>1, ScheduleAssumption DEF Advance, ScheduleInv, ScheduleTypeOK, Schedules
<1>3. Idle \in Loops /\ Idle.at # "taken" /\ Idle # Alone /\ Idle # Dead
  BY DEF Idle, Alone, Dead, Loops
<1>4. /\ loop' = [loop EXCEPT ![w] = Idle]
      /\ UNCHANGED <<multiple, want, life, pass, lock, fresh, errors>>
  BY DEF Advance
<1>5. \A v \in Workers : Taken(v) => loop[v].product \in Products
  BY DEF ScheduleInv, ScheduleTypeOK, Loops, Alone, Idle, Dead, Taken
<1>6. \A v \in Workers \ {w} :
        Taken(v) /\ job[loop[v].product] # 0 => job'[loop[v].product] # 0
  BY <1>2, <1>5
<1> QED
  BY <1>1, <1>2, <1>3, <1>4, <1>6, NoFaultCounted, LoopKeeps

(* Without a fault the row is gone, and only another worker can have taken  *)
(* it away.                                                                 *)
LEMMA StallKeeps ==
  ASSUME ScheduleInv, NEW w \in Workers, Stall(w)
  PROVE  ScheduleInv'
<1>1. /\ Taken(w) /\ loop' = [loop EXCEPT ![w] = Dead]
      /\ UNCHANGED <<multiple, want, job, life, pass, lock, fresh>>
  BY DEF Stall
<1>2. life[w] = "running" /\ job' \in Schedules
  BY <1>1 DEF Taken, ScheduleInv, ScheduleTypeOK, Alone
<1>3. Counted /\ (multiple \/ errors' > 0)
  <2>1. CASE Fault
    BY <1>1, <2>1, FaultCounted
  <2>2. CASE job[loop[w].product] = 0 /\ UNCHANGED errors
    <3>1. multiple \/ errors # 0
      BY <1>1, <2>2 DEF ScheduleInv, TakenStays
    <3> QED
      BY <1>1, <2>2, <3>1, NoFaultCounted, ScheduleAssumption DEF ScheduleInv, ScheduleTypeOK
  <2> QED
    BY <2>1, <2>2 DEF Stall
<1>4. Dead \in Loops /\ Dead.at # "taken" /\ Dead # Alone
  BY DEF Dead, Alone, Loops
<1> QED
  BY <1>1, <1>2, <1>3, <1>4, LoopKeeps

-----------------------------------------------------------------------------
LEMMA ScheduleSteps ==
  ASSUME ScheduleInv, [ScheduleNext]_scheduleVars
  PROVE  ScheduleInv'
<1>1. want \in Schedules /\ fresh \subseteq Workers
  BY DEF ScheduleInv, ScheduleTypeOK
<1>2. ASSUME NEW p \in Products, NEW i \in Intervals \cup {0}, Edit(p, i)
      PROVE  ScheduleInv'
  <2>1. want' \in Schedules /\ fresh' \subseteq Workers
    BY <1>1, <1>2 DEF Edit, Schedules
  <2> QED
    BY <1>2, <2>1, OthersKeep DEF Edit
<1>3. ASSUME NEW w \in Workers, Age(w) PROVE ScheduleInv'
  BY <1>1, <1>3, OthersKeep DEF Age
<1>4. ASSUME NEW w \in Workers, Stop(w) \/ Kill(w) PROVE ScheduleInv'
  BY <1>1, <1>4, NoFaultCounted, ExitKeeps DEF Stop, Kill
<1>5. ASSUME NEW w \in Workers, PassFails(w) PROVE ScheduleInv'
  BY <1>5, FaultCounted, AbandonKeeps DEF PassFails
<1>6. ASSUME NEW w \in Workers, NEW p \in Products, RemoveTooLate(w, p) PROVE ScheduleInv'
  BY <1>6, NoFaultCounted, AbandonKeeps DEF RemoveTooLate
<1>7. ASSUME NEW w \in Workers, Start(w) \/ LoseLock(w) \/ BeginPass(w) PROVE ScheduleInv'
  BY <1>7, StartKeeps, LoseLockKeeps, BeginPassKeeps
<1>8. ASSUME NEW w \in Workers, PassStep(w) PROVE ScheduleInv'
  BY <1>6, <1>8, ReadJobsKeeps, EndPassKeeps, ScheduleKeeps, LookUpKeeps, RemoveKeeps
     DEF PassStep
<1>9. ASSUME NEW w \in Workers, Advance(w) \/ Stall(w) PROVE ScheduleInv'
  BY <1>9, AdvanceKeeps, StallKeeps
<1>10. CASE UNCHANGED scheduleVars
  <2>1. UNCHANGED <<multiple, job, process, pass, errors, want, fresh>>
    BY <1>10 DEF scheduleVars, process
  <2> QED
    BY <1>1, <2>1, OthersKeep
<1> QED
  BY <1>2, <1>3, <1>4, <1>5, <1>7, <1>8, <1>9, <1>10, FireKeeps DEF ScheduleNext

LEMMA ScheduleInvariant == ScheduleSpec => []ScheduleInv
<1>1. ScheduleInit => ScheduleInv
  BY ScheduleStarts
<1>2. ScheduleInv /\ [ScheduleNext]_scheduleVars => ScheduleInv'
  BY ScheduleSteps
<1> QED
  BY <1>1, <1>2, PTL DEF ScheduleSpec

(* The variables of the schedule have their types in every reachable state: *)
(* at most one session holds the lock, a loop runs only in a worker that    *)
(* has been set up, and a pass only in one that is up.                      *)
THEOREM ScheduleTypeCorrect == ScheduleSpec => []ScheduleTypeOK
<1>1. ScheduleInv => ScheduleTypeOK
  BY DEF ScheduleInv
<1> QED
  BY <1>1, ScheduleInvariant, PTL

(* A scheduler loop that writes a taken job back always finds its row, with *)
(* any number of processes and products, unless several workers are allowed *)
(* or something has failed: so nothing else ends its thread.                *)
THEOREM LoopsDieOfACause == ScheduleSpec => []StallsOnlyBesideAnother
<1>1. ScheduleInv => StallsOnlyBesideAnother
  BY DEF ScheduleInv
<1> QED
  BY <1>1, ScheduleInvariant, PTL

(* Two workers are never up together (lock.py:1-14).                        *)
LockExcludes ==
  ~multiple /\ errors = 0 => \A v, w \in Workers : Up(v) /\ Up(w) => v = w

(* The advisory lock does what it is for, while its connection lives.       *)
THEOREM OnlyOneWorker == ScheduleSpec => []LockExcludes
<1>1. ScheduleInv => LockExcludes
  <2> SUFFICES ASSUME ScheduleInv, ~multiple, errors = 0, NEW v \in Workers, NEW w \in Workers,
                      Up(v), Up(w)
               PROVE  v = w
    BY DEF LockExcludes
  <2>1. lock = {v} /\ lock = {w}
    BY DEF ScheduleInv, HoldersWork
  <2> QED
    BY <2>1
<1> QED
  BY <1>1, ScheduleInvariant, PTL

=============================================================================
