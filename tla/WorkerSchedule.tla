--------------------------- MODULE WorkerSchedule ---------------------------
(***************************************************************************)
(* Worker processes and the job table they share: the advisory lock, the   *)
(* start and the stop of a worker, the reconcile pass that makes the table *)
(* follow the products, the scheduler's own loop, and the heartbeat other  *)
(* processes read (scheduler/runner.py, jobqueue.py, apscheduler_queue.py, *)
(* lock.py, heartbeat.py).                                                 *)
(*                                                                         *)
(* Every statement on the table commits by itself.  Inside one process the *)
(* loop and a pass exclude each other (the scheduler's own lock); nothing  *)
(* keeps the processes apart.  What a check does is CheckClaims' subject:  *)
(* here a job that is taken has been fired.                                *)
(***************************************************************************)
EXTENDS Integers, FiniteSets

CONSTANTS
  Products,
  Workers,     \* processes
  Intervals,   \* check intervals, positive
  MaxErrors    \* bound on database errors and lost lock connections

ASSUME ScheduleAssumption ==
  /\ Intervals \subseteq Nat \ {0}
  /\ MaxErrors \in Nat

VARIABLES
  multiple, \* ALLOW_MULTIPLE_WORKERS
  want,     \* interval of a product that should be checked, 0 for none
  job,      \* interval of a product's row in the job table, 0 without one
  life,     \* a worker: off, setup or running
  loop,     \* its scheduler thread: none, idle, dead, or the job it has taken
  pass,     \* its reconcile pass
  lock,     \* workers whose session holds the advisory lock
  fresh,    \* workers whose heartbeat row is not older than stale_after
  errors    \* faults so far (history)

scheduleVars == <<multiple, want, job, life, loop, pass, lock, fresh, errors>>
process == <<life, loop, lock>>

Idle == [at |-> "idle"]
Alone == [at |-> "none"]
Dead == [at |-> "dead"]

Up(w) == life[w] # "off"
Taken(w) == loop[w].at = "taken"
Scheduling(w) == life[w] = "running" /\ loop[w].at \in {"idle", "taken"}

(* WorkerLiveness.running                                                   *)
ReadsRunning == fresh # {}

Schedules == [Products -> Intervals \cup {0}]

Loops == {Alone, Idle, Dead} \cup [at : {"taken"}, product : Products, interval : Intervals]

(* A pass is none, has read the products, or applies what it found.         *)
Passes == {Idle} \cup [at : {"jobs"}, desired : Schedules]
                \cup [at : {"apply"}, desired : Schedules, todo : SUBSET Products,
                      gone : SUBSET Products, found : SUBSET Products]

ScheduleTypeOK ==
  /\ multiple \in BOOLEAN
  /\ want \in Schedules /\ job \in Schedules
  /\ life \in [Workers -> {"off", "setup", "running"}]
  /\ loop \in [Workers -> Loops]
  /\ pass \in [Workers -> Passes]
  /\ fresh \subseteq Workers
  /\ lock \subseteq Workers /\ Cardinality(lock) <= 1
  /\ errors \in 0 .. MaxErrors
  /\ \A w \in Workers :
       /\ loop[w] = Alone <=> life[w] \in {"off", "setup"}
       /\ pass[w] # Idle => life[w] \in {"setup", "running"}
       /\ w \in lock => Up(w)

ScheduleInit ==
  /\ multiple \in BOOLEAN
  /\ want = [p \in Products |-> 0]
  /\ job = [p \in Products |-> 0]
  /\ life = [w \in Workers |-> "off"]
  /\ loop = [w \in Workers |-> Alone]
  /\ pass = [w \in Workers |-> Idle]
  /\ lock = {}
  /\ fresh = {}
  /\ errors = 0

Fault == errors < MaxErrors /\ errors' = errors + 1

-----------------------------------------------------------------------------
(* Products are added, paused, resumed, removed and given other intervals   *)
(* by processes that never talk to a worker.                                *)
Edit(p, i) ==
  /\ want[p] # i
  /\ want' = [want EXCEPT ![p] = i]
  /\ UNCHANGED <<multiple, job, process, pass, fresh, errors>>

-----------------------------------------------------------------------------
(* The life of a worker                                                     *)

Acquired(w) == lock = {} /\ lock' = {w}

(* run(): the lock unless several workers are allowed, then setup(), with   *)
(* the scheduler paused.  A worker that does not get the lock exits.        *)
Start(w) ==
  /\ ~Up(w)
  /\ IF multiple THEN UNCHANGED lock ELSE Acquired(w)
  /\ life' = [life EXCEPT ![w] = "setup"]
  /\ pass' = [pass EXCEPT ![w] = [at |-> "jobs", desired |-> want]]
  /\ fresh' = fresh \cup {w}
  /\ UNCHANGED <<multiple, want, job, loop, errors>>

Exit(w) ==
  /\ life' = [life EXCEPT ![w] = "off"]
  /\ loop' = [loop EXCEPT ![w] = Alone]
  /\ pass' = [pass EXCEPT ![w] = Idle]
  /\ lock' = lock \ {w}

(* A signal: once the loop has let go of the table and the running checks   *)
(* are done, stop() clears the heartbeat, or logs that it could not, and    *)
(* the lock is released.  What is left of a pass meets a stopped scheduler. *)
Stop(w) ==
  /\ life[w] = "running" /\ ~Taken(w)
  /\ fresh' \in {fresh, fresh \ {w}}
  /\ Exit(w)
  /\ UNCHANGED <<multiple, want, job, errors>>

(* The process is killed: its lock goes with its connection.                *)
Kill(w) ==
  /\ Up(w)
  /\ Exit(w)
  /\ UNCHANGED <<multiple, want, job, fresh, errors>>

(* The lock's connection is lost while the worker goes on.                  *)
LoseLock(w) ==
  /\ w \in lock
  /\ lock' = {}
  /\ Fault
  /\ UNCHANGED <<multiple, want, job, life, loop, pass, fresh>>

-----------------------------------------------------------------------------
(* A reconcile pass                                                         *)

(* Mutant: the scheduler's own lock is not taken.                           *)
MayUseTableUnlocked(w) == Up(w)

(* Only this process's own loop is kept out while a statement runs.         *)
MayUseTable(w) == Up(w) /\ ~Taken(w)

(* _reconcile_job, fired by the loop.  _beat touches the own row, or fails  *)
(* and is ignored; then the products are read.                              *)
BeginPass(w) ==
  /\ Scheduling(w) /\ pass[w] = Idle
  /\ pass' = [pass EXCEPT ![w] = [at |-> "jobs", desired |-> want]]
  /\ fresh' \in {fresh, fresh \cup {w}}
  /\ UNCHANGED <<multiple, want, job, process, errors>>

(* Mutant: only products without a job are scheduled.                       *)
ToScheduleMissing(desired) == {p \in Products : desired[p] # 0 /\ job[p] = 0}

ToSchedule(desired) == {p \in Products : desired[p] # 0 /\ job[p] # desired[p]}

(* scheduled_products, and what the comparison leaves to be done            *)
ReadJobs(w) ==
  /\ pass[w].at = "jobs" /\ MayUseTable(w)
  /\ LET desired == pass[w].desired
     IN pass' = [pass EXCEPT ![w] =
          [at |-> "apply", desired |-> desired, todo |-> ToSchedule(desired),
           gone |-> {p \in Products : job[p] # 0 /\ desired[p] = 0}, found |-> {}]]
  /\ UNCHANGED <<multiple, want, job, process, fresh, errors>>

(* schedule_product: inserted or replaced, first run a little later         *)
Schedule(w, p) ==
  /\ pass[w].at = "apply" /\ p \in pass[w].todo /\ MayUseTable(w)
  /\ job' = [job EXCEPT ![p] = pass[w].desired[p]]
  /\ pass' = [pass EXCEPT ![w].todo = @ \ {p}]
  /\ UNCHANGED <<multiple, want, process, fresh, errors>>

(* unschedule_product looks for the job before it removes it.               *)
LookUp(w, p) ==
  /\ pass[w].at = "apply" /\ pass[w].todo = {} /\ MayUseTable(w)
  /\ p \in pass[w].gone \ pass[w].found
  /\ pass' = [pass EXCEPT ![w].found = IF job[p] # 0 THEN {p} ELSE {},
                          ![w].gone = IF job[p] # 0 THEN @ ELSE @ \ {p}]
  /\ pass[w].found = {}
  /\ UNCHANGED <<multiple, want, job, process, fresh, errors>>

Remove(w, p) ==
  /\ pass[w].at = "apply" /\ p \in pass[w].found /\ MayUseTable(w)
  /\ job[p] # 0
  /\ job' = [job EXCEPT ![p] = 0]
  /\ pass' = [pass EXCEPT ![w].gone = @ \ {p}, ![w].found = {}]
  /\ UNCHANGED <<multiple, want, process, fresh, errors>>

EndPass(w) ==
  /\ pass[w].at = "apply" /\ pass[w].todo = {} /\ pass[w].gone = {}
  /\ pass' = [pass EXCEPT ![w] = Idle]
  /\ IF life[w] = "setup"
     THEN /\ life' = [life EXCEPT ![w] = "running"]
          /\ loop' = [loop EXCEPT ![w] = Idle]
     ELSE UNCHANGED <<life, loop>>
  /\ UNCHANGED <<multiple, want, job, lock, fresh, errors>>

(* An exception ends the pass: of the periodic one it is logged, at setup   *)
(* it ends the worker, without stop().                                      *)
Abandon(w) ==
  IF life[w] = "setup" THEN Exit(w)
  ELSE pass' = [pass EXCEPT ![w] = Idle] /\ UNCHANGED process

(* The job was found and is gone when it is removed: somebody else's pass.  *)
RemoveTooLate(w, p) ==
  /\ pass[w].at = "apply" /\ p \in pass[w].found /\ MayUseTable(w)
  /\ job[p] = 0
  /\ Abandon(w)
  /\ UNCHANGED <<multiple, want, job, fresh, errors>>

PassFails(w) ==
  /\ pass[w] # Idle
  /\ Fault /\ Abandon(w)
  /\ UNCHANGED <<multiple, want, job, fresh>>

-----------------------------------------------------------------------------
(* The scheduler's loop                                                     *)

(* A job that has come due is loaded and submitted; its next run time is    *)
(* then written back, with everything else the row held when it was loaded. *)
Fire(w, p) ==
  /\ life[w] = "running" /\ loop[w] = Idle /\ job[p] # 0
  /\ loop' = [loop EXCEPT ![w] = [at |-> "taken", product |-> p, interval |-> job[p]]]
  /\ UNCHANGED <<multiple, want, job, life, pass, lock, fresh, errors>>

Advance(w) ==
  /\ Taken(w)
  /\ job[loop[w].product] # 0
  /\ job' = [job EXCEPT ![loop[w].product] = loop[w].interval]
  /\ loop' = [loop EXCEPT ![w] = Idle]
  /\ UNCHANGED <<multiple, want, life, pass, lock, fresh, errors>>

(* The row is gone, or the database fails: the exception ends the thread,   *)
(* and the process waits on for a signal.                                   *)
Stall(w) ==
  /\ Taken(w)
  /\ \/ job[loop[w].product] = 0 /\ UNCHANGED errors
     \/ Fault
  /\ loop' = [loop EXCEPT ![w] = Dead]
  /\ UNCHANGED <<multiple, want, job, life, pass, lock, fresh>>

(* Mutant: a thread of its own touches the row while the process lives.     *)
AgeOfGone(w) ==
  /\ w \in fresh /\ ~Up(w)
  /\ fresh' = fresh \ {w}
  /\ UNCHANGED <<multiple, want, job, process, pass, errors>>

(* A heartbeat row that is not touched goes stale; so it does when checks   *)
(* keep every thread, and the reconcile job waits.                          *)
Age(w) ==
  /\ w \in fresh
  /\ fresh' = fresh \ {w}
  /\ UNCHANGED <<multiple, want, job, process, pass, errors>>

PassStep(w) ==
  \/ ReadJobs(w) \/ EndPass(w)
  \/ \E p \in Products : Schedule(w, p) \/ LookUp(w, p) \/ Remove(w, p) \/ RemoveTooLate(w, p)

ScheduleNext ==
  \/ \E p \in Products, i \in Intervals \cup {0} : Edit(p, i)
  \/ \E w \in Workers :
       \/ Start(w) \/ Stop(w) \/ Kill(w) \/ LoseLock(w) \/ Age(w)
       \/ BeginPass(w) \/ PassStep(w) \/ PassFails(w)
       \/ Advance(w) \/ Stall(w)
       \/ \E p \in Products : Fire(w, p)

(* Time passes and threads run.  The reconcile job is a row of the table    *)
(* like the others: whichever worker's loop comes first takes it.           *)
ScheduleFairness ==
  /\ \A p \in Products : WF_scheduleVars(\E w \in Workers : Fire(w, p))
  /\ WF_scheduleVars(\E w \in Workers : BeginPass(w))
  /\ \A w \in Workers : /\ SF_scheduleVars(PassStep(w))
                        /\ WF_scheduleVars(Advance(w) \/ Stall(w))
                        /\ WF_scheduleVars(Age(w))

ScheduleSpec == ScheduleInit /\ [][ScheduleNext]_scheduleVars /\ ScheduleFairness

-----------------------------------------------------------------------------
(* Properties                                                               *)

(* A worker's scheduler thread dies only of a database error, or where       *)
(* another worker may remove a job it is about to write back.               *)
StallsOnlyBesideAnother ==
  \A w \in Workers : loop[w] = Dead => multiple \/ errors > 0

Settled ==
  /\ \A w \in Workers : life[w] \in {"off", "running"}
  /\ \E w \in Workers : Scheduling(w)

(* Beside another worker an interval may be lost to a stale write, as often *)
(* as it is corrected.                                                      *)
Agrees(p, i) ==
  IF \E v, w \in Workers : v # w /\ Up(v) /\ Up(w) THEN job[p] = 0 <=> i = 0 ELSE job[p] = i

(* Once the workers settle and some loop runs on, the job table comes to    *)
(* agree with a product that is no longer edited, and a product to be       *)
(* checked is fired again and again, whatever passes and loops overwrite    *)
(* (runner.py:3-6, "a periodic reconcile is what closes that gap").         *)
FollowsProducts ==
  \A p \in Products, i \in Intervals \cup {0} :
    (<>[](want[p] = i) /\ <>[]Settled) =>
      /\ <>[]Agrees(p, i)
      /\ i # 0 => []<>(\E w \in Workers : Taken(w) /\ loop[w].product = p)

(* When no loop runs any more, crashed, stalled or stopped, the heartbeats  *)
(* come to say so (heartbeat.py:3-6).                                       *)
ReadsStopped ==
  (\A w \in Workers : ~Scheduling(w)) ~>
     (~ReadsRunning \/ \E w \in Workers : Scheduling(w) \/ life[w] = "setup")
=============================================================================
