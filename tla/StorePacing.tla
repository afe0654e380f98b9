---------------------------- MODULE StorePacing ----------------------------
(***************************************************************************)
(* The shared guard of one host (SharedStoreGuard in                       *)
(* scheduler/throttle.py) and its callers: the scheduled checks            *)
(* (TrackingEngine.check_product) and the searches (_guarded in            *)
(* services/discovery.py).  Callers are threads of several processes that  *)
(* share only the host's row of store_pacing.                              *)
(*                                                                         *)
(* A caller claims a slot in one short transaction, sleeps until it, sends *)
(* its request, and reports the outcome in a second transaction.  In       *)
(* PostgreSQL now() is the time a transaction began; a transaction that    *)
(* waits for the row's lock decides with a clock that is behind by up to   *)
(* LockWait.                                                               *)
(*                                                                         *)
(* Times are kept relative to the present: nextIn is next_allowed_at - now *)
(* and openIn is open_until - now, in units that are all constants.        *)
(***************************************************************************)
EXTENDS Integers, FiniteSets

CONSTANTS
  Caller,            \* threads that may ask for the host
  MinInterval,       \* STORE_MIN_INTERVAL_SECONDS
  Jitter,            \* FETCH_JITTER_SECONDS: a gap is longer by up to this
  FailureThreshold,  \* STORE_FAILURE_THRESHOLD
  Reset,             \* STORE_CIRCUIT_RESET_SECONDS
  MaxWait,           \* STORE_MAX_WAIT_SECONDS
  LockWait,          \* longest wait of a transaction for the row
  MaxFaults          \* bound on callers that die or lose the database

ASSUME PacingAssumption ==
  /\ MinInterval \in Nat /\ Jitter \in Nat /\ MaxWait \in Nat /\ LockWait \in Nat
  /\ FailureThreshold \in Nat \ {0}
  /\ Reset \in Nat /\ LockWait < Reset
  /\ MaxFaults \in Nat

VARIABLES
  nextIn,     \* next_allowed_at; how far it lies in the past matters up to LockWait
  openIn,     \* open_until, or NotOpen
  failures,   \* consecutive_failures, counted up to the threshold
  pc,         \* where each caller is
  timer,      \* age of a caller's transaction, or what is left of its sleep
  succeeded,  \* the outcome a caller reports
  since,      \* history: time since the last request sent, up to MinInterval
  faults      \* callers that died so far

vars == <<nextIn, openIn, failures, pc, timer, succeeded, since, faults>>

NotOpen == -LockWait - 1

TypeOK ==
  /\ nextIn \in -LockWait .. MaxWait + MinInterval + Jitter
  /\ openIn \in NotOpen .. Reset
  /\ failures \in 0 .. FailureThreshold
  /\ pc \in [Caller -> {"idle", "claiming", "sleeping", "fetching", "reporting"}]
  /\ timer \in [Caller -> Nat]
  /\ \A c \in Caller :
       /\ pc[c] = "sleeping" => timer[c] <= MaxWait
       /\ pc[c] \in {"claiming", "reporting"} => timer[c] <= LockWait
       /\ pc[c] \in {"idle", "fetching"} => timer[c] = 0
  /\ succeeded \in [Caller -> BOOLEAN]
  /\ since \in 0 .. MinInterval
  /\ faults \in 0 .. MaxFaults

Init ==
  /\ nextIn = -LockWait
  /\ openIn = NotOpen
  /\ failures = 0
  /\ pc = [c \in Caller |-> "idle"]
  /\ timer = [c \in Caller |-> 0]
  /\ succeeded = [c \in Caller |-> FALSE]
  /\ since = MinInterval
  /\ faults = 0

Larger(a, b) == IF a > b THEN a ELSE b
Smaller(a, b) == IF a < b THEN a ELSE b

Move(c, where, time) ==
  /\ pc' = [pc EXCEPT ![c] = where]
  /\ timer' = [timer EXCEPT ![c] = time]

-----------------------------------------------------------------------------
(* before(): the transaction of _claim, then the sleep.  It reads the clock *)
(* it began with, timer[c] ago.                                             *)

Ask(c) ==
  /\ pc[c] = "idle"
  /\ Move(c, "claiming", 0)
  /\ UNCHANGED <<nextIn, openIn, failures, succeeded, since, faults>>

(* Mutant: an open circuit never half-opens.                                *)
OpenForGood(age) == openIn # NotOpen

(* now < open_until                                                         *)
Open(age) == openIn > -age

WaitFor(age) == Larger(0, nextIn + age)

(* Mutant: nobody is refused for a long queue.                              *)
AnyQueue(age) == TRUE

(* Mutant: the queue is measured with a fresh clock, the sleep with the one *)
(* of the transaction.                                                      *)
FreshQueue(age) == nextIn <= MaxWait

WorthQueueing(age) == WaitFor(age) <= MaxWait

(* Mutant: the next slot is counted from now, not from the queue's end.     *)
SlotFromNow(age, gap) == gap - age

(* greatest(now(), next_allowed_at) + gap                                   *)
NextSlot(age, gap) == Larger(-age, nextIn) + gap

RefusedOpen(c) ==
  /\ pc[c] = "claiming"
  /\ Open(timer[c])
  /\ Move(c, "idle", 0)
  /\ UNCHANGED <<nextIn, openIn, failures, succeeded, since, faults>>

(* A queue too long; an elapsed circuit has been cleared by then.           *)
RefusedBusy(c) ==
  /\ pc[c] = "claiming"
  /\ ~Open(timer[c])
  /\ ~WorthQueueing(timer[c])
  /\ openIn' = NotOpen
  /\ Move(c, "idle", 0)
  /\ UNCHANGED <<nextIn, failures, succeeded, since, faults>>

(* A circuit that has elapsed is cleared: it is half-open, and nothing keeps *)
(* the next callers from being granted a slot before this one reports.      *)
Granted(c) ==
  /\ pc[c] = "claiming"
  /\ ~Open(timer[c])
  /\ WorthQueueing(timer[c])
  /\ openIn' = NotOpen
  /\ \E jitter \in 0 .. Jitter : nextIn' = NextSlot(timer[c], MinInterval + jitter)
  /\ Move(c, "sleeping", WaitFor(timer[c]))
  /\ UNCHANGED <<failures, succeeded, since, faults>>

(* The sleep is over and the request goes out.                              *)
Send(c) ==
  /\ pc[c] = "sleeping"
  /\ timer[c] = 0
  /\ Move(c, "fetching", 0)
  /\ since' = 0
  /\ UNCHANGED <<nextIn, openIn, failures, succeeded, faults>>

-----------------------------------------------------------------------------
(* after(), a transaction of its own; it is called once the request, with   *)
(* its retries, is over.                                                    *)

Answered(c) ==
  /\ pc[c] = "fetching"
  /\ Move(c, "reporting", 0)
  /\ \E outcome \in BOOLEAN : succeeded' = [succeeded EXCEPT ![c] = outcome]
  /\ UNCHANGED <<nextIn, openIn, failures, since, faults>>

(* A search that was not the host's fault is not reported                   *)
(* (_NOT_THE_HOSTS_FAULT).                                                  *)
Declined(c) ==
  /\ pc[c] = "fetching"
  /\ Move(c, "idle", 0)
  /\ UNCHANGED <<nextIn, openIn, failures, succeeded, since, faults>>

Reported(c) ==
  /\ pc[c] = "reporting"
  /\ Move(c, "idle", 0)
  /\ succeeded' = [succeeded EXCEPT ![c] = FALSE]
  /\ UNCHANGED <<nextIn, since, faults>>

ReportSuccess(c) ==
  /\ succeeded[c]
  /\ Reported(c)
  /\ failures' = 0
  /\ openIn' = NotOpen

ReportFailure(c) ==
  /\ ~succeeded[c]
  /\ Reported(c)
  /\ failures' = Smaller(failures + 1, FailureThreshold)
  /\ openIn' = IF failures + 1 >= FailureThreshold THEN Reset - timer[c] ELSE openIn

-----------------------------------------------------------------------------
(* The caller's process dies, or the guard's database call fails: nothing   *)
(* is reported.                                                             *)
Crash(c) ==
  /\ pc[c] # "idle"
  /\ faults < MaxFaults
  /\ faults' = faults + 1
  /\ Move(c, "idle", 0)
  /\ succeeded' = [succeeded EXCEPT ![c] = FALSE]
  /\ UNCHANGED <<nextIn, openIn, failures, since>>

(* A unit of time passes.  A sleeper wakes on time, and a transaction waits *)
(* for the row no longer than LockWait.                                     *)
Tick ==
  /\ \A c \in Caller :
       /\ pc[c] = "sleeping" => timer[c] > 0
       /\ pc[c] \in {"claiming", "reporting"} => timer[c] < LockWait
  /\ timer' = [c \in Caller |->
       IF pc[c] = "sleeping" THEN timer[c] - 1
       ELSE IF pc[c] \in {"claiming", "reporting"} THEN timer[c] + 1
       ELSE timer[c]]
  /\ nextIn' = Larger(-LockWait, nextIn - 1)
  /\ openIn' = IF openIn = NotOpen THEN NotOpen ELSE Larger(-LockWait, openIn - 1)
  /\ since' = Smaller(since + 1, MinInterval)
  /\ UNCHANGED <<failures, pc, succeeded, faults>>

Steps(c) ==
  \/ RefusedOpen(c) \/ RefusedBusy(c) \/ Granted(c)
  \/ Send(c)
  \/ Answered(c) \/ Declined(c) \/ ReportSuccess(c) \/ ReportFailure(c)

Next ==
  \/ \E c \in Caller : Ask(c) \/ Steps(c) \/ Crash(c)
  \/ Tick

Spec == Init /\ [][Next]_vars

(* A caller that has begun goes on, time passes, and there is always some   *)
(* caller that asks again: the host's products are due every few minutes.   *)
Fairness ==
  /\ \A c \in Caller : WF_vars(Steps(c)) /\ WF_vars(Ask(c))
  /\ WF_vars(Tick)

FairSpec == Spec /\ Fairness

-----------------------------------------------------------------------------
(* Properties.                                                              *)

(* However many processes ask at once, two requests the guard lets through  *)
(* are MinInterval apart, less only what a transaction waited for the row.  *)
RequestsPaced ==
  [][\A c \in Caller :
       pc[c] = "sleeping" /\ pc'[c] = "fetching" => since >= MinInterval - LockWait]_vars

(* Once the circuit opens, the host is soon left alone: those still waiting *)
(* are the ones granted before, and their sleep ends within MaxWait of the  *)
(* opening (and of the lock the report waited for).                         *)
QuietSoonAfterOpening ==
  openIn > 0 =>
    \A c \in Caller :
      pc[c] = "sleeping" => timer[c] + (Reset - openIn) <= MaxWait + LockWait

(* An open circuit ends: as long as somebody asks, the host is tried again  *)
(* and again, whatever failures, late reports and dead callers there are.   *)
HostTriedAgain == []<>(since = 0)

=============================================================================
