-------------------------- MODULE RateLimitProofs --------------------------
(* What holds of RateLimit for any processes, rates, costs, bursts, lags    *)
(* and faults: all processes together are one token bucket, and Retry-After *)
(* is kept.                                                                 *)
EXTENDS RateLimit, TLAPS

(* What a version of the row is worth now.                                  *)
Worth(v) == IF v = None THEN Full ELSE AtMost(Full, v.credit + v.age * Rate)

Stage == {"idle", "insert", "spend", "look", "gone", "other", "allowed", "refused",
          "forgotten", "swept"}

Shapes ==
  /\ call \in [Procs -> [at : Stage, lag : 0 .. MaxLag]]
  /\ promise \in [Procs -> NoPromise .. Cost + MaxLag * Rate + 1]
  /\ \A p \in Procs : call[p].at = "idle" => call[p] = Idle

(* A version that spends a token p may have: at p's clock there was one, and*)
(* what is left refills by p's lag and no more.                             *)
Spent(p) ==
  /\ row # None /\ row.age = call[p].lag
  /\ row.credit + Cost <= Tokens
  /\ Tokens <= row.credit + Cost + row.age * Rate
  /\ Worth(row) <= Tokens

(* Who holds the row has inserted it, spent from it, or swept it away.      *)
HeldFor ==
  held # Free =>
    \/ /\ call[held.by].at = "spend"
       /\ held.was = None /\ row = [credit |-> Full, age |-> call[held.by].lag]
    \/ call[held.by].at = "allowed" /\ Spent(held.by)
    \/ call[held.by].at = "swept" /\ row = None /\ Tokens = Full

(* A refusal was right by the clock of the call.                            *)
Refusing ==
  \A p \in Procs :
    call[p].at \in {"look", "refused"} => Tokens < Cost + call[p].lag * Rate

Unanswered ==
  \A p \in Procs :
    call[p].at \in {"insert", "spend", "look", "gone", "allowed", "refused", "forgotten"} =>
      reply[p] = "none"

(* By the end of a Retry-After the bucket has refilled to a token.          *)
Promised ==
  \A p \in Procs : promise[p] # NoPromise => Tokens + promise[p] * Rate >= Cost

Inv == TypeOK /\ Shapes /\ HeldFor /\ Refusing /\ Unanswered /\ Promised

-----------------------------------------------------------------------------
(* Credit and time                                                          *)

(* Seconds times the rate.                                                  *)
LEMMA Times ==
  ASSUME NEW a \in Int, NEW b \in Int, NEW r \in Nat
  PROVE  /\ a * r \in Int /\ (a + 1) * r = a * r + r /\ (a - 1) * r = a * r - r
         /\ (a - b) * r = a * r - b * r
         /\ a <= b => a * r <= b * r
<1>1. \A k \in Nat : k * r >= 0
  OBVIOUS
<1>2. (b - a) * r = b * r - a * r
  OBVIOUS
<1> QED
  BY <1>1, <1>2

(* A division that is rounded up covers what it divides.                    *)
LEMMA Covers ==
  ASSUME NEW n \in Nat
  PROVE  /\ n \div Rate + 1 \in Nat /\ n \div Rate + 1 >= 1 /\ n \div Rate <= n
         /\ (n \div Rate + 1) * Rate >= n
<1>1. Rate \in Nat \ {0}
  BY RateAssumption
<1>2. /\ n = Rate * (n \div Rate) + (n % Rate)
      /\ n \div Rate \in Nat /\ n % Rate \in 0 .. Rate - 1
  BY <1>1
<1>3. (n \div Rate + 1) * Rate = (n \div Rate) * Rate + Rate
  BY <1>1, <1>2, Times
<1>4. n \div Rate <= n
  <2> DEFINE q == n \div Rate
  <2>1. q <= Rate * q
    <3>1. 1 * q <= Rate * q
      BY <1>1, <1>2, Times
    <3> QED
      BY <1>2, <3>1
  <2> QED
    BY <1>1, <1>2, <2>1
<1> QED
  BY <1>1, <1>2, <1>3, <1>4

LEMMA Sizes ==
  /\ Rate \in Nat \ {0} /\ Cost \in Nat \ {0} /\ Full \in Nat /\ Cost <= Full
  /\ Stale \in Nat /\ MaxLag \in Nat /\ MaxAge \in Nat
  /\ Stale * Rate >= Full /\ MaxAge * Rate >= Full /\ MaxLag < MaxAge
<1> USE RateAssumption
<1>1. Full \in Nat /\ Cost <= Full
  <2>1. 1 * Cost <= Burst * Cost
    BY Times
  <2> QED
    BY <2>1 DEF Full
<1>2. Stale * Rate >= Full
  BY DEF Full
<1>3. MaxAge \in Nat /\ MaxLag < MaxAge /\ Stale <= MaxAge
  BY DEF MaxAge
<1>4. MaxAge * Rate >= Full
  <2>1. Stale * Rate <= MaxAge * Rate /\ MaxAge * Rate \in Int /\ Stale * Rate \in Int
    BY <1>3, Times
  <2> QED
    BY <1>1, <1>2, <2>1
<1> QED
  BY <1>1, <1>2, <1>3, <1>4

(* A row is no None and a lock is not Free.                                 *)
LEMMA Distinct ==
  /\ \A v \in Row : v # None
  /\ \A p, v : [by |-> p, was |-> v] # Free
<1>1. \A v \in Row : v # None
  BY Sizes DEF Row, None
<1>2. ASSUME NEW p, NEW v PROVE [by |-> p, was |-> v] # Free
  <2>1. "was" \in DOMAIN [by |-> p, was |-> v] /\ "was" \notin DOMAIN Free
    BY DEF Free
  <2> QED
    BY <2>1
<1> QED
  BY <1>1, <1>2

(* What a version is worth fills by the rate, up to the burst.              *)
LEMMA WorthFills ==
  ASSUME NEW v \in Row \cup {None}
  PROVE  /\ Worth(v) \in Int /\ Worth(v) <= Full
         /\ Older(v) \in Row \cup {None} /\ (Older(v) = None <=> v = None)
         /\ Worth(Older(v)) = AtMost(Full, Worth(v) + Rate)
<1>1. CASE v = None
  BY <1>1, Sizes DEF Worth, Older, AtMost
<1>2. CASE v \in Row
  <2>1. /\ v # None /\ v.credit \in 0 .. Full /\ v.age \in 0 .. MaxAge
        /\ v = [credit |-> v.credit, age |-> v.age]
    BY <1>2, Distinct DEF Row
  <2> DEFINE next == AtMost(MaxAge, v.age + 1)
  <2>2. next \in 0 .. MaxAge /\ next = IF v.age = MaxAge THEN v.age ELSE v.age + 1
    BY <2>1, Sizes DEF AtMost
  <2> HIDE DEF next
  <2>3. Older(v) = [credit |-> v.credit, age |-> next]
    BY <2>1 DEF Older, next
  <2>4. Older(v) \in Row
    BY <2>1, <2>2, <2>3 DEF Row
  <2>5. Older(v) # None
    BY <2>4, Distinct
  <2>6. /\ v.age * Rate \in Int /\ next * Rate \in Int
        /\ next * Rate = IF v.age = MaxAge THEN MaxAge * Rate ELSE v.age * Rate + Rate
    <3>1. v.age \in Int /\ next \in Int /\ Rate \in Nat
      BY <2>1, <2>2, Sizes
    <3>2. v.age * Rate \in Int /\ next * Rate \in Int /\ (v.age + 1) * Rate = v.age * Rate + Rate
      BY <3>1, Times
    <3> QED
      BY <2>2, <3>2
  <2>7. Worth(v) = AtMost(Full, v.credit + v.age * Rate)
        /\ Worth(Older(v)) = AtMost(Full, v.credit + next * Rate)
    BY <2>1, <2>3, <2>5 DEF Worth
  <2>8. Worth(v) \in Int /\ Worth(v) <= Full
    BY <2>1, <2>6, <2>7, Sizes DEF AtMost
  <2>9. Worth(Older(v)) = AtMost(Full, Worth(v) + Rate)
    BY <2>1, <2>6, <2>7, Sizes DEF AtMost
  <2> QED
    BY <2>4, <2>5, <2>8, <2>9, <2>1
<1> QED
  BY <1>1, <1>2

-----------------------------------------------------------------------------
(* Steps that leave the row and its lock alone                              *)

LEMMA TokensWorth ==
  ASSUME TypeOK
  PROVE  /\ Committed \in Row \cup {None} /\ Tokens = Worth(Committed)
         /\ Tokens \in Int /\ Tokens <= Full
         /\ held # Free => /\ held.by \in Procs /\ held.was \in Row \cup {None}
                           /\ held = [by |-> held.by, was |-> held.was]
<1>1. held # Free => /\ held.by \in Procs /\ held.was \in Row \cup {None}
                     /\ held = [by |-> held.by, was |-> held.was]
  BY DEF TypeOK
<1>2. Committed \in Row \cup {None}
  BY <1>1 DEF Committed, TypeOK
<1>3. Tokens = Worth(Committed)
  BY DEF Tokens, Worth
<1> QED
  BY <1>1, <1>2, <1>3, WorthFills

LEMMA InitInv == Init => Inv
<1> SUFFICES ASSUME Init PROVE Inv
  OBVIOUS
<1> USE DEF Init
<1>1. MaxLag * Rate \in Nat
  <2>1. 0 * Rate <= MaxLag * Rate /\ MaxLag * Rate \in Int
    BY Sizes, Times
  <2> QED
    BY <2>1, Sizes
<1>2. NoPromise \in NoPromise .. Cost + MaxLag * Rate + 1
  BY <1>1, Sizes DEF NoPromise
<1>3. \A p \in Procs : call[p] = [at |-> "idle", lag |-> 0] /\ promise[p] = NoPromise
  BY DEF Idle
<1>4. Idle \in [at : Stage, lag : 0 .. MaxLag]
  BY Sizes DEF Idle, Stage
<1>5. Shapes
  BY <1>2, <1>3, <1>4 DEF Shapes, Idle
<1>6. TypeOK
  BY <1>2, <1>3, <1>4, RateAssumption DEF TypeOK, Stage, Idle
<1> QED
  BY <1>3, <1>5, <1>6 DEF Inv, HeldFor, Refusing, Unanswered, Promised

(* Who is at a stage that holds no lock.                                    *)
LEMMA NotHolder ==
  ASSUME Inv, NEW p \in Procs, call[p].at \notin {"spend", "allowed", "swept"}
  PROVE  held = Free \/ held.by # p
BY DEF Inv, HeldFor

LEMMA PrivateStep ==
  ASSUME Inv, NEW p \in Procs, held = Free \/ held.by # p, UNCHANGED <<row, held>>,
         call' \in [Procs -> [at : Stage, lag : 0 .. MaxLag]],
         reply' \in [Procs -> {"none", "allowed", "refused", "forgotten", "excused"}],
         promise' \in [Procs -> NoPromise .. Cost + MaxLag * Rate + 1],
         faults' \in 0 .. MaxFaults,
         \A q \in Procs \ {p} : call'[q] = call[q] /\ reply'[q] = reply[q],
         call'[p].at # "allowed", call'[p].at = "idle" => call'[p] = Idle,
         call'[p].at \in {"look", "refused"} => Tokens < Cost + call'[p].lag * Rate,
         call'[p].at \in {"insert", "spend", "look", "gone", "refused", "forgotten"} =>
           reply'[p] = "none",
         \A q \in Procs : promise'[q] # NoPromise => Tokens + promise'[q] * Rate >= Cost
  PROVE  Inv' /\ Tokens' = Tokens
<1>1. Tokens' = Tokens
  BY DEF Tokens, Committed
<1>2. Shapes'
  BY DEF Inv, Shapes
<1>3. TypeOK'
  BY DEF Inv, TypeOK, Stage
<1>4. HeldFor'
  <2> SUFFICES ASSUME held # Free
               PROVE  \/ /\ call'[held.by].at = "spend"
                         /\ held.was = None /\ row = [credit |-> Full, age |-> call'[held.by].lag]
                      \/ call'[held.by].at = "allowed" /\ Spent(held.by)'
                      \/ call'[held.by].at = "swept" /\ row = None /\ Tokens = Full
    BY <1>1 DEF HeldFor
  <2>1. held.by \in Procs \ {p}
    BY TokensWorth DEF Inv
  <2>2. call'[held.by] = call[held.by]
    BY <2>1
  <2>3. Spent(held.by) => Spent(held.by)'
    BY <1>1, <2>2 DEF Spent, Worth
  <2> QED
    BY <2>2, <2>3 DEF Inv, HeldFor
<1>5. Refusing'
  BY <1>1 DEF Inv, Refusing
<1>6. Unanswered'
  BY DEF Inv, Unanswered
<1>7. Promised'
  BY <1>1 DEF Promised
<1> QED
  BY <1>1, <1>2, <1>3, <1>4, <1>5, <1>6, <1>7 DEF Inv

(* The requirements of PrivateStep that most steps meet by changing nothing.*)
LEMMA Unchanging ==
  ASSUME Inv
  PROVE  /\ call \in [Procs -> [at : Stage, lag : 0 .. MaxLag]]
         /\ reply \in [Procs -> {"none", "allowed", "refused", "forgotten", "excused"}]
         /\ promise \in [Procs -> NoPromise .. Cost + MaxLag * Rate + 1]
         /\ faults \in 0 .. MaxFaults
         /\ \A q \in Procs : promise[q] # NoPromise => Tokens + promise[q] * Rate >= Cost
BY DEF Inv, Shapes, TypeOK, Promised

LEMMA AskStep ==
  ASSUME Inv, NEW p \in Procs, Ask(p)
  PROVE  Inv' /\ Tokens' = Tokens
<1>1. /\ call' = [call EXCEPT ![p] = [at |-> "insert", lag |-> 0]] /\ call[p] = Idle
      /\ reply' = [reply EXCEPT ![p] = "none"] /\ UNCHANGED <<row, held, promise, faults>>
  BY DEF Ask
<1>2. held = Free \/ held.by # p
  BY <1>1, NotHolder DEF Idle
<1>3. [at |-> "insert", lag |-> 0] \in [at : Stage, lag : 0 .. MaxLag]
  BY Sizes DEF Stage
<1>4. /\ call' \in [Procs -> [at : Stage, lag : 0 .. MaxLag]] /\ call'[p].at = "insert"
      /\ reply' \in [Procs -> {"none", "allowed", "refused", "forgotten", "excused"}]
      /\ reply'[p] = "none"
      /\ \A q \in Procs \ {p} : call'[q] = call[q] /\ reply'[q] = reply[q]
  BY <1>1, <1>3, Unchanging
<1> QED
  BY <1>1, <1>2, <1>4, Unchanging, PrivateStep

LEMMA AskOtherStep ==
  ASSUME Inv, NEW p \in Procs, AskOther(p)
  PROVE  Inv' /\ Tokens' = Tokens
<1>1. /\ call' = [call EXCEPT ![p] = [at |-> "other", lag |-> 0]] /\ call[p] = Idle
      /\ UNCHANGED <<row, held, promise, faults, reply>>
  BY DEF AskOther
<1>2. held = Free \/ held.by # p
  BY <1>1, NotHolder DEF Idle
<1>3. [at |-> "other", lag |-> 0] \in [at : Stage, lag : 0 .. MaxLag]
  BY Sizes DEF Stage
<1>4. /\ call' \in [Procs -> [at : Stage, lag : 0 .. MaxLag]] /\ call'[p].at = "other"
      /\ \A q \in Procs \ {p} : call'[q] = call[q]
  BY <1>1, <1>3, Unchanging
<1> QED
  BY <1>1, <1>2, <1>4, Unchanging, PrivateStep

(* A call that moves on to another stage.                                   *)
LEMMA ToStage ==
  ASSUME Inv, NEW p \in Procs, NEW s \in Stage, To(p, s)
  PROVE  /\ call' \in [Procs -> [at : Stage, lag : 0 .. MaxLag]]
         /\ call'[p].at = s /\ call'[p].lag = call[p].lag
         /\ \A q \in Procs \ {p} : call'[q] = call[q]
<1>1. call' = [call EXCEPT ![p] = [at |-> s, lag |-> call[p].lag]]
  <2>1. call[p] = [at |-> call[p].at, lag |-> call[p].lag]
    BY Unchanging
  <2>2. [call[p] EXCEPT !.at = s] = [at |-> s, lag |-> call[p].lag]
    BY <2>1
  <2>3. call' = [call EXCEPT ![p] = [call[p] EXCEPT !.at = s]]
    BY DEF To
  <2> QED
    BY <2>2, <2>3
<1>2. [at |-> s, lag |-> call[p].lag] \in [at : Stage, lag : 0 .. MaxLag]
  BY Unchanging
<1> QED
  BY <1>1, <1>2, Unchanging

(* What the call's clock makes of a version, against the clock of all.      *)
LEMMA ByTheClock ==
  ASSUME Inv, NEW p \in Procs, NEW v \in Row
  PROVE  /\ Refilled(p, v) \in Int /\ Refilled(p, v) <= Full /\ Worth(v) \in Int
         /\ call[p].lag * Rate \in Nat /\ call[p].lag * Rate <= MaxLag * Rate
         /\ Refilled(p, v) <= Worth(v) /\ Worth(v) <= Refilled(p, v) + call[p].lag * Rate
         /\ Refilled(p, v) >= 0 - MaxLag * Rate
         /\ Worth(v) = AtMost(Full, v.credit + v.age * Rate)
         /\ Refilled(p, v) < Full =>
              v.credit + v.age * Rate = Refilled(p, v) + call[p].lag * Rate
<1> DEFINE lag == call[p].lag
<1>1. lag \in Nat /\ lag <= MaxLag /\ v.credit \in 0 .. Full /\ v.age \in Nat
  BY Sizes, Unchanging DEF Row
<1> HIDE DEF lag
<1>2. /\ lag * Rate \in Int /\ v.age * Rate \in Int /\ MaxLag * Rate \in Int
      /\ lag * Rate <= MaxLag * Rate /\ 0 * Rate <= lag * Rate /\ 0 * Rate <= v.age * Rate
      /\ (v.age - lag) * Rate = v.age * Rate - lag * Rate
  BY <1>1, Sizes, Times
<1> DEFINE aged == v.age * Rate  late == lag * Rate  most == MaxLag * Rate
           clock == Refilled(p, v)  worth == Worth(v)
<1>3. clock = AtMost(Full, v.credit + (aged - late))
  BY <1>2 DEF Refilled, lag
<1>4. worth = AtMost(Full, v.credit + aged)
  BY Distinct DEF Worth
<1>5. aged \in Nat /\ late \in Nat /\ late <= most /\ most \in Int
  BY <1>2, Sizes
<1> HIDE DEF aged, late, most, clock, worth
<1>6. /\ clock \in Int /\ clock <= Full /\ worth \in Int
      /\ clock <= worth /\ worth <= clock + late /\ clock >= 0 - most
      /\ clock < Full => v.credit + aged = clock + late
  BY <1>1, <1>3, <1>4, <1>5, Sizes DEF AtMost
<1> QED
  BY <1>4, <1>5, <1>6 DEF aged, late, most, clock, worth, lag

LEMMA LookStep ==
  ASSUME Inv, NEW p \in Procs, Look(p)
  PROVE  Inv' /\ Tokens' = Tokens
<1> DEFINE remaining == IF Committed = None THEN 0 ELSE Refilled(p, Committed)
           short == AtLeast(0, Cost - remaining)
           wait == AtLeast(1, short \div Rate + 1)
<1> DEFINE s == IF call[p].at = "look" THEN "refused" ELSE "forgotten"
<1>1. /\ promise' = [promise EXCEPT ![p] = wait] /\ To(p, s)
      /\ call[p].at \in {"look", "gone"} /\ UNCHANGED <<row, held, reply, faults>>
  BY DEF Look, RetryAfter
<1>2. remaining \in Int /\ remaining <= Tokens /\ remaining >= 0 - MaxLag * Rate
      /\ MaxLag * Rate \in Nat
  <2>1. Tokens = Worth(Committed) /\ Committed \in Row \cup {None}
    BY TokensWorth DEF Inv
  <2>2. MaxLag * Rate \in Nat
    <3>1. 0 * Rate <= MaxLag * Rate /\ MaxLag * Rate \in Int
      BY Sizes, Times
    <3> QED
      BY <3>1, Sizes
  <2>3. CASE Committed = None
    BY <2>1, <2>2, <2>3, Sizes DEF Worth
  <2>4. CASE Committed \in Row
    BY <2>1, <2>2, <2>4, ByTheClock, Distinct
  <2> QED
    BY <2>1, <2>3, <2>4
<1> HIDE DEF remaining
<1>3. short \in Nat /\ short >= Cost - remaining /\ short <= Cost + MaxLag * Rate
  BY <1>2, Sizes DEF AtLeast
<1> HIDE DEF short
<1>4. /\ wait \in Int /\ wait >= 1 /\ wait <= Cost + MaxLag * Rate + 1
      /\ wait = short \div Rate + 1 /\ wait * Rate >= short /\ wait * Rate \in Int
  <2>1. /\ short \div Rate + 1 \in Nat /\ short \div Rate + 1 >= 1 /\ short \div Rate <= short
        /\ (short \div Rate + 1) * Rate >= short
    BY <1>3, Covers
  <2>2. wait = short \div Rate + 1
    BY <2>1 DEF AtLeast
  <2>3. (short \div Rate + 1) * Rate \in Int
    BY <2>1, Sizes
  <2> QED
    BY <1>2, <1>3, <2>1, <2>2, <2>3, Sizes
<1> HIDE DEF wait
<1>5. Tokens + wait * Rate >= Cost /\ Tokens \in Int
  BY <1>2, <1>3, <1>4, Sizes, TokensWorth DEF Inv
<1>6. /\ promise' \in [Procs -> NoPromise .. Cost + MaxLag * Rate + 1]
      /\ \A q \in Procs : promise'[q] # NoPromise => Tokens + promise'[q] * Rate >= Cost
  BY <1>1, <1>2, <1>4, <1>5, Unchanging, Sizes DEF NoPromise
<1>7. held = Free \/ held.by # p
  BY <1>1, NotHolder
<1>8. /\ reply[p] = "none" /\ s \in {"refused", "forgotten"} /\ s \in Stage
      /\ s = "refused" => Tokens < Cost + call[p].lag * Rate
  BY <1>1 DEF Inv, Unanswered, Refusing, Stage
<1> HIDE DEF s
<1>9. /\ call' \in [Procs -> [at : Stage, lag : 0 .. MaxLag]]
      /\ call'[p].at = s /\ call'[p].lag = call[p].lag
      /\ \A q \in Procs \ {p} : call'[q] = call[q]
  BY <1>1, <1>8, ToStage
<1> QED
  BY <1>1, <1>6, <1>7, <1>8, <1>9, Unchanging, PrivateStep

-----------------------------------------------------------------------------
(* Steps that take the lock                                                 *)

LEMMA LockStep ==
  ASSUME Inv, NEW p \in Procs, MayLock(p), Lock(p), row' \in Row \cup {None},
         NEW s \in {"spend", "allowed", "swept"}, To(p, s),
         UNCHANGED <<reply, promise, faults>>,
         \/ s = "spend" /\ Committed = None /\ row' = [credit |-> Full, age |-> call[p].lag]
         \/ /\ s = "allowed" /\ row' # None /\ row'.age = call[p].lag
            /\ row'.credit + Cost <= Tokens
            /\ Tokens <= row'.credit + Cost + row'.age * Rate /\ Worth(row') <= Tokens
         \/ s = "swept" /\ row' = None /\ Tokens = Full,
         s \in {"spend", "allowed"} => reply[p] = "none"
  PROVE  Inv' /\ Tokens' = Tokens
<1>1. /\ held' = [by |-> p, was |-> Committed] /\ held' # Free
      /\ held'.by = p /\ held'.was = Committed
  BY Distinct DEF Lock
<1>2. Tokens' = Tokens
  BY <1>1 DEF Tokens, Committed
<1>3. /\ call' \in [Procs -> [at : Stage, lag : 0 .. MaxLag]]
      /\ call'[p].at = s /\ call'[p].lag = call[p].lag
      /\ \A q \in Procs \ {p} : call'[q] = call[q]
  BY ToStage DEF Stage
<1>4. \A q \in Procs : call'[q].at = "allowed" => q = p
  BY <1>3, Distinct DEF Inv, TypeOK, MayLock
<1>5. held' \in {Free} \cup [by : Procs, was : Row \cup {None}]
  BY <1>1, TokensWorth DEF Inv
<1>6. Shapes' /\ TypeOK'
  BY <1>1, <1>3, <1>4, <1>5 DEF Inv, Shapes, TypeOK, Stage
<1>7. HeldFor'
  <2>1. CASE s = "spend"
    BY <1>1, <1>3, <2>1 DEF HeldFor
  <2>2. CASE s = "allowed"
    <3>1. Worth(row)' = Worth(row')
      BY DEF Worth
    <3>2. Spent(p)'
      BY <1>2, <1>3, <2>2, <3>1 DEF Spent
    <3> QED
      BY <1>1, <1>3, <2>2, <3>2 DEF HeldFor
  <2>3. CASE s = "swept"
    BY <1>1, <1>2, <1>3, <2>3 DEF HeldFor
  <2> QED
    BY <2>1, <2>2, <2>3
<1>8. Refusing' /\ Promised'
  BY <1>2, <1>3 DEF Inv, Refusing, Promised
<1>9. Unanswered'
  BY <1>3 DEF Inv, Unanswered
<1> QED
  BY <1>2, <1>6, <1>7, <1>8, <1>9 DEF Inv

LEMMA InsertStep ==
  ASSUME Inv, NEW p \in Procs, Insert(p)
  PROVE  Inv' /\ Tokens' = Tokens
<1>1. /\ call[p].at = "insert" /\ To(p, "spend") /\ UNCHANGED <<reply, promise, faults>>
      /\ reply[p] = "none" /\ (held = Free \/ held.by # p)
  BY NotHolder DEF Insert, Inv, Unanswered
<1>2. CASE Committed # None /\ row # None
  <2>1. UNCHANGED <<row, held>>
    BY <1>2 DEF Insert
  <2>2. /\ call' \in [Procs -> [at : Stage, lag : 0 .. MaxLag]] /\ call'[p].at = "spend"
        /\ \A q \in Procs \ {p} : call'[q] = call[q]
    BY <1>1, ToStage DEF Stage
  <2> QED
    BY <1>1, <2>1, <2>2, Unchanging, PrivateStep
<1>3. CASE ~(Committed # None /\ row # None)
  <2>1. held = Free /\ row' = [credit |-> Full, age |-> call[p].lag] /\ Lock(p)
    BY <1>3 DEF Insert
  <2>2. Committed = None /\ MayLock(p)
    BY <1>3, <2>1 DEF Committed, MayLock
  <2>3. row' \in Row
    BY <2>1, Unchanging, Sizes DEF Row
  <2> QED
    BY <1>1, <2>1, <2>2, <2>3, LockStep
<1> QED
  BY <1>2, <1>3

(* A spend on a row that p may lock.                                        *)
LEMMA SpendStep ==
  ASSUME Inv, NEW p \in Procs, Spend(p)
  PROVE  Inv' /\ Tokens' = Tokens
<1>1. /\ call[p].at = "spend" /\ MayLock(p) /\ UNCHANGED <<reply, promise, faults>>
      /\ reply[p] = "none" /\ row \in Row \cup {None}
  BY DEF Spend, Spendable, Inv, Unanswered, TypeOK
<1>2. /\ held # Free => row = [credit |-> Full, age |-> call[p].lag] /\ Tokens = Full
      /\ held = Free => Committed = row /\ Tokens = Worth(row)
  <2>1. CASE held # Free
    BY <1>1, <2>1 DEF MayLock, Inv, HeldFor, Tokens, Committed
  <2>2. CASE held = Free
    BY <2>2, TokensWorth DEF Inv, Committed
  <2> QED
    BY <2>1, <2>2
<1>3. CASE row # None /\ Affords(p)
  <2> DEFINE rest == Refilled(p, row) - Cost
  <2>1. row' = [credit |-> rest, age |-> call[p].lag] /\ Lock(p) /\ To(p, "allowed")
    BY <1>3 DEF Spend
  <2>2. /\ Refilled(p, row) \in Int /\ Refilled(p, row) >= Cost /\ Refilled(p, row) <= Full
        /\ row \in Row
    BY <1>1, <1>3, ByTheClock DEF Affords
  <2>3. row' \in Row
    BY <2>1, <2>2, Unchanging, Sizes DEF Row
  <2>4. /\ Refilled(p, row) <= Tokens /\ Tokens <= Refilled(p, row) + call[p].lag * Rate
        /\ Tokens \in Int /\ Tokens <= Full
        /\ Refilled(p, row) < Full => AtMost(Full, Refilled(p, row) + call[p].lag * Rate) <= Tokens
    <3>1. CASE held = Free
      BY <1>2, <2>2, <3>1, ByTheClock, TokensWorth DEF Inv
    <3>2. CASE held # Free
      <4>1. Refilled(p, row) = AtMost(Full, Full + 0 * Rate)
        BY <1>2, <3>2, Unchanging DEF Refilled
      <4>2. Refilled(p, row) = Full
        BY <4>1, Sizes DEF AtMost
      <4> QED
        BY <1>2, <2>2, <3>2, <4>2, ByTheClock, Sizes
    <3> QED
      BY <3>1, <3>2
  <2>5. /\ row'.age = call[p].lag /\ row'.credit = rest /\ row'.credit + Cost <= Tokens
        /\ Tokens <= row'.credit + Cost + row'.age * Rate
    BY <2>1, <2>2, <2>4, <1>1, Sizes, ByTheClock
  <2>6. Worth(row') <= Tokens
    <3>1. Worth(row') = AtMost(Full, rest + call[p].lag * Rate)
      BY <2>1, <2>3, Distinct DEF Worth
    <3>2. call[p].lag * Rate \in Nat
      BY <2>2, ByTheClock
    <3> QED
      BY <2>2, <2>4, <3>1, <3>2, Sizes DEF AtMost
  <2> QED
    BY <1>1, <2>1, <2>3, <2>5, <2>6, Distinct, LockStep
<1>4. CASE ~(row # None /\ Affords(p))
  <2> DEFINE s == IF row = None THEN "gone" ELSE "look"
  <2>1. To(p, s) /\ UNCHANGED <<row, held>>
    BY <1>4 DEF Spend
  <2>2. row \in Row => ~(Refilled(p, row) >= Cost)
    BY <1>4, Distinct DEF Affords
  <2>3. held = Free
    <3>1. SUFFICES ASSUME held # Free PROVE FALSE
      OBVIOUS
    <3>2. row \in Row /\ Refilled(p, row) = AtMost(Full, Full + 0 * Rate)
      BY <1>1, <1>2, <3>1, Unchanging, Sizes DEF Refilled, Row
    <3> QED
      BY <2>2, <3>2, Sizes DEF AtMost
  <2>4. s = "look" => Tokens < Cost + call[p].lag * Rate
    <3>1. s = "look" => row \in Row
      BY <1>1
    <3> QED
      BY <1>2, <2>2, <2>3, <3>1, ByTheClock, Sizes
  <2>5. s \in {"look", "gone"} /\ s \in Stage
    BY DEF Stage
  <2> HIDE DEF s
  <2>6. /\ call' \in [Procs -> [at : Stage, lag : 0 .. MaxLag]]
        /\ call'[p].at = s /\ call'[p].lag = call[p].lag
        /\ \A q \in Procs \ {p} : call'[q] = call[q]
    BY <2>1, <2>5, ToStage
  <2> QED
    BY <1>1, <2>1, <2>3, <2>4, <2>5, <2>6, Unchanging, PrivateStep
<1> QED
  BY <1>3, <1>4

LEMMA SweepStep ==
  ASSUME Inv, NEW p \in Procs, Sweep(p)
  PROVE  Inv' /\ Tokens' = Tokens
<1>1. /\ call[p].at = "other" /\ Committed # None /\ MayLock(p) /\ row # None /\ Swept(p)
      /\ row' = None /\ Lock(p) /\ To(p, "swept") /\ UNCHANGED <<reply, promise, faults>>
  BY DEF Sweep
<1>2. held = Free
  BY <1>1, NotHolder DEF MayLock
<1>3. row \in Row /\ Tokens = AtMost(Full, row.credit + row.age * Rate)
  BY <1>1, <1>2, TokensWorth DEF Inv, Committed, TypeOK, Tokens
<1>4. row.age * Rate >= Full /\ row.age * Rate \in Int
  <2>1. row.age \in Int /\ Stale <= row.age /\ Stale \in Int
    BY <1>1, <1>3, Unchanging, Sizes DEF Swept, Row
  <2>2. Stale * Rate <= row.age * Rate /\ row.age * Rate \in Int /\ Stale * Rate \in Int
    BY <2>1, Sizes, Times
  <2> QED
    BY <2>2, Sizes
<1>5. Tokens = Full
  BY <1>3, <1>4, Sizes DEF AtMost, Row
<1> QED
  BY <1>1, <1>5, LockStep

-----------------------------------------------------------------------------
(* Steps that end a call                                                    *)

LEMMA TokensOf ==
  ASSUME TypeOK
  PROVE  (held = Free => Tokens = Worth(row)) /\ (held # Free => Tokens = Worth(held.was))
BY DEF Tokens, Committed, Worth

(* Whoever held the row lets it go, and the bucket is not fuller for it.    *)
LEMMA LetGo ==
  ASSUME Inv, NEW p \in Procs, held # Free, held.by = p, held' = Free,
         row' \in Row \cup {None}, Worth(row') <= Tokens,
         call' = [call EXCEPT ![p] = Idle],
         reply' \in [Procs -> {"none", "allowed", "refused", "forgotten", "excused"}],
         \A q \in Procs \ {p} : reply'[q] = reply[q],
         promise' \in [Procs -> NoPromise .. Cost + MaxLag * Rate + 1],
         faults' \in 0 .. MaxFaults,
         \A q \in Procs : promise'[q] # NoPromise => Worth(row') + promise'[q] * Rate >= Cost
  PROVE  Inv' /\ Tokens' = Worth(row')
<1>1. Tokens' = Worth(row')
  BY DEF Tokens, Committed, Worth
<1>2. /\ call' \in [Procs -> [at : Stage, lag : 0 .. MaxLag]] /\ call'[p] = Idle
      /\ call'[p].at = "idle"
      /\ \A q \in Procs \ {p} : call'[q] = call[q]
  <2>1. Idle \in [at : Stage, lag : 0 .. MaxLag]
    BY Sizes DEF Idle, Stage
  <2> QED
    BY <2>1, Unchanging DEF Idle
<1>3. Shapes'
  BY <1>2 DEF Inv, Shapes
<1>4. \A q \in Procs : call'[q].at # "allowed"
  BY <1>2 DEF Inv, TypeOK
<1>5. TypeOK'
  BY <1>2, <1>4 DEF TypeOK, Stage
<1>6. HeldFor'
  BY DEF HeldFor
<1>7. Refusing'
  <2> SUFFICES ASSUME NEW q \in Procs, call'[q].at \in {"look", "refused"}
               PROVE  Tokens' < Cost + call'[q].lag * Rate
    BY DEF Refusing
  <2>1. call'[q] = call[q]
    BY <1>2
  <2>2. Tokens < Cost + call[q].lag * Rate
    BY <2>1 DEF Inv, Refusing
  <2>3. /\ Tokens \in Int /\ Tokens' \in Int /\ Tokens' <= Tokens
        /\ call[q].lag * Rate \in Int
    <3>1. call[q].lag \in Int
      BY Unchanging
    <3> QED
      BY <1>1, <3>1, WorthFills, TokensWorth, Sizes, Times DEF Inv
  <2> QED
    BY <2>1, <2>2, <2>3, Sizes
<1>8. Unanswered'
  BY <1>2 DEF Inv, Unanswered
<1>9. Promised'
  BY <1>1 DEF Promised
<1> QED
  BY <1>1, <1>3, <1>5, <1>6, <1>7, <1>8, <1>9 DEF Inv

(* A commit is a step of the bucket: the request was let in for a token, or *)
(* refused for the lack of one, or its row was gone.                        *)
LEMMA CommitStep ==
  ASSUME Inv, NEW p \in Procs, Commit(p)
  PROVE  Inv' /\ [Bucket!Next]_(Bucket!vars)
<1>1. /\ call[p].at \in {"allowed", "refused", "forgotten", "other", "swept"}
      /\ call' = [call EXCEPT ![p] = Idle]
      /\ held' = IF held # Free /\ held.by = p THEN Free ELSE held
      /\ reply' = IF call[p].at \in {"other", "swept"} THEN reply
                  ELSE [reply EXCEPT ![p] = call[p].at]
      /\ promise' = IF call[p].at = "allowed" THEN [q \in Procs |-> NoPromise] ELSE promise
      /\ UNCHANGED <<row, faults>>
  BY DEF Commit
<1>2. reply' \in [Procs -> {"none", "allowed", "refused", "forgotten", "excused"}]
      /\ \A q \in Procs \ {p} : reply'[q] = reply[q]
  BY <1>1, Unchanging
<1>3. /\ call' \in [Procs -> [at : Stage, lag : 0 .. MaxLag]] /\ call'[p] = Idle
      /\ call'[p].at = "idle"
      /\ \A q \in Procs \ {p} : call'[q] = call[q]
  <2>1. Idle \in [at : Stage, lag : 0 .. MaxLag]
    BY Sizes DEF Idle, Stage
  <2> QED
    BY <1>1, <2>1, Unchanging DEF Idle
<1>4. CASE held = Free \/ held.by # p
  <2>1. call[p].at # "allowed" /\ UNCHANGED <<row, held, promise, faults>>
    BY <1>1, <1>4 DEF Inv, TypeOK
  <2>2. Inv' /\ Tokens' = Tokens
    BY <1>2, <1>3, <1>4, <2>1, Unchanging, PrivateStep
  <2>3. CASE call[p].at \in {"other", "swept"}
    BY <1>1, <2>2, <2>3 DEF Bucket!vars
  <2>4. CASE call[p].at = "forgotten"
    <3>1. reply[p] = "none" /\ reply' = [reply EXCEPT ![p] = "forgotten"]
      BY <1>1, <2>4 DEF Inv, Unanswered
    <3> QED
      BY <2>2, <3>1 DEF Bucket!Next, Bucket!Unmetered, Bucket!Answer
  <2>5. CASE call[p].at = "refused"
    <3>1. reply[p] = "none" /\ reply' = [reply EXCEPT ![p] = "refused"]
      BY <1>1, <2>5 DEF Inv, Unanswered
    <3>2. Tokens < Cost + MaxLag * Rate
      <4>1. Tokens < Cost + call[p].lag * Rate /\ Tokens \in Int
        BY <2>5, TokensWorth DEF Inv, Refusing
      <4>2. call[p].lag * Rate <= MaxLag * Rate /\ call[p].lag * Rate \in Int
            /\ MaxLag * Rate \in Int
        BY Unchanging, Sizes, Times
      <4> QED
        BY <4>1, <4>2, Sizes
    <3> QED
      BY <2>2, <3>1, <3>2 DEF Bucket!Next, Bucket!Refuse, Bucket!Answer
  <2> QED
    BY <1>1, <2>1, <2>3, <2>4, <2>5
<1>5. CASE held # Free /\ held.by = p
  <2>1. held' = Free /\ row' = row /\ row \in Row \cup {None}
    BY <1>1, <1>5 DEF Inv, TypeOK
  <2>2. CASE call[p].at = "allowed"
    <3>1. /\ Spent(p) /\ reply[p] = "none" /\ reply' = [reply EXCEPT ![p] = "allowed"]
          /\ promise' = [q \in Procs |-> NoPromise]
      BY <1>1, <1>5, <2>2 DEF Inv, HeldFor, Unanswered
    <3>2. Worth(row') <= Tokens
      BY <2>1, <3>1 DEF Spent
    <3>3. promise' \in [Procs -> NoPromise .. Cost + MaxLag * Rate + 1]
      <4>1. MaxLag * Rate \in Nat
        <5>1. 0 * Rate <= MaxLag * Rate /\ MaxLag * Rate \in Int
          BY Sizes, Times
        <5> QED
          BY <5>1, Sizes
      <4>2. NoPromise \in NoPromise .. Cost + MaxLag * Rate + 1
        BY <4>1, Sizes DEF NoPromise
      <4> QED
        BY <3>1, <4>2
    <3>4. \A q \in Procs : promise'[q] = NoPromise
      BY <3>1
    <3>5. Inv' /\ Tokens' = Worth(row)
      BY <1>1, <1>2, <1>5, <2>1, <3>2, <3>3, <3>4, Unchanging, LetGo
    <3>6. \E refund \in 0 .. MaxLag * Rate : Tokens' = AtMost(Full, Tokens - Cost + refund)
      <4> DEFINE late == row.age * Rate  most == MaxLag * Rate
                 refund == row.credit + Cost + late - Tokens
      <4>1. row \in Row /\ row.credit \in Int /\ row.age = call[p].lag
        BY <2>1, <3>1 DEF Spent, Row
      <4>2. /\ late \in Int /\ most \in Int /\ late <= most /\ Tokens \in Int
            /\ row.credit + Cost <= Tokens /\ Tokens <= row.credit + Cost + late
        <5>1. row.age * Rate <= MaxLag * Rate /\ row.age * Rate \in Int /\ MaxLag * Rate \in Int
          BY <4>1, Unchanging, Sizes, Times
        <5> QED
          BY <3>1, <5>1, TokensWorth DEF Inv, Spent
      <4>3. Tokens' = AtMost(Full, row.credit + late)
        BY <3>5, <4>1, Distinct DEF Worth
      <4> HIDE DEF late, most
      <4>4. refund \in 0 .. most /\ Tokens - Cost + refund = row.credit + late
        BY <4>1, <4>2, Sizes
      <4> HIDE DEF refund
      <4>5. Tokens' = AtMost(Full, Tokens - Cost + refund)
        BY <4>3, <4>4
      <4> QED
        BY <4>4, <4>5 DEF most
    <3>7. Tokens >= Cost
      BY <2>1, <3>1, TokensWorth, Sizes DEF Spent, Inv, Row
    <3> QED
      BY <3>1, <3>5, <3>6, <3>7
      DEF Bucket!Next, Bucket!Admit, Bucket!Answer, Bucket!AtMost, Bucket!Full, AtMost, Full
  <2>3. CASE call[p].at = "swept"
    <3>1. row = None /\ Tokens = Full
      BY <1>5, <2>3 DEF Inv, HeldFor
    <3>2. Worth(row') = Tokens /\ Tokens \in Int
      BY <2>1, <3>1, TokensWorth DEF Worth, Inv
    <3>3. promise' = promise /\ reply' = reply
      BY <1>1, <2>3
    <3>4. Worth(row') <= Tokens
      BY <3>2
    <3>5. Inv' /\ Tokens' = Tokens
      BY <1>1, <1>2, <1>5, <2>1, <3>2, <3>3, <3>4, Unchanging, LetGo
    <3> QED
      BY <3>3, <3>5 DEF Bucket!vars
  <2> QED
    BY <1>1, <1>5, <2>2, <2>3 DEF Inv, HeldFor
<1> QED
  BY <1>4, <1>5

(* A rollback gives back what was there before the call.                    *)
LEMMA FailStep ==
  ASSUME Inv, NEW p \in Procs, Fail(p)
  PROVE  Inv' /\ [Bucket!Next]_(Bucket!vars)
<1>1. /\ call[p] # Idle /\ faults < MaxFaults /\ faults' = faults + 1
      /\ call' = [call EXCEPT ![p] = Idle]
      /\ row' = IF held # Free /\ held.by = p THEN held.was ELSE row
      /\ held' = IF held # Free /\ held.by = p THEN Free ELSE held
      /\ reply' = IF call[p].at \in {"other", "swept"} THEN reply
                  ELSE [reply EXCEPT ![p] = "excused"]
      /\ promise' = promise
  BY DEF Fail
<1>2. reply' \in [Procs -> {"none", "allowed", "refused", "forgotten", "excused"}]
      /\ (\A q \in Procs \ {p} : reply'[q] = reply[q]) /\ faults' \in 0 .. MaxFaults
  BY <1>1, Unchanging, RateAssumption
<1>3. /\ call' \in [Procs -> [at : Stage, lag : 0 .. MaxLag]] /\ call'[p] = Idle
      /\ call'[p].at = "idle"
      /\ \A q \in Procs \ {p} : call'[q] = call[q]
  <2>1. Idle \in [at : Stage, lag : 0 .. MaxLag]
    BY Sizes DEF Idle, Stage
  <2> QED
    BY <1>1, <2>1, Unchanging DEF Idle
<1>4. Inv' /\ Tokens' = Tokens
  <2>1. CASE held = Free \/ held.by # p
    BY <1>1, <1>2, <1>3, <2>1, Unchanging, PrivateStep
  <2>2. CASE held # Free /\ held.by = p
    <3>1. row' = held.was /\ held' = Free /\ held.was \in Row \cup {None}
      BY <1>1, <2>2, TokensWorth DEF Inv
    <3>2. Worth(row') = Tokens /\ Worth(row') <= Tokens
      BY <2>2, <3>1, TokensOf, TokensWorth DEF Inv
    <3> QED
      BY <1>1, <1>2, <2>2, <3>1, <3>2, Unchanging, LetGo
  <2> QED
    BY <2>1, <2>2
<1>5. CASE call[p].at \in {"other", "swept"}
  BY <1>1, <1>4, <1>5 DEF Bucket!vars
<1>6. CASE call[p].at \notin {"other", "swept"}
  <2>1. call[p].at # "idle"
    BY <1>1 DEF Inv, Shapes
  <2>2. reply[p] = "none" /\ reply' = [reply EXCEPT ![p] = "excused"]
    BY <1>1, <1>6, <2>1, Unchanging DEF Inv, Unanswered, Stage
  <2> QED
    BY <1>4, <2>2 DEF Bucket!Next, Bucket!Unmetered, Bucket!Answer
<1> QED
  BY <1>5, <1>6

-----------------------------------------------------------------------------
(* A second passes                                                          *)

(* Who is in a call grows older by a second; a row's age keeps pace.        *)
LEMMA TickStep ==
  ASSUME Inv, Tick
  PROVE  Inv' /\ [Bucket!Next]_(Bucket!vars)
<1>1. /\ \A p \in Procs : call[p].lag < MaxLag
      /\ row' = Older(row) /\ held' = IF held = Free THEN held ELSE [held EXCEPT !.was = Older(@)]
      /\ call' = [p \in Procs |->
                   IF call[p] = Idle THEN Idle ELSE [call[p] EXCEPT !.lag = @ + 1]]
      /\ promise' = [p \in Procs |->
           AtLeast(0, promise[p] - 1) - (IF promise[p] = NoPromise THEN 1 ELSE 0)]
      /\ UNCHANGED <<reply, faults>>
  BY DEF Tick
<1>2. ASSUME NEW p \in Procs
      PROVE  /\ call'[p] \in [at : Stage, lag : 0 .. MaxLag] /\ call'[p].at = call[p].at
             /\ call[p] = Idle => call'[p] = Idle
             /\ call[p] # Idle => call'[p].lag = call[p].lag + 1
  <2>1. call[p] = [at |-> call[p].at, lag |-> call[p].lag]
        /\ call[p].at \in Stage /\ call[p].lag \in 0 .. MaxLag /\ call[p].lag < MaxLag
    BY <1>1, Unchanging
  <2>2. CASE call[p] = Idle
    BY <1>1, <2>1, <2>2
  <2>3. CASE call[p] # Idle
    <3>1. [call[p] EXCEPT !.lag = @ + 1] = [at |-> call[p].at, lag |-> call[p].lag + 1]
      BY <2>1
    <3>2. call'[p] = [at |-> call[p].at, lag |-> call[p].lag + 1]
      BY <1>1, <2>3, <3>1
    <3> QED
      BY <2>1, <2>3, <3>2, Sizes
  <2> QED
    BY <2>2, <2>3
<1>3. call' \in [Procs -> [at : Stage, lag : 0 .. MaxLag]]
  <2>1. call' = [p \in Procs |-> call'[p]]
    BY <1>1
  <2> QED
    BY <1>2, <2>1
<1>4. held # Free => /\ held' # Free /\ held'.by = held.by /\ held'.was = Older(held.was)
                     /\ held'.by \in Procs
                     /\ held' \in [by : Procs, was : Row \cup {None}]
  <2> SUFFICES ASSUME held # Free
               PROVE  /\ held' # Free /\ held'.by = held.by /\ held'.was = Older(held.was)
                      /\ held'.by \in Procs
                      /\ held' \in [by : Procs, was : Row \cup {None}]
    OBVIOUS
  <2>1. held = [by |-> held.by, was |-> held.was] /\ held.by \in Procs
        /\ held.was \in Row \cup {None}
    BY TokensWorth DEF Inv
  <2>2. held' = [by |-> held.by, was |-> Older(held.was)]
    BY <1>1, <2>1
  <2> QED
    BY <2>1, <2>2, WorthFills, Distinct
<1>5. held = Free => held' = Free
  BY <1>1
<1>6. /\ Tokens' = AtMost(Full, Tokens + Rate) /\ Tokens \in Int /\ Tokens <= Full
      /\ Tokens' \in Int /\ Tokens <= Tokens' /\ Tokens' <= Full /\ Tokens' <= Tokens + Rate
  <2>1. Tokens' = AtMost(Full, Tokens + Rate)
    <3>1. CASE held = Free
      <4>1. Tokens = Worth(row) /\ row \in Row \cup {None}
        BY <3>1, TokensOf DEF Inv, TypeOK
      <4>2. Tokens' = Worth(Older(row))
        BY <1>1, <1>5, <3>1 DEF Tokens, Committed, Worth
      <4> QED
        BY <4>1, <4>2, WorthFills
    <3>2. CASE held # Free
      <4>1. Tokens = Worth(held.was) /\ held.was \in Row \cup {None}
        BY <3>2, TokensOf, TokensWorth DEF Inv
      <4>2. Tokens' = Worth(Older(held.was))
        BY <1>4, <3>2 DEF Tokens, Committed, Worth
      <4> QED
        BY <4>1, <4>2, WorthFills
    <3> QED
      BY <3>1, <3>2
  <2>2. Tokens \in Int /\ Tokens <= Full
    BY TokensWorth DEF Inv
  <2> QED
    BY <2>1, <2>2, Sizes DEF AtMost
<1>7. ASSUME NEW p \in Procs
      PROVE  /\ promise'[p] \in NoPromise .. Cost + MaxLag * Rate + 1
             /\ promise[p] = NoPromise => promise'[p] = NoPromise
             /\ promise[p] = 0 => promise'[p] = 0
             /\ promise[p] \notin {NoPromise, 0} => promise'[p] = promise[p] - 1
  <2> DEFINE most == Cost + MaxLag * Rate + 1
  <2>1. promise[p] \in NoPromise .. most
    BY Unchanging
  <2>2. promise'[p] = AtLeast(0, promise[p] - 1) - (IF promise[p] = NoPromise THEN 1 ELSE 0)
    BY <1>1
  <2>3. most \in Int
    BY Sizes
  <2> HIDE DEF most
  <2>4. /\ promise'[p] \in NoPromise .. most
        /\ promise[p] = NoPromise => promise'[p] = NoPromise
        /\ promise[p] = 0 => promise'[p] = 0
        /\ promise[p] \notin {NoPromise, 0} => promise'[p] = promise[p] - 1
    BY <2>1, <2>2, <2>3 DEF AtLeast, NoPromise
  <2> QED
    BY <2>4 DEF most
<1>8. promise' \in [Procs -> NoPromise .. Cost + MaxLag * Rate + 1]
  <2>1. promise' = [p \in Procs |-> promise'[p]]
    BY <1>1
  <2> QED
    BY <1>7, <2>1
<1>9. Shapes'
  BY <1>2, <1>3, <1>8 DEF Inv, Shapes
<1>10. TypeOK'
  <2>1. row' \in Row \cup {None}
    BY <1>1, WorthFills DEF Inv, TypeOK
  <2>2. held' \in {Free} \cup [by : Procs, was : Row \cup {None}]
    BY <1>4, <1>5
  <2>3. \A p \in Procs : call'[p].at = "allowed" => held' # Free /\ held'.by = p
    BY <1>2, <1>4 DEF Inv, TypeOK
  <2> QED
    BY <1>1, <1>3, <1>8, <2>1, <2>2, <2>3 DEF Inv, TypeOK, Stage
<1>11. HeldFor'
  <2> SUFFICES ASSUME held # Free, NEW p \in Procs, p = held.by
               PROVE  \/ /\ call'[p].at = "spend"
                         /\ held'.was = None
                         /\ row' = [credit |-> Full, age |-> call'[p].lag]
                      \/ call'[p].at = "allowed" /\ Spent(p)'
                      \/ call'[p].at = "swept" /\ row' = None /\ Tokens' = Full
    BY <1>4, <1>5 DEF HeldFor
  <2>1. p \in Procs
    OBVIOUS
  <2>2. call[p].lag \in Nat /\ call[p].lag + 1 <= MaxAge /\ call[p].lag # MaxAge
    BY <1>1, <2>1, Unchanging, Sizes
  <2>3. CASE call[p].at = "spend" /\ held.was = None
             /\ row = [credit |-> Full, age |-> call[p].lag]
    <3>1. call'[p].lag = call[p].lag + 1 /\ call'[p].at = "spend"
      BY <1>2, <2>1, <2>3 DEF Idle
    <3>2. row # None
      BY <2>2, <2>3 DEF None
    <3>3. Older(row) = [credit |-> Full, age |-> call[p].lag + 1]
      BY <2>2, <2>3, <3>2, Sizes DEF Older, AtMost
    <3> QED
      BY <1>1, <1>4, <2>3, <3>1, <3>3 DEF Older
  <2>4. CASE call[p].at = "allowed" /\ Spent(p)
    <3>1. call'[p].lag = call[p].lag + 1 /\ call'[p].at = "allowed"
      BY <1>2, <2>1, <2>4 DEF Idle
    <3>2. /\ row # None /\ row.age = call[p].lag /\ row.credit + Cost <= Tokens
          /\ Tokens <= row.credit + Cost + row.age * Rate /\ Worth(row) <= Tokens
          /\ row \in Row /\ row.credit \in Int /\ row = [credit |-> row.credit, age |-> row.age]
      BY <2>4 DEF Spent, Inv, TypeOK, Row
    <3>3. row' = [credit |-> row.credit, age |-> row.age + 1] /\ row' # None
      <4>1. Older(row) = [credit |-> row.credit, age |-> AtMost(MaxAge, row.age + 1)]
        BY <3>2 DEF Older
      <4> QED
        BY <1>1, <2>2, <3>2, <4>1, Sizes, WorthFills DEF AtMost
    <3>4. row'.age * Rate = row.age * Rate + Rate /\ row.age * Rate \in Int
      <4>1. row.age \in Int /\ Rate \in Nat
        BY <2>2, <3>2, Sizes
      <4>2. row'.age = row.age + 1
        BY <3>3
      <4>3. (row.age + 1) * Rate = row.age * Rate + Rate /\ row.age * Rate \in Int
        BY <4>1, Times
      <4> QED
        BY <4>2, <4>3
    <3>5. Worth(row)' <= Tokens'
      <4>1. Worth(row)' = Worth(Older(row))
        BY <1>1 DEF Worth
      <4>2. Worth(Older(row)) = AtMost(Full, Worth(row) + Rate) /\ Worth(row) \in Int
        BY <3>2, WorthFills
      <4> QED
        BY <1>6, <3>2, <4>1, <4>2, Sizes DEF AtMost
    <3>6. row'.credit + Cost <= Tokens'
      BY <1>6, <3>2, <3>3, Sizes
    <3>7. Tokens' <= row'.credit + Cost + row'.age * Rate
      BY <1>6, <3>2, <3>3, <3>4, Sizes
    <3>8. Spent(p)'
      BY <3>1, <3>2, <3>3, <3>5, <3>6, <3>7 DEF Spent
    <3> QED
      BY <3>1, <3>8
  <2>5. CASE call[p].at = "swept" /\ row = None /\ Tokens = Full
    BY <1>1, <1>2, <1>6, <2>1, <2>5, Sizes DEF Older, AtMost
  <2> QED
    BY <2>3, <2>4, <2>5 DEF Inv, HeldFor
<1>12. Refusing'
  <2> SUFFICES ASSUME NEW p \in Procs, call'[p].at \in {"look", "refused"}
               PROVE  Tokens' < Cost + call'[p].lag * Rate
    BY DEF Refusing
  <2>1. Tokens < Cost + call[p].lag * Rate /\ call'[p].lag = call[p].lag + 1
    BY <1>2 DEF Inv, Refusing, Idle
  <2>2. call'[p].lag * Rate = call[p].lag * Rate + Rate /\ call[p].lag * Rate \in Int
    <3>1. call[p].lag \in Int /\ Rate \in Nat
      BY Unchanging, Sizes
    <3>2. (call[p].lag + 1) * Rate = call[p].lag * Rate + Rate /\ call[p].lag * Rate \in Int
      BY <3>1, Times
    <3> QED
      BY <2>1, <3>2
  <2> QED
    BY <1>6, <2>1, <2>2, Sizes
<1>13. Unanswered'
  BY <1>1, <1>2 DEF Inv, Unanswered
<1>14. Promised'
  <2> SUFFICES ASSUME NEW p \in Procs, promise'[p] # NoPromise
               PROVE  Tokens' + promise'[p] * Rate >= Cost
    BY DEF Promised
  <2>1. promise[p] # NoPromise /\ Tokens + promise[p] * Rate >= Cost /\ promise[p] \in Nat
    BY <1>7, Unchanging, Sizes DEF Inv, Promised, NoPromise
  <2>2. CASE promise[p] = 0
    BY <1>6, <1>7, <2>1, <2>2, Sizes
  <2>3. CASE promise[p] # 0
    <3>1. promise'[p] = promise[p] - 1 /\ promise'[p] \in Nat
      BY <1>7, <2>1, <2>3
    <3>2. /\ promise'[p] * Rate = promise[p] * Rate - Rate /\ promise[p] * Rate \in Int
          /\ promise'[p] * Rate >= 0 * Rate
      BY <2>1, <3>1, Sizes, Times
    <3> QED
      BY <1>6, <2>1, <3>2, Sizes DEF AtMost
  <2> QED
    BY <2>2, <2>3
<1>15. Bucket!Refill
  BY <1>1, <1>6 DEF Bucket!Refill, Bucket!AtMost, Bucket!Full, AtMost, Full
<1> QED
  BY <1>9, <1>10, <1>11, <1>12, <1>13, <1>14, <1>15 DEF Inv, Bucket!Next

-----------------------------------------------------------------------------
(* Theorems                                                                 *)

(* What every step does, seen from the state that the invariant describes.  *)
LEMMA NextStep ==
  ASSUME Inv, [Next]_vars
  PROVE  Inv' /\ [Bucket!Next]_(Bucket!vars)
<1>1. CASE UNCHANGED vars
  <2>1. Tokens' = Tokens
    BY <1>1 DEF vars, Tokens, Committed
  <2>2. Inv'
    BY <1>1, <2>1 DEF vars, Inv, TypeOK, Shapes, HeldFor, Spent, Worth, Refusing, Unanswered,
                      Promised
  <2> QED
    BY <1>1, <2>1, <2>2 DEF vars, Bucket!vars
<1>2. CASE Tick
  BY <1>2, TickStep
<1>3. ASSUME NEW p \in Procs, Ask(p)
      PROVE  Inv' /\ [Bucket!Next]_(Bucket!vars)
  <2>1. Inv' /\ Tokens' = Tokens /\ reply' = [reply EXCEPT ![p] = "none"]
    BY <1>3, AskStep DEF Ask
  <2>2. CASE reply[p] = "none"
    <3>1. reply' = reply
      BY <2>1, <2>2, Unchanging
    <3> QED
      BY <2>1, <3>1 DEF Bucket!vars
  <2>3. CASE reply[p] # "none"
    BY <2>1, <2>3 DEF Bucket!Next, Bucket!Ask
  <2> QED
    BY <2>2, <2>3
<1>4. ASSUME NEW p \in Procs, AskOther(p) \/ Insert(p) \/ Spend(p) \/ Look(p) \/ Sweep(p)
      PROVE  Inv' /\ [Bucket!Next]_(Bucket!vars)
  <2>1. reply' = reply
    BY <1>4 DEF AskOther, Insert, Spend, Look, Sweep
  <2>2. Inv' /\ Tokens' = Tokens
    BY <1>4, AskOtherStep, InsertStep, SpendStep, LookStep, SweepStep
  <2> QED
    BY <2>1, <2>2 DEF Bucket!vars
<1>5. ASSUME NEW p \in Procs, Commit(p) \/ Fail(p)
      PROVE  Inv' /\ [Bucket!Next]_(Bucket!vars)
  BY <1>5, CommitStep, FailStep
<1> QED
  BY <1>1, <1>2, <1>3, <1>4, <1>5 DEF Next

LEMMA Invariance == Spec => []Inv
<1>1. Init => Inv
  BY InitInv
<1>2. Inv /\ [Next]_vars => Inv'
  BY NextStep
<1> QED
  BY <1>1, <1>2, PTL DEF Spec

(* The row, its lock and the calls of every process keep their shapes:      *)
(* credit never leaves 0 .. Full, and a call that was let in still holds    *)
(* the lock on the row (api/ratelimit.py, acquire).                         *)
THEOREM TypeCorrect == Spec => []TypeOK
<1>1. Inv => TypeOK
  BY DEF Inv
<1> QED
  BY <1>1, Invariance, PTL

(* Any number of processes, whatever transactions overlap, roll back or     *)
(* sweep, are together one token bucket (ratelimit.py:14-16).               *)
THEOREM AllAreOneBucket == Spec => OneBucket
<1>1. Init => Bucket!Init
  BY DEF Init, Bucket!Init, Tokens, Committed, Full, Bucket!Full
<1>2. Inv /\ [Next]_vars => [Bucket!Next]_(Bucket!vars)
  BY NextStep
<1> QED
  BY <1>1, <1>2, Invariance, PTL DEF Spec, OneBucket, Bucket!Spec

(* A client that waits as long as Retry-After said finds a token, for any   *)
(* rate and whatever statements the wait was measured between.              *)
THEOREM PromiseKept == Spec => []RetryAfterKept
<1>1. Inv => RetryAfterKept
  <2> SUFFICES ASSUME Inv, NEW p \in Procs, promise[p] = 0 PROVE Tokens >= Cost
    BY DEF RetryAfterKept
  <2>1. Tokens + 0 * Rate >= Cost
    BY DEF Inv, Promised, NoPromise
  <2> QED
    BY <2>1, TokensWorth, Sizes DEF Inv
<1> QED
  BY <1>1, Invariance, PTL

=============================================================================
