---------------------------- MODULE TokenBucket ----------------------------
(***************************************************************************)
(* What a rate limiter promises one client: a bucket that fills steadily   *)
(* and holds a burst.  With MaxLag = 0 this is TokenBucketLimiter, whose   *)
(* one process decides under a lock with one clock (api/ratelimit.py).     *)
(* MaxLag is for limiters whose clock may be behind: what was spent by a   *)
(* late clock refills a little longer, and a refusal may be a little late. *)
(***************************************************************************)
EXTENDS Integers

CONSTANTS
  Callers,
  Rate,    \* units of credit a second
  Cost,    \* units in a token
  Burst,   \* tokens held at most
  MaxLag   \* seconds a clock may be behind

VARIABLES
  tokens,  \* units in the bucket
  reply    \* the answer to each caller's last request

vars == <<tokens, reply>>

Full == Burst * Cost
AtMost(a, b) == IF a < b THEN a ELSE b

Init ==
  /\ tokens = Full
  /\ reply = [c \in Callers |-> "none"]

Answer(c, r) == reply[c] = "none" /\ reply' = [reply EXCEPT ![c] = r]

Ask(c) ==
  /\ reply[c] # "none"
  /\ reply' = [reply EXCEPT ![c] = "none"]
  /\ UNCHANGED tokens

Refill == tokens' = AtMost(Full, tokens + Rate) /\ UNCHANGED reply

Admit(c) ==
  /\ tokens >= Cost
  /\ \E refund \in 0 .. MaxLag * Rate : tokens' = AtMost(Full, tokens - Cost + refund)
  /\ Answer(c, "allowed")

Refuse(c) ==
  /\ tokens < Cost + MaxLag * Rate
  /\ Answer(c, "refused")
  /\ UNCHANGED tokens

(* A limiter that cannot reach its bucket lets the request pass, and one    *)
(* whose bucket is dropped under the request refuses it; neither spends.    *)
Unmetered(c) ==
  /\ Answer(c, "excused") \/ Answer(c, "forgotten")
  /\ UNCHANGED tokens

Next ==
  \/ Refill
  \/ \E c \in Callers : Ask(c) \/ Admit(c) \/ Refuse(c) \/ Unmetered(c)

Spec == Init /\ [][Next]_vars
=============================================================================
