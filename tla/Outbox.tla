------------------------------- MODULE Outbox -------------------------------
(***************************************************************************)
(* What the table of notifications promises of the alerts in it, whoever   *)
(* delivers them: each is open until it is decided, it is decided for a    *)
(* reason, and once decided it is neither offered nor decided again        *)
(* (_deliver_digest: `every alert keeps its own row, its own dedupe key,   *)
(* and its own delivered-exactly-once guarantee').  The last of these      *)
(* holds of the alerts that are not disturbed: one delivery at a time had  *)
(* them, it came to its end, and every provider's answer arrived.          *)
(***************************************************************************)
EXTENDS Integers

CONSTANTS
  Alert,
  Address,    \* where each alert may go, a set of [route, recipient]
  Nowhere,    \* where an alert goes that is not there yet
  MaxTries    \* offers after which an alert is given up

VARIABLES
  standing,   \* of each alert
  to,         \* its address
  copies,     \* messages that held it, up to two
  tries,      \* times it was offered, up to MaxTries
  disturbed   \* the alerts nothing is promised of

vars == <<standing, to, copies, tries, disturbed>>

Decided == {"sent", "suppressed", "given_up"}

Init ==
  /\ standing = [n \in Alert |-> "absent"]
  /\ to = [n \in Alert |-> Nowhere]
  /\ copies = [n \in Alert |-> 0]
  /\ tries = [n \in Alert |-> 0]
  /\ disturbed = {}

Post(n) ==
  /\ standing[n] = "absent"
  /\ standing' = [standing EXCEPT ![n] = "open"]
  /\ \E a \in Address[n] : to' = [to EXCEPT ![n] = a]
  /\ UNCHANGED <<copies, tries, disturbed>>

Live(n) == standing[n] # "absent" /\ (standing[n] = "open" \/ n \in disturbed)

AtMost(bound, i) == IF i > bound THEN bound ELSE i

(* The alerts of B go out together, in so many messages.                    *)
Offer(B, messages) ==
  /\ B # {}
  /\ \A n \in B : Live(n) /\ to[n].route # {}
  /\ \A m, n \in B : to[m] = to[n]
  /\ copies' = [n \in Alert |->
       IF n \in B THEN AtMost(2, copies[n] + messages) ELSE copies[n]]
  /\ tries' = [n \in Alert |-> IF n \in B THEN AtMost(MaxTries, tries[n] + 1) ELSE tries[n]]
  /\ disturbed' \in {disturbed, disturbed \cup B}
  /\ \A n \in B : copies'[n] > 1 => n \in disturbed'
  /\ UNCHANGED <<standing, to>>

Reason(n, s) ==
  \/ s = "open"
  \/ s = "sent" /\ copies[n] > 0
  \/ s = "suppressed" /\ to[n].route = {}
  \/ s = "given_up" /\ tries[n] = MaxTries

(* Some alerts are decided, or a disturbed one is decided otherwise.        *)
Decide ==
  /\ standing' \in [Alert -> {"absent", "open"} \cup Decided]
  /\ \A n \in Alert : standing'[n] # standing[n] => Live(n) /\ Reason(n, standing'[n])
  /\ UNCHANGED <<to, copies, tries, disturbed>>

(* Others take up the alerts of B too, or who had them will not come back.  *)
Disturb(B) ==
  /\ \A n \in B : standing[n] # "absent"
  /\ disturbed' = disturbed \cup B
  /\ UNCHANGED <<standing, to, copies, tries>>

Next ==
  \/ \E n \in Alert : Post(n)
  \/ \E B \in SUBSET Alert : Disturb(B) \/ \E messages \in 0 .. 2 : Offer(B, messages)
  \/ Decide

Spec == Init /\ [][Next]_vars
=============================================================================
