---------------------- MODULE MCNotificationDelivery ----------------------
(* Small instances of NotificationDelivery: the retry job, and the pass a   *)
(* check makes over the product of the later notifications.                 *)
EXTENDS NotificationDelivery, TLC

CONSTANTS retry, check, email, telegram, alice, bob

MCScope == [d \in Pass |-> IF d = retry THEN Notification ELSE Notification \ {1}]

(* Two accounts share a channel; the second alert asks for a channel that   *)
(* is not configured.                                                       *)
MCKeys ==
  LET Email(who) == [route |-> {email, telegram}, recipient |-> who]
      Unconfigured == [route |-> {}, recipient |-> bob]
  IN  [n \in Notification |->
         CASE n = 1 -> {Email(alice)}
           [] n = 2 -> {Unconfigured}
           [] n = 3 -> {Email(alice), Email(bob)}]

=============================================================================
