-------------------------- MODULE MCCheckPipeline --------------------------
(* Small instances of CheckPipeline: four checks, two prices, the shop's   *)
(* typical answers, and one rule of each way of firing.                     *)
EXTENDS CheckPipeline, TLC

CONSTANTS c1, c2, c3, c4, dropped, below, back

Answer(outcome, price, currency, availability, retracts) ==
  [outcome |-> outcome, price |-> price, currency |-> currency,
   availability |-> availability, retracts |-> retracts]

(* A price, a lower price, the lower price in another currency and out of   *)
(* stock, a transient failure, a page that says in stock and no price, and  *)
(* the retraction of a stock reading that never was about the product.      *)
MCResult ==
  { Answer("ok", 2, "INR", "in_stock", FALSE),
    Answer("ok", 1, "INR", "in_stock", FALSE),
    Answer("ok", 1, "USD", "out_of_stock", FALSE),
    Answer("timeout", NoPrice, NoCurrency, "unknown", FALSE),
    Answer("price_not_found", NoPrice, NoCurrency, "in_stock", FALSE),
    Answer("needs_location", NoPrice, NoCurrency, "unknown", TRUE) }

MCRuleType == dropped :> "price_dropped" @@ below :> "price_below_target"
              @@ back :> "became_available"

MCTarget == dropped :> 9 @@ below :> 1 @@ back :> 9

MCCooldown == dropped :> 0 @@ below :> 1 @@ back :> 2

=============================================================================
