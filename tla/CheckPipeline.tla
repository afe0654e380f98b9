--------------------------- MODULE CheckPipeline ---------------------------
(***************************************************************************)
(* The checks of one product, from the first read of its row to the commit *)
(* (services/tracking.py, change_detection.py, rules_engine.py and the     *)
(* recording half of notification_service.py).                             *)
(*                                                                         *)
(* A check is one database session.  It loads the product, waits for the   *)
(* guard and the shop, then reads the last entries of the two histories    *)
(* (Observe), and writes everything in one go (Commit).  Loading and       *)
(* writing are far apart, and the ORM writes an attribute only when it     *)
(* differs from what was loaded, so what a check overwrites depends on     *)
(* what other checks did in between.  The workers and the sweep run checks *)
(* under a claim (CheckClaims), one at a time; the API and the CLI start   *)
(* them without one.                                                       *)
(*                                                                         *)
(* The rows of check_executions are left out: nothing in a check reads     *)
(* them.                                                                   *)
(***************************************************************************)
EXTENDS Integers, FiniteSets, FiniteSetsExt

CONSTANTS
  Check,        \* the checks, each run once
  Unclaimed,    \* those started through the API or the CLI, without a claim
  Result,       \* what a fetch may return, see ResultType
  MaxAttempts,  \* settings.http_max_retries, at least one
  Rule,         \* the enabled rules of the product
  RuleType,     \* rule -> its rule_type
  Target,       \* rule -> params.target_price, used by price_below_target
  Cooldown,     \* rule -> cooldown_seconds, in ticks; zero for none
  Window,       \* notification_dedupe_window_seconds, in ticks
  MaxTime       \* bound on the clock

ASSUME PipelineAssumption ==
  /\ IsFiniteSet(Check)
  /\ Unclaimed \subseteq Check
  /\ MaxAttempts \in Nat \ {0}
  /\ Window \in Nat \ {0}
  /\ MaxTime \in Nat
  /\ Cooldown \in [Rule -> Nat]
  /\ Target \in [Rule -> Nat \ {0}]

NoPrice == 0
NoCurrency == "-"
Nothing == "-"      \* no availability on record

Purchasable == {"in_stock"}
NotPurchasable == {"out_of_stock", "unavailable"}
Availability == Purchasable \cup NotPurchasable \cup {"unknown"}

SuccessOutcomes == {"ok", "out_of_stock", "unavailable"}
TransientOutcomes == {"timeout", "http_error", "error"}
FetchOutcome == SuccessOutcomes \cup TransientOutcomes \cup
  {"price_not_found", "blocked", "page_structure", "needs_location"}

(* A price has a currency, and only escalate() retracts: a failed outcome   *)
(* that forces the availability back to "unknown".  Otherwise outcome and   *)
(* availability are independent.                                            *)
ResultType(r) ==
  /\ r.outcome \in FetchOutcome
  /\ r.price \in Nat
  /\ r.price # NoPrice => r.currency # NoCurrency
  /\ r.outcome = "ok" => r.price # NoPrice
  /\ r.availability \in Availability
  /\ r.retracts \in BOOLEAN
  /\ r.retracts => r.outcome = "needs_location" /\ r.availability = "unknown"

ASSUME ResultAssumption == \A r \in Result : ResultType(r)

Succeeded(r) == r.outcome \in SuccessOutcomes

VARIABLES
  now,          \* the clock
  product,      \* the committed product row
  prices,       \* price_history: a set of rows, ordered by id
  stocks,       \* availability_history, likewise
  lastFired,    \* rule -> last_fired_at, or -1
  alerts,       \* the notification rows
  pc,           \* where each check is
  loaded,       \* the product row as the check loaded it
  result,       \* the last fetch result of the check
  attempts,     \* fetches made by the check
  observed,     \* what the check read and when, see NotObserved
  nextId,       \* the id of the next history row
  streak        \* history: failed checks committed since the last success

vars == <<now, product, prices, stocks, lastFired, alerts, pc, loaded, result,
          attempts, observed, nextId, streak>>

shop == <<product, prices, stocks, lastFired, alerts, streak>>

Stage == {"new", "guarded", "fetching", "observed", "done"}

NewProduct ==
  [price |-> NoPrice, currency |-> NoCurrency, availability |-> "unknown",
   failures |-> 0]

NoResult == [outcome |-> "blocked", price |-> NoPrice, currency |-> NoCurrency,
             availability |-> "unknown", retracts |-> FALSE]

NotObserved == [id |-> 0, at |-> 0, lastPrice |-> NoPrice,
                lastCurrency |-> NoCurrency, lastStock |-> Nothing]

(* The newest row of a history: latest() orders by observed_at, then id,    *)
(* and both grow with the moment a check observes.                          *)
Latest(rows) == CHOOSE x \in rows : \A y \in rows : y.id <= x.id

-----------------------------------------------------------------------------
(* change_detection.py                                                      *)

(* Mutant: every price that was read is appended.                           *)
DetectPriceAlways(r, o) ==
  LET read == Succeeded(r) /\ r.price # NoPrice
  IN  [record |-> read, changed |-> read, current |-> r.price]

DetectPrice(r, o) ==
  LET differs == \/ r.price # o.lastPrice
                 \/ /\ r.currency # NoCurrency
                    /\ o.lastCurrency # r.currency
  IN  IF ~Succeeded(r) \/ r.price = NoPrice
        THEN [record |-> FALSE, changed |-> FALSE, current |-> NoPrice]
        ELSE [record |-> differs,
              changed |-> differs /\ o.lastPrice # NoPrice,
              current |-> r.price]

DetectStock(r, o) ==
  LET differs == r.availability # o.lastStock
  IN  IF r.retracts
        THEN LET clears == o.lastStock \notin {Nothing, "unknown"}
             IN  [record |-> clears, changed |-> clears, current |-> "unknown"]
        ELSE IF ~Succeeded(r)
          THEN [record |-> FALSE, changed |-> FALSE, current |-> r.availability]
          ELSE [record |-> differs,
                changed |-> differs /\ o.lastStock # Nothing,
                current |-> r.availability]

-----------------------------------------------------------------------------
(* rules_engine.py                                                          *)

InCooldown(r, at) ==
  Cooldown[r] > 0 /\ lastFired[r] >= 0 /\ at < lastFired[r] + Cooldown[r]

(* Mutant: coming from "unknown" counts as coming back.                     *)
MatchesFromUnknown(r, x) ==
  RuleType[r] = "became_available" /\ x.previousStock # "in_stock"
                                   /\ x.currentStock = "in_stock"

(* One alternative per evaluator.  x is the RuleContext.                    *)
Matches(r, x) ==
  LET known == x.previousPrice # NoPrice /\ x.currentPrice # NoPrice
      type == RuleType[r]
  IN  \/ /\ type = "price_changed"
         /\ known /\ x.currentPrice # x.previousPrice
      \/ /\ type = "price_dropped"
         /\ known /\ x.currentPrice < x.previousPrice
      \/ /\ type = "price_increased"
         /\ known /\ x.currentPrice > x.previousPrice
      \/ /\ type = "price_below_target"
         /\ x.currentPrice # NoPrice /\ x.currentPrice <= Target[r]
      \/ /\ type = "became_available"
         /\ x.previousStock \in NotPurchasable /\ x.currentStock = "in_stock"
      \/ /\ type = "became_unavailable"
         /\ x.previousStock = "in_stock" /\ x.currentStock \in NotPurchasable

ChangeRule == {"price_changed", "price_dropped", "price_increased"}

(* dedupe_signature: a change rule is keyed on the transition, the target   *)
(* rule on price and target, an availability rule on the resulting state.   *)
Signature(r, x) ==
  [from |-> IF RuleType[r] \in ChangeRule THEN x.previousPrice ELSE NoPrice,
   to |-> IF RuleType[r] \in ChangeRule \cup {"price_below_target"}
            THEN x.currentPrice ELSE NoPrice,
   stock |-> IF RuleType[r] \in {"became_available", "became_unavailable"}
               THEN x.currentStock ELSE Nothing]

-----------------------------------------------------------------------------
TypeOK ==
  /\ now \in 0 .. MaxTime
  /\ product.price \in Nat /\ product.failures \in 0 .. Cardinality(Check)
  /\ product.availability \in Availability
  /\ \A h \in prices : h.price \in Nat \ {NoPrice} /\ h.id < nextId
  /\ \A h \in stocks : h.availability \in Availability /\ h.id < nextId
  /\ lastFired \in [Rule -> -1 .. MaxTime]
  /\ \A a \in alerts : a.rule \in Rule /\ a.at \in 0 .. MaxTime
  /\ pc \in [Check -> Stage]
  /\ attempts \in [Check -> 0 .. MaxAttempts]
  /\ \A c \in Check : result[c] \in Result \cup {NoResult}
  /\ \A h, g \in prices : h.id = g.id => h = g
  /\ \A a, b \in alerts :
       a.rule = b.rule /\ a.signature = b.signature /\ a.bucket = b.bucket => a = b

Init ==
  /\ now = 0
  /\ product = NewProduct
  /\ prices = {} /\ stocks = {} /\ alerts = {}
  /\ lastFired = [r \in Rule |-> -1]
  /\ pc = [c \in Check |-> "new"]
  /\ loaded = [c \in Check |-> NewProduct]
  /\ result = [c \in Check |-> NoResult]
  /\ attempts = [c \in Check |-> 0]
  /\ observed = [c \in Check |-> NotObserved]
  /\ nextId = 1
  /\ streak = 0

(* A check that is over keeps nothing.                                      *)
Over(c) ==
  /\ pc' = [pc EXCEPT ![c] = "done"]
  /\ loaded' = [loaded EXCEPT ![c] = NewProduct]
  /\ result' = [result EXCEPT ![c] = NoResult]
  /\ attempts' = [attempts EXCEPT ![c] = 0]
  /\ observed' = [observed EXCEPT ![c] = NotObserved]

-----------------------------------------------------------------------------
(* The steps of a check.                                                    *)

(* The session opens and loads the row.  Claimed checks exclude each other. *)
Begin(c) ==
  /\ pc[c] = "new"
  /\ c \in Unclaimed \/ \A d \in Check \ Unclaimed : pc[d] \in {"new", "done"}
  /\ pc' = [pc EXCEPT ![c] = "guarded"]
  /\ loaded' = [loaded EXCEPT ![c] = product]
  /\ UNCHANGED <<shop, now, result, attempts, observed, nextId>>

(* The guard answers.  A veto is recorded as a skipped execution, which     *)
(* touches neither the product nor its failure count.                       *)
Veto(c) ==
  /\ pc[c] = "guarded"
  /\ Over(c)
  /\ UNCHANGED <<shop, now, nextId>>

Proceed(c) ==
  /\ pc[c] = "guarded"
  /\ pc' = [pc EXCEPT ![c] = "fetching"]
  /\ UNCHANGED <<shop, now, loaded, result, attempts, observed, nextId>>

MoreAttempts(c) ==
  /\ attempts[c] < MaxAttempts
  /\ attempts[c] = 0 \/ result[c].outcome \in TransientOutcomes

(* One attempt of _fetch_with_retry.                                        *)
Fetch(c) ==
  /\ pc[c] = "fetching"
  /\ MoreAttempts(c)
  /\ \E r \in Result : result' = [result EXCEPT ![c] = r]
  /\ attempts' = [attempts EXCEPT ![c] = @ + 1]
  /\ UNCHANGED <<shop, now, pc, loaded, observed, nextId>>

(* _record begins: the time is taken, the histories are read, the check's   *)
(* rows get their ids.                                                      *)
Observe(c) ==
  /\ pc[c] = "fetching"
  /\ ~MoreAttempts(c)
  /\ observed' = [observed EXCEPT ![c] =
       [id |-> nextId, at |-> now,
        lastPrice |-> IF prices = {} THEN NoPrice ELSE Latest(prices).price,
        lastCurrency |-> IF prices = {} THEN NoCurrency ELSE Latest(prices).currency,
        lastStock |-> IF stocks = {} THEN Nothing ELSE Latest(stocks).availability]]
  /\ nextId' = nextId + 1
  /\ pc' = [pc EXCEPT ![c] = "observed"]
  /\ UNCHANGED <<shop, now, loaded, result, attempts>>

-----------------------------------------------------------------------------
(* What a check writes.                                                     *)

(* Mutant: a failed fetch clears the price on record.                       *)
AppliedErasing(c) ==
  LET r == result[c]  p == loaded[c]
  IN  [price |-> r.price, currency |-> p.currency,
       availability |-> IF Succeeded(r) \/ r.retracts
                          THEN r.availability ELSE p.availability,
       failures |-> IF Succeeded(r) THEN 0 ELSE p.failures + 1]

(* Mutant: a success leaves the failure count alone.                        *)
AppliedKeepingFailures(c) ==
  [AppliedErasing(c) EXCEPT
     !.failures = loaded[c].failures + (IF Succeeded(result[c]) THEN 0 ELSE 1)]

(* The row in the session after _apply or the failure branch.               *)
Applied(c) ==
  LET r == result[c]  p == loaded[c]
  IN  IF Succeeded(r)
        THEN [price |-> IF r.price # NoPrice THEN r.price ELSE p.price,
              currency |-> IF r.currency # NoCurrency THEN r.currency ELSE p.currency,
              availability |-> r.availability,
              failures |-> 0]
        ELSE [p EXCEPT !.failures = @ + 1,
                       !.availability = IF r.retracts THEN "unknown" ELSE @]

(* The flush: only attributes that differ from the loaded ones are written. *)
Flushed(c) ==
  [f \in DOMAIN product |->
     IF Applied(c)[f] # loaded[c][f] THEN Applied(c)[f] ELSE product[f]]

(* The RuleContext.  A check without a price of its own falls back on the   *)
(* product's.                                                               *)
Context(c) ==
  LET found == DetectPrice(result[c], observed[c]).current
  IN  [previousPrice |-> observed[c].lastPrice,
       currentPrice |-> IF found # NoPrice THEN found ELSE Applied(c).price,
       previousStock |-> IF observed[c].lastStock = Nothing
                           THEN "unknown" ELSE observed[c].lastStock,
       currentStock |-> DetectStock(result[c], observed[c]).current]

Matched(c) ==
  {r \in Rule : ~InCooldown(r, observed[c].at) /\ Matches(r, Context(c))}

AlertOf(c, r) ==
  [rule |-> r, signature |-> Signature(r, Context(c)),
   bucket |-> observed[c].at \div Window, at |-> observed[c].at]

(* Mutant: the key holds the moment instead of the window.                  *)
DuplicateNow(a) ==
  \E b \in alerts :
    b.rule = a.rule /\ b.signature = a.signature /\ b.at = a.at

(* create_if_new: the unique dedupe_key lets the first alert of a bucket in.*)
Duplicate(a) ==
  \E b \in alerts :
    b.rule = a.rule /\ b.signature = a.signature /\ b.bucket = a.bucket

Recorded(c) == {a \in {AlertOf(c, r) : r \in Matched(c)} : ~Duplicate(a)}

(* Mutant: only a rule whose alert is a duplicate starts its cooldown.      *)
FiredDuplicates(c) == {r \in Matched(c) : Duplicate(AlertOf(c, r))}

(* mark_fired: if anything at all was recorded, every matched rule.         *)
Fired(c) == IF Recorded(c) = {} THEN {} ELSE Matched(c)

(* _evaluate_rules.  A rule that raises is logged, and takes with it the    *)
(* alerts of every rule; the rest of the check commits.                     *)
Announce(c) ==
  \/ /\ alerts' = alerts \cup Recorded(c)
     /\ lastFired' =
          [q \in Rule |-> IF q \in Fired(c) THEN observed[c].at ELSE lastFired[q]]
  \/ UNCHANGED <<alerts, lastFired>>

(* The transaction goes through.  The product's row is locked from its      *)
(* flush to the commit, so the writes of two checks never interleave.       *)
Commit(c) ==
  LET o == observed[c]  r == result[c]
  IN  /\ pc[c] = "observed"
      /\ product' = Flushed(c)
      /\ prices' = IF DetectPrice(r, o).record
                     THEN prices \cup {[id |-> o.id, price |-> r.price, currency |->
                            IF r.currency # NoCurrency THEN r.currency
                                                       ELSE loaded[c].currency]}
                     ELSE prices
      /\ stocks' = IF DetectStock(r, o).record
                     THEN stocks \cup {[id |-> o.id,
                            availability |-> DetectStock(r, o).current]}
                     ELSE stocks
      /\ Announce(c)
      /\ streak' = IF Succeeded(r) THEN 0 ELSE streak + 1
      /\ Over(c)
      /\ UNCHANGED <<now, nextId>>

(* The process dies, or the database fails, before the commit.              *)
Rollback(c) ==
  /\ pc[c] \notin {"new", "done"}
  /\ Over(c)
  /\ UNCHANGED <<shop, now, nextId>>

Tick ==
  /\ now < MaxTime
  /\ now' = now + 1
  /\ UNCHANGED <<shop, pc, loaded, result, attempts, observed, nextId>>

Step(c) ==
  \/ Begin(c) \/ Veto(c) \/ Proceed(c) \/ Fetch(c) \/ Observe(c) \/ Commit(c)
  \/ Rollback(c)

Next == Tick \/ \E c \in Check : Step(c)

Spec == Init /\ [][Next]_vars

-----------------------------------------------------------------------------
(* Properties.                                                              *)

(* Both histories hold only meaningful observations: the first, and each    *)
(* change (docs/architecture.md:126).                                       *)
MeaningfulHistory ==
  /\ \A h \in prices :
       LET before == {g \in prices : g.id < h.id}
       IN  before # {} =>
             \/ Latest(before).price # h.price
             \/ Latest(before).currency # h.currency
  /\ \A h \in stocks :
       LET before == {g \in stocks : g.id < h.id}
       IN  before # {} => Latest(before).availability # h.availability

(* The product row and the histories never disagree about the last known    *)
(* price and availability, through failed fetches, retractions, skipped     *)
(* checks and rollbacks.                                                    *)
RowAgreesWithHistory ==
  /\ product.price = IF prices = {} THEN NoPrice ELSE Latest(prices).price
  /\ product.availability =
       IF stocks = {} THEN "unknown" ELSE Latest(stocks).availability

(* consecutive_failures counts the failed checks since the last success.    *)
CountsFailures == product.failures = streak

(* A page that names its stock but no price: the fetch did not succeed, its *)
(* availability is kept out of the histories, and yet it reaches the rules. *)
StockWithoutPrice(c) ==
  /\ pc[c] = "observed" /\ pc'[c] = "done"
  /\ ~Succeeded(result[c]) /\ result[c].availability # "unknown"

(* An alert of a change rule announces a change that the histories hold: a  *)
(* price alert the step between the last two prices, taken in the same      *)
(* commit; a stock alert the step from one known state to another, taken in *)
(* the same commit but for a page that named its stock and no price.        *)
(* Neither comes from a retraction or a first observation.                  *)
AlertsAreChanges ==
  [][\A a \in alerts' \ alerts :
       /\ RuleType[a.rule] \in ChangeRule =>
            /\ prices' # prices /\ prices # {}
            /\ a.signature.from = Latest(prices).price
            /\ a.signature.to = Latest(prices').price
       /\ RuleType[a.rule] \in {"became_available", "became_unavailable"} =>
            /\ stocks # {}
            /\ Latest(stocks).availability \in
                 IF RuleType[a.rule] = "became_available"
                   THEN NotPurchasable ELSE Purchasable
            /\ \/ /\ stocks' # stocks
                  /\ a.signature.stock = Latest(stocks').availability
               \/ \E c \in Check : StockWithoutPrice(c)]_vars

(* Two alerts of a rule are at least its cooldown apart.                    *)
CooldownKept ==
  \A a, b \in alerts :
    a # b /\ a.rule = b.rule =>
      a.at + Cooldown[a.rule] <= b.at \/ b.at + Cooldown[a.rule] <= a.at

=============================================================================
