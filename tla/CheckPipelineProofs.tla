------------------------ MODULE CheckPipelineProofs ------------------------
(* What holds of CheckPipeline for any checks, answers of a shop, rules and *)
(* intervals: types without further assumptions, and what the histories,    *)
(* the row and the alerts say of each other where every check has a claim.  *)
EXTENDS CheckPipeline, FiniteSetTheorems, TLAPS

(* Every check takes a claim, as the worker's and the sweep's do: the API   *)
(* and the CLI start none.  CheckClaims keeps claimed checks apart.         *)
AllClaimed == Unclaimed = {}

Money == {r.currency : r \in Result} \cup {NoCurrency}

Row == [price : Nat, currency : Money, availability : Availability, failures : Nat]

Observation ==
  [id : Nat, at : 0 .. MaxTime, lastPrice : Nat, lastCurrency : Money,
   lastStock : Availability \cup {Nothing}]

PriceRow == [id : Nat, price : Nat \ {NoPrice}, currency : Money]
StockRow == [id : Nat, availability : Availability]

(* A set of history rows whose newest is well defined.                      *)
HasNewest(rows) ==
  /\ \A g, h \in rows : g.id = h.id => g = h
  /\ rows # {} => \E x \in rows : \A y \in rows : y.id <= x.id

(* What an observation reads of the histories.                              *)
PriceOnRecord == IF prices = {} THEN NoPrice ELSE Latest(prices).price
CurrencyOnRecord == IF prices = {} THEN NoCurrency ELSE Latest(prices).currency
StockOnRecord == IF stocks = {} THEN Nothing ELSE Latest(stocks).availability

-----------------------------------------------------------------------------
(* Latest, where it is defined                                              *)

(* The newest row of a history is one of its rows, and none has a higher id.*)
LEMMA LatestIsNewest ==
  ASSUME NEW rows, HasNewest(rows), rows # {}
  PROVE  /\ Latest(rows) \in rows
         /\ \A y \in rows : y.id <= Latest(rows).id
BY DEF Latest, HasNewest

(* A row with a higher id than all becomes the newest.                      *)
LEMMA AppendedIsLatest ==
  ASSUME NEW rows, \A y \in rows : y.id \in Nat,
         NEW x, x.id \in Nat, \A y \in rows : y.id < x.id,
         HasNewest(rows)
  PROVE  /\ HasNewest(rows \cup {x})
         /\ Latest(rows \cup {x}) = x
<1> DEFINE all == rows \cup {x}
<1>1. /\ x \in all /\ \A y \in all : y.id <= x.id
      /\ \A z \in all : (\A y \in all : y.id <= z.id) => z = x
  OBVIOUS
<1>2. Latest(all) = x
  BY <1>1 DEF Latest
<1> QED
  BY <1>1, <1>2 DEF HasNewest

(* A row with an id of its own leaves a newest row.                         *)
LEMMA AddedHasNewest ==
  ASSUME NEW rows, \A y \in rows : y.id \in Nat,
         NEW x, x.id \in Nat, \A y \in rows : y.id # x.id,
         HasNewest(rows)
  PROVE  HasNewest(rows \cup {x})
<1>1. CASE \A y \in rows : y.id < x.id
  BY <1>1, AppendedIsLatest
<1>2. CASE \E y \in rows : x.id < y.id
  <2>1. PICK y \in rows : \A z \in rows : z.id <= y.id
    BY <1>2 DEF HasNewest
  <2>2. x.id <= y.id
    BY <1>2, <2>1
  <2> QED
    BY <2>1, <2>2 DEF HasNewest
<1> QED
  BY <1>1, <1>2

-----------------------------------------------------------------------------
(* Type correctness                                                         *)

Done == {c \in Check : pc[c] = "done"}

(* The shape of what TypeOK leaves open.                                    *)
Shapes ==
  /\ product \in Row /\ loaded \in [Check -> Row]
  /\ result \in [Check -> Result \cup {NoResult}]
  /\ observed \in [Check -> Observation]
  /\ nextId \in Nat /\ streak \in Nat
  /\ prices \in SUBSET PriceRow /\ stocks \in SUBSET StockRow

(* An id is given once: to one check, and then to its rows.                 *)
IdsDiffer ==
  /\ \A c \in Check : pc[c] = "observed" =>
       /\ observed[c].id < nextId
       /\ \A h \in prices \cup stocks : h.id # observed[c].id
  /\ \A c, d \in Check :
       pc[c] = "observed" /\ pc[d] = "observed" /\ c # d => observed[c].id # observed[d].id

(* A failure is counted by a check that is over.                            *)
FailuresBounded ==
  /\ product.failures <= Cardinality(Done)
  /\ \A c \in Check : loaded[c].failures <= Cardinality(Done)

Newest == HasNewest(prices) /\ HasNewest(stocks)

TypeInv == TypeOK /\ Shapes /\ IdsDiffer /\ FailuresBounded /\ Newest

(* What is known of every result, the initial one included.                 *)
LEMMA ResultKnown ==
  ASSUME NEW r \in Result \cup {NoResult}
  PROVE  ResultType(r) /\ r.currency \in Money
<1>1. CASE r \in Result
  BY <1>1, ResultAssumption DEF Money
<1>2. CASE r = NoResult
  <2>1. /\ r.outcome = "blocked" /\ r.price = 0 /\ r.currency = NoCurrency
        /\ r.availability = "unknown" /\ r.retracts \in BOOLEAN /\ ~r.retracts
    BY <1>2 DEF NoResult, NoPrice
  <2> QED
    BY <2>1 DEF ResultType, Money, NoPrice, FetchOutcome, SuccessOutcomes, TransientOutcomes,
       Availability, Purchasable, NotPurchasable
<1> QED
  BY <1>1, <1>2

(* So many checks, or fewer, are over.                                      *)
LEMMA DoneCounts ==
  ASSUME NEW S \in SUBSET Check
  PROVE  /\ IsFiniteSet(S) /\ Cardinality(S) \in Nat
         /\ Cardinality(S) <= Cardinality(Check)
         /\ Cardinality(Check) \in Nat
BY PipelineAssumption, FS_Subset, FS_CardinalityType

(* The checks that are over grow by one, or not at all.                     *)
LEMMA OverCounts ==
  ASSUME pc \in [Check -> Stage], NEW c \in Check, pc[c] # "done",
         pc' = [pc EXCEPT ![c] = "done"]
  PROVE  /\ Cardinality(Done) \in Nat
         /\ Cardinality(Done') = Cardinality(Done) + 1
         /\ Cardinality(Done') <= Cardinality(Check)
<1>1. Done' = Done \cup {c} /\ c \notin Done /\ Done \in SUBSET Check
  BY DEF Done
<1> QED
  BY <1>1, DoneCounts, FS_AddElement

LEMMA InitTypes == Init => TypeInv
<1> USE PipelineAssumption DEF Init
<1> SUFFICES ASSUME Init PROVE TypeInv
  OBVIOUS
<1>1. NewProduct \in Row /\ NotObserved \in Observation
  BY DEF NewProduct, Row, NotObserved, Observation, Money, Availability, Purchasable,
     NotPurchasable, NoPrice, NoCurrency, Nothing
<1>2. Shapes
  BY <1>1 DEF Shapes
<1>3. FailuresBounded
  <2>1. Done \in SUBSET Check
    BY DEF Done
  <2> QED
    BY <2>1, DoneCounts DEF FailuresBounded, NewProduct
<1>4. TypeOK
  BY DoneCounts, {} \in SUBSET Check DEF TypeOK, NewProduct, Availability, Stage, NoPrice
<1> QED
  BY <1>2, <1>3, <1>4 DEF TypeInv, IdsDiffer, Newest, HasNewest

(* What a check writes to the row is a row.                                 *)
LEMMA AppliedIsRow ==
  ASSUME Shapes, NEW c \in Check
  PROVE  Applied(c) \in Row
<1>1. ResultType(result[c]) /\ result[c].currency \in Money
  BY ResultKnown DEF Shapes
<1>2. loaded[c] \in Row
  BY DEF Shapes
<1>3. CASE Succeeded(result[c])
  <2> DEFINE r == result[c]  p == loaded[c]
             price == IF r.price # NoPrice THEN r.price ELSE p.price
             currency == IF r.currency # NoCurrency THEN r.currency ELSE p.currency
  <2>1. /\ price \in Nat /\ currency \in Money /\ r.availability \in Availability
    BY <1>1, <1>2 DEF ResultType, Row
  <2> HIDE DEF price, currency
  <2>2. [price |-> price, currency |-> currency, availability |-> r.availability,
         failures |-> 0] \in Row
    BY <2>1 DEF Row
  <2>3. Applied(c) = [price |-> price, currency |-> currency,
                      availability |-> r.availability, failures |-> 0]
    BY <1>3 DEF Applied, price, currency
  <2> QED
    BY <2>2, <2>3
<1>4. CASE ~Succeeded(result[c])
  <2> DEFINE p == loaded[c]
             stock == IF result[c].retracts THEN "unknown" ELSE p.availability
  <2>1. Applied(c) = [p EXCEPT !.failures = @ + 1,
                               !.availability = IF result[c].retracts THEN "unknown" ELSE @]
    BY <1>4 DEF Applied
  <2>2. Applied(c) = [price |-> p.price, currency |-> p.currency, availability |-> stock,
                      failures |-> p.failures + 1]
    BY <1>2, <2>1 DEF Row
  <2>3. /\ p.price \in Nat /\ p.currency \in Money /\ stock \in Availability
        /\ p.failures + 1 \in Nat
    BY <1>2 DEF Row, Availability
  <2> HIDE DEF p, stock
  <2> QED
    BY <2>2, <2>3 DEF Row
<1> QED
  BY <1>3, <1>4

LEMMA FlushedIsRow ==
  ASSUME Shapes, NEW c \in Check
  PROVE  /\ Flushed(c) \in Row
         /\ Flushed(c).failures \in {Applied(c).failures, product.failures}
<1>1. Applied(c) \in Row /\ product \in Row
  BY AppliedIsRow DEF Shapes
<1>2. DOMAIN product = {"price", "currency", "availability", "failures"}
  BY <1>1 DEF Row
<1> QED
  BY <1>1, <1>2 DEF Flushed, Row

LEMMA AppliedFailures ==
  ASSUME Shapes, NEW c \in Check
  PROVE  Applied(c).failures = IF Succeeded(result[c]) THEN 0 ELSE loaded[c].failures + 1
<1>1. loaded[c] \in Row
  BY DEF Shapes
<1> QED
  BY <1>1 DEF Applied, Row

(* A check that ends keeps nothing, and is one more of those that are over. *)
LEMMA OverTypes ==
  ASSUME TypeInv, NEW c \in Check, pc[c] # "done", Over(c)
  PROVE  /\ pc' \in [Check -> Stage] /\ pc'[c] = "done"
         /\ loaded' \in [Check -> Row] /\ loaded'[c] = NewProduct
         /\ result' \in [Check -> Result \cup {NoResult}]
         /\ attempts' \in [Check -> 0 .. MaxAttempts]
         /\ observed' \in [Check -> Observation]
         /\ \A d \in Check \ {c} : /\ pc'[d] = pc[d] /\ loaded'[d] = loaded[d]
                                   /\ observed'[d] = observed[d]
         /\ Cardinality(Done) \in Nat /\ Cardinality(Done') = Cardinality(Done) + 1
         /\ Cardinality(Done') <= Cardinality(Check)
<1> USE DEF TypeInv, TypeOK, Shapes, Over
<1>1. NewProduct \in Row /\ NotObserved \in Observation /\ "done" \in Stage
  BY PipelineAssumption DEF NewProduct, Row, NotObserved, Observation, Money, Availability,
     Purchasable, NotPurchasable, NoPrice, NoCurrency, Nothing, Stage
<1>2. 0 \in 0 .. MaxAttempts
  BY PipelineAssumption
<1>3. /\ Cardinality(Done) \in Nat /\ Cardinality(Done') = Cardinality(Done) + 1
      /\ Cardinality(Done') <= Cardinality(Check)
  BY OverCounts
<1> QED
  BY <1>1, <1>2, <1>3

(* A check that ends and writes nothing.                                    *)
LEMMA QuietEndTypes ==
  ASSUME TypeInv, NEW c \in Check, pc[c] \notin {"new", "done"}, Over(c),
         UNCHANGED <<shop, now, nextId>>
  PROVE  TypeInv'
<1> USE DEF TypeInv, shop
<1>1. Cardinality(Done) \in Nat /\ Cardinality(Done') = Cardinality(Done) + 1
  BY OverTypes
<1>2. Shapes'
  BY OverTypes DEF Shapes
<1>3. IdsDiffer'
  BY OverTypes DEF IdsDiffer
<1>4. FailuresBounded'
  <2>1. product \in Row /\ \A d \in Check : loaded[d] \in Row
    BY DEF Shapes
  <2>2. NewProduct.failures = 0
    BY DEF NewProduct
  <2> QED
    BY OverTypes, <1>1, <2>1, <2>2 DEF FailuresBounded, Row
<1>5. TypeOK'
  <2>1. pc' \in [Check -> Stage] /\ attempts' \in [Check -> 0 .. MaxAttempts]
        /\ \A d \in Check : result'[d] \in Result \cup {NoResult}
    BY OverTypes
  <2> QED
    BY <2>1 DEF TypeOK
<1> QED
  BY <1>2, <1>3, <1>4, <1>5 DEF Newest

LEMMA BeginTypes ==
  ASSUME TypeInv, NEW c \in Check, Begin(c)
  PROVE  TypeInv'
<1> USE DEF TypeInv, Begin, shop
<1>1. /\ pc' \in [Check -> Stage] /\ Done' = Done
      /\ \A d \in Check : pc'[d] = "observed" => pc[d] = "observed"
  BY DEF TypeOK, Done, Stage
<1>2. Shapes'
  BY DEF Shapes
<1>3. FailuresBounded'
  BY <1>1 DEF FailuresBounded, Shapes
<1> QED
  BY <1>1, <1>2, <1>3 DEF TypeOK, IdsDiffer, Newest

LEMMA ProceedTypes ==
  ASSUME TypeInv, NEW c \in Check, Proceed(c)
  PROVE  TypeInv'
<1> USE DEF TypeInv, Proceed, shop
<1>1. /\ pc' \in [Check -> Stage] /\ Done' = Done
      /\ \A d \in Check : pc'[d] = "observed" => pc[d] = "observed"
  BY DEF TypeOK, Done, Stage
<1> QED
  BY <1>1 DEF TypeOK, IdsDiffer, FailuresBounded, Shapes, Newest

LEMMA FetchTypes ==
  ASSUME TypeInv, NEW c \in Check, Fetch(c)
  PROVE  TypeInv'
<1> USE DEF TypeInv, Fetch, MoreAttempts, shop
<1>1. /\ attempts' \in [Check -> 0 .. MaxAttempts]
      /\ result' \in [Check -> Result \cup {NoResult}]
  BY PipelineAssumption DEF TypeOK, Shapes
<1> QED
  BY <1>1 DEF TypeOK, IdsDiffer, FailuresBounded, Shapes, Newest, Done

(* The newest row of a history is of its type.                              *)
LEMMA ReadingTypes ==
  ASSUME TypeInv
  PROVE  /\ PriceOnRecord \in Nat /\ CurrencyOnRecord \in Money
         /\ StockOnRecord \in Availability \cup {Nothing}
BY LatestIsNewest DEF TypeInv, Newest, Shapes, PriceOnRecord, CurrencyOnRecord,
   StockOnRecord, PriceRow, StockRow, NoPrice, Money

LEMMA ObserveTypes ==
  ASSUME TypeInv, NEW c \in Check, Observe(c)
  PROVE  TypeInv'
<1> USE DEF TypeInv, Observe, shop
<1> DEFINE o == [id |-> nextId, at |-> now, lastPrice |-> PriceOnRecord,
                 lastCurrency |-> CurrencyOnRecord, lastStock |-> StockOnRecord]
<1>1. /\ pc' \in [Check -> Stage] /\ Done' = Done /\ observed' = [observed EXCEPT ![c] = o]
      /\ \A d \in Check \ {c} : pc'[d] = pc[d]
  BY DEF TypeOK, Done, Stage, PriceOnRecord, CurrencyOnRecord, StockOnRecord
<1>2. o \in Observation
  <2>1. nextId \in Nat /\ now \in 0 .. MaxTime
    BY DEF TypeOK, Shapes
  <2> QED
    BY <2>1, ReadingTypes DEF Observation
<1>3. /\ \A d \in Check \ {c} : observed'[d] = observed[d]
      /\ observed' \in [Check -> Observation] /\ observed'[c].id = nextId
      /\ nextId' = nextId + 1 /\ nextId \in Nat
  BY <1>1, <1>2 DEF Shapes
<1> HIDE DEF o
<1>4. Shapes'
  BY <1>3 DEF Shapes
<1>5. \A h \in prices \cup stocks : h.id \in Nat /\ h.id < nextId
  BY DEF TypeOK, Shapes, PriceRow, StockRow
<1>6. \A d \in Check : observed[d].id \in Nat
  BY DEF Shapes, Observation
<1>7. IdsDiffer'
  BY <1>1, <1>3, <1>5, <1>6 DEF IdsDiffer
<1>8. TypeOK'
  <2>1. (\A h \in prices : h.id < nextId') /\ \A h \in stocks : h.id < nextId'
    BY <1>3, <1>5
  <2> QED
    BY <1>1, <2>1 DEF TypeOK
<1> QED
  BY <1>1, <1>4, <1>7, <1>8 DEF FailuresBounded, Newest

LEMMA TickTypes ==
  ASSUME TypeInv, Tick
  PROVE  TypeInv'
<1> USE DEF TypeInv, Tick, shop
<1>1. now' \in 0 .. MaxTime
  BY PipelineAssumption DEF TypeOK
<1> QED
  BY <1>1 DEF TypeOK, Shapes, IdsDiffer, FailuresBounded, Newest, Done

(* The rows a commit appends.                                               *)
PriceEntry(c) ==
  [id |-> observed[c].id, price |-> result[c].price,
   currency |-> IF result[c].currency # NoCurrency THEN result[c].currency
                                                   ELSE loaded[c].currency]
StockEntry(c) ==
  [id |-> observed[c].id, availability |-> DetectStock(result[c], observed[c]).current]

PriceRecorded(c) == DetectPrice(result[c], observed[c]).record
StockRecorded(c) == DetectStock(result[c], observed[c]).record

LEMMA EntryTypes ==
  ASSUME TypeInv, NEW c \in Check, Commit(c)
  PROVE  /\ prices' = IF PriceRecorded(c) THEN prices \cup {PriceEntry(c)} ELSE prices
         /\ stocks' = IF StockRecorded(c) THEN stocks \cup {StockEntry(c)} ELSE stocks
         /\ PriceRecorded(c) => PriceEntry(c) \in PriceRow
         /\ StockEntry(c) \in StockRow
         /\ PriceEntry(c).id = observed[c].id /\ StockEntry(c).id = observed[c].id
         /\ prices' \in SUBSET PriceRow /\ stocks' \in SUBSET StockRow
<1>1. ResultType(result[c]) /\ result[c].currency \in Money
  BY ResultKnown DEF TypeInv, Shapes
<1>2. observed[c].id \in Nat /\ loaded[c].currency \in Money
  BY DEF TypeInv, Shapes, Observation, Row
<1>3. PriceRecorded(c) => result[c].price \in Nat \ {NoPrice}
  BY <1>1 DEF PriceRecorded, DetectPrice, ResultType
<1>4. PriceRecorded(c) => PriceEntry(c) \in PriceRow
  BY <1>1, <1>2, <1>3 DEF PriceEntry, PriceRow
<1>5. DetectStock(result[c], observed[c]).current \in Availability
  BY <1>1 DEF DetectStock, ResultType, Availability
<1>6. StockEntry(c) \in StockRow
  BY <1>2, <1>5 DEF StockEntry, StockRow
<1>7. /\ prices' = IF PriceRecorded(c) THEN prices \cup {PriceEntry(c)} ELSE prices
      /\ stocks' = IF StockRecorded(c) THEN stocks \cup {StockEntry(c)} ELSE stocks
  BY DEF Commit, PriceRecorded, StockRecorded, PriceEntry, StockEntry
<1>8. PriceEntry(c).id = observed[c].id /\ StockEntry(c).id = observed[c].id
  BY DEF PriceEntry, StockEntry
<1> QED
  BY <1>4, <1>6, <1>7, <1>8 DEF TypeInv, Shapes

(* The alerts a commit records: of rules that matched, none a duplicate, and*)
(* every rule that matched has then fired.                                  *)
LEMMA RecordedAlerts ==
  ASSUME TypeInv, NEW c \in Check, Commit(c),
         NEW a \in alerts', a \notin alerts
  PROVE  /\ a.rule \in Matched(c) /\ a.rule \in Rule /\ a = AlertOf(c, a.rule)
         /\ a.at = observed[c].at /\ ~Duplicate(a)
         /\ lastFired'[a.rule] = observed[c].at
<1>1. a \in Recorded(c)
  BY DEF Commit, Announce
<1>2. PICK q \in Matched(c) : a = AlertOf(c, q) /\ ~Duplicate(a)
  BY <1>1 DEF Recorded
<1>3. a.rule = q /\ a.at = observed[c].at /\ q \in Rule
  BY <1>2 DEF AlertOf, Matched
<1>4. q \in Fired(c)
  BY <1>1, <1>2 DEF Fired
<1>5. lastFired'[q] = observed[c].at
  BY <1>1, <1>3, <1>4 DEF Commit, Announce
<1> QED
  BY <1>2, <1>3, <1>5

LEMMA CommitTypes ==
  ASSUME TypeInv, NEW c \in Check, Commit(c)
  PROVE  TypeInv'
<1>1. /\ pc[c] = "observed" /\ product' = Flushed(c) /\ Over(c)
      /\ now' = now /\ nextId' = nextId
  BY DEF Commit
<1> USE DEF TypeInv
<1>2. /\ observed[c].at \in 0 .. MaxTime /\ observed[c].id \in Nat
      /\ observed[c].id < nextId
      /\ \A h \in prices \cup stocks : h.id # observed[c].id
      /\ \A d \in Check \ {c} : pc[d] = "observed" => observed[d].id # observed[c].id
  BY <1>1 DEF Shapes, Observation, IdsDiffer
<1>3. FailuresBounded'
  <2>1. /\ product.failures \in Nat /\ loaded[c].failures \in Nat
        /\ \A d \in Check : loaded[d].failures \in Nat
    BY DEF Shapes, Row
  <2>2. product'.failures \in {0, loaded[c].failures + 1, product.failures}
    BY <1>1, FlushedIsRow, AppliedFailures
  <2>3. NewProduct.failures = 0
    BY DEF NewProduct
  <2> QED
    BY <1>1, <2>1, <2>2, <2>3, OverTypes DEF FailuresBounded
<1>4. Shapes'
  <2>1. streak' \in Nat
    BY DEF Commit, Shapes
  <2> QED
    BY <1>1, <2>1, OverTypes, FlushedIsRow, EntryTypes DEF Shapes
<1>5. \A h \in prices' \cup stocks' :
        h.id = observed[c].id \/ h \in prices \cup stocks
  BY EntryTypes
<1>6. IdsDiffer'
  BY <1>1, <1>2, <1>5, OverTypes DEF IdsDiffer
<1>7. Newest'
  <2>1. (\A h \in prices : h.id \in Nat) /\ \A h \in stocks : h.id \in Nat
    BY DEF Shapes, PriceRow, StockRow
  <2>2. HasNewest(prices')
    BY <1>2, <2>1, EntryTypes, AddedHasNewest DEF Newest
  <2>3. HasNewest(stocks')
    BY <1>2, <2>1, EntryTypes, AddedHasNewest DEF Newest
  <2> QED
    BY <2>2, <2>3 DEF Newest
<1>8. TypeOK'
  <2>1. product'.failures \in 0 .. Cardinality(Check)
    <3>1. product'.failures \in Nat /\ product'.failures <= Cardinality(Done')
      BY <1>3, <1>4 DEF FailuresBounded, Shapes, Row
    <3>2. Cardinality(Check) \in Nat /\ Cardinality(Done') \in Nat
      BY {} \in SUBSET Check, DoneCounts, OverTypes, <1>1
    <3> QED
      BY <1>1, <3>1, <3>2, OverTypes
  <2>2. product'.price \in Nat /\ product'.availability \in Availability
    BY <1>4 DEF Shapes, Row
  <2>3. /\ \A h \in prices' : h.price \in Nat \ {NoPrice} /\ h.id < nextId'
        /\ \A h \in stocks' : h.availability \in Availability /\ h.id < nextId'
    BY <1>1, <1>2, <1>4, <1>5, EntryTypes DEF Shapes, PriceRow, StockRow, TypeOK
  <2>4. lastFired' \in [Rule -> -1 .. MaxTime]
    BY <1>2 DEF Commit, Announce, TypeOK
  <2>5. \A a \in alerts' : a.rule \in Rule /\ a.at \in 0 .. MaxTime
    BY <1>2, RecordedAlerts DEF TypeOK
  <2>6. \A a, b \in alerts' :
          a.rule = b.rule /\ a.signature = b.signature /\ a.bucket = b.bucket => a = b
    BY RecordedAlerts DEF TypeOK, Duplicate
  <2>7. \A h, g \in prices' : h.id = g.id => h = g
    BY <1>7 DEF Newest, HasNewest
  <2>8. /\ now' \in 0 .. MaxTime /\ pc' \in [Check -> Stage]
        /\ attempts' \in [Check -> 0 .. MaxAttempts]
        /\ \A d \in Check : result'[d] \in Result \cup {NoResult}
    BY <1>1, OverTypes DEF TypeOK
  <2> QED
    BY <2>1, <2>2, <2>3, <2>4, <2>5, <2>6, <2>7, <2>8 DEF TypeOK
<1> QED
  BY <1>3, <1>4, <1>6, <1>7, <1>8

LEMMA StepTypes == TypeInv /\ [Next]_vars => TypeInv'
<1> SUFFICES ASSUME TypeInv, [Next]_vars PROVE TypeInv'
  OBVIOUS
<1>1. CASE Tick
  BY <1>1, TickTypes
<1>2. ASSUME NEW c \in Check, Step(c) PROVE TypeInv'
  <2>1. CASE Begin(c)
    BY <2>1, BeginTypes
  <2>2. CASE Veto(c)
    BY <2>2, QuietEndTypes DEF Veto
  <2>3. CASE Proceed(c)
    BY <2>3, ProceedTypes
  <2>4. CASE Fetch(c)
    BY <2>4, FetchTypes
  <2>5. CASE Observe(c)
    BY <2>5, ObserveTypes
  <2>6. CASE Commit(c)
    BY <2>6, CommitTypes
  <2>7. CASE Rollback(c)
    BY <2>7, QuietEndTypes DEF Rollback
  <2> QED
    BY <1>2, <2>1, <2>2, <2>3, <2>4, <2>5, <2>6, <2>7 DEF Step
<1>3. CASE UNCHANGED vars
  BY <1>3 DEF vars, TypeInv, TypeOK, Shapes, IdsDiffer, FailuresBounded, Newest, Done
<1> QED
  BY <1>1, <1>2, <1>3 DEF Next

LEMMA TypesHold == Spec => []TypeInv
<1>1. TypeInv /\ [Next]_vars => TypeInv'
  BY StepTypes
<1> QED
  BY InitTypes, <1>1, PTL DEF Spec

(* Every check of a product, claimed or not, in any order and with any loss *)
(* of a session in between, leaves the row, the histories, the rules and    *)
(* the alerts of their types: no two alerts share a dedupe key, no two      *)
(* price rows an id, and no failure is counted that no check reported.      *)
THEOREM TypeCorrect == Spec => []TypeOK
<1>1. TypeInv => TypeOK
  BY DEF TypeInv
<1> QED
  BY TypesHold, <1>1, PTL

-----------------------------------------------------------------------------
(* The claimed checks of a product, one at a time                           *)

Active(c) == pc[c] \notin {"new", "done"}

Alone == \A c, d \in Check : Active(c) /\ Active(d) => c = d

(* Nobody else writes between the load of a check and its commit ...        *)
FreshCopy == \A c \in Check : Active(c) => loaded[c] = product

(* ... nor between its reading of the histories and its commit.             *)
FreshReading ==
  \A c \in Check : pc[c] = "observed" =>
    /\ observed[c].lastPrice = PriceOnRecord
    /\ observed[c].lastCurrency = CurrencyOnRecord
    /\ observed[c].lastStock = StockOnRecord
    /\ observed[c].at <= now
    /\ \A r \in Rule : lastFired[r] <= observed[c].at
    /\ \A h \in prices \cup stocks : h.id < observed[c].id

(* A rule's last firing is the moment of its newest alert, or later.        *)
FiringsKnown ==
  /\ \A r \in Rule : lastFired[r] <= now
  /\ \A a \in alerts : a.at <= lastFired[a.rule]

Undisturbed ==
  /\ Alone /\ FreshCopy /\ FreshReading /\ FiringsKnown
  /\ RowAgreesWithHistory /\ MeaningfulHistory /\ CountsFailures /\ CooldownKept

LEMMA InitUndisturbed == Init => Undisturbed
<1> SUFFICES ASSUME Init PROVE Undisturbed
  OBVIOUS
<1>1. /\ prices = {} /\ stocks = {} /\ alerts = {} /\ now = 0 /\ streak = 0
      /\ \A c \in Check : pc[c] = "new"
      /\ \A r \in Rule : lastFired[r] = -1
      /\ product.price = NoPrice /\ product.availability = "unknown"
      /\ product.failures = 0
  BY DEF Init, NewProduct
<1> QED
  BY <1>1 DEF Undisturbed, Alone, FreshCopy, FreshReading, FiringsKnown, Active,
     RowAgreesWithHistory, MeaningfulHistory, CountsFailures, CooldownKept

(* A step that writes nothing leaves what is said of the store.             *)
LEMMA StoreUntouched ==
  ASSUME Undisturbed, TypeInv, UNCHANGED shop, now' >= now, now' \in Int
  PROVE  /\ FiringsKnown' /\ RowAgreesWithHistory' /\ MeaningfulHistory'
         /\ CountsFailures' /\ CooldownKept'
         /\ PriceOnRecord' = PriceOnRecord /\ CurrencyOnRecord' = CurrencyOnRecord
         /\ StockOnRecord' = StockOnRecord
<1> USE DEF Undisturbed, shop
<1>1. FiringsKnown'
  <2>1. \A r \in Rule : lastFired[r] \in Int /\ now \in Int
    BY PipelineAssumption DEF TypeInv, TypeOK
  <2> QED
    BY <2>1 DEF FiringsKnown
<1> QED
  BY <1>1 DEF RowAgreesWithHistory, MeaningfulHistory, CountsFailures, CooldownKept,
     PriceOnRecord, CurrencyOnRecord, StockOnRecord

LEMMA BeginAlone ==
  ASSUME AllClaimed, TypeInv, Undisturbed, NEW c \in Check, Begin(c)
  PROVE  Undisturbed'
<1> USE DEF Undisturbed
<1>1. /\ \A d \in Check : ~Active(d)
      /\ \A d \in Check \ {c} : pc'[d] = pc[d]
      /\ pc'[c] = "guarded"
      /\ loaded'[c] = product /\ UNCHANGED <<shop, now>>
  BY DEF Begin, AllClaimed, Active, TypeInv, TypeOK, Shapes
<1>2. \A d \in Check : Active(d)' => d = c
  BY <1>1 DEF Active
<1>3. Alone' /\ FreshCopy'
  BY <1>1, <1>2 DEF Alone, FreshCopy, shop
<1>4. FreshReading'
  BY <1>1 DEF FreshReading, Active
<1>5. now' >= now /\ now' \in Int
  BY <1>1, PipelineAssumption DEF TypeInv, TypeOK
<1> QED
  BY <1>1, <1>3, <1>4, <1>5, StoreUntouched

LEMMA QuietEndAlone ==
  ASSUME TypeInv, Undisturbed, NEW c \in Check, pc[c] # "done", Over(c),
         UNCHANGED <<shop, now, nextId>>
  PROVE  Undisturbed'
<1> USE DEF Undisturbed
<1>1. now' >= now /\ now' \in Int
  BY PipelineAssumption DEF TypeInv, TypeOK
<1>2. \A d \in Check : Active(d)' => d # c /\ Active(d) /\ loaded'[d] = loaded[d]
  BY OverTypes DEF Active
<1>3. Alone' /\ FreshCopy'
  BY <1>2 DEF Alone, FreshCopy, shop
<1>4. FreshReading'
  BY <1>1, OverTypes, StoreUntouched DEF FreshReading, shop
<1> QED
  BY <1>1, <1>3, <1>4, StoreUntouched

LEMMA ProceedAlone ==
  ASSUME TypeInv, Undisturbed, NEW c \in Check, Proceed(c)
  PROVE  Undisturbed'
<1> USE DEF Undisturbed
<1>1. now' >= now /\ now' \in Int /\ UNCHANGED <<shop, now, loaded, observed>>
  BY PipelineAssumption DEF TypeInv, TypeOK, Proceed
<1>2. \A d \in Check : /\ Active(d)' <=> Active(d)
                       /\ pc'[d] = "observed" => pc[d] = "observed"
  BY DEF Proceed, Active, TypeInv, TypeOK
<1>3. Alone' /\ FreshCopy'
  BY <1>1, <1>2 DEF Alone, FreshCopy, shop
<1>4. FreshReading'
  BY <1>1, <1>2, StoreUntouched DEF FreshReading, shop
<1> QED
  BY <1>1, <1>3, <1>4, StoreUntouched

LEMMA FetchAlone ==
  ASSUME TypeInv, Undisturbed, NEW c \in Check, Fetch(c)
  PROVE  Undisturbed'
<1> USE DEF Undisturbed
<1>1. now' >= now /\ now' \in Int /\ UNCHANGED <<shop, now, loaded, observed, pc>>
  BY PipelineAssumption DEF TypeInv, TypeOK, Fetch
<1>3. Alone' /\ FreshCopy'
  BY <1>1 DEF Alone, FreshCopy, shop, Active
<1>4. FreshReading'
  BY <1>1, StoreUntouched DEF FreshReading, shop
<1> QED
  BY <1>1, <1>3, <1>4, StoreUntouched

LEMMA ObserveAlone ==
  ASSUME TypeInv, Undisturbed, NEW c \in Check, Observe(c)
  PROVE  Undisturbed'
<1> USE DEF Undisturbed
<1>1. now' >= now /\ now' \in Int /\ UNCHANGED <<shop, now, loaded>>
  BY PipelineAssumption DEF TypeInv, TypeOK, Observe
<1>2. /\ \A d \in Check : Active(d)' <=> Active(d)
      /\ \A d \in Check \ {c} : pc'[d] = pc[d] /\ observed'[d] = observed[d]
  BY DEF Observe, Active, TypeInv, TypeOK, Shapes
<1>3. Alone' /\ FreshCopy'
  BY <1>1, <1>2 DEF Alone, FreshCopy, shop
<1>4. observed'[c] = [id |-> nextId, at |-> now, lastPrice |-> PriceOnRecord,
                      lastCurrency |-> CurrencyOnRecord, lastStock |-> StockOnRecord]
  BY DEF Observe, TypeInv, Shapes, PriceOnRecord, CurrencyOnRecord, StockOnRecord
<1>5. \A h \in prices \cup stocks : h.id < nextId
  BY DEF TypeInv, TypeOK
<1>6. FreshReading'
  <2> SUFFICES ASSUME NEW d \in Check, pc'[d] = "observed"
               PROVE  /\ observed'[d].lastPrice = PriceOnRecord
                      /\ observed'[d].lastCurrency = CurrencyOnRecord
                      /\ observed'[d].lastStock = StockOnRecord
                      /\ observed'[d].at <= now
                      /\ \A r \in Rule : lastFired[r] <= observed'[d].at
                      /\ \A h \in prices \cup stocks : h.id < observed'[d].id
    BY <1>1, StoreUntouched DEF FreshReading, shop
  <2>1. CASE d = c
    BY <1>1, <1>4, <1>5, <2>1 DEF FiringsKnown
  <2>2. CASE d # c
    BY <1>2, <2>2 DEF FreshReading
  <2> QED
    BY <2>1, <2>2
<1> QED
  BY <1>1, <1>3, <1>6, StoreUntouched

LEMMA TickAlone ==
  ASSUME TypeInv, Undisturbed, Tick
  PROVE  Undisturbed'
<1> USE DEF Undisturbed
<1>1. now' >= now /\ now' \in Int /\ UNCHANGED <<shop, loaded, observed, pc>>
      /\ now \in Int
  BY PipelineAssumption DEF TypeInv, TypeOK, Tick
<1>3. Alone' /\ FreshCopy'
  BY <1>1 DEF Alone, FreshCopy, shop, Active
<1>4. FreshReading'
  <2>1. \A d \in Check : observed[d].at \in Int
    BY PipelineAssumption DEF TypeInv, Shapes, Observation
  <2> QED
    BY <1>1, <2>1, StoreUntouched DEF FreshReading, shop
<1> QED
  BY <1>1, <1>3, <1>4, StoreUntouched

-----------------------------------------------------------------------------
(* The commit of a claimed check                                            *)

(* With the row as it was loaded, the flush writes all that was applied.    *)
LEMMA FlushedIsApplied ==
  ASSUME Shapes, NEW c \in Check, loaded[c] = product
  PROVE  Flushed(c) = Applied(c)
<1>1. Applied(c) \in Row /\ product \in Row
  BY AppliedIsRow DEF Shapes
<1>2. DOMAIN Applied(c) = DOMAIN product
      /\ Applied(c) = [f \in DOMAIN Applied(c) |-> Applied(c)[f]]
  BY <1>1 DEF Row
<1>3. Flushed(c) = [f \in DOMAIN product |-> Applied(c)[f]]
  BY DEF Flushed
<1> QED
  BY <1>2, <1>3

(* What a claimed check knows when it commits.                              *)
LEMMA CommitKnows ==
  ASSUME TypeInv, Undisturbed, NEW c \in Check, Commit(c)
  PROVE  /\ pc[c] = "observed" /\ \A d \in Check : ~Active(d)'
         /\ loaded[c] = product /\ product' = Applied(c)
         /\ observed[c].lastPrice = PriceOnRecord
         /\ observed[c].lastCurrency = CurrencyOnRecord
         /\ observed[c].lastStock = StockOnRecord
         /\ observed[c].at \in 0 .. MaxTime /\ observed[c].at <= now
         /\ \A r \in Rule : lastFired[r] <= observed[c].at
         /\ \A h \in prices \cup stocks : h.id < observed[c].id
<1>1. pc[c] = "observed" /\ product' = Flushed(c) /\ Over(c)
  BY DEF Commit
<1>2. Active(c)
  BY <1>1 DEF Active
<1>3. loaded[c] = product
  BY <1>2 DEF Undisturbed, FreshCopy
<1>4. product' = Applied(c)
  BY <1>1, <1>3, FlushedIsApplied DEF TypeInv
<1>5. \A d \in Check : ~Active(d)'
  BY <1>1, <1>2, OverTypes DEF Active, Undisturbed, Alone
<1>6. observed[c].at \in 0 .. MaxTime
  BY DEF TypeInv, Shapes, Observation
<1> QED
  BY <1>1, <1>3, <1>4, <1>5, <1>6 DEF Undisturbed, FreshReading

(* The newest rows after the commit.                                        *)
LEMMA CommitAppends ==
  ASSUME TypeInv, Undisturbed, NEW c \in Check, Commit(c)
  PROVE  /\ PriceRecorded(c) => /\ Latest(prices') = PriceEntry(c)
                                /\ PriceEntry(c) \notin prices
         /\ StockRecorded(c) => /\ Latest(stocks') = StockEntry(c)
                                /\ StockEntry(c) \notin stocks
<1>1. /\ \A h \in prices : h.id \in Nat /\ h.id < observed[c].id
      /\ \A h \in stocks : h.id \in Nat /\ h.id < observed[c].id
      /\ observed[c].id \in Nat
  BY CommitKnows DEF TypeInv, Shapes, PriceRow, StockRow, Observation
<1>2. HasNewest(prices) /\ HasNewest(stocks)
  BY DEF TypeInv, Newest
<1>3. ASSUME PriceRecorded(c)
      PROVE  Latest(prices') = PriceEntry(c) /\ PriceEntry(c) \notin prices
  <2>1. prices' = prices \cup {PriceEntry(c)} /\ PriceEntry(c).id = observed[c].id
    BY <1>3, EntryTypes
  <2>2. \A y \in prices : y.id \in Nat /\ y.id < PriceEntry(c).id
    BY <1>1, <2>1
  <2>3. Latest(prices \cup {PriceEntry(c)}) = PriceEntry(c)
    BY <1>1, <1>2, <2>1, <2>2, AppendedIsLatest
  <2>4. PriceEntry(c) \notin prices
    BY <1>1, <2>1
  <2> QED
    BY <2>1, <2>3, <2>4
<1>4. ASSUME StockRecorded(c)
      PROVE  Latest(stocks') = StockEntry(c) /\ StockEntry(c) \notin stocks
  <2>1. stocks' = stocks \cup {StockEntry(c)} /\ StockEntry(c).id = observed[c].id
    BY <1>4, EntryTypes
  <2>2. \A y \in stocks : y.id \in Nat /\ y.id < StockEntry(c).id
    BY <1>1, <2>1
  <2>3. Latest(stocks \cup {StockEntry(c)}) = StockEntry(c)
    BY <1>1, <1>2, <2>1, <2>2, AppendedIsLatest
  <2>4. StockEntry(c) \notin stocks
    BY <1>1, <2>1
  <2> QED
    BY <2>1, <2>3, <2>4
<1> QED
  BY <1>3, <1>4

(* What the row agrees with, as the observation read it.                    *)
LEMMA RowOnRecord ==
  ASSUME TypeInv, Undisturbed
  PROVE  /\ product.price = PriceOnRecord
         /\ product.availability = IF StockOnRecord = Nothing THEN "unknown" ELSE StockOnRecord
         /\ prices # {} <=> PriceOnRecord # NoPrice
         /\ stocks # {} <=> StockOnRecord # Nothing
<1>1. prices # {} => Latest(prices).price \in Nat \ {NoPrice}
  BY LatestIsNewest DEF TypeInv, Newest, Shapes, PriceRow
<1>2. stocks # {} => Latest(stocks).availability \in Availability
  BY LatestIsNewest DEF TypeInv, Newest, Shapes, StockRow
<1>3. Nothing \notin Availability
  BY DEF Nothing, Availability, Purchasable, NotPurchasable
<1> QED
  BY <1>1, <1>2, <1>3 DEF Undisturbed, RowAgreesWithHistory, PriceOnRecord, StockOnRecord

(* A price is recorded when it is new, and what is not recorded leaves the  *)
(* row's price as it was.                                                   *)
LEMMA PriceDetected ==
  ASSUME TypeInv, Undisturbed, NEW c \in Check, Commit(c)
  PROVE  /\ PriceRecorded(c) =>
              /\ Applied(c).price = PriceEntry(c).price
              /\ \/ PriceEntry(c).price # PriceOnRecord
                 \/ PriceEntry(c).currency # CurrencyOnRecord
         /\ ~PriceRecorded(c) => Applied(c).price = product.price
<1>1. /\ observed[c].lastPrice = PriceOnRecord
      /\ observed[c].lastCurrency = CurrencyOnRecord
      /\ loaded[c] = product
  BY CommitKnows
<1>2. Applied(c).price = IF Succeeded(result[c]) /\ result[c].price # NoPrice
        THEN result[c].price ELSE loaded[c].price
  <2>1. loaded[c] \in Row
    BY DEF TypeInv, Shapes
  <2> QED
    BY <2>1 DEF Applied, Row
<1>3. PriceEntry(c).price = result[c].price
      /\ (result[c].currency # NoCurrency => PriceEntry(c).currency = result[c].currency)
  BY DEF PriceEntry
<1> QED
  BY <1>1, <1>2, <1>3, RowOnRecord DEF PriceRecorded, DetectPrice

(* The same of the stock.                                                   *)
LEMMA StockDetected ==
  ASSUME TypeInv, Undisturbed, NEW c \in Check, Commit(c)
  PROVE  /\ StockRecorded(c) =>
              /\ StockEntry(c).availability # StockOnRecord
              /\ StockEntry(c).availability = Applied(c).availability
         /\ ~StockRecorded(c) => Applied(c).availability = product.availability
<1>1. observed[c].lastStock = StockOnRecord /\ loaded[c] = product
  BY CommitKnows
<1>2. ResultType(result[c]) /\ loaded[c] \in Row
  BY ResultKnown DEF TypeInv, Shapes
<1>3. Applied(c).availability = IF Succeeded(result[c]) THEN result[c].availability
        ELSE IF result[c].retracts THEN "unknown" ELSE loaded[c].availability
  BY <1>2 DEF Applied, Row
<1>4. result[c].retracts => ~Succeeded(result[c])
  BY <1>2 DEF ResultType, Succeeded, SuccessOutcomes
<1>5. result[c].availability # Nothing /\ "unknown" # Nothing
  BY <1>2 DEF ResultType, Nothing, Availability, Purchasable, NotPurchasable
<1>6. StockEntry(c).availability = DetectStock(result[c], observed[c]).current
  BY DEF StockEntry
<1>7. CASE result[c].retracts
  BY <1>1, <1>3, <1>4, <1>5, <1>6, <1>7, RowOnRecord DEF StockRecorded, DetectStock
<1>8. CASE ~result[c].retracts /\ Succeeded(result[c])
  BY <1>1, <1>3, <1>5, <1>6, <1>8, RowOnRecord DEF StockRecorded, DetectStock
<1>9. CASE ~result[c].retracts /\ ~Succeeded(result[c])
  BY <1>1, <1>3, <1>6, <1>9 DEF StockRecorded, DetectStock
<1> QED
  BY <1>7, <1>8, <1>9

LEMMA CommitKeepsRow ==
  ASSUME TypeInv, Undisturbed, NEW c \in Check, Commit(c)
  PROVE  RowAgreesWithHistory'
<1>1. product' = Applied(c)
  BY CommitKnows
<1>2. product'.price = IF prices' = {} THEN NoPrice ELSE Latest(prices').price
  <2>1. CASE PriceRecorded(c)
    BY <1>1, <2>1, CommitAppends, EntryTypes, PriceDetected
  <2>2. CASE ~PriceRecorded(c)
    BY <1>1, <2>2, EntryTypes, PriceDetected DEF Undisturbed, RowAgreesWithHistory
  <2> QED
    BY <2>1, <2>2
<1>3. product'.availability = IF stocks' = {} THEN "unknown" ELSE Latest(stocks').availability
  <2>1. CASE StockRecorded(c)
    BY <1>1, <2>1, CommitAppends, EntryTypes, StockDetected
  <2>2. CASE ~StockRecorded(c)
    BY <1>1, <2>2, EntryTypes, StockDetected DEF Undisturbed, RowAgreesWithHistory
  <2> QED
    BY <2>1, <2>2
<1> QED
  BY <1>2, <1>3 DEF RowAgreesWithHistory

LEMMA CommitKeepsHistory ==
  ASSUME TypeInv, Undisturbed, NEW c \in Check, Commit(c)
  PROVE  MeaningfulHistory'
<1>1. /\ \A h \in prices : h.id \in Nat /\ h.id < observed[c].id
      /\ \A h \in stocks : h.id \in Nat /\ h.id < observed[c].id
      /\ observed[c].id \in Nat
      /\ PriceEntry(c).id = observed[c].id /\ StockEntry(c).id = observed[c].id
  BY CommitKnows, EntryTypes DEF TypeInv, Shapes, PriceRow, StockRow, Observation
<1>2. ASSUME NEW h \in prices', {g \in prices' : g.id < h.id} # {}
      PROVE  LET before == {g \in prices' : g.id < h.id}
             IN  Latest(before).price # h.price \/ Latest(before).currency # h.currency
  <2>1. CASE h \in prices
    <3>1. {g \in prices' : g.id < h.id} = {g \in prices : g.id < h.id}
      BY <1>1, <2>1, EntryTypes
    <3> QED
      BY <1>2, <2>1, <3>1 DEF Undisturbed, MeaningfulHistory
  <2>2. CASE h \notin prices
    <3>1. h = PriceEntry(c) /\ PriceRecorded(c) /\ prices' = prices \cup {PriceEntry(c)}
      BY <1>2, <2>2, EntryTypes
    <3>2. {g \in prices' : g.id < h.id} = prices
      BY <1>1, <3>1
    <3> QED
      BY <1>2, <3>1, <3>2, PriceDetected DEF PriceOnRecord, CurrencyOnRecord
  <2> QED
    BY <2>1, <2>2
<1>3. ASSUME NEW h \in stocks', {g \in stocks' : g.id < h.id} # {}
      PROVE  Latest({g \in stocks' : g.id < h.id}).availability # h.availability
  <2>1. CASE h \in stocks
    <3>1. {g \in stocks' : g.id < h.id} = {g \in stocks : g.id < h.id}
      BY <1>1, <2>1, EntryTypes
    <3> QED
      BY <1>3, <2>1, <3>1 DEF Undisturbed, MeaningfulHistory
  <2>2. CASE h \notin stocks
    <3>1. h = StockEntry(c) /\ StockRecorded(c) /\ stocks' = stocks \cup {StockEntry(c)}
      BY <1>3, <2>2, EntryTypes
    <3>2. {g \in stocks' : g.id < h.id} = stocks
      BY <1>1, <3>1
    <3> QED
      BY <1>3, <3>1, <3>2, StockDetected DEF StockOnRecord
  <2> QED
    BY <2>1, <2>2
<1> QED
  BY <1>2, <1>3 DEF MeaningfulHistory

LEMMA CommitKeepsCount ==
  ASSUME TypeInv, Undisturbed, NEW c \in Check, Commit(c)
  PROVE  CountsFailures'
<1>1. product' = Applied(c) /\ loaded[c] = product
  BY CommitKnows
<1>2. streak' = IF Succeeded(result[c]) THEN 0 ELSE streak + 1
  BY DEF Commit
<1>3. Applied(c).failures = IF Succeeded(result[c]) THEN 0 ELSE product.failures + 1
  BY <1>1, AppliedFailures DEF TypeInv
<1>4. product.failures = streak
  BY DEF Undisturbed, CountsFailures
<1>5. product'.failures = streak'
  BY <1>1, <1>2, <1>3, <1>4
<1> QED
  BY <1>5 DEF CountsFailures

LEMMA CommitKeepsCooldown ==
  ASSUME TypeInv, Undisturbed, NEW c \in Check, Commit(c)
  PROVE  FiringsKnown' /\ CooldownKept'
<1>1. /\ now' = now /\ now \in Nat /\ observed[c].at \in Nat /\ observed[c].at <= now
      /\ \A r \in Rule : /\ lastFired[r] \in Int /\ Cooldown[r] \in Nat
                         /\ lastFired[r] <= observed[c].at
      /\ \A a \in alerts : a.at \in Nat /\ a.rule \in Rule
  <2>1. now' = now
    BY DEF Commit
  <2>2. /\ now \in Nat
        /\ \A r \in Rule : lastFired[r] \in Int /\ Cooldown[r] \in Nat
        /\ \A a \in alerts : a.at \in Nat /\ a.rule \in Rule
    BY PipelineAssumption DEF TypeInv, TypeOK
  <2>3. /\ observed[c].at \in 0 .. MaxTime /\ observed[c].at <= now
        /\ \A r \in Rule : lastFired[r] <= observed[c].at
    BY CommitKnows
  <2> QED
    BY <2>1, <2>2, <2>3
<1>2. \A r \in Rule : lastFired'[r] \in {lastFired[r], observed[c].at}
  BY DEF Commit, Announce
<1>3. FiringsKnown'
  <2>1. \A r \in Rule : lastFired'[r] <= now'
    BY <1>1, <1>2
  <2>2. ASSUME NEW a \in alerts'
        PROVE  a.at <= lastFired'[a.rule]
    <3>1. CASE a \in alerts
      BY <1>1, <1>2, <3>1 DEF Undisturbed, FiringsKnown
    <3>2. CASE a \notin alerts
      BY <1>1, <3>2, RecordedAlerts
    <3> QED
      BY <3>1, <3>2
  <2> QED
    BY <2>1, <2>2 DEF FiringsKnown
<1>4. ASSUME NEW a \in alerts, NEW b \in alerts', b \notin alerts, a.rule = b.rule
      PROVE  a.at + Cooldown[a.rule] <= b.at
  <2>1. /\ b.rule \in Matched(c) /\ b.rule \in Rule /\ b.at = observed[c].at
    BY <1>4, RecordedAlerts
  <2>2. ~InCooldown(b.rule, observed[c].at)
    BY <2>1 DEF Matched
  <2>3. a.at <= lastFired[a.rule]
    BY DEF Undisturbed, FiringsKnown
  <2> QED
    BY <1>1, <1>4, <2>1, <2>2, <2>3 DEF InCooldown
<1>5. ASSUME NEW a \in alerts', NEW b \in alerts', a \notin alerts, b \notin alerts,
             a.rule = b.rule
      PROVE  a = b
  BY <1>5, RecordedAlerts
<1>6. CooldownKept'
  BY <1>4, <1>5 DEF Undisturbed, CooldownKept
<1> QED
  BY <1>3, <1>6

LEMMA CommitAlone ==
  ASSUME TypeInv, Undisturbed, NEW c \in Check, Commit(c)
  PROVE  Undisturbed'
<1>1. \A d \in Check : ~Active(d)'
  BY CommitKnows
<1>2. Alone' /\ FreshCopy'
  BY <1>1 DEF Alone, FreshCopy
<1>3. FreshReading'
  BY <1>1 DEF FreshReading, Active
<1> QED
  BY <1>2, <1>3, CommitKeepsRow, CommitKeepsHistory, CommitKeepsCount, CommitKeepsCooldown
  DEF Undisturbed

LEMMA StepUndisturbed ==
  ASSUME AllClaimed, TypeInv, Undisturbed, [Next]_vars
  PROVE  Undisturbed'
<1>1. CASE Tick
  BY <1>1, TickAlone
<1>2. ASSUME NEW c \in Check, Step(c) PROVE Undisturbed'
  <2>1. CASE Begin(c)
    BY <2>1, BeginAlone
  <2>2. CASE Veto(c)
    BY <2>2, QuietEndAlone DEF Veto
  <2>3. CASE Proceed(c)
    BY <2>3, ProceedAlone
  <2>4. CASE Fetch(c)
    BY <2>4, FetchAlone
  <2>5. CASE Observe(c)
    BY <2>5, ObserveAlone
  <2>6. CASE Commit(c)
    BY <2>6, CommitAlone
  <2>7. CASE Rollback(c)
    BY <2>7, QuietEndAlone DEF Rollback
  <2> QED
    BY <1>2, <2>1, <2>2, <2>3, <2>4, <2>5, <2>6, <2>7 DEF Step
<1>3. CASE UNCHANGED vars
  BY <1>3 DEF vars, Undisturbed, Alone, FreshCopy, FreshReading, FiringsKnown, Active,
     PriceOnRecord, CurrencyOnRecord, StockOnRecord, RowAgreesWithHistory,
     MeaningfulHistory, CountsFailures, CooldownKept
<1> QED
  BY <1>1, <1>2, <1>3 DEF Next

LEMMA ClaimedUndisturbed ==
  ASSUME AllClaimed
  PROVE  Spec => []Undisturbed
<1>1. TypeInv /\ Undisturbed /\ [Next]_vars => Undisturbed'
  BY StepUndisturbed
<1> QED
  BY InitUndisturbed, TypesHold, <1>1, PTL DEF Spec

(* Claimed checks leave the row and the histories in agreement: the row's   *)
(* price and stock are those of the newest entries, whatever each shop      *)
(* answered and whichever checks were rolled back.                          *)
THEOREM RowAgrees ==
  ASSUME AllClaimed
  PROVE  Spec => []RowAgreesWithHistory
<1>1. Undisturbed => RowAgreesWithHistory
  BY DEF Undisturbed
<1> QED
  BY ClaimedUndisturbed, <1>1, PTL

(* Claimed checks write an entry of a history only for the first            *)
(* observation and for a change.                                            *)
THEOREM HistoryMeaningful ==
  ASSUME AllClaimed
  PROVE  Spec => []MeaningfulHistory
<1>1. Undisturbed => MeaningfulHistory
  BY DEF Undisturbed
<1> QED
  BY ClaimedUndisturbed, <1>1, PTL

(* Claimed checks count every failure since the last success, once.         *)
THEOREM FailuresCounted ==
  ASSUME AllClaimed
  PROVE  Spec => []CountsFailures
<1>1. Undisturbed => CountsFailures
  BY DEF Undisturbed
<1> QED
  BY ClaimedUndisturbed, <1>1, PTL

(* Two alerts of one rule, from whichever claimed checks, are at least the  *)
(* rule's cooldown apart.                                                   *)
THEOREM CooldownsKept ==
  ASSUME AllClaimed
  PROVE  Spec => []CooldownKept
<1>1. Undisturbed => CooldownKept
  BY DEF Undisturbed
<1> QED
  BY ClaimedUndisturbed, <1>1, PTL

-----------------------------------------------------------------------------
(* What an alert announces                                                  *)

(* The part of AlertsAreChanges about one alert.                            *)
Announces(a) ==
  /\ RuleType[a.rule] \in ChangeRule =>
       /\ prices' # prices /\ prices # {}
       /\ a.signature.from = Latest(prices).price
       /\ a.signature.to = Latest(prices').price
  /\ RuleType[a.rule] \in {"became_available", "became_unavailable"} =>
       /\ stocks # {}
       /\ Latest(stocks).availability \in
            IF RuleType[a.rule] = "became_available" THEN NotPurchasable ELSE Purchasable
       /\ \/ /\ stocks' # stocks
             /\ a.signature.stock = Latest(stocks').availability
          \/ \E c \in Check : StockWithoutPrice(c)

LEMMA PriceAlerts ==
  ASSUME TypeInv, Undisturbed, NEW c \in Check, Commit(c),
         NEW a \in alerts', a \notin alerts, RuleType[a.rule] \in ChangeRule
  PROVE  /\ prices' # prices /\ prices # {}
         /\ a.signature.from = Latest(prices).price
         /\ a.signature.to = Latest(prices').price
<1> DEFINE x == Context(c)
<1>1. a.rule \in Matched(c) /\ a = AlertOf(c, a.rule)
  BY RecordedAlerts
<1>2. Matches(a.rule, x)
  BY <1>1 DEF Matched
<1>3. /\ x.previousPrice = observed[c].lastPrice
      /\ x.currentPrice = IF PriceRecorded(c) \/ (Succeeded(result[c]) /\ result[c].price # NoPrice)
                             THEN result[c].price ELSE Applied(c).price
  BY DEF Context, DetectPrice, PriceRecorded
<1>4. x.previousPrice # NoPrice /\ x.currentPrice # x.previousPrice
  <2>1. x.previousPrice \in Nat
    BY <1>3 DEF TypeInv, Shapes, Observation
  <2>2. /\ x.previousPrice # NoPrice
        /\ \/ x.currentPrice # x.previousPrice
           \/ x.currentPrice < x.previousPrice \/ x.currentPrice > x.previousPrice
    BY <1>2 DEF Matches, ChangeRule
  <2> QED
    BY <2>1, <2>2
<1>5. a.signature.from = x.previousPrice /\ a.signature.to = x.currentPrice
  BY <1>1 DEF AlertOf, Signature
<1> HIDE DEF x
<1>6. x.previousPrice = PriceOnRecord /\ product.price = PriceOnRecord
  BY <1>3, CommitKnows, RowOnRecord
<1>7. PriceRecorded(c)
  <2>1. SUFFICES ASSUME ~PriceRecorded(c) PROVE FALSE
    OBVIOUS
  <2>2. Applied(c).price = product.price
    BY <2>1, PriceDetected
  <2>3. Succeeded(result[c]) /\ result[c].price # NoPrice => result[c].price = Applied(c).price
    BY DEF Applied
  <2> QED
    BY <1>3, <1>4, <1>6, <2>1, <2>2, <2>3
<1>8. x.currentPrice = PriceEntry(c).price
  BY <1>3, <1>7 DEF PriceEntry
<1>9. prices' = prices \cup {PriceEntry(c)} /\ PriceEntry(c) \notin prices
      /\ Latest(prices') = PriceEntry(c)
  BY <1>7, EntryTypes, CommitAppends
<1>10. prices # {} /\ Latest(prices).price = PriceOnRecord
  BY <1>4, <1>6 DEF PriceOnRecord
<1> QED
  BY <1>5, <1>6, <1>8, <1>9, <1>10

LEMMA StockAlerts ==
  ASSUME TypeInv, Undisturbed, NEW c \in Check, Commit(c),
         NEW a \in alerts', a \notin alerts,
         RuleType[a.rule] \in {"became_available", "became_unavailable"}
  PROVE  /\ stocks # {}
         /\ Latest(stocks).availability \in
              IF RuleType[a.rule] = "became_available" THEN NotPurchasable ELSE Purchasable
         /\ \/ /\ stocks' # stocks
               /\ a.signature.stock = Latest(stocks').availability
            \/ StockWithoutPrice(c)
<1> DEFINE x == Context(c)
<1>1. a.rule \in Matched(c) /\ a = AlertOf(c, a.rule)
  BY RecordedAlerts
<1>2. Matches(a.rule, x)
  BY <1>1 DEF Matched
<1>3. /\ x.previousStock = IF StockOnRecord = Nothing THEN "unknown" ELSE StockOnRecord
      /\ x.currentStock = StockEntry(c).availability
  BY CommitKnows DEF Context, StockEntry
<1>4. a.signature.stock = x.currentStock
  BY <1>1 DEF AlertOf, Signature
<1>5. \/ /\ RuleType[a.rule] = "became_available"
         /\ x.previousStock \in NotPurchasable /\ x.currentStock \in Purchasable
      \/ /\ RuleType[a.rule] = "became_unavailable"
         /\ x.previousStock \in Purchasable /\ x.currentStock \in NotPurchasable
  BY <1>2 DEF Matches, Purchasable
<1> HIDE DEF x
<1>6. /\ StockOnRecord # Nothing /\ x.previousStock = StockOnRecord
      /\ x.currentStock # StockOnRecord /\ x.currentStock # "unknown"
  BY <1>3, <1>5 DEF Purchasable, NotPurchasable
<1>7. stocks # {} /\ Latest(stocks).availability = StockOnRecord
  BY <1>6 DEF StockOnRecord
<1>8. CASE StockRecorded(c)
  <2>1. /\ stocks' = stocks \cup {StockEntry(c)} /\ StockEntry(c) \notin stocks
        /\ Latest(stocks') = StockEntry(c)
    BY <1>8, EntryTypes, CommitAppends
  <2> QED
    BY <1>3, <1>4, <1>5, <1>6, <1>7, <2>1
<1>9. CASE ~StockRecorded(c)
  <2>1. observed[c].lastStock = StockOnRecord /\ pc[c] = "observed"
    BY CommitKnows
  <2>2. ~result[c].retracts /\ ~Succeeded(result[c])
        /\ x.currentStock = result[c].availability
    BY <1>3, <1>6, <1>9, <2>1 DEF StockRecorded, DetectStock, StockEntry
  <2>3. pc'[c] = "done"
    BY <2>1, OverTypes DEF Commit
  <2>4. StockWithoutPrice(c)
    BY <1>6, <2>1, <2>2, <2>3 DEF StockWithoutPrice
  <2> QED
    BY <1>5, <1>6, <1>7, <2>4
<1> QED
  BY <1>8, <1>9

(* Only a commit records an alert.                                          *)
LEMMA AlertsAnnounce ==
  ASSUME AllClaimed, TypeInv, Undisturbed, [Next]_vars,
         NEW a \in alerts', a \notin alerts
  PROVE  Announces(a)
<1>1. PICK c \in Check : Commit(c)
  BY DEF Next, Step, Tick, Begin, Veto, Proceed, Fetch, Observe, Rollback, shop, vars
<1> QED
  BY <1>1, PriceAlerts, StockAlerts DEF Announces

(* An alert of a claimed check announces a change that the histories hold,  *)
(* taken in the same commit: the last two prices, or a known state of the   *)
(* stock followed by another.                                               *)
THEOREM AlertsAnnounceChanges ==
  ASSUME AllClaimed
  PROVE  Spec => AlertsAreChanges
<1>1. TypeInv /\ Undisturbed /\ [Next]_vars =>
        [\A a \in alerts' \ alerts :
           /\ RuleType[a.rule] \in ChangeRule =>
                /\ prices' # prices /\ prices # {}
                /\ a.signature.from = Latest(prices).price
                /\ a.signature.to = Latest(prices').price
           /\ RuleType[a.rule] \in {"became_available", "became_unavailable"} =>
                /\ stocks # {}
                /\ Latest(stocks).availability \in
                     IF RuleType[a.rule] = "became_available"
                       THEN NotPurchasable ELSE Purchasable
                /\ \/ /\ stocks' # stocks
                      /\ a.signature.stock = Latest(stocks').availability
                   \/ \E c \in Check : StockWithoutPrice(c)]_vars
  BY AlertsAnnounce DEF Announces
<1> QED
  BY TypesHold, ClaimedUndisturbed, <1>1, PTL DEF Spec, AlertsAreChanges

=============================================================================
