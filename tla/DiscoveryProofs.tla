-------------------------- MODULE DiscoveryProofs --------------------------
(* What holds of Discovery for any stores, searches, texts, clocks and      *)
(* changes of mind.                                                         *)
EXTENDS Discovery, TLAPS

Entries == [at : Nat, closed : SUBSET Paths, readable : BOOLEAN]
Files == [at : Nat, since : Nat, urls : SUBSET {"product", "others"}]
Pages == [store : Stores, path : Paths, at : Nat]
Collections == [store : Stores, since : Nat]
Readings == [store : Stores, since : Nat, rules : [closed : SUBSET Paths, readable : BOOLEAN]]
Leaves == [store : Stores, since : Nat, left : Nat]

(* What a pass may record of a store.                                       *)
Recorded(r) ==
    /\ r = [outcome |-> r.outcome, hits |-> r.hits]
    /\ r.outcome \in Outcomes \cup {"unasked"}
    /\ r.hits # {} => Succeeded(r)

Shapes ==
    /\ stage \in [Searchers -> DOMAIN NextStage \cup {"shown"}]
    /\ todo \in [Searchers -> SUBSET Stores]
    /\ busy \in [Searchers -> {None} \cup Collections]
    /\ reading \in [Searchers -> {None} \cup Readings]
    /\ leave \in [Searchers -> {None} \cup Leaves]
    /\ found \in [Searchers -> SUBSET Stores]
    /\ DOMAIN result = Searchers
    /\ \A p \in Searchers :
        DOMAIN result[p] = Stores /\ \A s \in Stores : Recorded(result[p][s])

(* What is left of a pass was searched by an earlier one, which in the      *)
(* first two passes it did not answer: no answer is there to be lost.       *)
Pending ==
    \A p \in Searchers : \A s \in todo[p] :
        /\ stage[p] \in {"search", "render"} => ~Succeeded(result[p][s])
        /\ stage[p] \notin {"search", "shown"} => result[p][s].outcome # "unasked"

(* A search runs one errand at a time, for a store and a pass that need it. *)
UnderWay ==
    \A p \in Searchers :
        /\ busy[p] # None =>
            /\ busy[p].store \in todo[p] /\ stage[p] \in {"catalogue", "browse"}
            /\ reading[p] = None /\ leave[p] = None
        /\ reading[p] # None =>
            reading[p].store \in todo[p] /\ stage[p] \in DOMAIN Route /\ leave[p] = None
        /\ leave[p] # None => leave[p].store \in todo[p] /\ stage[p] \in DOMAIN Route

Passing == Shapes /\ Pending /\ UnderWay /\ AnswersReachTheReader

-----------------------------------------------------------------------------
(* Files are stamped no later than a collection's time after it began.      *)
Stamped ==
    /\ now \in 0 .. MaxTime
    /\ catalogue \in [Stores -> [Kinds -> {None} \cup Files]]
    /\ \A s \in Stores, k \in Kinds : catalogue[s][k] # None =>
        /\ catalogue[s][k].since <= catalogue[s][k].at
        /\ catalogue[s][k].at <= catalogue[s][k].since + CollectTime
        /\ catalogue[s][k].at <= now
    /\ \A p \in Searchers : busy[p] # None =>
        busy[p].since <= now /\ now <= busy[p].since + CollectTime

(* What rules that were read allow was disallowed only after the host       *)
(* served them, if at all.                                                  *)
Silent(s, rules, since) ==
    rules.readable => \A x \in Paths \ rules.closed :
        closed[s][x] # Open => since <= closed[s][x]

(* An entry is stamped no later than one fetch after the host served it.    *)
Remembered ==
    /\ now \in Nat
    /\ closed \in [Stores -> [Paths -> Nat \cup {Open}]]
    /\ robots \in [Searchers -> [Stores -> {None} \cup Entries]]
    /\ asked \in [Searchers -> {None} \cup Pages]
    /\ \A p \in Searchers, s \in Stores : robots[p][s] # None =>
        /\ robots[p][s].at <= now
        /\ Silent(s, robots[p][s], robots[p][s].at - FetchTime)
    /\ \A p \in Searchers : reading[p] # None =>
        /\ reading[p].since <= now /\ now <= reading[p].since + FetchTime
        /\ Silent(reading[p].store, reading[p].rules, reading[p].since)

(* A search asks for pages that an entry allowed when it was trusted, and   *)
(* not for longer than it has patience.                                     *)
Allowed ==
    \A p \in Searchers : leave[p] # None =>
        LET e == robots[p][leave[p].store]  x == Route[stage[p]] IN
        /\ e # None /\ x \notin e.closed /\ leave[p].since - e.at < RobotsTTL
        /\ leave[p].since <= now /\ now <= leave[p].since + Patience[x]

ReadBefore == Remembered /\ Allowed

-----------------------------------------------------------------------------
(* The passes                                                               *)

LEMMA Basics ==
    /\ RobotsTTL \in Nat \ {0} /\ CatalogueTTL \in Nat /\ CollectTime \in Nat /\ MaxTime \in Nat
    /\ FetchTime \in Nat /\ BrowsePages \in Nat \ {0}
    /\ \A x \in Paths : Patience[x] \in Nat
    /\ Rendering \subseteq Stores /\ Catalogued \subseteq Stores /\ Browsable \subseteq Stores
    /\ Fickle \subseteq Stores
BY DiscoveryAssumption DEF Paths

(* Every pass that asks for pages asks for one kind of them.                *)
LEMMA Asking ==
    /\ DOMAIN Route = {"search", "render", "browse", "price"}
    /\ DOMAIN NextStage = {"search", "render", "catalogue", "browse", "price"}
    /\ \A st \in DOMAIN Route : Route[st] \in Paths
BY DEF Route, NextStage, Paths

LEMMA Unmatched ==
    /\ \A st, t : [store |-> st, since |-> t] # None
    /\ \A st, t, r : [store |-> st, since |-> t, rules |-> r] # None
    /\ \A st, t, n : [store |-> st, since |-> t, left |-> n] # None
    /\ \A st, x, t : [store |-> st, path |-> x, at |-> t] # None
    /\ \A t, c, r : [at |-> t, closed |-> c, readable |-> r] # None
    /\ \A t, c, u : [at |-> t, since |-> c, urls |-> u] # None
    /\ Unasked = [outcome |-> "unasked", hits |-> {}]
<1>1. DOMAIN None = {"none"}
    BY DEF None
<1>2. \A st, t : "store" \in DOMAIN [store |-> st, since |-> t]
    OBVIOUS
<1>3. /\ \A st, t, r : "store" \in DOMAIN [store |-> st, since |-> t, rules |-> r]
      /\ \A st, t, n : "store" \in DOMAIN [store |-> st, since |-> t, left |-> n]
      /\ \A st, x, t : "store" \in DOMAIN [store |-> st, path |-> x, at |-> t]
    OBVIOUS
<1>4. \A t, c, r : "at" \in DOMAIN [at |-> t, closed |-> c, readable |-> r]
    OBVIOUS
<1>5. \A t, c, u : "at" \in DOMAIN [at |-> t, since |-> c, urls |-> u]
    OBVIOUS
<1> HIDE DEF None
<1> QED
    BY <1>1, <1>2, <1>3, <1>4, <1>5 DEF Unasked, Failure

(* Answers and failures are records of an outcome and hits.                 *)
LEMMA Answers ==
    /\ \A o \in Outcomes : Recorded(Failure(o)) /\ Failure(o).outcome = o
    /\ \A h : Recorded(Answer(h)) /\ Answer(h).outcome = "ok"
BY DEF Recorded, Failure, Answer, Succeeded, Outcomes

(* Every route comes back with a failure or an answer.                      *)
LEMMA Routes ==
    /\ \A o \in Outcomes : Recorded(Failure(o)) /\ Failure(o).outcome \in Outcomes
    /\ \A h : Recorded(Answer(h)) /\ Answer(h).outcome \in Outcomes
    /\ \A s : \A r \in ResultsPage(s) : Recorded(r) /\ r.outcome \in Outcomes
    /\ \A s, urls : Recorded(InCatalogue(s, urls)) /\ InCatalogue(s, urls).outcome \in Outcomes
<1>1. \A o \in Outcomes : Recorded(Failure(o)) /\ Failure(o).outcome \in Outcomes
    BY Answers
<1>2. \A h : Recorded(Answer(h)) /\ Answer(h).outcome \in Outcomes
    BY Answers DEF Outcomes
<1>3. \A s : \A r \in ResultsPage(s) : Recorded(r) /\ r.outcome \in Outcomes
    BY <1>1, <1>2 DEF ResultsPage, Outcomes
<1>4. ASSUME NEW s, NEW urls
      PROVE  Recorded(InCatalogue(s, urls)) /\ InCatalogue(s, urls).outcome \in Outcomes
    BY <1>1, <1>2 DEF InCatalogue, Outcomes
<1> QED
    BY <1>1, <1>2, <1>3, <1>4

LEMMA InitPassing == Init => Passing
<1> SUFFICES ASSUME Init PROVE Passing
    OBVIOUS
<1> USE DEF Init
<1>1. Recorded(Unasked) /\ ~Succeeded(Unasked)
    BY Unmatched DEF Recorded, Succeeded
<1>2. Shapes
    BY <1>1 DEF Shapes
<1>3. Pending /\ UnderWay
    BY DEF Pending, UnderWay
<1>4. AnswersReachTheReader
    BY <1>1 DEF AnswersReachTheReader
<1> QED
    BY <1>2, <1>3, <1>4 DEF Passing

(* A search ends its errand, or has none.                                   *)
Freed(p) ==
    /\ busy' \in {busy, [busy EXCEPT ![p] = None]} /\ busy'[p] = None
    /\ reading' \in {reading, [reading EXCEPT ![p] = None]} /\ reading'[p] = None
    /\ leave' \in {leave, [leave EXCEPT ![p] = None]} /\ leave'[p] = None

LEMMA Frees ==
    ASSUME Passing, NEW p \in Searchers, Freed(p)
    PROVE  /\ busy' \in [Searchers -> {None} \cup Collections]
           /\ reading' \in [Searchers -> {None} \cup Readings]
           /\ leave' \in [Searchers -> {None} \cup Leaves]
           /\ busy'[p] = None /\ reading'[p] = None /\ leave'[p] = None
           /\ \A q \in Searchers \ {p} :
                busy'[q] = busy[q] /\ reading'[q] = reading[q] /\ leave'[q] = leave[q]
BY DEF Passing, Shapes, Freed

(* A store of the pass is done with: what it answered stands, and what an   *)
(* earlier pass has found.                                                  *)
LEMMA Concludes ==
    ASSUME Passing, NEW p \in Searchers, NEW s \in todo[p], NEW r,
           Recorded(r), r.outcome \in Outcomes, Conclude(p, s, r), stage' = stage, Freed(p)
    PROVE  Passing'
<1>1. s \in Stores /\ r.outcome # "unasked"
    BY DEF Passing, Shapes, Outcomes
<1>2. /\ todo' = [todo EXCEPT ![p] = todo[p] \ {s}]
      /\ found' = IF Succeeded(r) THEN [found EXCEPT ![p] = found[p] \cup {s}] ELSE found
      /\ result' = IF stage[p] \in {"search", "render"} \/ Succeeded(r)
                   THEN [result EXCEPT ![p] = [result[p] EXCEPT ![s] = r]] ELSE result
    BY DEF Conclude
<1>3. /\ DOMAIN result' = Searchers
      /\ \A q \in Searchers : DOMAIN result'[q] = Stores
      /\ \A q \in Searchers \ {p} : result'[q] = result[q]
      /\ \A x \in Stores \ {s} : result'[p][x] = result[p][x]
      /\ result'[p][s] = IF stage[p] \in {"search", "render"} \/ Succeeded(r)
                         THEN r ELSE result[p][s]
    BY <1>1, <1>2 DEF Passing, Shapes
<1>4. /\ \A q \in Searchers \ {p} : todo'[q] = todo[q] /\ found'[q] = found[q]
      /\ todo'[p] = todo[p] \ {s}
      /\ found'[p] = IF Succeeded(r) THEN found[p] \cup {s} ELSE found[p]
    BY <1>2 DEF Passing, Shapes
<1>5. Shapes'
    <2>1. todo' \in [Searchers -> SUBSET Stores] /\ found' \in [Searchers -> SUBSET Stores]
        BY <1>1, <1>2 DEF Passing, Shapes
    <2>2. \A q \in Searchers, x \in Stores : Recorded(result'[q][x])
        BY <1>3 DEF Passing, Shapes
    <2>3. stage' \in [Searchers -> DOMAIN NextStage \cup {"shown"}]
        BY DEF Passing, Shapes
    <2> HIDE DEF Recorded
    <2> QED
        BY <1>3, <2>1, <2>2, <2>3, Frees DEF Shapes
<1>6. Pending'
    <2> SUFFICES ASSUME NEW q \in Searchers, NEW x \in todo'[q]
                 PROVE  /\ stage[q] \in {"search", "render"} => ~Succeeded(result'[q][x])
                        /\ stage[q] \notin {"search", "shown"} =>
                              result'[q][x].outcome # "unasked"
        BY DEF Pending
    <2>1. x \in todo[q] /\ x \in Stores /\ (q = p => x # s)
        BY <1>4 DEF Passing, Shapes
    <2>2. result'[q][x] = result[q][x]
        BY <1>3, <2>1
    <2> QED
        BY <2>1, <2>2 DEF Passing, Pending
<1>7. UnderWay'
    BY <1>4, Frees DEF Passing, UnderWay
<1>8. AnswersReachTheReader'
    <2> SUFFICES ASSUME NEW q \in Searchers
                 PROVE  found'[q] = {x \in Stores : Succeeded(result'[q][x])}
        BY DEF AnswersReachTheReader
    <2>1. found[q] = {x \in Stores : Succeeded(result[q][x])}
        BY DEF Passing, AnswersReachTheReader
    <2>2. CASE q # p
        BY <1>3, <1>4, <2>1, <2>2
    <2>3. CASE q = p
        <3>1. stage[p] \in {"search", "render"} => ~Succeeded(result[p][s])
            BY DEF Passing, Pending
        <3> QED
            BY <1>1, <1>3, <1>4, <2>1, <2>3, <3>1
    <2> QED
        BY <2>2, <2>3
<1> QED
    BY <1>5, <1>6, <1>7, <1>8 DEF Passing

(* A search takes up an errand, or goes on with one.                        *)
LEMMA TakesUp ==
    ASSUME Passing, NEW p \in Searchers, UNCHANGED <<stage, todo, result, found>>,
           busy' \in [Searchers -> {None} \cup Collections],
           reading' \in [Searchers -> {None} \cup Readings],
           leave' \in [Searchers -> {None} \cup Leaves],
           \A q \in Searchers \ {p} :
                busy'[q] = busy[q] /\ reading'[q] = reading[q] /\ leave'[q] = leave[q],
           busy'[p] # None =>
            /\ busy'[p].store \in todo[p] /\ stage[p] \in {"catalogue", "browse"}
            /\ reading'[p] = None /\ leave'[p] = None,
           reading'[p] # None =>
            reading'[p].store \in todo[p] /\ stage[p] \in DOMAIN Route /\ leave'[p] = None,
           leave'[p] # None => leave'[p].store \in todo[p] /\ stage[p] \in DOMAIN Route
    PROVE  Passing'
<1>1. Shapes'
    BY DEF Passing, Shapes
<1>2. Pending' /\ AnswersReachTheReader'
    BY DEF Passing, Pending, AnswersReachTheReader
<1>3. UnderWay'
    BY DEF Passing, UnderWay
<1> QED
    BY <1>1, <1>2, <1>3 DEF Passing

(* An entry disallows the page, or lets the search ask for it.              *)
LEMMA Decides ==
    ASSUME Passing, now \in Nat, NEW p \in Searchers, NEW s \in todo[p], NEW e,
           Decide(p, s, e), stage' = stage, stage[p] \in DOMAIN Route,
           busy' \in {busy, [busy EXCEPT ![p] = None]}, busy'[p] = None,
           reading' \in {reading, [reading EXCEPT ![p] = None]}, reading'[p] = None,
           leave[p] = None
    PROVE  Passing'
<1>1. CASE Conclude(p, s, Failure("disallowed")) /\ leave' = leave
    <2>1. Recorded(Failure("disallowed")) /\ Failure("disallowed").outcome \in Outcomes
        BY Answers DEF Outcomes
    <2>2. Freed(p)
        BY <1>1 DEF Freed
    <2> QED
        BY <1>1, <2>1, <2>2, Concludes
<1>2. CASE /\ leave' = [leave EXCEPT ![p] = [store |-> s, since |-> now,
                            left |-> IF stage[p] = "browse" THEN BrowsePages ELSE 1]]
           /\ UNCHANGED <<todo, result, found>>
    <2> DEFINE n == IF stage[p] = "browse" THEN BrowsePages ELSE 1
               new == [store |-> s, since |-> now, left |-> n]
    <2>1. n \in Nat /\ s \in Stores
        BY Basics DEF Passing, Shapes
    <2>2. new \in Leaves /\ new.store = s
        BY <2>1 DEF Leaves
    <2>3. leave' = [leave EXCEPT ![p] = new]
        BY <1>2
    <2> HIDE DEF new, n
    <2>4. /\ leave' \in [Searchers -> {None} \cup Leaves] /\ leave'[p] = new
          /\ \A q \in Searchers \ {p} : leave'[q] = leave[q]
        BY <2>2, <2>3 DEF Passing, Shapes
    <2>5. /\ busy' \in [Searchers -> {None} \cup Collections]
          /\ reading' \in [Searchers -> {None} \cup Readings]
          /\ \A q \in Searchers \ {p} : busy'[q] = busy[q] /\ reading'[q] = reading[q]
        BY DEF Passing, Shapes
    <2> QED
        BY <1>2, <2>2, <2>4, <2>5, TakesUp
<1> QED
    BY <1>1, <1>2 DEF Decide

LEMMA Consults ==
    ASSUME Passing, now \in Nat, NEW p \in Searchers, NEW s \in todo[p],
           Consult(p, s), stage' = stage, stage[p] \in DOMAIN Route,
           busy' \in {busy, [busy EXCEPT ![p] = None]}, busy'[p] = None,
           reading[p] = None, leave[p] = None
    PROVE  Passing'
<1>1. CASE Decide(p, s, robots[p][s]) /\ reading' = reading
    BY <1>1, Decides
<1>2. ASSUME NEW rules \in Served(s),
             reading' = [reading EXCEPT ![p] = [store |-> s, since |-> now, rules |-> rules]],
             UNCHANGED <<leave, todo, result, found>>
      PROVE  Passing'
    <2> DEFINE new == [store |-> s, since |-> now, rules |-> rules]
    <2>1. ClosedPaths(s) \in SUBSET Paths /\ s \in Stores
        BY DEF ClosedPaths, Passing, Shapes
    <2>2. rules \in [closed : SUBSET Paths, readable : BOOLEAN]
        <3>1. CASE rules = [closed |-> ClosedPaths(s), readable |-> TRUE]
            BY <2>1, <3>1
        <3>2. CASE rules = [closed |-> {}, readable |-> FALSE]
            BY <3>2
        <3> QED
            BY <3>1, <3>2 DEF Served
    <2>3. new \in Readings /\ new.store = s
        BY <2>1, <2>2 DEF Readings
    <2>4. reading' = [reading EXCEPT ![p] = new]
        BY <1>2
    <2> HIDE DEF new
    <2>5. /\ reading' \in [Searchers -> {None} \cup Readings] /\ reading'[p] = new
          /\ \A q \in Searchers \ {p} : reading'[q] = reading[q]
        BY <2>3, <2>4 DEF Passing, Shapes
    <2>6. /\ busy' \in [Searchers -> {None} \cup Collections]
          /\ leave' \in [Searchers -> {None} \cup Leaves] /\ leave'[p] = None
          /\ \A q \in Searchers \ {p} : busy'[q] = busy[q] /\ leave'[q] = leave[q]
        BY <1>2 DEF Passing, Shapes
    <2> QED
        BY <1>2, <2>3, <2>5, <2>6, TakesUp
<1> QED
    BY <1>1, <1>2 DEF Consult

LEMMA ThrottledPasses ==
    ASSUME Passing, NEW p \in Searchers, NEW s \in Stores, Throttled(p, s)
    PROVE  Passing'
<1>1. /\ s \in todo[p] /\ stage' = stage /\ Conclude(p, s, Failure("error"))
      /\ Freed(p)
    BY DEF Throttled, Takes, Idle, errands, Freed
<1>2. Recorded(Failure("error")) /\ Failure("error").outcome \in Outcomes
    BY Answers DEF Outcomes
<1> QED
    BY <1>1, <1>2, Concludes

LEMMA WantPasses ==
    ASSUME Passing, now \in Nat, NEW p \in Searchers, NEW s \in Stores, Want(p, s)
    PROVE  Passing'
<1>1. /\ s \in todo[p] /\ stage[p] \in DOMAIN Route /\ stage' = stage /\ busy' = busy
      /\ busy[p] = None /\ reading[p] = None /\ leave[p] = None /\ Consult(p, s)
    BY Asking DEF Want, Idle, Takes
<1> QED
    BY <1>1, Consults

LEMMA RulesReadPasses ==
    ASSUME Passing, now \in Nat, NEW p \in Searchers, RulesRead(p)
    PROVE  Passing'
<1> DEFINE s == reading[p].store
<1>1. /\ reading[p] # None /\ stage' = stage /\ busy' = busy
      /\ reading' = [reading EXCEPT ![p] = None]
      /\ \E e : Decide(p, s, e)
    BY DEF RulesRead
<1>2. s \in todo[p] /\ stage[p] \in DOMAIN Route /\ busy[p] = None /\ leave[p] = None
    BY <1>1 DEF Passing, UnderWay
<1>3. reading'[p] = None
    BY <1>1 DEF Passing, Shapes
<1> HIDE DEF s
<1> QED
    BY <1>1, <1>2, <1>3, Decides

(* A page has been asked for, and the search is done with the store.        *)
LEMMA SearchOnePasses ==
    ASSUME Passing, NEW p \in Searchers, SearchOne(p)
    PROVE  Passing'
<1> DEFINE s == leave[p].store
<1>1. /\ leave[p] # None /\ stage' = stage /\ busy' = busy /\ reading' = reading
      /\ leave' = [leave EXCEPT ![p] = None]
      /\ \E r \in ResultsPage(s) : Conclude(p, s, r)
    BY DEF SearchOne, GivesUp
<1>2. s \in todo[p] /\ busy[p] = None /\ reading[p] = None
    BY <1>1 DEF Passing, UnderWay
<1>3. Freed(p)
    BY <1>1, <1>2 DEF Passing, Shapes, Freed
<1>4. PICK r \in ResultsPage(s) : Conclude(p, s, r)
    BY <1>1
<1>5. Recorded(r) /\ r.outcome \in Outcomes
    BY Routes
<1> HIDE DEF s
<1> QED
    BY <1>1, <1>2, <1>3, <1>4, <1>5, Concludes

LEMMA BrowseOnePasses ==
    ASSUME Passing, NEW p \in Searchers, BrowseOne(p)
    PROVE  Passing'
<1> DEFINE s == leave[p].store  n == leave[p].left
<1>1. /\ leave[p] # None /\ stage[p] = "browse" /\ stage' = stage /\ busy' = busy
      /\ reading' = reading
    BY DEF BrowseOne
<1>2. /\ s \in todo[p] /\ busy[p] = None /\ reading[p] = None
      /\ leave[p] \in Leaves /\ s \in Stores /\ n \in Nat
    BY <1>1 DEF Passing, UnderWay, Shapes, Leaves
<1>3. CASE /\ \/ \E h \in OnListing(s) : Conclude(p, s, Answer(h))
              \/ Conclude(p, s, Failure(IF n = BrowsePages THEN "page_structure" ELSE "no_results"))
              \/ n = 1 /\ Conclude(p, s, Failure("no_results"))
           /\ GivesUp(p)
    <2>1. Freed(p)
        BY <1>1, <1>2, <1>3 DEF Passing, Shapes, Freed, GivesUp
    <2>2. PICK r : Recorded(r) /\ r.outcome \in Outcomes /\ Conclude(p, s, r)
        <3>1. "page_structure" \in Outcomes /\ "no_results" \in Outcomes
            BY DEF Outcomes
        <3> HIDE DEF Conclude, Failure, Answer, Recorded, Outcomes, s
        <3> QED
            BY <1>3, <3>1, Routes
    <2> HIDE DEF s
    <2> QED
        BY <1>1, <1>2, <2>1, <2>2, Concludes
<1>4. CASE n > 1 /\ leave' = [leave EXCEPT ![p].left = n - 1] /\ UNCHANGED <<todo, result, found>>
    <2> DEFINE new == [leave[p] EXCEPT !.left = n - 1]
    <2>1. new \in Leaves /\ new.store = s
        BY <1>2, <1>4 DEF Leaves
    <2>2. leave' = [leave EXCEPT ![p] = new]
        BY <1>4
    <2> HIDE DEF new
    <2>3. /\ leave' \in [Searchers -> {None} \cup Leaves] /\ leave'[p] = new
          /\ \A q \in Searchers \ {p} : leave'[q] = leave[q]
        BY <2>1, <2>2 DEF Passing, Shapes
    <2>4. /\ busy' \in [Searchers -> {None} \cup Collections]
          /\ reading' \in [Searchers -> {None} \cup Readings]
          /\ \A q \in Searchers \ {p} : busy'[q] = busy[q] /\ reading'[q] = reading[q]
        BY <1>1 DEF Passing, Shapes
    <2>5. stage[p] \in DOMAIN Route
        BY <1>1, Asking
    <2> HIDE DEF s, n
    <2> QED
        BY <1>1, <1>2, <1>4, <2>1, <2>3, <2>4, <2>5, TakesUp
<1> QED
    BY <1>3, <1>4 DEF BrowseOne

(* The URLs that a pass has: a conclusion, or a look at robots.txt.         *)
LEMMA Uses ==
    ASSUME Passing, now \in Nat, NEW p \in Searchers, NEW s \in todo[p], NEW urls,
           Use(p, s, urls), stage' = stage, stage[p] \in {"catalogue", "browse"},
           busy' \in {busy, [busy EXCEPT ![p] = None]}, busy'[p] = None,
           reading[p] = None, leave[p] = None
    PROVE  Passing'
<1>1. CASE stage[p] = "catalogue"
    <2>1. Conclude(p, s, InCatalogue(s, urls)) /\ UNCHANGED <<reading, leave>>
        BY <1>1 DEF Use
    <2>2. Recorded(InCatalogue(s, urls)) /\ InCatalogue(s, urls).outcome \in Outcomes
        BY Routes
    <2> QED
        BY <2>1, <2>2, Concludes DEF Freed
<1>2. CASE stage[p] # "catalogue" /\ "product" \in urls
    <2>1. Consult(p, s) /\ stage[p] \in DOMAIN Route
        BY <1>2, Asking DEF Use
    <2> QED
        BY <2>1, Consults
<1>3. CASE stage[p] # "catalogue" /\ "product" \notin urls
    <2>1. Conclude(p, s, Failure("no_results")) /\ UNCHANGED <<reading, leave>>
        BY <1>3 DEF Use
    <2>2. Recorded(Failure("no_results")) /\ Failure("no_results").outcome \in Outcomes
        BY Answers DEF Outcomes
    <2> QED
        BY <2>1, <2>2, Concludes DEF Freed
<1> QED
    BY <1>1, <1>2, <1>3

LEMMA CollectedPasses ==
    ASSUME Passing, now \in Nat, NEW p \in Searchers,
           Collected(p) \/ \E s \in Stores : ReadCache(p, s)
    PROVE  Passing'
<1>1. CASE Collected(p)
    <2> DEFINE s == busy[p].store
    <2>1. /\ s \in todo[p] /\ stage[p] \in {"catalogue", "browse"}
          /\ reading[p] = None /\ leave[p] = None
        BY <1>1 DEF Collected, Passing, UnderWay
    <2>2. /\ busy' = [busy EXCEPT ![p] = None] /\ stage' = stage
          /\ \E urls : Use(p, s, urls)
        BY <1>1 DEF Collected
    <2>3. busy'[p] = None
        BY <2>2 DEF Passing, Shapes
    <2> HIDE DEF s
    <2> QED
        BY <2>1, <2>2, <2>3, Uses
<1>2. ASSUME NEW s \in Stores, ReadCache(p, s) PROVE Passing'
    <2>1. /\ s \in todo[p] /\ stage[p] \in {"catalogue", "browse"} /\ busy[p] = None
          /\ reading[p] = None /\ leave[p] = None /\ busy' = busy /\ stage' = stage
          /\ \E urls : Use(p, s, urls)
        BY <1>2 DEF ReadCache, Takes, Idle
    <2> QED
        BY <2>1, Uses
<1> QED
    BY <1>1, <1>2

(* One store's finding concerns all that remain, none of which has answered.*)
LEMMA NoBrowserPasses ==
    ASSUME Passing, NEW p \in Searchers, NoBrowser(p)
    PROVE  Passing'
<1>1. /\ leave[p] # None /\ stage[p] = "render" /\ stage' = stage
      /\ busy' = busy /\ reading' = reading /\ leave' = [leave EXCEPT ![p] = None]
      /\ result' = [result EXCEPT ![p] = [x \in Stores |->
            IF x \in todo[p] THEN Failure("needs_browser") ELSE @[x]]]
      /\ todo' = [todo EXCEPT ![p] = {}]
      /\ found' = found
    BY DEF NoBrowser, GivesUp
<1>2. Freed(p)
    BY <1>1 DEF Passing, UnderWay, Shapes, Freed
<1>3. Recorded(Failure("needs_browser")) /\ ~Succeeded(Failure("needs_browser"))
    BY Answers DEF Outcomes, Succeeded
<1>4. /\ DOMAIN result' = Searchers
      /\ \A q \in Searchers : DOMAIN result'[q] = Stores
      /\ \A q \in Searchers \ {p} : result'[q] = result[q] /\ todo'[q] = todo[q]
      /\ \A x \in Stores : result'[p][x] =
            IF x \in todo[p] THEN Failure("needs_browser") ELSE result[p][x]
      /\ todo'[p] = {} /\ todo' \in [Searchers -> SUBSET Stores]
    BY <1>1 DEF Passing, Shapes
<1>5. Shapes'
    BY <1>1, <1>2, <1>3, <1>4, Frees DEF Passing, Shapes
<1>6. Pending' /\ UnderWay'
    BY <1>1, <1>2, <1>4, Frees DEF Passing, Pending, UnderWay
<1>7. AnswersReachTheReader'
    <2> SUFFICES ASSUME NEW q \in Searchers
                 PROVE  found[q] = {x \in Stores : Succeeded(result'[q][x])}
        BY <1>1 DEF AnswersReachTheReader
    <2>1. \A x \in Stores : Succeeded(result'[q][x]) <=> Succeeded(result[q][x])
        BY <1>1, <1>3, <1>4 DEF Passing, Pending
    <2> QED
        BY <2>1 DEF Passing, AnswersReachTheReader
<1> QED
    BY <1>5, <1>6, <1>7 DEF Passing

LEMMA BeginPasses ==
    ASSUME Passing, NEW p \in Searchers, Begin(p)
    PROVE  Passing'
<1>1. PICK targets \in SUBSET Stores : todo' = [todo EXCEPT ![p] = targets]
    BY DEF Begin
<1>2. /\ stage[p] = "shown" /\ stage' = [stage EXCEPT ![p] = "search"]
      /\ busy' = busy /\ reading' = reading /\ leave' = leave
      /\ result' = [result EXCEPT ![p] = [s \in Stores |-> Unasked]]
      /\ found' = [found EXCEPT ![p] = {}]
    BY DEF Begin, errands
<1>3. Recorded(Unasked) /\ ~Succeeded(Unasked)
    BY Unmatched DEF Recorded, Succeeded
<1>4. Shapes'
    BY <1>1, <1>2, <1>3 DEF Passing, Shapes, NextStage
<1>5. Pending'
    BY <1>1, <1>2, <1>3 DEF Passing, Shapes, Pending
<1>6. UnderWay'
    <2>1. busy[p] = None /\ reading[p] = None /\ leave[p] = None
        BY <1>2, Asking DEF Passing, UnderWay
    <2> QED
        BY <1>1, <1>2, <2>1 DEF Passing, Shapes, UnderWay
<1>7. AnswersReachTheReader'
    BY <1>2, <1>3 DEF Passing, Shapes, AnswersReachTheReader
<1> QED
    BY <1>4, <1>5, <1>6, <1>7 DEF Passing

LEMMA StartCollectingPasses ==
    ASSUME Passing, now \in Nat, NEW p \in Searchers, NEW s \in Stores, StartCollecting(p, s)
    PROVE  Passing'
<1> DEFINE new == [store |-> s, since |-> now]
<1>1. /\ s \in todo[p] /\ stage[p] \in {"catalogue", "browse"}
      /\ busy' = [busy EXCEPT ![p] = new]
      /\ UNCHANGED <<stage, todo, result, found, reading, leave>>
      /\ reading[p] = None /\ leave[p] = None
    BY DEF StartCollecting, Takes, Idle
<1>2. new \in Collections /\ new.store = s
    BY DEF Collections
<1> HIDE DEF new
<1>3. /\ busy' \in [Searchers -> {None} \cup Collections] /\ busy'[p] = new
      /\ \A q \in Searchers \ {p} : busy'[q] = busy[q]
    BY <1>1, <1>2 DEF Passing, Shapes
<1>4. /\ reading' \in [Searchers -> {None} \cup Readings]
      /\ leave' \in [Searchers -> {None} \cup Leaves]
    BY <1>1 DEF Passing, Shapes
<1> QED
    BY <1>1, <1>2, <1>3, <1>4, TakesUp

(* Dressing up or dropping hits takes no answer away.                       *)
LEMMA Rewrites ==
    ASSUME Passing, NEW p \in Searchers, DOMAIN result' = Searchers,
           \A q \in Searchers : DOMAIN result'[q] = Stores,
           \A q \in Searchers \ {p} : result'[q] = result[q],
           \A s \in Stores : /\ Recorded(result'[p][s])
                             /\ result'[p][s].outcome = result[p][s].outcome,
           todo' \in [Searchers -> SUBSET Stores], found' = found, Freed(p),
           stage' \in [Searchers -> DOMAIN NextStage \cup {"shown"}],
           \A q \in Searchers \ {p} : todo'[q] = todo[q] /\ stage'[q] = stage[q],
           \A s \in todo'[p] :
             /\ stage'[p] \in {"search", "render"} => ~Succeeded(result[p][s])
             /\ stage'[p] \notin {"search", "shown"} => result[p][s].outcome # "unasked"
    PROVE  Passing'
<1>1. \A q \in Searchers, s \in Stores :
        Recorded(result'[q][s]) /\ result'[q][s].outcome = result[q][s].outcome
    BY DEF Passing, Shapes
<1>2. \A q \in Searchers, s \in Stores : Succeeded(result'[q][s]) <=> Succeeded(result[q][s])
    BY <1>1 DEF Succeeded
<1>3. Shapes'
    BY <1>1, Frees DEF Passing, Shapes
<1>4. Pending'
    <2> SUFFICES ASSUME NEW q \in Searchers, NEW s \in todo'[q]
                 PROVE  /\ stage'[q] \in {"search", "render"} => ~Succeeded(result'[q][s])
                        /\ stage'[q] \notin {"search", "shown"} =>
                              result'[q][s].outcome # "unasked"
        BY DEF Pending
    <2>1. s \in Stores
        OBVIOUS
    <2> QED
        BY <1>1, <1>2, <2>1 DEF Passing, Pending
<1>5. UnderWay'
    BY Frees DEF Passing, UnderWay
<1>6. AnswersReachTheReader'
    BY <1>2 DEF Passing, AnswersReachTheReader
<1> QED
    BY <1>3, <1>4, <1>5, <1>6 DEF Passing

LEMMA PriceOnePasses ==
    ASSUME Passing, NEW p \in Searchers, PriceOne(p)
    PROVE  Passing'
<1> DEFINE s == leave[p].store
<1>1. /\ leave[p] # None /\ stage[p] = "price" /\ todo' = [todo EXCEPT ![p] = todo[p] \ {s}]
      /\ UNCHANGED <<stage, busy, reading, found>> /\ leave' = [leave EXCEPT ![p] = None]
    BY DEF PriceOne, GivesUp
<1>2. \/ result' = result
      \/ \E published \in BOOLEAN :
           result' = [result EXCEPT ![p][s].hits = {Priced(s, h, published) : h \in @}]
    BY DEF PriceOne
<1>3. s \in todo[p] /\ s \in Stores /\ Freed(p)
    BY <1>1 DEF Passing, UnderWay, Shapes, Freed
<1> HIDE DEF s
<1>4. /\ DOMAIN result' = Searchers
      /\ \A q \in Searchers : DOMAIN result'[q] = Stores
      /\ \A q \in Searchers \ {p} : result'[q] = result[q]
      /\ \A x \in Stores : /\ Recorded(result'[p][x])
                           /\ result'[p][x].outcome = result[p][x].outcome
    <2>1. CASE result' = result
        BY <2>1 DEF Passing, Shapes
    <2>2. ASSUME NEW published \in BOOLEAN,
                 result' = [result EXCEPT ![p][s].hits = {Priced(s, h, published) : h \in @}]
          PROVE  /\ DOMAIN result' = Searchers
                 /\ \A q \in Searchers : DOMAIN result'[q] = Stores
                 /\ \A q \in Searchers \ {p} : result'[q] = result[q]
                 /\ \A x \in Stores : /\ Recorded(result'[p][x])
                                      /\ result'[p][x].outcome = result[p][x].outcome
        <3> DEFINE old == result[p][s]  hits == {Priced(s, h, published) : h \in old.hits}
                   new == [old EXCEPT !.hits = hits]
        <3>1. result' = [result EXCEPT ![p] = [result[p] EXCEPT ![s] = new]]
            BY <2>2
        <3>2. Recorded(old)
            BY <1>3 DEF Passing, Shapes
        <3>3. hits # {} => old.hits # {}
            OBVIOUS
        <3> HIDE DEF hits
        <3>4. new = [outcome |-> old.outcome, hits |-> hits]
            BY <3>2 DEF Recorded
        <3>5. Recorded(new) /\ new.outcome = old.outcome
            BY <3>2, <3>3, <3>4 DEF Recorded, Succeeded
        <3> HIDE DEF new
        <3> QED
            BY <1>3, <3>1, <3>5 DEF Passing, Shapes
    <2> QED
        BY <1>2, <2>1, <2>2
<1>5. /\ todo' \in [Searchers -> SUBSET Stores]
      /\ \A q \in Searchers \ {p} : todo'[q] = todo[q]
      /\ \A x \in todo'[p] : x \in todo[p]
    BY <1>1 DEF Passing, Shapes
<1>6. \A x \in todo'[p] : result[p][x].outcome # "unasked"
    BY <1>1, <1>5 DEF Passing, Pending
<1>7. stage' \in [Searchers -> DOMAIN NextStage \cup {"shown"}]
    BY <1>1 DEF Passing, Shapes
<1> QED
    BY <1>1, <1>3, <1>4, <1>5, <1>6, <1>7, Rewrites

(* The stores of the next pass have been asked, and a rendered one had not  *)
(* answered.                                                                *)
LEMMA NextPass ==
    ASSUME Passing, NEW p \in Searchers
    PROVE  /\ WorthRendering(p) \cup WorthCataloguing(p) \cup WorthBrowsing(p) \subseteq Stores
           /\ \A s \in WorthRendering(p) :
                ~Succeeded(result[p][s]) /\ result[p][s].outcome # "unasked"
           /\ \A s \in WorthCataloguing(p) \cup WorthBrowsing(p) :
                result[p][s].outcome # "unasked"
<1>1. WorthRendering(p) \subseteq Stores /\ \A s \in WorthRendering(p) :
        ~Succeeded(result[p][s]) /\ result[p][s].outcome # "unasked"
    BY Basics DEF WorthRendering, Succeeded
<1>2. WorthCataloguing(p) \subseteq Stores /\ \A s \in WorthCataloguing(p) :
        result[p][s].outcome # "unasked"
    BY Basics DEF WorthCataloguing
<1>3. WorthBrowsing(p) \subseteq Stores /\ \A s \in WorthBrowsing(p) :
        result[p][s].outcome # "unasked"
    <2> SUFFICES ASSUME NEW s \in WorthBrowsing(p)
                 PROVE  s \in Stores /\ result[p][s].outcome # "unasked"
        OBVIOUS
    <2>1. s \in Stores /\ result[p][s] # Unasked
        BY DEF WorthBrowsing, Searched
    <2>2. Recorded(result[p][s])
        BY <2>1 DEF Passing, Shapes
    <2> QED
        BY <2>1, <2>2, Unmatched DEF Recorded, Succeeded
<1> QED
    BY <1>1, <1>2, <1>3

(* Hits that are worth a price are those of stores that answered.           *)
LEMMA HitsAnswered ==
    ASSUME Passing, NEW p \in Searchers, NEW x \in Hits(p)
    PROVE  x[1] \in Stores /\ result[p][x[1]].outcome # "unasked"
<1>1. PICK s \in Stores : x \in {<<s, h>> : h \in result[p][s].hits}
    BY DEF Hits
<1>2. x[1] = s /\ result[p][s].hits # {}
    BY <1>1
<1> QED
    BY <1>2 DEF Passing, Shapes, Recorded, Succeeded

LEMMA AdvancePasses ==
    ASSUME Passing, NEW p \in Searchers, Advance(p)
    PROVE  Passing'
<1> USE DEF NextStage
<1>1. /\ todo[p] = {} /\ stage[p] # "shown" /\ stage' = [stage EXCEPT ![p] = NextStage[stage[p]]]
      /\ UNCHANGED <<busy, reading, leave, found>>
    BY DEF Advance, errands
<1>2. Freed(p)
    BY <1>1 DEF Passing, UnderWay, Freed
<1>3. stage[p] \in {"search", "render", "catalogue", "browse", "price"}
    BY <1>1 DEF Passing, Shapes
<1>4. /\ stage' \in [Searchers -> DOMAIN NextStage \cup {"shown"}]
      /\ stage'[p] = NextStage[stage[p]]
      /\ \A q \in Searchers \ {p} : stage'[q] = stage[q]
    BY <1>1, <1>3 DEF Passing, Shapes
<1>5. ASSUME result' = result
      PROVE  /\ DOMAIN result' = Searchers
             /\ \A q \in Searchers : DOMAIN result'[q] = Stores
             /\ \A q \in Searchers \ {p} : result'[q] = result[q]
             /\ \A s \in Stores : /\ Recorded(result'[p][s])
                                  /\ result'[p][s].outcome = result[p][s].outcome
    BY <1>5 DEF Passing, Shapes
<1>6. ASSUME NEW targets \in SUBSET Stores
      PROVE  /\ [todo EXCEPT ![p] = targets] \in [Searchers -> SUBSET Stores]
             /\ [todo EXCEPT ![p] = targets][p] = targets
             /\ \A q \in Searchers \ {p} : [todo EXCEPT ![p] = targets][q] = todo[q]
    BY DEF Passing, Shapes
<1>7. CASE stage[p] = "search"
    <2>1. PICK targets \in {{}, WorthRendering(p)} : todo' = [todo EXCEPT ![p] = targets]
        BY <1>7 DEF Advance
    <2>2. result' = result /\ stage'[p] = "render" /\ targets \in SUBSET Stores
        BY <1>4, <1>7, NextPass DEF Advance
    <2>3. \A s \in targets : ~Succeeded(result[p][s]) /\ result[p][s].outcome # "unasked"
        BY NextPass
    <2> QED
        BY <1>1, <1>2, <1>4, <1>5, <1>6, <2>1, <2>2, <2>3, Rewrites
<1>8. CASE stage[p] = "render"
    <2>1. /\ todo' = [todo EXCEPT ![p] = WorthCataloguing(p)] /\ result' = result
          /\ stage'[p] = "catalogue" /\ WorthCataloguing(p) \in SUBSET Stores
        BY <1>4, <1>8, NextPass DEF Advance
    <2>2. \A s \in WorthCataloguing(p) : result[p][s].outcome # "unasked"
        BY NextPass
    <2> QED
        BY <1>1, <1>2, <1>4, <1>5, <1>6, <2>1, <2>2, Rewrites
<1>9. CASE stage[p] = "catalogue"
    <2>1. /\ todo' = [todo EXCEPT ![p] = WorthBrowsing(p)] /\ result' = result
          /\ stage'[p] = "browse" /\ WorthBrowsing(p) \in SUBSET Stores
        BY <1>4, <1>9, NextPass DEF Advance
    <2>2. \A s \in WorthBrowsing(p) : result[p][s].outcome # "unasked"
        BY NextPass
    <2> QED
        BY <1>1, <1>2, <1>4, <1>5, <1>6, <2>1, <2>2, Rewrites
<1>10. CASE stage[p] = "browse"
    <2> DEFINE shown == {x \in Hits(p) : x[2].title \cap Exclude = {}}
    <2>1. PICK W \in Wanted(shown) : todo' = [todo EXCEPT ![p] = {x[1] : x \in W}]
        BY <1>10 DEF Advance
    <2>2. result' = [result EXCEPT ![p] = [s \in Stores |-> Kept(result[p][s])]]
        BY <1>10 DEF Advance
    <2>3. W \subseteq Hits(p)
        BY DEF Wanted
    <2> DEFINE targets == {x[1] : x \in W}
    <2>4. targets \in SUBSET Stores /\ \A s \in targets : result[p][s].outcome # "unasked"
        BY <2>3, HitsAnswered
    <2>5. ASSUME NEW s \in Stores
          PROVE  Recorded(Kept(result[p][s])) /\ Kept(result[p][s]).outcome = result[p][s].outcome
        <3> DEFINE old == result[p][s]  hits == {h \in old.hits : h.title \cap Exclude = {}}
        <3>1. Recorded(old)
            BY DEF Passing, Shapes
        <3>2. hits # {} => old.hits # {}
            OBVIOUS
        <3>3. Kept(old) = [old EXCEPT !.hits = hits]
            BY DEF Kept
        <3> HIDE DEF hits
        <3>4. Kept(old) = [outcome |-> old.outcome, hits |-> hits]
            BY <3>1, <3>3 DEF Recorded
        <3> QED
            BY <3>1, <3>2, <3>4 DEF Recorded, Succeeded
    <2>6. /\ DOMAIN result' = Searchers
          /\ \A q \in Searchers : DOMAIN result'[q] = Stores
          /\ \A q \in Searchers \ {p} : result'[q] = result[q]
          /\ \A s \in Stores : /\ Recorded(result'[p][s])
                               /\ result'[p][s].outcome = result[p][s].outcome
        BY <2>2, <2>5 DEF Passing, Shapes
    <2>7. todo' = [todo EXCEPT ![p] = targets] /\ stage'[p] = "price"
        BY <1>4, <1>10, <2>1
    <2> HIDE DEF targets, shown
    <2>8. /\ todo' \in [Searchers -> SUBSET Stores] /\ todo'[p] = targets
          /\ \A q \in Searchers \ {p} : todo'[q] = todo[q]
        BY <1>6, <2>4, <2>7
    <2>9. \A s \in todo'[p] : /\ stage'[p] \notin {"search", "render"}
                              /\ result[p][s].outcome # "unasked"
        BY <2>4, <2>7, <2>8
    <2> QED
        BY <1>1, <1>2, <1>4, <2>6, <2>8, <2>9, Rewrites
<1>11. CASE stage[p] = "price"
    <2>1. todo' = todo /\ result' = result /\ stage'[p] = "shown"
        BY <1>4, <1>11 DEF Advance
    <2>2. todo' \in [Searchers -> SUBSET Stores]
        BY <2>1 DEF Passing, Shapes
    <2> QED
        BY <1>1, <1>2, <1>4, <1>5, <2>1, <2>2, Rewrites
<1> QED
    BY <1>3, <1>7, <1>8, <1>9, <1>10, <1>11

-----------------------------------------------------------------------------
(* Catalogues and clocks                                                    *)

LEMMA Dated ==
    ASSUME Stamped, Passing, [Next]_vars
    PROVE  Stamped'
<1>1. /\ now \in Nat /\ now \in 0 .. MaxTime /\ CollectTime \in Nat
      /\ catalogue \in [Stores -> [Kinds -> {None} \cup Files]]
    BY Basics DEF Stamped
<1>2. CASE UNCHANGED <<now, catalogue, busy>>
    BY <1>2 DEF Stamped
<1>3. CASE Tick
    <2>1. /\ now < MaxTime /\ now' = now + 1 /\ UNCHANGED <<catalogue, busy>>
          /\ \A p \in Searchers : busy[p] # None => now < busy[p].since + CollectTime
        BY <1>3 DEF Tick, memory, errands
    <2>2. \A p \in Searchers : busy[p] # None => busy[p].since \in Nat
        BY DEF Passing, Shapes, Collections
    <2>3. \A s \in Stores, k \in Kinds : catalogue[s][k] # None => catalogue[s][k].at \in Nat
        BY <1>1 DEF Files
    <2> QED
        BY <1>1, <2>1, <2>2, <2>3, Basics DEF Stamped
<1>4. ASSUME NEW p \in Searchers, NEW s \in Stores, StartCollecting(p, s)
      PROVE  Stamped'
    <2>1. busy' = [busy EXCEPT ![p] = [store |-> s, since |-> now]] /\ UNCHANGED <<now, catalogue>>
        BY <1>4 DEF StartCollecting, memory
    <2>2. /\ \A q \in Searchers \ {p} : busy'[q] = busy[q]
          /\ busy'[p].since = now
        BY <2>1 DEF Passing, Shapes
    <2> QED
        BY <1>1, <2>1, <2>2 DEF Stamped
<1>5. ASSUME NEW p \in Searchers, Collected(p)
      PROVE  Stamped'
    <2> DEFINE s == busy[p].store  k == KindRead(p)
    <2>1. /\ busy[p] # None /\ busy' = [busy EXCEPT ![p] = None] /\ now' = now
          /\ s \in Stores /\ k \in Kinds /\ busy[p].since \in Nat
          /\ busy[p].since <= now /\ now <= busy[p].since + CollectTime
        BY <1>5 DEF Collected, Passing, Shapes, Collections, Stamped, KindRead, Kinds
    <2>2. \A q \in Searchers : busy'[q] # None => busy'[q] = busy[q]
        BY <2>1 DEF Passing, Shapes
    <2>3. PICK urls \in SUBSET {"product", "others"} :
            \/ catalogue' = [catalogue EXCEPT ![s][k] = Written(p, urls)]
            \/ catalogue' = catalogue
        BY <1>5 DEF Collected
    <2> DEFINE file == Written(p, urls)
    <2>4. /\ file \in Files /\ file.since <= file.at /\ file.at <= file.since + CollectTime
          /\ file.at <= now
        BY <1>1, <2>1 DEF Written, Files
    <2> HIDE DEF s, k, file
    <2>5. /\ catalogue' \in [Stores -> [Kinds -> {None} \cup Files]]
          /\ \A x \in Stores, y \in Kinds :
               catalogue'[x][y] = catalogue[x][y] \/ catalogue'[x][y] = file
        <3>1. CASE catalogue' = catalogue
            BY <1>1, <3>1
        <3>2. CASE catalogue' = [catalogue EXCEPT ![s][k] = file]
            BY <1>1, <2>1, <2>4, <3>2
        <3> QED
            BY <2>3, <3>1, <3>2 DEF file
    <2> QED
        BY <1>1, <2>1, <2>2, <2>4, <2>5 DEF Stamped
<1>6. ASSUME NEW p \in Searchers, NEW s \in Stores, Throttled(p, s) \/ Want(p, s) \/ ReadCache(p, s)
      PROVE  UNCHANGED <<now, catalogue, busy>>
    BY <1>6 DEF Throttled, Want, ReadCache, memory, errands
<1>7. ASSUME NEW p \in Searchers,
             \/ Begin(p) \/ RulesRead(p) \/ SearchOne(p) \/ NoBrowser(p) \/ BrowseOne(p)
             \/ PriceOne(p) \/ Advance(p)
      PROVE  UNCHANGED <<now, catalogue, busy>>
    BY <1>7 DEF Begin, RulesRead, SearchOne, NoBrowser, BrowseOne, PriceOne, Advance, memory,
                errands
<1>8. ASSUME NEW s \in Stores, ChangeRules(s)
      PROVE  UNCHANGED <<now, catalogue, busy>>
    BY <1>8 DEF ChangeRules, memory, errands
<1>9. UNCHANGED vars => UNCHANGED <<now, catalogue, busy>>
    BY DEF vars, memory, errands
<1> QED
    BY <1>2, <1>3, <1>4, <1>5, <1>6, <1>7, <1>8, <1>9 DEF Next

-----------------------------------------------------------------------------
(* Robots                                                                   *)

Honours ==
    \A p \in Searchers : asked'[p] \notin {asked[p], None} =>
        LET s == asked'[p].store  x == asked'[p].path  c == closed[s][x] IN
        c # Open /\ now - c >= RobotsTTL + FetchTime + Patience[x]
            => ~robots[p][s].readable

(* Nothing is asked.                                                        *)
LEMMA Unasking ==
    ASSUME Remembered, asked' = asked \/ \E p \in Searchers : asked' = [asked EXCEPT ![p] = None]
    PROVE  asked' \in [Searchers -> {None} \cup Pages] /\ Honours
<1>1. /\ asked' \in [Searchers -> {None} \cup Pages]
      /\ \A p \in Searchers : asked'[p] \in {asked[p], None}
    BY DEF Remembered
<1> QED
    BY <1>1 DEF Honours

(* A page asked for was allowed by an entry that was trusted, and the entry *)
(* by what the host served.                                                 *)
LEMMA Asks ==
    ASSUME Passing, ReadBefore, NEW p \in Searchers, leave[p] # None, Requests(p)
    PROVE  asked' \in [Searchers -> {None} \cup Pages] /\ Honours
<1> DEFINE s == leave[p].store  x == Route[stage[p]]  e == robots[p][s]
<1>1. s \in Stores /\ leave[p].since \in Nat /\ x \in Paths
    BY Asking DEF Passing, Shapes, UnderWay, Leaves
<1>2. asked' = [asked EXCEPT ![p] = [store |-> s, path |-> x, at |-> now]]
    BY DEF Requests
<1>3. /\ e # None /\ x \notin e.closed /\ leave[p].since - e.at < RobotsTTL
      /\ leave[p].since <= now /\ now <= leave[p].since + Patience[x]
    BY DEF ReadBefore, Allowed
<1>4. /\ now \in Nat /\ e.at \in Nat /\ closed[s][x] \in Nat \cup {Open}
      /\ Patience[x] \in Nat /\ RobotsTTL \in Nat /\ FetchTime \in Nat
    BY <1>1, <1>3, Basics DEF ReadBefore, Remembered, Entries
<1>5. e.readable /\ closed[s][x] # Open => e.at - FetchTime <= closed[s][x]
    BY <1>1, <1>3 DEF ReadBefore, Remembered, Silent
<1>6. e.readable /\ closed[s][x] # Open =>
        now - closed[s][x] < RobotsTTL + FetchTime + Patience[x]
    BY <1>1, <1>3, <1>4, <1>5 DEF Open
<1> HIDE DEF s, x, e
<1>7. [store |-> s, path |-> x, at |-> now] \in Pages
    BY <1>1, <1>4 DEF Pages
<1>8. /\ asked' \in [Searchers -> {None} \cup Pages]
      /\ asked'[p] = [store |-> s, path |-> x, at |-> now]
      /\ \A q \in Searchers \ {p} : asked'[q] = asked[q]
    BY <1>2, <1>7 DEF ReadBefore, Remembered
<1>9. Honours
    <2> SUFFICES ASSUME NEW q \in Searchers, asked'[q] \notin {asked[q], None},
                        closed[asked'[q].store][asked'[q].path] # Open,
                        now - closed[asked'[q].store][asked'[q].path]
                            >= RobotsTTL + FetchTime + Patience[asked'[q].path],
                        robots[q][asked'[q].store].readable
                 PROVE  FALSE
        BY DEF Honours
    <2>1. q = p /\ asked'[q].store = s /\ asked'[q].path = x
        BY <1>8
    <2>2. closed[s][x] # Open /\ e.readable
        BY <2>1 DEF e
    <2>3. now - closed[s][x] >= RobotsTTL + FetchTime + Patience[x]
        BY <2>1
    <2>4. now - closed[s][x] < RobotsTTL + FetchTime + Patience[x]
        BY <1>6, <2>2
    <2> DEFINE bound == RobotsTTL + FetchTime + Patience[x]  age == now - closed[s][x]
    <2>5. bound \in Int /\ age \in Int
        BY <1>4 DEF Open
    <2> HIDE DEF bound, age
    <2>6. age >= bound /\ age < bound
        BY <2>3, <2>4 DEF bound, age
    <2> QED
        BY <2>5, <2>6
<1> QED
    BY <1>8, <1>9

(* No rules are read, and none consulted; a search may end its errand.      *)
LEMMA Quiet ==
    ASSUME ReadBefore, UNCHANGED <<now, closed, robots, reading>>,
           asked' \in [Searchers -> {None} \cup Pages],
           \A q \in Searchers : leave'[q] # None =>
             /\ leave[q] # None /\ stage'[q] = stage[q]
             /\ leave'[q].store = leave[q].store /\ leave'[q].since = leave[q].since
    PROVE  ReadBefore'
<1>1. Remembered'
    BY DEF ReadBefore, Remembered, Silent
<1>2. Allowed'
    BY DEF ReadBefore, Allowed
<1> QED
    BY <1>1, <1>2 DEF ReadBefore

(* An entry that is trusted gives leave.                                    *)
LEMMA Permits ==
    ASSUME Passing, ReadBefore, NEW p \in Searchers, NEW s, NEW e, Decide(p, s, e),
           UNCHANGED <<now, stage>>, leave[p] = None, stage[p] \in DOMAIN Route,
           e # None, now - e.at < RobotsTTL, robots'[p][s] = e,
           \A q \in Searchers \ {p} : robots'[q] = robots[q]
    PROVE  Allowed'
<1> SUFFICES ASSUME NEW q \in Searchers, leave'[q] # None
             PROVE  LET d == robots'[q][leave'[q].store]  x == Route[stage[q]] IN
                    /\ d # None /\ x \notin d.closed /\ leave'[q].since - d.at < RobotsTTL
                    /\ leave'[q].since <= now /\ now <= leave'[q].since + Patience[x]
    BY DEF Allowed
<1>1. CASE q # p
    <2>1. leave'[q] = leave[q] /\ robots'[q] = robots[q]
        BY <1>1 DEF Decide, Passing, Shapes
    <2> QED
        BY <2>1 DEF ReadBefore, Allowed
<1>2. CASE q = p
    <2>1. /\ Route[stage[p]] \notin e.closed
          /\ leave'[p].store = s /\ leave'[p].since = now
        BY <1>2 DEF Decide, Passing, Shapes
    <2>2. now \in Nat /\ Patience[Route[stage[p]]] \in Nat
        BY Basics, Asking DEF ReadBefore, Remembered
    <2>3. now <= now + Patience[Route[stage[p]]]
        BY <2>2
    <2> QED
        BY <1>2, <2>1, <2>2, <2>3
<1> QED
    BY <1>1, <1>2

LEMMA ConsultReads ==
    ASSUME Passing, ReadBefore, NEW p \in Searchers, NEW s \in Stores, Consult(p, s),
           UNCHANGED <<now, closed, stage, asked>>,
           reading[p] = None, leave[p] = None, stage[p] \in DOMAIN Route
    PROVE  ReadBefore'
<1>1. CASE Held(p, s) /\ Decide(p, s, robots[p][s]) /\ UNCHANGED <<reading, robots>>
    <2>1. Allowed'
        BY <1>1, Permits DEF Held
    <2>2. Remembered'
        BY <1>1 DEF ReadBefore, Remembered, Silent
    <2> QED
        BY <2>1, <2>2 DEF ReadBefore
<1>2. ASSUME NEW rules \in Served(s), UNCHANGED <<robots, leave>>,
             reading' = [reading EXCEPT ![p] = [store |-> s, since |-> now, rules |-> rules]]
      PROVE  ReadBefore'
    <2>1. /\ reading'[p].store = s /\ reading'[p].since = now /\ reading'[p].rules = rules
          /\ \A q \in Searchers \ {p} : reading'[q] = reading[q]
        BY <1>2 DEF Passing, Shapes
    <2>2. now \in Nat /\ FetchTime \in Nat /\ now <= now + FetchTime
        BY Basics DEF ReadBefore, Remembered
    <2>3. Silent(s, rules, now)
        BY DEF Served, ClosedPaths, Silent
    <2>4. Remembered'
        BY <1>2, <2>1, <2>2, <2>3 DEF ReadBefore, Remembered, Silent
    <2>5. Allowed'
        BY <1>2 DEF ReadBefore, Allowed
    <2> QED
        BY <2>4, <2>5 DEF ReadBefore
<1> QED
    BY <1>1, <1>2 DEF Consult

LEMMA RulesReadReads ==
    ASSUME Passing, ReadBefore, NEW p \in Searchers, RulesRead(p)
    PROVE  ReadBefore'
<1> DEFINE s == reading[p].store  r == reading[p].rules
           e == [at |-> now, closed |-> r.closed, readable |-> r.readable]
<1>1. /\ reading[p] # None /\ UNCHANGED <<now, closed, stage, asked>>
      /\ robots' = [robots EXCEPT ![p][s] = e] /\ Decide(p, s, e)
      /\ reading' = [reading EXCEPT ![p] = None]
    BY DEF RulesRead
<1>2. /\ s \in Stores /\ r \in [closed : SUBSET Paths, readable : BOOLEAN]
      /\ reading[p].since \in Nat /\ leave[p] = None /\ stage[p] \in DOMAIN Route
    BY <1>1 DEF Passing, Shapes, UnderWay, Readings
<1>3. now \in Nat /\ e \in Entries /\ e.at = now
    BY <1>2 DEF ReadBefore, Remembered, Entries
<1>4. now <= reading[p].since + FetchTime /\ Silent(s, r, reading[p].since)
    BY <1>1 DEF ReadBefore, Remembered
<1>5. Silent(s, e, now - FetchTime)
    <2> SUFFICES ASSUME e.readable, NEW x \in Paths \ e.closed, closed[s][x] # Open
                 PROVE  now - FetchTime <= closed[s][x]
        BY DEF Silent
    <2>1. r.readable /\ x \in Paths \ r.closed
        OBVIOUS
    <2>2. reading[p].since <= closed[s][x]
        BY <1>4, <2>1 DEF Silent
    <2>3. closed[s][x] \in Int /\ FetchTime \in Int
        BY <1>2, Basics DEF ReadBefore, Remembered, Open
    <2> QED
        BY <1>2, <1>3, <1>4, <2>2, <2>3
<1> HIDE DEF s, e
<1>6. /\ robots' \in [Searchers -> [Stores -> {None} \cup Entries]]
      /\ robots'[p][s] = e
      /\ \A q \in Searchers \ {p} : robots'[q] = robots[q]
      /\ \A t \in Stores \ {s} : robots'[p][t] = robots[p][t]
    BY <1>1, <1>2, <1>3 DEF ReadBefore, Remembered
<1>7. reading'[p] = None /\ \A q \in Searchers \ {p} : reading'[q] = reading[q]
    BY <1>1 DEF Passing, Shapes
<1>8. Remembered'
    <2>1. ASSUME NEW q \in Searchers, NEW t \in Stores, robots'[q][t] # None
          PROVE  robots'[q][t].at <= now /\ Silent(t, robots'[q][t], robots'[q][t].at - FetchTime)
        <3>1. CASE q = p /\ t = s
            BY <1>3, <1>5, <1>6, <3>1
        <3>2. CASE ~(q = p /\ t = s)
            <4>1. robots'[q][t] = robots[q][t]
                BY <1>6, <3>2
            <4> QED
                BY <2>1, <4>1 DEF ReadBefore, Remembered
        <3> QED
            BY <3>1, <3>2
    <2>2. ASSUME NEW q \in Searchers, reading'[q] # None
          PROVE  /\ reading'[q].since <= now /\ now <= reading'[q].since + FetchTime
                 /\ Silent(reading'[q].store, reading'[q].rules, reading'[q].since)
        BY <1>7, <2>2 DEF ReadBefore, Remembered
    <2> QED
        BY <1>1, <1>6, <2>1, <2>2 DEF ReadBefore, Remembered, Silent
<1>9. Allowed'
    <2>1. e # None
        BY Unmatched DEF e
    <2>2. now - e.at < RobotsTTL
        BY <1>3, Basics
    <2> QED
        BY <1>1, <1>2, <1>6, <2>1, <2>2, Permits
<1> QED
    BY <1>8, <1>9 DEF ReadBefore

LEMMA UseReads ==
    ASSUME Passing, ReadBefore, NEW p \in Searchers, NEW s \in Stores, NEW urls, Use(p, s, urls),
           UNCHANGED <<now, closed, stage, asked>>, stage[p] \in {"catalogue", "browse"},
           reading[p] = None, leave[p] = None
    PROVE  ReadBefore'
<1>1. CASE UNCHANGED <<robots, reading, leave>>
    BY <1>1, Quiet DEF ReadBefore, Remembered
<1>2. CASE stage[p] # "catalogue" /\ Consult(p, s)
    BY <1>2, ConsultReads, Asking
<1> QED
    BY <1>1, <1>2 DEF Use

LEMMA RobotsStep ==
    ASSUME Passing, ReadBefore, [Next]_vars
    PROVE  ReadBefore' /\ Honours
<1>1. ASSUME NEW p \in Searchers, Begin(p) \/ Advance(p) PROVE ReadBefore' /\ Honours
    <2>1. /\ UNCHANGED <<now, closed, robots, reading, leave>>
          /\ asked' = asked \/ asked' = [asked EXCEPT ![p] = None]
          /\ \A q \in Searchers \ {p} : stage'[q] = stage[q]
        BY <1>1 DEF Begin, Advance, memory, errands, Passing, Shapes
    <2>2. leave[p] = None
        BY <1>1, Asking DEF Begin, Advance, Passing, UnderWay
    <2>3. asked' \in [Searchers -> {None} \cup Pages] /\ Honours
        BY <2>1, Unasking DEF ReadBefore
    <2> QED
        BY <2>1, <2>2, <2>3, Quiet
<1>2. ASSUME NEW p \in Searchers, NEW s \in Stores, Throttled(p, s) \/ StartCollecting(p, s)
      PROVE  ReadBefore' /\ Honours
    <2>1. UNCHANGED <<now, closed, robots, reading, leave, stage, asked>>
        BY <1>2 DEF Throttled, StartCollecting, memory, errands
    <2>2. asked' \in [Searchers -> {None} \cup Pages] /\ Honours
        BY <2>1, Unasking DEF ReadBefore
    <2> QED
        BY <2>1, <2>2, Quiet
<1>3. ASSUME NEW p \in Searchers, NEW s \in Stores, Want(p, s) PROVE ReadBefore' /\ Honours
    <2>1. /\ UNCHANGED <<now, closed, stage, asked>> /\ Consult(p, s)
          /\ reading[p] = None /\ leave[p] = None /\ stage[p] \in DOMAIN Route
        BY <1>3, Asking DEF Want, Idle
    <2> QED
        BY <2>1, ConsultReads, Unasking DEF ReadBefore
<1>4. ASSUME NEW p \in Searchers, RulesRead(p) PROVE ReadBefore' /\ Honours
    BY <1>4, RulesReadReads, Unasking DEF RulesRead, ReadBefore
<1>5. ASSUME NEW p \in Searchers, SearchOne(p) \/ BrowseOne(p) \/ PriceOne(p) \/ NoBrowser(p)
      PROVE  ReadBefore' /\ Honours
    <2>1. /\ leave[p] # None /\ UNCHANGED <<now, closed, robots, reading, stage>>
          /\ asked' = asked \/ Requests(p)
        BY <1>5 DEF SearchOne, BrowseOne, PriceOne, NoBrowser, memory
    <2>2. \/ leave' = [leave EXCEPT ![p] = None]
          \/ leave' = [leave EXCEPT ![p].left = leave[p].left - 1]
        BY <1>5 DEF SearchOne, BrowseOne, PriceOne, NoBrowser, GivesUp
    <2>3. /\ leave[p] \in [store : Stores, since : Nat, left : Nat]
          /\ leave \in [Searchers -> {None} \cup Leaves]
        BY <2>1 DEF Passing, Shapes, Leaves
    <2>4. \A q \in Searchers : leave'[q] # None =>
            /\ leave[q] # None
            /\ leave'[q].store = leave[q].store /\ leave'[q].since = leave[q].since
        <3>1. CASE leave' = [leave EXCEPT ![p] = None]
            BY <2>3, <3>1
        <3>2. CASE leave' = [leave EXCEPT ![p].left = leave[p].left - 1]
            <4>1. /\ leave'[p].store = leave[p].store /\ leave'[p].since = leave[p].since
                  /\ \A q \in Searchers \ {p} : leave'[q] = leave[q]
                BY <2>3, <3>2
            <4> QED
                BY <2>1, <4>1
        <3> QED
            BY <2>2, <3>1, <3>2
    <2>5. asked' \in [Searchers -> {None} \cup Pages] /\ Honours
        BY <2>1, Asks, Unasking DEF ReadBefore
    <2> QED
        BY <2>1, <2>4, <2>5, Quiet
<1>6. ASSUME NEW p \in Searchers, Collected(p) PROVE ReadBefore' /\ Honours
    <2>1. /\ busy[p] # None /\ UNCHANGED <<now, closed, stage, asked>>
          /\ \E urls : Use(p, busy[p].store, urls)
        BY <1>6 DEF Collected
    <2>2. /\ busy[p].store \in Stores /\ stage[p] \in {"catalogue", "browse"}
          /\ reading[p] = None /\ leave[p] = None
        BY <2>1 DEF Passing, Shapes, UnderWay
    <2> QED
        BY <2>1, <2>2, UseReads, Unasking DEF ReadBefore
<1>7. ASSUME NEW p \in Searchers, NEW s \in Stores, ReadCache(p, s)
      PROVE  ReadBefore' /\ Honours
    BY <1>7, UseReads, Unasking DEF ReadCache, Idle, ReadBefore
<1>8. ASSUME NEW s \in Stores, ChangeRules(s) PROVE ReadBefore' /\ Honours
    <2>1. UNCHANGED <<now, robots, reading, leave, stage, asked>>
        BY <1>8 DEF ChangeRules, memory, errands
    <2>2. PICK x \in Paths :
            closed' = [closed EXCEPT ![s][x] = IF closed[s][x] = Open THEN now ELSE Open]
        BY <1>8 DEF ChangeRules
    <2>3. /\ closed' \in [Stores -> [Paths -> Nat \cup {Open}]]
          /\ \A t \in Stores, y \in Paths : closed'[t][y] \in {closed[t][y], now, Open}
        BY <2>2 DEF ReadBefore, Remembered
    <2>4. ASSUME NEW t \in Stores, NEW rules, NEW since \in Int, since <= now,
                 Silent(t, rules, since)
          PROVE  rules.readable => \A y \in Paths \ rules.closed :
                    closed'[t][y] # Open => since <= closed'[t][y]
        BY <2>3, <2>4 DEF Silent
    <2>5. Remembered'
        <3>1. ASSUME NEW q \in Searchers, NEW t \in Stores, robots[q][t] # None
              PROVE  /\ robots[q][t].at <= now
                     /\ robots[q][t].readable => \A y \in Paths \ robots[q][t].closed :
                          closed'[t][y] # Open => robots[q][t].at - FetchTime <= closed'[t][y]
            <4>1. /\ robots[q][t].at \in Nat /\ robots[q][t].at <= now
                  /\ Silent(t, robots[q][t], robots[q][t].at - FetchTime)
                BY <3>1 DEF ReadBefore, Remembered, Entries
            <4>2. robots[q][t].at - FetchTime \in Int /\ robots[q][t].at - FetchTime <= now
                BY <4>1, Basics DEF ReadBefore, Remembered
            <4> QED
                BY <2>4, <4>1, <4>2
        <3>2. ASSUME NEW q \in Searchers, reading[q] # None
              PROVE  /\ reading[q].since <= now /\ now <= reading[q].since + FetchTime
                     /\ reading[q].rules.readable =>
                          \A y \in Paths \ reading[q].rules.closed :
                            closed'[reading[q].store][y] # Open =>
                                reading[q].since <= closed'[reading[q].store][y]
            <4>1. /\ reading[q].store \in Stores /\ reading[q].since \in Int
                  /\ reading[q].since <= now /\ now <= reading[q].since + FetchTime
                  /\ Silent(reading[q].store, reading[q].rules, reading[q].since)
                BY <3>2 DEF ReadBefore, Remembered, Passing, Shapes, Readings
            <4> QED
                BY <2>4, <4>1
        <3> QED
            BY <2>1, <2>3, <3>1, <3>2 DEF ReadBefore, Remembered, Silent
    <2>6. Allowed'
        BY <2>1 DEF ReadBefore, Allowed
    <2> QED
        BY <2>1, <2>5, <2>6, Unasking DEF ReadBefore
<1>9. CASE Tick
    <2>1. /\ now' = now + 1 /\ UNCHANGED <<closed, robots, reading, leave, stage, asked>>
          /\ \A p \in Searchers :
               /\ reading[p] # None => now < reading[p].since + FetchTime
               /\ leave[p] # None => now < leave[p].since + Patience[Route[stage[p]]]
        BY <1>9 DEF Tick, memory, errands
    <2>2. /\ now \in Nat /\ FetchTime \in Nat
          /\ \A p \in Searchers, s \in Stores : robots[p][s] # None => robots[p][s].at \in Nat
          /\ \A p \in Searchers : reading[p] # None => reading[p].since \in Nat
        BY Basics DEF ReadBefore, Remembered, Entries, Passing, Shapes, Readings
    <2>3. \A p \in Searchers : leave[p] # None =>
            leave[p].since \in Nat /\ Patience[Route[stage[p]]] \in Nat
        BY Basics, Asking DEF Passing, Shapes, UnderWay, Leaves
    <2>4. Remembered'
        BY <2>1, <2>2 DEF ReadBefore, Remembered, Silent
    <2>5. Allowed'
        BY <2>1, <2>2, <2>3 DEF ReadBefore, Allowed
    <2> QED
        BY <2>1, <2>4, <2>5, Unasking DEF ReadBefore
<1>10. CASE UNCHANGED vars
    <2>1. UNCHANGED <<now, closed, robots, reading, leave, stage, asked>>
        BY <1>10 DEF vars, memory, errands
    <2>2. asked' \in [Searchers -> {None} \cup Pages] /\ Honours
        BY <2>1, Unasking DEF ReadBefore
    <2> QED
        BY <2>1, <2>2, Quiet
<1> QED
    BY <1>1, <1>2, <1>3, <1>4, <1>5, <1>6, <1>7, <1>8, <1>9, <1>10 DEF Next

-----------------------------------------------------------------------------
LEMMA PassingStep ==
    ASSUME Passing, now \in Nat, [Next]_vars
    PROVE  Passing'
<1>1. ASSUME NEW s \in Stores, ChangeRules(s) PROVE Passing'
    BY <1>1 DEF ChangeRules, errands, Passing, Shapes, Pending, UnderWay, AnswersReachTheReader
<1>2. CASE Tick
    BY <1>2 DEF Tick, errands, Passing, Shapes, Pending, UnderWay, AnswersReachTheReader
<1>3. CASE UNCHANGED vars
    BY <1>3 DEF vars, errands, Passing, Shapes, Pending, UnderWay, AnswersReachTheReader
<1> QED
    BY <1>1, <1>2, <1>3, BeginPasses, CollectedPasses, AdvancePasses, ThrottledPasses,
       WantPasses, RulesReadPasses, SearchOnePasses, BrowseOnePasses, NoBrowserPasses,
       StartCollectingPasses, PriceOnePasses DEF Next

LEMMA Invariance == Spec => [](Passing /\ Stamped /\ ReadBefore)
<1>1. Init => Stamped /\ ReadBefore
    <2> SUFFICES ASSUME Init PROVE Stamped /\ ReadBefore
        OBVIOUS
    <2>1. Stamped
        BY Basics DEF Init, Stamped
    <2>2. closed \in [Stores -> [Paths -> Nat \cup {Open}]]
        BY DEF Init
    <2> QED
        BY <2>1, <2>2 DEF Init, ReadBefore, Remembered, Allowed
<1>2. Passing /\ Stamped /\ ReadBefore /\ [Next]_vars => (Passing /\ Stamped /\ ReadBefore)'
    BY PassingStep, Dated, RobotsStep DEF ReadBefore, Remembered
<1> QED
    BY <1>1, <1>2, InitPassing, PTL DEF Spec

(* A search keeps its shape in every pass, only the passes over catalogues  *)
(* and listings collect one, hosts are asked for the stores of the pass,    *)
(* and files bear times in their order.                                     *)
THEOREM TypeCorrect == Spec => []TypeOK
<1>1. Spec => [](installed \in BOOLEAN)
    <2> DEFINE Known == installed \in BOOLEAN
    <2>1. Init => Known
        BY DEF Init
    <2>2. Known /\ [Next]_vars => Known'
        <3>1. [Next]_vars => installed' = installed
            BY DEF Next, vars, world, Begin, Collected, Advance, Throttled, Want, RulesRead,
                   SearchOne, BrowseOne, NoBrowser, ReadCache, StartCollecting, PriceOne,
                   ChangeRules, Tick
        <3> QED
            BY <3>1
    <2> HIDE DEF Known
    <2>3. Spec => []Known
        BY <2>1, <2>2, PTL DEF Spec
    <2> QED
        BY <2>3 DEF Known
<1>2. Passing /\ Stamped /\ installed \in BOOLEAN => TypeOK
    <2> SUFFICES ASSUME Passing, Stamped, installed \in BOOLEAN PROVE TypeOK
        OBVIOUS
    <2>1. \A p \in Searchers : stage[p] \notin {"search", "shown"} => todo[p] \subseteq Searched(p)
        <3> SUFFICES ASSUME NEW p \in Searchers, stage[p] \notin {"search", "shown"},
                            NEW s \in todo[p]
                     PROVE  s \in Stores /\ result[p][s] # Unasked
            BY DEF Searched
        <3> QED
            BY Unmatched DEF Passing, Pending, Shapes
    <2>2. \A p \in Searchers, s \in Stores :
            /\ result[p][s].outcome \in Outcomes \cup {"unasked"}
            /\ result[p][s].hits # {} => Succeeded(result[p][s])
        BY DEF Passing, Shapes, Recorded
    <2> QED
        BY <2>1, <2>2 DEF TypeOK, Passing, Stamped, Shapes, UnderWay
<1> QED
    BY <1>1, <1>2, Invariance, PTL

(* A pass never takes away what an earlier one found, for any shops, routes *)
(* and answers (services/discovery.py, the passes of discover).             *)
THEOREM NoAnswerLost == Spec => []AnswersReachTheReader
<1>1. Passing => AnswersReachTheReader
    BY DEF Passing
<1> QED
    BY <1>1, Invariance, PTL

(* A catalogue that is used is at most a day and one collection behind its  *)
(* shop, whichever processes wrote it (stores/sitemaps.py, _read_cache).    *)
THEOREM CataloguesAreFresh == Spec => []CatalogueFresh
<1>1. Stamped => CatalogueFresh
    <2> SUFFICES ASSUME Stamped, NEW s \in Stores, NEW k \in Kinds, Fresh(s, k)
                 PROVE  now - catalogue[s][k].since <= CatalogueTTL + CollectTime
        BY DEF CatalogueFresh
    <2>1. /\ catalogue[s][k] # None /\ now - catalogue[s][k].at <= CatalogueTTL
          /\ catalogue[s][k].at <= catalogue[s][k].since + CollectTime
          /\ catalogue[s][k] \in Files
        BY DEF Fresh, Stamped
    <2>2. catalogue[s][k].at \in Int /\ catalogue[s][k].since \in Int /\ now \in Int
        BY <2>1 DEF Files, Stamped
    <2> QED
        BY <2>1, <2>2, Basics
<1> QED
    BY <1>1, Invariance, PTL

(* A page that a host has disallowed for longer than an hour, one fetch of  *)
(* its rules and a search's patience is not asked for by a process that can *)
(* read those rules, whatever it has in memory and waits for between the    *)
(* check and the request (stores/robots.py, is_allowed).                    *)
THEOREM RobotsAreHonoured == Spec => RobotsHonoured
<1>1. Passing /\ ReadBefore /\ [Next]_vars => Honours
    BY RobotsStep
<1> QED
    BY <1>1, Invariance, PTL DEF Spec, RobotsHonoured, Honours

=============================================================================
