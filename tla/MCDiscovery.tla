---------------------------- MODULE MCDiscovery ----------------------------
(* Small instances of Discovery: the words that are asked for and sold. *)
EXTENDS Discovery, TLC

CONSTANTS f, v

TheRank == f :> 1 @@ v :> 2
Galaxy == {"galaxy", "s25"}
Renewed == Galaxy \cup {"renewed"}
Other == {"galaxy", "a16"}
TheTitles == {Galaxy, Renewed, Other}
ThePatience == [search |-> 0, listing |-> 1, page |-> 1]

\* A listing shows what a product is; a URL may keep it back.
MCInit ==
    /\ Init
    /\ shop[f] = [url |-> Galaxy, title |-> Galaxy]
    /\ shop[v] \in {[url |-> Galaxy, title |-> Renewed], [url |-> Other, title |-> Other]}

\* A search of both shops, or one that renders, is alone; two searches meet
\* at the one shop, in two processes or one after the other.
Bound ==
    searches <= 1 \/ \A p \in Searchers :
        /\ v \notin todo[p] \cup Searched(p)
        /\ stage[p] = "render" => todo[p] = {}
MCSpec == MCInit /\ [][Next /\ Bound']_vars

Alike == Permutations(Searchers)

\* What the future depends on: an entry that has expired is as good as none,
\* and of the rules of a shop that forbids nothing only the age matters; the
\* rest of a catalogue does not, once the product is in it, nor how a store
\* failed, unless that chooses its next route; what was asked is history.
Outlook(p, s, r) ==
    [r EXCEPT !.outcome =
        IF @ = "timeout" \/ (s \notin Catalogued /\ @ \notin {"ok", "unasked"}
                             /\ ~(@ = "page_structure" /\ stage[p] = "search"))
        THEN "error" ELSE @]
Gist(s, k) ==
    IF ~Fresh(s, k) THEN None
    ELSE [catalogue[s][k] EXCEPT !.urls =
            IF "product" \in @ THEN {"product"} ELSE IF k = "listings" THEN {} ELSE @]
Fetched(p) ==
    IF reading[p] = None \/ reading[p].store \in Fickle THEN reading[p]
    ELSE [reading[p] EXCEPT !.rules = None]
Standing(p) ==
    IF stage[p] = "shown" THEN {s \in Stores : Succeeded(result[p][s])}
    ELSE [s \in Stores |-> Outlook(p, s, result[p][s])]
MayRender == searches = 0 \/ \E p \in Searchers : stage[p] \in {"search", "render"}
Relevant ==
    <<now, closed, changes, stage, todo, busy, [p \in Searchers |-> Fetched(p)],
      leave, found, searches,
      MayRender /\ installed, [p \in Searchers |-> Standing(p)],
      IF searches = 0 \/ \E p \in Searchers : stage[p] # "shown" /\ v \in Searched(p) \cup todo[p]
      THEN shop[v] ELSE None,
      [p \in Searchers |-> [s \in Stores |->
          IF ~Held(p, s) THEN None ELSE IF s \in Fickle THEN robots[p][s] ELSE robots[p][s].at]],
      [s \in Stores |-> [k \in Kinds |-> Gist(s, k)]]>>
=============================================================================
