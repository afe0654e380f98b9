------------------------------ MODULE MCBoard ------------------------------
(* A small instance of Board: two accounts, each with a group, and two      *)
(* listings of one shop that name their prices in different currencies.     *)
EXTENDS Board, TLC

CONSTANTS ann, bob, x, y

Alike == Permutations(User) \cup Permutations(Session)

Shops == [l \in Listing |-> "amazon"]
Currencies == [l \in Listing |-> IF l = 1 THEN "INR" ELSE "USD"]

(* The first listing tells its kind; its model can be read once the group   *)
(* knows the kind.  The second is known by its URL only.                    *)
KindOf == [l \in Listing |-> IF l = 1 THEN "phone" ELSE None]
Titles == [p \in Listing \X (Category \cup {None}) |->
             IF p[1] = 1 /\ p[2] = "phone" THEN "128GB" ELSE None]
Urls == [p \in Listing \X (Category \cup {None}) |->
           IF p[1] = 2 THEN "256GB" ELSE None]

Requests == {<<None, None>>, <<"128GB", None>>, <<None, "256GB">>}

Found(o, p) == [outcome |-> o, price |-> p, retracts |-> FALSE,
                named |-> o \in {"ok", "out_of_stock"}]
Answers == {Found("ok", 1), Found("ok", 2), Found("out_of_stock", 2),
            Found("unavailable", NoPrice), Found("blocked", NoPrice),
            Found("skipped", NoPrice),
            [outcome |-> "needs_location", price |-> NoPrice, retracts |-> TRUE,
             named |-> FALSE]}

(* Of the numbers of checks only their order matters, for each listing, and *)
(* of the names read none once no attach is to come.                        *)
InFlight(c) ==
  [listing |-> c.listing, seen |-> c.seen, alone |-> c.alone,
   order |-> <<Cardinality({d \in flight : d.listing = c.listing /\ d.started < c.started}),
               c.started > last[c.listing].started>>]
Grid == IF view.at # "rows" THEN view
        ELSE <<view.shelf, view.row, [l \in DOMAIN view.row |-> Overtaken(l)]>>
Row(l) == IF attaches = MaxAttaches /\ flight = {} THEN [product[l] EXCEPT !.named = FALSE]
          ELSE product[l]
Relevant ==
  <<[l \in Listing |-> Row(l)], [l \in Listing |-> [last[l] EXCEPT !.started = 0]], checks,
    {InFlight(c) : c \in flight}, category, variants, links, asked, attaches, overlap, Grid>>

(* Checks are made while one account has a group.                           *)
Bound == checks = 0 \/ Cardinality(DOMAIN category) <= 1
MCSpec == Init /\ [][Next /\ Bound']_vars
=============================================================================
