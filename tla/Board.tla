------------------------------- MODULE Board -------------------------------
(***************************************************************************)
(* Groups, their models, and the comparison grid (services/group_service,  *)
(* comparison, variants and specs; repositories/groups.py).                *)
(*                                                                         *)
(* An account sorts the listings it watches into groups; a group has       *)
(* models (ProductVariant) and a model has listings (VariantListing).  The *)
(* requests are transactions at READ COMMITTED.  The grid is loaded by     *)
(* four queries, between which checks and requests commit.                 *)
(*                                                                         *)
(* Attributes read from a title stand for the label they yield.  A check   *)
(* is what CheckPipeline makes of it, a row and an execution beside it; the *)
(* checks of the API take no claim and may overlap those of the workers.   *)
(***************************************************************************)
EXTENDS Integers, FiniteSetsExt

CONSTANTS
  User, Slug,
  Session,     \* requests under way at once
  MaxListing,  \* listings are numbered: their order is that of their ids
  ShopOf, CurrencyOf, \* listing -> who sells it, and for what money
  Label,       \* names of models
  Category,    \* the spec profiles but "generic"
  Kind,        \* listing -> the category its title or URL tells, or None
  TitleSays, UrlSays, \* <<listing, category or None>> -> the label read, or None
  Answer,      \* what a check may find
  Given,       \* the <<label, attributes>> a caller may give, either None
  MaxGroups,   \* settings.max_groups_per_user
  MaxChecks, MaxAttaches \* bounds on the number of checks and attaches

Listing == 1 .. MaxListing
None == "none"

NoPrice == 0
Group == User \X Slug

(* What is read from a title or given by a caller names a model; a check    *)
(* that is ok has read a price, and only one that needs a location retracts *)
(* what was known of the stock (CheckPipeline's ResultType).                *)
ASSUME BoardAssumption ==
  /\ MaxListing \in Nat /\ MaxChecks \in Nat
  /\ Kind \in [Listing -> Category \cup {None}]
  /\ {TitleSays, UrlSays} \subseteq [Listing \X (Category \cup {None}) -> Label \cup {None}]
  /\ Given \subseteq (Label \cup {None}) \X (Label \cup {None})
  /\ \A a \in Answer : /\ a.price \in Nat /\ a.named \in BOOLEAN
                       /\ a.outcome = "ok" => a.price # NoPrice
                       /\ a.retracts => a.outcome = "needs_location"

VARIABLES
  product,   \* listing -> its row
  last,      \* listing -> the check_executions row that started last
  checks,    \* checks begun; each is numbered when it starts
  flight,    \* the checks under way, with the row each has loaded
  category,  \* the groups there are -> their category, or None
  variants,  \* <<group, label>> -> whether its attributes are recorded
  links,     \* the <<group, label, listing>> attached
  asked,     \* the attach a session is executing
  attaches,  \* attaches begun
  overlap,   \* history: <<group, listing>> that two attaches handled at once
  view       \* the grid somebody is loading

vars == <<product, last, checks, flight, category, variants, links, asked,
          attaches, overlap, view>>
shelf == <<category, variants, links, asked, attaches, overlap>>
readings == <<product, last, checks, flight>>

Idle == [at |-> "idle"]
NoView == [at |-> "none"]

-----------------------------------------------------------------------------
(* What a check leaves on the row and in its execution.                     *)

Success == {"ok", "out_of_stock", "unavailable"}
Partial == {"price_not_found", "needs_location"}
Failure == {"timeout", "http_error", "error", "page_structure"}

StockOf(a) == CASE a.outcome = "ok" -> "in_stock"
                [] a.outcome \in {"out_of_stock", "unavailable"} -> a.outcome
                [] OTHER -> "unknown"

AfterCheck(row, a) ==
  IF a.outcome = "skipped" THEN row
  ELSE [row EXCEPT
    !.checked = TRUE,
    !.price = IF a.outcome \in Success /\ a.price # NoPrice THEN a.price ELSE @,
    !.named = @ \/ (a.outcome \in Success /\ a.named),
    !.stock = IF a.outcome \in Success \/ a.retracts THEN StockOf(a) ELSE @]

(* alone is history: nothing else was checking the listing at the start.    *)
Execution(c, a) ==
  [status |-> CASE a.outcome \in Success -> "success"
                [] a.outcome \in Partial -> "partial"
                [] a.outcome = "skipped" -> "skipped"
                [] OTHER -> "failed",
   error |-> IF a.outcome \in Success THEN None ELSE a.outcome,
   price |-> IF a.outcome \in Success THEN a.price ELSE NoPrice,
   started |-> c.started, alone |-> c.alone]

StartCheck(l) ==
  /\ checks < MaxChecks
  /\ checks' = checks + 1
  /\ flight' = flight \cup {[listing |-> l, started |-> checks + 1, seen |-> product[l],
                              alone |-> \A c \in flight : c.listing # l]}
  /\ UNCHANGED <<product, last, shelf, view>>

(* The session writes the columns that it has changed, and no others.       *)
Written(row, seen, new) ==
  [f \in DOMAIN row |-> IF new[f] # seen[f] THEN new[f] ELSE row[f]]

FinishCheck(c, a) ==
  LET l == c.listing IN
  /\ flight' = flight \ {c}
  /\ product' = [product EXCEPT ![l] = Written(@, c.seen, AfterCheck(c.seen, a))]
  /\ last' = [last EXCEPT ![l] = IF c.started > @.started THEN Execution(c, a) ELSE @]
  /\ UNCHANGED <<checks, shelf, view>>

-----------------------------------------------------------------------------
(* Groups.                                                                  *)

Owned(u) == {g \in DOMAIN category : g[1] = u}

CreateGroup(g, c) ==
  /\ g \notin DOMAIN category
  /\ Cardinality(Owned(g[1])) < MaxGroups
  /\ category' = [h \in DOMAIN category \cup {g} |-> IF h = g THEN c ELSE category[h]]
  /\ UNCHANGED <<readings, variants, links, asked, attaches, overlap, view>>

Writing(g) == {x \in Session : asked[x].at = "writing" /\ asked[x].group = g}

(* The models and links go with the group.  The DELETE waits for the locks  *)
(* of an attach that has written; one that has not will miss the group.     *)
DeleteGroup(g) ==
  /\ g \in DOMAIN category
  /\ Writing(g) = {}
  /\ category' = [h \in DOMAIN category \ {g} |-> category[h]]
  /\ variants' = [v \in {w \in DOMAIN variants : w[1] # g} |-> variants[v]]
  /\ links' = {k \in links : k[1] # g}
  /\ overlap' = {o \in overlap : o[1] # g}
  /\ asked' = [x \in Session |->
       IF asked[x].at = "reading" /\ asked[x].group = g THEN Idle ELSE asked[x]]
  /\ view' = IF view.at = "variants" /\ view.group = g
               THEN [view EXCEPT !.variants = {}] ELSE view
  /\ UNCHANGED <<readings, attaches>>

-----------------------------------------------------------------------------
(* attach_product: it reads the listing and the group, finds the model, and *)
(* commits.                                                                 *)

Attach(x, g, l, label, attrs) ==
  /\ asked[x] = Idle
  /\ attaches < MaxAttaches
  /\ attaches' = attaches + 1
  /\ g \in DOMAIN category
  /\ asked' = [asked EXCEPT ![x] =
       [at |-> "reading", group |-> g, listing |-> l, label |-> label, attrs |-> attrs,
        named |-> product[l].named, seen |-> category[g]]]
  /\ UNCHANGED <<readings, category, variants, links, overlap, view>>

Learns(r) == r.seen = None /\ Kind[r.listing] # None
Settled(r) == IF Learns(r) THEN Kind[r.listing] ELSE r.seen

FromTitle(r) == IF r.named THEN TitleSays[<<r.listing, Settled(r)>>] ELSE None

(* The attributes, given or read; the URL is consulted only for a label.    *)
Attributes(r) ==
  IF r.attrs # None THEN r.attrs
  ELSE IF FromTitle(r) = None /\ r.label = None THEN UrlSays[<<r.listing, Settled(r)>>]
  ELSE FromTitle(r)

Model(r) == IF r.label # None THEN r.label ELSE Attributes(r)

Fills(r) == LET v == <<r.group, Model(r)>>
            IN  v \in DOMAIN variants /\ ~variants[v] /\ Attributes(r) # None

(* A row another attach has updated and not committed is waited for.        *)
Blocked(r) ==
  \E y \in Writing(r.group) :
    \/ Learns(r) /\ Learns(asked[y])
    \/ Fills(r) /\ asked[y].fills /\ asked[y].model = Model(r)

(* Mutant: only a link to the same model is cleared.                        *)
ClearedOfModel(r) ==
  {k \in links : k[1] = r.group /\ k[2] = Model(r) /\ k[3] = r.listing}

(* _clear_links deletes what it can see.                                    *)
Cleared(r) == {k \in links : k[1] = r.group /\ k[3] = r.listing}

AttachWrites(x) ==
  LET r == asked[x] IN
  /\ r.at = "reading"
  /\ ~Blocked(r)
  /\ asked' = [asked EXCEPT ![x] =
       IF Model(r) = None THEN Idle   \* ValidationError
       ELSE [at |-> "writing", group |-> r.group, listing |-> r.listing, seen |-> r.seen,
             model |-> Model(r), told |-> Attributes(r) # None, fills |-> Fills(r),
             creates |-> <<r.group, Model(r)>> \notin DOMAIN variants,
             clears |-> Cleared(r)]]
  /\ overlap' = overlap \cup
       (IF Model(r) # None /\ \E y \in Writing(r.group) : asked[y].listing = r.listing
          THEN {<<r.group, r.listing>>} ELSE {})
  /\ UNCHANGED <<readings, category, variants, links, attaches, view>>

(* The unique constraints: a label of the group, a listing of the model.    *)
Refused(r) ==
  \/ r.creates /\ <<r.group, r.model>> \in DOMAIN variants
  \/ <<r.group, r.model, r.listing>> \in links \ r.clears

AttachCommits(x) ==
  LET r == asked[x]  v == <<r.group, r.model>> IN
  /\ r.at = "writing"
  /\ asked' = [asked EXCEPT ![x] = Idle]
  /\ IF Refused(r) THEN UNCHANGED <<category, variants, links>>
     ELSE /\ category' = [category EXCEPT ![r.group] = IF Learns(r) THEN Settled(r) ELSE @]
          /\ variants' = [w \in DOMAIN variants \cup {v} |->
               IF w # v THEN variants[w] ELSE (~r.creates /\ variants[v]) \/ r.told]
          /\ links' = (links \ r.clears) \cup {<<r.group, r.model, r.listing>>}
  /\ UNCHANGED <<readings, attaches, overlap, view>>

(* Mutant: the account is not asked for.                                    *)
AttachedAnywhere(u, l) == {k \in links : k[3] = l}

Attached(u, l) == {k \in links : k[3] = l /\ k[1][1] = u}

(* detach_product: out of every group of the account.                       *)
Detach(u, l) ==
  /\ links' = links \ Attached(u, l)
  /\ UNCHANGED <<readings, category, variants, asked, attaches, overlap, view>>

-----------------------------------------------------------------------------
(* load_grid.                                                               *)

ReadVariants(g) ==
  /\ view = NoView
  /\ g \in DOMAIN category
  /\ view' = [at |-> "variants", group |-> g,
              variants |-> {v[2] : v \in {w \in DOMAIN variants : w[1] = g}}]
  /\ UNCHANGED <<readings, shelf>>

(* newest is history: the checks that there were when the rows were loaded. *)
ReadListings ==
  LET found == {k \in links : k[1] = view.group /\ k[2] \in view.variants} IN
  /\ view.at = "variants"
  /\ view' = [at |-> "rows", group |-> view.group,
              shelf |-> {<<k[2], k[3]>> : k \in found},
              row |-> [l \in {k[3] : k \in found} |-> product[l]],
              newest |-> [l \in {k[3] : k \in found} |-> last[l].started]]
  /\ UNCHANGED <<readings, shelf>>

(* The last query is answered, with what `last' is by then.                 *)
ReadChecks ==
  /\ view.at = "rows"
  /\ view' = NoView
  /\ UNCHANGED <<readings, shelf>>

-----------------------------------------------------------------------------
(* build_matrix, when the last query is answered now: what it makes of the  *)
(* rows that were loaded and of the checks there are.                       *)

Columns == {ShopOf[l] : l \in DOMAIN view.row}
Models == {e[1] : e \in view.shelf}   \* those that some shop carries
Carried(m, s) == {l \in DOMAIN view.row : <<m, l>> \in view.shelf /\ ShopOf[l] = s}

(* Mutant: whichever comes last.                                            *)
PreferLast(l, k) == TRUE

Prefer(l, k) ==
  LET p == view.row[l].price  q == view.row[k].price
  IN  p # NoPrice /\ (q = NoPrice \/ p < q \/ (p = q /\ l < k))

Unfilled == 0

(* _one_per_store: the query orders the listings by id.                     *)
OnePerStore(m, s) ==
  LET carried == Carried(m, s)
      chosen[l \in 0 .. MaxListing] ==
        IF l = 0 THEN Unfilled
        ELSE IF l \in carried /\ (chosen[l - 1] = Unfilled \/ Prefer(l, chosen[l - 1]))
             THEN l ELSE chosen[l - 1]
  IN  chosen[MaxListing]

(* _classify: a refusal comes before stock.                                 *)
Classify(l) ==
  LET row == view.row[l]  check == last[l]
  IN  IF ~row.checked THEN "never_checked"
      ELSE IF check.error = "blocked" THEN "blocked"
      ELSE IF row.stock = "out_of_stock" THEN "out_of_stock"
      ELSE IF row.price # NoPrice THEN "ok"
      ELSE IF check.error \in Failure \/ check.status = "failed" THEN "failed"
      ELSE "no_price"

(* Mutant: only age makes a price stale.                                    *)
AgedOnly(l, aged) == aged

(* aged: stale_after, which the reader chooses, has passed since the check. *)
IsStale(l, aged) ==
  aged \/ (Classify(l) = "ok" /\ (last[l].status # "success" \/ last[l].error # None))

(* The squares of the grid that hold a listing.                             *)
Squares == {c \in Models \X Columns : Carried(c[1], c[2]) # {}}
Shown == {OnePerStore(c[1], c[2]) : c \in Squares}
Priced(m) == {l \in {OnePerStore(c[1], c[2]) : c \in {d \in Squares : d[1] = m}} :
                Classify(l) = "ok"}

BestPrice(m) == Min({view.row[l].price : l \in Priced(m)})

Mixed == Cardinality({CurrencyOf[l] : l \in UNION {Priced(m) : m \in Models}}) > 1

(* best_overall: the price it names, unless currencies differ.              *)
BestOverall ==
  LET rows == {m \in Models : Priced(m) # {}}
  IN  IF Mixed \/ rows = {} THEN NoPrice ELSE Min({BestPrice(m) : m \in rows})

-----------------------------------------------------------------------------
Init ==
  /\ product = [l \in Listing |-> [price |-> NoPrice, stock |-> "unknown",
                                   checked |-> FALSE, named |-> FALSE]]
  /\ last = [l \in Listing |-> [status |-> None, error |-> None, price |-> NoPrice,
                                started |-> 0, alone |-> TRUE]]
  /\ checks = 0
  /\ flight = {}
  /\ category = [g \in {} |-> None]
  /\ variants = [v \in {} |-> FALSE]
  /\ links = {}
  /\ asked = [x \in Session |-> Idle]
  /\ attaches = 0
  /\ overlap = {}
  /\ view = NoView

Next ==
  \/ \E l \in Listing : StartCheck(l)
  \/ \E c \in flight, a \in Answer : FinishCheck(c, a)
  \/ \E g \in Group : \/ \E c \in Category \cup {None} : CreateGroup(g, c)
                      \/ DeleteGroup(g)
                      \/ ReadVariants(g)
  \/ \E x \in Session :
       \/ \E g \in Group, l \in Listing, told \in Given : Attach(x, g, l, told[1], told[2])
       \/ AttachWrites(x)
       \/ AttachCommits(x)
  \/ \E u \in User, l \in Listing : Detach(u, l)
  \/ ReadListings
  \/ ReadChecks

Spec == Init /\ [][Next]_vars
-----------------------------------------------------------------------------
TypeOK ==
  /\ checks \in 0 .. MaxChecks
  /\ category \in UNION {[G -> Category \cup {None}] : G \in SUBSET Group}
  /\ DOMAIN variants \subseteq (DOMAIN category) \X Label
  /\ \A k \in links : <<k[1], k[2]>> \in DOMAIN variants /\ k[3] \in Listing
  /\ overlap \subseteq Group \X Listing
  /\ \A c \in flight : c.listing \in Listing /\ c.started \in 1 .. checks
  /\ \A x \in Session : asked[x] = Idle \/ asked[x].group \in DOMAIN category

(* A listing is under one model of a group, however it is moved about (the  *)
(* docstring of _clear_links: "move it rather than leave it in both         *)
(* places"), unless two attaches of it were in flight together: neither     *)
(* sees the other's link, and no constraint forbids the second.             *)
OneModelUnlessRaced ==
  \A g \in Group, l \in Listing :
    \/ Cardinality({k \in links : k[1] = g /\ k[3] = l}) <= 1
    \/ <<g, l>> \in overlap

(* A step takes listings away from one account at most, and from a group    *)
(* that stands only by giving them another model there or by taking them    *)
(* out of all the account's groups ("another user's link to the same        *)
(* listing is untouched").                                                  *)
MovesOneAccount ==
  [][\A k \in links \ links' :
       /\ \A j \in links \ links' : j[1][1] = k[1][1]
       /\ \/ k[1] \notin DOMAIN category'
          \/ \E j \in links' : j[1] = k[1] /\ j[3] = k[3]
          \/ \A j \in links' : j[3] = k[3] => j[1][1] # k[1][1]]_vars

(* Whatever order the listings come in, none with a price is displaced by   *)
(* one without or by a dearer one, and what the grid names as the best      *)
(* price is the lowest of all the prices it shows, all in one currency.     *)
GridShowsCheapest ==
  view.at = "rows" =>
    /\ \A e \in view.shelf :
         LET s == ShopOf[e[2]]
             chosen == view.row[OnePerStore(e[1], s)]
         IN  /\ OnePerStore(e[1], s) \in Carried(e[1], s)
             /\ view.row[e[2]].price # NoPrice =>
                  chosen.price \in 1 .. view.row[e[2]].price
    /\ BestOverall # NoPrice =>
         \A l, k \in {j \in Shown : Classify(j) = "ok"} :
           /\ BestOverall <= view.row[l].price
           /\ CurrencyOf[l] = CurrencyOf[k]

(* The comment at comparison.py:234: a price "whose most recent check did   *)
(* not read one is the *last* price we saw, not a price we just confirmed", *)
(* and is to be marked.  An unmarked price was read by the newest check,    *)
(* but for three ways round the mark, and there are no others: the shop has *)
(* withdrawn the listing, which is a success that leaves the old price; a   *)
(* newer check committed between the query for the rows and the one for the *)
(* checks; or the newest check overlapped an earlier one, which wrote its   *)
(* own price after it or kept it from writing.                              *)
Withdrawn(l) == view.row[l].stock = "unavailable"
Overtaken(l) == last[l].started > view.newest[l]
Overlapped(l) == ~last[l].alone

Confirmed(l) ==
  \A aged \in BOOLEAN :
    Classify(l) = "ok" /\ ~IsStale(l, aged) => view.row[l].price = last[l].price

ConfirmedUnlessRaced ==
  view.at = "rows" =>
    \A l \in Shown : Confirmed(l) \/ Withdrawn(l) \/ Overtaken(l) \/ Overlapped(l)

=============================================================================
