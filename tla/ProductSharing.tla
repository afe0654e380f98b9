---------------------------- MODULE ProductSharing ----------------------------
(***************************************************************************)
(* Products shared by accounts: subscriptions, listings of product         *)
(* entries, quotas, pauses and removal (ProductService,                    *)
(* ProductEntryService, AlertService.set_tracking_status).                 *)
(*                                                                         *)
(* Every request is one transaction of one account, READ COMMITTED: it     *)
(* looks at the committed rows, perhaps leaves or pauses a subscription    *)
(* and counts what the others have, then writes the rest and commits.      *)
(* Other accounts' transactions commit in between.  An account makes one   *)
(* request at a time.  What the ORM writes depends on what it loaded: an   *)
(* attribute set to the value it was loaded with is not written.           *)
(*                                                                         *)
(* A URL stands for its canonical form.  Which of an account's listings    *)
(* form an entry is left open; names and the audit of moves are left out.  *)
(***************************************************************************)
EXTENDS Integers, FiniteSets

CONSTANTS
  Users,    \* accounts
  Exempt,   \* admins, outside the quota
  Listers,  \* accounts that keep product entries
  Urls,     \* canonical URLs
  Shop,     \* the retailer a URL belongs to
  Limit,    \* max_listings_per_user
  MaxRows   \* bound on the product rows a URL gets, one after the other

ASSUME SharingAssumption ==
  /\ IsFiniteSet(Users) /\ IsFiniteSet(Urls)
  /\ Exempt \subseteq Users /\ Listers \subseteq Users
  /\ Limit \in Nat \ {0}
  /\ MaxRows \in Nat

VARIABLES
  row,     \* products.id of a URL, 0 without a row
  made,    \* ids given out for a URL so far
  status,  \* products.tracking_status
  sub,     \* subscriptions of a product: none, watching or paused
  live,    \* retailer_listings not deactivated: account and URL
  retired, \* URLs whose row a deactivated listing still references
  job      \* the request of an account, and what it has read

products == <<row, made, status>>
vars == <<row, made, status, sub, live, retired, job>>

Idle == [op |-> "idle"]

Exists(p) == row[p] # 0
Subscribed(u, p) == sub[p][u] # "none"
Subscribers(p) == {u \in Users : Subscribed(u, p)}
Watched(u) == {p \in Urls : Subscribed(u, p)}
Listed(u) == {p \in Urls : <<u, p>> \in live}

(* RESTRICT: a listing, live or not, keeps the row it refers to.           *)
Referenced(p) == p \in retired \/ \E u \in Users : <<u, p>> \in live

Tracking == {"active", "paused"}

(* A request as it begins: T are the URLs it will track, L the products     *)
(* whose subscription or status it will change, with what it loads of them. *)
(* A removal loads no status, it only deletes.                              *)
Ask(op, T, L, want) ==
  [op |-> op, urls |-> T, touch |-> L, want |-> want,
   ids |-> [p \in T \cup L |-> row[p]],
   was |-> [p \in L |-> IF op = "remove" THEN "paused" ELSE status[p]],
   counted |-> FALSE, others |-> [p \in L |-> {}]]

Counting == {"remove", "deactivate", "repoint", "pause"}
Ops == Counting \cup {"add", "entry", "set_tracking"}

Partial(S) == UNION {[T -> S] : T \in SUBSET Urls}

Job == [op : Ops, urls : SUBSET Urls, touch : SUBSET Urls,
        want : Tracking \cup {"watching"}, ids : Partial(0 .. MaxRows),
        was : Partial(Tracking), counted : BOOLEAN, others : Partial(SUBSET Users)]

TypeOK ==
  /\ row \in [Urls -> 0 .. MaxRows]
  /\ made \in [Urls -> 0 .. MaxRows]
  /\ status \in [Urls -> Tracking]
  /\ sub \in [Urls -> [Users -> {"none", "watching", "paused"}]]
  /\ live \in SUBSET (Users \X Urls)
  /\ retired \in SUBSET Urls
  /\ \A p \in Urls :
       /\ row[p] \in {0, made[p]}
       /\ ~Exists(p) => status[p] = "paused" /\ Subscribers(p) = {}
  /\ job \in [Users -> Job \cup {Idle}]

Init ==
  /\ row = [p \in Urls |-> 0]
  /\ made = [p \in Urls |-> 0]
  /\ status = [p \in Urls |-> "paused"]
  /\ sub = [p \in Urls |-> [u \in Users |-> "none"]]
  /\ live = {}
  /\ retired = {}
  /\ job = [u \in Users |-> Idle]

-----------------------------------------------------------------------------
(* Beginnings: what a request checks before it writes.  A check that fails  *)
(* refuses the request and leaves nothing behind.                           *)

(* Mutant: the quota is asked for only when a row is created.               *)
QuotaOnCreation(u, T) ==
  LET new == {p \in T : ~Exists(p)}
  IN new = {} \/ u \in Exempt \/ Cardinality(Watched(u)) + Cardinality(new) <= Limit

QuotaAllows(u, T) ==
  LET new == T \ Watched(u)
  IN new = {} \/ u \in Exempt \/ Cardinality(Watched(u)) + Cardinality(new) <= Limit

Begin(u, request) ==
  /\ job[u] = Idle
  /\ job' = [job EXCEPT ![u] = request]
  /\ UNCHANGED <<products, sub, live, retired>>

StartAdd(u, p) ==
  /\ ~Subscribed(u, p)
  /\ QuotaAllows(u, {p})
  /\ Begin(u, Ask("add", {p}, {}, "watching"))

(* create (one retailer or both) and add_listing                            *)
StartEntry(u, T) ==
  /\ u \in Listers
  /\ T # {} /\ T \cap Listed(u) = {}
  /\ \A p, q \in T : Shop[p] = Shop[q] => p = q
  /\ QuotaAllows(u, T)
  /\ Begin(u, Ask("entry", T, {}, "watching"))

(* update_listing with another URL of the same shop                         *)
StartRepoint(u, old, new) ==
  /\ old \in Listed(u) /\ new \notin Listed(u)
  /\ Shop[old] = Shop[new]
  /\ QuotaAllows(u, {new})
  /\ Begin(u, Ask("repoint", {new}, {old}, "watching"))

StartRemove(u, p) ==
  /\ Subscribed(u, p)
  /\ Begin(u, Ask("remove", {}, {p}, "paused"))

(* deactivate_listing, or archive with every listing of an entry            *)
StartDeactivate(u, L) ==
  /\ L # {} /\ L \subseteq Listed(u)
  /\ \A p, q \in L : Shop[p] = Shop[q] => p = q
  /\ Begin(u, Ask("deactivate", {}, L, "paused"))

(* AlertService.set_tracking_status                                         *)
StartPause(u, p, want) ==
  /\ Subscribed(u, p)
  /\ Begin(u, Ask("pause", {}, {p}, want))

(* ProductEntryService.set_tracking                                         *)
StartSetTracking(u, L, want) ==
  /\ L # {} /\ L \subseteq Listed(u)
  /\ \A p, q \in L : Shop[p] = Shop[q] => p = q
  /\ Begin(u, Ask("set_tracking", {}, L, want))

-----------------------------------------------------------------------------
(* The count after the request's own subscription was deleted or updated,   *)
(* which locks that subscription until the commit.                          *)

Counted(u, p) ==
  IF job[u].op = "pause" THEN {v \in Users \ {u} : sub[p][v] = "watching"}
                         ELSE Subscribers(p) \ {u}

Count(u) ==
  /\ job[u] # Idle /\ job[u].op \in Counting /\ ~job[u].counted
  /\ job[u].op = "pause" => \A p \in job[u].touch : Subscribed(u, p)
  /\ job' = [job EXCEPT ![u].counted = TRUE,
                        ![u].others = [p \in job[u].touch |-> Counted(u, p)]]
  /\ UNCHANGED <<products, sub, live, retired>>

Ready(u, op) == job[u] # Idle /\ job[u].op = op /\ (op \in Counting => job[u].counted)

(* Mutant: only those who have not paused count.                            *)
LastToWatch(u, p) == \A v \in job[u].others[p] : sub[p][v] = "paused"

LastToLeave(u, p) == job[u].others[p] = {}

-----------------------------------------------------------------------------
(* Endings: the remaining writes and the commit.                            *)

End(u) == job' = [job EXCEPT ![u] = Idle]

(* The rows a request tracks are those it saw: a row created since is a     *)
(* violation of uq_products_url_canonical, a deleted one of a foreign key.  *)
SameRows(u) == \A p \in job[u].urls : row[p] = job[u].ids[p]

NewRows(u) == {p \in job[u].urls : ~Exists(p)}

Track(u) ==
  /\ SameRows(u)
  /\ \A p \in NewRows(u) : made[p] < MaxRows
  /\ made' = [p \in Urls |-> IF p \in NewRows(u) THEN made[p] + 1 ELSE made[p]]
  /\ row' = [p \in Urls |-> IF p \in NewRows(u) THEN made'[p] ELSE row[p]]

(* Subscriptions after u leaves L and is subscribed to T.                   *)
SubAfter(u, T, L) ==
  [p \in Urls |->
     IF p \in L THEN [sub[p] EXCEPT ![u] = "none"]
     ELSE IF p \in T \ Watched(u) THEN [sub[p] EXCEPT ![u] = "watching"]
     ELSE sub[p]]

(* Statuses after new rows were made, and value was assigned to products L: *)
(* the ORM writes it where u had not loaded the same value.                 *)
StatusAfter(u, new, L, value) ==
  [p \in Urls |-> IF p \in new THEN "active"
                  ELSE IF p \in L /\ job[u].was[p] # value THEN value
                  ELSE status[p]]

(* Mutant: a release forgets to pause the product it leaves unwatched.      *)
ReleasedQuietly(u) == {}

Released(u) == {p \in job[u].touch : LastToLeave(u, p)}

FinishTrack(u) ==
  /\ Ready(u, "add") \/ Ready(u, "entry")
  /\ Track(u)
  /\ status' = StatusAfter(u, NewRows(u), {}, "active")
  /\ sub' = SubAfter(u, job[u].urls, {})
  /\ live' = IF job[u].op = "entry" THEN live \cup ({u} \X job[u].urls) ELSE live
  /\ End(u)
  /\ UNCHANGED retired

(* The listing moves; the product it leaves is released.                    *)
FinishRepoint(u) ==
  /\ Ready(u, "repoint")
  /\ Track(u)
  /\ status' = StatusAfter(u, NewRows(u), Released(u), "paused")
  /\ sub' = SubAfter(u, job[u].urls, job[u].touch)
  /\ live' = (live \ ({u} \X job[u].touch)) \cup ({u} \X job[u].urls)
  /\ End(u)
  /\ UNCHANGED retired

FinishDeactivate(u) ==
  /\ Ready(u, "deactivate")
  /\ status' = StatusAfter(u, {}, Released(u), "paused")
  /\ sub' = SubAfter(u, {}, job[u].touch)
  /\ live' = live \ ({u} \X job[u].touch)
  /\ retired' = retired \cup job[u].touch
  /\ End(u)
  /\ UNCHANGED <<row, made>>

(* remove() of a product somebody else still watches                        *)
FinishLeave(u, p) ==
  /\ Ready(u, "remove") /\ p \in job[u].touch
  /\ ~LastToLeave(u, p) \/ row[p] # job[u].ids[p]
  /\ sub' = IF row[p] = job[u].ids[p] THEN SubAfter(u, {}, {p}) ELSE sub
  /\ End(u)
  /\ UNCHANGED <<products, live, retired>>

(* Mutant: listings do not keep their row (SET NULL, CASCADE).              *)
Unrestricted(p) == TRUE

Deletable(p) == ~Referenced(p)

(* A subscription of p that another transaction has changed is locked.      *)
SubscriptionLocked(u, p) ==
  \E v \in Users \ {u} : job[v] # Idle /\ job[v].counted /\ p \in job[v].touch /\ Subscribed(v, p)

(* remove() by the last subscriber counted: the row goes and the cascade    *)
(* takes every subscription there is by now.                                *)
FinishDelete(u, p) ==
  /\ Ready(u, "remove") /\ p \in job[u].touch
  /\ LastToLeave(u, p) /\ row[p] = job[u].ids[p]
  /\ Deletable(p) /\ ~SubscriptionLocked(u, p)
  /\ row' = [row EXCEPT ![p] = 0]
  /\ status' = [status EXCEPT ![p] = "paused"]
  /\ sub' = [sub EXCEPT ![p] = [v \in Users |-> "none"]]
  /\ End(u)
  /\ UNCHANGED <<made, live, retired>>

FinishPause(u, p) ==
  /\ Ready(u, "pause") /\ p \in job[u].touch
  /\ LET wanted == job[u].want = "watching" \/ job[u].others[p] # {}
     IN status' = StatusAfter(u, {}, {p}, IF wanted THEN "active" ELSE "paused")
  /\ sub' = [sub EXCEPT ![p][u] = job[u].want]
  /\ End(u)
  /\ UNCHANGED <<row, made, live, retired>>

FinishSetTracking(u) ==
  /\ Ready(u, "set_tracking")
  /\ status' = StatusAfter(u, {}, job[u].touch, job[u].want)
  /\ End(u)
  /\ UNCHANGED <<row, made, sub, live, retired>>

(* An error, a deadlock or a lost connection rolls the request back.        *)
Fail(u) ==
  /\ job[u] # Idle
  /\ End(u)
  /\ UNCHANGED <<products, sub, live, retired>>

Next ==
  \E u \in Users :
    \/ \E p \in Urls : StartAdd(u, p) \/ StartRemove(u, p)
    \/ \E T \in SUBSET Urls : StartEntry(u, T) \/ StartDeactivate(u, T)
    \/ \E old, new \in Urls : StartRepoint(u, old, new)
    \/ \E p \in Urls, want \in {"watching", "paused"} : StartPause(u, p, want)
    \/ \E L \in SUBSET Urls, want \in Tracking : StartSetTracking(u, L, want)
    \/ Count(u)
    \/ FinishTrack(u) \/ FinishRepoint(u) \/ FinishDeactivate(u)
    \/ \E p \in Urls : FinishLeave(u, p) \/ FinishDelete(u, p) \/ FinishPause(u, p)
    \/ FinishSetTracking(u)
    \/ Fail(u)

Spec == Init /\ [][Next]_vars

-----------------------------------------------------------------------------
(* Properties                                                               *)

(* However requests cross, a listing, live or deactivated, refers to an     *)
(* existing product: what RESTRICT is for (db/models.py:337-340).           *)
ListingsKeepTheirProduct == \A p \in Urls : Referenced(p) => Exists(p)

(* An account that makes one request at a time never watches more than      *)
(* max_listings_per_user, whether it creates products, joins other people's *)
(* or moves its listings (product_service.py:124-126).                      *)
QuotaKept == \A u \in Users \ Exempt : Cardinality(Watched(u)) <= Limit

(* An account loses a subscription only by its own request, or to a removal *)
(* that deletes the product and could not have counted it: it was committed *)
(* after the count (remove and _release, "deleting rows other people watch  *)
(* is the failure this whole subscription model exists to prevent").        *)
OthersLoseOnlyUncounted ==
  [][\A v \in Users, p \in Urls :
       Subscribed(v, p) /\ ~Subscribed(v, p)' =>
         \/ job[v] # Idle /\ p \in job[v].touch /\ job'[v] = Idle
         \/ \E u \in Users \ {v} : /\ job[u] # Idle /\ job'[u] = Idle
                                   /\ job[u].op = "remove"
                                   /\ p \in job[u].touch
                                   /\ v \notin job[u].others[p]]_vars

(* A product that loses its last subscriber is no longer scheduled, unless  *)
(* that subscriber still counted another who was leaving at the same time,  *)
(* or had loaded the product while it was paused (_release).                *)
UnwatchedIsQuiet ==
  [][\A p \in Urls :
       Subscribers(p) # {} /\ Subscribers(p)' = {} /\ status'[p] = "active" =>
         \E u \in Subscribers(p) :
           /\ job[u] # Idle /\ job'[u] = Idle /\ p \in job[u].touch
           /\ job[u].others[p] # {} \/ job[u].was[p] = "paused"]_vars

(* A product is checked while somebody wants it: has a subscription that is *)
(* not paused, and no listing of its own through which it could have paused *)
(* the product (alert_service.py:173-174, db/models.py:152-153).            *)
WantedIsChecked ==
  \A p \in Urls :
    (\E u \in Users : sub[p][u] = "watching" /\ p \notin Listed(u)) => status[p] = "active"
=============================================================================
