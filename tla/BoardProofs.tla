---------------------------- MODULE BoardProofs ----------------------------
(* What holds of Board for any accounts, sessions, listings, labels and     *)
(* checks.                                                                  *)
EXTENDS Board, FiniteSetTheorems, WellFoundedInduction, TLAPS

Links == Group \X Label \X Listing

(* The stages of an attach.                                                 *)
Reads == [at : {"reading"}, group : Group, listing : Listing, label : Label \cup {None},
          attrs : Label \cup {None}, named : BOOLEAN, seen : Category \cup {None}]
Writes == [at : {"writing"}, group : Group, listing : Listing, seen : Category \cup {None},
           model : Label, told : BOOLEAN, fills : BOOLEAN, creates : BOOLEAN,
           clears : SUBSET Links]

Shapes ==
  /\ category \in [DOMAIN category -> Category \cup {None}] /\ DOMAIN category \subseteq Group
  /\ variants \in [DOMAIN variants -> BOOLEAN]
  /\ DOMAIN variants \subseteq (DOMAIN category) \X Label
  /\ links \subseteq Links
  /\ asked \in [Session -> {Idle} \cup Reads \cup Writes]
  /\ overlap \subseteq Group \X Listing

Shelved ==
  /\ \A k \in links : <<k[1], k[2]>> \in DOMAIN variants
  /\ \A x \in Session : asked[x] # Idle => asked[x].group \in DOMAIN category

(* An attach that writes is about to clear links to its listing in its      *)
(* group only, and all of them but those it raced with.                     *)
Clearing ==
  \A x \in Session : asked[x].at = "writing" =>
    LET r == asked[x] IN
    /\ \A k \in r.clears : k[1] = r.group /\ k[3] = r.listing
    /\ \A k \in links : k[1] = r.group /\ k[3] = r.listing =>
         k \in r.clears \/ <<r.group, r.listing>> \in overlap

(* Two that write of one listing and group have raced.                      *)
Racing ==
  \A x, y \in Session :
    x # y /\ asked[x].at = "writing" /\ asked[y].at = "writing"
      /\ asked[x].group = asked[y].group /\ asked[x].listing = asked[y].listing =>
        <<asked[x].group, asked[x].listing>> \in overlap

OneModel ==
  \A j, k \in links : j[1] = k[1] /\ j[3] = k[3] => j = k \/ <<j[1], j[3]>> \in overlap

(* A row of the products table.                                             *)
Fields == {"price", "stock", "checked", "named"}
RowOf(r) ==
  /\ r = [f \in Fields |-> r[f]]
  /\ r.price \in Nat /\ r.checked \in BOOLEAN /\ r.named \in BOOLEAN

RowShape ==
  /\ checks \in 0 .. MaxChecks
  /\ DOMAIN product = Listing /\ DOMAIN last = Listing
  /\ \A l \in Listing : RowOf(product[l]) /\ last[l].started \in 0 .. checks
  /\ \A c \in flight : c.listing \in Listing /\ c.started \in 1 .. checks /\ RowOf(c.seen)

(* Those still under way began after a check that was alone when it began.  *)
Ordered ==
  /\ \A c \in flight : last[c.listing].alone => c.started > last[c.listing].started
  /\ \A c, d \in flight :
       c.alone /\ d.listing = c.listing /\ d # c => d.started > c.started

(* The newest check of a listing, if it began alone, finds the row as it    *)
(* has loaded it.                                                           *)
SeenIsRow ==
  \A c \in flight :
    c.alone /\ c.started > last[c.listing].started => product[c.listing] = c.seen

(* What the newest check read is on the row, if it began alone, unless the  *)
(* listing sells nothing.                                                   *)
RowIsRead ==
  \A l \in Listing :
    last[l].alone /\ last[l].status = "success" /\ last[l].error = None
      /\ product[l].stock \notin {"out_of_stock", "unavailable"} =>
        product[l].price = last[l].price

(* The stages of a grid that is being loaded.                               *)
GridShape ==
  \/ view = NoView
  \/ view \in [at : {"variants"}, group : Group, variants : SUBSET Label]
  \/ /\ view.at = "rows"
     /\ view.shelf \subseteq Label \X Listing
     /\ DOMAIN view.row \subseteq Listing
     /\ \A e \in view.shelf : e[2] \in DOMAIN view.row
     /\ \A l \in DOMAIN view.row : view.row[l].price \in Nat

(* The rows of the grid are those of the table until a newer check commits, *)
(* if the newest there was had begun alone.                                 *)
Loaded ==
  view.at = "rows" => \A l \in DOMAIN view.row :
    /\ view.newest[l] \in Nat /\ view.newest[l] <= last[l].started
    /\ last[l].alone /\ ~Overtaken(l) => view.row[l] = product[l]

Shelf == Shapes /\ Shelved /\ Clearing /\ Racing /\ OneModel
Rows == RowShape /\ Ordered /\ SeenIsRow /\ RowIsRead
Grid == GridShape /\ Loaded

-----------------------------------------------------------------------------
(* Rows and checks                                                          *)

(* What a check makes of the row it has loaded.                             *)
LEMMA ReadsRow ==
  ASSUME NEW row, RowOf(row), NEW a \in Answer
  PROVE  /\ RowOf(AfterCheck(row, a))
         /\ a.outcome \in Success
              /\ AfterCheck(row, a).stock \notin {"out_of_stock", "unavailable"} =>
                AfterCheck(row, a).price = a.price
<1> DEFINE read == AfterCheck(row, a)
           skips == a.outcome = "skipped"  succeeds == a.outcome \in Success
           price == IF succeeds /\ a.price # NoPrice THEN a.price ELSE row.price
           stock == IF succeeds \/ a.retracts THEN StockOf(a) ELSE row.stock
           named == row.named \/ (succeeds /\ a.named)
<1>1. /\ a.price \in Nat /\ a.named \in BOOLEAN /\ (a.outcome = "ok" => a.price # NoPrice)
      /\ row = [f \in Fields |-> row[f]]
      /\ row.price \in Nat /\ row.checked \in BOOLEAN /\ row.named \in BOOLEAN
  BY BoardAssumption DEF RowOf
<1>2. CASE skips
  BY <1>2 DEF AfterCheck, Success
<1>3. CASE ~skips
  <2>1. read = [row EXCEPT !.checked = TRUE, !.price = price, !.named = named, !.stock = stock]
    BY <1>3 DEF AfterCheck
  <2>2. price \in Nat /\ named \in BOOLEAN
    BY <1>1
  <2>3. succeeds /\ stock \notin {"out_of_stock", "unavailable"} => price = a.price
    BY <1>1 DEF StockOf, Success
  <2> HIDE DEF read, skips, succeeds, price, stock, named
  <2>4. /\ read = [f \in Fields |-> read[f]]
        /\ read.price = price /\ read.stock = stock /\ read.checked = TRUE /\ read.named = named
    BY <1>1, <2>1 DEF Fields
  <2>5. RowOf(read)
    BY <2>2, <2>4 DEF RowOf
  <2> QED
    BY <2>3, <2>4, <2>5 DEF read, succeeds
<1> QED
  BY <1>2, <1>3

LEMMA WritesRow ==
  ASSUME NEW row, RowOf(row), NEW seen, RowOf(seen), NEW new, RowOf(new)
  PROVE  /\ RowOf(Written(row, seen, new))
         /\ row = seen => /\ Written(row, seen, new).price = new.price
                          /\ Written(row, seen, new).stock = new.stock
<1> DEFINE made == Written(row, seen, new)
<1>1. DOMAIN row = Fields
  BY DEF RowOf
<1>2. made = [f \in Fields |-> IF new[f] # seen[f] THEN new[f] ELSE row[f]]
  BY <1>1 DEF Written
<1> HIDE DEF made
<1>3. \A f \in Fields : made[f] = IF new[f] # seen[f] THEN new[f] ELSE row[f]
  BY <1>2
<1>4. made = [f \in Fields |-> made[f]]
  BY <1>2, <1>3
<1>5. RowOf(made)
  BY <1>3, <1>4 DEF RowOf, Fields
<1> QED
  BY <1>3, <1>5 DEF made, Fields

LEMMA StartStep ==
  ASSUME Rows, NEW l \in Listing, StartCheck(l)
  PROVE  Rows'
<1> DEFINE alone == \A c \in flight : c.listing # l
           new == [listing |-> l, started |-> checks + 1, seen |-> product[l], alone |-> alone]
<1>1. /\ checks < MaxChecks /\ checks' = checks + 1 /\ flight' = flight \cup {new}
      /\ product' = product /\ last' = last
  BY DEF StartCheck
<1>2. new.alone => \A c \in flight : c.listing # l
  OBVIOUS
<1> HIDE DEF alone
<1>3. new.listing = l /\ new.started = checks + 1 /\ new.seen = product[l]
  OBVIOUS
<1> HIDE DEF new
<1>4. checks \in Nat /\ checks' \in 0 .. MaxChecks
  BY <1>1, BoardAssumption DEF Rows, RowShape
<1>5. \A c \in flight : c.started \in Int /\ c.started <= checks /\ c.started < new.started
  BY <1>3, <1>4 DEF Rows, RowShape
<1>6. \A k \in Listing : last[k].started \in Int /\ last[k].started < new.started
  BY <1>3, <1>4 DEF Rows, RowShape
<1>7. RowShape'
  BY <1>1, <1>3, <1>4 DEF Rows, RowShape
<1>8. Ordered'
  <2>1. \A c \in flight' : last[c.listing].alone => c.started > last[c.listing].started
    BY <1>1, <1>3, <1>6 DEF Rows, Ordered
  <2>2. ASSUME NEW c \in flight', NEW d \in flight', c.alone, d.listing = c.listing, d # c
        PROVE  d.started > c.started
    <3>1. CASE c = new
      BY <1>1, <1>2, <1>3, <2>2, <3>1
    <3>2. CASE c # new /\ d = new
      BY <1>1, <1>3, <1>4, <1>5, <3>2
    <3>3. CASE c # new /\ d # new
      BY <1>1, <2>2, <3>3 DEF Rows, Ordered
    <3> QED
      BY <3>1, <3>2, <3>3
  <2> QED
    BY <1>1, <2>1, <2>2 DEF Ordered
<1>9. SeenIsRow' /\ RowIsRead'
  BY <1>1, <1>3 DEF Rows, SeenIsRow, RowIsRead
<1> QED
  BY <1>7, <1>8, <1>9 DEF Rows

(* A check that finishes replaces an older one as the newest, or the newest *)
(* was not alone when it began.                                             *)
LEMMA Replaces ==
  ASSUME Rows, NEW c \in flight, NEW a \in Answer, FinishCheck(c, a)
  PROVE  LET l == c.listing IN
         /\ l \in Listing /\ c.started \in Nat /\ last[l].started \in Nat
         /\ \A k \in Listing \ {l} : product'[k] = product[k] /\ last'[k] = last[k]
         /\ product'[l] = Written(product[l], c.seen, AfterCheck(c.seen, a))
         /\ DOMAIN product' = Listing /\ DOMAIN last' = Listing
         /\ last[l].alone => c.started > last[l].started
         /\ \/ c.started > last[l].started /\ last'[l] = Execution(c, a)
            \/ ~(c.started > last[l].started) /\ last'[l] = last[l] /\ ~last[l].alone
<1> DEFINE l == c.listing
<1>1. l \in Listing /\ c.started \in Nat /\ last[l].started \in Nat
  BY DEF Rows, RowShape
<1>2. last[l].alone => c.started > last[l].started
  BY DEF Rows, Ordered
<1>3. /\ product' = [product EXCEPT ![l] =
            Written(product[l], c.seen, AfterCheck(c.seen, a))]
      /\ last' = [last EXCEPT ![l] =
            IF c.started > last[l].started THEN Execution(c, a) ELSE last[l]]
  BY DEF FinishCheck
<1> HIDE DEF l
<1>4. /\ \A k \in Listing \ {l} : product'[k] = product[k] /\ last'[k] = last[k]
      /\ product'[l] = Written(product[l], c.seen, AfterCheck(c.seen, a))
      /\ last'[l] = IF c.started > last[l].started THEN Execution(c, a) ELSE last[l]
      /\ DOMAIN product' = Listing /\ DOMAIN last' = Listing
  BY <1>1, <1>3 DEF Rows, RowShape
<1> QED
  BY <1>1, <1>2, <1>4 DEF l

LEMMA FinishStep ==
  ASSUME Rows, NEW c \in flight, NEW a \in Answer, FinishCheck(c, a)
  PROVE  Rows'
<1> DEFINE l == c.listing  row == product[l]  read == AfterCheck(c.seen, a)
           made == Written(row, c.seen, read)
<1>1. flight' = flight \ {c} /\ checks' = checks
  BY DEF FinishCheck
<1>2. /\ l \in Listing /\ c.started \in Nat /\ last[l].started \in Nat
      /\ \A k \in Listing \ {l} : product'[k] = product[k] /\ last'[k] = last[k]
      /\ product'[l] = made
      /\ DOMAIN product' = Listing /\ DOMAIN last' = Listing
      /\ \/ c.started > last[l].started /\ last'[l] = Execution(c, a)
         \/ ~(c.started > last[l].started) /\ last'[l] = last[l] /\ ~last[l].alone
  BY Replaces
<1>3. /\ RowOf(read) /\ RowOf(made)
      /\ a.outcome \in Success /\ read.stock \notin {"out_of_stock", "unavailable"} =>
           read.price = a.price
      /\ row = c.seen => made.price = read.price /\ made.stock = read.stock
  <2>1. RowOf(c.seen) /\ RowOf(row)
    BY <1>2 DEF Rows, RowShape
  <2>2. /\ RowOf(read)
        /\ a.outcome \in Success /\ read.stock \notin {"out_of_stock", "unavailable"} =>
             read.price = a.price
    BY <2>1, ReadsRow
  <2> HIDE DEF read, row
  <2> QED
    BY <2>1, <2>2, WritesRow
<1>4. /\ Execution(c, a).started = c.started /\ Execution(c, a).price =
           (IF a.outcome \in Success THEN a.price ELSE NoPrice)
      /\ Execution(c, a).alone = c.alone
      /\ Execution(c, a).status = "success" => a.outcome \in Success
  BY DEF Execution, Success, Partial
<1> DEFINE new == Execution(c, a)
<1> HIDE DEF read, made, new, row
<1>5. RowShape'
  BY <1>1, <1>2, <1>3, <1>4 DEF Rows, RowShape, new
<1>6. last'[l].started >= c.started /\ last'[l].started >= last[l].started
  BY <1>2, <1>4 DEF new
<1>7. Ordered'
  <2>1. ASSUME NEW d \in flight', last'[d.listing].alone
        PROVE  d.started > last'[d.listing].started
    <3>1. d \in flight /\ d # c /\ d.listing \in Listing
      BY <1>1 DEF Rows, RowShape
    <3>2. CASE d.listing = l
      <4>1. c.started > last[l].started /\ last'[l] = new /\ c.alone
        BY <1>2, <1>4, <2>1, <3>2 DEF new
      <4>2. d.started > c.started
        BY <3>1, <3>2, <4>1 DEF Rows, Ordered
      <4> QED
        BY <1>4, <3>2, <4>1, <4>2 DEF new
    <3>3. CASE d.listing # l
      BY <1>2, <2>1, <3>1, <3>3 DEF Rows, Ordered
    <3> QED
      BY <3>2, <3>3
  <2>2. \A d, e \in flight' :
          d.alone /\ e.listing = d.listing /\ e # d => e.started > d.started
    BY <1>1 DEF Rows, Ordered
  <2> QED
    BY <2>1, <2>2 DEF Ordered
<1>8. SeenIsRow'
  <2> SUFFICES ASSUME NEW d \in flight', d.alone, d.started > last'[d.listing].started
               PROVE  product'[d.listing] = d.seen
    BY DEF SeenIsRow
  <2>1. d \in flight /\ d # c /\ d.listing \in Listing /\ d.started \in Int
    BY <1>1 DEF Rows, RowShape
  <2>2. CASE d.listing = l
    <3>1. c.started > d.started
      BY <2>1, <2>2 DEF Rows, Ordered
    <3>2. last'[l].started \in Int
      BY <1>2, <1>4 DEF new
    <3> QED
      BY <1>2, <1>6, <2>1, <2>2, <3>1, <3>2
  <2>3. CASE d.listing # l
    BY <1>2, <2>1, <2>3 DEF Rows, SeenIsRow
  <2> QED
    BY <2>2, <2>3
<1>9. RowIsRead'
  <2> SUFFICES ASSUME NEW k \in Listing, last'[k].alone, last'[k].status = "success",
                      last'[k].error = None,
                      product'[k].stock \notin {"out_of_stock", "unavailable"}
               PROVE  product'[k].price = last'[k].price
    BY DEF RowIsRead
  <2>1. CASE k = l
    <3>1. c.started > last[l].started /\ last'[l] = new /\ c.alone /\ a.outcome \in Success
      BY <1>2, <1>4, <2>1 DEF new
    <3>2. row = c.seen
      BY <3>1 DEF Rows, SeenIsRow, row
    <3>3. read.price = a.price /\ made.price = read.price
      BY <1>2, <1>3, <2>1, <3>1, <3>2
    <3>4. new.price = a.price
      BY <1>4, <3>1 DEF new
    <3> QED
      BY <1>2, <2>1, <3>1, <3>3, <3>4
  <2>2. CASE k # l
    BY <1>2, <2>2 DEF Rows, RowIsRead
  <2> QED
    BY <2>1, <2>2
<1> QED
  BY <1>5, <1>7, <1>8, <1>9 DEF Rows

-----------------------------------------------------------------------------
(* Groups and attaches                                                      *)

LEMMA Stages ==
  ASSUME NEW r \in {Idle} \cup Reads \cup Writes
  PROVE  /\ r.at \in {"idle", "reading", "writing"}
         /\ r.at = "idle" <=> r = Idle
         /\ r.at = "reading" => r \in Reads
         /\ r.at = "writing" => r \in Writes
         /\ r # Idle => r.group \in Group /\ r.listing \in Listing
BY DEF Idle, Reads, Writes

(* What an attach reads from the listing names a model or nothing.          *)
LEMMA Modelled ==
  ASSUME NEW r \in Reads
  PROVE  /\ Settled(r) \in Category \cup {None}
         /\ Attributes(r) \in Label \cup {None} /\ Model(r) \in Label \cup {None}
<1>1. Settled(r) \in Category \cup {None}
  BY BoardAssumption DEF Settled, Reads
<1>2. <<r.listing, Settled(r)>> \in Listing \X (Category \cup {None})
  BY <1>1 DEF Reads
<1>3. /\ TitleSays[<<r.listing, Settled(r)>>] \in Label \cup {None}
      /\ UrlSays[<<r.listing, Settled(r)>>] \in Label \cup {None}
  BY <1>2, BoardAssumption
<1>4. FromTitle(r) \in Label \cup {None}
  BY <1>3 DEF FromTitle
<1>5. Attributes(r) \in Label \cup {None}
  BY <1>3, <1>4 DEF Attributes, Reads
<1> QED
  BY <1>1, <1>5 DEF Model, Reads

(* An attach that an action leaves where it was, or ends.                   *)
LEMMA ShelfKept ==
  ASSUME Shelf, UNCHANGED shelf
  PROVE  Shelf'
BY DEF Shelf, shelf, Shapes, Shelved, Clearing, Racing, OneModel

LEMMA CreateStep ==
  ASSUME Shelf, NEW g \in Group, NEW c \in Category \cup {None}, CreateGroup(g, c)
  PROVE  Shelf'
<1>1. /\ category' = [h \in DOMAIN category \cup {g} |-> IF h = g THEN c ELSE category[h]]
      /\ UNCHANGED <<variants, links, asked, overlap>>
  BY DEF CreateGroup
<1>2. Shapes'
  BY <1>1 DEF Shelf, Shapes
<1>3. Shelved'
  BY <1>1 DEF Shelf, Shelved
<1>4. Clearing' /\ Racing' /\ OneModel'
  BY <1>1 DEF Shelf, Clearing, Racing, OneModel
<1> QED
  BY <1>2, <1>3, <1>4 DEF Shelf

LEMMA DeleteStep ==
  ASSUME Shelf, NEW g \in Group, DeleteGroup(g)
  PROVE  Shelf'
<1>1. /\ Writing(g) = {}
      /\ category' = [h \in DOMAIN category \ {g} |-> category[h]]
      /\ variants' = [v \in {w \in DOMAIN variants : w[1] # g} |-> variants[v]]
      /\ links' = {k \in links : k[1] # g}
      /\ overlap' = {o \in overlap : o[1] # g}
      /\ asked' = [x \in Session |->
           IF asked[x].at = "reading" /\ asked[x].group = g THEN Idle ELSE asked[x]]
  BY DEF DeleteGroup
<1>2. \A x \in Session :
        /\ asked[x] \in {Idle} \cup Reads \cup Writes
        /\ asked'[x] = Idle \/ asked'[x] = asked[x]
        /\ asked'[x] # Idle => asked'[x].group # g
  <2> SUFFICES ASSUME NEW x \in Session
               PROVE  /\ asked[x] \in {Idle} \cup Reads \cup Writes
                      /\ asked'[x] = Idle \/ asked'[x] = asked[x]
                      /\ asked'[x] # Idle => asked'[x].group # g
    OBVIOUS
  <2>1. asked[x] \in {Idle} \cup Reads \cup Writes
    BY DEF Shelf, Shapes
  <2>2. asked'[x] = IF asked[x].at = "reading" /\ asked[x].group = g THEN Idle ELSE asked[x]
    BY <1>1
  <2>3. ~(asked[x].at = "writing" /\ asked[x].group = g)
    BY <1>1 DEF Writing
  <2> QED
    BY <2>1, <2>2, <2>3, Stages
<1>3. Shapes'
  <2>1. asked' \in [Session -> {Idle} \cup Reads \cup Writes]
    BY <1>1, <1>2
  <2> QED
    BY <1>1, <2>1 DEF Shelf, Shapes
<1>4. Shelved'
  BY <1>1, <1>2 DEF Shelf, Shelved
<1>5. \A x \in Session : asked'[x].at = "writing" => asked'[x] = asked[x] /\ asked[x].group # g
  BY <1>2 DEF Idle
<1>6. Clearing'
  BY <1>1, <1>5 DEF Shelf, Clearing
<1>7. Racing'
  BY <1>1, <1>5 DEF Shelf, Racing
<1>8. OneModel'
  BY <1>1 DEF Shelf, OneModel
<1> QED
  BY <1>3, <1>4, <1>6, <1>7, <1>8 DEF Shelf

(* The one session that moves, and where it stands then.                    *)
LEMMA Moved ==
  ASSUME Shelf, NEW x \in Session, NEW r, asked' = [asked EXCEPT ![x] = r],
         r \in {Idle} \cup Reads \cup Writes
  PROVE  /\ asked' \in [Session -> {Idle} \cup Reads \cup Writes]
         /\ asked'[x] = r
         /\ \A y \in Session \ {x} : asked'[y] = asked[y]
BY DEF Shelf, Shapes

LEMMA AttachStep ==
  ASSUME Shelf, RowShape, NEW x \in Session, NEW g \in Group, NEW l \in Listing,
         NEW told \in Given, Attach(x, g, l, told[1], told[2])
  PROVE  Shelf'
<1> DEFINE r == [at |-> "reading", group |-> g, listing |-> l, label |-> told[1],
                 attrs |-> told[2], named |-> product[l].named, seen |-> category[g]]
<1>1. /\ g \in DOMAIN category /\ asked' = [asked EXCEPT ![x] = r]
      /\ UNCHANGED <<category, variants, links, overlap>>
  BY DEF Attach
<1>2. told[1] \in Label \cup {None} /\ told[2] \in Label \cup {None}
  BY BoardAssumption
<1>3. product[l].named \in BOOLEAN /\ category[g] \in Category \cup {None}
  BY <1>1 DEF RowShape, RowOf, Shelf, Shapes
<1>4. r \in Reads
  BY <1>2, <1>3 DEF Reads
<1>5. r.at = "reading" /\ r.group = g
  OBVIOUS
<1> HIDE DEF r
<1>6. /\ asked' \in [Session -> {Idle} \cup Reads \cup Writes] /\ asked'[x] = r
      /\ \A y \in Session \ {x} : asked'[y] = asked[y]
  BY <1>1, <1>4, Moved
<1>7. Shapes'
  BY <1>1, <1>6 DEF Shelf, Shapes
<1>8. Shelved'
  BY <1>1, <1>5, <1>6 DEF Shelf, Shelved
<1>9. Clearing' /\ Racing'
  BY <1>1, <1>5, <1>6 DEF Shelf, Clearing, Racing
<1>10. OneModel'
  BY <1>1 DEF Shelf, OneModel
<1> QED
  BY <1>7, <1>8, <1>9, <1>10 DEF Shelf

LEMMA WritesStep ==
  ASSUME Shelf, NEW x \in Session, AttachWrites(x)
  PROVE  Shelf'
<1> DEFINE r == asked[x]
           raced == {<<r.group, r.listing>>}
           w == [at |-> "writing", group |-> r.group, listing |-> r.listing, seen |-> r.seen,
                 model |-> Model(r), told |-> Attributes(r) # None, fills |-> Fills(r),
                 creates |-> <<r.group, Model(r)>> \notin DOMAIN variants,
                 clears |-> Cleared(r)]
           next == IF Model(r) = None THEN Idle ELSE w
<1>1. /\ r.at = "reading" /\ asked' = [asked EXCEPT ![x] = next]
      /\ overlap' = overlap \cup
           (IF Model(r) # None /\ \E y \in Writing(r.group) : asked[y].listing = r.listing
              THEN raced ELSE {})
      /\ UNCHANGED <<category, variants, links>>
  BY DEF AttachWrites
<1>2. r \in Reads /\ r.group \in DOMAIN category
  <2>1. r \in {Idle} \cup Reads \cup Writes
    BY DEF Shelf, Shapes
  <2> QED
    BY <1>1, <2>1, Stages DEF Shelf, Shelved
<1>3. /\ r.group \in Group /\ r.listing \in Listing /\ r.seen \in Category \cup {None}
      /\ Model(r) \in Label \cup {None}
  BY <1>2, Modelled DEF Reads
<1>4. Cleared(r) \in SUBSET Links /\ Fills(r) \in BOOLEAN
  BY DEF Cleared, Fills, Shelf, Shapes
<1>5. Model(r) # None => w \in Writes /\ w.at = "writing" /\ w.group = r.group
                           /\ w.listing = r.listing /\ w.clears = Cleared(r)
  BY <1>3, <1>4 DEF Writes
<1>6. Cleared(r) = {k \in links : k[1] = r.group /\ k[3] = r.listing}
  BY DEF Cleared
<1> HIDE DEF r, w
<1>7. /\ next \in {Idle} \cup Reads \cup Writes
      /\ next # Idle => next.group = r.group
      /\ next.at = "writing" => Model(r) # None /\ next = w
  BY <1>5 DEF Idle
<1> HIDE DEF next
<1>8. /\ asked' \in [Session -> {Idle} \cup Reads \cup Writes] /\ asked'[x] = next
      /\ \A y \in Session \ {x} : asked'[y] = asked[y]
  BY <1>1, <1>7, Moved
<1>9. Shapes'
  BY <1>1, <1>3, <1>8 DEF Shelf, Shapes
<1>10. Shelved'
  BY <1>1, <1>2, <1>7, <1>8 DEF Shelf, Shelved
<1>11. overlap \subseteq overlap'
  BY <1>1
<1>12. Clearing'
  BY <1>1, <1>5, <1>6, <1>7, <1>8, <1>11 DEF Shelf, Clearing
<1>13. Racing'
  <2>1. ASSUME NEW y \in Session \ {x}, next.at = "writing", asked[y].at = "writing",
               asked[y].group = r.group, asked[y].listing = r.listing
        PROVE  <<r.group, r.listing>> \in overlap'
    BY <1>1, <1>7, <2>1 DEF Writing
  <2> QED
    BY <1>5, <1>7, <1>8, <1>11, <2>1 DEF Shelf, Racing
<1>14. OneModel'
  BY <1>1, <1>11 DEF Shelf, OneModel
<1> QED
  BY <1>9, <1>10, <1>12, <1>13, <1>14 DEF Shelf

LEMMA CommitsStep ==
  ASSUME Shelf, NEW x \in Session, AttachCommits(x)
  PROVE  Shelf'
<1> DEFINE r == asked[x]  v == <<r.group, r.model>>  added == <<r.group, r.model, r.listing>>
<1>1. r.at = "writing" /\ asked' = [asked EXCEPT ![x] = Idle] /\ UNCHANGED overlap
  BY DEF AttachCommits
<1>2. r \in Writes /\ r.group \in DOMAIN category
  <2>1. r \in {Idle} \cup Reads \cup Writes
    BY DEF Shelf, Shapes
  <2> QED
    BY <1>1, <2>1, Stages DEF Shelf, Shelved, Idle
<1>3. /\ r.group \in Group /\ r.listing \in Listing /\ r.model \in Label
      /\ r.seen \in Category \cup {None} /\ r.creates \in BOOLEAN /\ r.told \in BOOLEAN
  BY <1>2 DEF Writes
<1>4. /\ asked' \in [Session -> {Idle} \cup Reads \cup Writes] /\ asked'[x] = Idle
      /\ \A y \in Session \ {x} : asked'[y] = asked[y]
  <2> HIDE DEF r
  <2> QED
    BY <1>1, Moved
<1>5. CASE Refused(r)
  <2>1. UNCHANGED <<category, variants, links>>
    BY <1>5 DEF AttachCommits
  <2>2. Shapes' /\ Shelved'
    BY <1>1, <1>4, <2>1 DEF Shelf, Shapes, Shelved
  <2>3. Clearing' /\ Racing' /\ OneModel'
    BY <1>1, <1>4, <2>1 DEF Shelf, Clearing, Racing, OneModel, Idle
  <2> QED
    BY <2>2, <2>3 DEF Shelf
<1>6. CASE ~Refused(r)
  <2>1. /\ category' = [category EXCEPT ![r.group] = IF Learns(r) THEN Settled(r) ELSE @]
        /\ variants' = [w \in DOMAIN variants \cup {v} |->
             IF w # v THEN variants[w] ELSE (~r.creates /\ variants[v]) \/ r.told]
        /\ links' = (links \ r.clears) \cup {added}
    BY <1>6 DEF AttachCommits
  <2>2. /\ category' \in [DOMAIN category -> Category \cup {None}]
        /\ DOMAIN category' = DOMAIN category
    <3>1. Learns(r) => Settled(r) \in Category \cup {None}
      BY <1>3, BoardAssumption DEF Learns, Settled
    <3> QED
      BY <1>2, <2>1, <3>1 DEF Shelf, Shapes
  <2>3. /\ DOMAIN variants' = DOMAIN variants \cup {v}
        /\ variants' \in [DOMAIN variants' -> BOOLEAN]
    BY <2>1 DEF Shelf, Shapes
  <2>4. v \in (DOMAIN category) \X Label /\ added \in Links
    BY <1>2, <1>3 DEF Links
  <2>5. /\ added[1] = r.group /\ added[3] = r.listing /\ <<added[1], added[2]>> = v
        /\ v[1] = r.group
    OBVIOUS
  <2>6. /\ \A k \in r.clears : k[1] = r.group /\ k[3] = r.listing
        /\ \A k \in links : k[1] = r.group /\ k[3] = r.listing =>
             k \in r.clears \/ <<r.group, r.listing>> \in overlap
    BY <1>1 DEF Shelf, Clearing
  <2>7. \A y \in Session \ {x} : asked[y].at = "writing" /\ asked[y].group = r.group
                                /\ asked[y].listing = r.listing =>
          <<r.group, r.listing>> \in overlap
    BY <1>1 DEF Shelf, Racing
  <2> HIDE DEF r, v, added
  <2>8. Shapes'
    BY <1>1, <1>4, <2>1, <2>2, <2>3, <2>4 DEF Shelf, Shapes
  <2>9. Shelved'
    BY <1>4, <2>1, <2>2, <2>3, <2>5 DEF Shelf, Shelved
  <2>10. Clearing'
    <3> SUFFICES ASSUME NEW y \in Session \ {x}, asked[y].at = "writing"
                 PROVE  /\ \A k \in asked[y].clears :
                             k[1] = asked[y].group /\ k[3] = asked[y].listing
                        /\ \A k \in links' :
                             k[1] = asked[y].group /\ k[3] = asked[y].listing =>
                               \/ k \in asked[y].clears
                               \/ <<asked[y].group, asked[y].listing>> \in overlap
      BY <1>1, <1>4 DEF Clearing, Idle
    <3> QED
      BY <2>1, <2>5, <2>7 DEF Shelf, Clearing
  <2>11. Racing'
    BY <1>1, <1>4 DEF Shelf, Racing, Idle
  <2>12. OneModel'
    BY <1>1, <2>1, <2>5, <2>6 DEF Shelf, OneModel
  <2> QED
    BY <2>8, <2>9, <2>10, <2>11, <2>12 DEF Shelf
<1> QED
  BY <1>5, <1>6

LEMMA DetachStep ==
  ASSUME Shelf, NEW u \in User, NEW l \in Listing, Detach(u, l)
  PROVE  Shelf'
<1>1. links' \subseteq links /\ UNCHANGED <<category, variants, asked, overlap>>
  BY DEF Detach
<1>2. Shapes' /\ Shelved'
  BY <1>1 DEF Shelf, Shapes, Shelved
<1>3. Clearing' /\ Racing' /\ OneModel'
  BY <1>1 DEF Shelf, Clearing, Racing, OneModel
<1> QED
  BY <1>2, <1>3 DEF Shelf

-----------------------------------------------------------------------------
(* The grid that is loaded                                                  *)

LEMMA GridKept ==
  ASSUME Grid, UNCHANGED <<view, product, last>>
  PROVE  Grid'
BY DEF Grid, GridShape, Loaded, Overtaken, NoView

(* A check that commits under a grid overtakes the row, or it was not alone.*)
LEMMA FinishGrid ==
  ASSUME Grid, Rows, NEW c \in flight, NEW a \in Answer, FinishCheck(c, a)
  PROVE  Grid'
<1>1. view' = view
  BY DEF FinishCheck
<1>2. GridShape'
  BY <1>1 DEF Grid, GridShape, NoView
<1>3. ASSUME view.at = "rows", NEW k \in DOMAIN view.row
      PROVE  /\ view.newest[k] \in Nat /\ view.newest[k] <= last'[k].started
             /\ last'[k].alone /\ ~(last'[k].started > view.newest[k]) =>
                  view.row[k] = product'[k]
  <2> DEFINE l == c.listing
  <2>1. /\ k \in Listing /\ view.newest[k] \in Nat /\ view.newest[k] <= last[k].started
        /\ last[k].alone /\ ~(last[k].started > view.newest[k]) => view.row[k] = product[k]
    BY <1>3 DEF Grid, GridShape, NoView, Loaded, Overtaken
  <2>2. /\ l \in Listing /\ c.started \in Nat /\ last[l].started \in Nat
        /\ \A j \in Listing \ {l} : product'[j] = product[j] /\ last'[j] = last[j]
        /\ \/ c.started > last[l].started /\ last'[l] = Execution(c, a)
           \/ ~(c.started > last[l].started) /\ last'[l] = last[l] /\ ~last[l].alone
    BY Replaces
  <2>3. Execution(c, a).started = c.started
    BY DEF Execution
  <2> DEFINE new == Execution(c, a)
  <2> HIDE DEF l, new
  <2>4. CASE k = l
    BY <2>1, <2>2, <2>3, <2>4 DEF new
  <2>5. CASE k # l
    BY <2>1, <2>2, <2>5
  <2> QED
    BY <2>4, <2>5
<1>4. Loaded'
  BY <1>1, <1>3 DEF Loaded, Overtaken
<1> QED
  BY <1>2, <1>4 DEF Grid

LEMMA DeleteGrid ==
  ASSUME Grid, NEW g \in Group, DeleteGroup(g)
  PROVE  Grid'
<1> DEFINE Stage == [at : {"variants"}, group : Group, variants : SUBSET Label]
<1>1. CASE view.at = "variants" /\ view.group = g
  <2>1. view \in Stage
    BY <1>1 DEF Grid, GridShape, NoView
  <2>2. view' = [view EXCEPT !.variants = {}]
    BY <1>1 DEF DeleteGroup
  <2>3. view' \in Stage
    BY <2>1, <2>2
  <2> QED
    BY <2>3 DEF Grid, GridShape, Loaded
<1>2. CASE ~(view.at = "variants" /\ view.group = g)
  <2>1. UNCHANGED <<view, product, last>>
    BY <1>2 DEF DeleteGroup, readings
  <2> QED
    BY <2>1, GridKept
<1> QED
  BY <1>1, <1>2

LEMMA LoadsGrid ==
  ASSUME Shelf, Rows, Grid, (\E g \in Group : ReadVariants(g)) \/ ReadListings \/ ReadChecks
  PROVE  Grid'
<1>1. ASSUME NEW g \in Group, ReadVariants(g) PROVE Grid'
  <2> DEFINE labels == {v[2] : v \in {w \in DOMAIN variants : w[1] = g}}
  <2>1. labels \subseteq Label
    BY DEF Shelf, Shapes
  <2>2. view' = [at |-> "variants", group |-> g, variants |-> labels]
    BY <1>1 DEF ReadVariants
  <2> HIDE DEF labels
  <2>3. view' \in [at : {"variants"}, group : Group, variants : SUBSET Label]
    BY <2>1, <2>2
  <2> QED
    BY <2>3 DEF Grid, GridShape, Loaded
<1>2. CASE ReadListings
  <2> DEFINE found == {k \in links : k[1] = view.group /\ k[2] \in view.variants}
             placed == {<<k[2], k[3]>> : k \in found}
             row == [l \in {k[3] : k \in found} |-> product[l]]
             newest == [l \in {k[3] : k \in found} |-> last[l].started]
  <2>1. /\ view' = [at |-> "rows", group |-> view.group, shelf |-> placed, row |-> row,
                    newest |-> newest]
        /\ product' = product /\ last' = last
    BY <1>2 DEF ReadListings, readings
  <2>2. \A k \in found : k[2] \in Label /\ k[3] \in Listing
    BY DEF Shelf, Shapes, Links
  <2>3. placed \subseteq Label \X Listing
    BY <2>2
  <2>4. DOMAIN row \subseteq Listing /\ \A e \in placed : e[2] \in DOMAIN row
    <3>1. \A e \in placed : \E k \in found : e[2] = k[3]
      OBVIOUS
    <3> QED
      BY <2>2, <3>1
  <2>5. \A l \in DOMAIN row : row[l].price \in Nat
    <3> SUFFICES ASSUME NEW l \in {k[3] : k \in found} PROVE product[l].price \in Nat
      OBVIOUS
    <3>1. l \in Listing
      BY <2>2
    <3> QED
      BY <3>1 DEF Rows, RowShape, RowOf
  <2>6. \A l \in DOMAIN row : row[l] = product[l] /\ newest[l] = last[l].started
    OBVIOUS
  <2>7. \A l \in Listing : last[l].started \in Nat
    BY DEF Rows, RowShape
  <2> HIDE DEF found, placed, row, newest
  <2>8. view'.at = "rows" /\ view'.shelf = placed /\ view'.row = row /\ view'.newest = newest
    BY <2>1
  <2>9. GridShape'
    BY <2>3, <2>4, <2>5, <2>8 DEF GridShape
  <2>10. Loaded'
    BY <2>1, <2>4, <2>6, <2>7, <2>8 DEF Loaded, Overtaken
  <2> QED
    BY <2>9, <2>10 DEF Grid
<1>3. CASE ReadChecks
  BY <1>3 DEF ReadChecks, Grid, GridShape, Loaded, NoView
<1> QED
  BY <1>1, <1>2, <1>3

-----------------------------------------------------------------------------
(* The invariant                                                            *)

Inv == Shelf /\ Rows /\ Grid

LEMMA Start ==
  ASSUME Init
  PROVE  Inv
<1>1. Shapes
  BY DEF Init, Shapes
<1>2. Shelved /\ Clearing /\ Racing /\ OneModel
  BY DEF Init, Shelved, Clearing, Racing, OneModel, Idle
<1>3. checks \in 0 .. MaxChecks
  BY BoardAssumption DEF Init
<1>4. RowShape
  <2>1. ASSUME NEW l \in Listing PROVE RowOf(product[l])
    BY DEF Init, RowOf, Fields, NoPrice
  <2>2. \A l \in Listing : last[l].started \in 0 .. checks
    BY DEF Init
  <2> QED
    BY <1>3, <2>1, <2>2 DEF Init, RowShape
<1>5. Ordered /\ SeenIsRow /\ RowIsRead
  BY DEF Init, Ordered, SeenIsRow, RowIsRead
<1>6. Grid
  BY DEF Init, Grid, GridShape, Loaded, NoView
<1> QED
  BY <1>1, <1>2, <1>4, <1>5, <1>6 DEF Inv, Shelf, Rows

LEMMA RowsKept ==
  ASSUME Rows, UNCHANGED readings
  PROVE  Rows' /\ UNCHANGED <<product, last>>
BY DEF Rows, readings, RowShape, Ordered, SeenIsRow, RowIsRead

LEMMA Step ==
  ASSUME Inv, [Next]_vars
  PROVE  Inv'
<1> USE DEF Inv
<1>1. ASSUME NEW l \in Listing, StartCheck(l)
      PROVE  Inv'
  BY <1>1, StartStep, ShelfKept, GridKept DEF StartCheck
<1>2. ASSUME NEW c \in flight, NEW a \in Answer, FinishCheck(c, a)
      PROVE  Inv'
  BY <1>2, FinishStep, FinishGrid, ShelfKept DEF FinishCheck
<1>3. ASSUME NEW g \in Group, NEW c \in Category \cup {None}, CreateGroup(g, c)
      PROVE  Inv'
  BY <1>3, CreateStep, RowsKept, GridKept DEF CreateGroup
<1>4. ASSUME NEW g \in Group, DeleteGroup(g)
      PROVE  Inv'
  BY <1>4, DeleteStep, RowsKept, DeleteGrid DEF DeleteGroup
<1>5. ASSUME NEW x \in Session, NEW g \in Group, NEW l \in Listing, NEW told \in Given,
             Attach(x, g, l, told[1], told[2])
      PROVE  Inv'
  <2>1. Shelf'
    BY <1>5, AttachStep DEF Rows
  <2> QED
    BY <1>5, <2>1, RowsKept, GridKept DEF Attach
<1>6. ASSUME NEW x \in Session, AttachWrites(x)
      PROVE  Inv'
  BY <1>6, WritesStep, RowsKept, GridKept DEF AttachWrites
<1>7. ASSUME NEW x \in Session, AttachCommits(x)
      PROVE  Inv'
  BY <1>7, CommitsStep, RowsKept, GridKept DEF AttachCommits
<1>8. ASSUME NEW u \in User, NEW l \in Listing, Detach(u, l)
      PROVE  Inv'
  BY <1>8, DetachStep, RowsKept, GridKept DEF Detach
<1>9. CASE \/ \E g \in Group : ReadVariants(g)
           \/ ReadListings
           \/ ReadChecks
  <2>1. UNCHANGED <<readings, shelf>>
    BY <1>9 DEF ReadVariants, ReadListings, ReadChecks
  <2> QED
    BY <1>9, <2>1, ShelfKept, RowsKept, LoadsGrid
<1>10. CASE UNCHANGED vars
  <2>1. UNCHANGED <<readings, shelf, view>>
    BY <1>10 DEF vars, readings, shelf
  <2> QED
    BY <2>1, ShelfKept, RowsKept, GridKept
<1> QED
  BY <1>1, <1>2, <1>3, <1>4, <1>5, <1>6, <1>7, <1>8, <1>9, <1>10 DEF Next

LEMMA Always == Spec => []Inv
<1>1. Init => Inv
  BY Start
<1>2. Inv /\ [Next]_vars => Inv'
  BY Step
<1> QED
  BY <1>1, <1>2, PTL DEF Spec

-----------------------------------------------------------------------------
(* Every link is under a model of a group that stands and every attach is   *)
(* of such a group, by whatever checks, attaches and deletions (models.py:  *)
(* ProductGroup, ProductVariant, VariantListing and their cascades).        *)
THEOREM TypeCorrect == Spec => []TypeOK
<1>1. Inv => TypeOK
  <2> SUFFICES ASSUME Inv
               PROVE  TypeOK
    OBVIOUS
  <2>1. category \in UNION {[G -> Category \cup {None}] : G \in SUBSET Group}
    BY DEF Inv, Shelf, Shapes
  <2>2. \A k \in links : <<k[1], k[2]>> \in DOMAIN variants /\ k[3] \in Listing
    BY DEF Inv, Shelf, Shapes, Shelved, Links
  <2> QED
    BY <2>1, <2>2 DEF Inv, Shelf, Shapes, Shelved, Rows, RowShape, TypeOK
<1> QED
  BY <1>1, Always, PTL

(* A listing is under one model of a group, wherever it is moved, unless    *)
(* two attaches of it were in flight together (_clear_links).               *)
THEOREM OneModelEach == Spec => []OneModelUnlessRaced
<1>1. Inv => OneModelUnlessRaced
  <2> SUFFICES ASSUME Inv, NEW g \in Group, NEW l \in Listing, <<g, l>> \notin overlap
               PROVE  Cardinality({k \in links : k[1] = g /\ k[3] = l}) <= 1
    BY DEF OneModelUnlessRaced
  <2> DEFINE under == {k \in links : k[1] = g /\ k[3] = l}
  <2>1. \A j, k \in under : j = k
    BY DEF Inv, Shelf, OneModel
  <2>2. under = {} \/ \E k : under = {k}
    BY <2>1
  <2>3. Cardinality({}) = 0 /\ \A k : Cardinality({k}) = 1
    BY FS_EmptySet, FS_Singleton
  <2> HIDE DEF under
  <2>4. Cardinality(under) \in {0, 1}
    BY <2>2, <2>3
  <2>5. Cardinality(under) <= 1
    BY <2>4
  <2> QED
    BY <2>5 DEF under
<1> QED
  BY <1>1, Always, PTL

(* The step of OthersKeepTheirLinks.                                        *)
LEMMA MovesStep ==
  ASSUME Inv, [Next]_vars, NEW k \in links \ links'
  PROVE  /\ \A j \in links \ links' : j[1][1] = k[1][1]
         /\ \/ k[1] \notin DOMAIN category'
            \/ \E j \in links' : j[1] = k[1] /\ j[3] = k[3]
            \/ \A j \in links' : j[3] = k[3] => j[1][1] # k[1][1]
<1>1. CASE \E g \in Group : DeleteGroup(g)
  <2>1. PICK g \in Group : DeleteGroup(g)
    BY <1>1
  <2>2. \A j \in links \ links' : j[1] = g
    BY <2>1 DEF DeleteGroup
  <2>3. g \notin DOMAIN category'
    BY <2>1 DEF DeleteGroup
  <2> QED
    BY <2>2, <2>3
<1>2. CASE \E x \in Session : AttachCommits(x)
  <2>1. PICK x \in Session : AttachCommits(x)
    BY <1>2
  <2> DEFINE r == asked[x]  added == <<r.group, r.model, r.listing>>
  <2>2. r.at = "writing" /\ links' = (links \ r.clears) \cup {added}
    BY <2>1 DEF AttachCommits
  <2>3. \A j \in r.clears : j[1] = r.group /\ j[3] = r.listing
    BY <2>2 DEF Inv, Shelf, Clearing
  <2>4. added \in links' /\ added[1] = r.group /\ added[3] = r.listing
    BY <2>2
  <2>5. \A j \in links \ links' : j \in r.clears
    BY <2>2
  <2> QED
    BY <2>3, <2>4, <2>5
<1>3. CASE \E u \in User, l \in Listing : Detach(u, l)
  <2>1. PICK u \in User, l \in Listing : Detach(u, l)
    BY <1>3
  <2>2. links' = {j \in links : ~(j[3] = l /\ j[1][1] = u)}
    BY <2>1 DEF Detach, Attached
  <2>3. \A j \in links \ links' : j[3] = l /\ j[1][1] = u
    BY <2>2
  <2>4. \A j \in links' : j[3] = l => j[1][1] # u
    BY <2>2
  <2> QED
    BY <2>3, <2>4
<1>4. CASE UNCHANGED links
  BY <1>4
<1> QED
  BY <1>1, <1>2, <1>3, <1>4
  DEF Next, vars, readings, shelf, StartCheck, FinishCheck, CreateGroup, ReadVariants, Attach,
      AttachWrites, ReadListings, ReadChecks

(* A step unlinks listings of one account only, and from a group that       *)
(* stands only to put them under another model there or to take them out of *)
(* all the account's groups (attach_product, detach_product).               *)
THEOREM OthersKeepTheirLinks == Spec => MovesOneAccount
<1>1. Inv /\ [Next]_vars =>
        [\A k \in links \ links' :
           /\ \A j \in links \ links' : j[1][1] = k[1][1]
           /\ \/ k[1] \notin DOMAIN category'
              \/ \E j \in links' : j[1] = k[1] /\ j[3] = k[3]
              \/ \A j \in links' : j[3] = k[3] => j[1][1] # k[1][1]]_vars
  BY MovesStep
<1> QED
  BY <1>1, Always, PTL DEF Spec, MovesOneAccount

(* Of every listing loaded, not only of those the grid shows, a price that  *)
(* is not marked was read by the newest check, however checks overlap and   *)
(* whenever they commit, but for the three ways round the mark that         *)
(* ConfirmedUnlessRaced names (comparison.py: _is_stale; groups.py:159).    *)
THEOREM LoadedPricesAreConfirmed ==
  Spec => [](view.at = "rows" =>
               \A l \in DOMAIN view.row :
                 Confirmed(l) \/ Withdrawn(l) \/ Overtaken(l) \/ Overlapped(l))
<1> DEFINE Holds == view.at = "rows" =>
             \A l \in DOMAIN view.row :
               Confirmed(l) \/ Withdrawn(l) \/ Overtaken(l) \/ Overlapped(l)
<1>1. Inv => Holds
  <2> SUFFICES ASSUME Inv, view.at = "rows", NEW l \in DOMAIN view.row,
                      ~Withdrawn(l), ~Overtaken(l), ~Overlapped(l), NEW aged \in BOOLEAN,
                      Classify(l) = "ok", ~IsStale(l, aged)
               PROVE  view.row[l].price = last[l].price
    BY DEF Confirmed
  <2>1. l \in Listing /\ view.row[l] = product[l] /\ last[l].alone
    BY DEF Inv, Grid, GridShape, NoView, Loaded, Overlapped
  <2>2. product[l].stock \notin {"out_of_stock", "unavailable"}
    BY <2>1 DEF Classify, Withdrawn
  <2>3. last[l].status = "success" /\ last[l].error = None
    BY DEF IsStale
  <2> QED
    BY <2>1, <2>2, <2>3 DEF Inv, Rows, RowIsRead
<1> HIDE DEF Holds
<1>2. Spec => []Holds
  BY <1>1, Always, PTL
<1> QED
  BY <1>2 DEF Holds

-----------------------------------------------------------------------------
(* The grid                                                                 *)

(* A set of naturals has a least element.                                   *)
LEMMA MinIsLeast ==
  ASSUME NEW S \in SUBSET Nat, S # {}
  PROVE  Min(S) \in S /\ \A y \in S : Min(S) <= y
<1> DEFINE less == {p \in Nat \X Nat : p[1] < p[2]}
<1>1. IsWellFoundedOn(less, Nat)
  BY NatLessThanWellFounded DEF OpToRel
<1>2. \A x, y \in Nat : x < y => <<x, y>> \in less
  OBVIOUS
<1> HIDE DEF less
<1>3. PICK x \in S : \A y \in S : ~(<<y, x>> \in less)
  <2>1. S \subseteq Nat /\ S # {}
    OBVIOUS
  <2> QED
    BY <1>1, <2>1, WFMin
<1>4. \A y \in S : x <= y
  <2>1. \A y \in S : y \in Nat /\ x \in Nat /\ ~(y < x)
    BY <1>2, <1>3, Zenon
  <2> QED
    BY <2>1
<1> QED
  BY <1>4 DEF Min

(* The walk over the listings in the order of their ids is well defined.    *)
Choice(carried, f, l) ==
  IF l = 0 THEN Unfilled
  ELSE IF l \in carried /\ (f[l - 1] = Unfilled \/ Prefer(l, f[l - 1])) THEN l ELSE f[l - 1]

Walks(carried, f, n) == f = [l \in 0 .. n |-> Choice(carried, f, l)]

LEMMA LongerWalk ==
  ASSUME NEW carried, NEW n \in Nat \ {0}, NEW f, Walks(carried, f, n - 1)
  PROVE  \E g : Walks(carried, g, n)
<1> DEFINE g == [l \in 0 .. n |-> IF l = n THEN Choice(carried, f, n) ELSE f[l]]
<1>1. \A l \in 0 .. (n - 1) : f[l] = Choice(carried, f, l)
  BY DEF Walks
<1>2. \A l \in 0 .. n : Choice(carried, g, l) = Choice(carried, f, l)
  <2>1. \A l \in 0 .. n : l # 0 => l - 1 \in 0 .. n /\ l - 1 # n
    OBVIOUS
  <2>2. \A l \in 0 .. n : l # 0 => g[l - 1] = f[l - 1]
    BY <2>1
  <2> HIDE DEF g
  <2> QED
    BY <2>2 DEF Choice
<1>3. \A l \in 0 .. n : g[l] = Choice(carried, f, l)
  <2>1. \A l \in 0 .. n : l # n => l \in 0 .. (n - 1)
    OBVIOUS
  <2> QED
    BY <1>1, <2>1
<1>4. g = [l \in 0 .. n |-> g[l]]
  OBVIOUS
<1> HIDE DEF g
<1>5. g = [l \in 0 .. n |-> Choice(carried, g, l)]
  BY <1>2, <1>3, <1>4
<1> QED
  BY <1>5 DEF Walks

LEMMA WalkExists ==
  ASSUME NEW carried, NEW n \in Nat
  PROVE  \E f : Walks(carried, f, n)
<1> DEFINE short == {k \in Nat : ~\E f : Walks(carried, f, k)}
<1> SUFFICES ASSUME short # {} PROVE FALSE
  OBVIOUS
<1> DEFINE k == Min(short)
<1>1. k \in short /\ \A y \in short : k <= y
  BY MinIsLeast
<1>2. k # 0
  <2> DEFINE f == [l \in 0 .. 0 |-> Unfilled]
  <2>1. Walks(carried, f, 0)
    BY DEF Walks, Choice
  <2>2. 0 \notin short
    BY <2>1
  <2> QED
    BY <1>1, <2>2
<1> HIDE DEF k
<1>3. k - 1 \in Nat /\ ~(k <= k - 1) /\ k \in Nat \ {0}
  BY <1>1, <1>2
<1>4. k - 1 \notin short
  BY <1>1, <1>3
<1>5. \E f : Walks(carried, f, k - 1)
  BY <1>3, <1>4
<1>6. \E f : Walks(carried, f, k)
  BY <1>3, <1>5, LongerWalk
<1> QED
  BY <1>1, <1>6

LEMMA OnePerStoreWalks ==
  ASSUME NEW m, NEW s
  PROVE  \E f : Walks(Carried(m, s), f, MaxListing) /\ OnePerStore(m, s) = f[MaxListing]
<1> DEFINE carried == Carried(m, s)
           chosen == CHOOSE f : f = [l \in 0 .. MaxListing |-> Choice(carried, f, l)]
<1>1. OnePerStore(m, s) = chosen[MaxListing]
  BY DEF OnePerStore, Choice
<1>2. \E f : Walks(carried, f, MaxListing)
  BY WalkExists, BoardAssumption
<1>3. Walks(carried, chosen, MaxListing)
  BY <1>2 DEF Walks
<1> QED
  BY <1>1, <1>3

(* Of the listings with a price no later one is dearer than the one chosen  *)
(* so far.                                                                  *)
Cheapest(carried, l, n) ==
  \/ l = Unfilled /\ \A k \in carried : k > n
  \/ /\ l \in carried
     /\ \A k \in carried : k <= n /\ view.row[k].price # NoPrice =>
          view.row[l].price \in 1 .. view.row[k].price

LEMMA WalkChooses ==
  ASSUME NEW carried \in SUBSET Listing, \A k \in carried : view.row[k].price \in Nat,
         NEW f, Walks(carried, f, MaxListing), NEW n \in 1 .. MaxListing,
         Cheapest(carried, f[n - 1], n - 1)
  PROVE  Cheapest(carried, f[n], n)
<1> DEFINE c == f[n - 1]
<1>1. n \in Nat \ {0} /\ n \in 0 .. MaxListing /\ n - 1 \in Nat
  BY BoardAssumption
<1>2. f[n] = IF n \in carried /\ (c = Unfilled \/ Prefer(n, c)) THEN n ELSE c
  <2>1. f[n] = Choice(carried, f, n)
    BY <1>1 DEF Walks
  <2> QED
    BY <1>1, <2>1 DEF Choice
<1>3. \A k \in carried : k \in Nat /\ (k <= n <=> k <= n - 1 \/ k = n) /\ (k > n - 1 <=> k >= n)
  BY <1>1, BoardAssumption DEF Listing
<1> HIDE DEF c
<1>4. Cheapest(carried, c, n - 1)
  BY DEF c
<1>5. CASE c = Unfilled /\ \A k \in carried : k > n - 1
  <2>1. CASE n \in carried
    <3>1. f[n] = n
      BY <1>2, <1>5, <2>1
    <3>2. \A k \in carried : k <= n => k = n
      BY <1>1, <1>3, <1>5
    <3>3. view.row[n].price # NoPrice => view.row[n].price \in 1 .. view.row[n].price
      <4>1. view.row[n].price \in Nat
        BY <2>1
      <4> QED
        BY <4>1 DEF NoPrice
    <3>4. \A k \in carried : k <= n /\ view.row[k].price # NoPrice =>
            view.row[n].price \in 1 .. view.row[k].price
      BY <3>2, <3>3
    <3> QED
      BY <2>1, <3>1, <3>4 DEF Cheapest
  <2>2. CASE n \notin carried
    <3>1. \A k \in carried : k > n
      BY <1>1, <1>3, <1>5, <2>2
    <3> QED
      BY <1>2, <1>5, <2>2, <3>1 DEF Cheapest
  <2> QED
    BY <2>1, <2>2
<1>6. CASE /\ c \in carried
           /\ \A k \in carried : k <= n - 1 /\ view.row[k].price # NoPrice =>
                view.row[c].price \in 1 .. view.row[k].price
  <2>1. c # Unfilled
    BY <1>6, BoardAssumption DEF Listing, Unfilled
  <2> DEFINE q == view.row[c].price  p(k) == view.row[k].price
  <2>2. q \in Nat /\ \A k \in carried : p(k) \in Nat
    BY <1>6
  <2>3. \A k \in carried : k <= n - 1 /\ p(k) # 0 => q \in 1 .. p(k)
    BY <1>6 DEF NoPrice
  <2>4. Prefer(n, c) <=> p(n) # 0 /\ (q = 0 \/ p(n) < q \/ (p(n) = q /\ n < c))
    BY DEF Prefer, NoPrice
  <2>5. CASE n \in carried /\ Prefer(n, c)
    <3>1. f[n] = n
      BY <1>2, <2>5
    <3>2. p(n) \in Nat /\ p(n) # 0 /\ (q = 0 \/ p(n) <= q)
      BY <2>2, <2>4, <2>5
    <3> HIDE DEF p, q
    <3>3. \A k \in carried : k <= n /\ p(k) # 0 => p(n) \in 1 .. p(k)
      BY <1>3, <2>2, <2>3, <3>2
    <3> QED
      BY <2>5, <3>1, <3>3 DEF Cheapest, NoPrice, p
  <2>6. CASE n \in carried /\ ~Prefer(n, c)
    <3>1. f[n] = c
      BY <1>2, <2>1, <2>6
    <3>2. p(n) = 0 \/ (q # 0 /\ q <= p(n))
      BY <2>2, <2>4, <2>6
    <3> HIDE DEF p, q
    <3>3. \A k \in carried : k <= n /\ p(k) # 0 => q \in 1 .. p(k)
      BY <1>3, <2>2, <2>3, <3>2
    <3> QED
      BY <1>6, <3>1, <3>3 DEF Cheapest, NoPrice, p, q
  <2>7. CASE n \notin carried
    BY <1>2, <1>3, <1>6, <2>7 DEF Cheapest
  <2> QED
    BY <2>5, <2>6, <2>7
<1> QED
  BY <1>4, <1>5, <1>6 DEF Cheapest

(* What _one_per_store shows for a shop.                                    *)
LEMMA OnePerStoreChooses ==
  ASSUME NEW m, NEW s, Carried(m, s) \subseteq Listing, Carried(m, s) # {},
         \A k \in Carried(m, s) : view.row[k].price \in Nat
  PROVE  /\ OnePerStore(m, s) \in Carried(m, s)
         /\ \A k \in Carried(m, s) : view.row[k].price # NoPrice =>
              view.row[OnePerStore(m, s)].price \in 1 .. view.row[k].price
<1> DEFINE carried == Carried(m, s)
<1>1. PICK f : Walks(carried, f, MaxListing) /\ OnePerStore(m, s) = f[MaxListing]
  BY OnePerStoreWalks
<1> HIDE DEF carried
<1>2. carried \in SUBSET Listing /\ \A k \in carried : view.row[k].price \in Nat
  BY DEF carried
<1> DEFINE wrong == {n \in 0 .. MaxListing : ~Cheapest(carried, f[n], n)}
<1>3. wrong = {}
  <2> SUFFICES ASSUME wrong # {} PROVE FALSE
    OBVIOUS
  <2> DEFINE n == Min(wrong)
  <2>1. wrong \in SUBSET Nat
    BY BoardAssumption
  <2>2. n \in wrong /\ \A y \in wrong : n <= y
    BY <2>1, MinIsLeast
  <2> HIDE DEF n
  <2>3. n \in 0 .. MaxListing /\ ~Cheapest(carried, f[n], n)
    BY <2>2
  <2>4. n # 0
    <3>1. 0 \in 0 .. MaxListing
      BY BoardAssumption
    <3>2. f[0] = Unfilled
      BY <1>1, <3>1 DEF Walks, Choice
    <3>3. \A k \in carried : k > 0
      BY <1>2, BoardAssumption DEF Listing
    <3> QED
      BY <2>3, <3>2, <3>3 DEF Cheapest
  <2>5. n \in 1 .. MaxListing /\ n - 1 \in 0 .. MaxListing /\ ~(n <= n - 1)
    BY <2>3, <2>4, BoardAssumption
  <2>6. Cheapest(carried, f[n - 1], n - 1)
    BY <2>2, <2>5
  <2> QED
    BY <1>1, <1>2, <2>3, <2>5, <2>6, WalkChooses
<1>4. Cheapest(carried, f[MaxListing], MaxListing)
  BY <1>3, BoardAssumption
<1>5. \A k \in carried : k \in Nat /\ k <= MaxListing /\ ~(k > MaxListing)
  BY <1>2, BoardAssumption DEF Listing
<1>6. carried # {}
  BY DEF carried
<1> QED
  BY <1>1, <1>4, <1>5, <1>6 DEF Cheapest, carried

(* What the squares of a loaded grid hold are listings with a price, of the *)
(* model and the shop of the square.                                        *)
LEMMA SquareChooses ==
  ASSUME GridShape, view.at = "rows", NEW m, NEW s, Carried(m, s) # {}
  PROVE  /\ OnePerStore(m, s) \in Carried(m, s)
         /\ OnePerStore(m, s) \in Listing
         /\ view.row[OnePerStore(m, s)].price \in Nat
         /\ \A k \in Carried(m, s) : view.row[k].price # NoPrice =>
              view.row[OnePerStore(m, s)].price \in 1 .. view.row[k].price
<1>1. /\ DOMAIN view.row \subseteq Listing
      /\ \A l \in DOMAIN view.row : view.row[l].price \in Nat
  BY DEF GridShape, NoView
<1>2. /\ Carried(m, s) \subseteq Listing
      /\ \A k \in Carried(m, s) : view.row[k].price \in Nat
  BY <1>1 DEF Carried
<1> QED
  BY <1>2, OnePerStoreChooses

(* The best price of a model, and of the grid, is none dearer than another. *)
LEMMA BestIsLeast ==
  ASSUME GridShape, view.at = "rows", BestOverall # NoPrice,
         NEW m \in Models, NEW l \in Priced(m)
  PROVE  BestOverall <= view.row[l].price
<1> DEFINE rows == {n \in Models : Priced(n) # {}}
           prices(n) == {view.row[k].price : k \in Priced(n)}
<1>1. \A n : \A k \in Priced(n) : view.row[k].price \in Nat
  BY SquareChooses DEF Priced, Squares
<1>2. \A n \in rows : /\ BestPrice(n) \in Nat
                      /\ \A k \in Priced(n) : BestPrice(n) <= view.row[k].price
  <2> SUFFICES ASSUME NEW n \in rows
               PROVE  /\ BestPrice(n) \in Nat
                      /\ \A k \in Priced(n) : BestPrice(n) <= view.row[k].price
    OBVIOUS
  <2>1. prices(n) \in SUBSET Nat /\ prices(n) # {}
    BY <1>1
  <2>2. Min(prices(n)) \in prices(n) /\ \A y \in prices(n) : Min(prices(n)) <= y
    BY <2>1, MinIsLeast
  <2>3. BestPrice(n) = Min(prices(n))
    BY DEF BestPrice
  <2>4. \A k \in Priced(n) : view.row[k].price \in prices(n)
    OBVIOUS
  <2> HIDE DEF prices, rows
  <2> QED
    BY <2>1, <2>2, <2>3, <2>4
<1> DEFINE best == {BestPrice(n) : n \in rows}
<1>3. m \in rows
  OBVIOUS
<1>4. BestOverall = Min(best)
  BY DEF BestOverall
<1>5. best \in SUBSET Nat /\ BestPrice(m) \in best
  BY <1>2, <1>3
<1>6. Min(best) \in best /\ \A y \in best : Min(best) <= y
  BY <1>5, MinIsLeast
<1>7. Min(best) \in Nat /\ Min(best) <= BestPrice(m)
  BY <1>5, <1>6
<1>8. BestPrice(m) \in Nat /\ BestPrice(m) <= view.row[l].price /\ view.row[l].price \in Nat
  BY <1>1, <1>2, <1>3
<1> HIDE DEF best, rows
<1> QED
  BY <1>4, <1>7, <1>8

(* Two different currencies among the prices shown are told apart.          *)
LEMMA OneCurrency ==
  ASSUME GridShape, view.at = "rows", ~Mixed,
         NEW l \in UNION {Priced(m) : m \in Models}, NEW k \in UNION {Priced(m) : m \in Models}
  PROVE  CurrencyOf[l] = CurrencyOf[k]
<1> DEFINE shown == UNION {Priced(m) : m \in Models}
           money == {CurrencyOf[j] : j \in shown}
           f == [j \in shown |-> CurrencyOf[j]]
<1>1. shown \subseteq Listing
  BY SquareChooses DEF Priced, Squares
<1>2. IsFiniteSet(shown)
  <2>1. IsFiniteSet(Listing)
    BY BoardAssumption, FS_Interval DEF Listing
  <2> HIDE DEF shown
  <2> QED
    BY <1>1, <2>1, FS_Subset
<1>3. IsFiniteSet(money)
  <2>1. f \in Surjection(shown, money)
    BY DEF Surjection
  <2> HIDE DEF f, money, shown
  <2> QED
    BY <1>2, <2>1, FS_Surjection
<1>4. Cardinality(money) \in {0, 1}
  <2>1. ~(Cardinality(money) > 1)
    BY DEF Mixed
  <2>2. Cardinality(money) \in Nat
    BY <1>3, FS_CardinalityType
  <2> HIDE DEF money
  <2> QED
    BY <2>1, <2>2
<1> DEFINE a == CurrencyOf[l]  b == CurrencyOf[k]
<1>5. a \in money /\ b \in money
  OBVIOUS
<1> HIDE DEF money, a, b
<1>6. money = {} \/ \E x : money = {x}
  <2>1. CASE Cardinality(money) = 0
    BY <1>3, <2>1, FS_EmptySet
  <2>2. CASE Cardinality(money) = 1
    BY <1>3, <2>2, FS_Singleton
  <2> QED
    BY <1>4, <2>1, <2>2
<1>7. a = b
  BY <1>5, <1>6
<1> QED
  BY <1>7 DEF a, b

(* The listing the grid shows for a shop is one the shop has of the model,  *)
(* none with a price is displaced by one without or a dearer one, and the   *)
(* best price named is the lowest shown, of one currency: with any number   *)
(* of listings, models and shops (_one_per_store, _prefer, best_overall).   *)
THEOREM CheapestIsShown == Spec => []GridShowsCheapest
<1>1. Inv => GridShowsCheapest
  <2> SUFFICES ASSUME Inv, view.at = "rows"
               PROVE  GridShowsCheapest
    BY DEF GridShowsCheapest
  <2>1. GridShape
    BY DEF Inv, Grid
  <2>2. ASSUME NEW e \in view.shelf
        PROVE  LET s == ShopOf[e[2]]
                   chosen == view.row[OnePerStore(e[1], s)]
               IN  /\ OnePerStore(e[1], s) \in Carried(e[1], s)
                   /\ view.row[e[2]].price # NoPrice =>
                        chosen.price \in 1 .. view.row[e[2]].price
    <3>1. e \in Label \X Listing /\ e[2] \in DOMAIN view.row
      BY <2>1 DEF GridShape, NoView
    <3>2. e[2] \in Carried(e[1], ShopOf[e[2]])
      <4>1. e = <<e[1], e[2]>>
        BY <3>1
      <4> QED
        BY <3>1, <4>1 DEF Carried
    <3> QED
      BY <2>1, <3>2, SquareChooses
  <2>3. \A l \in Shown : Classify(l) = "ok" => \E m \in Models : l \in Priced(m)
    BY DEF Shown, Priced, Squares
  <2>4. ASSUME BestOverall # NoPrice, NEW l \in Shown, NEW k \in Shown,
               Classify(l) = "ok", Classify(k) = "ok"
        PROVE  BestOverall <= view.row[l].price /\ CurrencyOf[l] = CurrencyOf[k]
    <3>1. PICK m \in Models : l \in Priced(m)
      BY <2>3, <2>4
    <3>2. PICK n \in Models : k \in Priced(n)
      BY <2>3, <2>4
    <3>3. ~Mixed
      BY <2>4 DEF BestOverall
    <3>4. CurrencyOf[l] = CurrencyOf[k]
      <4>1. l \in UNION {Priced(j) : j \in Models} /\ k \in UNION {Priced(j) : j \in Models}
        BY <3>1, <3>2
      <4> QED
        BY <2>1, <3>3, <4>1, OneCurrency
    <3> QED
      BY <2>1, <2>4, <3>1, <3>4, BestIsLeast
  <2> QED
    BY <2>2, <2>4 DEF GridShowsCheapest
<1> QED
  BY <1>1, Always, PTL

(* A price in the grid that is not marked as stale is what the check that   *)
(* started last read, whatever checks overlap and wherever between the two  *)
(* queries they commit, unless the listing was withdrawn, a newer check     *)
(* committed between the queries or the newest began beside another         *)
(* (_is_stale).                                                             *)
THEOREM ShownPricesAreConfirmed == Spec => []ConfirmedUnlessRaced
<1> DEFINE Every == view.at = "rows" =>
             \A l \in DOMAIN view.row :
               Confirmed(l) \/ Withdrawn(l) \/ Overtaken(l) \/ Overlapped(l)
<1>1. Inv /\ Every => ConfirmedUnlessRaced
  <2> SUFFICES ASSUME Inv, Every, view.at = "rows", NEW l \in Shown
               PROVE  Confirmed(l) \/ Withdrawn(l) \/ Overtaken(l) \/ Overlapped(l)
    BY DEF ConfirmedUnlessRaced
  <2>1. PICK c \in Squares : l = OnePerStore(c[1], c[2])
    BY DEF Shown
  <2>2. l \in Carried(c[1], c[2])
    BY <2>1, SquareChooses DEF Inv, Grid, Squares
  <2>3. l \in DOMAIN view.row
    BY <2>2 DEF Carried
  <2> QED
    BY <2>3
<1>2. Spec => []Every
  BY LoadedPricesAreConfirmed
<1> HIDE DEF Every
<1> QED
  BY <1>1, <1>2, Always, PTL

=============================================================================
