----------------------------- MODULE StoreFetch -----------------------------
(***************************************************************************)
(* What one fetch of a product page concludes: the adapters of stores/     *)
(* (amazon.py, flipkart.py, generic.py), with extraction.py, pincode.py,   *)
(* http.py and browser.py.                                                 *)
(*                                                                         *)
(* A fetch asks over HTTP, interprets the page or the failure, and, where  *)
(* that told it nothing and a browser is allowed, asks once more through   *)
(* one.  A process fetches one page at a time; the search of Discovery     *)
(* renders its pages inside a session that shares one browser.             *)
(*                                                                         *)
(* A page is what the extractors look for on it: statements (JSON-LD       *)
(* nodes, meta tags), a labelled price, and what the selectors of a store  *)
(* match.  Names and amounts are reduced to whether they can be read.      *)
(***************************************************************************)
EXTENDS Integers, Sequences, Functions, FiniteSetsExt

CONSTANTS
    GenericPages, FlipkartPages, AmazonPages  \* the pages a store may answer with

VARIABLES
    installed, \* whether playwright can be imported
    task,      \* the fetch in progress, or None
    phase,     \* how far it has come
    heard,     \* history: the last answer to it, a page or a failure
    first,     \* what the HTTP attempt concluded
    result,    \* what the fetch concluded
    session,   \* BrowserSession: none, one that holds nothing, or one that is open
    driver, chromium, \* whether the playwright driver and its browser run
    page       \* the page open in it: what it shows, the status it came with

fetchVars == <<installed, task, phase, heard, first, result, session, driver, chromium, page>>
browser == <<session, driver, chromium, page>>

None == [none |-> TRUE]

\* What is found on a page: nodes and tags with what can be read of them.
Said == [name : BOOLEAN, price : BOOLEAN, token : STRING]

ASSUME PagesAssumption ==
    /\ \A pg \in GenericPages :
         pg.ld \in Seq(Said) /\ pg.meta \in Said \cup {None} /\ pg.labelled \in BOOLEAN
    /\ \A pg \in FlipkartPages :
         /\ pg.ld \in Seq(Said)
         /\ pg.soldOut \in BOOLEAN /\ pg.price \in BOOLEAN /\ pg.name \in BOOLEAN
    /\ \A pg \in AmazonPages :
         /\ pg.wording \in SUBSET {"yes", "no"}
         /\ pg.soldOut \in BOOLEAN /\ pg.price \in BOOLEAN /\ pg.name \in BOOLEAN

Availability == {"in_stock", "out_of_stock", "unavailable", "unknown"}
Pages == [generic |-> GenericPages, flipkart |-> FlipkartPages, amazon |-> AmazonPages]

\* RULES of pincode.py: what a host does with a delivery area.
Rule(js, gated, national, flow) ==
    [js |-> js, gated |-> gated, national |-> national, flow |-> flow]
Rules(adapter) ==
    CASE adapter = "amazon"   -> {Rule(TRUE, FALSE, FALSE, TRUE)}
      [] adapter = "flipkart" -> {Rule(TRUE, FALSE, FALSE, FALSE)}
      [] OTHER -> {None, Rule(TRUE, FALSE, FALSE, FALSE), Rule(TRUE, TRUE, FALSE, FALSE),
                   Rule(FALSE, FALSE, TRUE, FALSE)}

\* resolve: the adapter that claims the host, and the area configured.
Tasks == UNION {[adapter : {a}, rule : Rules(a), allowBrowser : BOOLEAN, pincode : BOOLEAN]
                : a \in DOMAIN Pages}

-----------------------------------------------------------------------------
(* Extraction *)

\* The first of the elements of s that have these indices.
FirstAt(s, indices) == IF indices = {} THEN None ELSE s[Min(indices)]

\* _AVAILABILITY_MAP: only plain words decide; an order for later is neither.
ParseAvailability(token) ==
    CASE token = "instock"      -> "in_stock"
      [] token = "outofstock"   -> "out_of_stock"
      [] token = "discontinued" -> "unavailable"
      [] OTHER -> "unknown"  \* preorder, anything else, nothing

Statement(node) == [name |-> node.name, price |-> node.price,
                    stock |-> ParseAvailability(node.token)]
Usable(d) == d.name \/ d.price

\* from_json_ld: the first product node with a price, else the first at all.
FromJsonLd(nodes) ==
    LET usable == {i \in DOMAIN nodes : Usable(nodes[i])}
        priced == {i \in usable : nodes[i].price}
    IN FirstAt([i \in DOMAIN nodes |-> Statement(nodes[i])],
               IF priced # {} THEN priced ELSE usable)

\* from_meta_tags, from_labelled_text.
FromMeta(meta) ==
    IF meta = None THEN None ELSE IF Usable(meta) THEN Statement(meta) ELSE None
FromLabel(labelled) ==
    IF labelled THEN [name |-> TRUE, price |-> TRUE, stock |-> "unknown"] ELSE None

\* extract: a price first, then a word on stock, then a name.
Extract(pg) ==
    LET all == <<FromJsonLd(pg.ld), FromMeta(pg.meta), FromLabel(pg.labelled)>>
        found == {i \in 1 .. 3 : all[i] # None}
        priced == {i \in found : all[i].price}
        stocked == {i \in found : all[i].stock # "unknown"}
        named == {i \in found : all[i].name}
    IN FirstAt(all, IF priced # {} THEN priced
                    ELSE IF stocked # {} THEN stocked ELSE named)

\* read_availability: negative wording first, unknown wording is no verdict.
ReadAvailability(wording) ==
    IF "no" \in wording THEN "out_of_stock"
    ELSE IF "yes" \in wording THEN "in_stock" ELSE "unknown"

-----------------------------------------------------------------------------
(* Results *)

Result(outcome, availability, price) ==
    [outcome |-> outcome, availability |-> availability, price |-> price, retracts |-> FALSE]
Failed(outcome) == Result(outcome, "unknown", FALSE)
Succeeded(r) == r.outcome \in {"ok", "out_of_stock", "unavailable"}

\* escalate: what a delivery area that could not be set makes of a result.
Escalate(t, r) ==
    IF t.rule = None \/ t.rule.national THEN r
    ELSE IF t.rule.gated /\ r.availability \in {"out_of_stock", "unavailable"}
    THEN [r EXCEPT !.outcome = "needs_location", !.availability = "unknown", !.retracts = TRUE]
    ELSE IF r.outcome = "price_not_found" /\ t.pincode /\ t.rule.js
    THEN [r EXCEPT !.outcome = "needs_location"]
    ELSE r

\* GenericStoreAdapter._interpret
Generic(t, pg) ==
    LET d == Extract(pg) IN
    IF d = None THEN Failed("page_structure")
    ELSE IF d.price THEN Result("ok", d.stock, TRUE)
    ELSE IF d.stock \in {"out_of_stock", "unavailable"}
    THEN Escalate(t, Result(d.stock, d.stock, FALSE))
    ELSE Escalate(t, Result("price_not_found", d.stock, FALSE))

\* FlipkartAdapter._interpret: JSON-LD with a price, else the selectors; a
\* price without a sold-out marker is for sale.
Flipkart(t, pg) ==
    LET d == FromJsonLd(pg.ld) IN
    IF d # None /\ d.price THEN Result("ok", d.stock, TRUE)
    ELSE IF pg.soldOut THEN Result("out_of_stock", "out_of_stock", FALSE)
    ELSE IF pg.price THEN Result("ok", "in_stock", TRUE)
    ELSE IF pg.name THEN Escalate(t, Result("price_not_found", "unknown", FALSE))
    ELSE Failed("page_structure")

\* AmazonAdapter._interpret: the marker, else the wording; no price of a
\* product that cannot be bought.
Amazon(t, pg) ==
    LET stock == IF pg.soldOut THEN "out_of_stock" ELSE ReadAvailability(pg.wording) IN
    IF stock = "out_of_stock" THEN Result(stock, stock, FALSE)
    ELSE IF pg.price THEN Result("ok", stock, TRUE)
    ELSE IF pg.name THEN Escalate(t, Result("price_not_found", stock, FALSE))
    ELSE Failed("page_structure")

Interpret(t, pg) ==
    CASE t.adapter = "generic"  -> Generic(t, pg)
      [] t.adapter = "flipkart" -> Flipkart(t, pg)
      [] t.adapter = "amazon"   -> Amazon(t, pg)

-----------------------------------------------------------------------------
(* One fetch *)

Failures == {"blocked", "unavailable", "http_error", "timeout", "error"}

\* FetchSuccess and FetchFailure.
FetchSuccess(pg) == [answer |-> "page", shows |-> pg]
FetchFailure(f) == [answer |-> f, shows |-> None]

\* failure_to_result: only a listing that is gone says something of stock.
FailureToResult(f) ==
    IF f = "unavailable" THEN Result(f, "unavailable", FALSE) ELSE Failed(f)

\* Mutant: the result of the HTTP attempt is kept whole.
CombinedKept(r) == r

\* What a rendering that fails leaves of the HTTP attempt: its outcome alone.
Combined(r) == Failed(r.outcome)

FetchInit ==
    /\ installed \in BOOLEAN
    /\ phase = "idle"
    /\ task = None /\ heard = None /\ first = None /\ result = None
    /\ session = "none" /\ driver = FALSE /\ chromium = FALSE /\ page = None

StartFetch ==
    /\ phase = "idle"
    /\ task' \in Tasks
    /\ phase' = "http"
    /\ heard' = None /\ first' = None /\ result' = None
    /\ UNCHANGED <<installed, browser>>

Conclude(r) == result' = r /\ phase' = "idle"

\* fetch_product: a page that answers, or a page that does not.
HttpPage ==
    /\ phase = "http"
    /\ \E pg \in Pages[task.adapter] :
        LET r == Interpret(task, pg) IN
        /\ heard' = FetchSuccess(pg)
        /\ first' = r
        /\ IF Succeeded(r) \/ ~task.allowBrowser
           THEN Conclude(r) ELSE phase' = "render" /\ UNCHANGED result
    /\ UNCHANGED <<installed, task, browser>>

\* A block or a missing listing is an answer, and is not asked again.
HttpFails ==
    /\ phase = "http"
    /\ \E f \in Failures :
        LET r == FailureToResult(f) IN
        /\ heard' = FetchFailure(f)
        /\ first' = r
        /\ IF f \in {"blocked", "unavailable"} \/ ~task.allowBrowser
           THEN Conclude(r) ELSE phase' = "render" /\ UNCHANGED result
    /\ UNCHANGED <<installed, task, browser>>

-----------------------------------------------------------------------------
(* Rendering *)

RenderFails(f) == heard' = FetchFailure(f) /\ Conclude(Combined(first))

\* The host is not public, or there is no browser to use.
Refuse ==
    /\ phase = "render"
    /\ RenderFails("error")
    /\ UNCHANGED <<installed, task, first, browser>>

NotInstalled ==
    /\ phase = "render" /\ session # "open" /\ ~installed
    /\ RenderFails("error")
    /\ UNCHANGED <<installed, task, first, browser>>

\* A session's browser is used; without one a browser is launched for this call.
UseSession ==
    /\ phase = "render" /\ session = "open"
    /\ phase' = "load"
    /\ UNCHANGED <<installed, task, heard, first, result, browser>>

StartDriver ==
    /\ phase = "render" /\ session # "open" /\ installed
    /\ driver' = TRUE
    /\ phase' = "launch"
    /\ UNCHANGED <<installed, task, heard, first, result, session, chromium, page>>

Launch ==
    /\ phase = "launch"
    /\ chromium' = TRUE
    /\ phase' = "load"
    /\ UNCHANGED <<installed, task, heard, first, result, session, driver, page>>

\* The browser does not start; the context manager stops the driver it started.
LaunchFails ==
    /\ phase = "launch"
    /\ RenderFails("error")
    /\ driver' = FALSE
    /\ UNCHANGED <<installed, task, first, session, chromium, page>>

Load ==
    /\ phase = "load"
    /\ \E pg \in Pages[task.adapter], status \in {"ok", "blocked", "unavailable", "http_error"} :
        page' = [shows |-> pg, status |-> status, area |-> FALSE]
    /\ phase' = "localise"
    /\ UNCHANGED <<installed, task, heard, first, result, session, driver, chromium>>

\* The browser that is left once this call is done with it: a session's.
KeepBrowser == driver' = (session = "open") /\ chromium' = (session = "open")

\* new_page or goto raises, or the page went to a host that is not public.
LoadFails ==
    /\ phase \in {"load", "localise"}
    /\ \E f \in {"timeout", "error"} : RenderFails(f)
    /\ page' = None
    /\ KeepBrowser
    /\ UNCHANGED <<installed, task, first, session>>

\* _localise: the shop's own widget reloads the page for the area, or nothing
\* comes of it; the status stays that of the first response.
Localise ==
    /\ phase = "localise" /\ ~page.area
    /\ task.rule # None /\ task.rule.flow /\ task.pincode
    /\ \E pg \in Pages[task.adapter] : page' = [page EXCEPT !.shows = pg, !.area = TRUE]
    /\ UNCHANGED <<installed, task, phase, heard, first, result, session, driver, chromium>>

\* The content is read, the page and a browser of its own are closed, and the
\* answer is classified.
Read ==
    /\ phase = "localise"
    /\ IF page.status = "ok"
       THEN heard' = FetchSuccess(page.shows) /\ Conclude(Interpret(task, page.shows))
       ELSE RenderFails(page.status)
    /\ page' = None
    /\ KeepBrowser
    /\ UNCHANGED <<installed, task, first, session>>

-----------------------------------------------------------------------------
(* Sessions: a sweep of checks, or the rendered searches of a discovery *)

\* __enter__ without playwright holds nothing, and is not an error.
OpenEmpty ==
    /\ phase = "idle" /\ session = "none" /\ ~installed
    /\ session' = "empty"
    /\ UNCHANGED <<installed, task, phase, heard, first, result, driver, chromium, page>>

OpenSession ==
    /\ phase = "idle" /\ session = "none" /\ installed
    /\ driver' = TRUE
    /\ phase' = "opening"
    /\ UNCHANGED <<installed, task, heard, first, result, session, chromium, page>>

Opened ==
    /\ phase = "opening"
    /\ chromium' = TRUE
    /\ session' = "open"
    /\ phase' = "idle"
    /\ UNCHANGED <<installed, task, heard, first, result, driver, page>>

\* Mutant: the driver is left running.
OpenFailsRunning ==
    /\ phase = "opening"
    /\ phase' = "idle"
    /\ UNCHANGED <<installed, task, heard, first, result, browser>>

\* The browser does not start: the driver is stopped, and the error ends the
\* sweep or the search that wanted it.
OpenFails ==
    /\ phase = "opening"
    /\ driver' = FALSE
    /\ phase' = "idle"
    /\ UNCHANGED <<installed, task, heard, first, result, session, chromium, page>>

\* __exit__ closes both halves, whichever of them raises.
CloseSession ==
    /\ phase = "idle" /\ session # "none"
    /\ session' = "none"
    /\ driver' = FALSE /\ chromium' = FALSE
    /\ UNCHANGED <<installed, task, phase, heard, first, result, page>>

FetchNext ==
    \/ StartFetch \/ HttpPage \/ HttpFails
    \/ Refuse \/ NotInstalled \/ UseSession \/ StartDriver \/ Launch \/ LaunchFails
    \/ Load \/ LoadFails \/ Localise \/ Read
    \/ OpenEmpty \/ OpenSession \/ Opened \/ OpenFails \/ CloseSession

FetchSpec == FetchInit /\ [][FetchNext]_fetchVars

-----------------------------------------------------------------------------
(* Properties *)

\* The variables hold what the code can put there.
FetchTypeOK ==
    /\ installed \in BOOLEAN /\ driver \in BOOLEAN /\ chromium \in BOOLEAN
    /\ session \in {"none", "empty", "open"}
    /\ phase \in {"idle", "http", "render", "launch", "load", "localise", "opening"}
    /\ task = None \/ task \in Tasks
    /\ result # None => result.availability \in Availability
    /\ page # None => page.shows \in Pages[task.adapter]

\* What a page says of the stock of the product: in the statement the price
\* came from, or in the marker, the wording and the buy box of the store.
Says(t, pg, stock, price) ==
    CASE t.adapter = "generic" ->
           \E d \in Range(pg.ld) \cup {pg.meta} :
               d # None /\ ParseAvailability(d.token) = stock /\ (price => d.price)
      [] t.adapter = "flipkart" ->
           \/ \E d \in Range(pg.ld) : ParseAvailability(d.token) = stock /\ d.price /\ price
           \/ pg.soldOut /\ stock = "out_of_stock" /\ ~price
           \/ ~pg.soldOut /\ pg.price /\ price /\ stock = "in_stock"
      [] t.adapter = "amazon" ->
           \/ stock = "out_of_stock" /\ (pg.soldOut \/ "no" \in pg.wording) /\ ~price
           \/ stock = "in_stock" /\ ~pg.soldOut /\ pg.wording = {"yes"}

\* Whatever a fetch reports of the stock was said by the answer it heard last:
\* by a page, of the offer whose price is reported with it, or by a 404.  A shop
\* that has nothing to sell without an area is not quoted as sold out on a
\* listing without a price, and what a failed rendering leaves says nothing.
StockIsEvidence ==
    result # None /\ result.availability # "unknown" =>
        IF heard.answer # "page"
        THEN heard.answer = "unavailable" /\ result.availability = "unavailable"
        ELSE /\ Says(task, heard.shows, result.availability, result.price)
             /\ (task.rule # None /\ task.rule.gated /\ ~result.price) =>
                    result.availability = "in_stock"

\* A browser outlives the call that uses it only in a session, a page never:
\* however the rendering ended, nothing of it is left running.
NothingLeftOpen ==
    /\ page # None => chromium
    /\ chromium => driver
    /\ phase = "idle" =>
        /\ page = None
        /\ driver = (session = "open") /\ chromium = (session = "open")

=============================================================================
