------------------------------ MODULE Discovery ------------------------------
(***************************************************************************)
(* A search for one product at many shops: services/discovery.py, with     *)
(* services/query_policy.py and stores/search.py, sitemaps.py, robots.py.  *)
(*                                                                         *)
(* A search tries five routes in turn: the results page over HTTP, the     *)
(* same page rendered, the catalogue the shop publishes for crawlers, its  *)
(* browse listings, and at last the product pages, for prices.  A later    *)
(* route asks only the stores that the earlier ones left unanswered.       *)
(* Searches run in processes that share the catalogues cached on disk and  *)
(* the circuit breaker; each process has its own memory of robots.txt.     *)
(*                                                                         *)
(* A text is the set of its words (tokenise), a store sells one product    *)
(* that concerns the query, and its host answers a request as it likes.    *)
(***************************************************************************)
EXTENDS Integers, FiniteSets

CONSTANTS
    Stores, Searchers,
    Rank,             \* a store's place in the catalogue, KNOWN_STORES
    Rendering,        \* stores whose results may be rendered (may_render)
    Catalogued,       \* stores whose sitemap is to be read (has_sitemap)
    Browsable,        \* stores with browse listings (has_browse)
    Query,            \* the words searched for
    Exclude,          \* words whose bearers are not to be shown
    Titles,           \* the texts a shop may give its product
    Disqualifying, CategoryWords, Filler, Numbered, \* kinds of words
    RobotsTTL, CatalogueTTL, \* CACHE_TTL_SECONDS of robots.py and sitemaps.py
    CollectTime,      \* the longest that collecting one catalogue lasts
    FetchTime,        \* the longest that fetching one robots.txt lasts
    Patience,         \* the longest from is_allowed to the last page asked for:
                      \* a browser's start, a listing's first pages, a guard's wait
    BrowsePages,      \* browse_max_pages
    PriceLookups,     \* search_price_lookups
    MinWords,         \* _MIN_WORDS_WITHOUT_A_NUMBER
    Fickle,           \* the stores whose robots.txt may disallow anything
    MaxTime, MaxSearches, MaxChanges \* bounds of the model

ASSUME DiscoveryAssumption ==
    /\ {CatalogueTTL, CollectTime, FetchTime, PriceLookups, MinWords} \subseteq Nat
    /\ {RobotsTTL, BrowsePages} \subseteq Nat \ {0}
    /\ Patience \in [{"search", "listing", "page"} -> Nat]
    /\ {MaxTime, MaxSearches, MaxChanges} \subseteq Nat
    /\ UNION {Rendering, Catalogued, Browsable, Fickle} \subseteq Stores
    /\ Rank \in [Stores -> Nat]

VARIABLES
    now,
    shop,       \* each store's product: the words of its URL and of its title
    installed,  \* whether there is a browser to render with
    closed,     \* what each host's robots.txt disallows, with the time it did
    changes,    \* how often a shop changed its mind
    robots,     \* _CACHE of robots.py, one for each process
    catalogue,  \* the files of cache_dir(), shared
    stage, todo, result, \* of each search: its pass, its stores, its answers
    busy,       \* the catalogue a search collects
    reading,    \* the robots.txt it fetches, with the rules the host served
    leave,      \* what is_allowed has let it ask for, with the pages left
    found,      \* history: the stores that answered this search
    asked,      \* history: the last page this pass asked a host for, and when
    searches

world == <<shop, installed>>
memory == <<robots, catalogue>>
errands == <<busy, reading, leave>>
vars == <<now, shop, installed, closed, changes, robots, catalogue,
          stage, todo, result, busy, reading, leave, found, asked, searches>>

Paths == {"search", "listing", "page"}
NextStage == [search |-> "render", render |-> "catalogue", catalogue |-> "browse",
              browse |-> "price", price |-> "shown"]
\* The kind of page that a pass asks for.
Route == [search |-> "search", render |-> "search", browse |-> "listing", price |-> "page"]
Kinds == {"products", "listings"}
Outcomes == {"ok", "no_results", "blocked", "page_structure", "timeout",
             "error", "needs_browser", "disallowed"}
None == [none |-> TRUE]
Open == -1    \* a path that robots.txt does not disallow

-----------------------------------------------------------------------------
(* Words *)

Meaningful(words) == words \ Filler

\* refusal_reason: a query must name a product, not a kind of product.
IsSpecific(words) ==
    LET w == Meaningful(words) IN
    /\ w # {}
    /\ \/ w \cap Numbered # {}
       \/ w \ CategoryWords # {} /\ Cardinality(w) >= MinWords

\* score_title: how many of the query's words a text has, and which words
\* make it another product.
Hit(text, title, priced, derived) ==
    [matched    |-> Cardinality(Query \cap text),
     qualifiers |-> (text \cap Disqualifying) \ Query,
     title      |-> title, priced |-> priced, derived |-> derived]

Full(h) == h.matched = Cardinality(Query)
Exact(h) == Full(h) /\ h.qualifiers = {}

\* The order of Discovery.hits, best first; equals are ordered by store name.
Better(h, g) ==
    \/ h.matched > g.matched
    \/ h.matched = g.matched /\ Cardinality(h.qualifiers) < Cardinality(g.qualifiers)

Failure(outcome) == [outcome |-> outcome, hits |-> {}]
Unasked == Failure("unasked")
Answer(h) == [outcome |-> "ok", hits |-> {h}]
Succeeded(r) == r.outcome = "ok"

\* A pass takes its stores in the order of the catalogue.
Takes(p, s) == s \in todo[p] /\ \A x \in todo[p] : Rank[s] <= Rank[x]

Searched(p) == {s \in Stores : result[p][s] # Unasked}
Hits(p) == UNION {{<<s, h>> : h \in result[p][s].hits} : s \in Stores}

-----------------------------------------------------------------------------
(* What a store's routes return *)

ClosedPaths(s) == {x \in Paths : closed[s][x] # Open}

\* Mutant: an entry is trusted for good.
HeldForGood(p, s) == robots[p][s] # None

\* _load: whether the entry held for a host is still trusted.
Held(p, s) == robots[p][s] # None /\ now - robots[p][s].at < RobotsTTL

\* What a fetch of robots.txt brings; rules that cannot be read forbid nothing.
Served(s) == {[closed |-> ClosedPaths(s), readable |-> TRUE],
              [closed |-> {}, readable |-> FALSE]}

Titled(s, priced) == Hit(shop[s].title, shop[s].title, priced, FALSE)

\* ConfiguredSearch.search, once the page has been asked for.
ResultsPage(s) ==
    {Failure(o) : o \in {"blocked", "page_structure", "timeout", "error"}}
        \cup {Answer(Titled(s, priced)) : priced \in BOOLEAN}

\* SitemapSearch.search: only the words of a URL are there to be matched.
InCatalogue(s, urls) ==
    LET h == Hit(shop[s].url, shop[s].url, FALSE, TRUE) IN
    IF urls = {} THEN Failure("page_structure")
    ELSE IF "product" \in urls /\ Full(h) THEN Answer(h)
    ELSE Failure("no_results")

\* BrowseSearch._parse: only a product with all the words counts.
OnListing(s) == {h \in {Titled(s, b) : b \in BOOLEAN} : Full(h)}

\* Mutant: every store is rendered when there was no exact match.
WorthRenderingAll(p) ==
    IF \E x \in Hits(p) : Exact(x[2]) THEN {} ELSE Rendering \cap Searched(p)

\* Mutant: a catalogue is used for a day too long.
FreshTooLong(s, k) == catalogue[s][k] # None /\ now - catalogue[s][k].at <= CatalogueTTL + 1

\* What each further pass is for: _worth_rendering, _worth_cataloguing,
\* _worth_browsing.
WorthRendering(p) ==
    IF \E x \in Hits(p) : Exact(x[2]) THEN {}
    ELSE {s \in Rendering : result[p][s].outcome = "page_structure"}

WorthCataloguing(p) ==
    {s \in Catalogued : result[p][s].outcome \in
        {"disallowed", "page_structure", "blocked", "needs_browser", "no_results"}}

WorthBrowsing(p) == {s \in Searched(p) \cap Browsable : ~Succeeded(result[p][s])}

\* Whether the cached file of a catalogue still answers: _read_cache.
Fresh(s, k) == catalogue[s][k] # None /\ now - catalogue[s][k].at <= CatalogueTTL

-----------------------------------------------------------------------------
Init ==
    /\ now = 0
    /\ shop \in [Stores -> [url : Titles, title : Titles]]
    /\ installed \in BOOLEAN
    /\ \E shut \in SUBSET Fickle : closed = [s \in Stores |-> [x \in Paths |->
            IF s \in shut /\ x = "search" THEN 0 ELSE Open]]
    /\ changes = 0
    /\ robots = [p \in Searchers |-> [s \in Stores |-> None]]
    /\ catalogue = [s \in Stores |-> [k \in Kinds |-> None]]
    /\ stage = [p \in Searchers |-> "shown"]
    /\ todo = [p \in Searchers |-> {}]
    /\ busy = [p \in Searchers |-> None] /\ reading = busy /\ leave = busy
    /\ result = [p \in Searchers |-> [s \in Stores |-> Unasked]]
    /\ found = [p \in Searchers |-> {}]
    /\ asked = [p \in Searchers |-> None]
    /\ searches = 0

\* discover: the query is judged before anything is asked of a shop.
Begin(p) ==
    /\ stage[p] = "shown" /\ searches < MaxSearches
    /\ IsSpecific(Query)
    /\ \E targets \in SUBSET Stores \ {{}} : todo' = [todo EXCEPT ![p] = targets]
    /\ stage' = [stage EXCEPT ![p] = "search"]
    /\ result' = [result EXCEPT ![p] = [s \in Stores |-> Unasked]]
    /\ found' = [found EXCEPT ![p] = {}]
    /\ searches' = searches + 1
    /\ UNCHANGED <<now, world, closed, changes, memory, errands, asked>>

Idle(p) == busy[p] = None /\ reading[p] = None /\ leave[p] = None

\* A pass has its answer r from a store.  The passes over catalogues and
\* listings replace an earlier answer only by a better one.
Conclude(p, s, r) ==
    /\ result' = IF stage[p] \in {"search", "render"} \/ Succeeded(r)
                 THEN [result EXCEPT ![p][s] = r] ELSE result
    /\ found' = IF Succeeded(r) THEN [found EXCEPT ![p] = @ \cup {s}] ELSE found
    /\ todo' = [todo EXCEPT ![p] = @ \ {s}]

\* The guard turns a lookup away: no request.  What the others count towards
\* the host's circuit is StorePacing's.
Throttled(p, s) ==
    /\ Takes(p, s) /\ Idle(p) /\ stage[p] # "price"
    /\ Conclude(p, s, Failure("error"))
    /\ UNCHANGED <<now, world, closed, changes, memory, stage, errands, asked, searches>>

-----------------------------------------------------------------------------
(* Asking a host: robots.is_allowed, and then the pages *)

\* What an entry has to say of the page that the pass wants.
Decide(p, s, e) ==
    \/ /\ Route[stage[p]] \in e.closed
       /\ Conclude(p, s, Failure("disallowed"))
       /\ UNCHANGED leave
    \/ /\ Route[stage[p]] \notin e.closed
       /\ leave' = [leave EXCEPT ![p] = [store |-> s, since |-> now,
                        left |-> IF stage[p] = "browse" THEN BrowsePages ELSE 1]]
       /\ UNCHANGED <<todo, result, found>>

\* The entry in memory decides, or the host's robots.txt is fetched.
Consult(p, s) ==
    \/ /\ Held(p, s)
       /\ Decide(p, s, robots[p][s])
       /\ UNCHANGED <<reading, robots>>
    \/ /\ ~Held(p, s)
       /\ \E rules \in Served(s) :
            reading' = [reading EXCEPT ![p] = [store |-> s, since |-> now, rules |-> rules]]
       /\ UNCHANGED <<robots, leave, todo, result, found>>

\* _load stamps an entry when the fetch has returned, some time after the
\* host served it.
RulesRead(p) ==
    /\ reading[p] # None
    /\ LET s == reading[p].store  r == reading[p].rules
           e == [at |-> now, closed |-> r.closed, readable |-> r.readable] IN
       robots' = [robots EXCEPT ![p][s] = e] /\ Decide(p, s, e)
    /\ reading' = [reading EXCEPT ![p] = None]
    /\ UNCHANGED <<now, world, closed, changes, catalogue, stage, busy, asked, searches>>

\* The first two passes, over HTTP or rendered, and the prices ask first;
\* the guard's wait is before it in a pass and after it for a price.
Want(p, s) ==
    /\ Idle(p)
    /\ \/ stage[p] \in {"search", "render"} /\ Takes(p, s)
       \/ stage[p] = "price" /\ s \in todo[p]
    /\ Consult(p, s)
    /\ UNCHANGED <<now, world, closed, changes, catalogue, stage, busy, asked, searches>>

Requests(p) ==
    asked' = [asked EXCEPT ![p] =
        [store |-> leave[p].store, path |-> Route[stage[p]], at |-> now]]

GivesUp(p) == leave' = [leave EXCEPT ![p] = None]

\* _search_one: the results page over HTTP, or rendered.
SearchOne(p) ==
    /\ leave[p] # None
    /\ stage[p] = "search" \/ (stage[p] = "render" /\ installed)
    /\ Requests(p) /\ GivesUp(p)
    /\ \E r \in ResultsPage(leave[p].store) : Conclude(p, leave[p].store, r)
    /\ UNCHANGED <<now, world, closed, changes, memory, stage, busy, reading, searches>>

\* _render_pass without a browser: one store finds out for all that remain.
NoBrowser(p) ==
    /\ leave[p] # None /\ stage[p] = "render" /\ ~installed
    /\ result' = [result EXCEPT ![p] = [x \in Stores |->
            IF x \in todo[p] THEN Failure("needs_browser") ELSE @[x]]]
    /\ todo' = [todo EXCEPT ![p] = {}]
    /\ GivesUp(p)
    /\ UNCHANGED <<now, world, closed, changes, memory, stage, busy, reading, found, asked,
                   searches>>

\* BrowseSearch.search: one answer of is_allowed serves page after page of a
\* listing, up to the first with a match or the first that cannot be read.
BrowseOne(p) ==
    /\ leave[p] # None /\ stage[p] = "browse"
    /\ Requests(p)
    /\ LET s == leave[p].store  n == leave[p].left IN
       \/ /\ \/ \E h \in OnListing(s) : Conclude(p, s, Answer(h))
             \/ Conclude(p, s, Failure(IF n = BrowsePages THEN "page_structure" ELSE "no_results"))
             \/ n = 1 /\ Conclude(p, s, Failure("no_results"))
          /\ GivesUp(p)
       \/ /\ n > 1
          /\ leave' = [leave EXCEPT ![p].left = n - 1]
          /\ UNCHANGED <<todo, result, found>>
    /\ UNCHANGED <<now, world, closed, changes, memory, stage, busy, reading, searches>>

-----------------------------------------------------------------------------
(* Catalogues and listings: sitemaps.product_urls *)

KindRead(p) == IF stage[p] = "catalogue" THEN "products" ELSE "listings"

\* The pass goes on with the URLs it has, of products or of listings.
Use(p, s, urls) ==
    IF stage[p] = "catalogue"
    THEN /\ Conclude(p, s, InCatalogue(s, urls))
         /\ UNCHANGED <<robots, reading, leave>>
    ELSE IF "product" \in urls THEN Consult(p, s)
    ELSE /\ Conclude(p, s, Failure("no_results"))
         /\ UNCHANGED <<robots, reading, leave>>

ReadCache(p, s) ==
    /\ Takes(p, s) /\ stage[p] \in {"catalogue", "browse"} /\ Idle(p)
    /\ Fresh(s, KindRead(p))
    /\ Use(p, s, catalogue[s][KindRead(p)].urls)
    /\ UNCHANGED <<now, world, closed, changes, catalogue, stage, busy, asked, searches>>

StartCollecting(p, s) ==
    /\ Takes(p, s) /\ stage[p] \in {"catalogue", "browse"} /\ Idle(p)
    /\ ~Fresh(s, KindRead(p))
    /\ busy' = [busy EXCEPT ![p] = [store |-> s, since |-> now]]
    /\ UNCHANGED <<now, world, closed, changes, memory, stage, todo, result, reading, leave,
                   found, asked, searches>>

\* _write_cache stamps the file when it is written, whatever was read:
\* all of the shop's files, some of them or none.
Written(p, urls) == [at |-> now, since |-> busy[p].since, urls |-> urls]

Collected(p) ==
    /\ busy[p] # None
    /\ LET s == busy[p].store IN
       \E urls \in SUBSET {"product", "others"} :
         /\ \/ catalogue' = [catalogue EXCEPT ![s][KindRead(p)] = Written(p, urls)]
            \/ UNCHANGED catalogue  \* no file was named, or none could be written
         /\ Use(p, s, urls)
    /\ busy' = [busy EXCEPT ![p] = None]
    /\ UNCHANGED <<now, world, closed, changes, stage, asked, searches>>

-----------------------------------------------------------------------------
(* Prices *)

\* _with_prices: the pages worth a look, the best hits without a price.
Wanted(hits) ==
    LET unpriced == {x \in hits : ~x[2].priced} IN
    {W \in SUBSET unpriced :
        /\ Cardinality(W) <= PriceLookups
        /\ W = unpriced \/ Cardinality(W) = PriceLookups
        /\ \A x \in W, y \in unpriced \ W : ~Better(y[2], x[2])}

\* _without: hits that carry an excluded word are dropped.
Kept(r) == [r EXCEPT !.hits = {h \in @ : h.title \cap Exclude = {}}]

\* _price_one: a page's price, and its own title where it has one.
Priced(s, h, published) ==
    [h EXCEPT !.priced = TRUE, !.derived = ~published,
              !.title = IF published THEN shop[s].title ELSE @]

\* The guard may turn a lookup away although robots.txt does not.
PriceOne(p) ==
    /\ leave[p] # None /\ stage[p] = "price"
    /\ LET s == leave[p].store IN
       /\ todo' = [todo EXCEPT ![p] = @ \ {s}]
       /\ \/ UNCHANGED <<asked, result>>  \* throttled
          \/ Requests(p) /\ UNCHANGED result  \* no price to be had
          \/ /\ Requests(p)
             /\ \E published \in BOOLEAN :
                    result' = [result EXCEPT ![p][s].hits =
                                    {Priced(s, h, published) : h \in @}]
    /\ GivesUp(p)
    /\ UNCHANGED <<now, world, closed, changes, memory, stage, busy, reading, found, searches>>

\* The end of a pass, and the stores of the next.  The caller may forbid
\* rendering.
Advance(p) ==
    /\ todo[p] = {} /\ stage[p] # "shown"
    /\ \/ /\ stage[p] = "search"
          /\ \E targets \in {{}, WorthRendering(p)} : todo' = [todo EXCEPT ![p] = targets]
          /\ UNCHANGED result
       \/ /\ stage[p] = "render"
          /\ todo' = [todo EXCEPT ![p] = WorthCataloguing(p)]
          /\ UNCHANGED result
       \/ /\ stage[p] = "catalogue"
          /\ todo' = [todo EXCEPT ![p] = WorthBrowsing(p)]
          /\ UNCHANGED result
       \/ /\ stage[p] = "browse"
          /\ result' = [result EXCEPT ![p] = [s \in Stores |-> Kept(@[s])]]
          /\ \E W \in Wanted({x \in Hits(p) : x[2].title \cap Exclude = {}}) :
                todo' = [todo EXCEPT ![p] = {x[1] : x \in W}]
       \/ stage[p] = "price" /\ UNCHANGED <<todo, result>>
    /\ stage' = [stage EXCEPT ![p] = NextStage[@]]
    /\ asked' = [asked EXCEPT ![p] = None]
    /\ UNCHANGED <<now, world, closed, changes, memory, errands, found, searches>>

-----------------------------------------------------------------------------
(* Time, and shops that change their minds *)

ChangeRules(s) ==
    /\ changes < MaxChanges /\ s \in Fickle
    /\ changes' = changes + 1
    /\ \E x \in Paths : closed' = [closed EXCEPT ![s][x] = IF @ = Open THEN now ELSE Open]
    /\ UNCHANGED <<now, world, memory, stage, todo, result, errands, found, asked, searches>>

Tick ==
    /\ now < MaxTime
    /\ \A p \in Searchers :
        /\ busy[p] # None => now < busy[p].since + CollectTime
        /\ reading[p] # None => now < reading[p].since + FetchTime
        /\ leave[p] # None => now < leave[p].since + Patience[Route[stage[p]]]
    /\ now' = now + 1
    /\ UNCHANGED <<world, closed, changes, memory, stage, todo, result, errands, found, asked,
                   searches>>

Next ==
    \/ \E p \in Searchers :
        \/ Begin(p) \/ RulesRead(p) \/ SearchOne(p) \/ NoBrowser(p) \/ BrowseOne(p)
        \/ Collected(p) \/ PriceOne(p) \/ Advance(p)
        \/ \E s \in Stores :
            Throttled(p, s) \/ Want(p, s) \/ ReadCache(p, s) \/ StartCollecting(p, s)
    \/ \E s \in Stores : ChangeRules(s)
    \/ Tick

Spec == Init /\ [][Next]_vars

-----------------------------------------------------------------------------
(* Properties *)

\* The shape of the state.  Only a search in the passes over catalogues and
\* listings collects one, what is left of a pass was searched, and hosts are
\* asked for the stores of the pass.
TypeOK ==
    /\ now \in 0..MaxTime /\ installed \in BOOLEAN
    /\ \A p \in Searchers :
        /\ stage[p] \in DOMAIN NextStage \cup {"shown"}
        /\ \A s \in Stores :
            /\ result[p][s].outcome \in Outcomes \cup {"unasked"}
            /\ result[p][s].hits # {} => Succeeded(result[p][s])
        /\ stage[p] \notin {"search", "shown"} => todo[p] \subseteq Searched(p)
        /\ busy[p] # None => busy[p].store \in todo[p] /\ stage[p] \in {"catalogue", "browse"}
        /\ \A errand \in {reading[p], leave[p]} : errand # None =>
            errand.store \in todo[p] /\ stage[p] \in DOMAIN Route
    /\ \A s \in Stores, k \in Kinds : catalogue[s][k] # None =>
        catalogue[s][k].since <= catalogue[s][k].at /\ catalogue[s][k].at <= now

\* robots.py: a site that changes its mind is honoured.  An entry is trusted
\* for an hour after its fetch returned, and an answer is used as long as the
\* search has patience: a page that a host has disallowed for longer than the
\* hour, one fetch and that is asked for only by a process that could not
\* read the host's rules, whatever waits and pages lie in between.
RobotsHonoured ==
    [][\A p \in Searchers : asked'[p] \notin {asked[p], None} =>
        LET s == asked'[p].store  x == asked'[p].path  c == closed[s][x] IN
        c # Open /\ now - c >= RobotsTTL + FetchTime + Patience[x]
            => ~robots[p][s].readable]_vars

\* A pass never takes away what an earlier one found: the stores that
\* answered in some pass of a search are those that stand as answered.
AnswersReachTheReader ==
    \A p \in Searchers : found[p] = {s \in Stores : Succeeded(result[p][s])}

\* A catalogue is searched as the shop published it within a day and the
\* time one collection takes, although a file is stamped when it is written
\* and two processes may write one catalogue in either order.
CatalogueFresh ==
    \A s \in Stores, k \in Kinds :
        Fresh(s, k) => now - catalogue[s][k].since <= CatalogueTTL + CollectTime

\* "Never show me a refurbished one": the docstring of discover says of an
\* excluded word that it drops the hits whose title contains it.
ExcludedNeverShown ==
    \A p \in Searchers : stage[p] = "shown" =>
        \A x \in Hits(p) : x[2].title \cap Exclude = {}
=============================================================================
