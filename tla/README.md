# Product Tracker in TLA+

Product Tracker watches product pages of online shops: worker processes check each
product on a schedule, record prices and availability, evaluate the users' alert rules
and deliver notifications. Everything that several processes share lives in PostgreSQL,
and the hard behaviour of the system is in what those processes do to the same rows: who
may check a product, what a check overwrites, who sends an alert, how fast one shop may
be asked. These modules specify that behaviour, check it with TLC on small instances, and
prove its most important parts with TLAPS for instances of any size.

Paths below are relative to `src/product_tracker/` of the repository.

## 1. Inventory

| Component | State it keeps | Operations | Talks to |
|---|---|---|---|
| Check claims (`scheduler/claims.py`) | `products.check_claimed_by`, `check_claimed_at` | `claim`, `release`, the `claimed` block | jobs and sweeps run their checks inside it |
| Jobs and sweeps (`scheduler/apscheduler_queue.py`, `workers/check_worker.py`, `services/check_runner.py`) | threads, the job table, the list of a sweep | `_run_check`, `run_check`, `run_all_checks`, `retry_notifications` | claims, pipeline, delivery |
| Check pipeline (`services/tracking.py`, `change_detection.py`, `rules_engine.py`) | the product row, `price_history`, `availability_history`, `check_executions`, `tracking_rules.last_fired_at` | `check_product` and all it calls | guard, store adapters, notification recording |
| Notifications (`services/notification_service.py`, `repositories/notifications.py`) | `notifications` (dedupe key, status, attempts) | `record_all` (in the check's transaction), `deliver_pending` (in its own) | providers |
| Store pacing (`scheduler/throttle.py`) | `store_pacing`: next slot, circuit, failures per host | `before`, `after` | scheduled checks and searches |
| Sharing (`services/product_service.py`, `user_service.py`, `product_entry_service.py`) | `products`, `subscriptions`, `retailer_listings`, quotas | add, track, remove, entries: add, re-point, pause, deactivate, archive | the schedule, through `tracking_status` |
| Worker (`scheduler/runner.py`, `lock.py`, `heartbeat.py`, `jobqueue.py`) | advisory lock, heartbeat rows, the job table | start, stop, reconcile, beat, prune | the products table, by polling |
| API rate limiter (`api/ratelimit.py`) | `api_rate_limits` | `allow`, sweep | every mutating request |
| Discovery and search (`services/discovery.py`, `stores/search.py`, `sitemaps.py`, `robots.py`) | robots rules per process, catalogue files on disk | five passes over stores | guard, the network |
| Groups, variants, comparison (`services/group_service.py`, `comparison.py`) | groups, variants and links of an account | create, attach, detach, delete, load a grid | products, last checks |
| Store adapters (`stores/amazon.py`, `flipkart.py`, `generic.py`, `pincode.py`, `http.py`, `browser.py`) | a browser, perhaps shared by a session | fetch, extract, escalate a PIN code | the network |
| Accounts, provisioning, API, CLI, web interface | users, API keys | translation to service calls | services |

### What is hard, and what makes each component correct

* *Claims.* A worker may die, be slow, or lose the acknowledgement of its own commit. A
  check within its lease must be alone, nobody may free another's claim, and no claim may
  keep a product from being checked for ever.
* *Pipeline.* A check loads the product, waits for the guard and the shop, reads the
  histories and then writes from what it loaded. Histories must hold only changes, agree
  with the row, and be what the alerts talk about; cooldowns and deduplication run over
  many checks.
* *Delivery.* Passes overlap, crash between sending and marking, batch the same rows in
  different orders and deadlock. An alert must not be closed unsent, sent to somebody
  else, given up early or left waiting.
* *Pacing.* The callers share one row and each sleeps outside its transaction; the
  database's clock is that of the transaction's start. Requests must stay apart, and a
  circuit, once open, must be obeyed and must end.
* *Sharing.* Counts of subscribers and listings are read and acted upon in separate
  statements by several accounts.
* *Worker.* The schedule follows the products only through reconcile, with a lock that can
  be lost and jobs that other workers share. The job table must come to say what the
  products say, jobs must keep firing, and the heartbeats must tell when none does.
* *Rate limiter.* Many processes spend from one row, whose clocks are those of their
  transactions and which a sweep may delete. Together they must be one bucket.
* *Discovery.* A search lasts through five passes while shops change their rules and other
  searches rewrite the catalogue files. What a pass found must reach the reader, and a
  page that a shop has closed must not be asked for.
* *Store adapters.* Two attempts may contradict each other, each half of a browser may
  fail to start. A report on stock must be something a page said of that offer, and
  nothing may be left running.
* *Groups and comparison.* Two attaches of one account race without a constraint that
  spans them; a grid is put together from the rows of several queries.

`PROJECT.json` lists every hazard found at its line, with the properties that cover it.

## 2. Modules

| Module | Models | Role |
|---|---|---|
| `CheckClaims` | claims, jobs, sweeps | component |
| `MCCheckClaims` | two workers, one sweep | instances |
| `CheckPipeline` | the checks of one product | component |
| `MCCheckPipeline` | four checks, six answers of a shop, three rules | instances |
| `CheckPipelineProofs` | | theorems about `CheckPipeline` |
| `Outbox` | what becomes of an alert, whoever delivers it | abstract specification |
| `NotificationDelivery` | delivery passes over recorded alerts | component, implements `Outbox` |
| `MCNotificationDelivery` | the retry job and one check's pass, three alerts | instances |
| `NotificationDeliveryProofs` | | theorems about `NotificationDelivery`, the refinement among them |
| `StorePacing` | the shared guard of one host and its callers | component |
| `MCStorePacing` | three callers | instances |
| `ProductSharing` | subscriptions, listings, quotas, pauses and removal by several accounts | component |
| `MCProductSharing` | two accounts, one of them an admin, two URLs | instances |
| `ProductSharingProofs` | | theorems about `ProductSharing` |
| `WorkerSchedule` | worker processes, the lock, reconcile passes, the job table, heartbeats | component |
| `MCWorkerSchedule` | two workers, one product | instances |
| `SchedulerProofs` | | theorems about `CheckClaims` and `WorkerSchedule` |
| `TokenBucket` | what a rate limiter promises a client | abstract specification |
| `RateLimit` | the limiter that API processes share, a row of the database | component, implements `TokenBucket` |
| `MCRateLimit` | two processes | instances |
| `RateLimitProofs` | | theorems about `RateLimit`, the refinement among them |
| `Discovery` | searches through their five passes, robots rules, catalogue files | component |
| `MCDiscovery` | two searches, two shops | instances |
| `DiscoveryProofs` | | theorems about `Discovery` |
| `StoreFetch` | one fetch at a time, its extraction, the browser it may need | component |
| `MCStoreFetch` | every page of a few statements for three adapters | instances |
| `StoreProofs` | | theorems about `StorePacing` and `StoreFetch` |
| `Board` | groups, variants, attaches and the comparison grid | component |
| `MCBoard` | two accounts, two listings | instances |
| `BoardProofs` | | theorems about `Board` |

`SchedulerProofs` and `StoreProofs` each extend two components, which is why the names that
`WorkerSchedule` and `StoreFetch` would share with the other (`Init`, `Next`, `TypeOK`) carry
a prefix there.

The components meet at their interfaces. `CheckClaims` says which checks may overlap;
`CheckPipeline` takes that as its guard on `Begin` (claimed checks exclude each other,
unclaimed ones exclude nobody) and models what a check does. Its `Commit` leaves pending
alerts, which is where `NotificationDelivery` starts with `Record`. `StorePacing` is what
`CheckPipeline` calls in `Veto` and `Proceed`. `ProductSharing` decides which products
exist and are scheduled at all: what it calls `status` is what a sweep and the worker's
reconcile select by, and its `FinishDelete` is the `DeleteProduct` of `CheckClaims`.
`WorkerSchedule` takes that status as `want`, and a job its loops fire is a job that
`CheckClaims` sees asking for a claim. What `StoreFetch` concludes is the `Result` that
`CheckPipeline` is given by `Fetch`, and `Board` sees a check from outside: its `StartCheck`
is the `Begin` of `CheckPipeline` and its `FinishCheck` the `Commit`, as far as a grid reads
them, for checks that may all be unclaimed. `Discovery` passes the guard of
`StorePacing` before each request, and renders pages inside a session of `StoreFetch`.

### CheckClaims

`claimedBy[p]` and `age[p]` are the two columns of a product's claim; the age is kept
instead of the moment, and stops growing one past the lease, since only `age > Lease` is
ever tested. `pc`, `target` and `ran` are the threads: outside (`idle`, `sweeping`), in
the `with claimed(...)` block (`checking`), or on their way out of it (`releasing`,
`unwinding` when an exception is under way). `todo` is what is left of a sweep.

`Claimable`/`WriteClaim` are the `UPDATE ... WHERE ... RETURNING` of `_CLAIM`, one step
because the statement tests and writes the row under its lock; `WriteRelease` is
`_RELEASE`. `ClaimGranted`, `ClaimDeclined` and `ClaimError` are the three ways into the
block; the last includes the commit whose answer is lost. `Finish`, `Raise`, `Release`,
`ReleaseError` are the ways out: a job's check never raises (`check_worker.run_check`
swallows everything), a sweep's check may. `StartSweep` and `DeliverAfterSweep` frame a
sweep; an exception skips the delivery. `Crash(w)` kills a process with all its threads,
and `DeleteProduct` is the removal of a product, with its claim, while tasks are at work.

### CheckPipeline

One product, a fixed set of checks, each run once. `Begin` loads the row into `loaded` (the
ORM's copy), `Veto`/`Proceed` are the guard's answer, `Fetch` one attempt of
`_fetch_with_retry`, `Observe` the reads at the start of `_record`, `Commit` everything the
transaction writes: history rows, the row, the notifications of the matched rules and the
rules' `last_fired_at`. A rule that raises takes the alerts of all rules with it and nothing
else (`Announce`). `Flushed` is the ORM's rule that an attribute is written only if it
differs from the loaded copy. `Rollback` ends a check without any of it. `DetectPrice`,
`DetectStock`, `Matches`, `Signature`, `InCooldown` are the pure functions of
`change_detection.py` and `rules_engine.py`. Prices are small numbers, `NoPrice` is `None`,
ids order history rows. `streak` is a history variable: failed checks committed since the
last success. `ResultType` is what an adapter can answer: a price has a currency, `ok` has a
price, and only a result that needs a location retracts; otherwise outcome and availability
are independent.

### NotificationDelivery and Outbox

`row` holds the committed rows, `seen` what a pass has loaded, `draft` what it has flushed
but not committed; a flushed row is locked. A pass (`pc`, `todo`, `current`, `verdict`)
lists rows (`Start`, or `Return` when nothing is to be sent), then for each message sends
(`Send`) and marks every row of it (`Mark`), queueing (`Wait`) when another pass holds the
row, and commits. `Crash` and `Deadlock` roll it back; what was sent stays sent. A key is
a set of providers and a recipient, which is how a digest groups alerts. `copies`, `tries`
and `disturbed` are history variables: messages that went out, tries made, and the alerts
whose pass overlapped another, did not commit, or lost a provider's answer.

`Outbox` is the promise, without passes, rows or locks: an alert is posted, offered together
with others of its address, and decided; `Decide` asks for a reason (a copy went out, no
provider would take it, the tries are used up), and only an alert that is open, or that is
disturbed, is offered or decided (`Live`). `NotificationDelivery` implements it under
`Box == INSTANCE Outbox WITH standing <- Standing, to <- key, ...`, where `Standing` reads the
committed rows: pending and failed rows are open while they have attempts left, and given
up after that. What the refinement adds to the invariants is that decisions are final:
no undisturbed alert leaves `sent`, `suppressed` or given up, and none is offered again.

### StorePacing

`nextIn` and `openIn` are `next_allowed_at` and `open_until` relative to the present;
`failures` is `consecutive_failures`, counted up to the threshold. A caller begins a
transaction (`Ask`), waits for the row's lock for up to `LockWait` while its `now()` grows
stale (`timer`), decides (`RefusedOpen`, `RefusedBusy`, `Granted`), sleeps outside the
transaction, sends (`Send`), and reports in a second transaction (`Answered`, then
`ReportSuccess` or `ReportFailure`), or not at all when a search declined to count the
outcome (`Declined`). `since` is a history variable.

### ProductSharing

A URL stands for its canonical form. `row[p]` is the id of the product row a URL has (0
without one; `made[p]` counts the ids given out, so that a row deleted and created again
is another row), `status[p]` its `tracking_status`, `sub[p][u]` an account's subscription
(`none`, `watching`, `paused`), `live` the listings of product entries that are not
deactivated and `retired` the URLs a deactivated listing still references.

A request is one READ COMMITTED transaction. `job[u]` is the request of an account and
what it has read: the ids and statuses it loaded and, for a product it leaves or pauses,
which others it counted. `StartAdd`, `StartEntry`, `StartRepoint`, `StartRemove`,
`StartDeactivate`, `StartPause` and `StartSetTracking` are the checks up to the first
write (ownership, one listing per shop, quota). `Count` is the count of `remove`,
`_release` and `set_tracking`, made after the request's own subscription was deleted or
updated, whose lock it then holds. The `Finish*` actions are the remaining writes with the
commit, and `Fail` is every way to roll back. Other accounts commit between any two of
these steps.

Three details of the database carry the module. The ORM writes an attribute only where it
differs from what it loaded (`StatusAfter`). `uq_products_url_canonical` and the foreign
keys let a request commit only on the rows it saw (`SameRows`); `RESTRICT` keeps a listed
product (`Deletable`), and the cascade of a removal waits for locked subscriptions
(`SubscriptionLocked`). A removal deletes whatever subscriptions there are by then.

Which of an account's listings form an entry is left open: archiving and creating are any
set of listings with at most one per shop, more groupings than the tables allow.

### WorkerSchedule

`want[p]` is the interval at which a product should be checked and `job[p]` the interval of
its row in the job table, both 0 for none; `Edit` is whatever the API, the CLI or a check
does to the first. A worker (`life`) is off, in `setup()` or running; `loop` is the scheduler
thread APScheduler runs in it, `pass` its reconcile pass, `lock` who holds the advisory
lock, `fresh` whose heartbeat row is recent enough to count.

`Start` acquires the lock unless several workers are allowed, writes a heartbeat and reads
the products; `Stop`, `Kill` and `LoseLock` are the ways to lose it. A pass reads the
products (`BeginPass`), then the jobs (`ReadJobs`), writes what differs (`Schedule`) and
removes what is no longer wanted, looking for a job first (`LookUp`) and removing it in
another statement (`Remove`, or `RemoveTooLate` when somebody else did). An exception ends a
pass, and at setup the worker (`PassFails`). The loop takes a due job (`Fire`) and writes the
row back with its next run time (`Advance`); if the row is gone by then the exception ends
the thread while the process lives on (`Stall`). Inside one process the scheduler's lock
keeps loop and pass apart (`MayUseTable`); nothing keeps two processes apart. APScheduler is
modelled from how the code uses it. The reconcile job is a row of the table like the others,
so any worker's loop may run it.

### RateLimit and TokenBucket

`row` is the newest version of a client's bucket in `api_rate_limits`, its credit and its
age; `held` is the lock on it with the version that others still see. A call is a
transaction: `Insert` (`ON CONFLICT DO NOTHING`), `Spend` (the conditional `UPDATE`, which
waits for the row's lock and then tests the newest version), `Look` (the separate statement
that says how long to wait, whether the row had no token or was gone), `Commit`. `lag` is
how far the transaction's `now()` has fallen behind. `Sweep` deletes a stale row on behalf
of another client's call. `Fail` rolls back and lets the request through, as the code does.
Credit is counted in units of which a token has `Cost` and a second brings `Rate`, so that
nothing is rounded.

`TokenBucket` is the promise: one bucket that fills steadily, an admission takes a whole
token out of it, a refusal happens for the lack of one. `RateLimit` implements it under
`Bucket == INSTANCE TokenBucket WITH Callers <- Procs, tokens <- Tokens`, where `Tokens` is
what the committed row is worth now, and a full bucket where there is no row. The lag shows:
a late clock's admission may give back up to what refilled meanwhile, and a refusal may come
up to the lag late. That is stated in `TokenBucket` as `MaxLag`; with 0 it is the bucket of
one process.

### Discovery

A search (`stage`) goes through the passes `search`, `render`, `catalogue`, `browse` and
`price`; `todo` is what is left of a pass, `result` each store's answer so far. `Begin` is
`discover` up to its first request, `SearchOne` and `NoBrowser` the first two passes,
`ReadCache`, `StartCollecting` and `Collected` the use of a catalogue file or its
collection, `PriceOne` the look at product pages, and `Advance` what lies between passes:
which stores the next one is for (`WorthRendering`, `WorthCataloguing`, `WorthBrowsing`,
`Wanted`) and the drop of excluded words (`Kept`).

Asking a host takes several steps, between which time passes and shops change their minds.
`Want` is `is_allowed`: it decides by the entry in the process's memory (`Held`, `Decide`), or
starts to fetch robots.txt (`reading`, with the rules the host served). `RulesRead` is the
return of that fetch, and only then is the entry stamped (`robots.py:90-94`). What is allowed
is a permission (`leave`) that the pass uses later: `SearchOne` once, after the start of a
browser where it renders; `PriceOne` once, after the guard's wait
(`services/discovery.py:267-271`); `BrowseOne` for page after page of a listing
(`stores/search.py:670-682`). `FetchTime` bounds the fetch of a robots.txt and `Patience` the
time from a permission to the last page asked for under it, for each route.

`robots` is one cache per process, `catalogue` the files all share, stamped when they are
written and not when they were read (`Written`). A text is the set of its words. What the
guard decides is left to `StorePacing`: `Throttled` may happen to any
request. `ChangeRules` is a shop that changes its robots.txt.

### StoreFetch

One fetch runs through `phase`: over HTTP (`HttpPage`, `HttpFails`), and, where that told
nothing and a browser is allowed, once more rendered (`UseSession` or `StartDriver` and
`Launch`, then `Load`, `Localise`, `Read`). `driver`, `chromium` and `page` are what runs;
`session` is the `BrowserSession` that a sweep or a search may hold open. A page is what the
extractors look for: JSON-LD nodes in their order, meta tags, a labelled price, and what a
store's selectors match. `FromJsonLd`, `Extract`, `Generic`, `Flipkart`, `Amazon`,
`Escalate` and `FailureToResult` are the pure functions of the adapters over those; a choice
among statements is the first of the best (`FirstAt`). Names and amounts are reduced to
whether they can be read, and a task's `rule` is what `pincode.py` knows of its host.
`PagesAssumption` gives the pages their shape: nodes and meta tags are statements (`Said`),
the rest is there or not.

### Board

`category`, `variants` and `links` are the groups, models and attached listings of all
accounts. An attach is a transaction of a session (`asked`): `Attach` reads the listing and
the group, `AttachWrites` finds the model (`Model`: the label given, or read from the title
or the URL) and writes without committing, `AttachCommits` commits or is refused by a unique
constraint (`Refused`). Row locks make one wait for another (`Blocked`), but only where both
update the same row; the links that `_clear_links` deletes are those it can see
(`Cleared`). `overlap` is a history variable: listings that two attaches handled at once.

A check takes two steps, and any number of checks of a listing may be under way (`flight`):
the worker's and, beside it, those of the API and the CLI, which take no claim
(`api/routers/products.py:157`). `StartCheck` loads the row and takes `started_at`;
`FinishCheck` writes the columns that differ from the loaded copy (`Written`) and the
execution, in whatever order the checks come to an end. `last` is the execution that
*started* last, by which `_last_checks` ranks them (`repositories/groups.py:159`), and not the
one that committed last. Loading and stamping are one step, and no two checks have one
`started_at`: the model idealises the few instructions between the two
(`tracking.py:115-130`) and the agreement of the processes' clocks. `alone` is history:
whether another check of the listing was under way when this one started.

A grid is loaded by several queries (`ReadVariants`, `ReadListings`, `ReadChecks`; the one
for previous prices is left out), between which checks commit and groups change. The
properties evaluate the grid in the states where the last query is about to be answered,
with the checks of that moment: `OnePerStore`, `Classify`, `IsStale`, `BestPrice` and
`BestOverall` are the functions of `comparison.py`; the first walks the listings in the order
of their ids, in which the query returns them. The age of a price is a parameter, since
the reader chooses when one is stale. Previous prices and the layouts of the CLI are left
out, and so is the removal of products, which is the subject of `ProductSharing`.

## 3. Runs

All runs end within three minutes with two workers. Deadlock is checked except where the
system may really stop: in `CheckPipeline` every check runs once, in
`NotificationDelivery` there is nothing to do once every alert is settled and aged, and in
`Discovery` the searches come to an end.

| Run | Checks | Bounds |
|---|---|---|
| `claims` | `NoOverlapWithinLease`, `ReleaseOnlyOwn`, `KeepsBeingChecked`, `SweepEnds` | 2 products, 2 jobs in 2 workers, 1 sweep in a third; lease 1, checks last up to 3 (so they outlive it); 1 crash or database error |
| `pipeline` | `MeaningfulHistory`, `RowAgreesWithHistory`, `CountsFailures`, `CooldownKept`, `AlertsAreChanges` | 4 claimed checks, 2 attempts each, 6 answers, clock to 2, dedupe window 2 |
| `delivery` | `OneOutbox` (the refinement), `SentWasSent`, `NotGivenUpEarly`, `OneRecipient`, `TwiceOnlyWhenDisturbed`, `EveryAlertSettles` | 3 alerts, 2 passes, 2 attempts, 1 fault |
| `pacing` | `RequestsPaced`, `QuietSoonAfterOpening`, `HostTriedAgain` | 3 callers, gap 3 to 4, circuit at 2 failures for 6, waits up to 4, lock wait 1, 1 death |
| `sharing` | `ListingsKeepTheirProduct`, `QuotaKept`, `OthersLoseOnlyUncounted`, `UnwatchedIsQuiet` | 2 accounts (one under the quota of 1, one an admin who keeps listings), 2 URLs of one shop, 2 rows per URL; the URLs are symmetric |
| `sharing_wanted` | `WantedIsChecked` is violated | the same |
| `worker` | `StallsOnlyBesideAnother`, `FollowsProducts`, `ReadsStopped` | 2 workers, alone or allowed together; 1 product, intervals 1 and 2; 1 lost lock or database error |
| `ratelimit` | `OneBucket` (the refinement), `RetryAfterKept` | 2 processes; 2 units a second, tokens of 3, a burst of 2; swept after 3 s, transactions up to 2 s old, 1 error |
| `discovery` | `RobotsHonoured`, `AnswersReachTheReader`, `CatalogueFresh` | 2 searches, in two processes or one; one shop with results pages, rendering and listings, one with results pages, rendering and a catalogue; time to 2, robots rules kept for 1, their fetch lasts up to 1, 1 more from permission to the last page of a listing or of a price and 0 for a results page; 2 pages to a listing; catalogues kept for 0, a collection lasts up to 1; 1 price lookup, 1 change of mind |
| `discovery_excluded` | `ExcludedNeverShown` is violated | 1 search of the same shops that excludes a word |
| `fetch` | `StockIsEvidence`, `NothingLeftOpen` | every page of up to two JSON-LD nodes of six kinds, three meta tags and a label for the generic adapter, of the selectors and wordings for the other two; any number of fetches and sessions |
| `board` | `OneModelUnlessRaced`, `GridShowsCheapest`, `ConfirmedUnlessRaced`, `MovesOneAccount` | 2 accounts with one group each, 2 sessions, 2 listings of one shop in two currencies, 2 models, 2 attaches, 2 checks of seven kinds of answer, which may overlap; checks begin while at most one account has a group; accounts and sessions are symmetric |

Why the bounds are enough. *Claims*: a takeover needs one slow holder and one taker, a
wrong release a third step of the first; two products let a sweep go on past a lost one.
*Pipeline*: the longest story a property tells is appear, change, fail or retract, change
back: four checks. Window and cooldowns differ, so bucket edges and cooldown ends fall
apart. *Delivery*: two alerts of one digest and a third of another recipient, two passes
for every overlap and every lock order; one fault on top of the overlaps that need none.
*Pacing*: a caller in flight, one asleep and one deciding is the longest chain in the
guard; two failures open the circuit while the third caller sleeps. *Sharing*: every race is
between one who counts and one who comes or goes; a second row per URL is what a request
that loaded the first can meet; a quota of 1 is full and empty within one request, and
re-pointing needs two URLs of one shop. Creating an entry with both retailers at once needs
two shops; the module allows it, this instance does not exercise it. *Worker*: every
race is between two processes over one row; two intervals tell a stale write from a right
one; a further product is another row that no statement reads together with the first.
*Rate limit*: one call that spends, one that waits or sweeps; a token is neither a multiple
nor a divisor of what a second brings, so rounding shows; `Stale` is the least the
assumption allows. *Discovery*: two searches meet at one shop's caches; a search of both
shops is alone, which `Bound` says, for stores within a search are visited one after the
other. The catalogue may be read by two processes in either order while the time limit and
one collection pass. A browse listing, a fetch of the rules and a wait can each last one
moment of the two there are, which is enough for each term of the bound in `RobotsHonoured`
to matter: without `FetchTime`, or without `Patience`, TLC finds a page asked for too late.
`VIEW Relevant` drops what the future does not depend on. *Fetch*: the
choice among statements compares two, and the fetches are unbounded. *Board*: a race of
attaches needs two of one listing and account, the other account is there to be left alone;
one check before and one after the rows of a grid are read, or two that overlap, and
`ConfirmedUnlessRaced` fails on this instance when any one of its three exceptions is left
out. One column is enough for the
choice within a square; that listings of several shops are compared by the best price is
exercised through two models of one shop.

The type invariants of `NotificationDelivery`, `RateLimit`, `Discovery`, `Board`,
`WorkerSchedule` and `StoreFetch` are in none of the runs, which are spent on what could go
wrong; they are proved for all instances.

### Fairness

* `CheckClaims`: checks and releases end (the fetch has timeouts), the clock runs, a sweep
  proceeds, and each product's job is granted again and again when it is claimable again
  and again (strong fairness: the job is due every interval, and the executor's queue is
  first come first served). Nothing is assumed of crashes or errors.
* `NotificationDelivery`: a running pass goes on, a released row goes to the first in line
  (strong fairness of `Mark`), PostgreSQL ends deadlocks, and the retry job comes round
  every five minutes. Nothing promises a check's own pass.
* `StorePacing`: callers go on, time passes, and some caller asks again, since the host's
  products are due every interval.
* `WorkerSchedule`: a due job is taken by some loop and a reconcile pass comes round (weak
  fairness over all workers together, since any loop may take them), a pass goes on
  (strong: the loop takes the table away again and again), a loop that took a job writes it
  back or dies, and heartbeats age. Nothing makes a worker start, stop or crash.
* The other modules state no liveness and no fairness.

### What the violations show

Two runs find a behaviour that a comment or a document rules out; `findings` in
`PROJECT.json` quotes each.

* `sharing_wanted`: the pause of a product entry, written on the shared product row, stops
  the checks for every other subscriber.
* `discovery_excluded`: the excluded words are applied before the last pass, which may give
  a hit another title, with an excluded word in it.

### Divergences met while modelling

These were read in the code and are modelled as the code has them; no run is spent on them.

* `CHECK_CLAIM_LEASE_SECONDS` is a setting that nothing reads: the lease is the default.
* An alert that is deduplicated away starts its rule's cooldown all the same
  (`services/tracking.py:393-399`).
* A page that names its stock and no price is answered `price_not_found` with that stock
  (`stores/generic.py:134-137`, `stores/amazon.py:220`), where `docs/architecture.md:67-68` and
  `domain/models.py:62` have it unknown. It is kept out of the row and of the histories, but
  reaches the rules as `current_availability` (`services/tracking.py`, `_evaluate_rules`), so
  "back in stock" may be announced, after each cooldown, while the history says out of
  stock. It is the exception `StockWithoutPrice` in `AlertsAreChanges`, which fails without
  it.
* The checks of the API and the CLI take no claim, and two of them may append one
  observation twice.
* Delivery passes that overlap may send an alert twice; `TwiceOnlyWhenDisturbed` says that
  nothing else does.
* `NotificationStatus.SUPPRESSED` is commented as deduplicated or muted by a cooldown
  (`domain/enums.py:70`). Neither leaves a row: the only rows marked suppressed are those
  that no provider would take (`notification_service.py:159`, `:292`), as `Reason` has it.
* A circuit that is half open lets everybody through, not one probe
  (`scheduler/throttle.py:267-268`).
* The comment at `services/comparison.py:234` has a price marked that the most recent check
  did not read. Three prices are shown unmarked all the same, and are the exceptions of
  `ConfirmedUnlessRaced`, which holds with them and fails without any one of them. A listing
  the shop has withdrawn keeps its last price, the check that found it gone was a success,
  and the grid may name that price the best (`Withdrawn`). A check that commits between the
  query for the rows and the one for the checks lends its success to the price before it
  (`Overtaken`). And of two checks that overlap, the one that started first may write last,
  or write a column that the other found unchanged: the row then holds a superseded price
  beside the success of the newer execution (`Overlapped`).
* Robots rules are obeyed longer than `CACHE_TTL_SECONDS` says: an entry is stamped after its
  fetch returned (`stores/robots.py:90-94`), a price's request follows the guard's wait after
  the check (`services/discovery.py:267-271`), and all pages of a listing are asked for under
  one check (`stores/search.py:670-682`). `RobotsHonoured` has the bound that does hold.
* A rule that raises silences every rule of that check (`services/tracking.py:377-381`); the
  change it would have announced is recorded, so no later check announces it.
* `_prefer` looks at prices only, although its docstring lets the cheapest *buyable* listing
  win (`comparison.py:129-150`).
* After a blocked check, one that the guard skips makes the grid show stock again: the last
  check is the skipped one (`comparison.py:201`).
* The best price of a grid's row ignores currencies, which `cellState.ts:77-78` in the web
  interface takes the server to know about; the best of the whole grid does not.
* A page of Amazon that the browser flow has set to the delivery area may still be reported
  as needing a location (`stores/pincode.py:274-310`).
* Two racing attaches leave a listing in two models of one group
  (`services/group_service.py:196`); it is the exception in `OneModelUnlessRaced`.

## 4. Proofs

TLAPS checks every proof of the eight `*Proofs` modules to the last leaf. Each theorem holds
for any values of the constants that satisfy the assumptions the component states, and the
`ASSUME`s are evaluated by TLC on the instances. Each inductive invariant below was first
checked by TLC on the component's own instance.

**CheckClaims.** `TypeCorrect` is type correctness, with the claim's columns NULL together
and a target exactly inside the block. `LeaseExcludes` is `NoOverlapWithinLease`. It is not
inductive: that no other task is within its lease follows only from the row still naming
the task and being no older than its stay. `ClaimInv` adds that: a task within its lease on
a product that exists is named by the row and the row's age is the task's (`InLeaseOwns`),
and two tasks of one process never check the same product (`OncePerWorker`). The second
needs an assumption, `SweepsAlone`: tasks of one process are jobs of its scheduler, kept
apart by `max_instances`; a sweep shares its process with no other task. The code does not
enforce it, for `worker_identity()` is host and pid, so two sweeps requested in one API
process share an identity. `OneCheckAtATime` adds the assumption `MaxHold <= Lease`, the
comment on `DEFAULT_LEASE_SECONDS`, and concludes that no product is checked twice at once.
`ReleasesFreeOwn` is `ReleaseOnlyOwn`, an action property; it needs types only, and not
`SweepsAlone`.

**CheckPipeline.** `TypeCorrect` needs no assumption on who checks: `TypeInv` adds to
`TypeOK` the shapes of what a check holds, that no two history rows share an id, that no
more failures are counted than checks have ended, and that a history has a newest row
(`Newest`, which `Latest` needs to mean anything). The others, `RowAgrees`,
`HistoryMeaningful`, `FailuresCounted`, `CooldownsKept` and `AlertsAnnounceChanges`, state
`RowAgreesWithHistory`, `MeaningfulHistory`, `CountsFailures`, `CooldownKept` and
`AlertsAreChanges` under `AllClaimed`: every check has a claim. The worker's and the sweep's
checks take one and `CheckClaims` keeps claimed checks apart; a check from the API or the CLI
takes none, and with such a check most of them fail (see the divergences). `Undisturbed` is
why they hold: one check at a time is under way (`Alone`), so the copy it loaded is still the
row (`FreshCopy`) and what it read of the histories is still their end (`FreshReading`), and
a rule has not fired since (`FiringsKnown`). None of the four invariants is inductive without
these.

**NotificationDelivery.** `TypeCorrect`, `SentHasCopy` (`SentWasSent`), `TriesAreKept`
(`NotGivenUpEarly`), `DigestsHaveOneRecipient` (`OneRecipient`) and `SecondMessageHasCause`
(`TwiceOnlyWhenDisturbed`) hold for any alerts, passes, keys, limits and faults. `Shape` says
where a pass has what it listed: each row it still holds is in one batch to come or in the
one just sent, was due when it was listed, and is not marked yet. `Truth` carries a message
from the moment it is sent to the row: what a pass holds as the verdict of a batch
(`VerdictTrue`), as a flushed mark (`DraftTrue`) and as the attempts it read (`HandTried`) is
covered by the messages and the tries there were, whoever writes last. `Once` is what
excludes a second message: an alert that is not disturbed is in one pass only
(`UndisturbedAlone`), which found it unsent, and the one message it had is on its row or
about to be marked (`UndisturbedOnce`). `PassesAreOneOutbox` is the refinement, `Spec =>
OneOutbox`: listing an alert that others have, a crash and a deadlock are `Disturb`, a send is
`Offer`, a commit is `Decide` for all its rows at once, and marking is a stutter. That an
undisturbed alert that is offered or decided is still open needs one invariant more, that
it has attempts left on its row as long as a pass has it (`UndisturbedDue`); that each
decision has its reason is `Truth` after the commit.

**StorePacing.** `TypeCorrect`, `Paces` (`RequestsPaced`) and `OpeningQuiets`
(`QuietSoonAfterOpening`) follow from `PacedInv`. The gap between two requests is decided
when their slots are claimed and observed when their senders wake; so the invariant says
that sleepers are a gap apart less the lock wait (`SleepersApart`), that each is a gap
behind the last request sent (`SleepersBehindLast`), and that the next slot lies behind
them all (`QueueEndsBehind`) and behind the last request (`SlotBehindLast`). The slot is
kept only down to `-LockWait`, as far back as a stale clock can see. The assumptions are
those the module states: natural intervals and `LockWait < Reset`. Sleepers wake exactly on
time, in the model and so in the theorems.

**ProductSharing.** `TypeCorrect`, `ListingsSafe` (`ListingsKeepTheirProduct`),
`QuotaHolds` (`QuotaKept`), `OthersKeepSubscriptions` (`OthersLoseOnlyUncounted`) and
`LastLeaverQuiets` (`UnwatchedIsQuiet`) hold for any accounts, URLs and limit, from
`SharingAssumption` alone. `ListingsKeepTheirProduct` is not inductive: a request commits
on what it read earlier. `JobsHold` says what a request in flight may rely on (the listings
it changes are still its own, and a pause that has counted holds its subscription locked);
`IInv` joins the three. The quota is decided
when a request begins and spent when it commits; `QuotaReserved` says that what an account
watches, together with what its request will track, is within the limit. Nobody but the
account adds to its subscriptions meanwhile, which is where the proof needs one request of
an account at a time.

**RateLimit.** `AllAreOneBucket` is the refinement, `Spec => OneBucket`: every step of the
processes is a step of `TokenBucket` or a stutter, for any number of processes, any rate,
cost, burst, lag and faults. `PromiseKept` is `RetryAfterKept`. What a step maps to depends
on what the others see of the row: `HeldFor` says that whoever holds the row has inserted a
full bucket, taken a token that its own clock found there (`Spent`), or swept a bucket that
was full; `Refusing` that a refusal is right by the clock of the call, at most its lag late;
`Promised` that by the end of a Retry-After the bucket has refilled to a token. The
arithmetic (division rounded up, products with the rate) is in lemmas of its own. The
assumption that matters is `Stale * Rate >= Burst * Cost`: a bucket left alone for an hour is
full. The default settings satisfy it and nothing enforces it; a swept bucket would otherwise
come back fuller than it was.

**Discovery.** `NoAnswerLost` (`AnswersReachTheReader`), `CataloguesAreFresh`
(`CatalogueFresh`), `RobotsAreHonoured` (`RobotsHonoured`, an action property) and
`TypeCorrect`, for any stores, routes, searches and clocks. `Passing` says of each pass what
it may still overwrite (`Pending`: in the first two only what has not been answered, later
only what has been searched) and which one errand it runs, a collection, a fetch of rules or
a permission (`UnderWay`). `Stamped`
bounds the stamp of a file by the beginning of the collection that wrote it, in whatever
order two processes write. `ReadBefore` carries the rules from the host to the request: what
rules allow was disallowed, if at all, after the host served them (`Silent`), which for rules
under way is no longer ago than `FetchTime` and for an entry at most that much before its
stamp (`Remembered`), and a permission was given by an entry less than `RobotsTTL` old and is
used within `Patience` (`Allowed`). The three terms add up to the bound.

**Board.** `OneModelEach` (`OneModelUnlessRaced`), `OthersKeepTheirLinks`
(`MovesOneAccount`), `TypeCorrect` and `LoadedPricesAreConfirmed`, for any accounts,
sessions, listings and titles. An attach deletes what it saw when it wrote and inserts when
it commits; so `Clearing` says that what it is about to delete are links to its listing in
its group and all of them, unless the two have raced, `Racing` that two that are writing of
one listing and group have, and `OneModel` the conclusion without `Cardinality`. The group of
an attach under way stands (`Shelved`), because a deletion waits for those that have written
and ends those that have not. `RowIsRead` ties the row to the execution that started last: where
that was a success without error and no other check was under way when it started, the row
shows the price it read, unless the listing is withdrawn. It is not inductive: a check writes
what differs from a copy loaded long before, so `SeenIsRow` says that the newest check, while
it is under way and was alone when it started, still holds the row as it is, and `Ordered`
that checks are numbered as they start. `Loaded` carries the same into a
grid: until a newer execution stands, its rows are the ones that `RowIsRead` speaks of.
`LoadedPricesAreConfirmed` follows for every listing a grid has loaded, and
`ShownPricesAreConfirmed` (`ConfirmedUnlessRaced`) for those it shows. That these are listings
of their squares, and `CheapestIsShown` (`GridShowsCheapest`), need what the walk of
`OnePerStore` computes for any number of listings. That the walk exists is shown by the least
length for which it would not (`WalkExists`), since no induction theorem can be instantiated
here; `Cheapest` is its loop invariant, and the least step at which it would fail is refuted
in the same way (`OnePerStoreChooses`). `GridShape` says that the links a grid holds are of
listings it has loaded, and `BestIsLeast` that a minimum of minima is below every price.

**WorkerSchedule.** `LoopsDieOfACause` (`StallsOnlyBesideAnother`), `OnlyOneWorker` and
`ScheduleTypeCorrect` hold for any workers, products, intervals and faults. A loop dies when it
writes back a job that is gone, so the invariant `TakenStays` says that a job a loop has taken
stays in the table. Only a pass removes jobs, only of a worker that is up, and never while its
own loop holds the table; that no other worker is up is `HoldersWork`: without several
workers allowed and without a fault, whoever is up is the one holder of the lock
(`OneHolder`). What a pass writes leaves the job there, because it schedules only what has an
interval (`SchedulesWanted`). `OnlyOneWorker` says of the lock what the docstring of
`lock.py` does, with its condition: a lost connection is a fault.

**StoreFetch.** `BrowsersAreClosed` (`NothingLeftOpen`), `StockClaimsHaveEvidence`
(`StockIsEvidence`) and `FetchTypeCorrect` hold for any tasks, pages and failures. `OpenByPhase`
lists what is open in each phase of a fetch, with and without a session; every failure
closes what its phase had opened. `TaskByPhase` says that a fetch under way has concluded
nothing and renders a page of its own adapter, so that a verdict can be judged by the page
it was read from. The verdicts are lemmas about the adapters' pure functions: a choice among
statements is one of them (`JsonLdSays`, `ExtractSays`), and each adapter claims stock only
where the page says it (`FlipkartEvident`, `AmazonEvident`, `InterpretEvident`).

**Only model-checked.** Liveness and fairness (`KeepsBeingChecked`, `SweepEnds`,
`EveryAlertSettles`, `HostTriedAgain`, `FollowsProducts`, `ReadsStopped`), which the prover
does not handle: every other property of a passing run is a theorem. No module here
declares a recursive operator.

## 5. Not modelled, and the plan

`PROJECT.json` gives every component its status. Left out of the modelled parts: the rows
of `check_executions` (nothing in a check reads them), wording and logging, the contents of
pages; a caller's own retries of a request, which do not pass the guard again; the
in-memory `StoreGuard`; two sweeps in one process; names, audit rows and moves between
entries, the deletion of an account, and two requests of one account at the same time.

Of the newer modules: redirects and address checks of the HTTP client, the parsing of HTML
and of amounts, the scoring of titles beyond exact, near and no match, `history_service`'s
statistics, and the limiter and the guard that keep their state in memory.

Not modelled at all: accounts and authentication, provisioning and the URL and money
utilities are sequential code over one request or one string; the HTTP API and the command
line translate requests to the services modelled here; the web interface shows what the
services say; the providers of notifications are external.

Next, in this order:

1. Two requests of one account at a time, which share one quota and count it twice; the
   deletion of an account; alert rules with their quota.
2. An abstract right to check, which `CheckClaims` refines.
3. The in-memory guard and limiter as further implementations of what the shared ones
   promise.
4. Price statistics and the listing resolver of the web interface against reference
   definitions; provisioning as an idempotent import.
