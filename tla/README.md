# VibeScan: TLA+ models and proofs

VibeScan captures what unauthenticated clients see on randomly drawn public
addresses and publishes it. Agents draw addresses outside an exclusion list,
scan them and post batches of results; a collector stores them in MongoDB and
in object storage (R2), spools what MongoDB does not take, enriches hosts from
public sources and serves the read APIs; a single-page user interface browses
what is stored.

This directory holds TLA+ models of the collector, of the agent's targeting and
of the user interface, TLC configurations that check them, and TLAPS proofs
about them. Paths below are relative to `vibescan-go/`, those of the user
interface (`.ts`, `.tsx`) to `vibescan-ui/src/`.

- `tlc -workers 2 -config X.cfg M` checks a run (the pairs are listed below);
- `tlapm M_proofs.tla` checks the proofs of a module.

`PROJECT.json` maps every definition to the lines it models, names for each
property a mutation of the model that breaks it, and lists the hazards of the
code with the properties that would catch them.

## 1. Inventory

### Collector and agent

| Part | State it keeps | Operations | Talks to |
|---|---|---|---|
| Agent targeting (`internal/scanner/target.go`, `agent.go`, `client.go`) | exclusion list, time of the next refresh, the batch | `Run`, `refreshBlacklist`, `RandomBatch`, `scanOnce` | `GET /blacklist` |
| Agent capture and submission (`nmap.go`, `browser.go`, `rdap.go`, `client.go`) | the batch's host records, an RDAP cache | `scanOnce`, `Submit` | nmap, Chromium, `POST /results` |
| Ingest (`internal/collector/ingest.go`) | none of its own; one goroutine per submission | `Ingest`, `buildEntry`, `uploadCaptures`, `uploadThumb`, `persist`, `bufferOps` | MongoDB, R2, spool |
| Spool buffer (`internal/store/buffer.go`) | a directory of BSON files | `Persist`, `Run`, `flushOnce`, `listFiles` | MongoDB |
| MongoDB store (`internal/store/mongo.go`) | collections, or nil when the one ping at start-up failed | `Connect`, `Available`, `BulkUpsert` | MongoDB |
| Object storage (`internal/store/r2.go`) | one capture object per service and extension, one thumbnail | `Upload`, `UploadThumb` | R2 |
| Exclusion list (`internal/store/blacklist.go`, `internal/collector/blacklist.go`) | the collection; a cached list and its time | `SeedBlacklist`, `ReadBlacklistCIDRs`, `Get` | MongoDB, agents |
| Host enrichment (`internal/enrich`, `internal/store/enrichment.go`) | a memory cache, the enrichment collection, a summary on result documents | `Get`, the worker's `tick`, `handleEnrich`, `DenormalizeEnrichment` | MongoDB, sources |
| Read rate limiter (`internal/httpapi/ratelimit.go`) | a token bucket per client | `allow`, `janitor` | read handlers |
| Read APIs (`internal/httpapi`, `internal/store/query.go`, `stats.go`, `map.go`) | memo caches of stats and map | search, gallery, random landing, stats, map | MongoDB |
| Daily rollups (`internal/store/rollup.go`) | the snapshot of a day | `ComputeDailySnapshot`, `RunRollupWorker`, `ReadDailyRollups` | MongoDB |
| Indexes, migration, media, GeoIP, configuration, embedded web | none that changes concurrently | | |
| Deployment (`../.github/workflows/deploy.yml`) | `.env`, the running containers | the remote rollout script | docker |

### User interface

| Part | State it keeps | Operations | Talks to |
|---|---|---|---|
| Routing, history, head (`App.tsx`, `lib/meta.ts`) | the browser's entries; title, canonical address, robots | links, back, forward, replace; `useMeta` | every page |
| API client (`api.ts`) | promises of statistics, one per window, for 30 s | `api.stats` and the other calls | read APIs |
| Top bar (`components/TopBar.tsx`) | totals | one call | API client |
| Overview (`pages/Console.tsx`, `components/Viewport.tsx`) | the observation on the screen, flags, totals | acquire, the automatic draw | API client |
| Feed (`pages/Feed.tsx`) | listing, offset, tiles, flags | switch, more, retry, group | gallery API |
| Search (`pages/Search.tsx`, `lib/searchGrouping.ts`) | text, nine filters, page, tiles, totals | type, debounce, filter, reset, more, retry | search API, the address |
| Record (`pages/Signal.tsx`, `components/CrossReference.tsx`) | the record, the host's facts, the copy label | fetch, fetch of the host, copy | record and enrichment APIs |
| Map (`pages/MapExplorer.tsx`, `components/ObservationMap.tsx`, `InteractiveWorldMap.tsx`, `lib/worldLand.ts`) | points, legend, focus, selection, list, scale; the shared outline | layer, window, toggles, activation, zoom | map API, the address |
| Statistics (`pages/Stats.tsx`, `components/TimeSeries.tsx`) | window, answer, trend, pointer | window, retry, density, pointing | API client, trend API |
| External-host notice (`pages/ExternalHost.tsx`) | none | | the head |
| Static pages, site build | none | | |

### What is hard

- **Concurrency.** Handlers of one service overlap in uploads and upserts;
  handlers and the flush loop share the spool directory; worker and viewers look
  one host up at once; `allow` reads the clock before it takes its lock; the list
  is served while it is being seeded. In the browser, calls overlap: an answer
  may come for a listing, a window or a record that is no longer asked for, or
  for a page that is no longer mounted.
- **Failure.** MongoDB may apply part of a bulk write, fail for a while, or be
  away when the collector starts; an upload may fail after the object was
  written; the disk may refuse a write; the process may stop between any two
  steps; a viewer may leave in the middle of a lookup; any call of a page may
  fail and be retried.
- **Staleness.** Lists, records and buckets are cached on both sides with
  unaligned times; `$set` merges leave fields of earlier observations; the client
  shares promises between pages; the address, the state and the screen of a page
  are three copies of one query.
- **Numbers at an edge.** Lists that the server cuts at different rows are divided
  by one another; paging counts rows; titles are cut twice; markers share a cell.

## 2. Modules

Every step of a model is the code between two points at which another goroutine,
the process's death or an external service can be noticed. Where a module keeps a
`pc`, its value names the call the goroutine is about to make.

### IngestSpool, DurableDelivery

A submission's way from `Ingest` to MongoDB or the spool, with the flush loop and
restarts. One op is a pair of service and submission. `pc`, `todo`, `spool`,
`name` and `done` are the locals of `persist`, `bufferOps` and `Persist`;
`files` and `tmp` are the spool directory, indexed by the millisecond in a file's
name (the process id in it is 1 in the container, in every incarnation); `fpc`,
`fpath` and `fops` are the locals of `flushOnce`. `SpoolChunk` and `UpsertChunk`
are the two branches of `persist`, `PersistWrite`/`PersistRename` the two file
operations of `Persist`, `FlushRead` … `FlushRename` the steps of `flushOnce`.
`Outcome` is `BulkUpsert`: with MongoDB up, everything but refused documents is
taken and the answer is true; during an outage any part may be taken and more may
be reported failed. `Start` is `Connect`: one ping decides for the life of the
process. `applied` and `acked` are history.

`DurableDelivery` is what the write path promises: an op is held or delivered, an
acknowledged op is one of the two, and a held op is let go only after delivery.
`IngestSpool` implements it with `held` the union of the spool files.

### ServiceRecord

The document, the capture object and the thumbnail of one (ip, port), with
overlapping submissions, failed and half-failed uploads, replays and stops. The
fields `buildEntry` always sets are represented by the submission they come from;
those it sets under a condition are kept apart, because `$set` leaves them when a
later submission lacks them. `Upload`, `UploadFails`, `UploadThumb`,
`UploadThumbFails` and `Persist` are the calls of one handler; `Cleared` is what
`uploadCaptures` takes back after a failure; `Set` is the merge in MongoDB.
`HasCapture` and `Preferred` are what the read side filters by.

### Blacklist

The exclusion list from operators' edits through MongoDB, the seeding goroutine,
the collector's one-hour cache and its fallbacks, to each agent's list and
batches. CIDRs are disjoint and stand for an address in them; `lifted` records
the opt-outs an operator took back. `BlacklistCache.Get` is `GetCached` (the
cache is fresh) or, with its mutex held from the one to the other, `GetReads`
(MongoDB answers) and `GetReturns` (the cache is stamped with the time of that
moment, not of the answer). A request whose agent has left may still be at the
mutex, and its read (`LateRead`) refreshes the cache for nobody. `Fetch`,
`Refreshed`, `RefreshFails` and `DrawBatch` are the two halves of
`refreshBlacklist` followed by `RandomBatch`, which is part of the step because
nothing happens between them.

### Enrichment

One host: `Enricher.Get` for the worker (shallow) and for viewers (deep), with
the memory cache, the enrichment collection and the summary that each caller
then writes on the host's documents. The actions `Get`, `Read`, `Lookup`, `Store`
and `Summarize` are the code between the calls to MongoDB and to the sources.
`LeavesLookup` is a viewer who closes the page during the lookup: every call
fails from then on, yet `Get` runs to its end and memory takes the record.
`Merge` is the `$set` of a record with `omitempty` fields. A feed's answer is
kept as its grade in `computeVerdict` (absent, nothing, weak, strong); which
numbers lead to which grade is left out.

### RateLimiter

The token bucket of each client and the janitor, with the instant of `time.Now()`
and the lock as separate steps, so stamps may arrive out of order. Tokens are
integers: a call costs `Cost`, a unit of time refills `Rate`.

### The user interface: History and the page modules

JavaScript runs one thing at a time, so a step is a browser event (a click, a
timer, an answer) with the render it causes, the effects of that render and the
renders those cause in turn. An answer is computed from the store in the step
that delivers it: nothing the browser does could tell it from one computed when
the call reached the server.

Every page follows one pattern. The React state is a record (`feed`, `search`,
`map`, `record`, `stats`, `console`), and the calls in flight are a set beside
it. A call carries what it was asked for and whether its answer still counts
(`alive`, the `cancelled` flag of the effect that made it); `Superseded` is the
effect's cleanup. So a late, reordered or lost answer is a member of the set
taken in any order, or never. The expressions the page renders from are
operators (`FeedView`, `SearchFoot`, `RecordView`, `StatsView`, `Screen`), and
the properties speak of those.

- `History`: the entries of the browser and what a link (`Push`), a jump (`Jump`)
  and a replaced address (`Rewrite`) do to them.
- `Listing`, `FeedPage`, `SearchPage`, composed in `Listings`: the store as the
  read API pages it, the two listing pages, and the history that mounts and
  unmounts them. Two entries of the search page share one component: it stays
  mounted between them. `Land` is a rescan that moves rows while the site is open.
  The feed's two listings are different things (`store/query.go`): the newest
  captures, in one order, and the gallery, which keeps of each /24 the service
  that ranks first and sorts without ending in the key. Services stored at one
  time (a submission's share one `now`, `ingest.go:111`) and of one rank are in
  any order, chosen anew for each page read (`FeedLists`).
- `MapPage`, `RecordPage`, `PageHead`, composed in `Explore`: the map, the record
  page and the notice before a host's own site, under one history, with the
  world's outline (`WorldLand`) that the maps share and the document's head.
  A map that failed before it had any points has no zoomable map on the screen:
  whatever clears the error, a retry or another layer, by a control, a link or a
  jump, mounts one, which asks for the outline again (`Ask`).
  `RecordPage` takes the lists of the cross-reference from `XrefLists`, which
  also holds what the server did to them (`enrich/threat.go`).
- `StatsClient`, `StatsPage`, `Console`, composed in `Overview`: the client's cache
  of promises with the pages and the top bar that wait on them. A cache entry
  and a fetch are separate, as promise and request are: a failed fetch deletes the
  window's entry whatever it is now. `StatsTables` is the server's aggregates
  (`store/stats.go`) and the page's tables from them, with sums of counts as the
  number of things counted; `TrendChart` is `ReadDailyRollups` and the chart of
  the trend.
- `Ordered`: sorting and filtering said by what comes out (`Arranged`: the k-th is
  the one that k - 1 others come before), which the listings, the cards, the
  cross-reference, the rankings and the trend share. The library's
  `SetToSortSeq` and `SelectSeq` give the same lists, but nothing can be proved
  of them.
- `LatestAnswer`: what a page that fetches promises, whatever it fetches: nothing
  stands under a topic but the answer for it, and a change of topic takes it away
  at once. `RecordPage` and `StatsPage` implement it (`RecordLatest`,
  `StatsLatest`), with the topic the record's address and the window.

### MC modules and `_proofs` modules

`MCx` gives the constants of `x` for TLC; `x_proofs` holds the theorems of `x`.

## 3. Runs

| Run | Module, cfg | Question |
|---|---|---|
| write_path | MCIngestSpool | Is anything acknowledged ever lost? Does the write path implement `DurableDelivery`? |
| spool_restart | MCIngestSpool, `_restart` | Do handlers end and does the spool drain, through a crash, an outage and a disk that refuses writes? |
| startup_outage (violation) | MCIngestSpool, `_startup` | Is the spool flushed whenever MongoDB comes back? |
| rate_limit | MCRateLimiter | Do reordered stamps or the janitor give tokens away, or starve a quiet client? |
| record | MCServiceRecord | Do uploads, merges and replays leave a document without its object, with an anonymous submitter, or with an image it should not hold? |
| exclusion | MCBlacklist | From an empty collection: how soon is an exclusion, an opt-out or a row of the seed, honoured? |
| exclusion_seeded | MCBlacklist, `_seeded` | From a seeded one: reserved ranges, and opt-outs through an outage |
| enrichment | MCEnrichment | Where verdicts come from, how old a summary may be, how often the worker looks up |
| listings | MCListings | Do the feed and the search page show what they name, and does the address restore the query? |
| search_back (violation) | MCListings, `_back` | Does going back restore the query an entry cites? |
| explore | MCExplore | Do the map, the record page and the document's head keep to the address, can every marker be reached, is everything on file told? |
| overview | MCOverview | Do cache, pages and overlapping draws always end, with tables and charts that are true of what is stored? |

### What the properties say

Collector and agent:

- `AckedDurable`: what a 200 counted as stored or buffered is in MongoDB or in a
  spool file, between any two steps.
- `SpoolLeavesByApply`, `ImplementsDurable`: a partial flush, a failed rewrite or
  a crash between `BulkUpsert` and `Remove` repeats a write and never skips one.
- `SpoolDrainsConnected`, `EveryRequestAnswered`: liveness, see fairness below.
- `NoDanglingReference`, `AnonymityKept`, `CaptureHonest`: what may be in any
  document that is or will be stored. `CaptureHonest` says that with uploads on
  and the fallback off no image is stored inline, and that a record whose landing
  image is its own submission's has the capture it shows.
- `ReservedNeverScanned`: no batch holds an address of a reserved range.
- `ExclusionHonored`: with MongoDB up and refreshes answered, an exclusion in force
  is in no batch drawn `ReadTime + 2 * TTL + Timeout` after it was entered: a read
  that MongoDB answered just before and that was stamped only when it came back,
  one hour in the collector's cache, the answer under way, and one hour on the
  agent's schedule. `ReadTime` is a constant of its own because the code sets no
  limit to a read: the request's context, which an agent that waits holds open
  for its `Timeout` at most, is the only one. It speaks of rows of the seed too,
  which the list lacks while the collection is being seeded. The published
  promise is two days.
- `OptOutOutlivesOutage`: outages and failed refreshes lose no opt-out as long as
  the collector is not restarted.
- `WindowBound`, `QuietClientAdmitted`: the limit holds in every window up to one
  wait for the lock, whatever the janitor drops; a client that paused is admitted.
- `VerdictCorroborated`: a malicious verdict anywhere comes from a lookup with two
  strong rows, also after merges of different lookups.
- `StampHonest`: `enriched_at` is less than a TTL and one lookup after the fetch.
- `LookupsSpaced`: while MongoDB works and the collector runs, the worker does
  not look a host up again before the TTL (less the time one call may take).

User interface:

- `FeedShowsListing`, `SearchShowsQuery`: the tiles, totals and offers of more are
  those of the listing or query in the controls, from the top and without a gap;
  "No matching observations" is said only of a query that matches nothing. Every
  row stands where its listing may have it: the search and the newest captures
  have one order, so no row is repeated or missed, while across a tie of the
  gallery two pages may repeat one and miss another. They except a row that moved
  since the first page (`shifted`): the API pages by offset, so a rescan between
  two pages repeats a row.
- `URLRestores`: a page mounted on the current address asks for the same query.
- `CardsHonest`: every service read is on exactly one card, under its own host,
  and, unless a tie made the feed read one twice, the count of grouped services is
  that of the port chips.
- `MapShowsLayer`, `SelectionVisible`, `RecordIsRequested`, `HeadInSync`: what is
  drawn, selected, told or announced is of the address, not of an earlier one.
- `ActivationProgress`: whatever is drawn, activating a marker would select it,
  list it or zoom in, and the scale is bounded, so every host can be reached.
- `LandOnce`: one download for all maps, also for one that mounts again after an
  error, and no map that waits for none.
- `XrefHonest`: every fact on file that is not hidden on purpose is told, and the
  two lists add up over both cuts.
- `CacheServes`, `StatsHonest`: a promise handed out has an answer or one to come;
  a page that loads has its fetch, and one that does not shows tables or an error.
- `RetryReachesServer`: a retry asks the server and is not served the failure.
- `TablesTrue`, `TrendTrue`: rates, densities, highlights and the trend against the
  tallies and snapshots stored: bases under the minimum are not rated, no rate
  exceeds 100 unless its product was cut, the point a reader picks is the nearest
  one, under its own day. `RatesTrue` quantifies over every network stored: one
  with a higher rate than a ranked one is passed over only if as many others as
  the API lists have as many hosts, or as many flagged hosts.
- `ScreenHonest`, `ObservationStays`: the viewport is never blank or stuck, and an
  observation gives way only to another.
- `RecordLatest`, `StatsLatest`: the refinements of `LatestAnswer`.
- `ListingsSettle`, `ExploreSettles`, `OverviewSettles`: nothing that is shown as
  loading stays so, and no "Copied" label does. The feed, the search, the map and
  the record give a call up when another is asked for, so the first two properties
  except a reader who goes on asking for something else for ever; without that
  exception TLC finds such a reader. The overview and the statistics need none:
  draws are not cancelled, and a window gone back to has the promise it had.

The type invariants (`TypeOK` of each specification) are in no run: each is proved
as a theorem, for every value of the constants (section 4).

### Bounds, and why they are enough

- *write_path*: a submission with two services and another with one of them
  (races on a service, partial bulk writes), one without a valid service, a
  document that is always refused, three instants, one crash, one outage. A lost
  op needs one failed chunk and one flush or crash between two file operations.
  Batches hold two ops, and the theorem is for every batch size.
- *spool_restart*: the same two submissions, no refused document (it would block
  the spool, see section 5), a disk that may refuse any write.
- *rate_limit*: two calls of one client suffice for reordered stamps (buckets are
  independent); a burst of one call and a half, a pause of five units and a clock
  of nine let a bucket be spent, be dropped and start again. `Burst <= Rate * (Idle -
  2 * MaxLag)` holds, as it does for the defaults (burst 20, rate 10/s, 300 s).
- *record*: three submissions: two captures with different keys and one without,
  one of them anonymous, one with a certificate name, one crash. Everything a
  document can lack or keep is there.
- *exclusion*, *exclusion_seeded*: one agent (agents share only the cache and do
  not write it except by `Get`), two seeded ranges of which one is guarded, one
  opt-out, one edit (three from the seeded collection: entered, lifted, entered
  again), crash and restart; the clock covers a read, two TTLs and a timeout. The
  first has no outage and no failed refresh, since `ExclusionHonored` is of
  behaviours without; the second has one of each.
- *enrichment*: one viewer and the worker, two services (one captured before,
  one after a lookup), two feeds, TTL 2, threat TTL 1, one failed call or crash.
- *listings*: two services of one host with the same capture, one of another /24
  stored at the time of one of them (a tie of the gallery, and a /24 with two) and
  one without a capture; pages of one row, so that four pages are read; a text that needs trimming, a
  filter, an order and a grouping, a link with a value the control does not have;
  one rescan, two entries, two calls in flight (the one that counts and one
  overtaken: a third would be overtaken too).
- *explore*: two hosts that share a cell at every scale and one that leaves it at
  scale 2, two layers, two records of different hosts, a fact of every section
  alone and the mixes that meet in one section, more titles than the server and
  than the page keep; two entries, two calls of a page. `MAX_ZOOM` is 3 instead
  of 8: three steps of zoom instead of six.
- *overview*: two windows with a tally each, bases on both sides of every minimum,
  a tie of rates, more networks and more flagged ones than the API keeps, the one
  cut with the highest rate of all, a product of two banners of which one is cut; trends too short to be charted, exact, and longer
  than asked for, with a gap; two fetches and two draws at once.
- Every bound is a `Max...` constant. `Tick` of `IngestSpool` leaves an instant
  only after something read it, so `MaxClock` bounds readings, not waiting.

`CHECK_DEADLOCK FALSE` stands in the runs of `IngestSpool` and `ServiceRecord`:
once every submission has ended, nothing is spooled and the bounds are used up,
nothing is left to do.

### Fairness

`IngestSpool`'s `FairSpec` assumes weak fairness of each handler (a goroutine is
scheduled, and its calls return), of the flush loop (a ticker of 15 seconds calls
`flushOnce` for ever), of the start of a dead process (`restart: unless-stopped`
in `deploy/docker-compose.yml`, which also keeps the spool directory on a volume,
so that its files survive) and of the clock. Nothing makes MongoDB come back: the
properties that need it say `<>[]dbUp`.

The pages assume that a fetch ends with an answer or an error, since the browser
gives up on a dead connection; which of the two is left open. In `Listings` and
`Explore`, where one call is given up for the next, weak fairness is of
`FeedOver`, `SearchOver`, `MapOver` and `RecordOver`: the call whose answer counts
ends or is given up. A call given up has met its obligation, so the debt of one
call is not passed to the next, and a reader who switches faster than answers
come may never see one. In `Overview` weak fairness is of the end of an awaited
fetch and of the draws: a draw is never cancelled, and a fetch goes on when its
window is left, so that whoever comes back finds its answer or awaits it still.
`Explore` adds the timer of the
copied label. Nothing is assumed of the reader, of rescans, of the clipboard, of
the expiry of the cache, or of a call whose answer is ignored. No strong fairness
is used.

## 4. What is proved

All theorems hold for every value of the constants that satisfies the named
assumptions of the module; any further condition is given here.

| Module | Theorem | Statement |
|---|---|---|
| each `_proofs` module | `TypeCorrect` | `Spec => []TypeOK` |
| `IngestSpool_proofs` | `AckedNeverLost` | `[]AckedDurable`, if Persist calls do not share a millisecond (`UniqueNames`) and the disk takes every write (`~DiskFails`) |
| | `WritePathImplementsDurable` | the same conditions: `Spec => ImplementsDurable` |
| | `SpoolKeepsUndelivered` | `Spec => SpoolLeavesByApply`, if names do not collide (`UniqueNames`), on any disk |
| `RateLimiter_proofs` | `RateLimited` | `[]WindowBound`, if `Burst <= Rate * (Idle - 2 * MaxLag)` |
| | `QuietNeverStarved` | `Spec => QuietClientAdmitted`, if a full bucket admits a call (`Cost <= Burst`) |
| `ServiceRecord_proofs` | `NothingDangles`, `AnonymousStaysAnonymous`, `CapturesHonest` | the three invariants of `record` |
| `Blacklist_proofs` | `ExclusionsHonored` | `[]ExclusionHonored` |
| | `ReservedSafe` | `[]ReservedNeverScanned`, if the collection starts with the whole seed |
| | `OptOutsStay` | `Spec => OptOutOutlivesOutage` |
| `Enrichment_proofs` | `MaliciousCorroborated`, `StampsHonest` | `[]VerdictCorroborated`; `[]StampHonest` |
| | `LookupsApart` | `Spec => LookupsSpaced` |
| `Listings_proofs` | `URLsRestore` | `[]URLRestores` |
| | `FeedShows`, `SearchShows`, `CardsTrue` | `[]FeedShowsListing`; `[]SearchShowsQuery`; `[]CardsHonest` |
| | `LiveCallsCurrent` | `[]LiveCalls`: a call that counts is for what the open page shows as loading |
| `Explore_proofs` | `LayerShown`, `SelectionsVisible`, `OneDownload`, `RecordRequested`, `HeadFollows` | `MapShowsLayer`, `SelectionVisible`, `LandOnce`, `RecordIsRequested`, `HeadInSync`, always |
| | `MarkersReached`, `XrefTrue` | `[]ActivationProgress`; `[]XrefHonest` |
| | `RecordImplements` | `Spec => RecordLatest` |
| `Overview_proofs` | `CacheIsServing`, `StatsIsHonest`, `ViewportIsHonest` | `CacheServes`, `StatsHonest`, `ScreenHonest`, always |
| | `TrendIsTrue`, `TablesAreTrue` | `[]TrendTrue`; `[]TablesTrue` |
| | `RetryFetches`, `ObservationsStay` | `Spec => RetryReachesServer`; `Spec => ObservationStays` |
| | `StatsImplements` | `Spec => StatsLatest` |

The inductive invariants:

- **AckedNeverLost.** `AckedDurable` is not inductive: a handler has counted ops
  before it answers, and between a write and its rename the ops are in memory and
  in a temporary file only. `IInv` adds that counted ops are safe (`DoneSafe`),
  that a handler about to rename owns its temporary file and that no file has its
  name yet (`OwnTmp`, `DistinctNames`, `NamesFresh`), and that the flush loop
  cuts its file only down to what MongoDB lacks (`FlushSafe`).
- **SpoolKeepsUndelivered.** The part of that invariant which speaks of files and
  names only (`DiskInv`) is inductive on its own, so what is in the spool stays
  also on a disk that refuses writes, where `AckedDurable` fails.
- **RateLimited.** What a client was admitted was paid from one burst and the
  refill of the window (`Paid`). A late stamp can leave a bucket in debt, so the
  invariant bounds the debt by the refill since a later stamp (`Solvent`); that
  is what makes it safe to drop an idle bucket. The bound on the debt alone
  (`DebtInv`) holds whatever the janitor's idle time and carries
  `QuietNeverStarved`.
- **ServiceRecord.** `IInv` says of every delivered document which parts come
  from its own submission and that objects, once there, stay.
- **ExclusionsHonored.** The age of an exclusion that a list lacks is bounded place
  by place: `ReadAge` (what MongoDB has answered, at most `ReadTime` ago),
  `CacheAge` (stamped up to that much later), `AnswerAge`, `ListAge`, `BatchAge`.
  `Healthy` (who is connected, what lies in the past) ties them to the clock,
  while nothing has been disturbed.
- **OptOutsStay.** Once an agent knows an opt-out, the collector's cache holds it,
  and so do a read and each answer on their way (`Kept`); that a failed read falls back on
  the last good list keeps it so, until the list is edited or the process dies.
- **StampsHonest.** `Timely` bounds the age of each call's record by its step:
  less than a TTL from a cache, nothing from a lookup, at most `Lag` in transit.
  `LookupsApart` adds that the stored record is no older than the worker's last
  lookup less one `Lag` (`SpacedInv`), since a viewer's older call may still write.
- **The pages.** What is on a screen says nothing of the answers to come, so each
  invariant adds that a call which still counts is for what the mounted page now
  asks, and that no call counts for a page that is not mounted (`LiveCalls`,
  `MapInv`, `RecordInv`). The rest is the effects: each supersedes before it asks.
- **URLsRestore.** The address is rewritten in the step that changes the query, so
  the invariant is that it *is* the one the page would write (`Here =
  Cited(search)`); what makes it restore the query is the round trip of seeding
  and writing (`URLRoundTrip`), which needs that every filter is one the seeding
  would accept again (`Kept`) and that the text is trimmed.
- **CacheIsServing.** A pending promise has its fetch, fetches have different
  numbers, and the number of a new one is free (by counting: there are more
  numbers than fetches). Without the first two, a fetch that fails could delete
  a promise other than its own and leave its waiters without an answer.
- **FeedShows, SearchShows.** As long as no row moved, each of the feed's tiles is
  the row of its place in some order of the listing, and a query's tiles are a
  prefix of its rows; nothing but an answer that counts may extend them, and they
  are as many as the offset or the pages asked for say (`ListInv`). The view
  follows from how many there are. Every order of the
  gallery has one service of each /24, so all have one length (`GalleryRows`), and
  the end of the listing is the same for every page.
- **Lists.** What the pages derive from lists is proved without induction. A member's
  place in `Arranged` is the number of members before it; by the pigeonhole
  principle every place is taken once, so nothing is lost or repeated
  (`ArrangedProperties`). The sum of counts is the number of pairs, so sums
  compare by inclusion (`SumGrows`). A least index (`LeastOf`) stands for
  induction where two increasing lists must agree (`SameOrder`).
- **XrefTrue.** The facts shown are one answer's (`FactsInv`). That the two lists
  add up over both cuts is `OTXAddsUp` and `GroupsAddUp`: what is shown and what is
  said to be hidden partition what is on file.
- **OneDownload.** The outline's operations each keep the invariant (`LandSteps`);
  what is to be shown is that every step of the pages makes at most one of them,
  a change of layer after an error too (`AskStep`).
- **TablesAreTrue.** What a limit cuts is no larger than what it keeps (`BestOf`), and
  what it keeps is as much as the limit, so what is missing is outnumbered
  (`LeftOut`). So
  a group told of a dimension is the stored count or, of products, the part of
  it whose banners were kept (`GroupStored`), and the largest told is the largest
  stored. Rates are bounded because the flagged are a part (`FlaggedPart`).
- **TrendIsTrue.** Every trend the page may hold is the last days of some snapshots
  (`LatestDays`). The chart's divisions lose less than one unit each, so points
  keep their order as long as there are no more days than columns
  (`DAYS <= WIDTH`), and the nearest column is that of the nearest day up to the
  unit lost (`NearestPlace`).
- **The refinements.** Each step of the pages together is one of `LatestAnswer` or a
  stutter under the mapping; `Look` for the topic one already has is allowed
  only after a failure, so that no answer is taken away by asking again.

The assumptions on constants say what the stores hold: counts are natural numbers
and the flagged no more than all, labels and dates are numbers (in the order the
code compares their strings), answers are finite, and a page keeps at least one
row. The lengths that were needed, `DAYS <= WIDTH` and `Cost <= Burst`, hold of the
code's 90 days over 592 units and of every burst of at least one call.

Every safety invariant, action property and refinement of a passing run is a
theorem, with the conditions in the table. Only model-checked:

- the liveness properties (`SpoolDrainsConnected`, `EveryRequestAnswered`,
  `ListingsSettle`, `ExploreSettles`, `OverviewSettles`), whose fairness is out of
  the prover's reach.

Where a condition of the table fails, nothing is claimed: with colliding names or
a disk that refuses writes `AckedDurable` and the refinement do not hold
(section 5).

## 5. What the violated properties show, and known limits

Two runs end in a counterexample; `PROJECT.json` quotes the sentence each one
contradicts.

1. *startup_outage.* A collector that starts while MongoDB is away never connects,
   so the spool is never flushed although MongoDB recovers, until a restart.
2. *search_back.* The back button between two searches leaves the page with the
   later query and rewrites the entry it came to, because the query is read from
   the address only when the page mounts.

Limits met while modelling that have no run of their own. Collector and agent:

- A replayed or delayed document is set over a newer one (`mongo.go:107`).
- A landing image outlives the capture it was taken with, and RandomLanding then
  prefers a record that has none (`query.go:419`, `ingest.go:221`).
- A collector restarted during an outage serves the built-in seed: an agent drops
  an opt-out it had honoured (`collector/blacklist.go:48`); `ScanInfo.tsx:59` calls
  opt-outs permanent.
- A cancelled or keyless lookup blanks the verdict a deep lookup has just put on
  the documents (`store/enrichment.go:148`).
- Two `Persist` calls of one millisecond share a file name; one set of ops is lost
  although reported buffered. `UniqueNames = TRUE` excludes it.
- A document MongoDB refuses every time keeps its file at the head of the spool
  and later files are not flushed. `Rejected = {}` in `spool_restart` excludes it.
- `bufferOps` drops `Persist`'s error: with a full disk, ops counted as buffered
  are nowhere (`DiskFails`). What already is in the spool stays. Any error of
  reading a spool file, a passing one too, sets it aside for good
  (`buffer.go:85`).
- `SeedBlacklist` leaves a collection with any row alone, so a seeding that was
  cut short is never completed, and a list read meanwhile is served as complete:
  `ReservedNeverScanned` fails from an empty collection, and `ReservedSafe`
  assumes a seeded one. For the rows that do get in, `ExclusionHonored` bounds how
  long the list goes without them.
- The exclusion cache is stamped when its read returns (`collector/blacklist.go:42`):
  an opt-out entered while the read is on its way back is hidden a whole TTL from
  then.
- A submission without a thumbnail keeps the thumbnail of an earlier capture, and
  a rescan replaces an object that was served with a year's `immutable`
  (`r2.go:109`).
- With a burst of more than 300 s worth of refill the janitor drops buckets that
  are not full, and a burst below 1 denies every read for ever; the configuration
  excludes neither (`config.go:217`).
- After a shallow lookup the stored record keeps its verdict (`omitempty`) while
  `threat` is replaced, so a verdict may be shown without the rows it came from.
- The agent drops a batch on any error of its submission (`agent.go:141`), takes a
  redirect's page for success (`client.go:59`), and draws for ever from a list
  that leaves nothing to draw (`target.go:80`).
- A caller that gives up keeps the outbound slot it reserved (`enrich.go:347`); a
  slow statistics query overwrites a newer memo (`stats.go:147`); a rollup takes
  its date after its aggregate (`rollup.go:81`); the trend's "over Nd" counts
  snapshots, not days.

User interface:

- Outages told as something else: a record that cannot be fetched is "not found"
  (`Signal.tsx:60`), and a map whose next layer fails keeps the old points under
  the new label without a notice (`ObservationMap.tsx:224`). A feed whose new mode
  fails keeps the old tiles under the new caption (`Feed.tsx:91-95`).
- After an answer for another window the cache serves the retry that answer again
  for half a minute (`Stats.tsx:189`, `api.ts:312`); a failed fetch deletes the
  window's entry even if a newer fetch made it (`api.ts:313-316`).
- The overview's rails are unordered: a late answer replaces a newer one
  (`Console.tsx:61`). The viewport says NO OBSERVATION over a record without a
  capture. The top bar never asks again (`TopBar.tsx:68`).
- A network outside the fifty most flagged is told as "0 of N hosts" and ranked so,
  one outside the fifty largest is not ranked at all whatever its rate
  (`stats.go:348-383`), and the rate of a product whose banners were cut may exceed
  100 %; `RatesTrue`, `ConcentrationTrue` and `HighlightsTrue` allow exactly these.
- The gallery's two sorts do not end with the key (`query.go:156-176`): of services
  with one rank and one time either may be its /24's, and two pages may order a
  tie differently, so that a row comes twice and another not at all. A service
  read twice also throws off the count of grouped services (`Feed.tsx:100-106`).
- A reader who changes layer, listing or record faster than answers come sees
  nothing but the page loading.
- A cleared search leaves its loading flag set (`Search.tsx:98-105`), four filters
  take any value from the address (`Search.tsx:40`), and paging by offset repeats
  a row when one is rescanned in between.
- The cross-reference has a Pulsedive heading without a row, and hides place and
  last-seen date of some hosts (`CrossReference.tsx:160-163`, `361-375`).
- Between two external notices the canonical address stays the first one's
  (`meta.ts:81`); two copies in a row share the label's timers; a map mounted when
  the outline's download fails stays without one until another map mounts; a
  pointed-at day becomes another when a new trend arrives.

## 6. Not modelled

- Agent capture and submission: nmap, Chromium and RDAP are external; the batch
  loop around them is planned.
- The rollup worker, the memo caches of stats and map, the outbound limiter of the
  enricher, index creation and migration, and the quarantine of spool files.
- The content of captures (image decoding, perceptual hashes, steganography),
  GeoIP lookups, embedded files: data or I/O without an interleaving that matters.
  MongoDB's text search is `Having`, a constant. `RATE_RPS = 0` switches the
  limiter off.
- The overview's rails and its embedded map, the tooltips, panning and drawing of
  the maps, the stat tiles and downloads, the top bar's menu, the validation in
  the external notice, the static pages and the site's build: no property depends
  on them, or they are layout.
- Deployment: a remote shell script.

What would come next: `AgentSubmit` (one signed POST per batch, redirects, lost
answers) composed with `IngestSpool`; `MemoCache` (check, unlock, compute, stamp:
an older result must not replace a newer one for longer than its time); `Rollup`
(the snapshot's date against the aggregate it dates); the quarantine in
`IngestSpool`; `computeVerdict`'s thresholds and the clamps of `config.Load`
against reference definitions.
