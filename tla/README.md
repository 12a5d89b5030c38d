# PolyStac in TLA+

Specifications, model-checking configurations and proofs for PolyStac, a STAC
API server with interchangeable storage backends (Go; `src/` below is the
repository). Every definition is read off the code; comments and documents of
the repository are used only as claims to hold the code against.

- [1. The system](#1-the-system)
- [2. The modules](#2-the-modules)
- [3. The runs](#3-the-runs)
- [4. Bounds and fairness](#4-bounds-and-fairness)
- [5. The proofs](#5-the-proofs)
- [6. Disagreements found](#6-disagreements-found)
- [7. What is not modelled](#7-what-is-not-modelled)
- [8. Plan](#8-plan)

Check a run with `tlc -config MCMigrate.cfg MCMigrate`, and the proofs of a
module with `tlapm`: `MigrateProofs`, `MigrateResumeProofs`, `IngestProofs`,
`SearchWalkProofs`, `BackendStoreProofs`, `SearchParityProofs`, `ServeProofs`,
`SequenceLemmas`.

## 1. The system

| component | state it keeps | operations | talks to | hard behaviours | what makes it correct |
|---|---|---|---|---|---|
| `polystac migrate` (`internal/migrate`) | cursor map and its JSON sidecar, per-collection counts, a channel of pages, worker goroutines | `Run`, `copyCollectionItems`, `saveCursors`, `loadCursors`, `sampleVerify` | two repositories: `ListCollections`, `Search`, `UpsertCollection`, `BulkUpsertItems` | producer and workers interleave; workers die; signals, kills and restarts between any two steps | a run that returns nil has written or counted everything it read; cursors survive failures; a run ends |
| `polystac-ingest` (`internal/ingest`, `cmd/polystac-ingest`) | decoder or directory position, the SQS batch and the message being acknowledged | `Run`, the three `Receive` iterators | one repository: `BulkUpsertItems`; SQS | an iterator and a loop that buffers alternate in one goroutine; messages are redelivered; flushes fail | every item is counted once and stored or named as failed; a deleted message is not lost silently |
| Repository contract (`pkg/repository`) | none | the interface, pages and tokens, error classes, capabilities | called by every handler and command, implemented by the backends | concurrent callers, requests that fail half way, tokens that outlive what they point at | an answer tells what happened; pages cover the matches |
| inmem backend | two maps under a `RWMutex` | reads, writes, `Search`, `Aggregate` | | offsets shift under writes | as the contract |
| spatialite backend | an SQLite file; a schema version; the geometry column | the same; schema migrations on `Open` | SQLite and mod_spatialite | keyset cursors over nullable columns, transactions that fail to commit, several processes opening one new file | as the contract; one schema whoever creates it |
| opensearch backend | a collections index, one items index per collection | the same, as HTTP calls | a cluster | several calls per operation; calls fail, are answered late or not at all | as the contract |
| pgstac backend | a PostgreSQL schema owned by the pgstac extension | one SQL function call per operation | PostgreSQL | a chunk is taken or refused as a whole | as the contract |
| CQL2 (`pkg/cql2`, the translators) | none | parse, evaluate, translate to SQL and to query DSL | used by `Search` | missing properties, three-valued logic, case, prefix and wildcard rules | the same items match on every backend |
| HTTP service layer (`internal/server`) | counters | one handler per route, pagination links, error mapping | one repository | panics, bodies that do not match the path | one repository call per request, the right status |
| hooks (`pkg/polystac/hook`, `internal/hooks`) | a response buffer per request | pre-hook, post-hook, webhook | the handler chain, an HTTP service | the hook fails, is slow, or the handler panics | the handler runs at most once, one response |
| `polystac serve`, wiring (`cmd/polystac`, `internal/app`, `internal/config`) | listener, error channel, repository | `run`, `Build`, `Load` | all of the above | a signal and a listener error race; shutdown has a deadline | the repository is closed once, after the requests |
| `polystac-lambda` | none | adapter | the same handler | | |
| observability | log and counters | | | | |
| STAC types and geometry (`pkg/stac`, `pkg/spatial`) | none | JSON, predicates | | | |
| benchmarks, parity tests | | | | | |

Components interact by calls only: handlers and commands call a repository;
the commands pass it an iterator, which it drives. There is no shared state
between processes except what a backend stores, the migrate sidecar and the
queue.

`PROJECT.json` lists the components with what is modelled of each, the runs,
the hazards of the code with the properties that watch over them, the findings,
and for every definition the source lines it stands for.

## 2. The modules

| module | what it is |
|---|---|
| `Migrate` | one `polystac migrate` command after another, on one sidecar and one destination |
| `CopyContract` | what one run promises, without workers, channel, cursors and sidecar; `Migrate` implements it (`KeepsContract`) |
| `MigrateProofs` | theorems about one run of `Migrate`, and its refinement of `CopyContract` |
| `MigrateResumeProofs` | theorems about many runs of `Migrate`: cursors, losses, counts |
| `BulkUpsert` | one call of `BulkUpsertItems` as each of the four backends implements it |
| `Ingest` | the three receivers, alternating with the loop of `BulkUpsert`, which it extends |
| `IngestProofs` | theorems about `BulkUpsert` and `Ingest` |
| `SearchWalk` | a client that follows `NextToken` through all pages on inmem, spatialite and opensearch, while others write |
| `SearchWalkProofs` | theorems about `SearchWalk` |
| `BackendStore` | clients that write collections and items at the same time on inmem, spatialite and opensearch |
| `ItemStore` | what a repository promises to such clients; `BackendStore` implements it (`KeepsContract`) |
| `BackendStoreProofs` | theorems about `BackendStore`, and its refinement of `ItemStore` |
| `Cql2` | CQL2 expressions, values and times; the shapes the translators accept; the rewriting for pgstac |
| `Cql2Eval` | one operator of the evaluator on the values of its arguments, and inmem's parameters for time and place |
| `Cql2Sql` | what a spatialite row answers to the SQL of one operator, and to the parameters |
| `Cql2Dsl` | what an opensearch document answers to the query of one operator, and to the parameters |
| `Cql2Trees` | the recursion over a filter (`eval`, `Rows`, `Hits`), and LIKE |
| `SearchParity` | one search on three backends without its filter's recursion: an item, its row, the parameters; upserts of the item |
| `SearchParityProofs` | theorems about `SearchParity`, and about filters of any size |
| `FilterParity` | `SearchParity` with every filter composed from given ones |
| `SpatialiteSchema` | processes with different binaries that open one spatialite file: schema migrations, geometry column, index |
| `RequestChain` | one HTTP request on its way through recover, metrics, hooks and handler, and back |
| `Serve` | `polystac serve` around these two, which it extends: start, listener, signals, Shutdown, cleanup, kill and restart, next to commands on the same file |
| `ServeProofs` | theorems about `Serve` and the two modules it extends, with lemmas about one request on any chain of layers |
| `SequenceLemmas` | facts about sequences and numbers that the proofs share |
| `MC*` | instances for TLC |

`Migrate` asks of its source that a token continues after the page it came
with; `SearchWalk` is where that is examined, for one collection sorted by id
as `migrate` sorts it (sort field `id`, ascending), together with every other
sort the API offers.

### Migrate

| in the model | in `migrate.go` |
|---|---|
| `phase` | where the goroutine of `Run` is: `resolve` (100-108), `next` (115, top of the loop), `search` and `send` (`produceErr`, 206-248), `wait` (`wg.Wait`, 251-265), `verify` (129), `down` between processes |
| `jobs`, `live`, `hand`, `workerErrs` | the channel, the workers still in their loop, the page each holds, the errors in `workerErrCh` |
| `cursors`, `sidecar` | the map and the file; 0 is an absent key |
| `cr`, `skipped` | `CollectionResult`: counts of read, written and failed, and the entries that record only a metadata error |
| `tried` | history: the pages that were ever given to a bulk call |
| `start`, `acked`, `everAcked` | history: resume point and accepted pages of the run, of all runs |

A page is its number. The producer's token is the number of the last page read,
and it is the cursor. An action is the code between two points where another
goroutine, a signal or a kill can intervene. A bulk call is one step that
returns nil or an error, with or without a result to count; what it stored is
open. So is what sample-verify finds of it: `GetItem` may fail, and the stored
item may differ, so that a collection of which something was sent may match or not. One
of which nothing ever was does not match. `Interrupt` sets `ctx.Done`; `Kill` ends the process.

Simplifications: the source does not change while it is copied; the destination
is empty before the first run; the same options are given to every run; no id is
given twice to `-collections`; one process at a time uses a sidecar; reading
and decoding the sidecar succeeds or fails as a whole; `SampleVerify` is at most
`BatchSize`, so that the sample lies in page 1. `TrailingToken` is the set of
collections whose last page carries a token (opensearch always hands one out,
the others at most when there is more).

### BulkUpsert and Ingest

`TakeItem` and `TakeError` are the body of `for item, err := range items` up to
the point where control returns to the iterator; `BulkEnd` is what follows the
loop. `buffer` is the pending chunk. `FlushWrites` and `FlushFails` list what
each backend's flush may do to `Succeeded`, `Failed`, `Errors` and the store.
`Ingest` adds the receiver's program counter `pc`: `pull` (top of its loop),
`again` (stdin: the decoder about to fail again), `batch` and `ack` (sqs: between
messages, and between a message's yield and its deletion).

An item stands for the line, file or message that carries it. Counters stop at
`MaxCount` (a stuck decoder counts for ever); `EveryPairCounted` speaks of runs
that stay below it. A kill is a process that ends; what is buffered is gone.

### SearchWalk

An item is its collection, id and the value of the one property the request
sorts on. `Listings` are the orders a backend may return: sorted, with ties in
any order where the sort is not stable or the comparison says equal.
`keysetWhere`, `searchAfter` and the offset in `OffsetPage` are the three ways
to continue. pgstac computes its pages inside the database and is left out.

The listings are those of insertion sort, which `sort.Slice` uses below 13
elements, from a slice in any order.

`SortTokens` says what is left of the sort values of opensearch in a token: they are decoded
into `[]any`, which makes float64 of numbers, and encoded again. Dates in milliseconds and
ids survive. The least or the greatest long, which stands for a missing date, becomes a number that
is no long (`OutOfRange`): the engine refuses the next request (`FetchRefused`) or, where it takes the
number, wraps it around to the first page. Integers above `MaxExact` (2^53) come back as a
neighbour. `TokensSurvive` is the absence of all that, over every item there was during the walk.

### BackendStore and ItemStore

A step is one call to the engine: a critical section (inmem), an SQL statement
(spatialite), an HTTP request (opensearch). `call` says which call of its
request a client is at:

| request | inmem, spatialite | opensearch |
|---|---|---|
| `UpsertCollection` | `write` | `write` (the document), `init` (index the item `__init__`), `uninit` (delete it) |
| `DeleteCollection` | `write`, with the items | `write` (the document), `drop` (the index) |
| `UpsertItem` | `write`; refused without its collection | `write`, which creates the index if need be |
| `DeleteItem` | `write` | `write` |

A call may not be carried out, may be carried out while its answer is lost, or
(opensearch) be carried out late, after the client of the cluster gave up
(`late`). Collections in opensearch may have one index in common: lower-casing
and replacing characters maps `A.b`, `a-b` and `a.b` to `a-b`.

`ItemStore` is the contract: a request takes effect while it is pending, whole
or in parts; nil means all of it did, not-found and conflict that what it needs
was missing at that moment, and any other error leaves behind nothing but
parts of that very request, now or later.

The histories `settled` and `alone` record what a careful client knows: the
outcome of the last answered write of a place (a collection document or an
item), if no other write of the place overlapped it.

### Filters

`eval`, `Rows` and `Hits` are the evaluator and the two translators, each over
the same expressions. What an operator makes of its arguments is in `Cql2Eval`,
`Cql2Sql` and `Cql2Dsl`, which have no RECURSIVE operator; the recursion, and LIKE, which is a
loop, are in `Cql2Trees`. A translator and the engine behind it are one operator:
`Rows` is the translation of an operator followed by SQLite's answer for the
row, "T", "F" or "N" (a NULL), and `Hits` likewise. What belongs to the engines
(three-valued connectives, type order, LIKE, rounding of dates) is marked
external in `PROJECT.json`.

Characters are their codes, so that order, case and wildcards are what they are
in the code. A time is a shortened text (`Cql2` says how), because the
spatialite columns compare texts while the evaluator compares instants; days
have two seconds, and half seconds show what formatting drops. A geometry is the
set of cells it covers. `Apply("function", ...)` stands for function calls and
arithmetic. Operators of CQL2 that no part of the program knows (`t_contains`,
`s_equals`, the array operators) are refused by all of it and left out.

A state has an item, a filter and the parameters `datetime`, `bbox` and
`intersects`. Without parameters, a step negates the filter or joins it with
another, so that a state graph of depth `MaxOps` is the set of all filters with
that many logical operators. Where the request asks for a place, a step is
`UpsertItem` of another version: `geom` is the geometry in the item's spatialite
row, which is not always that of the item. A geometry that
does not parse is `<<>>`, which inmem and spatialite take and opensearch would not index. `Unhandled`
is where a predicate of inmem's geometry library answers with an error, which fails a filter and
sends the parameters back to the bbox. `itemRow` is the item with the geometry of its row, and the SQL of a filter
reads that one. Texts are ASCII: `likeWalk` goes through bytes, so that `_` is one byte of a longer character,
which the other two backends do not do. `Plain` names the conditions for which
the backends agree: a property by its plain name, literals of its kind, only
numbers, texts and times ordered, timestamps of whole seconds. Each exception in
it is a disagreement listed in section 6.

### Opening a spatialite file

`step` is where a process is in `Open`, `seen` its local variables (`at`, the
migration its loop is at; `current`, whether the snapshot of its open
transaction is still that of the file), `file` what is committed, `writer` the
owner of the write lock. A step is one SQL statement, or the rest of a
transaction from the moment it holds the lock: until then others may intervene,
after that they see nothing before its commit. `file.made` are the migrations
whose body was committed, `file.recorded` the versions in `polystac_schema`.

SQLite and mod_spatialite are modelled from how they are used: WAL readers do not
wait, one transaction writes at a time, and a deferred transaction that began by
reading is refused at once (`UpgradeRefused`) when it wants to write and someone
is writing or has committed since. `ReadsFirst` says which migrations begin by
reading: 1 creates the table that `bootstrap` created, so its first statement
finds it there. The first connection makes the file a WAL file (`Connect`): of two that do so at
once, one may be refused, without waiting. `AddGeometryColumn` and `CreateSpatialIndex` are two statements
each, with no transaction around them, and report failure in a result that
`ensureGeometryAndIndex` does not look at.

### A request

`Options.Middleware` is a sequence of layers, outermost first. A request is a
record: its chain, where it is, and what the client, the log, the metrics and
each layer's recorder or buffer got. A status is a number only where the code
tells it from others: final, informational, impossible. `WriteHeader` and
`Write` follow a call on the writer of layer i through the recorders and buffers
outside it to the connection.

### Serving

`life` is where `runServe` is, `listener` its goroutine, `errCh` the channel of
one error. `done` is `ctx`. `Gone` is the end of a process, by `Exit` or by
`Kill`; requests it was answering are cut off. Requests keep running after
`Cleanup` has closed the repository, until the process exits, as goroutines do.
Processes outside `Servers` are commands (`polystac migrate`) that open the same
file, write and close it.

## 3. The runs

| run | what it checks | result |
|---|---|---|
| `migrate` | up to three runs of the command, two collections of three pages and one, two workers, sidecar saved after every page. `NilMeansHandled`: a nil result means every page after the resume point was accepted. `CountsMatch`: the summary counts each page read once. `SkipNoticed`: sample-verify catches a collection skipped over its metadata. `CursorKept`: only a run that accepted all the rest drops a saved cursor. `KeepsContract`: `Migrate` implements `CopyContract` | holds |
| `migrate_live` | one run, five pages. `InterruptEnds`: an interrupted run ends, also when all workers are gone and the channel is full. `RunEnds`: a run ends while a worker lives. `LossWindow`: pages behind the saved cursor that nobody accepted never exceed a full channel and a page per worker | holds |
| `migrate_lost_pages` | `ResumeIsComplete`: resuming loses nothing | violated, see 6 |
| `migrate_stuck` | `HardErrorReturned`: a worker's error is returned | violated, see 6 |
| `ingest` | `EveryPairCounted`, `EveryItemAnswered`: a call that returns nil has counted every pair once and stored or named every item. `SuccessMeansStored`: an ingest with no error and no failure stored every message it deleted. `LossIsPartOfAChunk`: what a failing or dying run loses is less than a chunk. `InputIsRead`: a run over a directory or a well-formed stream ends, and if no signal came and it returned nil every input was read, each good item taken and each bad one counted, none of them the end of the input. `InterruptEnds`: a signal ends every run | holds |
| `ingest_lost_message` | `DeletedIsStored`: only processed messages are deleted | violated, see 6 |
| `search_walk` | `KeysetWalk`: on spatialite and opensearch no walk is refused and every item left alone is returned exactly once, in order, whatever happens to the others, provided ids are unique, every item has the sort property, spatialite does not sort on another than the datetime and the numbers in the tokens of opensearch survive (`Reliable`). `OffsetWalk`: on inmem a walk skips no more items than were removed and repeats no more than were added, and panics only after two removals. `WalkEnds`: every walk ends, however unreliable, unless a token did not survive | holds |
| `search_walk_lost` | `StillWalkIsExact`: without writers a walk is exact on spatialite whatever the sort | violated, see 6 |
| `backend_store` | `SettledReads`: a read returns what the last undisturbed write said, so nothing written is lost, nothing deleted comes back, and of a deleted collection nothing remains. `PlaceholderGone`: the item `__init__` outlives its `UpsertCollection` only if a call on it went wrong, and the next upsert or deletion repairs that. `KeepsContract`: the backends implement `ItemStore` | holds |
| `filters` | `OracleAnswers`: a filter the translators accept fails in the evaluator only if one of its conditions has a function or asks the geometry library what it cannot answer; a geometry that does not parse, NOT, AND and OR add no error. `SpatialiteFilters`: the SQL finds nothing the evaluator refuses, and loses an item only to a NULL under a NOT, after any upserts of the item, unless the row keeps a geometry the item has lost. `OpenSearchFilters`: the query finds exactly what the evaluator accepts. `RewriteKeepsMeaning`: pgstac's `between` means the same. `DatetimeParameter`: the three backends agree on items without a start or end of their own. `SpatialParameters`: whatever earlier versions of an item there were, spatialite and opensearch find it at its present geometry only, and inmem too where its library answers (its bbox finds it there as well where not); without one, spatialite and inmem find it by its bbox unless a geometry was left behind | holds |
| `filter_order` | `EitherOrder`: a comparison may have its literal first | violated, see 6 |
| `serve` | a server and a command of an older binary on one new file, one request at a time. `OpenHasSchema`: whoever has opened the file finds the tables of all migrations of its binary. `LoneStart`: a process alone with the file opens it, whatever a crash left there; the schema is then complete unless a process stopped inside one of the two spatial functions. `RaceEndsComplete`: starters that meet on a new file leave a complete schema, if nobody is killed, cancelled or timed out. `RefusalReachesClient`: what a pre-hook or the webhook refuses is not handled, and the client gets the refusal. `OneAnswer`: a request gets one status and one body, that of the handler, of the hook or of recover, and nothing of a buffer filled before a panic. `LogMatchesClient`: log and metrics hold the status the client got, with the exceptions of section 6. `RepositoryOutlivesRequests`: the repository is closed under a request only after Shutdown's deadline or a failure of the listener, and then the exit status says so. `SignalEnds`: a signal ends the process, wherever it is | holds |

The passing runs over processes also check their module's type invariant
(`migrate_live` shares that of `migrate`). For `Migrate` and `BulkUpsert` it has
content: the lengths of the channel, of `workerErrCh` and of the chunk; for
`Serve` that the process in `commit` is the one that holds the write lock.

Next to a definition there may be a second one, introduced by `Mutant:`, that
differs from it in the way a plausible mistake in the code would: a dropped
guard, a late flush, an error that is not looked at. No specification uses
these; with the definition replaced by its mutant, the property it is paired
with in `PROJECT.json` fails. They are tests of the properties.

`CHECK_DEADLOCK FALSE` is set throughout: all these programs stop.

## 4. Bounds and fairness

- `migrate`: two workers and a channel of two are the smallest pool in which
  one worker fails while another goes on and pages wait; three pages do not fit
  in the channel at once with one in a hand; the second collection shows what an
  earlier one leaves behind; three runs give a resume of a resume. `SaveEvery` is 1 here,
  so that the sidecar is written at every page (a save that fails stands for a
  larger value).
- `migrate_live`: five pages are one more than two workers and a channel of two
  can hold, so that the producer blocks; `SaveEvery` is 5 as in the code.
- `ingest`: two inputs of every mixture of quality; chunk 2, so that a chunk
  is full, half full or empty when things go wrong; batches of up to 2.
- `search_walk`: three ids in one collection and one of them in a second, two
  values and no value for the sort property, pages of 1 and 2, every initial
  repository of up to two items, one write anywhere (which may bring a third), on
  inmem also two deletions (an offset past the end takes two). Of the two values the second is above
  `MaxExact`. A walk that starts over for ever is not watched once it has `MaxGot` = 4
  items, one more than there ever are. This is small because
  liveness is checked on it; what the run says of safety is proved for every
  size. `search_walk_lost` has up to three items.
- `backend_store`: two clients, two collections that share an index in
  opensearch, one item id, two contents, one late call at a time; requests are
  unlimited. A collection with an index of its own is the case in which nothing
  is asked of the other.
- `filters`: 51 items, with every property missing in some, texts with
  a capital and with a percent sign, times on both sides of, at, and half a
  second from the times asked for; 122 conditions, covering every operator
  on every kind of property it can meet and the odd ones clients also write;
  two logical operators, which is one NOT under or over an AND or OR, and two
  NOTs; every bbox and four geometries to ask for, among three cells; any number of
  versions of an item, some with a geometry that does not parse, and one cell (`ThirdCell`) on which inmem's library
  fails. `filter_order` needs none.
- `serve`: two processes, a command whose binary knows migration 1 and a server that
  knows 1 and 2, which are the repository's two migrations; three starts, so that a
  process comes back to what was left; one kill; one request at a time, in two
  chains, one with hooks before and behind the buffer of a post-hook and one with a webhook that
  writes to the connection. Two requests share nothing but the repository handle.

Fairness is assumed of `Producer` and of each worker in `migrate_live` and
`migrate_stuck`: Go's scheduler runs every goroutine that can run, and
repositories answer. It is weak fairness on the whole goroutine, so a select
with two ready cases may take either. In `ingest` it is weak fairness on the
process: reads and calls return. In `search_walk` on the client, which keeps
following links (with what ends the walk for it, the panic of inmem and the refusal of
opensearch). In `serve` on `Main(p)`, the goroutine of
`runServe`: it includes the timeouts of SQLite (`busy_timeout`) and of Shutdown
(`ShutdownTimeout`), which pass. Nothing is assumed there of hooks, handlers
and the listener, which may never end. Nothing is assumed of operators, signals, kills, of the
queue's visibility timeout, or of the success of any call.

## 5. The proofs

Every safety property of the processes that a passing run checks on a small
instance is proved for all values of the constants, and both refinements are. Of
the six properties of the filters, those of the parameters are; for the four about
the recursion over a filter there is a theorem about filters of any size, in other terms
(below).
The assumptions are those the modules state by name: finitely many workers,
processes and items to ingest; numbers where numbers are meant; a chunk, page
and counter bound of at least 1; marker values (`Absent`, `Idle`, `NoProc`,
`Unknown`, and `"col"`, the tag of a place that is a collection) that are not also
data. The repository of a `SearchWalk` begins with finitely many items.
None of the bounds on steps (`MaxRuns`, `MaxStarts`, `MaxKills`, `MaxLate`, the
writes of a walk) matters to a proof.

| module | theorem | statement |
|---|---|---|
| `MigrateProofs` | `TypeCorrect` | `Spec => []TypeOK`, with the capacities of both channels |
| | `InductiveInvariant` | `Spec => []IInv` |
| | `NilIsHonest` | `Spec => []NilMeansHandled` |
| | `RunKeepsContract` | `Spec => KeepsContract`, the refinement of `CopyContract` |
| `MigrateResumeProofs` | `CursorIsKept` | `Spec => CursorKept`, an action property |
| | `SkipIsNoticed` | `Spec => []SkipNoticed` |
| | `LossIsBounded` | `Spec => []LossWindow` |
| | `CountsAreExact` | `Spec => []CountsMatch` |
| `IngestProofs` | `TypeCorrect` | `Spec => []TypeOK` |
| | `PairsCounted` | `Spec => []EveryPairCounted`, on each of the four backends |
| | `ItemsAnswered` | `Spec => []EveryItemAnswered` |
| | `DeletedStored` | `Spec => []SuccessMeansStored` |
| | `LossBounded` | `Spec => []LossIsPartOfAChunk` |
| `SearchWalkProofs` | `TypeCorrect` | `Spec => []TypeOK`, no two stored items with one key |
| | `KeysetWalkIsExact` | `Spec => []KeysetWalk` |
| | `OffsetWalkIsBounded` | `Spec => []OffsetWalk` |
| | `StillReliableWalkIsExact` | `Spec => [](Reliable => StillWalkIsExact)`: the documented claim that `search_walk_lost` refutes does hold where pages are reliable (`Reliable`, which excludes the tokens of opensearch that do not survive), on all three backends |
| `BackendStoreProofs` | `TypeCorrect` | `Spec => []TypeOK` |
| | `SettledIsRead` | `Spec => []SettledReads` |
| | `PlaceholderGoes` | `Spec => []PlaceholderGone` |
| | `ContractIsKept` | `Spec => KeepsContract`, the refinement of `ItemStore` |
| `SearchParityProofs` | `SearchDatetime` | `SearchSpec => []DatetimeParameter` |
| | `SearchSpatial` | `SearchSpec => []SpatialParameters` |
| | `SearchConditions` | `SearchSpec => []Conditions`: at any time, after any upserts, every plain condition but LIKE is answered alike by the three backends, for any item and any literals, a spatial one if the row holds no geometry the item has lost (`Placed`), the item's own parses (`Indexed`, for opensearch) and the library answers (`Handled`) |
| | `FiltersAnswer` | inmem answers every filter the translators accept, unless the geometry library fails on one of its conditions (`OracleAnswers`) |
| | `FiltersInSql` | spatialite finds what inmem finds, but for a NULL under a NOT, with the row's geometry in the place of the item's and the premises `OwnGeometry`, `Placed` and `Handled` (`SpatialiteFilters`) |
| | `FiltersInDsl` | opensearch finds what inmem finds, with the premises `Indexed` and `Handled` (`OpenSearchFilters`) |
| | `RewriteMeansTheSame` | the filter pgstac gets means what the client's does (`RewriteKeepsMeaning`) |
| `ServeProofs` | `TypeCorrect` | `Spec => []TypeOK`, with one holder of the write lock |
| | `RecordedVersionsAreApplied` | `Spec => []RecordedIsApplied`: a version in `polystac_schema` stands for its migration and all before it |
| | `OpenedHasSchema` | `Spec => []OpenHasSchema` |
| | `LoneStarter` | `Spec => []LoneStart` |
| | `RaceIsWon` | `Spec => []RaceEndsComplete` |
| | `RefusalsArrive` | `Spec => []RefusalReachesClient`, for every chain of layers |
| | `AnsweredOnce` | `Spec => []OneAnswer` |
| | `LogTellsTheStatus` | `Spec => []LogMatchesClient` |
| | `RepositoryIsClosedLast` | `Spec => []RepositoryOutlivesRequests` |

`SequenceLemmas` (elements of
sequences, least numbers) holds lemmas that these rest on. A proof that a step keeps
an invariant has a lemma per action, and under it the conjuncts the action can disturb.
None of the properties is inductive as it stands. The inductive invariants, and
why they are needed:

**Migrate, one run.** `NilMeansHandled` speaks of the end of a run, and
what makes it true happens before. `IInv` adds three conjuncts.
`CollectionSplit` says where each collection is: not reached, given up on, in
progress, or done with every page accepted. `PoolSplit` says that pages are
held by live workers only and that a worker leaves without an error only when
the channel is closed and empty. `PageSplit` is the heart: as long as
`workerErrCh` is empty, every page between the resume point and the producer is
accepted, on the channel or in a hand. When the producer is done, all workers are
gone and there was no error, the last two places are empty, so all pages are
accepted. The refinement is a step
simulation under `IInv`: `CollectionDone` and the last step of a run need it,
the others map by their definitions.

**Migrate, many runs.** `CursorInv` ties the three copies of a cursor together:
the producer's token is the cursor of its collection, and a cursor is behind the
saved one only when its collection was handled. `LossInv` is the
accounting behind `LossWindow`: the pages behind the token that were neither
accepted nor are on the channel or in a hand (`Lost`) and the live workers
are together at most `Capacity`, because a page is lost only together with the
worker that held it. What is underway when a run stops adds at most as much, whence
`Window(r) == 2 * Capacity * r`. `CountInv` balances the summary: what was read
is what was reported plus what is underway, until a worker fails, whose error then
ends the run.

**Ingest.** `PairSplit` and `ItemSplit` put every pair, and every item, of a call
that has not failed in one of three places: counted (stored or named), or in the
chunk. `NilIsFlushed` empties the third at the end. `DeletedTaken` and `InCall`
connect the receiver: only what the call took is ever acknowledged, and a
receiver runs only inside a call. With that, what is deleted and lost was in the chunk when
the call failed, and a chunk is never full when control is with the receiver.

**SearchWalk.** For keyset pages (`KeysetInv`): what was returned is in order, the token is
the place of the last item returned, and every item left alone was returned
or lies behind it. That a page continues strictly after its
cursor, and that no reliable item is lost to a null, is a lemma for each of
`keysetWhere` and `searchAfter`. For offsets (`OffsetInv`), the items
passed are those with fewer than `token.at` items before them; one removal moves at most one
item back across that line unread, one addition at most one forward that was
read. This is an argument about ranks in a finite order, and rests on lemmas
about cardinalities of initial segments. `OffsetBound` gives the two removals that an
offset past the end takes.

**BackendStore.** `SettledInv`: as long as a place is settled, no request in
progress and no late call touches it. `AloneInv`: a request that nobody overlapped
knows, between two of its calls, whether its collection is there. `CascadeInv`:
where deletion takes the items along, a missing collection has none.
`PlaceInv`: a placeholder without its `UpsertCollection` is marked, the late calls that may
still create one included. The refinement maps each call to a step or a stutter of
`ItemStore` under these.

**Serve.** A starter reads the version once and skips on its word, while others migrate.
That this is safe rests on two facts: nothing is taken out of the file, so what was
read stays true; and a version is recorded in the transaction of its migration.
`SchemaInv` says so: `RecordedIsApplied`, and for each process
in the loop of migrations that everything before `seen.at` has been made, for each
process past the loop that all its migrations have. That the maximum of the
recorded versions exists is kept as a
conjunct of its own: a commit keeps it, the greater of the new version
and the old maximum. `FileInv` is about the two pairs of spatial statements
and the lock: the steps of the pairs are committed in order (`OrderInv`); whoever is in `commit` holds the lock
(`WriterInv`); what a process alone with the file knows at each of its steps (`AloneInv`);
and as long as nothing was killed, cancelled or timed out, half a pair means that
somebody is at the other half, and an index that is missing has someone in charge of
it (`CalmInv`). `LifeInv` has one conjunct for each place of
`runServe`: only a listener that is up brings requests, only in `select` is it up,
and whoever leaves `select` or `shutdown` with requests open has a failed
listener or is in `late`. `ChainInv` says of every request that nothing has
been written on its way down, that on its way up one answer, the handler's or a
hook's, is held in the buffer of the layer it is at and nothing has reached the
connection, and that at the end the three properties hold.

**A search.** `RowInv` says that the geometry in the row is that of the item whenever
the item has one that parses, which an upsert keeps, whatever the versions before. `SpatialParameters` follows,
with the least and the greatest cell of a geometry as the smallest numbers that are not
below, or above, all others. `DatetimeParameter` needs no more than the types: for timestamps of
whole seconds the order of the texts that spatialite compares is the order of the
instants (`SecondsOrder`). `Conditions` has a lemma for each group of operators.

**Filters of any size.** A RECURSIVE operator is out of reach, but what it computes can
be said without it. A filter is given as the set `T` of its parts that have an
operator, with a `rank` that is greater than that of their arguments. The values, the
answers of the rows and those of the documents are functions on `T` that satisfy,
at each part, the equation that defines `eval`, `Rows` or `Hits` (`Evaluated`, `InSql`,
`InDsl`); `encoded` satisfies that of `encodeFilter`. These equations use the same `evalOp`,
`sqlLogical`, `sqlCondition`, `dslLogical`, `dslCondition` and `rewriteBetween` that the recursion of
`Cql2Trees` and `FilterParity` uses. What passes from the arguments to the operator holds
of all parts, because no part has the least rank of those it does not hold of
(`ByRank`). Under NOT "not found" becomes "found", so what is passed on is more than the
property says: an answer that is T or F is right, and an N stands for what inmem refuses
as long as nothing is negated (`Sound`, `Refuses`). LIKE is a hypothesis: these theorems
take its answers to agree, as the run finds they do for texts and patterns of
`PlainItem` and `OneCase`. The hypotheses were checked with TLC, while the
theorems were written, for the parts of every filter and every item of the instance of `filters`: they
hold of `eval`, `Rows`, `Hits` and `encodeFilter`.

What the proofs taught about the model: `Plain` let Booleans be ordered and geometries
be compared, which no condition of the instance did, and `DatetimeParameter` asked nothing of the
texts of its ends; both hold only as they are stated now. BETWEEN and what it is rewritten to
differ if the upper end has no value: the evaluator refuses the first, while the second
need not look at it (`RewriteMeansTheSame` says so). `LogMatchesClient` held on the
instance because its chain has the metrics where `app.Build` puts them. Behind a
post-hook that panics they would have counted an answer that nobody gets, so
the property now says where they are (`MetricsOutermost`).
`Listings` was a recursive insertion sort, which no prover here can reason about; it is now
the set of permutations without a neighbouring pair the wrong way round. These are the
same listings, because the slice to be sorted may come in any order and insertion sort
leaves such a permutation as it is; the run reaches the same states.

Out of the prover's reach, and only model-checked:

- the liveness properties, under the fairness of section 4: `RunEnds`,
  `InterruptEnds` (of `Migrate` and of `Ingest`), `InputIsRead`, `WalkEnds`, `SignalEnds`;
- `OracleAnswers`, `SpatialiteFilters`, `OpenSearchFilters` and `RewriteKeepsMeaning` as
  statements about the operators `eval`, `Rows`, `Hits` and `encodeFilter`, which are RECURSIVE: that
  these satisfy their own equations is what the provers cannot use. The
  theorems above state them for anything that satisfies the equations;
- LIKE: that the loop of `likeWalk` fits a text to a pattern as SQL and the query DSL do.

What a violation run refutes is of course not proved.

## 6. Disagreements found

Shown by a run, with TLC's counterexample:

1. `migrate_lost_pages`. The cursor moves when a page is sent to the channel
   (`migrate.go:239`), not after a successful batch as 11-13 say. If a worker
   fails or the run is interrupted, the saved cursor is past pages that were never
   written; the resumed run skips them and returns nil.
2. `migrate_stuck`. A failing worker returns; with all workers gone the
   producer waits on the full channel, and `Run` neither ends nor returns the
   error.
3. `ingest_lost_message`. The SQS receiver deletes a message when its yield
   returns, when the item is at most buffered, or was rejected.
4. `search_walk_lost`. The spatialite cursor loses items without a datetime,
   items sorted on another property, and items that share an id across
   collections.
5. `filter_order`. Both translators accept `1 < n` and search for `n < 1`.

Found with the evaluator and the translators side by side; `Plain`,
`PlainItem` and the premises of the properties leave these cases out:

- spatialite: NOT over a comparison with a missing property is NULL and loses the
  item, which the evaluator finds. LIKE ignores case. A date without a time is
  compared as a text, so that `datetime <= DATE('2024-01-01')` misses all of that
  day; fractions of seconds are dropped. A number sorts before any text,
  `n = true` finds 1. `during` with both ends open finds items without a datetime.
  The property `properties.n` is `n` here and in opensearch, and missing in the
  evaluator.
- inmem: where a predicate of the geometry library fails on one item, the whole search does
  (`eval.go:569-580`, `inmem.go:256-258`); the parameters fall back to the bbox instead.
- opensearch: a date stands for the whole day. A null literal is refused in `=`
  and no bound elsewhere; a literal of another kind is refused.
  `during` and `intersects` with an instant mean "at or after".
- Both: the ends of an interval count only if they are timestamps; dates and
  properties are taken for open. A first argument of a temporal operator that is
  not a property (an interval of properties, a function) silently becomes the
  item's datetime. `after`, `before` and `equals` with an interval fail in the
  engine instead of with status 400.
- The evaluator: `geometry IS NULL` is never true (a nil pointer in an interface).
  A missing property is LIKE `%`. A percent sign in the text is taken for the one
  in the pattern, so that `'%a'` is not LIKE `'%'`. `eval.go:40-42` says that
  inmem logs what it cannot evaluate and takes it for no match; it fails the search.
- The datetime parameter: only spatialite looks at an item's own start and end.
- The parameters for a place: an item without a geometry is found by its bbox on inmem and
  spatialite, and never on opensearch; with neither, `intersects` finds it
  everywhere on inmem and nowhere else. An upsert without a geometry leaves the old one
  in the spatialite row (`items.go:152`), where `intersects` and the spatial operators of a filter go on finding it. An
  item whose bbox is not around its geometry is found by both on spatialite only.

Found with `SearchWalk`; `Reliable` and `TokensSurvive` leave these cases out:

- opensearch: a page that ends with an item without the sort property (with the default sort, one without a
  datetime) hands out a token with a number that is no long (`opensearch.go:336`, 426-447). The next request
  fails or starts the walk over. A numeric sort value above 2^53 is rounded, and the walk
  skips or repeats items.
- inmem: items without the sort property compare equal to all others (`inmem.go:539-544`), so that
  their order, and what is on a page, differs from one page to the next.

Found with `BackendStore`: in opensearch an `UpsertItem` that races with the deletion of its
collection leaves the item without it. `ItemStore` allows it to.

Found with `Serve`; the premises of its properties name them:

- `spatialite/migrate.go:22-24` says concurrent `Open` calls serialise on busy_timeout. The
  migration's transaction begins with a read and is refused without waiting, so
  a second starter fails with SQLITE_BUSY (`UpgradeRefused`); its next start is fine.
- `spatialite/migrate.go:101` says `ensureGeometryAndIndex` is safe to call on every `Open`. A
  process that stops inside `AddGeometryColumn` leaves a column that is not registered, and
  one inside `CreateSpatialIndex` an index that is enabled and not built; later starts
  do not see the failure of these functions and go on without an index
  (`Torn` in `LoneStart`).
- A panic after an answer is logged as 500 while the client has the answer. An
  informational status from a webhook is logged, and the client gets 200. The metrics do
  not count a request that panics.
- A listener that fails together with a signal may be overlooked: the exit status is 0.

Noted while reading, without a run (they are about one comparison or one
constant):

- `ingest.go:92` goes on after a line that cannot be decoded, but the decoder returns
  the same error for ever, so that stdin is not read until EOF as 75 has it.
- A signal that a receiver sees at the top of its round, with nothing buffered, ends the input without an
  error (`ingest.go:84-86`, 141-143): the command exits with status 0 although input is unread.
- `spatialite/migrate.go:104` calls the argument of `InitSpatialMetadata(1)` a fast path for
  WGS84; it asks for one transaction.
- `docs/extending.md` and the migration guides name `POLYSTAC_PRE_HOOK_URL`,
  `App.PreHook` and `App.PostHook`; nothing in the code reads or defines them.
- A bbox of six numbers, which `repository/search.go:24-27` allows, is read as
  its first four by all backends but pgstac. The length is checked for GET and not for
  POST, where a limit below 1 is not refused either.
- `migrate.go:36-37` says an empty list of collections migrates everything; 143
  reads one page of 1000.
- `migrate.go:51` promises random items for sample-verify; the first ones by id
  are taken.
- `repository/page.go` describes `Matched` as the total; the spatialite count
  includes the keyset predicate and shrinks from page to page. It says that
  `NextToken` is empty on the last page; opensearch returns one with every page
  that has a hit.
- `docs/migration-from-stac-fastapi.md:14` promises `next` and `prev` body links
  for POST; `links.go` makes a link of the URL and the token, so that whoever
  follows it continues without the filter, the sort and the limit of the body. `listCollections` never links to a
  next page, and pgstac's `ListCollections` ignores the token it hands out.
- `opensearch.go:393-394` says index names keep ids apart by FNV; the hash is
  used only when nothing else is left of the id, so `A` and `a` share an index.
- An item of a missing collection is refused by inmem (not found) and by
  spatialite (conflict) and accepted by opensearch. A `DeleteCollection` of
  opensearch that fails at its second call leaves items that a retry, answered
  404, does not remove.
- inmem's `ListCollections` slices with an offset that may lie past the end, like
  `Search`.

## 7. What is not modelled

- pgstac beyond `BulkUpsertItems`: its operations are single calls to SQL
  functions that are not in this repository.
- The parsers of CQL2 (a third-party library), of requests and of
  configuration; JSON, but for what becomes of numbers in a token; geometry, but for
  where it fails; texts beyond ASCII.
- `polystac-lambda`, observability, benchmarks, deployment files.
- Counts (`Matched`) and aggregation.
- The query extension: GET does not read `query`, and the body's is parsed and never
  put into the request (`parse.go:87`), so no request reaches its translations.
- The configuration from file, environment and flags; headers of answers; the
  PRAGMAs of pooled connections other than `journal_mode`; a missing mod_spatialite.
- The bodies of requests, of which the webhook drops what is beyond 4 MiB.
- The error of `server.New`, which is for a nil repository, and `Build` has one.
- `serve` on the other repositories, whose `Open` keeps nothing that a restart finds.

## 8. Plan

In this order, the most state-changing behaviour first; done ones are marked.

1. `Migrate`, `CopyContract`, `MigrateProofs`, `MigrateResumeProofs` (done).
2. `BulkUpsert`, `Ingest`, `IngestProofs` (done).
3. `SearchWalk`, `SearchWalkProofs` (done).
4. `BackendStore`, `ItemStore`, `BackendStoreProofs` (done).
5. `Cql2`, `Cql2Eval`, `Cql2Sql`, `Cql2Dsl`, `Cql2Trees`, `SearchParity`, `FilterParity`,
   `SearchParityProofs` (done). To prove: LIKE, with its loop as a state machine of its own.
6. `SpatialiteSchema`, `RequestChain`, `Serve`, `ServeProofs` (done).
7. A walk through the server, with the forms of GET and POST requests and their links:
   which requests the next link repeats. It would cover the hazards of `links.go`
   and of a listing of more than one page.
