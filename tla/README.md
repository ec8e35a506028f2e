# EVE SDE server: models, checks and proofs

`eve-sde-server` imports CCP's Static Data Export (a zip of YAML files) into SQLite and serves it
over REST and GraphQL, with API keys, a rate limit, response caches and a proxy to ESI. This
directory holds TLA+ models of the parts of it that are hard to test, what TLC checks about them
on small instances, and what TLAPS proves about them for every instance.

## The system

| Part | State | Operations | Source |
|---|---|---|---|
| SDE update pipeline | `sde.zip`, `extracted/`, the catalogue tables, `sde_versions`, `lastCheck` | `updateSDE` (cron, admin's POST), `cmd/import-sde`, with `Download`, `Extract`, `ImportAll` | `internal/scheduler`, `internal/sde`, `cmd/import-sde` |
| Rate limiter | a bucket per key | `allow`, the cleanup sweep, `Stop` | `internal/api/middleware/ratelimit.go` |
| API key manager | `api_keys` | schema upgrade, migration of plaintext keys, create, validate, revoke, list | `internal/auth`, `handlers/admin.go` |
| Response cache | map with a TTL over BigCache | `Get`, `Set`, the middleware around handlers | `internal/cache/memory.go`, `middleware/cache.go` |
| ESI proxy | map with four TTLs | proxied reads, `ClearCache`, retries | `handlers/esi.go`, `internal/esi` |
| Search index | `items_fts`, three triggers | migrate, import, `rebuild-fts`, `rebuild-fts-simple` | `cmd/*`, `internal/sde/importer.go` |
| Request gate | none of its own | Auth, RateLimit, CacheResponse in a chain | `cmd/server/main.go`, `middleware` |
| Server lifecycle | scheduler, server, limiter, database | start, signal, 30 s shutdown | `cmd/server/main.go` |
| Handlers, GraphQL, Go SDK | none | paging, search, diff, readiness | `handlers`, `graphql`, `sdk/go` |

How they interact. Everything shares one SQLite database (WAL, a pool of 25 connections).
A statement that needs the write lock waits for it no longer than its connection's busy timeout. A
request passes Auth, whose every validation takes that lock (the `UPDATE` at the end of
`migratePlaintextKeys`), then the limiter, then on `/api/v1` the response
cache, then a handler that reads the tables an import replaces. The import is started by cron, by an
admin's POST (a goroutine each, nothing keeps them apart) or by a separate process; all of them may
use the same directory (the server's default is `data`, the command's `data/sde`; they share it
when configured to). Nothing tells the caches that an import committed.

What is hard: runs that interleave on one directory; kills between the commit of an import and its
version row; reads before and writes after a commit; refill arithmetic at its rounding and at the
width of an int; a sweep between requests; a page read in two queries around a commit, and cached;
rebuild commands that are killed or followed by a migration; a shutdown during an import, or during a
request that retries. PROJECT.json lists each of these hazards at its line, with the property that would
notice it, or the reason why none does.

What makes each part correct:

- *update pipeline*: the tables come from one archive at a time; the history names only what was
  served; a published archive is served in the end; the write lock is never leaked;
- *rate limiter*: a bound on what a key gets in any minute; no refusal of a caller within its rate;
  a sweep nobody can notice;
- *key manager*: a valid key is admitted whatever upgrade runs beside it; a key is hashed once; no
  plaintext is left after an upgrade; a revoked key stays revoked;
- *response cache*: how stale an answer may be after an import;
- *ESI proxy*: no request drops a fresh entry, retries end in time;
- *search index*: a search finds exactly the items that match, after every command and every kill;
- *gate*: what is behind a key is told only to a valid key, by the cache too;
- *lifecycle*: no cron import is cut off, nor a request while there is time; the process ends;
- *handlers*: a list shows the rows its parameters ask for, those and no others.

## Modules

| Module | What it is |
|---|---|
| `SdeCatalog` | the promise of an update: one whole archive is served at a time, the history names only served archives |
| `SdeUpdate` | the pipeline, statement by statement, for any number of overlapping runs |
| `MCSdeUpdate` | its instances for TLC |
| `ItemsCount` | `SdeUpdate` with a history of which run's tables were replaced before it counted them |
| `MCItemsCount`, `ItemsCountProofs` | its instance and its proofs |
| `SdeUpdateProofs` | typing, the lock, the inductive invariants, that `SdeUpdate` implements `SdeCatalog`, and that every run is finite |
| `RateLimiter` | `allow`, the cleanup and a clock, with two observers |
| `MCRateLimiter`, `RateLimiterProofs` | its instances and its proofs |
| `KeyRegistry` | the promise of the key manager: a registry whose questions are answered at one moment |
| `KeyStore` | the key manager, statement by statement, for concurrent requests and commands |
| `MCKeyStore`, `KeyStoreProofs` | its instances and its proofs |
| `SearchIndex` | `items`, `items_fts` and the insert trigger under migrations, imports and both rebuild commands |
| `MCSearchIndex`, `SearchIndexProofs` | its instances and its proofs |
| `Endpoints` | no state: the routes, each handler's queries and page, the URLs of the Go SDK |
| `Api` | a request through Auth, RateLimit, cache and handler; instantiates `SdeCatalog` and `KeyRegistry` |
| `EndpointsProofs` | what a client gets that reads a list page after page, or searches with a negative limit |
| `MCApi`, `ApiProofs` | the instance of `Api` and its proofs |
| `EsiProxy` | the ESI proxy: its map, and the client with its retries |
| `Server` | the end of a server process; extends `EsiProxy`, whose requests are the ones in flight |
| `MCServer`, `ServerProofs` | its instance and its proofs |

### SdeUpdate

A *run* is one call of `updateSDE` or of `import-sde`; `pc[u]` names the statement it is at, `kind[u]`
says how it started: `server`, `cli`, or `reimport` (`import-sde -skip-download`). The steps are the
points at which another run can come in between:

| Actions | Code |
|---|---|
| `Fetch`, `UnlinkZip`, `PlaceZip` | the response to a temp file and its hash, `os.Remove(zipPath)`, `os.Rename` |
| `SkipKnown`, `CheckNew`, `CheckUnreadable` | the version check (server only); a query that fails counts as "not imported" |
| `OpenZip` | `zip.OpenReader`: the file that is under the name *now*, kept open when it is unlinked |
| `ClearEntry`, `Cleared` | `os.RemoveAll`, file by file |
| `OpenEntry`, `CloseEntry`, `Extracted` | one file of the zip: truncate, copy, close |
| `Parse`, `Parsed` | `ParseCategories`, `ParseGroups`, `ParseTypes` in this order |
| `Begin`, `Commit` | `ensureSchema` and the transaction from its first write to its commit |
| `Count`, `CountUnreadable`, `Record` | `SELECT COUNT(*)`, the version row, `lastCheck` |
| `Fail`, `CrashServer`, `KillCommand` | an I/O error in any step; a kill of the server with all its runs, or of a command |

`Return` and `End` are the `return`s: what the run had in memory is gone. Data is abstract: a file, a
parsed table and a database table are the archive their content comes from, `Torn` for a partly
written file or two writers' mixture, `Sample` for the rows `cmd/migrate` inserts. A cut YAML file
may decode, as a shorter table, or be an error; both are possible. `mixed` and `writers` follow
the open handles, so a file unlinked under its writer and created anew by another run is told apart
from one that two runs write. `catalog` is one value per table, changed at once by `Commit`; a
mutant that commits table by table shows that the properties notice the difference. `ever` is a
history variable: the archives that were the whole catalogue at some time.

Abstractions. An error that one run causes in another (a directory removed between `MkdirAll` and
`OpenFile`, say) is a `Fail` and uses up one of `MaxFaults`. A statement that finds the database
locked waits or fails: both are possible, since it waits only as long as its connection's busy timeout.
Foreign keys are off, so tables of different archives can be committed together. The rows that `migrate`
inserts with `INSERT OR IGNORE` at each container start are taken to be part of every archive.
`ensureSchema` is assumed to find its columns. Checksums of different archives differ. A number of items
is the archive it was counted in, or `Zero`, which the command records when its count fails.

`ItemsCount` adds the history `overtaken`: the runs between their commit and their version row into
which another run's commit came. Its behaviours are those of `SdeUpdate` (`HistoryOnly`).

### RateLimiter

`allow` and a sweep run under the limiter's mutex and are one step each. Time is `now` in ticks,
`Minute` of them in a minute. `Earned` is `int(elapsed.Seconds() * limit / 60.0)`: exact, truncated,
and converted to an int whose largest value is `MaxInt`, where an out-of-range float becomes the
largest or the smallest int, depending on the processor. `Plus` wraps around. The clock of a bucket
restarts only when a whole token was earned. The sweep may come at any time, not only each minute,
since the goroutine may be late. `mark` and `count` observe: they count what a key was allowed
in a minute that begins at any moment. `lastAsk` remembers when a key last asked. The rounding of a
float64 is not modelled: at an instant that falls exactly on a whole token, rounding may give the
token one nanosecond of the clock later than the model, which is exact.

### KeyStore

The Manager's operations, admin's `RevokeKey` and the `ensureColumn` of the two migration commands,
one SQL statement a step; `pc[r]` names the statement request `r` is at, `op[r]` what it came for.

| Actions | Code |
|---|---|
| `Arrive` | a request comes in or a command (`upgrade`) starts |
| `CheckColumn`, `Alter`, `DuplicateColumn`, `Recheck`, `CreateIndex` | `ensureKeyHashSchema`; the commands' `ensureColumn`, which stops (`log.Fatal`) when the column appears between its check and its `ALTER TABLE`, where the server looks again |
| `Select`, `MigrateKey`, `Tidy` | `migratePlaintextKeys`: rows into memory, one `UPDATE` each, one for raw keys left beside a hash |
| `CreateAPIKey`, `ValidateAPIKey`, `ListAPIKeys`, `RevokeAPIKey`, `RevokeKey` | the operation's own statement |
| `Busy`, `Fail`, `Crash` | a statement that waited in vain for an import's write lock; an I/O error, a cancelled context or the kill of a command; the machine going down |
| `ImportBegins`, `ImportEnds`, `Expire` | the environment: the import's transaction, and the clock |

Data is abstract: a column's text is `raw` (the key handed out as that row), `own` (its hash) or
`lost` (the hash of something else, as a second hashing would leave), so `HashOf` is the conversion and
not the identity. A row id stands for the key that was generated with it. The check of `expires_at`
after the `SELECT` is one step with it: the set of active keys only loses an existing key and the set
of expired ones only grows, so the answer is one that holds at that moment. The table exists, and its
hashes are never the empty string. `Init` is every table with raw keys: with the column or without
it, indexed or not, with a hash beside a raw key, with inactive rows.

`KeyRegistry` knows neither hashes nor upgrades: keys are issued, revoked and expire, and each question
is answered at one moment between asking and answer.

### SearchIndex

A *command* is a process: `migrate` (each start of the container), `rebuild` or `simple`; `pc[c]` names its
next statement, each an autocommit of its own. `CreateIndex`, `CreateTrigger`, `InsertSamples` and `Backfill`
are `cmd/migrate`; `DropIndex`, `RecreateIndex` and `Populate` both rebuild commands; `DropTrigger` and
`RecreateTrigger` the rest of `rebuild-fts`. `Import` is the import's transaction, one step for the
others. `Fatal` is `log.Fatal` on a statement's error, `Kill` the end of the process before one.

What matters of FTS5 is in four operators. An external table (`content=items`) stores no columns:
an entry is its rowid, a hit reports the `type_id` of the row of `items` with that rowid, and the
query fails when there is none (`At`, `Readable`). A scan of its rowids is a scan of `items`
(`Scanned`), so `Backfill` adds nothing to an external table. Without a rowid FTS5 takes the next one (`Numbered`).
A rowid that is taken is a second posting in an external table; in a simple one it is ignored, as the trigger
inherits the `OR IGNORE` of migrate's `INSERT` (`Ignored`). With a trigger and no table the `INSERT` fails (`TriggerFails`).
A simple table also indexes `type_id`, which the others declare `UNINDEXED`: a query that is a number finds the
item with that id as well as those whose name has it (`Hits`), so `Words` has a word that is an id.
The triggers `items_ad` and `items_au` never fire: outside the import, which drops them first, no code
deletes or updates an item. An item has one word, of its name or its description; ranking is not modelled. `Init` is the state after
the `CREATE TABLE`s, before any index.

### Endpoints and Api

`Endpoints` gives each URL a handler: who may call it, whether `CacheResponse` is in front of it, its
queries in order, its page. `ParsePagination`, `PaginationArgs`, `ItemsArgs` and `SearchArgs` are the code's four
ways to read `limit` and `offset`; `Slice` is SQLite's `LIMIT`/`OFFSET`, where a negative limit is none.
The two GraphQL exceptions are kept: `resolveItems` passes a negative offset on, `resolveSearch` a
negative limit. `Sdk…` are the URLs the Go SDK asks for (`Sent`: what is not positive is left out).

`Api` follows a request, `pc[r]`:

| Actions | Code |
|---|---|
| `Enter`, `Present`, `Auth`, `Pass`, `Told` | public paths; Auth and AdminAuth with the manager's question and answer; Auth's and RateLimit's verdict; the admin's answer |
| `Lookup`, `Judge` | `CacheResponse` and `MemoryCache.Get`: the entry is read, then judged by the clock, then deleted whatever is there by then |
| `BadRequest`, `Count`, `Page`, `Row`, `Match`, `Matches`, `Versions`, `Current`, `Ping`, `Items`, `Latest` | one query of a handler each, with its failure |
| `Respond`, `Store` | the answer; then, for a 200, `MemoryCache.Set` |
| `Import`, `Record`, `Expire`, `Evict`, `Restart`, `Tick` | an import's commit and version row (`SdeCatalog`), a key's expiry (`KeyRegistry`), BigCache, a new process, the clock |

Data is abstract: a body is the archives its queries met (`read`), the rows it shows (`offset`, `count`),
the `total` it states, and whether every query gave all its rows (`clean`). Reads that break off are
in the model: nobody looks at `rows.Err`, and `Search` asks only whether its own deadline has passed. Time is
differences: `left` of an entry, `age` of a handler, `since` an archive was replaced. A handler and the
`Set` after it take at most `HandlerMax` ticks; the code itself does not bound them, so what `Fresh` says is
relative to it. The limiter is a free choice between 429 and going on; its counting is `RateLimiter`. A key is
what `KeyRegistry` promises, which `KeyStore` was shown to keep. A GraphQL query of several fields is
several requests: nothing ties its fields to one state of the tables.

### EsiProxy and Server

`Look`, `Judge` and `Drop` are `getCached` (read under the read lock, the clock, the second look under the
write lock), `Attempt`, `Succeed`, `Fail`, `Retry` and `Wake` are `Client.Get` under go-retry, `SetCached` and
`ClearCache` the rest. Retries are at most `MaxRetries` (3) with waits that double from `BaseWait` (1 s) and
are cut to what is left of `Budget` (10 s); each attempt has its own `AttemptTimeout` (10 s). Nothing
passes the client's context on, so a request goes on when its client is gone. `Server` adds the
signal, `Scheduler.Stop` (`Stopped`), `Shutdown` and the return of `main` (`Return`), with the 30 s budget that
starts at the signal. Listeners close only after `Stop`, so requests are let in meanwhile (`Listening`). After
that the model lets none in, while net/http still takes the request of a connection it accepted before
`Shutdown`, for up to 5 s. `ShutdownRunsOut` is to be read without such a connection. Time
passes only while a request waits for ESI or for its next attempt, main has nothing to do, and a write to the
client takes none. A manual update is not waited for; its end is `SdeUpdate`'s `CrashServer`.

## What TLC checks

| Run | Instance | Shows |
|---|---|---|
| `update_serial` | 1 run at a time, 2 archives, 3 files, server and command, 2 faults | the properties below of one run at a time, and typing |
| `update_concurrent` | 2 overlapping runs of the server or re-imports, 1 archive, 1 file, 1 fault | the properties below of runs that overlap |
| `update_overlap_torn` | 2 overlapping server runs, 1 archive, 2 files, no fault | `CatalogIntact` is **violated** |
| `update_overlap_record` | 2 overlapping server runs, 2 archives, 1 file, no fault | `RecordedWasServed` is **violated** |
| `limiter_window` | 2 keys (2 and 3 per minute), 4 ticks a minute, 10 ticks | the three properties below and typing |
| `limiter_overflow` | 1 key with the largest limit, ints of four bits | `SteadyIsServed` is **violated** |
| `keys_upgrade` | 2 requests, 2 rows, 1 fault, imports at any time, symmetry | the seven properties below and typing |
| `keys_import` | 1 request, 1 row, no fault | `RefusedIsInvalid` is **violated** |
| `search_commands` | 2 commands, 2 archives and a sample row, 1 kill, symmetry | the four properties below and typing |
| `search_rebuild` | 1 command, no kill | `RebuiltIsExact` is **violated** |
| `api` | 2 requests, 1 key, 1 archive over the sample, 9 URLs, TTL of 1 tick, symmetry | the three properties below and typing |
| `server` | 2 requests, 1 path, times scaled down, 1 cron run | the properties below but `LateIsRetried`, and typing |

Properties of the pipeline, one run at a time:

- `CatalogIntact`: the tables are one archive's or the sample, never torn or mixed.
- `RecordedWasServed`, `CheckedWasServed`: a version row and `GetLastCheck` speak of archives that
  were really served.
- `SkipOnlyIfServing`: "already imported, skipping" is said only while that archive is what the tables hold.
- `NoRegression`: an update never goes back to an archive served before.
- `PublishedIsServed`: an archive that stays published is served in the end and stays served.
- `KeepsPromise`: `SdeUpdate` implements `SdeCatalog`.

Properties of runs that overlap:

- `LockMatchesTx`: the write lock is held exactly inside a transaction.
- `RunsRunOut`: no step gives a run more to do, and each of its own leaves it less; the measure counts the
  stages left, the files and tables left in a stage, and the entries still to be removed.
- `RunsEnd`: every run ends, whatever the other one does.
- `RowCountsOwnItems`: `items_count` of a version row is the number of items its run imported. The count is a
  statement after the commit, so another import that is committed in between is counted instead (`overtaken`); a
  failed, killed or waiting run is not, and there is no other way to a wrong count but the
  command's, which records 0 when its count fails. Without the exception the run ends in a violation.

The command's run overlaps in no run of TLC: its statements are the server's without the version check, and
all but `RunsEnd` is proved for every kind. Overlapping runs keep these four; the two violation runs show how
the properties above are lost, with the server alone and no fault at all:

1. *torn*: one run has extracted and parses while a second clears and extracts the same directory; the
   first reads a file that is being written, commits it, and records its version.
2. *record*: a run fetches archive 1, CCP publishes archive 2, a second run fetches it and renames it
   over `sde.zip` before the first opens the zip: the first imports archive 2 and records the
   checksum of archive 1. From then on archive 1 counts as imported.

Properties of the limiter: `WindowBound` (no more than twice the limit in any minute),
`SteadyIsServed` (a caller whose last request is 1/limit of a minute ago is not refused, whatever it
did before: `Retry-After: 60` is true), `CleanupIsInvisible` (what a sweep drops would have been
full again). With a limit near the largest int, which `CreateKey` accepts, the
sum of tokens and refill overflows and the bucket goes negative.

Properties of the key manager:

- `EveryKeyIsKnown`: no upgrade, cut short or raced, hashes a key twice; its holder is still recognised.
- `HashedAtUse`: when an operation reaches its own statement, no raw key is left in the table.
- `PlaintextOnlyShrinks`: a raw key that was replaced does not come back, and none is added.
- `SchemaReady`: a statement that names `key_hash` finds the column and the unique index.
- `UnhurtIsServed`: an operation returns an error only if one of its own statements failed; two upgrades of
  one table do not fail each other.
- `RefusedIsHurt`: a valid key is answered 401 only if one of the request's own statements failed: no race, no
  cut upgrade and no failure of another request makes a key unknown for a moment.
- `KeepsRegistry`: `KeyStore` implements `KeyRegistry`; so a created key is admitted until it is
  revoked or expires, and a revoked one is never admitted again.

`RefusedIsInvalid` is what `openapi.yaml` says of status 401 ("Missing or invalid API key"). A valid
key is answered 401 as well when an import holds the write lock for longer than the statement waits:
every validation writes, its error is not told apart from "unknown key", and the client is told that
its key is wrong.

Properties of the search index:

- `UntouchedIsExact`: from an import on, whatever migrations run, race or are killed, a search finds each
  item that matches, once, and no other, until a rebuild command next writes to the index.
- `SimpleFindsNamesAndIds`: `rebuild-fts-simple` that nothing interrupts leaves an index, whatever it found, in which
  a query finds the items whose name or `type_id` it is, each once, and no entry that the join would drop.
- `RebuiltIfDense`: `rebuild-fts` that nothing interrupts leaves an exact search if and only if the `type_id`s of
  the catalogue are 1, 2, ..., n.
- `MigrateSucceeds`: a migration that nothing interrupts does not fail, whatever the other commands, or kills of
  them, have left; the container's server starts only then.

`RebuiltIsExact` says the same of `rebuild-fts`, whose last words are "FTS index rebuilt successfully!".
It does not hold: the `INSERT` names no rowid, so entry *n* is taken for the item with `type_id` *n*, and
the insert trigger it leaves goes on like that. The next import repairs both.

`rebuild-fts-simple` leaves out the `UNINDEXED` of `type_id` that the other tables have. `openapi.yaml` speaks of a
search "across item names and descriptions"; after this command a query that is a number finds the item
with that id too, which is why `SearchIsExact` is not what is said of it.

Properties of a request:

- `Fresh`: no answer shows an archive that was replaced more than `CACHE_TTL` and one handler's time ago, however
  imports, fills of the same entry, evictions and restarts fall. An old answer may come after a new one
  (a slow handler stores over a fresh entry); this bounds how long.
- `Exact`: a list answer of whole reads of one archive has exactly the rows its URL asks for, and over REST the
  archive's total, and so has every repetition from the cache. What a URL asks for (`RowsAsked`) is stated without
  the parsers of `Endpoints`, from the defaults and maxima of `openapi.yaml` and the GraphQL schema: a limit within the
  maximum is that many rows, no limit is 50, for one out of range any page within the maximum will do. Left out is
  GraphQL's search with a negative limit (`Unlimited`), which shows every match. What an import
  between `COUNT` and page, or a read that broke off, makes of an answer is outside it, and is cached for
  a TTL all the same.
- `Admitted`: data behind a key is told only to requests whose key was valid when they came, although all keys
  share the cache and a key may be revoked or expire meanwhile.

Properties of the proxy and the shutdown:

- `EndsInTime`: however ESI fails, a request ends within the retry budget and one more attempt: 20 s.
- `LateIsRetried`: only a request whose first attempt failed can be later than the 15 s after which the server
  no longer writes its answer (such an answer is lost to its client, and cached): proved, and not checked by a run.
- `FreshIsKept`: no request takes an entry out of the map that has not expired.
- `NoneIsCut`: if no cron run is under way at the signal, every request is answered before `main` returns.
  With one, the 30 s may be over before `Shutdown` begins.
- `CronIsWaitedFor`, `SignalEnds`: a cron run is never cut off, and the process ends nevertheless.
- `ShutdownRunsOut`: once the listeners are closed, every step uses up the budget or leaves one request less to do
  and no other one more: what of `SignalEnds` does not rest on fairness.

Bounds. Two archives tell "this one" from "another one"; no property relates three. Three files are all the
parser reads. Two faults let a retry fail after a failure. `Reissue = FALSE`: CCP does not publish an
old archive again. If it does, `SkipOnlyIfServing` and `PublishedIsServed` do not hold, since the check
looks for the checksum anywhere in the history. Two runs are enough for the two violations and for
every pair of interfering steps; a third adds no kind of interference. Ten ticks of four per
minute reach sweeps after more than two minutes with bursts before and after. Two requests give every pair of
racing statements, and two rows one that is half migrated beside one that is created or revoked.
Of the two archives of `search_commands` one adds an item before and one behind the sample, with a gap, the
other renames the sample and leaves no gap, so that numbers FTS5 picks are right, wrong or taken; one of the
words is the number of an item with another name. In `api`, the archive has more rows than any page and
the sample fewer; the URLs are one of each kind of handler with the parameters at their edges, in
use a menu at a time (`OneMenu`), since a cache entry of one URL says nothing of another, and one request at a time
where the URL is never cached, since two of those share nothing. One tick of TTL and one of a
handler make entries of every age. The times of `server` (an attempt of 2 ticks, a retry budget and a write timeout
of 4, a shutdown budget of 7) keep what matters of the code's 10, 10, 15 and 30 s: an attempt and a retry budget
are each no more than the write timeout, and together less than the shutdown's budget.

Fairness. `Step(u)` is weakly fair: goroutines and processes that are not killed go on, and SQLite, the
file system and the HTTP client (30 minutes) answer or fail. `Start(u, "server")` is weakly fair
because cron starts a run every day; `RunsEnd` does without it. Faults, publications and the command line are not fair.
In `Server` every request, `main`, the end of a cron run and the clock are weakly fair: a cron
run has downloads and lock waits with time limits; the signal, new requests and new runs are not. The
limiter and the key manager have safety properties only: each operation of theirs is a finite sequence
of steps, none of which waits longer than the busy timeout.

Every property has a mutant in PROJECT.json: an operator named `Wrong…`, defined before the one it
replaces, with a mistake the code could plausibly have had, and that property notices it.

## What TLAPS proves

`SdeUpdateProofs`, from `UpdateAssumption` only:

- `TypeCorrect`: typing for any number of overlapping runs. It is not inductive by itself: that a commit puts
  no missing table into the catalogue needs `ReadAll` (a run about to write has read every file).
- `LockIsExact`: `LockMatchesTx` for any number of overlapping runs, inductive with the typing.
- `NoCircle`: `RunsRunOut` for any number of overlapping runs. The measure needs the sets of files and tables to
  be finite and a run's own sets to be part of them, so it rests on `TypeCorrect` and on `LeftBound`: a stage has
  less to do than one stage weighs (a directory has at most the three files). That the measure gets smaller is safety; that a run goes on is fairness,
  so `RunsEnd` itself stays with TLC.
- `HistoryIsTrue`, `CheckIsTrue` when runs do not overlap (`Spec /\ []NoOverlap`): no assumption
  on the constants but on the behaviour, as for the server alone whose admin triggers nothing while cron runs. The invariants
  speak of rows and of `ever`, the steps of a pipeline with nine stages between them, so the inductive
  invariant `SerialInv` says of each stage what the run can rely on: the zip under the name is its
  own (`OwnZip`), so is the open handle, the files extracted so far (`OwnFiles`), the tables parsed
  so far (`OwnTables`), and after the commit the catalogue (`OwnImport`). Each of these is what an overlapping
  run destroys. TLC checked `SerialInv` before it was proved.
- `CatalogIsWhole`, `Implements` when, besides, nobody re-imports with `-skip-download` what a failed run
  left (`[]Downloads`): `CatalogIntact`, and that the pipeline implements `SdeCatalog` under the mapping of
  `KeepsPromise`.
- `NeverBack` and `SkipIsSafe`: `NoRegression` and `SkipOnlyIfServing`, when besides CCP publishes no old archive
  again (`~Reissue`; with it the check's skip is wrong). The invariant is `Newest`: whatever was served has been
  replaced at the site since, or is published now; whatever was served and is not yet replaced is what the tables hold;
  and what a run has fetched is either new, or what the tables hold, all else that was served being replaced already. A
  publication in the middle of a run is what this must survive: it makes the run's archive an old one, but still not
  older than the catalogue's.

`ItemsCountProofs`, from `UpdateAssumption`, for any number of overlapping runs: `CountIsOwn`. The invariant `CountInv` says
of a run that was not overtaken that the tables it committed are still there, and of its count that it is theirs;
only a commit changes the tables, and a commit marks the runs it overtakes. `Named` says that a run
that comes to its version row knows its archive.

`RateLimiterProofs`: `TypeCorrect` with overflow and without; `SteadyCallers`, `SweepIsInvisible` and
`WindowIsBounded` under `NoOverflow` (a full bucket and the refill of the server's lifetime fit an
int), for any limits, number of keys and clock resolution. `WindowIsBounded` rests on `WindowInv`: while
the observed minute runs, a bucket not refilled in it has at most its tokens to give, and one that
was refilled has had at most a full bucket, the rate since the minute began, and a remainder less than
one token. The arithmetic lemmas (`Cancel`, `Division`, `Product`, `DivisionGrows`) are stated once.

`KeyStoreProofs`, from `KeyAssumption` only, for any number of requests, keys and faults: `TypeCorrect`,
`KeysAreKept`, `UpgradeIsComplete`, `SchemaIsReady`, `RacesAreHarmless`, `PlaintextIsGone`, `OnlyHurtRefused` and
`Implements`, one for each property of the run. The properties
are not inductive: what a request read before another one wrote must stay usable. `UpgradeKnows` says
that a request past its `SELECT` still has every row without a hash on its list, and read the raw key of
each row on it (so a second writer writes the same hash); `UpgradeDone` that once `Tidy` is past, every
row holds its hash in both columns. `SchemaSeen` does the same for the column and the index, `RowsOK`
lists the states of a row, `RequestsOK` ties a statement to its operation, and `FreshKeys` keeps two
creations apart. TLC checked the conjunction before it was proved.

`SearchIndexProofs`, from `IndexAssumption`: `TypeCorrect`, `UntouchedSearch`, `SimpleSearch`, `RebuildSearch` and
`MigrationSucceeds`, one for each property of the run, for any commands, item tables and kills. `SimpleSearch` rests on `OnePerItem` (an entry for each item) and on `NamesAndIds`
(what a query hits in such an index). `Untouched`
strengthens `UntouchedIsExact` to what an untouched database is made of: an external index posted from exactly
the items, no trigger that lets FTS5 choose rowids, and each migration at a statement whose table and
trigger are there. `Lonely` says what a command that is `alone` can rely on at each of its statements. That rowids
FTS5 picks are distinct, and are 1 to n for n items, rests on `Rank`, counting in a finite set (`Ranks`); that they
are the `type_id`s only if these have no gap is `DenseRanks`, the heart of `RebuildSearch`. `NothingFromNothing` (no table
or no items, no entries) is what makes the index exact that a migration creates where there was none.

`ApiProofs`, from `ApiAssumption`: `TypeCorrect`, `FreshAnswers`, `ExactLists`, `AdmittedOnly`, for any URLs,
archives, keys, requests, TTL and handler time, from one invariant (`Invariance`). It says of each entry, of each copy a
request has read of one, and of each answer being made, which archives it has seen and since when they
may be gone (an entry with `left` ticks was made at most `Ttl - left` and a handler ago), that its rows
are those of `Slice`, and of each request past the gate that its key was valid. `RouterShape` is the lemma that
the proofs use of the routes: which queries a handler can have, and that its page is clamped. `ExactLists`
compares the rows shown with the URL's own limit and offset, through `PageIsAsked`, one case for each of the
four ways the code parses them. `OnPromises` closes the
circle: `Api` does to the catalogue and the keys only what `SdeCatalog` and `KeyRegistry` allow, those specifications
that `Implements` of the pipeline and of the key manager are about. Its proof made `ApiAssumption` say what an
admin's path can name: a key, or an id that is none (`NoKey`).

`EndpointsProofs`, from no assumption but that `Absent` is no integer, for any number of rows: a client that reads items,
categories or groups page after page and steps by a limit within the maximum sees each row on exactly one page
(`SdkReadsAll`), and so does one that steps by `meta.limit` of the answer, whatever it asks for (`MetaLimitReadsAll`);
with a limit above the maximum and its own steps it never sees row 51 (`LargerLimitLosesRows`), since `parsePagination`
falls back to 50 rows. `NegativeSearchShowsAll`: GraphQL's search with a negative limit shows every match. `InterfacesAgree`: up to the maximum REST and GraphQL show the same rows for the same
parameters, absent, zero and negative ones included. The pages of one walk are those of one archive: the handlers
promise nothing of a walk around an import.

`ServerProofs`, from `EsiAssumption` and `ServerAssumption`: all safety properties above for any number of requests
and any time limits in the assumed order, and `ProxyImplemented`: within the server the proxy is the
`EsiProxy` of its own module. The invariant bounds elapsed time plus what is left of the attempt or the wait; for
`NoneIsCut` it relates them to what is left of the shutdown's budget.

Only model-checked: the liveness properties (`PublishedIsServed`, `RunsEnd`, `SignalEnds`), which need fairness and
ENABLED. Every other property of a passing run is a theorem; so is what `RunsEnd` and `SignalEnds` rest on besides
fairness (`RunsRunOut`, `ShutdownRunsOut`). The runs that end in a violation show what no proof can.

## Plan

1. `SdeUpdate` with `SdeCatalog` and its proofs: done, but for `ensureSchema` on an old database.
2. `RateLimiter` and its proofs: done.
3. `KeyStore` with `KeyRegistry` and its proofs: done.
4. `SearchIndex` and its proofs: done.
5. `Endpoints` and `Api`, the request gate, the response cache, the handlers, GraphQL and the SDK's URLs
   in one module, over the promises of `SdeCatalog` and `KeyRegistry`: done, with its proofs.
6. `EsiProxy` and `Server`, with their proofs: done.
7. `ImportData`: YAML entries to rows as operators, checked against a reference definition, and
   `ensureSchema` on an old database.
8. Proofs of `NoRegression` and `SkipOnlyIfServing`, of the measures of `RunsRunOut` and `ShutdownRunsOut`, of
   `RebuiltIfDense`, of a walk through the pages, and that `Api` keeps to the promises it stands on: done.

## Not modelled, and why

The Redis cache (no code constructs it), the metrics (nothing reads them), configuration (straight-line
validation; its bounds are the other modules' assumptions), the database pool (its effect is the
lock above), the web pages (stateless), what the SDK makes of an answer, the comparison in AdminAuth with
environment variables, rendering and logging. The start of the server is straight-line code that ends the process
when a step fails. Cron's time zone: the comment and the log say 03:00 UTC, `cron.New()` uses local time; no
property depends on the hour. The ESI map has no bound in the code, so there is none to check. The data race on
`lastCheck` (a `time.Time` written and read without synchronisation) is modelled in its order of
updates, not in torn reads. In `KeyStore` a statement waits in vain (`Busy`) only for an import's lock; in the
code any other writer may hold the lock past the wait, too, since `db.go` sets `busy_timeout` on one connection of the
pool, and the outcome is that of `Fail`.
