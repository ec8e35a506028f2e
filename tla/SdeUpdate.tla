----------------------------- MODULE SdeUpdate -----------------------------
(***************************************************************************)
(* The SDE update pipeline: Scheduler.updateSDE (cron job and the admin's  *)
(* POST, one goroutine each) and cmd/import-sde, a process of its own.     *)
(* Every run downloads into <dataDir>/sde.zip, extracts into               *)
(* <dataDir>/extracted, parses three YAML files and replaces the tables in *)
(* one SQLite transaction.  No lock guards the directory: the only mutual  *)
(* exclusion is the database's write lock.                                 *)
(*                                                                         *)
(* An archive is opaque: a file, a parsed table or a database table is     *)
(* represented by the archive its content comes from.                      *)
(***************************************************************************)
EXTENDS Integers, FiniteSets

CONSTANTS Updaters,    \* runs that may be under way at once
          Archives,    \* the zips CCP may publish (a zip and its checksum)
          Entries,     \* the files of an archive the parser reads
          Kinds,       \* which of the three kinds of run are started
          Reissue,     \* TRUE if CCP may publish an older archive again
          MaxFaults,   \* bound: I/O errors and kills in a behaviour
          None,        \* no file, no row, no value
          Torn,        \* a partly written file, or two writers' mixture
          Zero,        \* what the command records for a count that failed
          Sample       \* the rows cmd/migrate inserts

ASSUME UpdateAssumption ==
    /\ Entries \subseteq {"categories", "groups", "types"} /\ "types" \in Entries
    /\ Kinds \subseteq {"server", "cli", "reimport"}
    /\ Reissue \in BOOLEAN
    /\ MaxFaults \in Nat
    /\ {None, Torn, Sample, Zero} \cap (Archives \cup Updaters) = {}
    /\ None # Torn /\ None # Sample /\ Torn # Sample
    /\ Zero \notin {None, Torn, Sample}

\* ImportAll reads categories, then groups, then types.
Before(e) == Entries \cap
    CASE e = "categories" -> {}
      [] e = "groups"     -> {"categories"}
      [] e = "types"      -> {"categories", "groups"}

Data == Archives \cup {Torn, Sample}
AllOf(a) == [e \in Entries |-> a]

VARIABLES
    published,   \* the archive behind the SDE URL
    retired,     \* archives that were published before
    zip,         \* content of <dataDir>/sde.zip
    data,        \* <dataDir>/extracted: content of each file
    writers,     \* runs with an open handle on the file of that name
    mixed,       \* more than one run has written to that file
    pc,          \* per run: the statement it is at,
    kind,        \*   how it was started,
    mine,        \*   the archive whose checksum Download returned,
    handle,      \*   the archive its open zip reader reads,
    todo,        \*   files still to be removed or extracted,
    file,        \*   the file it is writing,
    parsed,      \*   what the parser has returned,
    counted,     \*   what itemCount counted
    lock,        \* the run whose transaction holds SQLite's write lock
    catalog,     \* committed tables: the archive each one comes from
    versions,    \* sde_versions: checksum -> what items_count counted
    lastCheck,   \* Scheduler.lastCheck: the archive seen by the last check
    ever,        \* history: archives that were the whole catalogue
    faults       \* I/O errors and kills so far

dir   == <<data, writers, mixed>>
files == <<zip, dir>>
job   == <<kind, mine, handle, todo, file, parsed, counted>>
run   == <<pc, job>>
db    == <<lock, catalog, versions, ever>>
site  == <<published, retired>>
vars  == <<site, files, run, db, lastCheck, faults>>

Labels == {"idle", "fetch", "unlink", "place", "check", "open", "clear",
           "extract", "write", "parse", "begin", "tx", "count", "record"}

TypeOK ==
    /\ published \in Archives /\ retired \subseteq Archives
    /\ zip \in Archives \cup {None}
    /\ data \in [Entries -> Archives \cup {None, Torn}]
    /\ writers \in [Entries -> SUBSET Updaters]
    /\ mixed \in [Entries -> BOOLEAN]
    /\ pc \in [Updaters -> Labels]
    /\ kind \in [Updaters -> {"server", "cli", "reimport"}]
    /\ mine \in [Updaters -> Archives \cup {None}]
    /\ handle \in [Updaters -> Archives \cup {None}]
    /\ todo \in [Updaters -> SUBSET Entries]
    /\ file \in [Updaters -> Entries]
    /\ parsed \in [Updaters -> [Entries -> Archives \cup {None, Torn}]]
    /\ counted \in [Updaters -> Data \cup {None, Zero}]
    /\ lock \in Updaters \cup {None}
    /\ catalog \in [Entries -> Data]
    /\ versions \in [Archives -> Data \cup {None, Zero}]
    /\ lastCheck \in Archives \cup {None}
    /\ ever \subseteq Archives
    /\ faults \in Nat

Init ==
    /\ published \in Archives /\ retired = {}
    /\ zip = None
    /\ data = AllOf(None)
    /\ writers = [e \in Entries |-> {}]
    /\ mixed = [e \in Entries |-> FALSE]
    /\ pc = [u \in Updaters |-> "idle"]
    /\ kind = [u \in Updaters |-> "server"]
    /\ mine = [u \in Updaters |-> None]
    /\ handle = [u \in Updaters |-> None]
    /\ todo = [u \in Updaters |-> {}]
    /\ file = [u \in Updaters |-> "types"]
    /\ parsed = [u \in Updaters |-> AllOf(None)]
    /\ counted = [u \in Updaters |-> None]
    /\ lock = None
    /\ catalog = AllOf(Sample)
    /\ versions = [a \in Archives |-> None]
    /\ lastCheck = None
    /\ ever = {}
    /\ faults = 0

-----------------------------------------------------------------------------
\* Operators called Wrong... are not the code's: each is the operator after it
\* with a mistake the code could have had, and a property that catches it.
At(u, l) == pc[u] = l
Goto(u, l) == pc' = [pc EXCEPT ![u] = l]
Recorded(a) == versions[a] # None

\* The runs in S are over, and what they had in memory is gone.
Reset(f, S, v) == [u \in Updaters |-> IF u \in S THEN v ELSE f[u]]
End(S) ==
    /\ pc' = Reset(pc, S, "idle")
    /\ kind' = Reset(kind, S, "server")
    /\ mine' = Reset(mine, S, None) /\ handle' = Reset(handle, S, None)
    /\ todo' = Reset(todo, S, {}) /\ file' = Reset(file, S, "types")
    /\ parsed' = Reset(parsed, S, AllOf(None))
    /\ counted' = Reset(counted, S, None)
Return(u) == End({u})

\* CCP replaces the archive behind the URL.
Publish(a) ==
    /\ a # published /\ (Reissue \/ a \notin retired)
    /\ published' = a /\ retired' = retired \cup {published}
    /\ UNCHANGED <<files, run, db, lastCheck, faults>>

\* A cron tick, an admin's trigger or the command line starts a run.
\* -skip-download goes straight to the files that are there.
Start(u, k) ==
    /\ At(u, "idle")
    /\ Goto(u, IF k = "reimport" THEN "parse" ELSE "fetch")
    /\ kind' = [kind EXCEPT ![u] = k]
    /\ UNCHANGED <<mine, handle, todo, file, parsed, counted>>
    /\ UNCHANGED <<site, files, db, lastCheck, faults>>

\* The response is copied to a temp file of the run's own and hashed.
FetchAs(u, a) ==
    /\ At(u, "fetch") /\ Goto(u, "unlink")
    /\ mine' = [mine EXCEPT ![u] = a]
    /\ UNCHANGED <<kind, handle, todo, file, parsed, counted>>
    /\ UNCHANGED <<site, files, db, lastCheck, faults>>

\* Wrong: an interrupted copy is not noticed (copyErr dropped).
WrongFetchCut(u) == FetchAs(u, Torn)

\* Wrong: a cache on the way answers with an archive that was replaced.
WrongFetchStale(u) == \E a \in retired \cup {published} : FetchAs(u, a)

Fetch(u) == FetchAs(u, published)

\* os.Remove(zipPath): a file that is not there is no error.
UnlinkZip(u) ==
    /\ At(u, "unlink") /\ Goto(u, "place")
    /\ zip' = None
    /\ UNCHANGED <<site, dir, job, db, lastCheck, faults>>

\* os.Rename(tmpPath, zipPath).  Only the server looks for a known version.
PlaceZip(u) ==
    /\ At(u, "place") /\ Goto(u, IF kind[u] = "server" THEN "check" ELSE "open")
    /\ zip' = mine[u]
    /\ UNCHANGED <<site, dir, job, db, lastCheck, faults>>

SkipKnown(u) ==
    /\ At(u, "check") /\ Recorded(mine[u])
    /\ lastCheck' = mine[u]
    /\ Return(u)
    /\ UNCHANGED <<site, files, db, faults>>

CheckNew(u) ==
    /\ At(u, "check") /\ ~Recorded(mine[u]) /\ Goto(u, "open")
    /\ UNCHANGED <<site, files, job, db, lastCheck, faults>>

\* Wrong: after a query that fails the whole check is made again.
WrongCheckAgain(u) ==
    /\ At(u, "check") /\ Goto(u, "fetch")
    /\ faults < MaxFaults /\ faults' = faults + 1
    /\ UNCHANGED <<site, files, job, db, lastCheck>>

\* A query that fails is logged and taken for "not imported".
CheckUnreadable(u) ==
    /\ At(u, "check") /\ Goto(u, "open")
    /\ faults < MaxFaults /\ faults' = faults + 1
    /\ UNCHANGED <<site, files, job, db, lastCheck>>

\* zip.OpenReader: the open file keeps its content when it is unlinked.
ReadZip(u) ==
    /\ zip # None /\ Goto(u, "clear")
    /\ handle' = [handle EXCEPT ![u] = zip]
    /\ todo' = [todo EXCEPT ![u] = Entries]
    /\ UNCHANGED <<kind, mine, file, parsed, counted>>

\* Wrong: a directory that is there is taken for extracted.
WrongOpenReuse(u) ==
    /\ At(u, "open")
    /\ IF \A e \in Entries : data[e] # None
       THEN Goto(u, "parse") /\ UNCHANGED job
       ELSE ReadZip(u)
    /\ UNCHANGED <<site, files, db, lastCheck, faults>>

\* Wrong: a missing zip is waited for.
WrongOpenWait(u) ==
    /\ At(u, "open") /\ ReadZip(u)
    /\ UNCHANGED <<site, files, db, lastCheck, faults>>

OpenZip(u) ==
    /\ At(u, "open")
    /\ \/ ReadZip(u)
       \/ zip = None /\ Return(u)
    /\ UNCHANGED <<site, files, db, lastCheck, faults>>

\* os.RemoveAll unlinks the files one by one; a run that is writing one of them
\* goes on with a file that has no name any more.
ClearEntry(u, e) ==
    /\ At(u, "clear") /\ e \in todo[u]
    /\ todo' = [todo EXCEPT ![u] = @ \ {e}]
    /\ data' = [data EXCEPT ![e] = None]
    /\ writers' = [writers EXCEPT ![e] = {}]
    /\ UNCHANGED <<pc, kind, mine, handle, file, parsed, counted>>
    /\ UNCHANGED <<site, zip, mixed, db, lastCheck, faults>>

Cleared(u) ==
    /\ At(u, "clear") /\ todo[u] = {} /\ Goto(u, "extract")
    /\ todo' = [todo EXCEPT ![u] = Entries]
    /\ UNCHANGED <<kind, mine, handle, file, parsed, counted>>
    /\ UNCHANGED <<site, files, db, lastCheck, faults>>

\* os.OpenFile(target, O_CREATE|O_TRUNC): what the file held is gone, and a run
\* that still writes to it now shares it.
OpenEntry(u, e) ==
    /\ At(u, "extract") /\ e \in todo[u] /\ Goto(u, "write")
    /\ todo' = [todo EXCEPT ![u] = @ \ {e}]
    /\ file' = [file EXCEPT ![u] = e]
    /\ data' = [data EXCEPT ![e] = Torn]
    /\ writers' = [writers EXCEPT ![e] = @ \cup {u}]
    /\ mixed' = [mixed EXCEPT ![e] = writers[e] # {}]
    /\ UNCHANGED <<kind, mine, handle, parsed, counted>>
    /\ UNCHANGED <<site, zip, db, lastCheck, faults>>

\* io.Copy has run to its end and the file is closed.  Two writers' bytes on
\* one file end as a complete copy or as a mixture.
CloseAs(u, Contents) ==
    LET e == file[u] IN
    /\ At(u, "write") /\ Goto(u, "extract")
    /\ \/ /\ u \in writers[e]
          /\ \E d \in Contents : data' = [data EXCEPT ![e] = d]
          /\ writers' = [writers EXCEPT ![e] = @ \ {u}]
       \/ u \notin writers[e] /\ UNCHANGED <<data, writers>>
    /\ UNCHANGED <<site, zip, mixed, job, db, lastCheck, faults>>

\* Wrong: a copy that failed is not noticed (copyErr dropped).
WrongCloseEntry(u) == CloseAs(u, {handle[u], Torn})

CloseEntry(u) ==
    CloseAs(u, {handle[u]} \cup (IF mixed[file[u]] THEN {Torn} ELSE {}))

Extracted(u) ==
    /\ At(u, "extract") /\ todo[u] = {} /\ Goto(u, "parse")
    /\ UNCHANGED <<site, files, job, db, lastCheck, faults>>

\* findFile and ReadFile of one entry.  A cut YAML file may decode as a shorter
\* table, or not at all; a missing one is an error.
Parse(u, e) ==
    /\ At(u, "parse") /\ parsed[u][e] = None
    /\ \A f \in Before(e) : parsed[u][f] # None
    /\ \/ /\ data[e] # None
          /\ parsed' = [parsed EXCEPT ![u][e] = data[e]]
          /\ UNCHANGED <<pc, kind, mine, handle, todo, file, counted>>
       \/ data[e] \in {None, Torn} /\ Return(u)
    /\ UNCHANGED <<site, files, db, lastCheck, faults>>

Parsed(u) ==
    /\ At(u, "parse") /\ \A e \in Entries : parsed[u][e] # None
    /\ Goto(u, "begin")
    /\ UNCHANGED <<site, files, job, db, lastCheck, faults>>

\* Wrong: the transaction does not take the write lock.
WrongBegin(u) ==
    /\ At(u, "begin") /\ lock' = u /\ Goto(u, "tx")
    /\ UNCHANGED <<site, files, job, catalog, versions, ever, lastCheck, faults>>

\* ensureSchema, Begin and the first write, which needs the write lock: while
\* another run holds it this one waits, or gives up with SQLITE_BUSY.
Begin(u) ==
    /\ At(u, "begin")
    /\ \/ lock = None /\ lock' = u /\ Goto(u, "tx") /\ UNCHANGED job
       \/ lock # None /\ Return(u) /\ UNCHANGED lock
    /\ UNCHANGED <<site, files, catalog, versions, ever, lastCheck, faults>>

\* The deletes, inserts and the new FTS index become visible together.
CommitTables(u) ==
    /\ At(u, "tx") /\ Goto(u, "count")
    /\ lock' = None
    /\ catalog' = parsed[u]
    /\ ever' = ever \cup {a \in Archives : parsed[u] = AllOf(a)}
    /\ UNCHANGED <<site, files, job, versions, lastCheck, faults>>

\* Wrong: every table is committed by itself.
WrongCommit(u) ==
    \/ catalog = parsed[u] /\ CommitTables(u)
    \/ /\ At(u, "tx")
       /\ \E e \in Entries : /\ catalog[e] # parsed[u][e]
                             /\ catalog' = [catalog EXCEPT ![e] = parsed[u][e]]
       /\ UNCHANGED <<site, files, run, lock, ever, versions, lastCheck, faults>>

Commit(u) == CommitTables(u)

\* SELECT COUNT(*) FROM items; a re-import ends here, it has no checksum.
Count(u) ==
    /\ At(u, "count")
    /\ \/ kind[u] = "reimport" /\ Return(u)
       \/ /\ kind[u] # "reimport" /\ Goto(u, "record")
          /\ counted' = [counted EXCEPT ![u] = catalog["types"]]
          /\ UNCHANGED <<kind, mine, handle, todo, file, parsed>>
    /\ UNCHANGED <<site, files, db, lastCheck, faults>>

\* The command takes a count that failed for zero and records that.
CountUnreadable(u) ==
    /\ At(u, "count") /\ kind[u] = "cli" /\ Goto(u, "record")
    /\ counted' = [counted EXCEPT ![u] = Zero]
    /\ faults < MaxFaults /\ faults' = faults + 1
    /\ UNCHANGED <<kind, mine, handle, todo, file, parsed>>
    /\ UNCHANGED <<site, files, db, lastCheck>>

\* The server notes the check whether or not the row could be written.
Note(u) == IF kind[u] = "server" THEN mine[u] ELSE lastCheck

\* INSERT INTO sde_versions ... ON CONFLICT DO UPDATE
Record(u) ==
    /\ At(u, "record") /\ Return(u)
    /\ \/ lock = None /\ versions' = [versions EXCEPT ![mine[u]] = counted[u]]
       \/ lock # None /\ UNCHANGED versions
    /\ lastCheck' = Note(u)
    /\ UNCHANGED <<site, files, lock, catalog, ever, faults>>

-----------------------------------------------------------------------------
\* A fault ends the runs in S: files they hold open are closed as they are, cut
\* short, and SQLite rolls an unfinished transaction back.
Abort(S) ==
    /\ faults < MaxFaults /\ faults' = faults + 1
    /\ writers' = [e \in Entries |-> writers[e] \ S]
    /\ UNCHANGED <<site, zip, data, mixed, catalog, versions, ever>>
Rollback(S) == lock' = IF lock \in S THEN None ELSE lock

\* Wrong: the error path leaves the transaction open.
WrongFailLeak(u) ==
    /\ ~At(u, "idle") /\ Abort({u}) /\ Return(u)
    /\ UNCHANGED <<lock, lastCheck>>

\* Wrong: the error of ImportAll is only logged.
WrongFailLogged(u) ==
    /\ ~At(u, "idle") /\ Abort({u}) /\ Rollback({u})
    /\ IF At(u, "tx") THEN Goto(u, "count") /\ UNCHANGED job ELSE Return(u)
    /\ UNCHANGED lastCheck

\* Wrong: every check that ends is noted as a good one.
WrongFailNoted(u) ==
    /\ ~At(u, "idle") /\ Abort({u}) /\ Rollback({u}) /\ Return(u)
    /\ lastCheck' = Note(u)

\* An I/O error makes the run return, whatever it was doing.
Fail(u) ==
    /\ ~At(u, "idle") /\ Abort({u}) /\ Rollback({u}) /\ Return(u)
    /\ lastCheck' = IF At(u, "record") THEN Note(u) ELSE lastCheck

ServerRuns == {u \in Updaters : ~At(u, "idle") /\ kind[u] = "server"}

\* The server dies with all its runs; the next one has checked nothing yet.
CrashServer ==
    /\ Abort(ServerRuns) /\ Rollback(ServerRuns) /\ End(ServerRuns)
    /\ lastCheck' = None

KillCommand(u) ==
    /\ ~At(u, "idle") /\ kind[u] # "server"
    /\ Abort({u}) /\ Rollback({u}) /\ Return(u)
    /\ UNCHANGED lastCheck

Step(u) ==
    \/ Fetch(u) \/ UnlinkZip(u) \/ PlaceZip(u)
    \/ SkipKnown(u) \/ CheckNew(u) \/ OpenZip(u)
    \/ \E e \in Entries : ClearEntry(u, e) \/ OpenEntry(u, e) \/ Parse(u, e)
    \/ Cleared(u) \/ CloseEntry(u) \/ Extracted(u) \/ Parsed(u)
    \/ Begin(u) \/ Commit(u) \/ Count(u) \/ Record(u)

Next ==
    \/ \E a \in Archives : Publish(a)
    \/ \E u \in Updaters :
         \/ \E k \in Kinds : Start(u, k)
         \/ Step(u) \/ CheckUnreadable(u) \/ CountUnreadable(u)
         \/ Fail(u) \/ KillCommand(u)
    \/ CrashServer

Spec == Init /\ [][Next]_vars

\* A run that is under way goes on, and cron starts the next one every day.
RunsGoOn == \A u \in Updaters : WF_vars(Step(u))
CronStarts == \A u \in Updaters : WF_vars("server" \in Kinds /\ Start(u, "server"))

FairSpec == Spec /\ RunsGoOn /\ CronStarts

-----------------------------------------------------------------------------
\* At most one run is under way, and no run imports what lies in the directory:
\* what the properties of a single pipeline assume of a whole behaviour.
NoOverlap == \A u, v \in Updaters : At(u, "idle") \/ At(v, "idle") \/ u = v
Downloads == \A u \in Updaters : kind[u] # "reimport"

Whole == {x \in Archives \cup {Sample} : catalog = AllOf(x)}

\* The tables the API reads come from one archive, or are the sample: no torn
\* file and no mixture of two archives is ever committed (ImportAll).
CatalogIntact == Whole # {}

\* A checksum in sde_versions is that of an archive that was served: a failed
\* or killed import leaves no row behind that later checks would skip on
\* (updateSDE's version check).
RecordedWasServed == \A a \in Archives : Recorded(a) => a \in ever

\* GetLastCheck speaks of a check that ended well: the archive it saw has been
\* imported, in this check or before.
CheckedWasServed == lastCheck # None => lastCheck \in ever

\* The database's write lock is held exactly by a run inside its transaction:
\* two imports never write at once, and no error path or crash leaks the lock.
LockMatchesTx == \A u \in Updaters : (lock = u) <=> At(u, "tx")

\* "already imported, skipping" is said only while that archive is what the
\* tables hold (if CCP never publishes an old archive again).
SkipOnlyIfServing ==
    [][\A u \in Updaters : SkipKnown(u) => catalog = AllOf(mine[u])]_vars

\* An update never takes the catalogue back to an archive it held before.
NoRegression ==
    [][catalog' # catalog =>
         \A a \in ever : catalog' # AllOf(a)]_vars

\* An archive that stays published is served in the end, and stays served, in
\* spite of failed runs and crashes before it.
PublishedIsServed ==
    \A a \in Archives : <>[](published = a) => <>[](catalog = AllOf(a))

\* Every run ends, whatever other runs do to its files and its lock.
RunsEnd == \A u \in Updaters : ~At(u, "idle") ~> At(u, "idle")

\* How much a run has before it: stages, and in a stage that goes through the
\* files, twice the files it has not been through.
Stage(l) == CASE l = "fetch"  -> 12 [] l = "unlink"  -> 11 [] l = "place" -> 10
              [] l = "check"  -> 9  [] l = "open"    -> 8  [] l = "clear" -> 7
              [] l = "extract" -> 6 [] l = "write"   -> 6  [] l = "parse" -> 5
              [] l = "begin"  -> 4  [] l = "tx"      -> 3  [] l = "count" -> 2
              [] l = "record" -> 1  [] l = "idle"    -> 0
Ahead(u) == CASE pc[u] \in {"clear", "extract"} -> 2 * Cardinality(todo[u])
              [] pc[u] = "write" -> 2 * Cardinality(todo[u]) + 1
              [] pc[u] = "parse" ->
                    2 * Cardinality({e \in Entries : parsed[u][e] = None})
              [] OTHER -> 0
Left(u) == 8 * Stage(pc[u]) + Ahead(u)

\* No step gives a run that is under way more to do, neither its own nor another
\* run's, a fault's or a crash's, and each of its own leaves it less: no run goes
\* round in a circle, whatever it finds in the directory or at the lock (what of
\* RunsEnd does not rest on fairness).
RunsRunOut ==
    [][\A u \in Updaters : ~At(u, "idle") =>
          /\ Left(u)' <= Left(u)
          /\ Step(u) => Left(u)' < Left(u)]_vars

-----------------------------------------------------------------------------
\* The tables as SdeCatalog sees them, and the rows of sde_versions.
Served == IF Whole = {} THEN Torn ELSE CHOOSE x \in Whole : TRUE
History == {a \in Archives : Recorded(a)}

Promise == INSTANCE SdeCatalog WITH served <- Served, history <- History

\* Runs that do not overlap keep the promise: an import is one Install, a version row one
\* Record, and every other step leaves both alone.
KeepsPromise == Promise!Spec
=============================================================================
