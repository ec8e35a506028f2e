---------------------------- MODULE SearchIndex ----------------------------
(***************************************************************************)
(* The full-text index items_fts over the items table, and the commands    *)
(* that write either: cmd/migrate (at every start of the container),       *)
(* cmd/rebuild-fts, cmd/rebuild-fts-simple, one statement a step, and the  *)
(* import, whose statements are one transaction.  A search is what         *)
(* ItemHandler.Search and resolveSearch ask of the two tables.             *)
(*                                                                         *)
(* An item's name is one word, which may be a number.  The index is a set  *)
(* of entries: the FTS5 rowid, the type_id a hit reports, the word.        *)
(***************************************************************************)
EXTENDS Integers, FiniteSets

CONSTANTS Commands,   \* processes that may be under way at once
          Nobody,     \* no process
          Words,      \* what the name of an item may be
          Sample,     \* the rows migrate inserts: type_id -> word
          Catalogs,   \* the item tables an import may bring: type_id -> word
          MaxKills    \* bound: kills and statements that fail

Tables == Catalogs \cup {Sample}
Ids == UNION {DOMAIN t : t \in Tables}

\* The sample items are real items, which every archive has.
ASSUME IndexAssumption ==
    /\ Nobody \notin Commands /\ MaxKills \in Nat
    /\ Ids \subseteq Nat /\ IsFiniteSet(Ids)
    /\ \A t \in Tables : /\ t \in [DOMAIN t -> Words]
                         /\ DOMAIN Sample \subseteq DOMAIN t

VARIABLES
    items,     \* the items table: type_id -> word
    fts,       \* items_fts: "none", "external" (content=items) or "simple"
    docs,      \* its entries
    trigger,   \* items_ai: "none", "rowid" (passes one), "auto" (does not)
    kind, pc,  \* per command: which, and the statement it is at
    touched,   \* history: a rebuild wrote to the index after the last import
    alone,     \* history: the command that nothing has interrupted
    kills

index    == <<fts, docs, trigger>>
process  == <<kind, pc>>
vars     == <<items, index, process, touched, alone, kills>>

Empty == [i \in {} |-> {}]
Entry == [row : Nat, id : Nat, word : Words]
Labels == {"idle", "index", "trigger", "samples", "backfill", "drop", "create",
           "populate", "untrigger", "retrigger", "done", "failed"}

TypeOK ==
    /\ items \in Tables \cup {Empty}
    /\ fts \in {"none", "external", "simple"}
    /\ docs \subseteq Entry
    /\ fts = "none" => docs = {}
    /\ trigger \in {"none", "rowid", "auto"}
    /\ kind \in [Commands -> {"migrate", "rebuild", "simple"}]
    /\ pc \in [Commands -> Labels]
    /\ touched \in BOOLEAN
    /\ alone \in Commands \cup {Nobody}
    /\ kills \in 0 .. MaxKills

\* Tables just created, by migrate or by an import's ensureSchema.
Init ==
    /\ items = Empty
    /\ fts = "none" /\ docs = {} /\ trigger = "none"
    /\ kind = [c \in Commands |-> "migrate"]
    /\ pc = [c \in Commands |-> "idle"]
    /\ touched = FALSE /\ alone = Nobody /\ kills = 0

-----------------------------------------------------------------------------
\* FTS5.  An external table stores no columns: a hit reports the type_id of
\* the row of items that has its rowid.  A simple one stores what it is given,
\* and its type_id is a column that is searched like the others (no UNINDEXED).
At(r, i, w) == [row |-> r, id |-> IF fts = "external" THEN r ELSE i, word |-> w]

\* Every item under its own id.
Posted(table) == {[row |-> i, id |-> i, word |-> table[i]] : i \in DOMAIN table}

\* Rowids FTS5 picks itself: the next ones, in the order of the statement.
Rank(S, i) == Cardinality({j \in S : j <= i})
Top == IF docs = {} THEN 0
       ELSE CHOOSE n \in {d.row : d \in docs} : \A d \in docs : d.row <= n
Numbered(table, S) == {At(Top + Rank(S, i), i, table[i]) : i \in S}

\* SELECT rowid FROM items_fts: an external table is scanned in its content.
Scanned == IF fts = "external" THEN DOMAIN items ELSE {d.row : d \in docs}

\* An import's whole transaction drops and writes all of this.
Import(table) ==
    /\ items' = table
    /\ fts' = "external" /\ docs' = Posted(table) /\ trigger' = "rowid"
    /\ touched' = FALSE /\ alone' = Nobody
    /\ UNCHANGED <<process, kills>>

-----------------------------------------------------------------------------
\* Operators called Wrong... are not the code's: each is the operator after it
\* with a mistake the code could have had, and a property that catches it.
Interrupts(c) == alone' = IF alone = c THEN c ELSE Nobody
Ends == {"done", "failed"}
Goto(c, l) == /\ pc' = [pc EXCEPT ![c] = l] /\ Interrupts(c)
              /\ UNCHANGED <<kind, kills>>
\* log.Fatal: the statement has changed nothing.
Fatal(c) == Goto(c, "failed") /\ UNCHANGED <<items, index, touched>>
Touch(c, l) == Goto(c, l) /\ touched' = TRUE

Start(c, k) ==
    /\ pc[c] \in {"idle"} \cup Ends
    /\ kind' = [kind EXCEPT ![c] = k]
    /\ pc' = [pc EXCEPT ![c] = IF k = "migrate" THEN "index" ELSE "drop"]
    /\ alone' = IF \A b \in Commands \ {c} : pc[b] \in {"idle"} \cup Ends
                THEN c ELSE Nobody
    /\ UNCHANGED <<items, index, touched, kills>>

\* cmd/migrate.
WrongCreateIndex(c) ==
    /\ pc[c] = "index"
    /\ \/ /\ fts = "none" /\ fts' = "external"
          /\ Goto(c, "trigger") /\ UNCHANGED <<items, docs, trigger, touched>>
       \/ fts # "none" /\ Fatal(c)
CreateIndex(c) ==
    /\ pc[c] = "index"
    /\ fts' = IF fts = "none" THEN "external" ELSE fts
    /\ Goto(c, "trigger")
    /\ UNCHANGED <<items, docs, trigger, touched>>

WrongCreateTrigger(c) ==
    /\ pc[c] = "trigger" /\ Goto(c, "samples")
    /\ UNCHANGED <<items, index, touched>>
CreateTrigger(c) ==
    /\ pc[c] = "trigger"
    /\ trigger' = IF trigger = "none" THEN "rowid" ELSE trigger
    /\ Goto(c, "samples")
    /\ UNCHANGED <<items, fts, docs, touched>>

\* INSERT OR IGNORE of the samples, and what items_ai does with each new row.
\* The trigger goes by the same policy: a rowid that is taken in a simple table
\* is ignored.  Without a table to insert into there is no trigger to prepare.
Fresh == DOMAIN Sample \ DOMAIN items
Fired == CASE trigger = "none"  -> {}
           [] trigger = "rowid" -> {At(i, i, Sample[i]) : i \in Fresh}
           [] trigger = "auto"  -> Numbered(Sample, Fresh)
Ignored == {d \in Fired : fts = "simple" /\ \E e \in docs : e.row = d.row}
TriggerFails == trigger # "none" /\ fts = "none"
WrongInsertSamples(c) ==
    /\ pc[c] = "samples"
    /\ items' = [i \in DOMAIN Sample \cup DOMAIN items |->
                    IF i \in DOMAIN Sample THEN Sample[i] ELSE items[i]]
    /\ docs' = docs \cup (Fired \ Ignored)
    /\ Goto(c, "backfill")
    /\ UNCHANGED <<fts, trigger, touched>>
InsertSamples(c) ==
    /\ pc[c] = "samples"
    /\ \/ TriggerFails /\ Fatal(c)
       \/ /\ ~TriggerFails
          /\ items' = [i \in DOMAIN Sample \cup DOMAIN items |->
                          IF i \in DOMAIN items THEN items[i] ELSE Sample[i]]
          /\ docs' = docs \cup (Fired \ Ignored)
          /\ Goto(c, "backfill")
          /\ UNCHANGED <<fts, trigger, touched>>

Backfill(c) ==
    /\ pc[c] = "backfill"
    /\ \/ fts = "none" /\ Fatal(c)
       \/ /\ fts # "none"
          /\ docs' = docs \cup {At(i, i, items[i]) : i \in DOMAIN items \ Scanned}
          /\ Goto(c, "done")
          /\ UNCHANGED <<items, fts, trigger, touched>>

\* cmd/rebuild-fts and cmd/rebuild-fts-simple.
DropIndex(c) ==
    /\ pc[c] = "drop"
    /\ fts' = "none" /\ docs' = {}
    /\ Touch(c, "create")
    /\ UNCHANGED <<items, trigger>>

RecreateIndex(c) ==
    /\ pc[c] = "create"
    /\ \/ fts # "none" /\ Fatal(c)
       \/ /\ fts = "none"
          /\ fts' = IF kind[c] = "simple" THEN "simple" ELSE "external"
          /\ Touch(c, "populate")
          /\ UNCHANGED <<items, docs, trigger>>

\* The INSERT names no rowid.
WrongPopulate(c) ==
    /\ pc[c] = "populate" /\ fts # "none"
    /\ docs' = docs \cup {[d EXCEPT !.id = @ + 1] : d \in Numbered(items, DOMAIN items)}
    /\ Touch(c, IF kind[c] = "simple" THEN "done" ELSE "untrigger")
    /\ UNCHANGED <<items, fts, trigger>>
Populate(c) ==
    /\ pc[c] = "populate"
    /\ \/ fts = "none" /\ Fatal(c)
       \/ /\ fts # "none"
          /\ docs' = docs \cup Numbered(items, DOMAIN items)
          /\ Touch(c, IF kind[c] = "simple" THEN "done" ELSE "untrigger")
          /\ UNCHANGED <<items, fts, trigger>>

DropTrigger(c) ==
    /\ pc[c] = "untrigger" /\ trigger' = "none"
    /\ Touch(c, "retrigger")
    /\ UNCHANGED <<items, fts, docs>>

RecreateTrigger(c) ==
    /\ pc[c] = "retrigger"
    /\ \/ trigger # "none" /\ Fatal(c)
       \/ /\ trigger = "none" /\ trigger' = "auto"
          /\ Touch(c, "done")
          /\ UNCHANGED <<items, fts, docs>>

\* The process is killed, or its statement finds the database locked.
Kill(c) ==
    /\ pc[c] \notin {"idle"} \cup Ends /\ kills < MaxKills
    /\ kills' = kills + 1
    /\ pc' = [pc EXCEPT ![c] = "idle"] /\ alone' = Nobody
    /\ UNCHANGED <<items, index, kind, touched>>

Next ==
    \/ \E c \in Commands :
          \/ \E k \in {"migrate", "rebuild", "simple"} : Start(c, k)
          \/ CreateIndex(c) \/ CreateTrigger(c) \/ InsertSamples(c) \/ Backfill(c)
          \/ DropIndex(c) \/ RecreateIndex(c) \/ Populate(c)
          \/ DropTrigger(c) \/ RecreateTrigger(c) \/ Kill(c)
    \/ \E table \in Catalogs : Import(table)

Spec == Init /\ [][Next]_vars

-----------------------------------------------------------------------------
\* SELECT ... FROM items_fts JOIN items ON type_id WHERE items_fts MATCH w.
Queries == Words \cup Ids
Hits(w) == {d \in docs : d.word = w \/ (fts = "simple" /\ d.id = w)}
\* An external table has no row to read for such a hit: the query fails.
Readable(w) == fts = "external" => \A d \in Hits(w) : d.id \in DOMAIN items
Found(i, w) == {d \in Hits(w) : d.id = i}

\* A search answers with each item that has the word, once, and with no other.
SearchIsExact ==
    /\ fts # "none"
    /\ \A w \in Queries :
          /\ Readable(w)
          /\ \A i \in DOMAIN items :
                IF items[i] = w THEN \E d \in Found(i, w) : Found(i, w) = {d}
                                ELSE Found(i, w) = {}

\* Whatever a rebuild has made of the index, an import puts it right, and from
\* then on migrations, imports and kills of them keep search exact, until the
\* next rebuild writes to it (importer.go createFTS, cmd/migrate).
UntouchedIsExact ==
    ~touched => SearchIsExact \/ (fts = "none" /\ items = Empty)

\* rebuild-fts-simple, when nothing interrupts it, leaves an index that answers a
\* query with each item whose name or type_id it is, once, whatever index it found
\* (cmd/rebuild-fts-simple), and no entry that the join with items would drop
\* while COUNT(*) counts it (ItemHandler.Search).
Finished(c) == alone = c /\ kind[c] = "simple" /\ pc[c] = "done"
SimpleFindsNamesAndIds ==
    \A c \in Commands : Finished(c) => \A w \in Queries :
        /\ {d.id : d \in Hits(w)} = {i \in DOMAIN items : w \in {items[i], i}}
        /\ \A d, e \in Hits(w) : d.id = e.id => d = e

\* Rows numbered from 1 in the order of their ids keep their ids exactly if there
\* is no gap in these.
Dense(S) == S = 1 .. Cardinality(S)

\* rebuild-fts, when nothing interrupts it, leaves an exact search if and only if
\* the type_ids of the catalogue are 1, 2, ..., n: whatever index it found, and
\* for no other catalogue (cmd/rebuild-fts, the INSERT without a rowid).
RebuiltIfDense ==
    \A c \in Commands :
        alone = c /\ kind[c] = "rebuild" /\ pc[c] = "done"
            => (SearchIsExact <=> Dense(DOMAIN items))

\* A migration nothing interrupts succeeds on every database the commands can
\* have left behind: the container starts the server only then (Dockerfile).
MigrateSucceeds ==
    \A c \in Commands : alone = c /\ kind[c] = "migrate" => pc[c] # "failed"

\* "FTS index rebuilt successfully!" (cmd/rebuild-fts): what it says at its end.
RebuiltIsExact ==
    \A c \in Commands :
        alone = c /\ kind[c] = "rebuild" /\ pc[c] = "done" => SearchIsExact
=============================================================================
