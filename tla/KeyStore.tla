----------------------------- MODULE KeyStore -----------------------------
(***************************************************************************)
(* The API key manager (internal/auth), as the single SQL statements of    *)
(* concurrent requests.  Every operation of the Manager first upgrades the *)
(* table: it adds key_hash, indexes it, and replaces raw keys by hashes.   *)
(* An import may hold the database's write lock for longer than a          *)
(* statement waits for it.                                                 *)
(*                                                                         *)
(* A text is told apart only by what it is to the key it was issued as:    *)
(* the key itself ("raw"), its hash ("own"), or the hash of something else *)
(* ("lost").                                                               *)
(***************************************************************************)
EXTENDS Integers

CONSTANTS Requests,    \* HTTP requests and commands under way at once
          Ids,         \* row ids, each with the key issued as that row
          NoKey,       \* no key is asked about
          MaxFaults    \* bound: I/O errors, cancelled requests and kills

ASSUME KeyAssumption == NoKey \notin Ids /\ MaxFaults \in Nat

VARIABLES
    hasColumn, hasIndex,     \* schema: api_keys.key_hash and its index
    stored, key, hash,       \* rows: which exist, what the columns hold
    active, expired,         \*   which are active, whose expires_at is over
    importing,               \* an import holds the write lock
    pc, op, arg,             \* per request: statement, operation, key
    rows, text,              \*   rows and keys migratePlaintextKeys selected
    answer,                  \*   what it was told
    hurt,                    \*   its own statement failed
    faults

schema  == <<hasColumn, hasIndex>>
table   == <<stored, key, hash, active>>
request == <<pc, op, arg, rows, text, answer, hurt>>
world   == <<expired, importing, faults>>
vars    == <<schema, table, request, world>>

Ops == {"create", "validate", "list", "revokeKey", "revoke", "upgrade"}
\* The statement an operation came for, once the schema is ensured.
Final == {"create", "validate", "list", "revokeKey", "revoke"}
\* Statements that name key_hash.
Hashing == {"select", "migrate", "create", "validate", "list", "revokeKey"}

TypeOK ==
    /\ hasColumn \in BOOLEAN /\ hasIndex \in BOOLEAN
    /\ stored \subseteq Ids /\ active \subseteq stored /\ expired \subseteq stored
    /\ key \in [Ids -> {"none", "raw", "own", "lost"}]
    /\ hash \in [Ids -> {"none", "own", "lost"}]
    /\ \A i \in Ids : (key[i] = "none") <=> (i \notin stored)
    /\ importing \in BOOLEAN
    /\ pc \in [Requests -> {"idle", "check", "alter", "recheck", "index"} \cup Hashing \cup Final]
    /\ op \in [Requests -> Ops \cup {"none"}]
    /\ arg \in [Requests -> Ids \cup {NoKey}]
    /\ rows \in [Requests -> SUBSET Ids]
    /\ text \in [Requests -> [Ids -> {"none", "raw", "own", "lost"}]]
    /\ answer \in [Requests -> {"none", "pending", "ok", "refused", "error", "stopped"}]
    /\ hurt \in [Requests -> BOOLEAN]
    /\ faults \in Nat

\* No text read.
Nothing == [i \in Ids |-> "none"]

\* A new table, an old one without the column, one that cmd/migrate gave the
\* column, or one where a hash was added beside a raw key.
Init ==
    /\ hasColumn \in BOOLEAN /\ hasIndex \in BOOLEAN
    /\ hasIndex => hasColumn
    /\ stored \in SUBSET Ids
    /\ key = [i \in Ids |-> IF i \in stored THEN "raw" ELSE "none"]
    /\ hash \in [Ids -> {"none", "own"}]
    /\ \A i \in Ids : hash[i] = "own" => (hasColumn /\ i \in stored)
    /\ active \in SUBSET stored /\ expired = {}
    /\ importing = FALSE
    /\ pc = [r \in Requests |-> "idle"]
    /\ op = [r \in Requests |-> "none"]
    /\ arg = [r \in Requests |-> NoKey]
    /\ rows = [r \in Requests |-> {}]
    /\ text = [r \in Requests |-> Nothing]
    /\ answer = [r \in Requests |-> "none"]
    /\ hurt = [r \in Requests |-> FALSE]
    /\ faults = 0

-----------------------------------------------------------------------------
\* Operators called Wrong... are not the code's: each is the operator after it
\* with a mistake the code could have had, and a property that catches it.
At(r, l) == pc[r] = l
Goto(r, l) ==
    /\ pc' = [pc EXCEPT ![r] = l]
    /\ UNCHANGED <<op, arg, rows, text, answer, hurt>>
\* It is told a, and what it had in memory is gone.
End(r, a) ==
    /\ pc' = [pc EXCEPT ![r] = "idle"]
    /\ op' = [op EXCEPT ![r] = "none"] /\ arg' = [arg EXCEPT ![r] = NoKey]
    /\ rows' = [rows EXCEPT ![r] = {}] /\ text' = [text EXCEPT ![r] = Nothing]
    /\ answer' = [answer EXCEPT ![r] = a]
Answer(r, a) == End(r, a) /\ hurt' = [hurt EXCEPT ![r] = a = "error" /\ @]

\* HashAPIKey; keyReference puts a fixed prefix before it.
HashOf(t) == IF t = "raw" THEN "own" ELSE "lost"

\* A request comes in, or a command starts.  Revoking by id needs no hashes,
\* and the key GenerateAPIKey draws is nobody's.
Arrive(r, o, i) ==
    /\ At(r, "idle")
    /\ o = "create" => /\ i \notin stored
                       /\ \A q \in Requests : At(q, "idle") \/ op[q] # "create" \/ arg[q] # i
    /\ (o \in {"list", "upgrade"}) = (i = NoKey)
    /\ pc' = [pc EXCEPT ![r] = IF o = "revoke" THEN "revoke" ELSE "check"]
    /\ op' = [op EXCEPT ![r] = o] /\ arg' = [arg EXCEPT ![r] = i]
    /\ answer' = [answer EXCEPT ![r] = "pending"]
    /\ hurt' = [hurt EXCEPT ![r] = FALSE]
    /\ UNCHANGED <<schema, table, world, rows, text>>

\* ensureKeyHashSchema: PRAGMA table_info, then ALTER TABLE if need be.
CheckColumn(r) ==
    /\ At(r, "check")
    /\ Goto(r, IF hasColumn THEN "index" ELSE "alter")
    /\ UNCHANGED <<schema, table, world>>

Alter(r) ==
    /\ At(r, "alter") /\ ~hasColumn /\ ~importing
    /\ hasColumn' = TRUE
    /\ Goto(r, "index")
    /\ UNCHANGED <<hasIndex, table, world>>

\* Somebody else has added the column since the check.  The server looks
\* again; the commands stop.
WrongDuplicateColumn(r) ==
    /\ At(r, "alter") /\ hasColumn
    /\ Answer(r, "error")
    /\ UNCHANGED <<schema, table, world>>
DuplicateColumn(r) ==
    /\ At(r, "alter") /\ hasColumn
    /\ \/ op[r] # "upgrade" /\ Goto(r, "recheck")
       \/ op[r] = "upgrade" /\ Answer(r, "stopped")
    /\ UNCHANGED <<schema, table, world>>

WrongRecheckAnyway(r) ==
    /\ At(r, "recheck") /\ Goto(r, "index")
    /\ UNCHANGED <<schema, table, world>>
Recheck(r) ==
    /\ At(r, "recheck")
    /\ \/ hasColumn /\ Goto(r, "index")
       \/ ~hasColumn /\ Answer(r, "error")
    /\ UNCHANGED <<schema, table, world>>

\* CREATE UNIQUE INDEX IF NOT EXISTS writes only if there is none.
CreateIndex(r) ==
    /\ At(r, "index") /\ (hasIndex \/ ~importing)
    /\ hasIndex' = TRUE
    /\ \/ op[r] # "upgrade" /\ Goto(r, "select")
       \/ op[r] = "upgrade" /\ Answer(r, "ok")
    /\ UNCHANGED <<hasColumn, table, world>>

\* migratePlaintextKeys reads the rows without a hash into memory ...
Read(r, found) ==
    /\ pc' = [pc EXCEPT ![r] = "migrate"]
    /\ rows' = [rows EXCEPT ![r] = found]
    /\ text' = [text EXCEPT ![r] = [i \in Ids |-> IF i \in found THEN key[i] ELSE "none"]]
    /\ UNCHANGED <<schema, table, world, op, arg, answer, hurt>>
WrongSelect(r) ==
    /\ At(r, "select")
    /\ Read(r, stored)
Select(r) ==
    /\ At(r, "select")
    /\ Read(r, {i \in stored : hash[i] = "none"})

\* ... replaces them one by one, each in a transaction of its own ...
WrongMigrateKey(r, i) ==
    /\ At(r, "migrate") /\ i \in rows[r] /\ ~importing
    /\ hash' = [hash EXCEPT ![i] = HashOf(text[r][i])]
    /\ key' = [key EXCEPT ![i] = HashOf(text[r][i])]
    /\ active' = active \cup {i}
    /\ rows' = [rows EXCEPT ![r] = @ \ {i}]
    /\ UNCHANGED <<schema, stored, world, pc, op, arg, text, answer, hurt>>
MigrateKey(r, i) ==
    /\ At(r, "migrate") /\ i \in rows[r] /\ ~importing
    /\ hash' = [hash EXCEPT ![i] = HashOf(text[r][i])]
    /\ key' = [key EXCEPT ![i] = HashOf(text[r][i])]
    /\ rows' = [rows EXCEPT ![r] = @ \ {i}]
    /\ UNCHANGED <<schema, stored, active, world, pc, op, arg, text, answer, hurt>>

\* ... and then every raw key that is left beside a hash.  This UPDATE takes
\* the write lock even when no row matches.
WrongTidy(r) ==
    /\ At(r, "migrate") /\ rows[r] = {} /\ ~importing
    /\ pc' = [pc EXCEPT ![r] = op[r]]
    /\ text' = [text EXCEPT ![r] = Nothing]
    /\ UNCHANGED <<schema, table, world, op, arg, rows, answer, hurt>>
Tidy(r) ==
    /\ At(r, "migrate") /\ rows[r] = {} /\ ~importing
    /\ key' = [i \in Ids |-> IF hash[i] # "none" THEN hash[i] ELSE key[i]]
    /\ pc' = [pc EXCEPT ![r] = op[r]]
    /\ text' = [text EXCEPT ![r] = Nothing]
    /\ UNCHANGED <<schema, stored, hash, active, world, op, arg, rows, answer, hurt>>

-----------------------------------------------------------------------------
\* The operations themselves: one statement each.
Put(r, i, k) ==
    /\ stored' = stored \cup {i} /\ active' = active \cup {i}
    /\ key' = [key EXCEPT ![i] = k] /\ hash' = [hash EXCEPT ![i] = "own"]
    /\ Answer(r, "ok")
    /\ UNCHANGED <<schema, world>>
WrongCreateEmpty(r) ==
    At(r, "create") /\ ~importing /\ Put(r, arg[r], "none")
WrongCreateRaw(r) ==
    At(r, "create") /\ ~importing /\ Put(r, arg[r], "raw")
CreateAPIKey(r) ==
    At(r, "create") /\ ~importing /\ Put(r, arg[r], HashOf("raw"))

\* The row is found by the hash of the key that was presented.
ValidateAPIKey(r) ==
    /\ At(r, "validate")
    /\ LET i == arg[r]
       IN Answer(r, IF hash[i] = HashOf("raw") /\ i \in active \ expired
                    THEN "ok" ELSE "refused")
    /\ UNCHANGED <<schema, table, world>>

\* Scan cannot read NULL into the string KeyHash.
ListAPIKeys(r) ==
    /\ At(r, "list")
    /\ Answer(r, IF \E i \in stored : hash[i] = "none" THEN "error" ELSE "ok")
    /\ UNCHANGED <<schema, table, world>>

Deactivate(r, found) ==
    /\ ~importing
    /\ active' = active \ found
    /\ Answer(r, IF found = {} THEN "refused" ELSE "ok")
    /\ UNCHANGED <<schema, stored, key, hash, world>>
RevokeAPIKey(r) ==
    /\ At(r, "revokeKey")
    /\ Deactivate(r, {i \in {arg[r]} : hash[i] = HashOf("raw") \/ key[i] = "raw"})
RevokeKey(r) == At(r, "revoke") /\ Deactivate(r, {arg[r]} \cap stored)

-----------------------------------------------------------------------------
\* A statement fails and the operation returns its error, except that a failed
\* ALTER TABLE makes the server look again.
StatementFails(r) ==
    /\ hurt' = [hurt EXCEPT ![r] = TRUE]
    /\ \/ /\ At(r, "alter") /\ op[r] # "upgrade"
          /\ pc' = [pc EXCEPT ![r] = "recheck"]
          /\ UNCHANGED <<op, arg, rows, text, answer>>
       \/ ~(At(r, "alter") /\ op[r] # "upgrade") /\ End(r, "error")
    /\ UNCHANGED <<schema, table>>

\* It has waited for the import's write lock as long as it may.
Busy(r) ==
    /\ importing
    /\ \/ pc[r] \in {"alter", "migrate", "create", "revokeKey", "revoke"}
       \/ At(r, "index") /\ ~hasIndex
    /\ StatementFails(r)
    /\ UNCHANGED world

\* An I/O error, or the client has gone and its context is cancelled.
Fail(r) ==
    /\ ~At(r, "idle") /\ faults < MaxFaults
    /\ faults' = faults + 1
    /\ StatementFails(r)
    /\ UNCHANGED <<expired, importing>>

\* The machine goes down with all requests and the import, which rolls back.
Crash ==
    /\ faults < MaxFaults /\ faults' = faults + 1
    /\ importing' = FALSE
    /\ pc' = [r \in Requests |-> "idle"]
    /\ op' = [r \in Requests |-> "none"] /\ arg' = [r \in Requests |-> NoKey]
    /\ rows' = [r \in Requests |-> {}] /\ text' = [r \in Requests |-> Nothing]
    /\ answer' = [r \in Requests |-> IF At(r, "idle") THEN answer[r] ELSE "none"]
    /\ hurt' = [r \in Requests |-> At(r, "idle") /\ hurt[r]]
    /\ UNCHANGED <<schema, table, expired>>

ImportBegins == ~importing /\ importing' = TRUE
                /\ UNCHANGED <<schema, table, request, expired, faults>>
ImportEnds == importing /\ importing' = FALSE
              /\ UNCHANGED <<schema, table, request, expired, faults>>

Expire(i) == /\ i \in stored \ expired /\ expired' = expired \cup {i}
             /\ UNCHANGED <<schema, table, request, importing, faults>>

Step(r) ==
    \/ CheckColumn(r) \/ Alter(r) \/ DuplicateColumn(r) \/ Recheck(r)
    \/ CreateIndex(r) \/ Select(r) \/ \E i \in Ids : MigrateKey(r, i)
    \/ Tidy(r) \/ CreateAPIKey(r) \/ ValidateAPIKey(r) \/ ListAPIKeys(r)
    \/ RevokeAPIKey(r) \/ RevokeKey(r) \/ Busy(r)

Next ==
    \/ \E r \in Requests : \/ \E o \in Ops, i \in Ids \cup {NoKey} : Arrive(r, o, i)
                           \/ Step(r) \/ Fail(r)
    \/ \E i \in Ids : Expire(i)
    \/ ImportBegins \/ ImportEnds \/ Crash

Spec == Init /\ [][Next]_vars

-----------------------------------------------------------------------------
\* No upgrade, cut short or raced, hashes a row twice: whoever holds a key can
\* still be recognised (migratePlaintextKeys).
EveryKeyIsKnown == \A i \in stored : hash[i] = "own" \/ key[i] = "raw"

Plaintext == {i \in stored : key[i] = "raw"}

\* When an operation gets to its own statement no raw key is left in the table,
\* whoever else is upgrading or has failed to (ensureKeyHashSchema).
HashedAtUse ==
    \A r \in Requests : pc[r] \in Final \ {"revoke"} => Plaintext = {}

\* A raw key that was replaced never comes back, and none is added: what an
\* upgrade read before another one wrote cannot undo it.
PlaintextOnlyShrinks == [][Plaintext' \subseteq Plaintext]_vars

\* A statement that names key_hash finds the column, and every row that has a
\* hash is under the unique index, whichever request upgraded the table.
SchemaReady ==
    \A r \in Requests : pc[r] \in Hashing => hasColumn /\ hasIndex

\* A request none of whose statements failed gets a real answer: racing upgrades
\* of one table do not make each other's requests fail.  (A command does stop
\* when another adds the column between its check and its ALTER TABLE.)
UnhurtIsServed == \A r \in Requests : answer[r] = "error" => hurt[r]

\* 401 is for an unknown, revoked or expired key, if there is one at all: Auth
\* answers it to every error of ValidateAPIKey.
Unauthorized(r) ==
    op[r] = "validate" /\ At(r, "idle")' /\ answer'[r] \in {"refused", "error"}
RefusedIsInvalid ==
    [][\A r \in Requests : Unauthorized(r) => arg[r] \notin active \ expired]_vars

\* What of that the manager itself upholds: a valid key is refused only when one of
\* its own request's statements failed.  No race of upgrades, no kill in the middle
\* of one and no other request's failure makes a key unknown for a moment.
RefusedIsHurt ==
    [][\A r \in Requests :
         Unauthorized(r) => arg[r] \notin active \ expired \/ hurt'[r]]_vars

-----------------------------------------------------------------------------
Registry == INSTANCE KeyRegistry
    WITH issued <- stored, revoked <- stored \ active,
         asked <- op, about <- arg

\* Hashing and upgrading are invisible: every answer is one a plain registry of
\* keys gives at one moment, a revoked key stays revoked and a created one is
\* admitted until it is revoked or expires.
KeepsRegistry == Registry!Spec
=============================================================================
