-------------------------- MODULE KeyStoreProofs --------------------------
(***************************************************************************)
(* What holds of KeyStore for any number of requests, keys and faults.     *)
(* The invariants need to know, of each statement, what the statements     *)
(* before it have established although other requests, kills and an import *)
(* come in between: that is UpgradeKnows and UpgradeDone.                  *)
(***************************************************************************)
EXTENDS KeyStore, TLAPS
\* TypeOK in two parts: the database and the faults, and the requests.
TypeTable ==
    /\ hasColumn \in BOOLEAN /\ hasIndex \in BOOLEAN
    /\ stored \subseteq Ids /\ active \subseteq stored /\ expired \subseteq stored
    /\ key \in [Ids -> {"none", "raw", "own", "lost"}]
    /\ hash \in [Ids -> {"none", "own", "lost"}]
    /\ importing \in BOOLEAN
    /\ faults \in Nat

Labels == {"idle", "check", "alter", "recheck", "index"} \cup Hashing \cup Final
Told == {"none", "ok", "refused", "error", "stopped"}
TypeRequests ==
    /\ pc \in [Requests -> Labels]
    /\ op \in [Requests -> Ops \cup {"none"}]
    /\ arg \in [Requests -> Ids \cup {NoKey}]
    /\ rows \in [Requests -> SUBSET Ids]
    /\ text \in [Requests -> [Ids -> {"none", "raw", "own", "lost"}]]
    /\ answer \in [Requests -> Told \cup {"pending"}]
    /\ hurt \in [Requests -> BOOLEAN]

\* What a row can look like: no row, a raw key with or without its hash, or
\* the hash in both columns.
RowsOK ==
    \A i \in Ids :
        \/ i \notin stored /\ key[i] = "none" /\ hash[i] = "none"
        \/ i \in stored /\ key[i] = "raw" /\ hash[i] \in {"none", "own"}
        \/ i \in stored /\ key[i] = "own" /\ hash[i] = "own"

\* Statements after the column was seen or added, and after the index was.
SchemaSeen ==
    \A r \in Requests :
        /\ pc[r] \in Hashing \cup {"index"} => hasColumn
        /\ pc[r] \in Hashing => hasIndex
        /\ pc[r] = "recheck" => hasColumn \/ hurt[r]

\* A request in its upgrade knows of every row that has no hash, and read the
\* raw key of each row it still has to write.
UpgradeKnows ==
    \A r \in Requests :
        /\ pc[r] = "migrate" => \A i \in stored : hash[i] = "none" => i \in rows[r]
        /\ \A i \in rows[r] : i \in stored /\ text[r][i] = "raw"

\* Behind the upgrade every row holds its hash in both columns.
UpgradeDone ==
    \A r \in Requests :
        pc[r] \in Final \ {"revoke"} => \A i \in stored : key[i] = "own"

\* What a request asks, where it is, and that it waits for an answer.
RequestsOK ==
    \A r \in Requests :
        /\ (answer[r] = "pending") <=> (pc[r] # "idle")
        /\ pc[r] \in Final => op[r] = pc[r]
        /\ (op[r] = "none") <=> (pc[r] = "idle")
        /\ (arg[r] = NoKey) <=> (op[r] \in {"none", "list", "upgrade"})
        /\ op[r] = "upgrade" => pc[r] \in {"check", "alter", "index"}
        /\ op[r] = "revoke" => pc[r] = "revoke"

\* A generated key is nobody's until it is stored.
FreshKeys ==
    \A r \in Requests : op[r] = "create" =>
        /\ arg[r] \notin stored
        /\ \A q \in Requests : op[q] = "create" /\ arg[q] = arg[r] => q = r

Inv == /\ TypeTable /\ TypeRequests /\ RowsOK /\ SchemaSeen /\ UpgradeKnows /\ UpgradeDone
       /\ RequestsOK /\ FreshKeys /\ UnhurtIsServed


-----------------------------------------------------------------------------
\* Ending keeps the invariant, whatever the request is told, as long as the
\* rows are left alone (active may change) and an error has its cause.
LEMMA EndKeeps ==
  ASSUME Inv, TypeTable', UNCHANGED <<stored, key, hash>>,
         hasColumn => hasColumn', hasIndex => hasIndex',
         NEW r \in Requests, NEW a \in Told, NEW b \in BOOLEAN,
         a = "error" => b, hurt' = [hurt EXCEPT ![r] = b], End(r, a)
  PROVE  Inv'
<1>1. TypeRequests'
  BY DEF Inv, TypeRequests, Labels, Told, End, Nothing
<1>2. RowsOK' /\ UpgradeKnows' /\ UpgradeDone'
  BY DEF Inv, TypeRequests, RowsOK, UpgradeKnows, UpgradeDone, End, Final
<1>3. RequestsOK' /\ FreshKeys'
  BY KeyAssumption DEF Inv, TypeRequests, RequestsOK, FreshKeys, End, Final, Told
<1>4. SchemaSeen' /\ UnhurtIsServed'
  BY DEF Inv, TypeRequests, SchemaSeen, UnhurtIsServed, End, Hashing
<1> QED BY <1>1, <1>2, <1>3, <1>4 DEF Inv

\* A failed statement sends the server back to the check or ends the request.
LEMMA FailsKeeps ==
  ASSUME Inv, TypeTable', NEW r \in Requests, pc[r] # "idle", StatementFails(r)
  PROVE  Inv'
<1>1. CASE At(r, "alter") /\ op[r] # "upgrade"
  <2>1. /\ pc' = [pc EXCEPT ![r] = "recheck"] /\ hurt' = [hurt EXCEPT ![r] = TRUE]
        /\ UNCHANGED <<schema, table, op, arg, rows, text, answer>>
    BY <1>1 DEF StatementFails
  <2>2. TypeRequests'
    BY <2>1 DEF Inv, TypeRequests, Labels
  <2>3. RowsOK' /\ UpgradeKnows'
    BY <2>1 DEF Inv, TypeRequests, RowsOK, UpgradeKnows, table
  <2>4. UpgradeDone'
    BY <2>1 DEF Inv, TypeRequests, UpgradeDone, Final, table
  <2>5. RequestsOK' /\ FreshKeys'
    BY <1>1, <2>1 DEF Inv, TypeRequests, RequestsOK, FreshKeys, At, Final, table
  <2>6. SchemaSeen' /\ UnhurtIsServed'
    BY <2>1 DEF Inv, TypeRequests, SchemaSeen, UnhurtIsServed, Hashing, schema
  <2> QED BY <2>2, <2>3, <2>4, <2>5, <2>6 DEF Inv
<1>2. CASE ~(At(r, "alter") /\ op[r] # "upgrade")
  <2>1. End(r, "error") /\ hurt' = [hurt EXCEPT ![r] = TRUE]
    BY <1>2 DEF StatementFails
  <2> QED BY <2>1, EndKeeps DEF StatementFails, schema, table, Told
<1> QED BY <1>1, <1>2

\* A request moves on to a statement l, which the invariant allows.
LEMMA GotoKeeps ==
  ASSUME Inv, TypeTable', UNCHANGED <<stored, key, hash>>,
         hasColumn => hasColumn', hasIndex => hasIndex',
         NEW r \in Requests, NEW l \in {"alter", "recheck", "index", "select"},
         pc[r] \in {"check", "alter", "recheck", "index"}, op[r] # "revoke",
         op[r] = "upgrade" => l \in {"alter", "index"},
         l \in {"recheck", "index", "select"} => hasColumn', l = "select" => hasIndex',
         Goto(r, l)
  PROVE  Inv'
<1>1. TypeRequests'
  BY DEF Inv, TypeRequests, Labels, Hashing, Goto
<1>2. RowsOK' /\ UpgradeKnows'
  BY DEF Inv, TypeRequests, RowsOK, UpgradeKnows, Goto
<1>3. UpgradeDone'
  BY DEF Inv, TypeRequests, UpgradeDone, Goto, Final
<1>4. RequestsOK' /\ FreshKeys'
  BY DEF Inv, TypeRequests, RequestsOK, FreshKeys, Goto, Final
<1>5. SchemaSeen' /\ UnhurtIsServed'
  BY DEF Inv, TypeRequests, SchemaSeen, UnhurtIsServed, Goto, Hashing
<1> QED BY <1>1, <1>2, <1>3, <1>4, <1>5 DEF Inv

\* The steps of the schema upgrade.
LEMMA SchemaKeeps ==
  ASSUME Inv, NEW r \in Requests,
         CheckColumn(r) \/ Alter(r) \/ DuplicateColumn(r) \/ Recheck(r) \/ CreateIndex(r)
  PROVE  Inv'
<1> USE DEF At, schema, table, world
<1>1. CASE CheckColumn(r)
  <2>1. TypeTable'
    BY <1>1 DEF Inv, TypeTable, CheckColumn
  <2> QED BY <1>1, <2>1, GotoKeeps DEF CheckColumn, Inv, RequestsOK
<1>2. CASE Alter(r)
  <2>1. TypeTable'
    BY <1>2 DEF Inv, TypeTable, Alter
  <2> QED BY <1>2, <2>1, GotoKeeps DEF Alter, Inv, RequestsOK
<1>3. CASE DuplicateColumn(r)
  <2>1. TypeTable'
    BY <1>3 DEF Inv, TypeTable, DuplicateColumn
  <2>2. CASE op[r] # "upgrade" /\ Goto(r, "recheck")
    BY <1>3, <2>1, <2>2, GotoKeeps DEF DuplicateColumn, Inv, RequestsOK
  <2>3. CASE Answer(r, "stopped")
    BY <1>3, <2>1, <2>3, EndKeeps DEF DuplicateColumn, Answer, Told
  <2> QED BY <1>3, <2>2, <2>3 DEF DuplicateColumn
<1>4. CASE Recheck(r)
  <2>1. TypeTable'
    BY <1>4 DEF Inv, TypeTable, Recheck
  <2>2. CASE hasColumn /\ Goto(r, "index")
    BY <1>4, <2>1, <2>2, GotoKeeps DEF Recheck, Inv, RequestsOK
  <2>3. CASE ~hasColumn /\ Answer(r, "error")
    <3>1. hurt[r] = TRUE
      BY <1>4, <2>3 DEF Recheck, Inv, SchemaSeen, TypeRequests
    <3>2. hurt' = [hurt EXCEPT ![r] = TRUE] /\ End(r, "error")
      BY <2>3, <3>1 DEF Answer
    <3> QED BY <1>4, <2>1, <3>2, EndKeeps DEF Recheck, Told
  <2> QED BY <1>4, <2>2, <2>3 DEF Recheck
<1>5. CASE CreateIndex(r)
  <2>1. TypeTable'
    BY <1>5 DEF Inv, TypeTable, CreateIndex
  <2>2. hasColumn
    BY <1>5 DEF CreateIndex, Inv, SchemaSeen
  <2>3. CASE op[r] # "upgrade" /\ Goto(r, "select")
    BY <1>5, <2>1, <2>2, <2>3, GotoKeeps DEF CreateIndex, Inv, RequestsOK
  <2>4. CASE Answer(r, "ok")
    BY <1>5, <2>1, <2>4, EndKeeps DEF CreateIndex, Answer, Told
  <2> QED BY <1>5, <2>3, <2>4 DEF CreateIndex
<1> QED BY <1>1, <1>2, <1>3, <1>4, <1>5

\* A request that reads the rows without a hash knows of all of them.
LEMMA SelectKeeps ==
  ASSUME Inv, NEW r \in Requests, Select(r)
  PROVE  Inv'
<1> USE DEF Select, Read, At, schema, table, world
<1>1. TypeTable' /\ TypeRequests'
  BY DEF Inv, TypeTable, TypeRequests, Labels, Hashing
<1>2. RowsOK'
  BY DEF Inv, RowsOK
<1>6. UpgradeKnows'
  BY DEF Inv, TypeTable, TypeRequests, RowsOK, UpgradeKnows
<1>3. UpgradeDone'
  BY DEF Inv, TypeRequests, UpgradeDone, Final
<1>4. RequestsOK' /\ FreshKeys'
  BY DEF Inv, TypeRequests, RequestsOK, FreshKeys, Final
<1>5. SchemaSeen' /\ UnhurtIsServed'
  BY DEF Inv, TypeRequests, SchemaSeen, UnhurtIsServed, Hashing
<1> QED BY <1>1, <1>2, <1>3, <1>4, <1>5, <1>6 DEF Inv

\* Several upgrades may write the same row, and all of them write its hash.
LEMMA MigrateKeyKeeps ==
  ASSUME Inv, NEW r \in Requests, NEW i \in Ids, MigrateKey(r, i)
  PROVE  Inv'
<1> USE DEF MigrateKey, At, schema, table, world
<1>1. i \in stored /\ HashOf(text[r][i]) = "own"
  BY DEF Inv, UpgradeKnows, HashOf
<1>2. TypeTable' /\ TypeRequests'
  BY <1>1 DEF Inv, TypeTable, TypeRequests
<1>3. RowsOK' /\ UpgradeKnows'
  BY <1>1 DEF Inv, TypeTable, TypeRequests, RowsOK, UpgradeKnows
<1>4. UpgradeDone'
  BY <1>1 DEF Inv, TypeTable, TypeRequests, UpgradeDone
<1>5. RequestsOK' /\ FreshKeys'
  BY DEF Inv, RequestsOK, FreshKeys
<1>6. SchemaSeen' /\ UnhurtIsServed'
  BY DEF Inv, SchemaSeen, UnhurtIsServed
<1> QED BY <1>2, <1>3, <1>4, <1>5, <1>6 DEF Inv

\* The last UPDATE leaves no raw key: what had no hash was in rows, and rows is
\* empty.
LEMMA TidyKeeps ==
  ASSUME Inv, NEW r \in Requests, Tidy(r)
  PROVE  Inv'
<1> USE DEF Tidy, At, schema, table, world
<1>1. op[r] \in Final \ {"revoke"}
  BY DEF Inv, TypeRequests, RequestsOK, Final, Ops
<1>2. \A i \in stored : hash[i] = "own"
  BY DEF Inv, TypeTable, RowsOK, UpgradeKnows
<1>3. \A i \in stored : key'[i] = "own"
  BY <1>2 DEF Inv, TypeTable
<1>4. TypeTable'
  BY DEF Inv, TypeTable
<1>5. TypeRequests'
  BY <1>1 DEF Inv, TypeRequests, Labels, Nothing
<1>6. RowsOK'
  BY <1>2 DEF Inv, TypeTable, RowsOK
<1>7. UpgradeKnows'
  BY <1>1, <1>2 DEF Inv, TypeTable, TypeRequests, UpgradeKnows, Final
<1>8. UpgradeDone'
  BY <1>3 DEF UpgradeDone
<1>9. RequestsOK' /\ FreshKeys'
  BY <1>1 DEF Inv, TypeRequests, RequestsOK, FreshKeys, Final
<1>10. SchemaSeen' /\ UnhurtIsServed'
  BY <1>1 DEF Inv, TypeRequests, SchemaSeen, UnhurtIsServed, Hashing, Final
<1> QED BY <1>4, <1>5, <1>6, <1>7, <1>8, <1>9, <1>10 DEF Inv

\* A new row has its hash, so no upgrade under way misses it.
LEMMA CreateKeeps ==
  ASSUME Inv, NEW r \in Requests, CreateAPIKey(r)
  PROVE  Inv'
<1> USE DEF CreateAPIKey, Put, Answer, End, HashOf, At, schema, world
<1>1. arg[r] \in Ids \ stored /\ op[r] = "create"
  BY DEF Inv, TypeRequests, RequestsOK, FreshKeys, Final
<1>2. \A i \in Ids : i # arg[r] => key'[i] = key[i] /\ hash'[i] = hash[i]
  BY DEF Inv, TypeTable
<1>3. key'[arg[r]] = "own" /\ hash'[arg[r]] = "own"
  BY <1>1 DEF Inv, TypeTable
<1>4. TypeTable'
  BY <1>1 DEF Inv, TypeTable
<1>5. TypeRequests'
  BY DEF Inv, TypeRequests, Labels, Told, Nothing
<1>6. RowsOK'
  BY <1>1, <1>2, <1>3 DEF Inv, RowsOK
<1>7. UpgradeKnows'
  BY <1>1, <1>2, <1>3 DEF Inv, TypeTable, TypeRequests, UpgradeKnows
<1>8. UpgradeDone'
  BY <1>1, <1>2, <1>3 DEF Inv, TypeTable, TypeRequests, UpgradeDone, Final
<1>9. RequestsOK' /\ FreshKeys'
  BY <1>1, KeyAssumption DEF Inv, TypeRequests, RequestsOK, FreshKeys, Final
<1>10. SchemaSeen' /\ UnhurtIsServed'
  BY DEF Inv, TypeRequests, SchemaSeen, UnhurtIsServed, Hashing
<1> QED BY <1>4, <1>5, <1>6, <1>7, <1>8, <1>9, <1>10 DEF Inv

\* The operations that answer leave key, hash and schema alone.
LEMMA AnswerKeeps ==
  ASSUME Inv, NEW r \in Requests,
         ValidateAPIKey(r) \/ ListAPIKeys(r) \/ RevokeAPIKey(r) \/ RevokeKey(r)
  PROVE  Inv'
<1>1. TypeTable' /\ UNCHANGED <<stored, key, hash, hasColumn, hasIndex>>
  BY DEF Inv, TypeTable, ValidateAPIKey, ListAPIKeys, RevokeAPIKey, RevokeKey, Deactivate,
         schema, table, world
<1>2. ListAPIKeys(r) => Answer(r, "ok")
  BY DEF Inv, TypeTable, RowsOK, UpgradeDone, ListAPIKeys, At, Final
<1>3. PICK a \in {"ok", "refused"} : Answer(r, a)
  BY <1>2 DEF ValidateAPIKey, RevokeAPIKey, RevokeKey, Deactivate
<1> QED BY <1>1, <1>3, EndKeeps DEF Answer, Told

\* A statement fails on a lock or an error.
LEMMA BusyKeeps ==
  ASSUME Inv, NEW r \in Requests, Busy(r) \/ Fail(r)
  PROVE  Inv'
<1>1. TypeTable'
  BY DEF Inv, TypeTable, Busy, Fail, StatementFails, schema, table, world
<1> QED BY <1>1, FailsKeeps DEF Busy, Fail, At

\* A request arrives.
LEMMA ArriveKeeps ==
  ASSUME Inv, NEW r \in Requests, NEW o \in Ops, NEW i \in Ids \cup {NoKey}, Arrive(r, o, i)
  PROVE  Inv'
<1> USE DEF Arrive, At, schema, table, world
<1>1. TypeTable' /\ TypeRequests'
  BY DEF Inv, TypeTable, TypeRequests, Labels, Final
<1>2. RowsOK' /\ UpgradeKnows'
  BY DEF Inv, TypeRequests, RowsOK, UpgradeKnows
<1>3. UpgradeDone'
  BY DEF Inv, TypeRequests, UpgradeDone, Final
<1>4. RequestsOK' /\ FreshKeys'
  BY KeyAssumption DEF Inv, TypeRequests, RequestsOK, FreshKeys, Final, Ops
<1>5. SchemaSeen' /\ UnhurtIsServed'
  BY DEF Inv, TypeRequests, SchemaSeen, UnhurtIsServed, Hashing
<1> QED BY <1>1, <1>2, <1>3, <1>4, <1>5 DEF Inv

\* A kill forgets what requests had in memory and nothing else.
LEMMA CrashKeeps ==
  ASSUME Inv, Crash
  PROVE  Inv'
<1> USE DEF Crash, At, schema, table
<1>1. TypeTable' /\ TypeRequests'
  <2>4. faults' \in Nat
    BY DEF Inv, TypeTable
  <2>1. TypeTable'
    BY <2>4 DEF Inv, TypeTable
  <2>2. hurt' \in [Requests -> BOOLEAN]
    BY DEF Inv, TypeRequests
  <2>3. answer' \in [Requests -> Told \cup {"pending"}]
    BY DEF Inv, TypeRequests, Told
  <2> QED BY <2>1, <2>2, <2>3 DEF TypeRequests, Labels, Nothing
<1>2. RowsOK' /\ UpgradeKnows' /\ UpgradeDone'
  BY DEF Inv, RowsOK, UpgradeKnows, UpgradeDone, Final
<1>3. RequestsOK' /\ FreshKeys'
  BY DEF Inv, RequestsOK, FreshKeys, Final
<1>4. SchemaSeen' /\ UnhurtIsServed'
  BY DEF Inv, SchemaSeen, UnhurtIsServed, Hashing
<1> QED BY <1>1, <1>2, <1>3, <1>4 DEF Inv

\* What changes neither rows nor requests.
LEMMA WorldKeeps ==
  ASSUME Inv, TypeTable', UNCHANGED <<schema, table, request>>
  PROVE  Inv'
BY DEF Inv, TypeRequests, RowsOK, SchemaSeen, UpgradeKnows, UpgradeDone, RequestsOK,
       FreshKeys, UnhurtIsServed, schema, table, request

\* Every table the program may find satisfies the invariant.
LEMMA InvInit ==
  ASSUME Init
  PROVE  Inv
<1> USE DEF Init, Nothing
<1>1. TypeTable /\ TypeRequests
  BY DEF TypeTable, TypeRequests, Labels, Told
<1>2. RowsOK /\ SchemaSeen /\ UpgradeKnows /\ UpgradeDone
  BY DEF RowsOK, SchemaSeen, UpgradeKnows, UpgradeDone, Hashing, Final
<1>3. RequestsOK /\ FreshKeys /\ UnhurtIsServed
  BY DEF RequestsOK, FreshKeys, UnhurtIsServed, Final
<1> QED BY <1>1, <1>2, <1>3 DEF Inv

\* Every step preserves it.
LEMMA InvStep ==
  ASSUME Inv, [Next]_vars
  PROVE  Inv'
<1>1. ASSUME NEW r \in Requests, Step(r) PROVE Inv'
  BY <1>1, SchemaKeeps, SelectKeeps, MigrateKeyKeeps, TidyKeeps, CreateKeeps, AnswerKeeps, BusyKeeps
     DEF Step
<1>2. ASSUME NEW r \in Requests, NEW o \in Ops, NEW i \in Ids \cup {NoKey}, Arrive(r, o, i)
      PROVE  Inv'
  BY <1>2, ArriveKeeps
<1>3. ASSUME NEW r \in Requests, Fail(r) PROVE Inv'
  BY <1>3, BusyKeeps
<1>4. ASSUME NEW i \in Ids, Expire(i) PROVE Inv'
  <2>1. TypeTable'
    BY <1>4 DEF Inv, TypeTable, Expire, schema, table
  <2> QED BY <1>4, <2>1, WorldKeeps DEF Expire
<1>5. CASE ImportBegins \/ ImportEnds
  <2>1. TypeTable'
    BY <1>5 DEF Inv, TypeTable, ImportBegins, ImportEnds, schema, table
  <2> QED BY <1>5, <2>1, WorldKeeps DEF ImportBegins, ImportEnds
<1>6. CASE Crash
  BY <1>6, CrashKeeps
<1>7. CASE UNCHANGED vars
  <2>1. TypeTable'
    BY <1>7 DEF Inv, TypeTable, vars, schema, table, world
  <2> QED BY <1>7, <2>1, WorldKeeps DEF vars
<1> QED BY <1>1, <1>2, <1>3, <1>4, <1>5, <1>6, <1>7 DEF Next

\* The invariant holds in every reachable state.
LEMMA InvAlways == Spec => []Inv
BY InvInit, InvStep, PTL DEF Spec

-----------------------------------------------------------------------------
\* Every variable of the key manager keeps its type, and a row has a key
\* exactly if it exists.
THEOREM TypeCorrect == Spec => []TypeOK
<1>1. Inv => TypeOK
  BY DEF Inv, TypeTable, TypeRequests, RowsOK, TypeOK, Labels, Told
<1> QED BY <1>1, InvAlways, PTL

\* No number of interrupted or racing upgrades hashes a row twice.
THEOREM KeysAreKept == Spec => []EveryKeyIsKnown
<1>1. Inv => EveryKeyIsKnown
  BY DEF Inv, TypeTable, RowsOK, EveryKeyIsKnown
<1> QED BY <1>1, InvAlways, PTL

\* No operation gets to its own statement while a raw key is in the table.
THEOREM UpgradeIsComplete == Spec => []HashedAtUse
<1>1. Inv => HashedAtUse
  BY DEF Inv, UpgradeDone, HashedAtUse, Plaintext
<1> QED BY <1>1, InvAlways, PTL

\* A statement that names key_hash finds the column and its index.
THEOREM SchemaIsReady == Spec => []SchemaReady
<1>1. Inv => SchemaReady
  BY DEF Inv, SchemaSeen, SchemaReady
<1> QED BY <1>1, InvAlways, PTL

\* Racing upgrades make nobody's request fail.
THEOREM RacesAreHarmless == Spec => []UnhurtIsServed
<1>1. Inv => UnhurtIsServed
  BY DEF Inv
<1> QED BY <1>1, InvAlways, PTL

\* Only Create, MigrateKey and Tidy write a key, and none of them a raw one.
LEMMA PlaintextStep ==
  ASSUME Inv, [Next]_vars
  PROVE  Plaintext' \subseteq Plaintext
<1> USE DEF Plaintext
<1>1. CASE \E r \in Requests : CreateAPIKey(r)
  <2>1. PICK r \in Requests : CreateAPIKey(r)
    BY <1>1
  <2>2. arg[r] \in Ids
    BY <2>1 DEF Inv, TypeRequests, RequestsOK, CreateAPIKey, At, Final
  <2>3. key' = [key EXCEPT ![arg[r]] = "own"] /\ stored' = stored \cup {arg[r]}
    BY <2>1 DEF CreateAPIKey, Put, HashOf
  <2> QED BY <2>2, <2>3 DEF Inv, TypeTable
<1>2. CASE \E r \in Requests, i \in Ids : MigrateKey(r, i)
  <2>1. PICK r \in Requests, i \in Ids : MigrateKey(r, i)
    BY <1>2
  <2>2. key' = [key EXCEPT ![i] = "own"] /\ stored' = stored
    BY <2>1 DEF MigrateKey, Inv, UpgradeKnows, HashOf
  <2> QED BY <2>2 DEF Inv, TypeTable
<1>3. CASE \E r \in Requests : Tidy(r)
  BY <1>3 DEF Inv, TypeTable, RowsOK, Tidy
<1>4. CASE UNCHANGED <<stored, key>>
  BY <1>4
<1> QED
  BY <1>1, <1>2, <1>3, <1>4 DEF Next, Step, Arrive, CheckColumn, Alter, DuplicateColumn, Recheck,
     CreateIndex, Select, Read, ValidateAPIKey, ListAPIKeys, RevokeAPIKey, RevokeKey, Deactivate,
     Busy, Fail, StatementFails, Expire, ImportBegins, ImportEnds, Crash, table, vars

\* A raw key that was replaced never comes back.
THEOREM PlaintextIsGone == Spec => PlaintextOnlyShrinks
BY InvAlways, PlaintextStep, PTL DEF Spec, PlaintextOnlyShrinks

-----------------------------------------------------------------------------
\* What ends in the code is an answer of the registry.
LEMMA EndTells ==
  ASSUME Inv, NEW r \in Requests, pc[r] # "idle", NEW a, End(r, a)
  PROVE  Registry!Tell(r, a)
BY DEF Inv, RequestsOK, End, Registry!Tell

\* A step of the upgrade is no step of the registry.
LEMMA UpgradeIsInvisible ==
  ASSUME UNCHANGED <<stored, active, expired, op, arg, answer>>
  PROVE  UNCHANGED Registry!rvars
BY DEF Registry!rvars

\* A failed statement is no answer or none yet.
LEMMA FailIsUnavailable ==
  ASSUME Inv, NEW r \in Requests, pc[r] # "idle", StatementFails(r), UNCHANGED expired
  PROVE  Registry!Unavailable(r) \/ UNCHANGED Registry!rvars
<1>1. CASE End(r, "error")
  BY <1>1, EndTells DEF StatementFails, table, Registry!Unavailable
<1>2. CASE UNCHANGED <<op, arg, answer>>
  BY <1>2, UpgradeIsInvisible DEF StatementFails, table
<1> QED BY <1>1, <1>2 DEF StatementFails

\* The statements of an upgrade, as the registry sees them.
LEMMA UpgradeMaps ==
  ASSUME Inv, NEW r \in Requests,
         \/ CheckColumn(r) \/ Alter(r) \/ DuplicateColumn(r) \/ Recheck(r)
         \/ CreateIndex(r) \/ Select(r) \/ Tidy(r)
         \/ \E i \in Ids : MigrateKey(r, i)
  PROVE  \/ Registry!Report(r) \/ Registry!Unavailable(r)
         \/ UNCHANGED Registry!rvars
<1> USE DEF At, Answer, table, world
<1>1. CASE DuplicateColumn(r) /\ Answer(r, "stopped")
  BY <1>1, EndTells DEF DuplicateColumn, Registry!Unavailable
<1>2. CASE Recheck(r) /\ Answer(r, "error")
  BY <1>2, EndTells DEF Recheck, Registry!Unavailable
<1>3. CASE CreateIndex(r) /\ op[r] = "upgrade" /\ Answer(r, "ok")
  BY <1>3, EndTells DEF CreateIndex, Registry!Report
<1>4. CASE UNCHANGED <<stored, active, expired, op, arg, answer>>
  BY <1>4, UpgradeIsInvisible
<1> QED
  BY <1>1, <1>2, <1>3, <1>4 DEF CheckColumn, Alter, DuplicateColumn, Recheck, CreateIndex,
     Select, Read, Tidy, MigrateKey, Goto

\* The statement of an operation is the registry's answer: the hash it looks
\* for is in the row of the key, since no raw key is left.
LEMMA OperationMaps ==
  ASSUME Inv, NEW r \in Requests,
         CreateAPIKey(r) \/ ValidateAPIKey(r) \/ ListAPIKeys(r) \/ RevokeAPIKey(r) \/ RevokeKey(r)
  PROVE  Registry!Issue(r) \/ Registry!Check(r) \/ Registry!Report(r) \/ Registry!Revoke(r)
<1> USE DEF At, Answer, table, world
<1>1. pc[r] \in Final /\ op[r] = pc[r]
  BY DEF Inv, RequestsOK, CreateAPIKey, ValidateAPIKey, ListAPIKeys, RevokeAPIKey, RevokeKey, Final
<1>2. op[r] \in {"create", "validate", "revokeKey", "revoke"} => arg[r] \in Ids
  BY DEF Inv, TypeRequests, RequestsOK
<1>3. \A i \in Ids : op[r] # "revoke" => ((i \in stored) <=> (hash[i] = "own"))
  BY <1>1 DEF Inv, RowsOK, UpgradeDone, Final
<1>4. CASE CreateAPIKey(r)
  <2>1. arg[r] \notin stored
    BY <1>1, <1>4 DEF Inv, FreshKeys, CreateAPIKey
  <2>2. Registry!Tell(r, "ok")
    BY <1>4, EndTells DEF CreateAPIKey, Put
  <2>3. stored' = stored \cup {arg[r]} /\ (stored \ active)' = stored \ active /\ expired' = expired
    BY <1>4, <2>1 DEF CreateAPIKey, Put, Inv, TypeTable
  <2> QED BY <1>1, <1>4, <2>1, <2>2, <2>3 DEF CreateAPIKey, Registry!Issue
<1>5. CASE ValidateAPIKey(r)
  <2>1. (hash[arg[r]] = HashOf("raw") /\ arg[r] \in active \ expired) <=> Registry!Valid(arg[r])
    BY <1>1, <1>2, <1>3, <1>5 DEF ValidateAPIKey, HashOf, Registry!Valid, Inv, TypeTable
  <2>2. Registry!Tell(r, IF Registry!Valid(arg[r]) THEN "ok" ELSE "refused")
    BY <1>5, <2>1, EndTells DEF ValidateAPIKey
  <2> QED BY <1>1, <1>5, <2>2 DEF ValidateAPIKey, Registry!Check
<1>6. CASE ListAPIKeys(r)
  <2>1. Answer(r, "ok")
    BY <1>1, <1>3, <1>6 DEF ListAPIKeys, Inv, TypeTable
  <2> QED BY <1>1, <1>6, <2>1, EndTells DEF ListAPIKeys, Registry!Report
<1>7. ASSUME NEW found, Deactivate(r, found), found = {arg[r]} \cap stored,
             op[r] \in {"revoke", "revokeKey"}
      PROVE  Registry!Revoke(r)
  <2>1. Registry!Tell(r, IF arg[r] \in stored THEN "ok" ELSE "refused")
    BY <1>1, <1>7, EndTells DEF Deactivate, Final
  <2>2. (stored \ active)' = (stored \ active) \cup ({arg[r]} \cap stored)
    BY <1>7 DEF Deactivate
  <2> QED BY <1>7, <2>1, <2>2 DEF Deactivate, Registry!Revoke
<1>8. CASE RevokeAPIKey(r)
  <2>1. {i \in {arg[r]} : hash[i] = HashOf("raw") \/ key[i] = "raw"} = {arg[r]} \cap stored
    BY <1>1, <1>2, <1>3, <1>8 DEF RevokeAPIKey, HashOf, Inv, RowsOK
  <2> QED BY <1>1, <1>7, <1>8, <2>1 DEF RevokeAPIKey
<1>9. CASE RevokeKey(r)
  BY <1>1, <1>7, <1>9 DEF RevokeKey
<1> QED BY <1>4, <1>5, <1>6, <1>8, <1>9

\* Every step is a step of the registry or none.
LEMMA RegistryStep ==
  ASSUME Inv, [Next]_vars
  PROVE  [Registry!Next]_(Registry!rvars)
<1>1. ASSUME NEW r \in Requests, Step(r) PROVE [Registry!Next]_(Registry!rvars)
  <2>1. CASE Busy(r)
    BY <2>1, FailIsUnavailable DEF Busy, At, world, Registry!Next
  <2> QED BY <1>1, <2>1, UpgradeMaps, OperationMaps DEF Step, Registry!Next
<1>2. ASSUME NEW r \in Requests, NEW o \in Ops, NEW i \in Ids \cup {NoKey}, Arrive(r, o, i)
      PROVE  [Registry!Next]_(Registry!rvars)
  <2>1. Registry!Ask(r, o, i)
    BY <1>2 DEF Arrive, At, table, world, Inv, RequestsOK, Registry!Ask
  <2> QED BY <2>1 DEF Ops, Registry!Next
<1>3. ASSUME NEW r \in Requests, Fail(r) PROVE [Registry!Next]_(Registry!rvars)
  BY <1>3, FailIsUnavailable DEF Fail, At, Registry!Next
<1>4. ASSUME NEW i \in Ids, Expire(i) PROVE [Registry!Next]_(Registry!rvars)
  BY <1>4 DEF Expire, table, request, Registry!Expire, Registry!Next
<1>5. CASE ImportBegins \/ ImportEnds
  BY <1>5, UpgradeIsInvisible DEF ImportBegins, ImportEnds, table, request
<1>6. CASE Crash
  <2>1. answer' = [r \in Requests |-> IF answer[r] = "pending" THEN "none" ELSE answer[r]]
    BY <1>6 DEF Crash, At, Inv, RequestsOK
  <2> QED BY <1>6, <2>1 DEF Crash, table, Registry!Die, Registry!Next
<1>7. CASE UNCHANGED vars
  BY <1>7, UpgradeIsInvisible DEF vars, table, request, world
<1> QED BY <1>1, <1>2, <1>3, <1>4, <1>5, <1>6, <1>7 DEF Next

\* The key manager implements the registry: hashing is invisible, each answer
\* is that of one moment, and what is revoked stays revoked.
THEOREM Implements == Spec => KeepsRegistry
<1>1. Init => Registry!Init
  BY DEF Init, Registry!Init
<1> QED BY <1>1, InvAlways, RegistryStep, PTL DEF Spec, KeepsRegistry, Registry!Spec

\* 401 for a valid key has one cause, a statement of the same request that failed:
\* racing, interrupted or failing upgrades of others never hide a key, for any
\* number of requests, keys and faults (ValidateAPIKey behind ensureKeyHashSchema).
THEOREM OnlyHurtRefused == Spec => RefusedIsHurt
<1>1. ASSUME Inv, Inv', [Next]_vars, NEW r \in Requests, Unauthorized(r), ~hurt'[r]
      PROVE  arg[r] \notin active \ expired
  <2>1. /\ op[r] = "validate" /\ answer[r] = "pending" /\ arg[r] \in Ids
        /\ answer'[r] = "refused"
    <3>1. op[r] = "validate" /\ answer'[r] \in {"refused", "error"}
      BY <1>1 DEF Unauthorized
    <3>2. answer'[r] # "error"
      BY <1>1 DEF Inv, UnhurtIsServed
    <3>a. answer[r] = "pending" /\ arg[r] # NoKey
      <4>1. RequestsOK
        BY <1>1 DEF Inv
      <4> QED BY <3>1, <4>1 DEF RequestsOK
    <3>b. arg[r] \in Ids \cup {NoKey}
      <4>1. TypeRequests
        BY <1>1 DEF Inv
      <4> QED BY <4>1 DEF TypeRequests
    <3>3. answer[r] = "pending" /\ arg[r] \in Ids
      BY <3>a, <3>b
    <3> QED BY <3>1, <3>2, <3>3
  <2>2. answer \in [Requests -> Told \cup {"pending"}]
    BY <1>1 DEF Inv, TypeRequests
  <2>3. [Registry!Next]_(Registry!rvars)
    BY <1>1, RegistryStep
  <2>4. ASSUME NEW q \in Requests, NEW a, Registry!Tell(q, a) PROVE q = r /\ a = "refused"
    BY <2>1, <2>2, <2>4 DEF Registry!Tell
  <2>5. ~Registry!Valid(arg[r])
    <3>1. ASSUME NEW q \in Requests, Registry!Check(q) PROVE ~Registry!Valid(arg[r])
      BY <3>1, <2>4 DEF Registry!Check
    <3>2. ASSUME NEW q \in Requests,
                 Registry!Issue(q) \/ Registry!Revoke(q) \/ Registry!Report(q)
                 \/ Registry!Unavailable(q)
          PROVE  FALSE
      BY <2>1, <2>4, <3>2 DEF Registry!Issue, Registry!Revoke, Registry!Report,
                              Registry!Unavailable
    <3>3. ASSUME NEW q \in Requests, NEW o, NEW i, Registry!Ask(q, o, i) \/ Registry!Take(q)
          PROVE  FALSE
      BY <2>1, <2>2, <3>3 DEF Registry!Ask, Registry!Take
    <3>4. ASSUME \/ UNCHANGED Registry!rvars \/ Registry!Die
                 \/ \E i \in Ids : Registry!Expire(i)
          PROVE  FALSE
      BY <2>1, <3>4 DEF Registry!rvars, Registry!Die, Registry!Expire
    <3> QED BY <2>3, <3>1, <3>2, <3>3, <3>4 DEF Registry!Next
  <2> QED BY <1>1, <2>5 DEF Registry!Valid, Inv, TypeTable
<1>2. Inv /\ Inv' /\ [Next]_vars =>
        \A r \in Requests : Unauthorized(r) => arg[r] \notin active \ expired \/ hurt'[r]
  BY <1>1
<1> QED BY <1>2, InvAlways, PTL DEF Spec, RefusedIsHurt
=============================================================================
