-------------------------- MODULE SdeUpdateProofs --------------------------
(***************************************************************************)
(* Proofs about SdeUpdate for any number of archives, faults and files.    *)
(* Typing, the lock and the bound on a run's steps hold for overlapping    *)
(* runs too; what the history and the catalogue promise needs behaviours   *)
(* in which runs do not overlap (NoOverlap).                               *)
(***************************************************************************)
EXTENDS SdeUpdate, FiniteSetTheorems, TLAPS

\* What typing needs beside itself: a run that is about to write has read every
\* file, so a commit puts no missing table into the catalogue.
ReadAll == \A u \in Updaters :
              pc[u] \in {"begin", "tx"} => \A e \in Entries : parsed[u][e] # None

\* ReadAll is kept by every step: only Parsed leads to "begin", only Begin to
\* "tx", and nothing but the end of the run changes what was read.
LEMMA ReadAllStep == TypeOK /\ ReadAll /\ [Next]_vars => ReadAll'
<1> SUFFICES ASSUME TypeOK, ReadAll, [Next]_vars, NEW u \in Updaters,
                    pc'[u] \in {"begin", "tx"}, NEW e \in Entries
             PROVE  parsed'[u][e] # None
  BY DEF ReadAll
<1> USE UpdateAssumption DEF TypeOK, Goto, At, files, dir, run, job, db, site
<1>E. ASSUME NEW S, End(S) PROVE u \notin S /\ pc'[u] = pc[u] /\ parsed'[u] = parsed[u]
  BY <1>E DEF End, Reset
<1>1. CASE UNCHANGED <<pc, parsed>>
  BY <1>1 DEF ReadAll
<1>2. ASSUME NEW v \in Updaters, Parsed(v) PROVE parsed'[u][e] # None
  BY <1>2 DEF Parsed, ReadAll
<1>3. ASSUME NEW v \in Updaters, Begin(v) PROVE parsed'[u][e] # None
  <2>1. CASE Return(v)
    BY <1>3, <2>1, <1>E DEF Return, ReadAll
  <2>2. CASE ~Return(v)
    BY <1>3, <2>2 DEF Begin, ReadAll
  <2> QED
    BY <2>1, <2>2
<1>4. ASSUME NEW v \in Updaters, NEW f \in Entries, Parse(v, f) PROVE parsed'[u][e] # None
  <2>1. CASE Return(v)
    BY <1>4, <2>1, <1>E DEF Return, ReadAll
  <2>2. CASE ~Return(v)
    <3>1. u # v /\ parsed' = [parsed EXCEPT ![v][f] = data[f]] /\ pc' = pc
      BY <1>4, <2>2 DEF Parse
    <3> QED
      BY <3>1 DEF ReadAll
  <2> QED
    BY <2>1, <2>2
<1>5. ASSUME NEW S, End(S) PROVE parsed'[u][e] # None
  BY <1>5, <1>E DEF ReadAll
<1>6. ASSUME NEW v \in Updaters, NEW l \in Labels \ {"begin", "tx"}, Goto(v, l),
             UNCHANGED parsed
      PROVE  parsed'[u][e] # None
  BY <1>6 DEF ReadAll
<1> HIDE DEF TypeOK, Goto
<1>7. ASSUME NEW v \in Updaters, Step(v) PROVE parsed'[u][e] # None
  <2>1. CASE Fetch(v) \/ UnlinkZip(v) \/ PlaceZip(v) \/ CheckNew(v)
    BY <2>1, <1>6 DEF Fetch, FetchAs, UnlinkZip, PlaceZip, CheckNew, Labels
  <2>2. CASE SkipKnown(v) \/ OpenZip(v) \/ Record(v)
    BY <2>2, <1>5, <1>6 DEF SkipKnown, OpenZip, ReadZip, Record, Return, Labels
  <2>3. CASE Cleared(v) \/ CloseEntry(v) \/ Extracted(v)
    BY <2>3, <1>6 DEF Cleared, CloseEntry, CloseAs, Extracted, Labels
  <2>4. ASSUME NEW f \in Entries, ClearEntry(v, f) \/ OpenEntry(v, f)
        PROVE  parsed'[u][e] # None
    BY <2>4, <1>1, <1>6 DEF ClearEntry, OpenEntry, Labels
  <2>5. CASE Commit(v) \/ Count(v)
    BY <2>5, <1>5, <1>6 DEF Commit, CommitTables, Count, Return, Labels
  <2> QED
    BY <1>2, <1>3, <1>4, <1>7, <2>1, <2>2, <2>3, <2>4, <2>5 DEF Step
<1>8. ASSUME NEW v \in Updaters, CheckUnreadable(v) \/ CountUnreadable(v)
      PROVE  parsed'[u][e] # None
  BY <1>8, <1>6 DEF CheckUnreadable, CountUnreadable, Labels
<1>9. ASSUME NEW v \in Updaters, Fail(v) \/ KillCommand(v) PROVE parsed'[u][e] # None
  BY <1>9, <1>5 DEF Fail, KillCommand, Return
<1>10. CASE CrashServer
  BY <1>10, <1>5 DEF CrashServer
<1>11. ASSUME NEW v \in Updaters, NEW k \in Kinds, Start(v, k) PROVE parsed'[u][e] # None
  BY <1>11, <1>6 DEF Start, Labels
<1>12. CASE \/ UNCHANGED vars
            \/ \E a \in Archives : Publish(a)
  BY <1>12, <1>1 DEF vars, Publish
<1> QED
  BY <1>7, <1>8, <1>9, <1>10, <1>11, <1>12 DEF Next

\* States every variable's type is kept by every step of every run, overlapping
\* or not, failing or killed.
THEOREM TypeCorrect == Spec => []TypeOK
<1> USE UpdateAssumption
<1>1. Init => TypeOK
  BY DEF Init, TypeOK, AllOf, Data, Labels
<1>2. TypeOK /\ ReadAll /\ [Next]_vars => TypeOK'
  <2> SUFFICES ASSUME TypeOK, ReadAll, [Next]_vars PROVE TypeOK'
    OBVIOUS
  <2> USE DEF TypeOK, Labels, Goto, At, files, dir, run, job, db, site
  <2>E. ASSUME NEW S, End(S) PROVE
          /\ pc' \in [Updaters -> Labels]
          /\ kind' \in [Updaters -> {"server", "cli", "reimport"}]
          /\ mine' \in [Updaters -> Archives \cup {None}]
          /\ handle' \in [Updaters -> Archives \cup {None}]
          /\ todo' \in [Updaters -> SUBSET Entries]
          /\ file' \in [Updaters -> Entries]
          /\ parsed' \in [Updaters -> [Entries -> Archives \cup {None, Torn}]]
          /\ counted' \in [Updaters -> Data \cup {None, Zero}]
    BY <2>E DEF End, Reset, AllOf
  <2>G. ASSUME NEW u \in Updaters, NEW l \in Labels, Goto(u, l)
        PROVE  pc' \in [Updaters -> Labels]
    BY <2>G
  <2>L. Labels = {"idle", "fetch", "unlink", "place", "check", "open", "clear",
                  "extract", "write", "parse", "begin", "tx", "count", "record"}
    OBVIOUS
  <2> HIDE DEF Labels, Goto
  <2>0. CASE UNCHANGED vars
    BY <2>0 DEF vars
  <2>1. ASSUME NEW a \in Archives, Publish(a) PROVE TypeOK'
    BY <2>1 DEF Publish
  <2>2. ASSUME NEW u \in Updaters, NEW k \in Kinds, Start(u, k) PROVE TypeOK'
    BY <2>2, <2>G, <2>L DEF Start
  <2>3. ASSUME NEW u \in Updaters, Fetch(u) PROVE TypeOK'
    BY <2>3, <2>G, <2>L DEF Fetch, FetchAs
  <2>4. ASSUME NEW u \in Updaters, UnlinkZip(u) \/ PlaceZip(u) PROVE TypeOK'
    <3>1. pc' \in [Updaters -> Labels]
      BY <2>4, <2>G, <2>L DEF UnlinkZip, PlaceZip
    <3> QED
      BY <2>4, <3>1 DEF UnlinkZip, PlaceZip
  <2>5. ASSUME NEW u \in Updaters, SkipKnown(u) PROVE TypeOK'
    BY <2>5, <2>E DEF SkipKnown, Return
  <2>6. ASSUME NEW u \in Updaters, CheckNew(u) \/ CheckUnreadable(u) PROVE TypeOK'
    BY <2>6, <2>G, <2>L DEF CheckNew, CheckUnreadable
  <2>7. ASSUME NEW u \in Updaters, OpenZip(u) PROVE TypeOK'
    <3>1. CASE ReadZip(u)
      BY <2>7, <3>1, <2>G, <2>L DEF OpenZip, ReadZip
    <3>2. CASE Return(u)
      BY <2>7, <3>2, <2>E DEF OpenZip, Return
    <3> QED
      BY <2>7, <3>1, <3>2 DEF OpenZip
  <2>8. ASSUME NEW u \in Updaters, NEW e \in Entries, ClearEntry(u, e) PROVE TypeOK'
    BY <2>8 DEF ClearEntry
  <2>9. ASSUME NEW u \in Updaters, Cleared(u) \/ Extracted(u) \/ Parsed(u) PROVE TypeOK'
    <3>1. pc' \in [Updaters -> Labels]
      BY <2>9, <2>G, <2>L DEF Cleared, Extracted, Parsed
    <3>2. todo' \in [Updaters -> SUBSET Entries]
      BY <2>9 DEF Cleared, Extracted, Parsed
    <3> QED
      BY <2>9, <3>1, <3>2 DEF Cleared, Extracted, Parsed
  <2>10. ASSUME NEW u \in Updaters, NEW e \in Entries, OpenEntry(u, e) PROVE TypeOK'
    BY <2>10, <2>G, <2>L DEF OpenEntry
  <2>11. ASSUME NEW u \in Updaters, CloseEntry(u) PROVE TypeOK'
    <3>1. pc' \in [Updaters -> Labels]
      BY <2>11, <2>G, <2>L DEF CloseEntry, CloseAs
    <3>2. data' \in [Entries -> Archives \cup {None, Torn}]
      BY <2>11 DEF CloseEntry, CloseAs
    <3>3. writers' \in [Entries -> SUBSET Updaters]
      BY <2>11 DEF CloseEntry, CloseAs
    <3> QED
      BY <2>11, <3>1, <3>2, <3>3 DEF CloseEntry, CloseAs
  <2>12. ASSUME NEW u \in Updaters, NEW e \in Entries, Parse(u, e) PROVE TypeOK'
    <3>1. CASE Return(u)
      BY <2>12, <3>1, <2>E DEF Parse, Return
    <3>2. CASE ~Return(u)
      <4>1. parsed' = [parsed EXCEPT ![u][e] = data[e]]
        BY <2>12, <3>2 DEF Parse
      <4>2. parsed' \in [Updaters -> [Entries -> Archives \cup {None, Torn}]]
        BY <4>1
      <4> QED
        BY <2>12, <3>2, <4>2 DEF Parse
    <3> QED
      BY <3>1, <3>2
  <2>13. ASSUME NEW u \in Updaters, Begin(u) PROVE TypeOK'
    <3>1. CASE Return(u)
      BY <2>13, <3>1, <2>E DEF Begin, Return
    <3>2. CASE ~Return(u)
      BY <2>13, <3>2, <2>G, <2>L DEF Begin
    <3> QED
      BY <3>1, <3>2
  <2>14. ASSUME NEW u \in Updaters, Commit(u) PROVE TypeOK'
    <3>1. pc' \in [Updaters -> Labels]
      BY <2>14, <2>G, <2>L DEF Commit, CommitTables
    <3>2. pc[u] = "tx" /\ catalog' = parsed[u]
      BY <2>14 DEF Commit, CommitTables
    <3>3. \A e \in Entries : parsed[u][e] # None
      BY <3>2 DEF ReadAll
    <3> QED
      BY <2>14, <3>1, <3>2, <3>3 DEF Commit, CommitTables, Data
  <2>15. ASSUME NEW u \in Updaters, Count(u) PROVE TypeOK'
    <3>1. CASE Return(u)
      BY <2>15, <3>1, <2>E DEF Count, Return
    <3>2. CASE ~Return(u)
      <4>1. pc' \in [Updaters -> Labels]
        BY <2>15, <3>2, <2>G, <2>L DEF Count
      <4>2. counted' \in [Updaters -> Data \cup {None, Zero}]
        BY <2>15, <3>2 DEF Count
      <4> QED
        BY <2>15, <3>2, <4>1, <4>2 DEF Count
    <3> QED
      BY <3>1, <3>2
  <2>16. ASSUME NEW u \in Updaters, CountUnreadable(u) PROVE TypeOK'
    <3>1. pc' \in [Updaters -> Labels]
      BY <2>16, <2>G, <2>L DEF CountUnreadable
    <3>2. counted' \in [Updaters -> Data \cup {None, Zero}]
      BY <2>16 DEF CountUnreadable, Data
    <3> QED
      BY <2>16, <3>1, <3>2 DEF CountUnreadable
  <2>17. ASSUME NEW u \in Updaters, Record(u) PROVE TypeOK'
    BY <2>17, <2>E DEF Record, Return, Note
  <2>18. ASSUME NEW u \in Updaters, Fail(u) \/ KillCommand(u) PROVE TypeOK'
    BY <2>18, <2>E DEF Fail, KillCommand, Abort, Rollback, Return, Note
  <2>19. CASE CrashServer
    BY <2>19, <2>E DEF CrashServer, Abort, Rollback
  <2> QED
    BY <2>0, <2>1, <2>2, <2>3, <2>4, <2>5, <2>6, <2>7, <2>8, <2>9, <2>10, <2>11,
       <2>12, <2>13, <2>14, <2>15, <2>16, <2>17, <2>18, <2>19 DEF Next, Step
<1>3. Init => ReadAll
  BY DEF Init, ReadAll
<1> QED
  BY <1>1, <1>2, <1>3, ReadAllStep, PTL DEF Spec

\* A run that commits has read every file, in every behaviour.
LEMMA ReadAllAlways == Spec => []ReadAll
<1>1. Init => ReadAll
  BY DEF Init, ReadAll
<1> QED
  BY <1>1, ReadAllStep, TypeCorrect, PTL DEF Spec

-----------------------------------------------------------------------------
\* The steps that belong to one run.
Acts(u) == \/ \E k \in Kinds : Start(u, k)
           \/ Step(u) \/ CheckUnreadable(u) \/ CountUnreadable(u)
           \/ Fail(u) \/ KillCommand(u)

LEMMA NextIs ==
  ASSUME [Next]_vars
  PROVE  \/ UNCHANGED vars \/ \E a \in Archives : Publish(a)
         \/ \E u \in Updaters : Acts(u)
         \/ CrashServer
BY DEF Next, Acts

\* What a run's own steps leave alone: where the other runs are, what they have
\* in memory.  They may take a file away from a writer, and give it none.
OwnOnly(u) == \A v \in Updaters \ {u} :
    /\ pc'[v] = pc[v] /\ kind'[v] = kind[v] /\ mine'[v] = mine[v]
    /\ handle'[v] = handle[v] /\ todo'[v] = todo[v] /\ file'[v] = file[v]
    /\ parsed'[v] = parsed[v] /\ counted'[v] = counted[v]
    /\ \A e \in Entries : v \in writers'[e] => v \in writers[e]

LEMMA OwnJobOnly ==
  ASSUME TypeOK, NEW u \in Updaters, Acts(u)
  PROVE  OwnOnly(u)
<1> USE DEF files, dir, run, job, db, site
<1>E. ASSUME Return(u), \A e \in Entries : writers'[e] \subseteq writers[e]
      PROVE  OwnOnly(u)
  BY <1>E DEF OwnOnly, Return, End, Reset
<1>W. ASSUME UNCHANGED writers PROVE \A e \in Entries : writers'[e] \subseteq writers[e]
  BY <1>W
<1>1. ASSUME NEW k \in Kinds, Start(u, k) PROVE OwnOnly(u)
  BY <1>1 DEF Start, Goto, OwnOnly, TypeOK
<1>2. CASE Fetch(u) \/ UnlinkZip(u) \/ PlaceZip(u) \/ CheckNew(u) \/ CheckUnreadable(u)
  BY <1>2 DEF Fetch, FetchAs, UnlinkZip, PlaceZip, CheckNew, CheckUnreadable, Goto,
              OwnOnly, TypeOK
<1>3. CASE SkipKnown(u) \/ Record(u)
  BY <1>3, <1>E, <1>W DEF SkipKnown, Record
<1>4. CASE OpenZip(u)
  <2>1. CASE Return(u)
    BY <1>4, <2>1, <1>E, <1>W DEF OpenZip
  <2>2. CASE ReadZip(u)
    BY <1>4, <2>2 DEF OpenZip, ReadZip, Goto, OwnOnly, TypeOK
  <2> QED
    BY <1>4, <2>1, <2>2 DEF OpenZip
<1>5. ASSUME NEW e \in Entries, ClearEntry(u, e) \/ OpenEntry(u, e) PROVE OwnOnly(u)
  <2>1. CASE ClearEntry(u, e)
    BY <2>1 DEF ClearEntry, OwnOnly, TypeOK
  <2>2. CASE OpenEntry(u, e)
    BY <2>2 DEF OpenEntry, Goto, OwnOnly, TypeOK
  <2> QED
    BY <1>5, <2>1, <2>2
<1>6. ASSUME NEW e \in Entries, Parse(u, e) PROVE OwnOnly(u)
  <2>1. CASE Return(u)
    BY <1>6, <2>1, <1>E, <1>W DEF Parse
  <2>2. CASE ~Return(u)
    BY <1>6, <2>2 DEF Parse, OwnOnly, TypeOK
  <2> QED
    BY <2>1, <2>2
<1>7. CASE Cleared(u) \/ Extracted(u) \/ Parsed(u) \/ Commit(u) \/ CountUnreadable(u)
  BY <1>7 DEF Cleared, Extracted, Parsed, Commit, CommitTables, CountUnreadable, Goto,
              OwnOnly, TypeOK
<1>8. CASE CloseEntry(u)
  <2>0. \/ writers' = [writers EXCEPT ![file[u]] = @ \ {u}]
        \/ UNCHANGED writers
    BY <1>8 DEF CloseEntry, CloseAs
  <2>1. \A e \in Entries : writers'[e] \subseteq writers[e]
    BY <2>0 DEF TypeOK
  <2>2. Goto(u, "extract") /\ UNCHANGED job
    BY <1>8 DEF CloseEntry, CloseAs
  <2> QED
    BY <2>1, <2>2 DEF Goto, OwnOnly, TypeOK
<1>9. CASE Begin(u) \/ Count(u)
  <2>1. CASE Return(u)
    BY <1>9, <2>1, <1>E, <1>W DEF Begin, Count
  <2>2. CASE ~Return(u)
    BY <1>9, <2>2 DEF Begin, Count, Goto, OwnOnly, TypeOK
  <2> QED
    BY <2>1, <2>2
<1>10. CASE Fail(u) \/ KillCommand(u)
  <2>1. \A e \in Entries : writers'[e] \subseteq writers[e]
    BY <1>10 DEF Fail, KillCommand, Abort
  <2> QED
    BY <1>10, <2>1, <1>E DEF Fail, KillCommand
<1> QED
  BY <1>1, <1>2, <1>3, <1>4, <1>5, <1>6, <1>7, <1>8, <1>9, <1>10 DEF Acts, Step

\* Whoever acts is under way before the step or after it.
LEMMA SomeoneActs ==
  ASSUME TypeOK, NoOverlap, NoOverlap', NEW u \in Updaters, Acts(u),
         NEW v \in Updaters, v # u
  PROVE  pc[v] = "idle"
<1>1. pc'[v] = pc[v]
  BY OwnJobOnly DEF OwnOnly
<1>2. CASE \E k \in Kinds : Start(u, k)
  <2>1. pc'[u] # "idle"
    BY <1>2 DEF Start, Goto, TypeOK
  <2> QED
    BY <1>1, <2>1 DEF NoOverlap, At
<1>3. CASE ~\E k \in Kinds : Start(u, k)
  <2>1. pc[u] # "idle"
    BY <1>3 DEF Acts, Step, At, Fetch, FetchAs, UnlinkZip, PlaceZip, CheckNew,
       CheckUnreadable, SkipKnown, Record, OpenZip, ClearEntry, OpenEntry, Parse,
       Cleared, Extracted, Parsed, Commit, CommitTables, CountUnreadable, CloseEntry,
       CloseAs, Begin, Count, Fail, KillCommand
  <2> QED
    BY <2>1 DEF NoOverlap, At
<1> QED
  BY <1>2, <1>3

-----------------------------------------------------------------------------
\* The stages of a run that downloads: it has fetched an archive, put it in
\* place, opened it.
Fetched == Labels \ {"idle", "fetch"}
Placed  == Fetched \ {"unlink", "place"}
Opened  == Placed \ {"check", "open"}

\* What a run can rely on while no other run is under way.
OwnStage(u) == kind[u] = "reimport" => pc[u] \in {"parse", "begin", "tx", "count"}
OwnZip(u) == kind[u] # "reimport" =>
    /\ pc[u] \in Fetched => mine[u] \in Archives
    /\ pc[u] \in Placed  => zip = mine[u]
    /\ pc[u] \in Opened  => handle[u] = mine[u]
OwnHandles(u) == \A e \in Entries : u \in writers[e] =>
    pc[u] = "write" /\ e = file[u] /\ ~mixed[e]
OwnFiles(u) ==
    /\ pc[u] = "extract" => \A e \in Entries \ todo[u] : data[e] = mine[u]
    /\ pc[u] = "write" => /\ u \in writers[file[u]]
                          /\ \A e \in Entries \ (todo[u] \cup {file[u]}) :
                               data[e] = mine[u]
    /\ pc[u] = "parse" /\ kind[u] # "reimport" => \A e \in Entries : data[e] = mine[u]
OwnTables(u) ==
    /\ pc[u] \notin {"parse", "begin", "tx", "count", "record"} =>
         \A e \in Entries : parsed[u][e] = None
    /\ kind[u] # "reimport" => \A e \in Entries : parsed[u][e] \in {None, mine[u]}
OwnImport(u) == kind[u] # "reimport" =>
    /\ pc[u] \in {"count", "record"} => mine[u] \in ever /\ catalog = AllOf(mine[u])
    /\ pc[u] = "record" => counted[u] \in {mine[u], Zero}

Own(u) == /\ OwnStage(u) /\ OwnZip(u) /\ OwnHandles(u)
          /\ OwnFiles(u) /\ OwnTables(u) /\ OwnImport(u)

Truthful == RecordedWasServed /\ CheckedWasServed

SerialInv == (\A u \in Updaters : Own(u)) /\ Truthful

\* A run that is over has nothing to rely on, once its handles are closed.
LEMMA EndOwn ==
  ASSUME TypeOK, NEW S, End(S), NEW u \in Updaters, u \in S,
         \A e \in Entries : u \notin writers'[e]
  PROVE  Own(u)'
<1> USE UpdateAssumption DEF TypeOK, End, Reset
<1>1. pc'[u] = "idle" /\ kind'[u] = "server" /\ parsed'[u] = AllOf(None)
  OBVIOUS
<1> HIDE DEF TypeOK, End, Reset
<1>2. OwnStage(u)' /\ OwnZip(u)' /\ OwnHandles(u)' /\ OwnFiles(u)'
  BY <1>1 DEF OwnStage, OwnZip, OwnHandles, OwnFiles, Fetched, Placed, Opened
<1>3. OwnTables(u)' /\ OwnImport(u)'
  BY <1>1 DEF OwnTables, OwnImport, AllOf
<1> QED
  BY <1>2, <1>3 DEF Own

\* The history keeps its promise as long as rows and the last check stay as they
\* are: what has been served stays in ever.
LEMMA TruthfulKept ==
  ASSUME Truthful, UNCHANGED <<versions, lastCheck>>, ever \subseteq ever'
  PROVE  Truthful'
BY DEF Truthful, RecordedWasServed, CheckedWasServed, Recorded

\* While runs do not overlap every step keeps the inductive invariant.
LEMMA SerialStep ==
  ASSUME NoOverlap, NoOverlap', TypeOK, ReadAll, SerialInv, [Next]_vars PROVE SerialInv'
<1> USE UpdateAssumption DEF At, files, dir, run, job, db, site
<1>T. ASSUME UNCHANGED <<versions, lastCheck>>, ever \subseteq ever' PROVE Truthful'
  BY <1>T, TruthfulKept DEF SerialInv
<1>G. ASSUME NEW u \in Updaters, NEW l, Goto(u, l) PROVE pc'[u] = l
  BY <1>G DEF Goto, TypeOK
\* A run that returns of itself holds no handle.
<1>R. ASSUME NEW u \in Updaters, Return(u), pc[u] # "write", UNCHANGED writers
      PROVE  Own(u)'
  <2>1. \A e \in Entries : u \notin writers'[e]
    BY <1>R DEF SerialInv, Own, OwnHandles
  <2> QED
    BY <1>R, <2>1, EndOwn DEF Return
<1>S. ASSUME NEW u \in Updaters PROVE Own(u)
  BY <1>S DEF SerialInv
<1> USE DEF OwnStage, OwnZip, OwnHandles, OwnFiles, OwnTables, OwnImport
<1>1. CASE UNCHANGED vars \/ \E a \in Archives : Publish(a)
  <2>1. UNCHANGED <<files, run, db, lastCheck>>
    BY <1>1 DEF vars, Publish
  <2> QED
    BY <2>1 DEF SerialInv, Own, Truthful, RecordedWasServed, CheckedWasServed, Recorded
<1>2. ASSUME NEW u \in Updaters, NEW k \in Kinds, Start(u, k) PROVE Own(u)' /\ Truthful'
  <2>1. /\ pc[u] = "idle" /\ kind'[u] = k
        /\ pc'[u] = IF k = "reimport" THEN "parse" ELSE "fetch"
        /\ UNCHANGED <<zip, data, writers, mixed, mine, handle, todo, file, parsed,
                       counted, versions, catalog, ever, lastCheck>>
    BY <1>2, <1>G DEF Start, TypeOK
  <2>2. Own(u)'
    BY <2>1, <1>S DEF Own, Fetched, Placed, Opened
  <2> QED
    BY <2>1, <2>2, <1>T
<1>3. ASSUME NEW u \in Updaters, Fetch(u) PROVE Own(u)' /\ Truthful'
  <2>1. /\ pc[u] = "fetch" /\ pc'[u] = "unlink" /\ mine'[u] \in Archives
        /\ UNCHANGED <<zip, data, writers, mixed, kind, handle, todo, file, parsed,
                       counted, versions, catalog, ever, lastCheck>>
    BY <1>3, <1>G DEF Fetch, FetchAs, TypeOK
  <2>2. Own(u)'
    BY <2>1, <1>S DEF Own, Fetched, Placed, Opened
  <2> QED
    BY <2>1, <2>2, <1>T
<1>4. ASSUME NEW u \in Updaters, UnlinkZip(u) PROVE Own(u)' /\ Truthful'
  <2>1. /\ pc[u] = "unlink" /\ pc'[u] = "place"
        /\ UNCHANGED <<data, writers, mixed, kind, mine, handle, todo, file, parsed,
                       counted, versions, catalog, ever, lastCheck>>
    BY <1>4, <1>G DEF UnlinkZip
  <2>2. Own(u)'
    BY <2>1, <1>S DEF Own, Fetched, Placed, Opened, Labels
  <2> QED
    BY <2>1, <2>2, <1>T
<1>5. ASSUME NEW u \in Updaters, PlaceZip(u) PROVE Own(u)' /\ Truthful'
  <2>1. /\ pc[u] = "place" /\ pc'[u] \in {"check", "open"} /\ zip' = mine[u]
        /\ UNCHANGED <<data, writers, mixed, kind, mine, handle, todo, file, parsed,
                       counted, versions, catalog, ever, lastCheck>>
    BY <1>5, <1>G DEF PlaceZip
  <2>2. Own(u)'
    BY <2>1, <1>S DEF Own, Fetched, Placed, Opened, Labels
  <2> QED
    BY <2>1, <2>2, <1>T
<1>6. ASSUME NEW u \in Updaters, SkipKnown(u) PROVE Own(u)' /\ Truthful'
  <2>1. pc[u] = "check" /\ Recorded(mine[u]) /\ lastCheck' = mine[u]
        /\ UNCHANGED <<versions, ever, writers>> /\ Return(u)
    BY <1>6 DEF SkipKnown
  <2>2. mine[u] \in Archives
    BY <2>1, <1>S DEF Own, Fetched, Placed, Opened, Labels
  <2>3. Truthful'
    BY <2>1, <2>2 DEF SerialInv, Truthful, RecordedWasServed, CheckedWasServed, Recorded
  <2> QED
    BY <2>1, <2>3, <1>R
<1>7. ASSUME NEW u \in Updaters, CheckNew(u) \/ CheckUnreadable(u) PROVE Own(u)' /\ Truthful'
  <2>1. /\ pc[u] = "check" /\ pc'[u] = "open"
        /\ UNCHANGED <<zip, data, writers, mixed, kind, mine, handle, todo, file,
                       parsed, counted, versions, catalog, ever, lastCheck>>
    BY <1>7, <1>G DEF CheckNew, CheckUnreadable
  <2>2. Own(u)'
    BY <2>1, <1>S DEF Own, Fetched, Placed, Opened, Labels
  <2> QED
    BY <2>1, <2>2, <1>T
<1>8. ASSUME NEW u \in Updaters, OpenZip(u) PROVE Own(u)' /\ Truthful'
  <2>1. /\ pc[u] = "open"
        /\ UNCHANGED <<zip, data, writers, mixed, versions, catalog, ever, lastCheck>>
    BY <1>8 DEF OpenZip
  <2>2. CASE ReadZip(u)
    <3>1. /\ pc'[u] = "clear" /\ handle'[u] = zip
          /\ UNCHANGED <<kind, mine, file, parsed, counted>>
      BY <2>2, <1>G DEF ReadZip, TypeOK
    <3>2. Own(u)'
      BY <2>1, <3>1, <1>S DEF Own, Fetched, Placed, Opened, Labels
    <3> QED
      BY <2>1, <3>2, <1>T
  <2>3. CASE Return(u)
    BY <2>1, <2>3, <1>R, <1>T
  <2> QED
    BY <1>8, <2>2, <2>3 DEF OpenZip
<1>9. ASSUME NEW u \in Updaters, NEW e \in Entries, ClearEntry(u, e) PROVE Own(u)' /\ Truthful'
  <2>1. /\ pc[u] = "clear" /\ e \in todo[u]
        /\ writers' = [writers EXCEPT ![e] = {}]
        /\ UNCHANGED <<zip, mixed, pc, kind, mine, handle, file, parsed, counted,
                       versions, catalog, ever, lastCheck>>
    BY <1>9 DEF ClearEntry
  <2>2. \A d \in Entries : u \notin writers'[d]
    BY <2>1, <1>S DEF Own, TypeOK
  <2>3. Own(u)'
    BY <2>1, <2>2, <1>S DEF Own
  <2> QED
    BY <2>1, <2>3, <1>T
<1>10. ASSUME NEW u \in Updaters, Cleared(u) PROVE Own(u)' /\ Truthful'
  <2>1. /\ pc[u] = "clear" /\ pc'[u] = "extract" /\ todo'[u] = Entries
        /\ UNCHANGED <<zip, data, writers, mixed, kind, mine, handle, file, parsed,
                       counted, versions, catalog, ever, lastCheck>>
    BY <1>10, <1>G DEF Cleared, TypeOK
  <2>2. Own(u)'
    BY <2>1, <1>S DEF Own, Fetched, Placed, Opened, Labels
  <2> QED
    BY <2>1, <2>2, <1>T
<1>11. ASSUME NEW u \in Updaters, NEW e \in Entries, OpenEntry(u, e) PROVE Own(u)' /\ Truthful'
  <2>1. /\ pc[u] = "extract" /\ pc'[u] = "write" /\ e \in todo[u]
        /\ UNCHANGED <<zip, kind, mine, handle, parsed, counted, versions, catalog,
                       ever, lastCheck>>
    BY <1>11, <1>G DEF OpenEntry
  <2>2. /\ todo'[u] = todo[u] \ {e} /\ file'[u] = e
        /\ \A d \in Entries : d # e => data'[d] = data[d]
    BY <1>11 DEF OpenEntry, TypeOK
  <2>3. ASSUME NEW d \in Entries, NEW v \in Updaters PROVE v \notin writers[d]
    <3>1. pc[v] = "write" => v = u
      BY <2>1 DEF NoOverlap
    <3> QED
      BY <2>1, <3>1, <1>S DEF Own
  <2>4. writers'[e] = {u} /\ ~mixed'[e] /\ \A d \in Entries : d # e => writers'[d] = {}
    <3>1. \A d \in Entries : writers[d] = {}
      BY <2>3 DEF TypeOK
    <3> QED
      BY <1>11, <3>1 DEF OpenEntry, TypeOK
  <2>5. OwnHandles(u)' /\ OwnFiles(u)'
    BY <2>1, <2>2, <2>4, <1>S DEF Own
  <2>6. Own(u)'
    BY <2>1, <2>5, <1>S DEF Own, Fetched, Placed, Opened, Labels
  <2> QED
    BY <2>1, <2>6, <1>T
<1>12. ASSUME NEW u \in Updaters, CloseEntry(u) PROVE Own(u)' /\ Truthful'
  <2> DEFINE e == file[u]
  <2>0. e \in Entries
    BY DEF TypeOK
  <2>1. /\ pc[u] = "write" /\ pc'[u] = "extract"
        /\ UNCHANGED <<zip, mixed, kind, mine, handle, todo, file, parsed, counted,
                       versions, catalog, ever, lastCheck>>
    BY <1>12, <1>G DEF CloseEntry, CloseAs
  <2>2. kind[u] # "reimport" /\ u \in writers[e] /\ ~mixed[e] /\ handle[u] = mine[u]
    BY <2>0, <2>1, <1>S DEF Own, Fetched, Placed, Opened, Labels
  <2>3. /\ data' = [data EXCEPT ![e] = handle[u]]
        /\ writers' = [writers EXCEPT ![e] = @ \ {u}]
    BY <1>12, <2>2 DEF CloseEntry, CloseAs
  <2>4. \A d \in Entries : u \notin writers'[d]
    BY <2>0, <2>1, <2>3, <1>S DEF Own, TypeOK
  <2>5. \A d \in Entries \ todo[u] : data'[d] = mine[u]
    BY <2>0, <2>1, <2>2, <2>3, <1>S DEF Own, TypeOK
  <2>6. Own(u)'
    BY <2>1, <2>4, <2>5, <1>S DEF Own, Fetched, Placed, Opened, Labels
  <2> QED
    BY <2>1, <2>6, <1>T
<1>13. ASSUME NEW u \in Updaters, Extracted(u) PROVE Own(u)' /\ Truthful'
  <2>1. /\ pc[u] = "extract" /\ pc'[u] = "parse" /\ todo[u] = {}
        /\ UNCHANGED <<zip, data, writers, mixed, kind, mine, handle, todo, file,
                       parsed, counted, versions, catalog, ever, lastCheck>>
    BY <1>13, <1>G DEF Extracted
  <2>2. Own(u)'
    BY <2>1, <1>S DEF Own, Fetched, Placed, Opened, Labels
  <2> QED
    BY <2>1, <2>2, <1>T
<1>14. ASSUME NEW u \in Updaters, NEW e \in Entries, Parse(u, e) PROVE Own(u)' /\ Truthful'
  <2>1. /\ pc[u] = "parse"
        /\ UNCHANGED <<zip, data, writers, mixed, versions, catalog, ever, lastCheck>>
    BY <1>14 DEF Parse
  <2>2. CASE Return(u)
    BY <2>1, <2>2, <1>R, <1>T
  <2>3. CASE ~Return(u)
    <3>1. /\ parsed' = [parsed EXCEPT ![u][e] = data[e]]
          /\ UNCHANGED <<pc, kind, mine, handle, todo, file, counted>>
      BY <1>14, <2>3 DEF Parse
    <3>2. kind[u] # "reimport" => data[e] = mine[u]
      BY <2>1, <1>S DEF Own
    <3>3. /\ parsed'[u][e] = data[e]
          /\ \A d \in Entries : d # e => parsed'[u][d] = parsed[u][d]
      BY <3>1 DEF TypeOK
    <3>4. Own(u)'
      BY <2>1, <3>1, <3>2, <3>3, <1>S DEF Own
    <3> QED
      BY <2>1, <3>4, <1>T
  <2> QED
    BY <2>2, <2>3
<1>15. ASSUME NEW u \in Updaters, Parsed(u) PROVE Own(u)' /\ Truthful'
  <2>1. /\ pc[u] = "parse" /\ pc'[u] = "begin"
        /\ UNCHANGED <<zip, data, writers, mixed, kind, mine, handle, todo, file,
                       parsed, counted, versions, catalog, ever, lastCheck>>
    BY <1>15, <1>G DEF Parsed
  <2>2. Own(u)'
    BY <2>1, <1>S DEF Own, Fetched, Placed, Opened, Labels
  <2> QED
    BY <2>1, <2>2, <1>T
<1>16. ASSUME NEW u \in Updaters, Begin(u) PROVE Own(u)' /\ Truthful'
  <2>1. /\ pc[u] = "begin"
        /\ UNCHANGED <<zip, data, writers, mixed, versions, catalog, ever, lastCheck>>
    BY <1>16 DEF Begin
  <2>2. CASE Return(u)
    BY <2>1, <2>2, <1>R, <1>T
  <2>3. CASE ~Return(u)
    <3>1. pc'[u] = "tx" /\ UNCHANGED <<kind, mine, handle, todo, file, parsed, counted>>
      BY <1>16, <2>3, <1>G DEF Begin
    <3>2. Own(u)'
      BY <2>1, <3>1, <1>S DEF Own, Fetched, Placed, Opened, Labels
    <3> QED
      BY <2>1, <3>2, <1>T
  <2> QED
    BY <2>2, <2>3
<1>17. ASSUME NEW u \in Updaters, Commit(u) PROVE Own(u)' /\ Truthful'
  <2>1. /\ pc[u] = "tx" /\ pc'[u] = "count"
        /\ catalog' = parsed[u]
        /\ ever' = ever \cup {a \in Archives : parsed[u] = AllOf(a)}
        /\ UNCHANGED <<zip, data, writers, mixed, kind, mine, handle, todo, file,
                       parsed, counted, versions, lastCheck>>
    BY <1>17, <1>G DEF Commit, CommitTables
  <2>2. kind[u] # "reimport" => mine[u] \in Archives /\ parsed[u] = AllOf(mine[u])
    BY <2>1, <1>S DEF Own, Fetched, Labels, TypeOK, AllOf, ReadAll
  <2>3. OwnImport(u)'
    BY <2>1, <2>2
  <2>4. Own(u)'
    BY <2>1, <2>3, <1>S DEF Own, Fetched, Placed, Opened, Labels
  <2> QED
    BY <2>1, <2>4, <1>T
<1>18. ASSUME NEW u \in Updaters, Count(u) \/ CountUnreadable(u) PROVE Own(u)' /\ Truthful'
  <2>1. /\ pc[u] = "count"
        /\ UNCHANGED <<zip, data, writers, mixed, versions, catalog, ever, lastCheck>>
    BY <1>18 DEF Count, CountUnreadable
  <2>2. CASE Return(u)
    BY <2>1, <2>2, <1>R, <1>T
  <2>3. CASE ~Return(u)
    <3>1. /\ pc'[u] = "record" /\ kind[u] # "reimport"
          /\ counted'[u] \in {catalog["types"], Zero}
          /\ UNCHANGED <<kind, mine, handle, todo, file, parsed>>
      BY <1>18, <2>3, <1>G DEF Count, CountUnreadable, TypeOK
    <3>2. catalog["types"] = mine[u]
      BY <2>1, <3>1, <1>S DEF Own, AllOf
    <3>3. Own(u)'
      BY <2>1, <3>1, <3>2, <1>S DEF Own, Fetched, Placed, Opened, Labels
    <3> QED
      BY <2>1, <3>3, <1>T
  <2> QED
    BY <2>2, <2>3
<1>19. ASSUME NEW u \in Updaters, Record(u) PROVE Own(u)' /\ Truthful'
  <2>1. /\ pc[u] = "record" /\ Return(u)
        /\ versions' \in {versions, [versions EXCEPT ![mine[u]] = counted[u]]}
        /\ lastCheck' \in {mine[u], lastCheck}
        /\ UNCHANGED <<writers, ever>>
    BY <1>19 DEF Record, Note
  <2>2. mine[u] \in Archives /\ mine[u] \in ever /\ counted[u] \in {mine[u], Zero}
    BY <2>1, <1>S DEF Own, Fetched, Labels
  <2>3. Truthful'
    <3>1. \A a \in Archives : \/ versions'[a] = versions[a]
                              \/ a = mine[u] /\ versions'[a] \in {mine[u], Zero}
      BY <2>1, <2>2 DEF TypeOK
    <3> QED
      BY <2>1, <2>2, <3>1 DEF SerialInv, Truthful, RecordedWasServed,
         CheckedWasServed, Recorded
  <2> QED
    BY <2>1, <2>3, <1>R
<1>20. ASSUME NEW u \in Updaters, Fail(u) \/ KillCommand(u) PROVE Own(u)' /\ Truthful'
  <2>1. /\ End({u}) /\ UNCHANGED <<versions, ever>>
        /\ writers' = [e \in Entries |-> writers[e] \ {u}]
        /\ \/ lastCheck' = lastCheck
           \/ pc[u] = "record" /\ lastCheck' \in {mine[u], lastCheck}
    BY <1>20 DEF Fail, KillCommand, Abort, Return, Note
  <2>2. Own(u)'
    BY <2>1, EndOwn
  <2>3. pc[u] = "record" => mine[u] \in ever
    BY <1>S DEF Own
  <2>4. Truthful'
    BY <2>1, <2>3 DEF SerialInv, Truthful, RecordedWasServed, CheckedWasServed, Recorded
  <2> QED
    BY <2>2, <2>4
<1>21. CASE CrashServer
  <2> DEFINE S == ServerRuns
  <2>1. /\ End(S) /\ lastCheck' = None
        /\ writers' = [e \in Entries |-> writers[e] \ S]
        /\ UNCHANGED <<zip, data, mixed, catalog, versions, ever>>
    BY <1>21 DEF CrashServer, Abort
  <2>2. Truthful'
    BY <2>1 DEF SerialInv, Truthful, RecordedWasServed, CheckedWasServed, Recorded
  <2>3. ASSUME NEW u \in Updaters PROVE Own(u)'
    <3>1. CASE u \in S
      <4> HIDE DEF S
      <4> QED
        BY <2>1, <3>1, EndOwn
    <3>2. CASE u \notin S
      <4> HIDE DEF S
      <4>1. /\ pc'[u] = pc[u] /\ kind'[u] = kind[u] /\ mine'[u] = mine[u]
            /\ handle'[u] = handle[u] /\ todo'[u] = todo[u] /\ file'[u] = file[u]
            /\ parsed'[u] = parsed[u] /\ counted'[u] = counted[u]
        BY <2>1, <3>2 DEF End, Reset
      <4>2. \A e \in Entries : u \in writers'[e] <=> u \in writers[e]
        BY <2>1, <3>2
      <4>3. file[u] \in Entries
        BY DEF TypeOK
      <4>4. OwnHandles(u)'
        BY <2>1, <4>1, <4>2, <1>S DEF Own
      <4>5. OwnFiles(u)'
        <5>1. OwnFiles(u) /\ data' = data
          BY <2>1, <1>S DEF Own
        <5>2. u \in writers'[file[u]] <=> u \in writers[file[u]]
          BY <4>2, <4>3
        <5> HIDE DEF Own, OwnHandles
        <5> QED
          BY <4>1, <5>1, <5>2
      <4> QED
        BY <2>1, <4>1, <4>4, <4>5, <1>S DEF Own
    <3> QED
      BY <3>1, <3>2
  <2> QED
    BY <2>2, <2>3 DEF SerialInv
\* The other runs are idle, before and after.
<1>22. ASSUME NEW u \in Updaters, Acts(u) PROVE SerialInv'
  <2>1. Own(u)' /\ Truthful'
    BY <1>22, <1>2, <1>3, <1>4, <1>5, <1>6, <1>7, <1>8, <1>9, <1>10, <1>11, <1>12,
       <1>13, <1>14, <1>15, <1>16, <1>17, <1>18, <1>19, <1>20 DEF Acts, Step
  <2>2. ASSUME NEW v \in Updaters, v # u PROVE Own(v)'
    <3>1. pc[v] = "idle"
      BY <1>22, <2>2, SomeoneActs
    <3>2. pc'[v] = "idle" /\ kind'[v] = kind[v] /\ parsed'[v] = parsed[v]
      BY <1>22, <2>2, <3>1, OwnJobOnly DEF OwnOnly
    <3>3. \A e \in Entries : v \notin writers'[e]
      BY <1>22, <2>2, <3>1, <1>S, OwnJobOnly DEF OwnOnly, Own
    <3>4. kind[v] # "reimport" /\ \A e \in Entries : parsed[v][e] = None
      BY <3>1, <1>S DEF Own
    <3> QED
      BY <3>2, <3>3, <3>4 DEF Own, Fetched, Placed, Opened
  <2> QED
    BY <2>1, <2>2 DEF SerialInv
<1> QED
  BY <1>1, <1>21, <1>22, NextIs

-----------------------------------------------------------------------------
\* In the initial state no run is under way, nothing is recorded or checked.
LEMMA SerialInit == Init => SerialInv
BY UpdateAssumption DEF Init, SerialInv, Own, OwnStage, OwnZip, OwnHandles, OwnFiles,
   OwnTables, OwnImport, Fetched, Placed, Opened, AllOf, Truthful,
   RecordedWasServed, CheckedWasServed, Recorded

\* The inductive invariant holds as long as no two runs have overlapped.
LEMMA SerialAlways == Spec /\ []NoOverlap => []SerialInv
<1>1. NoOverlap /\ NoOverlap' /\ TypeOK /\ ReadAll /\ SerialInv /\ [Next]_vars => SerialInv'
  BY SerialStep
<1> QED
  BY SerialInit, <1>1, ReadAllAlways, TypeCorrect, PTL DEF Spec

\* A checksum in the history is that of an archive that was served, when runs
\* do not overlap: whatever fails or is killed, no row is left for an import
\* that did not happen (the insert at the end of updateSDE).
THEOREM HistoryIsTrue == Spec /\ []NoOverlap => []RecordedWasServed
<1>1. SerialInv => RecordedWasServed
  BY DEF SerialInv, Truthful
<1> QED
  BY <1>1, SerialAlways, PTL

\* GetLastCheck names an archive that has been served, when runs do not overlap.
THEOREM CheckIsTrue == Spec /\ []NoOverlap => []CheckedWasServed
<1>1. SerialInv => CheckedWasServed
  BY DEF SerialInv, Truthful
<1> QED
  BY <1>1, SerialAlways, PTL

-----------------------------------------------------------------------------
\* The write lock is held exactly by a run inside its transaction, for any number
\* of overlapping runs: no error path and no crash leaks it (ImportAll).
THEOREM LockIsExact == Spec => []LockMatchesTx
<1> USE UpdateAssumption DEF At
<1>1. Init => LockMatchesTx
  BY DEF Init, LockMatchesTx
<1>2. TypeOK /\ LockMatchesTx /\ [Next]_vars => LockMatchesTx'
  <2> SUFFICES ASSUME TypeOK, LockMatchesTx, [Next]_vars PROVE LockMatchesTx'
    OBVIOUS
  <2> USE DEF files, dir, run, job, db, site
  <2>U. ASSUME UNCHANGED <<lock, pc>> PROVE LockMatchesTx'
    BY <2>U DEF LockMatchesTx
  <2>N. ASSUME NEW u \in Updaters, NEW l, l # "tx", pc[u] # "tx", Goto(u, l), UNCHANGED lock
        PROVE  LockMatchesTx'
    BY <2>N DEF LockMatchesTx, Goto, TypeOK
  <2>S. ASSUME NEW S, End(S), Rollback(S) PROVE LockMatchesTx'
    <3>1. \A v \in Updaters : pc'[v] = IF v \in S THEN "idle" ELSE pc[v]
      BY <2>S DEF End, Reset
    <3>2. lock' = IF lock \in S THEN None ELSE lock
      BY <2>S DEF Rollback
    <3> QED
      BY <3>1, <3>2 DEF LockMatchesTx
  <2>R. ASSUME NEW u \in Updaters, Return(u), pc[u] # "tx", UNCHANGED lock
        PROVE  LockMatchesTx'
    <3>1. \A v \in Updaters : pc'[v] = IF v = u THEN "idle" ELSE pc[v]
      BY <2>R DEF Return, End, Reset
    <3> QED
      BY <2>R, <3>1 DEF LockMatchesTx
  <2>1. CASE UNCHANGED vars \/ \E a \in Archives : Publish(a)
    BY <2>1, <2>U DEF vars, Publish
  <2>2. ASSUME NEW u \in Updaters, NEW k \in Kinds, Start(u, k) PROVE LockMatchesTx'
    BY <2>2, <2>N DEF Start
  <2>3. ASSUME NEW u \in Updaters, \/ Fetch(u) \/ UnlinkZip(u) \/ PlaceZip(u)
                                   \/ CheckNew(u) \/ CheckUnreadable(u)
        PROVE  LockMatchesTx'
    BY <2>3, <2>N DEF Fetch, FetchAs, UnlinkZip, PlaceZip, CheckNew, CheckUnreadable
  <2>4. ASSUME NEW u \in Updaters, \/ Cleared(u) \/ CloseEntry(u) \/ Extracted(u)
                                   \/ Parsed(u) \/ CountUnreadable(u)
        PROVE  LockMatchesTx'
    BY <2>4, <2>N DEF Cleared, CloseEntry, CloseAs, Extracted, Parsed, CountUnreadable
  <2>5. ASSUME NEW u \in Updaters, SkipKnown(u) \/ OpenZip(u) \/ Count(u) \/ Record(u)
        PROVE  LockMatchesTx'
    BY <2>5, <2>N, <2>R DEF SkipKnown, OpenZip, ReadZip, Count, Record
  <2>6. ASSUME NEW u \in Updaters, NEW e \in Entries,
               ClearEntry(u, e) \/ OpenEntry(u, e) \/ Parse(u, e)
        PROVE  LockMatchesTx'
    BY <2>6, <2>U, <2>N, <2>R DEF ClearEntry, OpenEntry, Parse
  <2>7. ASSUME NEW u \in Updaters, Begin(u) PROVE LockMatchesTx'
    <3>1. CASE Return(u)
      BY <2>7, <3>1, <2>R DEF Begin, Goto, Return, End, Reset, TypeOK
    <3>2. CASE ~Return(u)
      <4>1. lock = None /\ lock' = u /\ Goto(u, "tx")
        BY <2>7, <3>2 DEF Begin
      <4> QED
        BY <4>1 DEF LockMatchesTx, Goto, TypeOK
    <3> QED
      BY <3>1, <3>2
  <2>8. ASSUME NEW u \in Updaters, Commit(u) PROVE LockMatchesTx'
    <3>1. pc[u] = "tx" /\ lock' = None /\ Goto(u, "count")
      BY <2>8 DEF Commit, CommitTables
    <3> QED
      BY <3>1 DEF LockMatchesTx, Goto, TypeOK
  <2>9. ASSUME NEW u \in Updaters, Fail(u) \/ KillCommand(u) PROVE LockMatchesTx'
    BY <2>9, <2>S DEF Fail, KillCommand, Return
  <2>10. CASE CrashServer
    BY <2>10, <2>S DEF CrashServer
  <2> QED
    BY <2>1, <2>2, <2>3, <2>4, <2>5, <2>6, <2>7, <2>8, <2>9, <2>10 DEF Next, Step
<1> QED
  BY <1>1, <1>2, TypeCorrect, PTL DEF Spec

-----------------------------------------------------------------------------
\* No step but a commit touches the tables, none but Record the history.
LEMMA OnlyCommitAndRecord ==
  [Next]_vars =>
    \/ UNCHANGED <<catalog, versions, ever>>
    \/ \E u \in Updaters : Commit(u) \/ Record(u)
<1> SUFFICES ASSUME [Next]_vars, ~\E u \in Updaters : Commit(u) \/ Record(u)
             PROVE  UNCHANGED <<catalog, versions, ever>>
  OBVIOUS
<1> USE DEF files, dir, run, job, db, site
<1>1. CASE UNCHANGED vars \/ \E a \in Archives : Publish(a)
  BY <1>1 DEF vars, Publish
<1>2. ASSUME NEW u \in Updaters, Step(u) PROVE UNCHANGED <<catalog, versions, ever>>
  <2>1. CASE Fetch(u) \/ UnlinkZip(u) \/ PlaceZip(u) \/ SkipKnown(u)
    BY <2>1 DEF Fetch, FetchAs, UnlinkZip, PlaceZip, SkipKnown
  <2>2. CASE CheckNew(u) \/ OpenZip(u) \/ Cleared(u) \/ CloseEntry(u)
    BY <2>2 DEF CheckNew, OpenZip, Cleared, CloseEntry, CloseAs
  <2>3. CASE Extracted(u) \/ Parsed(u) \/ Begin(u) \/ Count(u)
    BY <2>3 DEF Extracted, Parsed, Begin, Count
  <2>4. ASSUME NEW e \in Entries, ClearEntry(u, e) \/ OpenEntry(u, e) \/ Parse(u, e)
        PROVE  UNCHANGED <<catalog, versions, ever>>
    BY <2>4 DEF ClearEntry, OpenEntry, Parse
  <2> QED
    BY <1>2, <2>1, <2>2, <2>3, <2>4 DEF Step
<1>3. ASSUME NEW u \in Updaters, \/ CheckUnreadable(u) \/ CountUnreadable(u)
                                 \/ Fail(u) \/ KillCommand(u)
      PROVE  UNCHANGED <<catalog, versions, ever>>
  BY <1>3 DEF CheckUnreadable, CountUnreadable, Fail, KillCommand, Abort
<1>4. ASSUME NEW u \in Updaters, NEW k \in Kinds, Start(u, k)
      PROVE  UNCHANGED <<catalog, versions, ever>>
  BY <1>4 DEF Start
<1>5. CASE CrashServer
  BY <1>5 DEF CrashServer, Abort
<1> QED
  BY <1>1, <1>2, <1>3, <1>4, <1>5 DEF Next

\* What a commit of a run that downloads puts in place: its own archive, whole.
LEMMA CommitWhole ==
  ASSUME TypeOK, ReadAll, NEW u \in Updaters, Own(u), kind[u] # "reimport", Commit(u)
  PROVE  /\ mine[u] \in Archives
         /\ catalog' = AllOf(mine[u]) /\ ever' = ever \cup {mine[u]}
         /\ UNCHANGED versions
<1> USE UpdateAssumption DEF At
<1>1. /\ pc[u] = "tx" /\ catalog' = parsed[u] /\ UNCHANGED versions
      /\ ever' = ever \cup {a \in Archives : parsed[u] = AllOf(a)}
  BY DEF Commit, CommitTables
<1>2. mine[u] \in Archives
  BY <1>1 DEF Own, OwnZip, Fetched, Labels
<1>3. parsed[u] = AllOf(mine[u])
  BY <1>1 DEF Own, OwnTables, ReadAll, TypeOK, AllOf
<1>4. \A a \in Archives : AllOf(a) = AllOf(mine[u]) => a = mine[u]
  <2>1. \A a : AllOf(a)["types"] = a
    BY DEF AllOf
  <2> QED
    BY <2>1
<1> QED
  BY <1>1, <1>2, <1>3, <1>4

\* The tables the API reads always come from one archive, or are the sample: for
\* any number of archives, files, faults and kills, if runs do not overlap and
\* nobody re-imports a directory a failed run left behind.
THEOREM CatalogIsWhole ==
  Spec /\ []NoOverlap /\ []Downloads => []CatalogIntact
<1>1. Init => CatalogIntact
  BY DEF Init, CatalogIntact, Whole
<1>2. ASSUME TypeOK, ReadAll, SerialInv, Downloads, CatalogIntact, [Next]_vars
      PROVE  CatalogIntact'
  <2>1. CASE UNCHANGED catalog
    BY <1>2, <2>1 DEF CatalogIntact, Whole
  <2>2. ASSUME NEW u \in Updaters, Commit(u) PROVE CatalogIntact'
    <3>1. mine[u] \in Archives /\ catalog' = AllOf(mine[u])
      BY <1>2, <2>2, CommitWhole DEF SerialInv, Downloads
    <3> QED
      BY <3>1 DEF CatalogIntact, Whole
  <2>3. ASSUME NEW u \in Updaters, Record(u) PROVE UNCHANGED catalog
    BY <2>3 DEF Record
  <2> QED
    BY <1>2, <2>1, <2>2, <2>3, OnlyCommitAndRecord
<1> QED
  BY <1>1, <1>2, ReadAllAlways, SerialAlways, TypeCorrect, PTL DEF Spec

-----------------------------------------------------------------------------
\* What the tables show is well defined: they hold one archive at most.
LEMMA ServedIs ==
  ASSUME NEW a \in Archives \cup {Sample}, catalog = AllOf(a) PROVE Served = a
<1>1. \A b : AllOf(b)["types"] = b
  BY UpdateAssumption DEF AllOf
<1>2. Whole = {a}
  BY <1>1 DEF Whole
<1> QED
  BY <1>2 DEF Served

\* The pipeline implements the catalogue's promise: an import is one Install, a
\* version row one Record of what was installed, and every other step, failed
\* runs and crashes included, changes nothing a reader of the tables or of the
\* history can see.
THEOREM Implements ==
  Spec /\ []NoOverlap /\ []Downloads => KeepsPromise
<1> USE UpdateAssumption
<1>1. Init => Promise!Init
  BY ServedIs DEF Init, Promise!Init, History, Recorded
<1>2. ASSUME TypeOK, ReadAll, SerialInv, Downloads, [Next]_vars
      PROVE  [Promise!Next]_(Promise!cvars)
  <2>1. CASE UNCHANGED <<catalog, versions, ever>>
    BY <2>1 DEF Promise!cvars, Served, Whole, History, Recorded
  <2>2. ASSUME NEW u \in Updaters, Commit(u) PROVE Promise!Next
    <3>1. /\ mine[u] \in Archives /\ catalog' = AllOf(mine[u])
          /\ ever' = ever \cup {mine[u]} /\ UNCHANGED versions
      BY <1>2, <2>2, CommitWhole DEF SerialInv, Downloads
    <3>2. Served' = mine[u]
      <4>1. \A b : AllOf(b)["types"] = b
        BY DEF AllOf
      <4>2. Whole' = {mine[u]}
        BY <3>1, <4>1 DEF Whole
      <4> QED
        BY <4>2 DEF Served
    <3>3. UNCHANGED History
      BY <3>1 DEF History, Recorded
    <3> QED
      BY <3>1, <3>2, <3>3 DEF Promise!Next, Promise!Install
  <2>3. ASSUME NEW u \in Updaters, Record(u) PROVE [Promise!Next]_(Promise!cvars)
    <3>1. /\ pc[u] = "record" /\ UNCHANGED <<catalog, ever>>
          /\ versions' \in {versions, [versions EXCEPT ![mine[u]] = counted[u]]}
      BY <2>3 DEF Record, At
    <3>2. mine[u] \in Archives /\ mine[u] \in ever /\ counted[u] # None
      <4>1. mine[u] \in Archives /\ mine[u] \in ever /\ counted[u] \in {mine[u], Zero}
        BY <1>2, <3>1 DEF SerialInv, Downloads, Own, OwnZip, OwnImport, Fetched, Labels
      <4> QED
        BY <4>1
    <3>3. UNCHANGED Served
      BY <3>1 DEF Served, Whole
    <3>4. CASE UNCHANGED versions
      BY <3>1, <3>3, <3>4 DEF Promise!cvars, History, Recorded
    <3>5. CASE versions' = [versions EXCEPT ![mine[u]] = counted[u]]
      <4>1. History' = History \cup {mine[u]}
        BY <1>2, <3>2, <3>5 DEF History, Recorded, TypeOK
      <4> QED
        BY <3>1, <3>2, <3>3, <4>1 DEF Promise!Next, Promise!Record
    <3> QED
      BY <3>1, <3>4, <3>5
  <2> QED
    BY <1>2, <2>1, <2>2, <2>3, OnlyCommitAndRecord
<1> QED
  BY <1>1, <1>2, ReadAllAlways, SerialAlways, TypeCorrect, PTL
     DEF Spec, KeepsPromise, Promise!Spec

-----------------------------------------------------------------------------
\* A run gets its archive by Fetch alone, and keeps it as long as it is under way.
LEMMA StillFetched ==
  ASSUME TypeOK, Downloads', [Next]_vars, NEW u \in Updaters, pc'[u] \in Fetched
  PROVE  Fetch(u) \/ (pc[u] \in Fetched /\ mine'[u] = mine[u])
<1> USE DEF files, dir, run, job, db, site, At
<1>G. ASSUME NEW l, Goto(u, l) PROVE pc'[u] = l
  BY <1>G DEF Goto, TypeOK
<1>E. ASSUME NEW S, End(S) PROVE pc[u] \in Fetched /\ mine'[u] = mine[u]
  BY <1>E DEF End, Reset, Fetched
<1>1. CASE UNCHANGED vars \/ \E a \in Archives : Publish(a)
  BY <1>1 DEF vars, Publish
<1>2. ASSUME NEW v \in Updaters, Acts(v), v # u PROVE pc[u] \in Fetched /\ mine'[u] = mine[u]
  BY <1>2, OwnJobOnly DEF OwnOnly
<1>3. CASE CrashServer
  BY <1>3, <1>E DEF CrashServer
<1>4. ASSUME NEW k \in Kinds, Start(u, k) PROVE FALSE
  <2>1. pc'[u] = IF k = "reimport" THEN "parse" ELSE "fetch"
    BY <1>4, <1>G DEF Start
  <2>2. kind'[u] = k
    BY <1>4 DEF Start, TypeOK
  <2> QED
    BY <2>1, <2>2 DEF Downloads, Fetched
<1>5. CASE \/ UnlinkZip(u) \/ PlaceZip(u) \/ CheckNew(u) \/ CheckUnreadable(u)
           \/ Cleared(u) \/ CloseEntry(u) \/ Extracted(u) \/ Parsed(u) \/ Commit(u)
           \/ CountUnreadable(u)
  <2>1. mine' = mine /\ pc[u] \in {"unlink", "place", "check", "clear", "write",
                                  "extract", "parse", "tx", "count"}
    BY <1>5 DEF UnlinkZip, PlaceZip, CheckNew, CheckUnreadable, Cleared, CloseEntry,
                CloseAs, Extracted, Parsed, Commit, CommitTables, CountUnreadable
  <2> QED
    BY <2>1 DEF Fetched, Labels
<1>6. CASE \/ SkipKnown(u) \/ Record(u) \/ Fail(u) \/ KillCommand(u)
  BY <1>6, <1>E DEF SkipKnown, Record, Fail, KillCommand, Return
<1>7. CASE OpenZip(u) \/ Begin(u) \/ Count(u)
  <2>1. CASE Return(u)
    BY <2>1, <1>E DEF Return
  <2>2. CASE ~Return(u)
    <3>1. mine' = mine /\ pc[u] \in {"open", "begin", "count"}
      BY <1>7, <2>2 DEF OpenZip, ReadZip, Begin, Count
    <3> QED
      BY <3>1 DEF Fetched, Labels
  <2> QED
    BY <2>1, <2>2
<1>8. ASSUME NEW e \in Entries, ClearEntry(u, e) \/ OpenEntry(u, e) \/ Parse(u, e)
      PROVE  pc[u] \in Fetched /\ mine'[u] = mine[u]
  <2>1. CASE Return(u)
    BY <2>1, <1>E DEF Return
  <2>2. CASE ~Return(u)
    <3>1. mine' = mine /\ pc[u] \in {"clear", "extract", "parse"}
      BY <1>8, <2>2 DEF ClearEntry, OpenEntry, Parse
    <3> QED
      BY <3>1 DEF Fetched, Labels
  <2> QED
    BY <2>1, <2>2
<1>9. CASE Acts(u)
  BY <1>9, <1>4, <1>5, <1>6, <1>7, <1>8 DEF Acts, Step
<1> QED
  BY <1>1, <1>2, <1>3, <1>9, NextIs

LEMMA OnlyPublish ==
  ASSUME [Next]_vars
  PROVE  UNCHANGED site \/ \E a \in Archives : Publish(a)
<1> USE DEF files, dir, run, job, db
<1>1. ASSUME NEW u \in Updaters, Step(u) PROVE UNCHANGED site
  <2>1. CASE \/ Fetch(u) \/ UnlinkZip(u) \/ PlaceZip(u) \/ SkipKnown(u) \/ CheckNew(u)
             \/ OpenZip(u) \/ Cleared(u) \/ CloseEntry(u) \/ Extracted(u) \/ Parsed(u)
    BY <2>1 DEF Fetch, FetchAs, UnlinkZip, PlaceZip, SkipKnown, CheckNew, OpenZip,
                Cleared, CloseEntry, CloseAs, Extracted, Parsed
  <2>2. CASE \/ Begin(u) \/ Commit(u) \/ Count(u) \/ Record(u)
             \/ \E e \in Entries : ClearEntry(u, e) \/ OpenEntry(u, e) \/ Parse(u, e)
    BY <2>2 DEF Begin, Commit, CommitTables, Count, Record, ClearEntry, OpenEntry, Parse
  <2> QED
    BY <1>1, <2>1, <2>2 DEF Step
<1>2. ASSUME NEW u \in Updaters,
             \/ CheckUnreadable(u) \/ CountUnreadable(u) \/ Fail(u) \/ KillCommand(u)
             \/ \E k \in Kinds : Start(u, k)
      PROVE  UNCHANGED site
  BY <1>2 DEF CheckUnreadable, CountUnreadable, Fail, KillCommand, Abort, Start
<1>3. CASE UNCHANGED vars \/ CrashServer
  BY <1>3 DEF vars, CrashServer, Abort
<1> QED
  BY <1>1, <1>2, <1>3, NextIs DEF Acts

\* Where an archive that was served, and one that a run has fetched, stand in the
\* order of publication, when no old archive is published again: whatever was
\* served has been replaced at the site, or is what the tables hold.
NewestServed ==
    /\ published \notin retired /\ ever \subseteq retired \cup {published}
    /\ \A a \in ever : a \in retired \/ catalog = AllOf(a)
NewestFetched(u) == pc[u] \in Fetched =>
    /\ mine[u] \in retired \cup {published}
    /\ mine[u] \in ever => catalog = AllOf(mine[u])
    /\ ever \ {mine[u]} \subseteq retired
Newest == NewestServed /\ \A u \in Updaters : NewestFetched(u)

LEMMA NewestStep ==
  ASSUME ~Reissue, NoOverlap, NoOverlap', Downloads, Downloads', TypeOK, ReadAll,
         SerialInv, Newest, [Next]_vars
  PROVE  Newest'
<1> USE UpdateAssumption DEF Newest, NewestServed, NewestFetched
<1>1. ASSUME NEW a \in Archives, Publish(a) PROVE Newest'
  <2>1. /\ published' = a /\ retired' = retired \cup {published}
        /\ a # published /\ a \notin retired
        /\ UNCHANGED <<pc, mine, ever, catalog>>
    BY <1>1 DEF Publish, run, job, db
  <2> QED
    BY <2>1
<1>2. ASSUME NEW u \in Updaters, Commit(u) PROVE Newest'
  <2>1. pc[u] = "tx" /\ UNCHANGED site /\ mine' = mine
    BY <1>2 DEF Commit, CommitTables, At, job
  <2>2. catalog' = AllOf(mine[u]) /\ ever' = ever \cup {mine[u]}
    BY <1>2, CommitWhole DEF SerialInv, Downloads
  <2>3. pc[u] \in Fetched
    BY <2>1 DEF Fetched, Labels
  <2>4. NewestServed'
    BY <2>1, <2>2, <2>3 DEF site
  <2>5. NewestFetched(u)'
    BY <2>1, <2>2, <2>3 DEF site
  <2>6. ASSUME NEW v \in Updaters, v # u PROVE pc'[v] \notin Fetched
    <3>1. Acts(u)
      BY <1>2 DEF Acts, Step
    <3>2. pc[v] = "idle" /\ pc'[v] = pc[v]
      BY <2>6, <3>1, SomeoneActs, OwnJobOnly DEF OwnOnly
    <3> QED
      BY <3>2 DEF Fetched
  <2> QED
    BY <2>4, <2>5, <2>6
<1>3. ASSUME UNCHANGED <<site, catalog, ever>> PROVE Newest'
  <2>1. NewestServed'
    BY <1>3 DEF site
  <2>2. ASSUME NEW u \in Updaters, pc'[u] \in Fetched
        PROVE  /\ mine'[u] \in retired \cup {published}
               /\ mine'[u] \in ever => catalog = AllOf(mine'[u])
               /\ ever \ {mine'[u]} \subseteq retired
    <3>1. CASE Fetch(u)
      <4>1. mine'[u] = published
        BY <3>1 DEF Fetch, FetchAs, TypeOK
      <4> QED
        BY <4>1
    <3>2. CASE pc[u] \in Fetched /\ mine'[u] = mine[u]
      BY <3>2
    <3> QED
      BY <2>2, <3>1, <3>2, StillFetched
  <2> QED
    BY <1>3, <2>1, <2>2 DEF site
<1>4. ASSUME NEW u \in Updaters, Record(u) PROVE UNCHANGED <<catalog, ever>>
  BY <1>4 DEF Record
<1>5. CASE UNCHANGED <<catalog, ever>>
  BY <1>1, <1>3, <1>5, OnlyPublish
<1> QED
  BY <1>2, <1>4, <1>5, OnlyCommitAndRecord

LEMMA NewestAlways ==
  ASSUME ~Reissue
  PROVE  Spec /\ []NoOverlap /\ []Downloads => []Newest
<1>1. Init => Newest
  BY DEF Init, Newest, NewestServed, NewestFetched, Fetched
<1>2. /\ NoOverlap /\ NoOverlap' /\ Downloads /\ Downloads'
      /\ TypeOK /\ ReadAll /\ SerialInv /\ Newest /\ [Next]_vars
      => Newest'
  BY NewestStep
<1> QED
  BY <1>1, <1>2, ReadAllAlways, SerialAlways, TypeCorrect, PTL DEF Spec

\* An update never takes the catalogue back to an archive it held before, for any
\* sequence of publications, failures and kills, when runs do not overlap and CCP
\* publishes no old archive again.
THEOREM NeverBack ==
  ASSUME ~Reissue
  PROVE  Spec /\ []NoOverlap /\ []Downloads => NoRegression
<1>1. ASSUME TypeOK, ReadAll, SerialInv, Downloads, Newest, [Next]_vars,
             catalog' # catalog, NEW a \in ever
      PROVE  catalog' # AllOf(a)
  <2>1. PICK u \in Updaters : Commit(u)
    BY <1>1, OnlyCommitAndRecord DEF Record
  <2>2. catalog' = AllOf(mine[u])
    BY <1>1, <2>1, CommitWhole DEF SerialInv, Downloads
  <2>3. mine[u] \in ever => catalog = AllOf(mine[u])
    BY <1>1, <2>1 DEF Newest, NewestFetched, Fetched, Labels, Commit, CommitTables, At
  <2>4. \A b : AllOf(b)["types"] = b
    BY UpdateAssumption DEF AllOf
  <2> QED
    BY <1>1, <2>2, <2>3, <2>4
<1>2. /\ TypeOK /\ ReadAll /\ SerialInv /\ Downloads /\ Newest /\ [Next]_vars
      => (catalog' # catalog => \A a \in ever : catalog' # AllOf(a))
  BY <1>1
<1> QED
  BY <1>2, ReadAllAlways, SerialAlways, NewestAlways, TypeCorrect, PTL
     DEF Spec, NoRegression

\* "already imported, skipping" is only said while that archive is what the
\* tables hold: the version check of updateSDE skips no import that is needed,
\* when runs do not overlap and CCP publishes no old archive again.
THEOREM SkipIsSafe ==
  ASSUME ~Reissue
  PROVE  Spec /\ []NoOverlap /\ []Downloads => SkipOnlyIfServing
<1>1. ASSUME SerialInv, Newest, NEW u \in Updaters, SkipKnown(u)
      PROVE  catalog = AllOf(mine[u])
  <2>1. pc[u] = "check" /\ Recorded(mine[u])
    BY <1>1 DEF SkipKnown, At
  <2>2. mine[u] \in Archives
    BY <1>1, <2>1 DEF SerialInv, Own, OwnStage, OwnZip, Fetched, Labels
  <2>3. mine[u] \in ever
    BY <1>1, <2>1, <2>2 DEF SerialInv, Truthful, RecordedWasServed
  <2> QED
    BY <1>1, <2>1, <2>3 DEF Newest, NewestFetched, Fetched, Labels
<1>2. SerialInv /\ Newest =>
        \A u \in Updaters : SkipKnown(u) => catalog = AllOf(mine[u])
  BY <1>1
<1> QED
  BY <1>2, SerialAlways, NewestAlways, PTL DEF Spec, SkipOnlyIfServing

-----------------------------------------------------------------------------
\* There are three files at most, and taking one from a set of them counts.
LEMMA Sizes ==
  ASSUME NEW S \in SUBSET Entries
  PROVE  /\ Cardinality(S) \in 0..3
         /\ \A e \in S : Cardinality(S \ {e}) < Cardinality(S)
<1> DEFINE T == {"categories"} \cup {"groups"} \cup {"types"}
<1>1. IsFiniteSet(T) /\ Cardinality(T) = 3
  <2>1. IsFiniteSet({"categories"}) /\ Cardinality({"categories"}) = 1
    BY FS_Singleton
  <2>2. /\ IsFiniteSet({"categories"} \cup {"groups"})
        /\ Cardinality({"categories"} \cup {"groups"}) = 2
    <3>1. "groups" \notin {"categories"}
      OBVIOUS
    <3> QED
      BY <2>1, <3>1, FS_AddElement
  <2>3. "types" \notin {"categories"} \cup {"groups"}
    OBVIOUS
  <2> QED
    BY <2>2, <2>3, FS_AddElement
<1>2. S \in SUBSET T
  BY UpdateAssumption
<1> HIDE DEF T
<1>3. IsFiniteSet(S) /\ Cardinality(S) \in Nat /\ Cardinality(S) <= 3
  <2>1. IsFiniteSet(S) /\ Cardinality(S) <= Cardinality(T)
    BY <1>1, <1>2, FS_Subset
  <2>2. Cardinality(S) \in Nat
    BY <2>1, FS_CardinalityType
  <2> QED
    BY <1>1, <2>1, <2>2
<1>4. ASSUME NEW e \in S PROVE Cardinality(S \ {e}) < Cardinality(S)
  <2>1. Cardinality(S \ {e}) = Cardinality(S) - 1
    BY <1>3, FS_RemoveElement
  <2> QED
    BY <1>3, <2>1
<1> QED
  BY <1>3, <1>4

\* What is left fits a stage: less than 8 per file list, nothing when idle.
LEMMA LeftBound ==
  ASSUME TypeOK, NEW u \in Updaters
  PROVE  /\ Stage(pc[u]) \in 0..12 /\ Ahead(u) \in 0..7
         /\ pc[u] = "idle" => Left(u) = 0
<1>1. pc[u] \in Labels /\ todo[u] \in SUBSET Entries
  BY DEF TypeOK
<1>2. Stage(pc[u]) \in 0..12
  BY <1>1 DEF Stage, Labels
<1>3. Cardinality(todo[u]) \in 0..3
  BY <1>1, Sizes
<1>4. Cardinality({e \in Entries : parsed[u][e] = None}) \in 0..3
  <2>1. {e \in Entries : parsed[u][e] = None} \in SUBSET Entries
    OBVIOUS
  <2> QED
    BY <2>1, Sizes
<1>5. Ahead(u) \in 0..7
  BY <1>3, <1>4 DEF Ahead
<1>6. pc[u] = "idle" => Left(u) = 0
  BY DEF Left, Ahead, Stage
<1> QED
  BY <1>2, <1>5, <1>6

\* The same after a step.
LEMMA LeftBoundAfter ==
  ASSUME TypeOK', NEW u \in Updaters
  PROVE  Stage(pc'[u]) \in 0..12 /\ Ahead(u)' \in 0..7
<1>1. pc'[u] \in Labels /\ todo'[u] \in SUBSET Entries
  BY DEF TypeOK
<1>2. Cardinality(todo'[u]) \in 0..3
  BY <1>1, Sizes
<1>3. Cardinality({e \in Entries : parsed'[u][e] = None}) \in 0..3
  <2>1. {e \in Entries : parsed'[u][e] = None} \in SUBSET Entries
    OBVIOUS
  <2> QED
    BY <2>1, Sizes
<1> QED
  BY <1>1, <1>2, <1>3 DEF Stage, Ahead, Labels

\* A later stage leaves less, whatever the files.
LEMMA LaterIsLess ==
  ASSUME TypeOK, TypeOK', NEW u \in Updaters, Stage(pc'[u]) < Stage(pc[u])
  PROVE  Left(u)' < Left(u)
<1>1. Stage(pc[u]) \in 0..12 /\ Ahead(u) \in 0..7
  BY LeftBound
<1>2. Stage(pc'[u]) \in 0..12 /\ Ahead(u)' \in 0..7
  BY LeftBoundAfter
<1> HIDE DEF Stage, Ahead
<1>3. Left(u) = 8 * Stage(pc[u]) + Ahead(u) /\ Left(u)' = 8 * Stage(pc'[u]) + Ahead(u)'
  BY DEF Left
<1> QED
  BY <1>1, <1>2, <1>3

\* Each step of a run leaves it less: it goes to a later stage, or takes one file
\* from those it has to go through.
LEMMA StepIsLess ==
  ASSUME TypeOK, TypeOK', NEW u \in Updaters, Step(u) PROVE Left(u)' < Left(u)
<1> USE DEF At, files, dir, run, job, db, site
<1>G. ASSUME NEW l, Goto(u, l) PROVE pc'[u] = l
  BY <1>G DEF Goto, TypeOK
<1>L. ASSUME Stage(pc'[u]) < Stage(pc[u]) PROVE Left(u)' < Left(u)
  BY <1>L, LaterIsLess
<1>R. ASSUME Return(u), pc[u] # "idle" PROVE Left(u)' < Left(u)
  <2>1. pc'[u] = "idle" /\ pc[u] \in Labels
    BY <1>R DEF Return, End, Reset, TypeOK
  <2>2. Stage(pc'[u]) < Stage(pc[u])
    BY <1>R, <2>1 DEF Stage, Labels
  <2> QED
    BY <2>2, <1>L
<1>1. CASE Fetch(u) \/ UnlinkZip(u) \/ PlaceZip(u) \/ CheckNew(u)
  BY <1>1, <1>G, <1>L DEF Fetch, FetchAs, UnlinkZip, PlaceZip, CheckNew, Stage
<1>2. CASE Cleared(u) \/ Extracted(u) \/ Parsed(u) \/ Commit(u)
  BY <1>2, <1>G, <1>L DEF Cleared, Extracted, Parsed, Commit, CommitTables, Stage
<1>3. CASE SkipKnown(u) \/ Record(u)
  BY <1>3, <1>R DEF SkipKnown, Record
<1>4. CASE OpenZip(u) \/ Begin(u) \/ Count(u)
  <2>1. CASE Return(u)
    BY <1>4, <2>1, <1>R DEF OpenZip, Begin, Count
  <2>2. CASE ~Return(u)
    <3>1. \/ pc[u] = "open" /\ pc'[u] = "clear"
          \/ pc[u] = "begin" /\ pc'[u] = "tx"
          \/ pc[u] = "count" /\ pc'[u] = "record"
      BY <1>4, <2>2, <1>G DEF OpenZip, ReadZip, Begin, Count
    <3> QED
      BY <3>1, <1>L DEF Stage
  <2> QED
    BY <2>1, <2>2
<1>5. ASSUME NEW e \in Entries, ClearEntry(u, e) PROVE Left(u)' < Left(u)
  <2>1. pc[u] = "clear" /\ pc' = pc /\ e \in todo[u] /\ todo'[u] = todo[u] \ {e}
    BY <1>5 DEF ClearEntry, TypeOK
  <2>2. /\ Cardinality(todo[u]) \in 0..3 /\ Cardinality(todo'[u]) \in 0..3
        /\ Cardinality(todo'[u]) < Cardinality(todo[u])
    BY <2>1, Sizes DEF TypeOK
  <2> QED
    BY <2>1, <2>2 DEF Left, Stage, Ahead
<1>6. ASSUME NEW e \in Entries, OpenEntry(u, e) PROVE Left(u)' < Left(u)
  <2>1. /\ pc[u] = "extract" /\ pc'[u] = "write"
        /\ e \in todo[u] /\ todo'[u] = todo[u] \ {e}
    BY <1>6, <1>G DEF OpenEntry, TypeOK
  <2>2. /\ Cardinality(todo[u]) \in 0..3 /\ Cardinality(todo'[u]) \in 0..3
        /\ Cardinality(todo'[u]) < Cardinality(todo[u])
    BY <2>1, Sizes DEF TypeOK
  <2> QED
    BY <2>1, <2>2 DEF Left, Stage, Ahead
<1>7. CASE CloseEntry(u)
  <2>1. pc[u] = "write" /\ pc'[u] = "extract" /\ todo' = todo
    BY <1>7, <1>G DEF CloseEntry, CloseAs
  <2>2. Cardinality(todo[u]) \in 0..3
    BY Sizes DEF TypeOK
  <2> QED
    BY <2>1, <2>2 DEF Left, Stage, Ahead
<1>8. ASSUME NEW e \in Entries, Parse(u, e) PROVE Left(u)' < Left(u)
  <2>1. CASE Return(u)
    BY <1>8, <2>1, <1>R DEF Parse
  <2>2. CASE ~Return(u)
    <3> DEFINE Unread(p) == {f \in Entries : p[f] = None}
    <3>1. /\ pc[u] = "parse" /\ pc' = pc /\ parsed[u][e] = None /\ data[e] # None
          /\ parsed'[u] = [parsed[u] EXCEPT ![e] = data[e]]
      BY <1>8, <2>2 DEF Parse, TypeOK
    <3>2. Unread(parsed'[u]) = Unread(parsed[u]) \ {e} /\ e \in Unread(parsed[u])
      BY <3>1 DEF TypeOK
    <3>3. /\ Cardinality(Unread(parsed[u])) \in 0..3
          /\ Cardinality(Unread(parsed'[u])) \in 0..3
          /\ Cardinality(Unread(parsed'[u])) < Cardinality(Unread(parsed[u]))
      <4>1. Unread(parsed[u]) \in SUBSET Entries /\ Unread(parsed'[u]) \in SUBSET Entries
        OBVIOUS
      <4> HIDE DEF Unread
      <4> QED
        BY <3>2, <4>1, Sizes
    <3> QED
      BY <3>1, <3>3 DEF Left, Stage, Ahead
  <2> QED
    BY <2>1, <2>2
<1> QED
  BY <1>1, <1>2, <1>3, <1>4, <1>5, <1>6, <1>7, <1>8 DEF Step

\* No run goes round in a circle: no step of any run, no fault and no crash gives a
\* run that is under way more to do, and each of its own steps leaves it less, for
\* any number of overlapping runs, whatever lies in the directory.
THEOREM NoCircle == Spec => RunsRunOut
<1>1. ASSUME TypeOK, TypeOK', [Next]_vars, NEW u \in Updaters, pc[u] # "idle"
      PROVE  Left(u)' <= Left(u)
  <2> USE <1>1 DEF files, dir, run, job, db, site
  <2>B. Left(u) \in Nat
    BY LeftBound DEF Left
  <2>S. ASSUME pc'[u] = pc[u], todo'[u] = todo[u], parsed'[u] = parsed[u]
        PROVE  Left(u)' <= Left(u)
    <3>1. Left(u)' = Left(u)
      BY <2>S DEF Left, Ahead
    <3> QED
      BY <2>B, <3>1
  <2>L. ASSUME Left(u)' < Left(u) PROVE Left(u)' <= Left(u)
    <3>1. Left(u)' \in Nat
      BY LeftBoundAfter DEF Left
    <3> QED
      BY <2>L, <2>B, <3>1
  <2>0. CASE UNCHANGED vars \/ \E a \in Archives : Publish(a)
    BY <2>0, <2>S DEF vars, Publish
  <2>1. ASSUME NEW v \in Updaters, Acts(v), v # u PROVE Left(u)' <= Left(u)
    BY <2>1, <2>S, OwnJobOnly DEF OwnOnly
  <2>2. CASE Step(u)
    BY <2>2, <2>L, StepIsLess
  <2>3. CASE CheckUnreadable(u) \/ CountUnreadable(u)
    <3>1. \/ pc[u] = "check" /\ pc'[u] = "open"
          \/ pc[u] = "count" /\ pc'[u] = "record"
      BY <2>3 DEF CheckUnreadable, CountUnreadable, At, Goto, TypeOK
    <3> QED
      BY <3>1, <2>L, LaterIsLess DEF Stage
  <2>E. ASSUME NEW S, End(S) PROVE Left(u)' <= Left(u)
    <3>1. CASE u \in S
      <4>1. pc'[u] = "idle" /\ pc[u] \in Labels
        BY <2>E, <3>1 DEF End, Reset, TypeOK
      <4>2. Stage(pc'[u]) < Stage(pc[u])
        BY <4>1 DEF Stage, Labels
      <4> QED
        BY <4>2, <2>L, LaterIsLess
    <3>2. CASE u \notin S
      BY <2>E, <3>2, <2>S DEF End, Reset
    <3> QED
      BY <3>1, <3>2
  <2>4. CASE Fail(u) \/ KillCommand(u) \/ CrashServer
    BY <2>4, <2>E DEF Fail, KillCommand, CrashServer, Return
  <2>5. ASSUME NEW k \in Kinds, Start(u, k) PROVE FALSE
    BY <2>5 DEF Start, At
  <2> QED
    BY <2>0, <2>1, <2>2, <2>3, <2>4, <2>5, NextIs DEF Acts
<1>2. TypeOK /\ TypeOK' /\ [Next]_vars =>
        \A u \in Updaters : ~At(u, "idle") =>
            /\ Left(u)' <= Left(u)
            /\ Step(u) => Left(u)' < Left(u)
  BY <1>1, StepIsLess DEF At
<1> QED
  BY <1>2, TypeCorrect, PTL DEF Spec, RunsRunOut
=============================================================================
