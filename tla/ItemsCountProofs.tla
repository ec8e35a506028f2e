-------------------------- MODULE ItemsCountProofs --------------------------
(***************************************************************************)
(* Whose items a version row counts, for any number of overlapping runs,   *)
(* archives and faults.                                                    *)
(***************************************************************************)
EXTENDS ItemsCount, SdeUpdateProofs

\* The tables a run has committed are still there when it counts, and the count
\* it holds is theirs, unless it was overtaken.
CountInv == \A u \in Updaters : u \notin overtaken =>
    /\ pc[u] = "count" => catalog = parsed[u]
    /\ pc[u] = "record" => \/ counted[u] = parsed[u]["types"]
                           \/ kind[u] = "cli" /\ counted[u] = Zero

\* Every behaviour with the history is one of the pipeline.
LEMMA StepOfNext == ASSUME [HNext]_hvars PROVE [Next]_vars
BY DEF HNext, hvars

LEMMA HistoryOnly == HSpec => Spec
<1>1. HInit => Init
  BY DEF HInit
<1> QED
  BY <1>1, StepOfNext, PTL DEF HSpec, Spec

\* How a run comes to its last two stages when it does not commit: it was there
\* and kept what it had, or it has counted.
LEMMA LastStages ==
  ASSUME TypeOK, [Next]_vars, NEW u \in Updaters, ~Commit(u),
         pc'[u] \in {"count", "record"}
  PROVE  /\ parsed'[u] = parsed[u] /\ kind'[u] = kind[u]
         /\ \/ pc'[u] = pc[u] /\ counted'[u] = counted[u]
            \/ /\ pc[u] = "count" /\ pc'[u] = "record"
               /\ \/ counted'[u] = catalog["types"]
                  \/ kind[u] = "cli" /\ counted'[u] = Zero
<1> DEFINE Goal == /\ parsed'[u] = parsed[u] /\ kind'[u] = kind[u]
                   /\ \/ pc'[u] = pc[u] /\ counted'[u] = counted[u]
                      \/ /\ pc[u] = "count" /\ pc'[u] = "record"
                         /\ \/ counted'[u] = catalog["types"]
                            \/ kind[u] = "cli" /\ counted'[u] = Zero
<1> SUFFICES Goal
  OBVIOUS
<1> USE UpdateAssumption DEF At, files, dir, run, job, db, site
<1>G. ASSUME NEW l, Goto(u, l) PROVE l \in {"count", "record"}
  BY <1>G DEF Goto, TypeOK
<1>E. ASSUME NEW S, End(S) PROVE Goal /\ u \notin S
  BY <1>E DEF End, Reset
<1>1. CASE UNCHANGED vars \/ \E a \in Archives : Publish(a)
  BY <1>1 DEF vars, Publish
<1>2. ASSUME NEW v \in Updaters, Acts(v), v # u PROVE Goal
  BY <1>2, OwnJobOnly DEF OwnOnly
<1>3. ASSUME NEW k \in Kinds, Start(u, k) PROVE FALSE
  BY <1>3, <1>G DEF Start
<1>4. CASE Step(u)
  <2>1. ~Fetch(u) /\ ~UnlinkZip(u) /\ ~PlaceZip(u) /\ ~CheckNew(u)
    BY <1>G DEF Fetch, FetchAs, UnlinkZip, PlaceZip, CheckNew
  <2>2. ~Cleared(u) /\ ~CloseEntry(u) /\ ~Extracted(u) /\ ~Parsed(u)
    BY <1>G DEF Cleared, CloseEntry, CloseAs, Extracted, Parsed
  <2>3. \A e \in Entries : ~OpenEntry(u, e)
    BY <1>G DEF OpenEntry
  <2>4. ~SkipKnown(u) /\ ~Record(u) /\ ~OpenZip(u) /\ ~Begin(u)
    BY <1>G, <1>E DEF SkipKnown, Record, OpenZip, ReadZip, Begin, Return
  <2>5. \A e \in Entries : ~ClearEntry(u, e) /\ ~Parse(u, e)
    BY <1>E DEF ClearEntry, Parse, Return
  <2>6. Count(u)
    BY <1>4, <2>1, <2>2, <2>3, <2>4, <2>5 DEF Step
  <2> QED
    BY <2>6, <1>E DEF Count, Goto, Return, TypeOK
<1>5. CASE CheckUnreadable(u)
  BY <1>5, <1>G DEF CheckUnreadable
<1>6. CASE CountUnreadable(u)
  BY <1>6 DEF CountUnreadable, Goto, TypeOK
<1>7. CASE Fail(u) \/ KillCommand(u) \/ CrashServer
  BY <1>7, <1>E DEF Fail, KillCommand, CrashServer, Return
<1> QED
  BY <1>1, <1>2, <1>3, <1>4, <1>5, <1>6, <1>7, NextIs DEF Acts

\* Every step keeps CountInv: the tables change by a commit only, and a commit
\* marks the other runs that have not counted.
LEMMA CountStep == TypeOK /\ CountInv /\ [HNext]_hvars => CountInv'
<1> SUFFICES ASSUME TypeOK, CountInv, [HNext]_hvars, NEW u \in Updaters, u \notin overtaken'
             PROVE  /\ pc'[u] = "count" => catalog' = parsed'[u]
                    /\ pc'[u] = "record" => \/ counted'[u] = parsed'[u]["types"]
                                            \/ kind'[u] = "cli" /\ counted'[u] = Zero
  BY DEF CountInv
<1>1. CASE UNCHANGED hvars
  BY <1>1 DEF hvars, vars, run, job, db, CountInv
<1>2. CASE HNext /\ Commit(u)
  <2>1. pc'[u] = "count" /\ catalog' = parsed[u] /\ parsed' = parsed
    BY <1>2 DEF Commit, CommitTables, Goto, TypeOK, job
  <2> QED
    BY <2>1
<1>3. CASE HNext /\ ~Commit(u) /\ pc'[u] \in {"count", "record"}
  <2>1. u \notin overtaken
    BY <1>3 DEF HNext
  <2>2. pc[u] = "count" => catalog' = catalog
    <3>1. SUFFICES ASSUME pc[u] = "count" PROVE catalog' = catalog
      OBVIOUS
    <3>2. \A v \in Updaters : ~Commit(v)
      BY <1>3, <3>1 DEF HNext, At
    <3>3. ASSUME NEW v \in Updaters, Record(v) PROVE catalog' = catalog
      BY <3>3 DEF Record
    <3> QED
      BY <3>2, <3>3, OnlyCommitAndRecord, StepOfNext
  <2> QED
    BY <1>3, <2>1, <2>2, LastStages, StepOfNext DEF CountInv
<1> QED
  BY <1>1, <1>2, <1>3

\* A run knows the archive it has downloaded; a re-import, which has none, never
\* comes to its version row.
Named == \A u \in Updaters :
    \/ pc[u] \in {"idle", "fetch"} \/ mine[u] \in Archives
    \/ kind[u] = "reimport" /\ pc[u] \in {"parse", "begin", "tx", "count"}

LEMMA NamedStep == TypeOK /\ Named /\ [Next]_vars => Named'
<1> SUFFICES ASSUME TypeOK, Named, [Next]_vars, NEW u \in Updaters
             PROVE  \/ pc'[u] \in {"idle", "fetch"} \/ mine'[u] \in Archives
                    \/ kind'[u] = "reimport" /\ pc'[u] \in {"parse", "begin", "tx", "count"}
  BY DEF Named
<1> DEFINE Goal == \/ pc'[u] \in {"idle", "fetch"} \/ mine'[u] \in Archives
                   \/ kind'[u] = "reimport" /\ pc'[u] \in {"parse", "begin", "tx", "count"}
<1> SUFFICES Goal
  OBVIOUS
<1> USE DEF At, files, dir, run, job, db, site
<1>G. ASSUME NEW l, Goto(u, l) PROVE pc'[u] = l
  BY <1>G DEF Goto, TypeOK
<1>E. ASSUME NEW S, End(S) PROVE Goal
  BY <1>E DEF End, Reset, Named
<1>M. ASSUME UNCHANGED <<kind, mine>>, pc[u] \notin {"idle", "fetch"},
             \/ pc'[u] \in {pc[u], "begin", "tx"}
             \/ pc[u] = "tx" /\ pc'[u] = "count"
             \/ pc[u] \notin {"parse", "begin", "tx", "count"} \/ kind[u] # "reimport"
      PROVE  Goal
  BY <1>M DEF Named
<1>1. CASE UNCHANGED vars \/ \E a \in Archives : Publish(a)
  BY <1>1 DEF vars, Publish, Named
<1>2. ASSUME NEW v \in Updaters, Acts(v), v # u PROVE Goal
  BY <1>2, OwnJobOnly DEF OwnOnly, Named
<1>3. ASSUME NEW k \in Kinds, Start(u, k) PROVE Goal
  BY <1>3, <1>G DEF Start, TypeOK
<1>4. CASE Fetch(u)
  BY <1>4 DEF Fetch, FetchAs, TypeOK
<1>5. CASE UnlinkZip(u) \/ PlaceZip(u) \/ CheckNew(u) \/ CheckUnreadable(u)
  BY <1>5, <1>M DEF UnlinkZip, PlaceZip, CheckNew, CheckUnreadable
<1>6. CASE Cleared(u) \/ CloseEntry(u) \/ Extracted(u)
  BY <1>6, <1>M DEF Cleared, CloseEntry, CloseAs, Extracted
<1>7. CASE Parsed(u) \/ Commit(u) \/ CountUnreadable(u)
  BY <1>7, <1>G, <1>M DEF Parsed, Commit, CommitTables, CountUnreadable
<1>8. CASE SkipKnown(u) \/ Record(u) \/ OpenZip(u) \/ Begin(u) \/ Count(u)
  BY <1>8, <1>G, <1>E, <1>M DEF SkipKnown, Record, OpenZip, ReadZip, Begin, Count, Return
<1>9. ASSUME NEW e \in Entries, ClearEntry(u, e) \/ OpenEntry(u, e) \/ Parse(u, e)
      PROVE  Goal
  BY <1>9, <1>E, <1>M DEF ClearEntry, OpenEntry, Parse, Return
<1>10. CASE Fail(u) \/ KillCommand(u) \/ CrashServer
  BY <1>10, <1>E DEF Fail, KillCommand, CrashServer, Return
<1> QED
  BY <1>1, <1>2, <1>3, <1>4, <1>5, <1>6, <1>7, <1>8, <1>9, <1>10, NextIs DEF Acts, Step

\* For any number of overlapping runs, archives and faults, items_count of a new
\* version row is the number of items that run imported, unless another import
\* was committed between its commit and its count, or the command's count failed.
THEOREM CountIsOwn == HSpec => RowCountsOwnItems
<1>1. HInit => CountInv /\ Named
  BY DEF HInit, Init, CountInv, Named
<1>2. ASSUME TypeOK, CountInv, Named, NEW u \in Updaters, Record(u), lock = None
      PROVE  \/ versions'[mine[u]] = parsed[u]["types"]
             \/ kind[u] = "cli" /\ versions'[mine[u]] = Zero
             \/ u \in overtaken
  <2>1. pc[u] = "record" /\ versions' = [versions EXCEPT ![mine[u]] = counted[u]]
    BY <1>2 DEF Record, At
  <2> QED
    BY <1>2, <2>1 DEF CountInv, Named, TypeOK
<1>3. TypeOK /\ CountInv /\ Named =>
        \A u \in Updaters : Record(u) /\ lock = None =>
          \/ versions'[mine[u]] = parsed[u]["types"]
          \/ kind[u] = "cli" /\ versions'[mine[u]] = Zero
          \/ u \in overtaken
  BY <1>2
<1>4. Named /\ TypeOK /\ [HNext]_hvars => Named'
  BY NamedStep, StepOfNext
<1> QED
  BY <1>1, <1>3, <1>4, CountStep, HistoryOnly, TypeCorrect, PTL DEF HSpec, RowCountsOwnItems
=============================================================================
