----------------------------- MODULE ItemsCount -----------------------------
(***************************************************************************)
(* items_count, the number a version row carries.  updateSDE and           *)
(* cmd/import-sde commit the tables in one transaction, count the items in *)
(* a statement of its own and write the row in another: the count is that  *)
(* of whatever is committed by then.                                       *)
(***************************************************************************)
EXTENDS SdeUpdate

VARIABLE overtaken   \* history: runs whose tables were replaced before their count

hvars == <<vars, overtaken>>

HInit == Init /\ overtaken = {}

\* A commit overtakes the other runs that have committed and not counted yet;
\* the mark lasts as long as the run.
HNext ==
    /\ Next
    /\ overtaken' =
         {u \in Updaters :
            /\ pc'[u] \in {"count", "record"}
            /\ \/ u \in overtaken
               \/ At(u, "count") /\ \E v \in Updaters \ {u} : Commit(v)}

HSpec == HInit /\ [][HNext]_hvars

\* Runs that are under way go on; none need ever be started again.
HFairSpec == HSpec /\ RunsGoOn

-----------------------------------------------------------------------------
\* items_count of a new version row is the number of items its run imported,
\* though the run counts what is committed and others fail, are killed or
\* commit beside it.  The two exceptions are the code's: another import came
\* between the commit and the count (scheduler.go, ImportAll and the SELECT
\* after it), or the command's count failed and zero was recorded.
RowCountsOwnItems ==
    [][\A u \in Updaters : Record(u) /\ lock = None =>
          \/ versions'[mine[u]] = parsed[u]["types"]
          \/ kind[u] = "cli" /\ versions'[mine[u]] = Zero
          \/ u \in overtaken]_hvars
=============================================================================
