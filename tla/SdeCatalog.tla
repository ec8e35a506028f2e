----------------------------- MODULE SdeCatalog -----------------------------
(***************************************************************************)
(* What the SDE update promises, whatever its steps are: the database      *)
(* serves one whole archive at a time, and its version history (the        *)
(* sde_versions table) names only archives that have been served.          *)
(***************************************************************************)
CONSTANTS Archives,     \* the SDE zips CCP may publish, each with its checksum
          Sample        \* the sample data a migration leaves

VARIABLES served,       \* the archive the tables come from
          history       \* checksums in sde_versions

\* Every archive that has been served is remembered only to be recorded.
VARIABLE ever

cvars == <<served, history, ever>>

Init == /\ served = Sample
        /\ history = {}
        /\ ever = {}

\* An import replaces the whole catalogue in one step.
Install(a) == /\ served' = a
              /\ ever' = ever \cup {a}
              /\ UNCHANGED history

\* A version row is written for an archive whose import has happened.
Record(a) == /\ a \in ever
             /\ history' = history \cup {a}
             /\ UNCHANGED <<served, ever>>

Next == \E a \in Archives : Install(a) \/ Record(a)

Spec == Init /\ [][Next]_cvars
=============================================================================
