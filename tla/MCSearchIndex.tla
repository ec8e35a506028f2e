--------------------------- MODULE MCSearchIndex ---------------------------
(***************************************************************************)
(* SearchIndex with one sample item and two archives: one that adds an     *)
(* item before and one behind the sample, with a gap, the last one named   *)
(* by a number that is another's type_id, and one that renames the sample  *)
(* and leaves no gap.                                                      *)
(***************************************************************************)
EXTENDS SearchIndex, TLC

CONSTANTS c1, c2, frigate, mineral

TheSample == 2 :> mineral
TheWords == {frigate, mineral, 1}
TheCatalogs == {1 :> frigate @@ 2 :> mineral @@ 4 :> 1,
                1 :> mineral @@ 2 :> frigate}

Symmetry == Permutations(Commands)
=============================================================================
