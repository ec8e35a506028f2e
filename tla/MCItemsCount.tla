---------------------------- MODULE MCItemsCount ----------------------------
(***************************************************************************)
(* ItemsCount on small sets of runs and archives, which the .cfg picks as  *)
(* model values.                                                           *)
(***************************************************************************)
EXTENDS ItemsCount

CONSTANTS u1, u2, v1
=============================================================================
