---------------------------- MODULE MCSdeUpdate ----------------------------
(***************************************************************************)
(* SdeUpdate on small sets of runs and archives, which the .cfg files pick *)
(* as model values.                                                        *)
(***************************************************************************)
EXTENDS SdeUpdate

CONSTANTS u1, u2, v1, v2
=============================================================================
