---------------------------- MODULE MCKeyStore ----------------------------
(***************************************************************************)
(* KeyStore with a few requests and keys, which the .cfg files pick as     *)
(* model values.  Requests and keys are interchangeable, and every         *)
(* property checked with the symmetry is a safety property.                *)
(***************************************************************************)
EXTENDS KeyStore, TLC

CONSTANTS r1, r2, k1, k2

Symmetry == Permutations(Requests) \cup Permutations(Ids)
=============================================================================
