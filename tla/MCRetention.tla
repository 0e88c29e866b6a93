------------------------------ MODULE MCRetention ------------------------------
(***************************************************************************)
(* Two interchangeable uploads; retention of one day, which the tenant may *)
(* lengthen to two and back; tiering after one day; three days pass.       *)
(***************************************************************************)
EXTENDS Retention, TLC

CONSTANTS b1, b2

Symmetry == Permutations(Batches)
===============================================================================
