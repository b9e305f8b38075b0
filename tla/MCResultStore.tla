--------------------------- MODULE MCResultStore ---------------------------
(***************************************************************************)
(* An instance of ResultStore for TLC: results of 1 to 4 bytes under a cap *)
(* of 12, so that a large result may have to evict several small ones and  *)
(* a result of 4 is refused as larger than a quarter.                      *)
(***************************************************************************)
EXTENDS ResultStore, TLC

Symmetry == Permutations(Keys)
=============================================================================
