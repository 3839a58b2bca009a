---------------------------- MODULE MCMirrorService ----------------------------
(* Finite instances of MirrorService.                                      *)
EXTENDS MirrorService, TLC

Symmetry == Permutations(Worker)
===============================================================================
