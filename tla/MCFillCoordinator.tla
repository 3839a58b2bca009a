--------------------------- MODULE MCFillCoordinator ---------------------------
(* Finite instances of FillCoordinator.                                     *)
EXTENDS FillCoordinator, TLC, FiniteSetsExt

MCTotal == [g \in [Fill -> Share] |-> MapThenSumSet(LAMBDA f : g[f], Fill)]
===============================================================================
