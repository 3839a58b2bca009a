----------------------------- MODULE MCLocalStore -----------------------------
(* Finite instances of LocalStore.                                         *)
EXTENDS LocalStore, TLC, FiniteSetsExt

CONSTANTS p1, p2, p3, k1, k2, k3, d1, d2, d3,
          pinned, moved, plain, other, third

(* pinned and moved are two manifests' versions of k1: the pin has moved   *)
(* from d1 to d2.  plain asks for k1 with no pin and accepts d1 only.      *)
(* other and third accept anything under k2 and k3.                        *)
MCKeyOf == [a \in Artifact |-> CASE a = other -> k2
                                 [] a = third -> k3
                                 [] OTHER     -> k1]
MCPins == [a \in Artifact |-> CASE a = pinned -> {d1}
                                [] a = moved  -> {d2}
                                [] OTHER      -> {}]
MCPasses == [a \in Artifact |-> IF a = plain THEN {d1} ELSE Digest]

(* d1 is the largest blob. *)
Length(d) == CASE d = d1 -> 3 [] d = d2 -> 2 [] OTHER -> 1
MCBytes == [S \in SUBSET Digest |-> MapThenSumSet(Length, S)]

Symmetry == Permutations(Proc)
===============================================================================
