----------------------------- MODULE MCLocalRepair -----------------------------
(* A finite instance of LocalRepair: k1 and k2 are in the manifest and may *)
(* share a blob; k3 is not.                                                *)
EXTENDS LocalRepair, FiniteSetsExt

CONSTANTS p1, p2, k1, k2, k3, d1, d2, strict, lax

MCKeyOf    == [a \in Artifact |-> IF a = strict THEN k1 ELSE k2]
MCPins     == [a \in Artifact |-> {}]
MCPasses   == [a \in Artifact |-> IF a = strict THEN {d1} ELSE Digest]
MCBytes    == [S \in SUBSET Digest |-> Cardinality(S)]
MCManifest == <<strict, lax>>
===============================================================================
