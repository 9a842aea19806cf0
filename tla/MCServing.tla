----------------------------- MODULE MCServing -----------------------------
(* Serving for TLC: two packs of one Stored Index and one of another. *)
EXTENDS Serving
CONSTANTS pa, pb, pc, si1, si2

MCIndexOf == [p \in StorePacks |-> IF p = pc THEN si2 ELSE si1]
=============================================================================
