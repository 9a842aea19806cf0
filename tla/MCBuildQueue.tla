---------------------------- MODULE MCBuildQueue ----------------------------
(* BuildQueue for TLC: Builds of one repository. *)
EXTENDS BuildQueue
CONSTANTS b1, b2, r1

MCRepoOf == [b \in Builds |-> r1]
=============================================================================
