----------------------------- MODULE MCHolding -----------------------------
(* Holding for TLC: a fork's Build, a Build and a count of its parent, and a *)
(* Build of a third repository.                                              *)
EXTENDS Holding
CONSTANTS forkBuild, parentBuild, parentCount, otherBuild, fork, parent, other

MCHomeOf == [j \in Jobs |-> CASE j = forkBuild -> fork
                              [] j = otherBuild -> other
                              [] OTHER -> parent]
MCParentOf == [j \in Jobs |-> IF j = forkBuild THEN parent ELSE None]
\* Of a budget of four: runs that fit together, that fit alone, and one too large.
MCMb == [j \in Jobs |-> CASE j = forkBuild -> <<1, 3, 2>>
                          [] j = parentBuild -> <<2, 6>>
                          [] j = otherBuild -> <<2, 3>>
                          [] OTHER -> <<1, 2>>]
=============================================================================
