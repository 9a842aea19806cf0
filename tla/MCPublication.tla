--------------------------- MODULE MCPublication ---------------------------
(***************************************************************************)
(* Publication for TLC, two Builds of one repository in one run: a         *)
(* behaviour is of the repository renamed between them, one asked under    *)
(* each name, or of its Report removed, while the remote may move on.      *)
(***************************************************************************)
EXTENDS Publication, TLC
CONSTANTS b1, b2, old, new

VARIABLE asked  \* the name each Build was asked under

MCTwo == [b \in Builds |-> IF b = b1 THEN old ELSE new]
MCOne == [b \in Builds |-> new]
OneEach == {MCTwo, [b \in Builds |-> IF b = b1 THEN new ELSE old]}

Renames(f) == INSTANCE Publication WITH NameOf <- f, MaxHead <- 0
Removal == INSTANCE Publication WITH NameOf <- MCOne, Events <- {"remove", "crash"}

bothVars == <<asked, vars>>

BothInit ==
  \/ \E f \in OneEach : asked = f /\ Renames(f)!Init
  \/ asked = MCOne /\ Removal!Init

BothNext ==
  /\ UNCHANGED asked
  /\ \/ \E f \in OneEach : asked = f /\ Renames(f)!Next
     \/ asked = MCOne /\ Removal!Next

BothSpec == BothInit /\ [][BothNext]_bothVars

\* The two Builds may change places.
SameBuilds == Permutations(Builds)
=============================================================================
