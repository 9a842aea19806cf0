------------------------------ MODULE MCParts ------------------------------
(***************************************************************************)
(* The parts that share no state with one another, in one run for TLC:     *)
(* a behaviour is one part's, chosen at first, while the others stand      *)
(* still.                                                                  *)
(***************************************************************************)
EXTENDS MCRepoState, MCServing, MCOwnership, Pulls, EnginePacks, TLC

VARIABLE part

partsVars == <<part, stateVars, servingVars, ownershipVars, pullsVars, engineVars>>

PartsInit ==
  /\ part \in {"state", "serving", "ownership", "pulls", "engine"}
  /\ StateInit /\ ServingInit /\ OwnershipInit /\ PullsInit /\ EngineInit

\* Bound: in the last second no transaction stamps a Report, though one may commit.
NoNewReport == second = MaxSecond => publishing'.pack \in {publishing.pack, NoPack}

\* Bound: a pull request sees the last update only if it is alone.
LastIsAlone == latest' = LastSecond => \E p \in Pulls : updated'[p] = 0

PartsNext ==
  /\ UNCHANGED part
  /\ \/ /\ part = "state" /\ StateNext
        /\ UNCHANGED <<servingVars, ownershipVars, pullsVars, engineVars>>
     \/ /\ part = "serving" /\ ServingNext /\ NoNewReport
        /\ UNCHANGED <<stateVars, ownershipVars, pullsVars, engineVars>>
     \/ /\ part = "ownership" /\ OwnershipNext
        /\ UNCHANGED <<stateVars, servingVars, pullsVars, engineVars>>
     \/ /\ part = "pulls" /\ PullsNext /\ LastIsAlone
        /\ UNCHANGED <<stateVars, servingVars, ownershipVars, engineVars>>
     \/ /\ part = "engine" /\ EngineNext
        /\ UNCHANGED <<stateVars, servingVars, ownershipVars, pullsVars>>

PartsSpec == PartsInit /\ [][PartsNext]_partsVars

\* Two packs of one Stored Index may change places.
SamePacks == Permutations({pa, pb})

\* Every part is well typed.
PartsTypeOK ==
  /\ StateTypeOK /\ ServingTypeOK /\ OwnershipTypeOK /\ PullsTypeOK /\ EngineTypeOK
=============================================================================
