------------------------------ MODULE MCServer ------------------------------
(***************************************************************************)
(* What the Site and the Builder share through packages/server, in one run *)
(* for TLC: a behaviour is of the queue that Builds go through, of what    *)
(* Builds find unchanged, of Shared Reports, or of GitHub's kept answers.  *)
(***************************************************************************)
EXTENDS MCBuildQueue, HeadCheck, Shares, GitHubCache, TLC

CONSTANTS h1, h2

VARIABLE part

serverVars == <<part, vars, headsVars, sharesVars, cacheVars>>

ServerInit ==
  /\ part \in {"queue", "heads", "shares", "github"}
  /\ Init /\ HeadsInit /\ SharesInit /\ CacheInit

ServerNext ==
  /\ UNCHANGED part
  /\ \/ part = "queue" /\ Next /\ UNCHANGED <<headsVars, sharesVars, cacheVars>>
     \/ part = "heads" /\ HeadsNext /\ UNCHANGED <<vars, sharesVars, cacheVars>>
     \/ part = "shares" /\ SharesNext /\ UNCHANGED <<vars, headsVars, cacheVars>>
     \/ part = "github" /\ CacheNext /\ UNCHANGED <<vars, headsVars, sharesVars>>

ServerSpec == ServerInit /\ [][ServerNext]_serverVars

\* Two Builds of the head check may change places.
SameBuilds == Permutations({h1, h2})

\* Beside the queue, every part is well typed.
ServerTypeOK == HeadsTypeOK /\ SharesTypeOK /\ CacheTypeOK
=============================================================================
