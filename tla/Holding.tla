------------------------------ MODULE Holding ------------------------------
(***************************************************************************)
(* What the Builder's jobs wait for: the repository whose clone and cache  *)
(* they use (holdingRepo), a fork's job its parent's for a copy of its     *)
(* line store, and the memory of each command they run (admitting); and    *)
(* the pruning of clones no job holds.                                     *)
(*                                                                         *)
(* Sources: apps/builder/src/{clone,disk,admission}.ts, with the jobs of   *)
(* run.ts and survival.ts that use them.                                   *)
(*                                                                         *)
(* A job makes a fixed number of runs that are let in by memory: the first *)
(* brings the clone (a clone or a fetch), the others need it and may go    *)
(* side by side.  A command that says no memory runs at once and is left   *)
(* out, and so are private repositories, whose folders are a job's own.    *)
(***************************************************************************)
EXTENDS Naturals, SequencesExt, FiniteSetsExt

CONSTANTS
  Jobs,      \* Builds and counts of Surviving Lines
  Repos,     \* public repositories
  HomeOf,    \* the repository a job holds
  ParentOf,  \* the repository whose line store it copies, or None
  Mb,        \* job -> the memory each of its runs says it takes
  Budget,    \* budgetMb
  Pruner,    \* prune(), in a repository's chain
  None       \* no repository

\* A run says at least a megabyte (peakMb does); a fork's parents are no cycle.
ASSUME HoldingAssumption ==
  /\ IsFiniteSet(Repos)
  /\ HomeOf \in [Jobs -> Repos]
  /\ ParentOf \in [Jobs -> Repos \cup {None}]
  /\ DOMAIN Mb = Jobs
  /\ \A j \in Jobs : /\ Mb[j] \in Seq(Nat \ {0}) /\ Len(Mb[j]) > 0
                     /\ ParentOf[j] # HomeOf[j]
  /\ \E rank \in [Repos -> 1 .. Cardinality(Repos)] :
       \A j \in Jobs : ParentOf[j] # None => rank[ParentOf[j]] < rank[HomeOf[j]]
  /\ Budget \in Nat \ {0}
  /\ Pruner \notin Jobs
  /\ None \notin Repos

VARIABLES
  chain,    \* repository -> who holds it, then who waits for it (`locks`)
  job,      \* job -> where it is
  seed,     \* job -> its copy of its parent's line store
  made,     \* runs that have ended, or will not be made
  asked,    \* runs asked for
  waiting,  \* runs not let in yet, in the order they asked
  going,    \* runs let in
  used,     \* memory the gate counts as taken
  clones    \* repositories with a kept clone

vars == <<chain, job, seed, made, asked, waiting, going, used, clones>>

Runs == UNION {{j} \X DOMAIN Mb[j] : j \in Jobs}
MbOf(r) == Mb[r[1]][r[2]]
RunsOf(j) == {r \in Runs : r[1] = j}

TypeOK ==
  /\ chain \in [Repos -> Seq(Jobs \cup {Pruner})]
  /\ job \in [Jobs -> {"new", "waits", "holds", "over"}]
  /\ seed \in [Jobs -> {"none", "waits", "copies", "done"}]
  /\ made \subseteq Runs /\ asked \subseteq Runs /\ going \subseteq Runs
  /\ waiting \in Seq(Runs)
  /\ used \in 0 .. Budget
  /\ clones \subseteq Repos

Init ==
  /\ chain = [n \in Repos |-> <<>>]
  /\ job = [j \in Jobs |-> "new"]
  /\ seed = [j \in Jobs |-> IF ParentOf[j] = None THEN "done" ELSE "none"]
  /\ made = {} /\ asked = {} /\ going = {}
  /\ waiting = <<>>
  /\ used = 0
  /\ clones \in SUBSET Repos

-----------------------------------------------------------------------------
(* locked: a chain of promises for each key *)

\* Joining a chain is to wait for everyone in it.
Join(n, who) == chain' = [chain EXCEPT ![n] = Append(@, who)]
Leave(n) == chain' = [chain EXCEPT ![n] = Tail(@)]
Holder(n, who) == chain[n] # <<>> /\ Head(chain[n]) = who
isLocked(n) == chain[n] # <<>>

Asks(j) ==
  /\ job[j] = "new"
  /\ Join(HomeOf[j], j)
  /\ job' = [job EXCEPT ![j] = "waits"]
  /\ UNCHANGED <<seed, made, asked, waiting, going, used, clones>>

Holds(j) ==
  /\ job[j] = "waits" /\ Holder(HomeOf[j], j)
  /\ job' = [job EXCEPT ![j] = "holds"]
  /\ UNCHANGED <<chain, seed, made, asked, waiting, going, used, clones>>

\* lineStoreOf, before the engine runs on the whole clone.
SeedWaits(j) ==
  /\ job[j] = "holds" /\ seed[j] = "none"
  /\ <<j, 1>> \in made /\ RunsOf(j) \ made # {}
  /\ Join(ParentOf[j], j)
  /\ seed' = [seed EXCEPT ![j] = "waits"]
  /\ UNCHANGED <<job, made, asked, waiting, going, used, clones>>

SeedCopies(j) ==
  /\ seed[j] = "waits" /\ Holder(ParentOf[j], j)
  /\ seed' = [seed EXCEPT ![j] = "copies"]
  /\ UNCHANGED <<chain, job, made, asked, waiting, going, used, clones>>

SeedEnds(j) ==
  /\ seed[j] = "copies"
  /\ Leave(ParentOf[j])
  /\ seed' = [seed EXCEPT ![j] = "done"]
  /\ UNCHANGED <<job, made, asked, waiting, going, used, clones>>

Ends(j) ==
  /\ job[j] = "holds" /\ RunsOf(j) \subseteq made
  /\ seed[j] \notin {"waits", "copies"}
  /\ Leave(HomeOf[j])
  /\ job' = [job EXCEPT ![j] = "over"]
  /\ UNCHANGED <<seed, made, asked, waiting, going, used, clones>>

-----------------------------------------------------------------------------
(* admitting: runs let in by the memory they take *)

Smallest(a, b) == IF a < b THEN a ELSE b

\* Mutant: a run says what it takes, however much there is.
Need_Uncapped(r) == MbOf(r)
Need(r) == Smallest(MbOf(r), Budget)
Needs(runs) == MapThenSumSet(Need, runs)

\* Mutant: whatever fits is let in, whoever asked before it.
Pump_Greedy(queue, in, taken) ==
  LET fits(r) == in = {} \/ taken + Need(r) <= Budget
      let == IF \E i \in DOMAIN queue : fits(queue[i])
             THEN <<queue[CHOOSE i \in DOMAIN queue : fits(queue[i])]>> ELSE <<>>
  IN
  /\ going' = in \cup ToSet(let)
  /\ used' = taken + Needs(ToSet(let))
  /\ waiting' = SelectSeq(queue, LAMBDA r : r \notin ToSet(let))

\* Mutant: the memory is counted once the loop is over.
Pump_Late(queue, in, taken) ==
  LET fits(i) == (in = {} /\ i = 1) \/ taken + Need(queue[i]) <= Budget
      n == Max({k \in 0 .. Len(queue) : \A i \in 1 .. k : fits(i)})
      let == SubSeq(queue, 1, n)
  IN
  /\ going' = in \cup ToSet(let)
  /\ used' = taken + Needs(ToSet(let))
  /\ waiting' = SubSeq(queue, n + 1, Len(queue))

\* pump: the first in the queue is let in while it fits, or nothing goes.
Pump(queue, in, taken) ==
  LET fits(i) == (in = {} /\ i = 1) \/ taken + Needs(ToSet(SubSeq(queue, 1, i))) <= Budget
      n == Max({k \in 0 .. Len(queue) : \A i \in 1 .. k : fits(i)})
      let == SubSeq(queue, 1, n)
  IN
  /\ going' = in \cup ToSet(let)
  /\ used' = taken + Needs(ToSet(let))
  /\ waiting' = SubSeq(queue, n + 1, Len(queue))

AsksToRun(r) ==
  LET j == r[1] IN
  /\ job[j] = "holds" /\ r \notin asked \cup made
  /\ r[2] > 1 => <<j, 1>> \in made /\ seed[j] = "done"
  /\ asked' = asked \cup {r}
  /\ Pump(Append(waiting, r), going, used)
  /\ UNCHANGED <<chain, job, seed, made, clones>>

\* Mutant: who waits is not looked at when a run ends.
RunEnds_Silent(r) ==
  /\ r \in going
  /\ \E ok \in BOOLEAN :
       /\ made' = made \cup {r} \cup (IF ok THEN {} ELSE RunsOf(r[1]) \ asked)
       /\ clones' = IF ok /\ r[2] = 1 THEN clones \cup {HomeOf[r[1]]} ELSE clones
  /\ going' = going \ {r}
  /\ used' = used - Need(r)
  /\ UNCHANGED <<chain, job, seed, asked, waiting>>

\* A run ends within its time limit, well or not; the runs its job has not asked
\* for are then not made.
RunEnds(r) ==
  /\ r \in going
  /\ \E ok \in BOOLEAN :
       /\ made' = made \cup {r} \cup (IF ok THEN {} ELSE RunsOf(r[1]) \ asked)
       /\ clones' = IF ok /\ r[2] = 1 THEN clones \cup {HomeOf[r[1]]} ELSE clones
  /\ Pump(waiting, going \ {r}, used - Need(r))
  /\ UNCHANGED <<chain, job, seed, asked>>

-----------------------------------------------------------------------------
(* prune *)

\* Mutant: the clone is deleted whoever holds it.
Prunes_Unlocked(n) ==
  /\ n \in clones
  /\ clones' = clones \ {n}
  /\ UNCHANGED <<chain, job, seed, made, asked, waiting, going, used>>

\* A clone no job holds or waits for is taken, in the same turn of the loop...
Prunes(n) ==
  /\ n \in clones /\ ~isLocked(n)
  /\ Join(n, Pruner)
  /\ UNCHANGED <<job, seed, made, asked, waiting, going, used, clones>>

\* ... and deleted while it is held.
Pruned(n) ==
  /\ Holder(n, Pruner)
  /\ Leave(n)
  /\ clones' = clones \ {n}
  /\ UNCHANGED <<job, seed, made, asked, waiting, going, used>>

-----------------------------------------------------------------------------
Next ==
  \/ \E j \in Jobs : Asks(j) \/ Holds(j) \/ SeedWaits(j) \/ SeedCopies(j) \/ SeedEnds(j) \/ Ends(j)
  \/ \E r \in Runs : AsksToRun(r) \/ RunEnds(r)
  \/ \E n \in Repos : Prunes(n) \/ Pruned(n)

\* Every await ends: commands have time limits, copies and deletions are of files.
\* When a job comes, and when clones are pruned, is nobody's promise.
Fairness ==
  /\ \A j \in Jobs : /\ WF_vars(Holds(j)) /\ WF_vars(SeedWaits(j)) /\ WF_vars(SeedCopies(j))
                     /\ WF_vars(SeedEnds(j)) /\ WF_vars(Ends(j))
  /\ \A r \in Runs : WF_vars(AsksToRun(r)) /\ WF_vars(RunEnds(r))
  /\ \A n \in Repos : WF_vars(Pruned(n))

Spec == Init /\ [][Next]_vars /\ Fairness

-----------------------------------------------------------------------------
(* What must hold *)

\* admitting's promise: the runs let in fit in the budget together, or one that
\* is larger than the budget runs alone.
FitsOrAlone ==
  \/ Cardinality(going) <= 1
  \/ MapThenSumSet(MbOf, going) <= Budget

\* A run that reads a clone finds it there: no prune, and no other job, comes in
\* between the run that brought it and the job's end.
CloneStays ==
  \A r \in going : r[2] > 1 => HomeOf[r[1]] \in clones

\* "In the order they asked": when a run is let in, whoever asked before it is let
\* in with it or before it.
InOrder ==
  [][\A r \in going' \ going, i \in DOMAIN waiting :
       r \notin ToSet(SubSeq(waiting, 1, i)) => waiting[i] \in going']_vars

\* Every job that asks for its repository ends: no wait for a repository, a
\* parent's or memory is for ever, since memory is waited for while holding
\* repositories and never the other way round.
EveryJobEnds == \A j \in Jobs : job[j] = "waits" ~> job[j] = "over"
=============================================================================
