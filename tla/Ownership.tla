----------------------------- MODULE Ownership -----------------------------
(***************************************************************************)
(* The Ownership of lines: which commit each line of each file of a head   *)
(* came from, as blame says.  The engine keeps it from one count of        *)
(* Surviving Lines to the next: a file that no first-parent commit since   *)
(* the kept head changed is carried over, every other file is walked back  *)
(* as blame walks, and a walk that reaches the kept head with a file whose *)
(* owners are known there stops.  A count that runs out of time keeps the  *)
(* files it finished, and the next one goes on from them.                  *)
(*                                                                         *)
(* Sources: crates/commitscape-index/src/surviving.rs (own),               *)
(* ownership/mod.rs (the walk) and ownership/file.rs (what is kept);       *)
(* blame.rs is the walk without anything kept, which Blamed stands for.    *)
(*                                                                         *)
(* Abstracted: a file is the set of its lines, no two of which are equal   *)
(* and all in one order, so that a diff keeps the lines both sides have;   *)
(* commits come from the heap in any order, which covers every commit      *)
(* time, thread and batch.  may_change, which only spares comparisons, is  *)
(* left out.                                                               *)
(***************************************************************************)
EXTENDS Naturals, Sequences, FiniteSets

CONSTANTS
  Commits, NoCommit,
  Paths, NoPath,
  Lines, NoLine,
  NoFile,       \* what a path that is not in a tree holds
  NoOwnership,
  Parents,      \* commit -> its parents, in order
  Tree,         \* commit -> path -> the lines of its file
  Squeezed,     \* line -> what is left of it without whitespace
  Settings,     \* what is passed through: size limit and ignored commits
  PassThrough,  \* settings -> Bulk Commits and ignored commits
  Blamed,       \* settings, commit, path, line -> the commit blame says
  Counts        \* bound: counts that begin

Blobs == {NoFile} \cup SUBSET Lines
Parent(c, k) == Parents[c][k]

\* rename_source: a deleted file with the same contents, else the most similar one of
\* at least half.
Larger(a, b) == IF Cardinality(a) < Cardinality(b) THEN Cardinality(b) ELSE Cardinality(a)
rename_source(c, k, p) ==
  LET now == Tree[c][p]
      was(q) == Tree[Parent(c, k)][q]
      copied(q) == Cardinality(was(q) \cap now)
      deleted == {q \in Paths : was(q) # NoFile /\ Tree[c][q] = NoFile}
      exact == {q \in deleted : was(q) = now}
      like == {q \in deleted : now # {} /\ 2 * copied(q) >= Larger(was(q), now)}
      best == {q \in like : \A r \in like :
                 copied(r) * Larger(was(q), now) <= copied(q) * Larger(was(r), now)} IN
  IF exact # {} THEN CHOOSE q \in exact : TRUE
  ELSE IF best # {} THEN CHOOSE q \in best : TRUE
  ELSE NoPath

\* The file that the one at p was in the k-th parent.
Before(c, k, p) == IF Tree[Parent(c, k)][p] # NoFile THEN p ELSE rename_source(c, k, p)

\* blame_compare says Same, or the file was moved as it is; q is its path there.
Whole(c, k, q, p) == q # NoPath /\ Tree[Parent(c, k)][q] = Tree[c][p]

\* line_map; a commit passed through hands on what it only spaced anew (ignored_map).
\* NoLine: the line is the commit's own.
LineBefore(s, c, k, q, p, l) ==
  LET was == Tree[Parent(c, k)][q]
      spaced == {m \in was \ Tree[c][p] : Squeezed[m] = Squeezed[l]} IN
  IF q = NoPath THEN NoLine
  ELSE IF l \in was THEN l
  ELSE IF Len(Parents[c]) = 1 /\ c \in PassThrough[s] /\ spaced # {} THEN CHOOSE m \in spaced : TRUE
  ELSE NoLine

FirstOf(ks) == CHOOSE k \in ks : \A i \in ks : k <= i

\* Where a line of a commit's file is blamed next: as a whole file in the first parent
\* that has it so, else in the first that has the line; [commit |-> c] is the end.
CameFrom(s, c, p, l) ==
  LET ks == DOMAIN Parents[c]
      whole == {k \in ks : Whole(c, k, Before(c, k, p), p)}
      has == {k \in ks : LineBefore(s, c, k, Before(c, k, p), p, l) # NoLine} IN
  IF whole # {} THEN LET k == FirstOf(whole) IN
    [commit |-> Parent(c, k), path |-> Before(c, k, p), line |-> l]
  ELSE IF has # {} THEN LET k == FirstOf(has) IN
    [commit |-> Parent(c, k), path |-> Before(c, k, p),
     line |-> LineBefore(s, c, k, Before(c, k, p), p, l)]
  ELSE [commit |-> c, path |-> p, line |-> l]

Owners == [Paths -> [Lines -> Commits \cup {NoCommit}]]
Kept == [head : Commits, settings : Settings, complete : BOOLEAN,
         files : [Paths -> Blobs], owners : Owners]

ASSUME OwnershipAssumption ==
  /\ NoCommit \notin Commits /\ NoPath \notin Paths /\ NoLine \notin Lines
  /\ \A blob \in SUBSET Lines : blob # NoFile
  /\ Parents \in [Commits -> Seq(Commits)]
  /\ Tree \in [Commits -> [Paths -> Blobs]]
  /\ PassThrough \in [Settings -> SUBSET Commits]
  /\ NoOwnership \notin Kept
  /\ Counts \in Nat

\* blame.rs: from one commit to the next, until a commit's own line.
ASSUME BlamedAssumption ==
  \A s \in Settings, c \in Commits : \A p \in Paths : Tree[c][p] # NoFile =>
    \A l \in Tree[c][p] :
      LET n == CameFrom(s, c, p, l) IN
      Blamed[s][c][p][l] = IF n.commit = c THEN c ELSE Blamed[s][n.commit][n.path][n.line]

-----------------------------------------------------------------------------
VARIABLES
  ownership,  \* the Ownership kept on disk
  backup,     \* the one in the Repo State in R2
  walk,       \* the count under way: its head, and what it goes on from
  todo,       \* the files it has not taken up
  traces,     \* lines of the head, each with where its walk has come to
  owners,     \* what the count has found
  counts

ownershipVars == <<ownership, backup, walk, todo, traces, owners, counts>>

\* The head's files: Tree has none but Source files of a size that is read.
FilesAt(h) == {p \in Paths : Tree[h][p] # NoFile}
NoOwners == [p \in Paths |-> [l \in Lines |-> NoCommit]]

Trace == [file : Paths, origin : Lines, commit : Commits, path : Paths, line : Lines]
Walking == [pc : {"lines", "walks"}, head : Commits, settings : Settings,
            known : {NoOwnership} \cup Kept, at : Commits, same : SUBSET Paths]
NoWalk == [pc |-> "idle"]

OwnershipInit ==
  /\ ownership = NoOwnership /\ backup = NoOwnership
  /\ walk = NoWalk /\ todo = {} /\ traces = {} /\ owners = NoOwners /\ counts = 0

OwnershipTypeOK ==
  /\ ownership \in {NoOwnership} \cup Kept /\ backup \in {NoOwnership} \cup Kept
  /\ walk \in Walking \cup {NoWalk}
  /\ todo \subseteq Paths /\ traces \subseteq Trace
  /\ owners \in Owners /\ counts \in Nat

-----------------------------------------------------------------------------
(* own: what is carried over *)

\* An Ownership of other settings is not gone on from.
\* Mutant: nor is one that is not complete.
Previous_Whole(s) ==
  IF ownership # NoOwnership /\ ownership.settings = s /\ ownership.complete THEN ownership ELSE NoOwnership
Previous(s) ==
  IF ownership # NoOwnership /\ ownership.settings = s THEN ownership ELSE NoOwnership

\* Any commit may be the head: branches move, forwards or not.
CountStarts(h, s) ==
  LET known == Previous(s)
      start == [pc |-> "walks", head |-> h, settings |-> s, known |-> known, at |-> h, same |-> {}]
      candidates == {p \in FilesAt(h) : known.files[p] = Tree[h][p]} IN
  /\ walk = NoWalk /\ counts < Counts
  /\ counts' = counts + 1
  /\ walk' = IF known = NoOwnership THEN start
             ELSE [start EXCEPT !.pc = "lines", !.same = candidates]
  /\ todo' = FilesAt(h) /\ traces' = {} /\ owners' = NoOwners
  /\ UNCHANGED <<ownership, backup>>

\* One edge of the first-parent line back to the kept head.
\* Mutant: only the blobs at its two ends are compared.
LineSteps_Ends ==
  /\ walk.pc = "lines" /\ walk.at # walk.known.head /\ Parents[walk.at] # <<>>
  /\ walk' = [walk EXCEPT !.at = Parent(walk.at, 1)]
  /\ UNCHANGED <<ownership, backup, todo, traces, owners, counts>>
LineSteps ==
  LET next == Parent(walk.at, 1) IN
  /\ walk.pc = "lines" /\ walk.at # walk.known.head /\ Parents[walk.at] # <<>>
  /\ walk' = [walk EXCEPT !.at = next, !.same = {p \in @ : Tree[next][p] = Tree[walk.at][p]}]
  /\ UNCHANGED <<ownership, backup, todo, traces, owners, counts>>

\* The line ends at the kept head, and what it left unchanged is carried over, or at a
\* root: the kept head is not on it.
LineEnds ==
  LET carried == IF walk.at = walk.known.head THEN walk.same ELSE {} IN
  /\ walk.pc = "lines"
  /\ walk.at = walk.known.head \/ Parents[walk.at] = <<>>
  /\ walk' = [walk EXCEPT !.pc = "walks"]
  /\ todo' = todo \ carried
  /\ owners' = [p \in Paths |-> IF p \in carried THEN walk.known.owners[p] ELSE owners[p]]
  /\ UNCHANGED <<ownership, backup, traces, counts>>

-----------------------------------------------------------------------------
(* The walk *)

\* Where a line that is walked came from (process).
StepsTo(t) == CameFrom(walk.settings, t.commit, t.path, t.line)

\* Whether the kept Ownership has the owners of the file a walk has come to (push).
KnownAt(n) ==
  /\ walk.known # NoOwnership /\ n.commit = walk.known.head
  /\ walk.known.files[n.path] = Tree[n.commit][n.path]

\* The owner of a line that came from n; NoCommit: it walks on.
Found(t, n) ==
  IF n.commit = t.commit THEN t.commit
  ELSE IF KnownAt(n) THEN walk.known.owners[n.path][n.line]
  ELSE NoCommit

Onward(t, n) == [t EXCEPT !.commit = n.commit, !.path = n.path, !.line = n.line]

WalkTakes(p) ==
  LET begun == {[file |-> p, origin |-> l, commit |-> walk.head, path |-> p, line |-> l] :
                  l \in Tree[walk.head][p]} IN
  /\ walk.pc = "walks" /\ p \in todo
  /\ todo' = todo \ {p}
  /\ traces' = traces \cup begun
  /\ UNCHANGED <<ownership, backup, walk, owners, counts>>

\* Every line that has come to a commit goes on from there (process).
Walks(c) ==
  LET here == {t \in traces : t.commit = c}
      goes == {<<t, StepsTo(t)>> : t \in here}
      found == {<<g[1], Found(g[1], g[2])>> : g \in goes}
      of(p, l) == {f[2] : f \in {k \in found : k[1].file = p /\ k[1].origin = l}} \ {NoCommit} IN
  /\ walk.pc = "walks" /\ here # {}
  /\ traces' = (traces \ here) \cup
       {Onward(g[1], g[2]) : g \in {h \in goes : Found(h[1], h[2]) = NoCommit}}
  /\ owners' = [p \in Paths |-> [l \in Lines |->
       IF of(p, l) # {} THEN CHOOSE o \in of(p, l) : TRUE ELSE owners[p][l]]]
  /\ UNCHANGED <<ownership, backup, walk, todo, counts>>

-----------------------------------------------------------------------------
(* What is kept *)

Finished(p) ==
  /\ p \in FilesAt(walk.head) \ todo
  /\ \A l \in Tree[walk.head][p] : owners[p][l] # NoCommit

Keeps(complete) ==
  ownership' = [head |-> walk.head, settings |-> walk.settings, complete |-> complete,
    files |-> [p \in Paths |-> IF Finished(p) THEN Tree[walk.head][p] ELSE NoFile],
    owners |-> [p \in Paths |-> IF Finished(p) THEN owners[p] ELSE NoOwners[p]]]

Ends == walk' = NoWalk /\ todo' = {} /\ traces' = {} /\ owners' = NoOwners

CountFinishes ==
  /\ walk.pc = "walks" /\ todo = {} /\ traces = {}
  /\ Keeps(TRUE) /\ Ends
  /\ UNCHANGED <<backup, counts>>

\* Mutant: a count that ran out of time is taken for whole.
CountRunsOut_Whole ==
  /\ walk.pc = "walks"
  /\ todo # {} \/ traces # {}
  /\ Keeps(TRUE) /\ Ends
  /\ UNCHANGED <<backup, counts>>
CountRunsOut ==
  /\ walk.pc = "walks"
  /\ todo # {} \/ traces # {}
  /\ Keeps(FALSE) /\ Ends
  /\ UNCHANGED <<backup, counts>>

\* The repository cannot be read, or the engine is killed: what was kept stays.
CountFails ==
  /\ walk # NoWalk /\ Ends
  /\ UNCHANGED <<ownership, backup, counts>>

\* The Repo State is saved after a count, and restored when the disk has lost it.
SavesState ==
  /\ walk = NoWalk /\ backup' = ownership
  /\ UNCHANGED <<ownership, walk, todo, traces, owners, counts>>
RestoresState ==
  /\ walk = NoWalk /\ ownership' = backup
  /\ UNCHANGED <<backup, walk, todo, traces, owners, counts>>

OwnershipNext ==
  \/ \E h \in Commits, s \in Settings : CountStarts(h, s)
  \/ LineSteps \/ LineEnds
  \/ \E p \in Paths : WalkTakes(p)
  \/ \E c \in Commits : Walks(c)
  \/ CountFinishes \/ CountRunsOut \/ CountFails
  \/ SavesState \/ RestoresState

OwnershipSpec == OwnershipInit /\ [][OwnershipNext]_ownershipVars

-----------------------------------------------------------------------------
(* Properties *)

AsBlamed(kept) ==
  kept # NoOwnership => \A p \in Paths : kept.files[p] # NoFile =>
    /\ kept.files[p] = Tree[kept.head][p]
    /\ \A l \in kept.files[p] : kept.owners[p][l] = Blamed[kept.settings][kept.head][p][l]

\* Whatever was kept, carried over, stopped at, interrupted, lost or restored before,
\* in whatever order the heads came, every line's owner is the one blame names from
\* scratch.
OwnedAsBlamed == AsBlamed(ownership) /\ AsBlamed(backup)

\* An Ownership said to be complete has every file of its head, so that everyone's
\* counts are sums over all of them.
CompleteIsWhole ==
  ownership # NoOwnership /\ ownership.complete =>
    \A p \in FilesAt(ownership.head) : ownership.files[p] # NoFile

\* "Ownership not worked out within the budget is kept, and the count is queued again to
\* go on from it": a count of the same head loses no file an earlier one finished.
GoesOn ==
  [][ /\ walk # NoWalk /\ ownership # NoOwnership /\ ownership' # ownership
      /\ ownership'.head = ownership.head /\ ownership'.settings = ownership.settings
      => \A p \in Paths : ownership.files[p] # NoFile => ownership'.files[p] # NoFile ]_ownershipVars
=============================================================================
