---------------------------- MODULE Parts_proofs ----------------------------
(***************************************************************************)
(* Proofs about Ownership: what is kept of it is what blame says from      *)
(* scratch, and is whole when it says so, for every history, every order   *)
(* of heads and every way the counts before were cut short; about Pulls,   *)
(* for any pull requests, sizes of a page and number of updates; and that  *)
(* in MCParts each part behaves as it does on its own.                     *)
(***************************************************************************)
EXTENDS MCParts, RepoState_proofs, Serving_proofs, Folds_proofs

-----------------------------------------------------------------------------
(* Where a line comes from *)

\* A commit's parents have a first one among any of them.
LEMMA FirstOfType ==
  ASSUME NEW n \in Nat, NEW ks \in SUBSET (1 .. n), ks # {}
  PROVE  FirstOf(ks) \in ks
<1> DEFINE Below == {1 .. k : k \in ks}
<1>1. Below \subseteq FiniteSubsetsOf(1 .. n) /\ Below # {}
  <2>1. ASSUME NEW k \in ks PROVE 1 .. k \in FiniteSubsetsOf(1 .. n)
    <3>1. k \in Nat /\ 1 .. k \subseteq 1 .. n
      OBVIOUS
    <3>2. IsFiniteSet(1 .. k)
      BY <3>1, FS_Interval
    <3> QED BY <3>1, <3>2 DEF FiniteSubsetsOf
  <2> QED BY <2>1
<1>2. IsWellFoundedOn(StrictSubsetOrdering(1 .. n), FiniteSubsetsOf(1 .. n))
  BY FS_StrictSubsetOrderingWellFounded
<1>3. PICK x \in Below : \A y \in Below : ~ (<<y, x>> \in StrictSubsetOrdering(1 .. n))
  <2> HIDE DEF Below
  <2> QED BY <1>1, <1>2, WFMin
<1>4. PICK k \in ks : x = 1 .. k
  BY <1>3
<1>5. ASSUME NEW i \in ks PROVE k <= i
  <2>1. 1 .. i \in Below /\ i \in 1 .. n /\ k \in 1 .. n
    OBVIOUS
  <2>2. CASE i < k
    <3>1. 1 .. i \subseteq 1 .. k /\ 1 .. i # 1 .. k
      <4>1. k \in 1 .. k /\ k \notin 1 .. i
        BY <2>1, <2>2
      <4> QED BY <4>1, <2>1, <2>2
    <3>2. 1 .. i \in SUBSET (1 .. n) /\ 1 .. k \in SUBSET (1 .. n)
      BY <2>1
    <3> QED BY <3>1, <3>2, <2>1, <1>3, <1>4 DEF StrictSubsetOrdering
  <2> QED BY <2>1, <2>2
<1> QED BY <1>4, <1>5 DEF FirstOf

\* What rename_source names was there in the parent.
LEMMA BeforeType ==
  ASSUME NEW c \in Commits, NEW k \in DOMAIN Parents[c], NEW p \in Paths, Before(c, k, p) # NoPath
  PROVE  /\ Parent(c, k) \in Commits
         /\ Before(c, k, p) \in Paths /\ Tree[Parent(c, k)][Before(c, k, p)] # NoFile
<1>1. Parent(c, k) \in Commits
  BY OwnershipAssumption DEF Parent
<1>2. CASE Tree[Parent(c, k)][p] # NoFile
  BY <1>1, <1>2 DEF Before
<1>3. CASE Tree[Parent(c, k)][p] = NoFile
  <2>1. rename_source(c, k, p) # NoPath
    BY <1>3 DEF Before
  <2>2. rename_source(c, k, p) \in Paths /\ Tree[Parent(c, k)][rename_source(c, k, p)] # NoFile
    <3> DEFINE now == Tree[c][p]
               was(q) == Tree[Parent(c, k)][q]
               copied(q) == Cardinality(was(q) \cap now)
               deleted == {q \in Paths : was(q) # NoFile /\ Tree[c][q] = NoFile}
               exact == {q \in deleted : was(q) = now}
               like == {q \in deleted : now # {} /\ 2 * copied(q) >= Larger(was(q), now)}
               best == {q \in like : \A r \in like :
                          copied(r) * Larger(was(q), now) <= copied(q) * Larger(was(r), now)}
    <3>1. rename_source(c, k, p) = IF exact # {} THEN CHOOSE q \in exact : TRUE
                                   ELSE IF best # {} THEN CHOOSE q \in best : TRUE
                                   ELSE NoPath
      BY DEF rename_source
    <3>2. exact \subseteq deleted /\ best \subseteq deleted
      OBVIOUS
    <3>3. \A q \in deleted : q \in Paths /\ Tree[Parent(c, k)][q] # NoFile
      OBVIOUS
    <3>4. rename_source(c, k, p) \in deleted
      <4> HIDE DEF exact, best, deleted
      <4> QED BY <3>1, <3>2, <2>1
    <3> QED BY <3>3, <3>4
  <2> QED BY <1>1, <1>3, <2>1, <2>2 DEF Before
<1> QED BY <1>2, <1>3

\* A line goes to a line of a file of some commit.
LEMMA CameFromType ==
  ASSUME NEW s \in Settings, NEW c \in Commits, NEW p \in Paths, Tree[c][p] # NoFile,
         NEW l \in Tree[c][p], l \in Lines
  PROVE  LET n == CameFrom(s, c, p, l) IN
         /\ n.commit \in Commits /\ n.path \in Paths /\ Tree[n.commit][n.path] # NoFile
         /\ n.line \in Tree[n.commit][n.path]
<1> DEFINE ks == DOMAIN Parents[c]
           whole == {k \in ks : Whole(c, k, Before(c, k, p), p)}
           has == {k \in ks : LineBefore(s, c, k, Before(c, k, p), p, l) # NoLine}
<1>1. PICK n \in Nat : ks = 1 .. n
  BY OwnershipAssumption
<1>2. CASE whole # {}
  <2>1. PICK k \in ks : k = FirstOf(whole) /\ Whole(c, k, Before(c, k, p), p)
    BY <1>1, <1>2, FirstOfType
  <2>2. CameFrom(s, c, p, l) = [commit |-> Parent(c, k), path |-> Before(c, k, p), line |-> l]
    BY <1>2, <2>1 DEF CameFrom
  <2>3. Before(c, k, p) # NoPath /\ Tree[Parent(c, k)][Before(c, k, p)] = Tree[c][p]
    BY <2>1 DEF Whole
  <2> QED BY <2>1, <2>2, <2>3, BeforeType
<1>3. CASE whole = {} /\ has # {}
  <2>0. FirstOf(has) \in has
    <3>1. has \in SUBSET (1 .. n)
      BY <1>1
    <3> HIDE DEF has
    <3> QED BY <3>1, <1>3, FirstOfType
  <2>1. PICK k \in ks : k = FirstOf(has) /\ LineBefore(s, c, k, Before(c, k, p), p, l) # NoLine
    BY <2>0
  <2>2. CameFrom(s, c, p, l) =
          [commit |-> Parent(c, k), path |-> Before(c, k, p), line |-> LineBefore(s, c, k, Before(c, k, p), p, l)]
    BY <1>3, <2>1 DEF CameFrom
  <2>3. /\ Before(c, k, p) # NoPath
        /\ LineBefore(s, c, k, Before(c, k, p), p, l) \in Tree[Parent(c, k)][Before(c, k, p)]
    <3> DEFINE was == Tree[Parent(c, k)][Before(c, k, p)]
               spaced == {m \in was \ Tree[c][p] : Squeezed[m] = Squeezed[l]}
    <3>1. Before(c, k, p) # NoPath
      BY <2>1 DEF LineBefore
    <3>2. LineBefore(s, c, k, Before(c, k, p), p, l) =
            IF l \in was THEN l
            ELSE IF Len(Parents[c]) = 1 /\ c \in PassThrough[s] /\ spaced # {}
            THEN CHOOSE m \in spaced : TRUE ELSE NoLine
      BY <3>1 DEF LineBefore
    <3>3. spaced \subseteq was
      OBVIOUS
    <3> HIDE DEF was, spaced
    <3>4. LineBefore(s, c, k, Before(c, k, p), p, l) \in was
      BY <3>2, <3>3, <2>1
    <3> QED BY <3>1, <3>4 DEF was
  <2> QED BY <2>1, <2>2, <2>3, BeforeType
<1>4. CASE whole = {} /\ has = {}
  <2>1. CameFrom(s, c, p, l) = [commit |-> c, path |-> p, line |-> l]
    BY <1>4 DEF CameFrom
  <2> QED BY <2>1
<1> QED BY <1>2, <1>3, <1>4

\* Blame passes a file that the first parent has as it is straight down to it.
LEMMA SameGoesDown ==
  ASSUME NEW s \in Settings, NEW c \in Commits, Parents[c] # <<>>,
         NEW p \in Paths, Tree[c][p] # NoFile, Tree[Parent(c, 1)][p] = Tree[c][p],
         NEW l \in Tree[c][p]
  PROVE  Blamed[s][c][p][l] = Blamed[s][Parent(c, 1)][p][l]
<1> DEFINE ks == DOMAIN Parents[c]
           whole == {k \in ks : Whole(c, k, Before(c, k, p), p)}
<1>1. PICK m \in Nat : ks = 1 .. m /\ m # 0
  BY OwnershipAssumption
<1>2. Before(c, 1, p) = p
  BY DEF Before
<1>3. Whole(c, 1, Before(c, 1, p), p)
  BY <1>2, OwnershipAssumption DEF Whole
<1>4. 1 \in whole
  BY <1>1, <1>3
<1>5. FirstOf(whole) = 1
  <2>1. whole \subseteq 1 .. m
    BY <1>1
  <2> HIDE DEF whole
  <2>2. FirstOf(whole) \in whole
    BY <2>1, <1>4, FirstOfType
  <2>3. \A i \in whole : FirstOf(whole) <= i
    <3>1. \A i \in whole : 1 <= i
      BY <2>1
    <3>2. \E k \in whole : \A i \in whole : k <= i
      BY <3>1, <1>4
    <3> QED BY <3>2 DEF FirstOf
  <2>4. FirstOf(whole) \in 1 .. m /\ FirstOf(whole) <= 1
    BY <2>1, <2>2, <2>3, <1>4
  <2> QED BY <2>4
<1>6. CameFrom(s, c, p, l) = [commit |-> Parent(c, 1), path |-> p, line |-> l]
  BY <1>2, <1>4, <1>5 DEF CameFrom
<1>7. Blamed[s][c][p][l] = LET n == CameFrom(s, c, p, l) IN
        IF n.commit = c THEN c ELSE Blamed[s][n.commit][n.path][n.line]
  BY BlamedAssumption
<1> QED BY <1>6, <1>7

-----------------------------------------------------------------------------
(* The inductive invariant *)

\* What is kept of a file has an owner for each of its lines.
AllOwned(own) ==
  own # NoOwnership => \A p \in Paths : own.files[p] # NoFile =>
    \A l \in own.files[p] : own.owners[p][l] # NoCommit

IsWhole(own) ==
  own # NoOwnership /\ own.complete => \A p \in FilesAt(own.head) : own.files[p] # NoFile

Sound(own) == AsBlamed(own) /\ AllOwned(own) /\ IsWhole(own)

BlameOf(c, p, l) == Blamed[walk.settings][c][p][l]

\* What a count goes on from is sound, and of its settings.
KnownOK ==
  walk # NoWalk => /\ Sound(walk.known)
                   /\ walk.known # NoOwnership => walk.known.settings = walk.settings

\* Down to where the first-parent line has come, blame passes the same files.
SameOK ==
  walk # NoWalk /\ walk.pc = "lines" =>
    /\ walk.known # NoOwnership /\ traces = {} /\ todo = FilesAt(walk.head) /\ owners = NoOwners
    /\ \A p \in walk.same :
         /\ Tree[walk.head][p] # NoFile
         /\ walk.known.files[p] = Tree[walk.head][p] /\ Tree[walk.at][p] = Tree[walk.head][p]
         /\ \A l \in Tree[walk.head][p] : BlameOf(walk.head, p, l) = BlameOf(walk.at, p, l)

\* A line is blamed as the line its walk has come to.
TraceOK(t) ==
  /\ Tree[walk.head][t.file] # NoFile /\ t.origin \in Tree[walk.head][t.file]
  /\ Tree[t.commit][t.path] # NoFile /\ t.line \in Tree[t.commit][t.path]
  /\ BlameOf(walk.head, t.file, t.origin) = BlameOf(t.commit, t.path, t.line)
TracesOK == walk # NoWalk => todo \subseteq FilesAt(walk.head) /\ \A t \in traces : TraceOK(t)

OwnersOK ==
  walk # NoWalk => \A p \in FilesAt(walk.head) : \A l \in Tree[walk.head][p] :
    owners[p][l] # NoCommit => owners[p][l] = BlameOf(walk.head, p, l)

\* No line of a file taken up is lost: it has its owner, or is being walked.
NoneLost ==
  walk # NoWalk => \A p \in FilesAt(walk.head) \ todo : \A l \in Tree[walk.head][p] :
    owners[p][l] # NoCommit \/ \E t \in traces : t.file = p /\ t.origin = l

OwnershipInv ==
  /\ OwnershipTypeOK
  /\ Sound(ownership) /\ Sound(backup)
  /\ KnownOK /\ SameOK /\ TracesOK /\ OwnersOK /\ NoneLost

-----------------------------------------------------------------------------
(* It holds at first, and every step keeps it *)

LEMMA WalkingOK ==
  ASSUME OwnershipTypeOK, walk # NoWalk
  PROVE  /\ walk \in Walking
         /\ walk.pc \in {"lines", "walks"} /\ walk.head \in Commits /\ walk.settings \in Settings
         /\ walk.known \in {NoOwnership} \cup Kept /\ walk.at \in Commits /\ walk.same \subseteq Paths
<1>1. walk \in Walking
  BY DEF OwnershipTypeOK
<1> QED BY <1>1 DEF Walking

LEMMA NoOwnershipSound == Sound(NoOwnership)
BY DEF Sound, AsBlamed, AllOwned, IsWhole

LEMMA NoOwnersType == NoOwners \in Owners
BY DEF NoOwners, Owners

LEMMA InitInv == OwnershipInit => OwnershipInv
<1> SUFFICES ASSUME OwnershipInit PROVE OwnershipInv
  OBVIOUS
<1>1. OwnershipTypeOK
  BY NoOwnersType DEF OwnershipInit, OwnershipTypeOK
<1>2. Sound(ownership) /\ Sound(backup)
  BY NoOwnershipSound DEF OwnershipInit
<1>3. walk = NoWalk
  BY DEF OwnershipInit
<1> QED BY <1>1, <1>2, <1>3 DEF OwnershipInv, KnownOK, SameOK, TracesOK, OwnersOK, NoneLost

\* When no count goes on, what is kept is all there is to say.
LEMMA IdleInv ==
  ASSUME OwnershipTypeOK', Sound(ownership)', Sound(backup)', walk' = NoWalk
  PROVE  OwnershipInv'
BY DEF OwnershipInv, KnownOK, SameOK, TracesOK, OwnersOK, NoneLost

LEMMA StartStep ==
  ASSUME OwnershipInv, NEW h \in Commits, NEW s \in Settings, CountStarts(h, s)
  PROVE  OwnershipInv'
<1>1. PICK known : known = Previous(s)
  OBVIOUS
<1>2. /\ known \in {NoOwnership} \cup Kept /\ Sound(known)
      /\ known # NoOwnership => known.settings = s
  BY <1>1, NoOwnershipSound DEF Previous, OwnershipInv, OwnershipTypeOK
<1>3. PICK same : same = {p \in FilesAt(h) : known.files[p] = Tree[h][p]}
  OBVIOUS
<1>4. FilesAt(h) \subseteq Paths /\ same \subseteq FilesAt(h)
  BY <1>3 DEF FilesAt
<1>5. /\ walk' = [pc |-> IF known = NoOwnership THEN "walks" ELSE "lines", head |-> h, settings |-> s,
                  known |-> known, at |-> h, same |-> IF known = NoOwnership THEN {} ELSE same]
      /\ counts \in Nat /\ counts' = counts + 1
      /\ todo' = FilesAt(h) /\ traces' = {} /\ owners' = NoOwners
      /\ ownership' = ownership /\ backup' = backup
  BY <1>1, <1>3 DEF CountStarts, OwnershipInv, OwnershipTypeOK
<1>6. walk' \in Walking /\ walk'.pc \in {"lines", "walks"}
  BY <1>2, <1>4, <1>5 DEF Walking
<1>7. walk' # NoWalk
  BY <1>6 DEF NoWalk
<1>8. OwnershipTypeOK'
  BY <1>4, <1>5, <1>6, NoOwnersType DEF OwnershipInv, OwnershipTypeOK
<1>9. Sound(ownership)' /\ Sound(backup)'
  BY <1>5 DEF OwnershipInv, Sound, AsBlamed, AllOwned, IsWhole
<1>10. KnownOK'
  BY <1>2, <1>5 DEF KnownOK, Sound, AsBlamed, AllOwned, IsWhole
<1>11. SameOK'
  <2>1. \A p \in same : Tree[h][p] # NoFile /\ known.files[p] = Tree[h][p]
    BY <1>3 DEF FilesAt
  <2> QED BY <2>1, <1>5 DEF SameOK, BlameOf
<1>12. TracesOK'
  BY <1>5 DEF TracesOK
<1>13. OwnersOK'
  <2>1. ASSUME NEW p \in Paths, NEW l \in Lines PROVE owners'[p][l] = NoCommit
    BY <1>5 DEF NoOwners
  <2>2. \A p \in FilesAt(h) : Tree[h][p] \subseteq Lines
    BY OwnershipAssumption DEF FilesAt, Blobs
  <2> QED BY <1>4, <1>5, <2>1, <2>2 DEF OwnersOK
<1>14. NoneLost'
  BY <1>5 DEF NoneLost
<1> QED BY <1>8, <1>9, <1>10, <1>11, <1>12, <1>13, <1>14 DEF OwnershipInv

LEMMA LineStep ==
  ASSUME OwnershipInv, LineSteps
  PROVE  OwnershipInv'
<1>1. /\ walk # NoWalk /\ walk.pc = "lines" /\ Parents[walk.at] # <<>>
      /\ UNCHANGED <<ownership, backup, todo, traces, owners, counts>>
  BY DEF LineSteps, NoWalk
<1>2. PICK c : c = walk.at
  OBVIOUS
<1>3. PICK next : next = Parent(c, 1)
  OBVIOUS
<1>4. walk \in Walking /\ c \in Commits /\ walk.head \in Commits /\ walk.settings \in Settings
  BY <1>1, <1>2, WalkingOK DEF OwnershipInv
<1>5. next \in Commits
  <2>1. Parents[c] \in Seq(Commits) /\ Parents[c] # <<>>
    BY <1>1, <1>2, <1>4, OwnershipAssumption
  <2>2. Parents[c][1] \in Commits
    BY <2>1
  <2> QED BY <2>2, <1>3 DEF Parent
<1>6. PICK same : same = {p \in walk.same : Tree[next][p] = Tree[c][p]}
  OBVIOUS
<1>7. walk' = [walk EXCEPT !.at = next, !.same = same]
  BY <1>2, <1>3, <1>6 DEF LineSteps
<1>8. /\ walk' \in Walking /\ walk'.pc = "lines" /\ walk'.head = walk.head
      /\ walk'.settings = walk.settings /\ walk'.known = walk.known
      /\ walk'.at = next /\ walk'.same = same
  BY <1>1, <1>4, <1>5, <1>6, <1>7 DEF Walking
<1>9. walk' # NoWalk
  BY <1>8 DEF NoWalk
<1>10. OwnershipTypeOK'
  BY <1>1, <1>8 DEF OwnershipInv, OwnershipTypeOK
<1>11. Sound(ownership)' /\ Sound(backup)' /\ KnownOK'
  BY <1>1, <1>8 DEF OwnershipInv, KnownOK, Sound, AsBlamed, AllOwned, IsWhole
<1>12. SameOK'
  <2>1. /\ walk.known # NoOwnership /\ traces = {} /\ todo = FilesAt(walk.head) /\ owners = NoOwners
    BY <1>1 DEF OwnershipInv, SameOK
  <2>2. ASSUME NEW p \in same
        PROVE  /\ Tree[walk.head][p] # NoFile /\ walk.known.files[p] = Tree[walk.head][p]
               /\ Tree[next][p] = Tree[walk.head][p]
               /\ \A l \in Tree[walk.head][p] : BlameOf(walk.head, p, l) = BlameOf(next, p, l)
    <3>1. p \in walk.same /\ p \in Paths /\ Tree[next][p] = Tree[c][p]
      BY <1>4, <1>6 DEF Walking
    <3>2. /\ Tree[walk.head][p] # NoFile /\ walk.known.files[p] = Tree[walk.head][p]
          /\ Tree[c][p] = Tree[walk.head][p]
          /\ \A l \in Tree[walk.head][p] : BlameOf(walk.head, p, l) = BlameOf(c, p, l)
      BY <1>1, <1>2, <3>1 DEF OwnershipInv, SameOK
    <3>3. \A l \in Tree[c][p] : BlameOf(c, p, l) = BlameOf(next, p, l)
      BY <1>1, <1>2, <1>3, <1>4, <3>1, <3>2, SameGoesDown DEF BlameOf
    <3> QED BY <3>1, <3>2, <3>3
  <2> QED BY <1>1, <1>8, <2>1, <2>2 DEF SameOK, BlameOf
<1>13. TracesOK' /\ OwnersOK' /\ NoneLost'
  BY <1>1, <1>8 DEF OwnershipInv, TracesOK, TraceOK, OwnersOK, NoneLost, BlameOf
<1> QED BY <1>10, <1>11, <1>12, <1>13 DEF OwnershipInv

LEMMA LineEndStep ==
  ASSUME OwnershipInv, LineEnds
  PROVE  OwnershipInv'
<1>1. /\ walk # NoWalk /\ walk.pc = "lines"
      /\ UNCHANGED <<ownership, backup, traces, counts>>
  BY DEF LineEnds, NoWalk
<1>2. PICK carried : carried = IF walk.at = walk.known.head THEN walk.same ELSE {}
  OBVIOUS
<1>3. /\ walk' = [walk EXCEPT !.pc = "walks"] /\ todo' = todo \ carried
      /\ owners' = [p \in Paths |-> IF p \in carried THEN walk.known.owners[p] ELSE owners[p]]
  BY <1>2 DEF LineEnds
<1>4. /\ walk \in Walking /\ walk.head \in Commits /\ walk.settings \in Settings
      /\ walk.known \in {NoOwnership} \cup Kept /\ walk.same \subseteq Paths
  BY <1>1, WalkingOK DEF OwnershipInv
<1>5. /\ walk' \in Walking /\ walk'.pc = "walks" /\ walk'.head = walk.head
      /\ walk'.settings = walk.settings /\ walk'.known = walk.known
  BY <1>3, <1>4 DEF Walking
<1>6. walk' # NoWalk
  BY <1>5 DEF NoWalk
<1>7. walk.known \in Kept /\ traces = {} /\ todo = FilesAt(walk.head) /\ owners = NoOwners
  BY <1>1, <1>4 DEF OwnershipInv, SameOK
<1>8. ASSUME NEW p \in carried
      PROVE  /\ p \in Paths /\ p \in FilesAt(walk.head)
             /\ \A l \in Tree[walk.head][p] :
                  /\ owners'[p][l] # NoCommit /\ owners'[p][l] = BlameOf(walk.head, p, l)
  <2>1. walk.at = walk.known.head /\ p \in walk.same /\ p \in Paths
    BY <1>2, <1>4
  <2>2. /\ Tree[walk.head][p] # NoFile /\ walk.known.files[p] = Tree[walk.head][p]
        /\ \A l \in Tree[walk.head][p] : BlameOf(walk.head, p, l) = BlameOf(walk.known.head, p, l)
    BY <1>1, <2>1 DEF OwnershipInv, SameOK
  <2>3. Sound(walk.known) /\ walk.known # NoOwnership /\ walk.known.settings = walk.settings
    BY <1>1 DEF OwnershipInv, KnownOK, SameOK
  <2>4. \A l \in Tree[walk.head][p] :
          /\ walk.known.owners[p][l] # NoCommit
          /\ walk.known.owners[p][l] = BlameOf(walk.known.head, p, l)
    BY <2>1, <2>2, <2>3 DEF Sound, AsBlamed, AllOwned, BlameOf
  <2>5. owners'[p] = walk.known.owners[p]
    BY <1>3, <2>1
  <2> QED BY <2>1, <2>2, <2>4, <2>5 DEF FilesAt
<1>9. ASSUME NEW p \in Paths, p \notin carried, NEW l \in Lines
      PROVE  owners'[p][l] = NoCommit
  BY <1>3, <1>7, <1>9 DEF NoOwners
<1>10. \A p \in FilesAt(walk.head) : p \in Paths /\ Tree[walk.head][p] \subseteq Lines
  BY <1>4, OwnershipAssumption DEF FilesAt, Blobs
<1>11. OwnershipTypeOK'
  <2>1. owners' \in Owners
    <3>1. walk.known.owners \in Owners /\ owners \in Owners
      BY <1>7, NoOwnersType DEF Kept
    <3> QED BY <1>3, <3>1 DEF Owners
  <2> QED BY <1>1, <1>3, <1>5, <2>1 DEF OwnershipInv, OwnershipTypeOK
<1>12. Sound(ownership)' /\ Sound(backup)' /\ KnownOK'
  BY <1>1, <1>5 DEF OwnershipInv, KnownOK, Sound, AsBlamed, AllOwned, IsWhole
<1>13. SameOK' /\ TracesOK'
  BY <1>1, <1>3, <1>5, <1>7 DEF SameOK, TracesOK
<1>14. OwnersOK'
  <2>1. ASSUME NEW p \in FilesAt(walk.head), NEW l \in Tree[walk.head][p], owners'[p][l] # NoCommit
        PROVE  owners'[p][l] = BlameOf(walk.head, p, l)
    BY <2>1, <1>8, <1>9, <1>10
  <2> QED BY <2>1, <1>5 DEF OwnersOK, BlameOf
<1>15. NoneLost'
  <2>1. ASSUME NEW p \in FilesAt(walk.head) \ todo', NEW l \in Tree[walk.head][p]
        PROVE  owners'[p][l] # NoCommit
    BY <1>3, <1>7, <1>8
  <2> QED BY <2>1, <1>5 DEF NoneLost
<1> QED BY <1>11, <1>12, <1>13, <1>14, <1>15 DEF OwnershipInv

LEMMA TakeStep ==
  ASSUME OwnershipInv, NEW p \in Paths, WalkTakes(p)
  PROVE  OwnershipInv'
<1>1. /\ walk # NoWalk /\ walk.pc = "walks" /\ p \in todo
      /\ UNCHANGED <<ownership, backup, walk, owners, counts>>
  BY DEF WalkTakes, NoWalk
<1>2. PICK begun : begun = {[file |-> p, origin |-> l, commit |-> walk.head, path |-> p, line |-> l] :
                              l \in Tree[walk.head][p]}
  OBVIOUS
<1>3. todo' = todo \ {p} /\ traces' = traces \cup begun
  BY <1>2 DEF WalkTakes
<1>4. walk.head \in Commits /\ walk.settings \in Settings
  BY <1>1, WalkingOK DEF OwnershipInv
<1>5. Tree[walk.head][p] # NoFile /\ Tree[walk.head][p] \subseteq Lines
  <2>1. p \in FilesAt(walk.head)
    BY <1>1 DEF OwnershipInv, TracesOK
  <2> QED BY <2>1, <1>4, OwnershipAssumption DEF FilesAt, Blobs
<1>6. ASSUME NEW t \in begun
      PROVE  /\ t \in Trace /\ TraceOK(t)
             /\ t.file = p /\ t.origin \in Tree[walk.head][p]
  <2>1. PICK l \in Tree[walk.head][p] :
          t = [file |-> p, origin |-> l, commit |-> walk.head, path |-> p, line |-> l]
    BY <1>2
  <2>2. /\ t.file = p /\ t.origin = l /\ t.commit = walk.head /\ t.path = p /\ t.line = l
        /\ l \in Lines
    BY <2>1, <1>5
  <2>3. t \in Trace
    BY <2>1, <2>2, <1>4 DEF Trace
  <2>4. TraceOK(t)
    BY <2>2, <1>5 DEF TraceOK
  <2> QED BY <2>2, <2>3, <2>4
<1>7. ASSUME NEW l \in Tree[walk.head][p] PROVE \E t \in begun : t.file = p /\ t.origin = l
  <2>1. PICK t : t = [file |-> p, origin |-> l, commit |-> walk.head, path |-> p, line |-> l]
    OBVIOUS
  <2>2. t \in begun
    BY <1>2, <2>1
  <2> QED BY <2>1, <2>2
<1>8. OwnershipTypeOK'
  BY <1>1, <1>3, <1>6 DEF OwnershipInv, OwnershipTypeOK
<1>9. Sound(ownership)' /\ Sound(backup)' /\ KnownOK'
  BY <1>1 DEF OwnershipInv, KnownOK, Sound, AsBlamed, AllOwned, IsWhole
<1>10. SameOK'
  BY <1>1 DEF SameOK
<1>11. TracesOK'
  <2>1. todo' \subseteq FilesAt(walk.head)
    BY <1>1, <1>3 DEF OwnershipInv, TracesOK
  <2>2. \A t \in traces' : TraceOK(t)
    BY <1>1, <1>3, <1>6 DEF OwnershipInv, TracesOK
  <2> QED BY <2>1, <2>2, <1>1 DEF TracesOK, TraceOK, BlameOf
<1>12. OwnersOK'
  BY <1>1 DEF OwnershipInv, OwnersOK, BlameOf
<1>13. NoneLost'
  <2>1. ASSUME NEW q \in FilesAt(walk.head) \ todo', NEW l \in Tree[walk.head][q]
        PROVE  owners[q][l] # NoCommit \/ \E t \in traces' : t.file = q /\ t.origin = l
    <3>1. CASE q = p
      BY <3>1, <1>3, <1>7
    <3>2. CASE q # p
      <4>1. q \in FilesAt(walk.head) \ todo
        BY <3>2, <1>3
      <4> QED BY <4>1, <1>1, <1>3 DEF OwnershipInv, NoneLost
    <3> QED BY <3>1, <3>2
  <2> QED BY <2>1, <1>1 DEF NoneLost
<1> QED BY <1>8, <1>9, <1>10, <1>11, <1>12, <1>13 DEF OwnershipInv

\* A line that goes on is blamed as it was, and one whose owner is found has the one
\* blame names.
LEMMA WalkOn ==
  ASSUME OwnershipInv, walk # NoWalk, NEW t \in traces
  PROVE  /\ Onward(t, StepsTo(t)).file = t.file /\ Onward(t, StepsTo(t)).origin = t.origin
         /\ Found(t, StepsTo(t)) = NoCommit => Onward(t, StepsTo(t)) \in Trace /\ TraceOK(Onward(t, StepsTo(t)))
         /\ Found(t, StepsTo(t)) # NoCommit => Found(t, StepsTo(t)) = BlameOf(walk.head, t.file, t.origin)
         /\ Found(t, StepsTo(t)) \in Commits \cup {NoCommit}
<1>1. t \in Trace /\ TraceOK(t)
  BY DEF OwnershipInv, OwnershipTypeOK, TracesOK
<1>2. /\ t.file \in Paths /\ t.origin \in Lines /\ t.commit \in Commits
      /\ t.path \in Paths /\ t.line \in Lines
  BY <1>1 DEF Trace
<1>3. walk.head \in Commits /\ walk.settings \in Settings /\ walk.known \in {NoOwnership} \cup Kept
  BY WalkingOK DEF OwnershipInv
<1>4. PICK n : n = CameFrom(walk.settings, t.commit, t.path, t.line)
  OBVIOUS
<1>14. StepsTo(t) = n
  BY <1>4 DEF StepsTo
<1>5. /\ n.commit \in Commits /\ n.path \in Paths /\ Tree[n.commit][n.path] # NoFile
      /\ n.line \in Tree[n.commit][n.path] /\ n.line \in Lines
  <2>1. Tree[t.commit][t.path] # NoFile /\ t.line \in Tree[t.commit][t.path]
    BY <1>1 DEF TraceOK
  <2>2. /\ n.commit \in Commits /\ n.path \in Paths /\ Tree[n.commit][n.path] # NoFile
        /\ n.line \in Tree[n.commit][n.path]
    BY <1>2, <1>3, <1>4, <2>1, CameFromType
  <2> QED BY <2>2, OwnershipAssumption DEF Blobs
<1>6. BlameOf(t.commit, t.path, t.line) =
        IF n.commit = t.commit THEN t.commit ELSE BlameOf(n.commit, n.path, n.line)
  <2>1. Tree[t.commit][t.path] # NoFile /\ t.line \in Tree[t.commit][t.path]
    BY <1>1 DEF TraceOK
  <2> QED BY <1>2, <1>3, <1>4, <2>1, BlamedAssumption DEF BlameOf
<1>0. PICK next : next = Onward(t, StepsTo(t))
  OBVIOUS
<1>7. next = [t EXCEPT !.commit = n.commit, !.path = n.path, !.line = n.line]
  BY <1>14, <1>0 DEF Onward
<1>8. /\ next \in Trace /\ next.file = t.file /\ next.origin = t.origin
      /\ next.commit = n.commit /\ next.path = n.path /\ next.line = n.line
  BY <1>1, <1>5, <1>7 DEF Trace
<1>9. CASE n.commit = t.commit
  <2>1. Found(t, StepsTo(t)) = t.commit
    BY <1>14, <1>9 DEF Found
  <2>2. t.commit = BlameOf(walk.head, t.file, t.origin)
    BY <1>1, <1>6, <1>9 DEF TraceOK
  <2> QED BY <2>1, <2>2, <1>2, <1>0, <1>8, OwnershipAssumption
<1>10. CASE n.commit # t.commit
  <2>1. BlameOf(walk.head, t.file, t.origin) = BlameOf(n.commit, n.path, n.line)
    BY <1>1, <1>6, <1>10 DEF TraceOK
  <2>2. CASE KnownAt(n)
    <3>1. Found(t, StepsTo(t)) = walk.known.owners[n.path][n.line]
      BY <1>14, <1>10, <2>2 DEF Found
    <3>2. /\ walk.known \in Kept /\ Sound(walk.known) /\ walk.known # NoOwnership
          /\ walk.known.settings = walk.settings
          /\ n.commit = walk.known.head /\ walk.known.files[n.path] = Tree[n.commit][n.path]
      BY <1>3, <1>8, <2>2 DEF KnownAt, OwnershipInv, KnownOK
    <3>3. walk.known.owners[n.path][n.line] = BlameOf(n.commit, n.path, n.line)
      BY <3>2, <1>5 DEF Sound, AsBlamed, BlameOf
    <3>4. walk.known.owners[n.path][n.line] # NoCommit
      BY <3>2, <1>5 DEF Sound, AllOwned
    <3>5. walk.known.owners[n.path][n.line] \in Commits \cup {NoCommit}
      <4>1. walk.known.owners \in Owners
        BY <3>2 DEF Kept
      <4> QED BY <4>1, <1>5 DEF Owners
    <3> QED BY <3>1, <3>3, <3>4, <3>5, <2>1, <1>8, <1>0
  <2>3. CASE ~ KnownAt(n)
    <3>1. Found(t, StepsTo(t)) = NoCommit
      BY <1>14, <1>10, <2>3 DEF Found
    <3>2. TraceOK(next)
      BY <1>1, <1>5, <1>8, <2>1 DEF TraceOK
    <3> QED BY <3>1, <3>2, <1>8, <1>0
  <2> QED BY <2>2, <2>3
<1> QED BY <1>0, <1>9, <1>10
LEMMA WalkStep ==
  ASSUME OwnershipInv, NEW c \in Commits, Walks(c)
  PROVE  OwnershipInv'
<1>1. /\ walk # NoWalk /\ walk.pc = "walks"
      /\ UNCHANGED <<ownership, backup, walk, todo, counts>>
  <2>1. walk.pc = "walks" /\ UNCHANGED <<ownership, backup, walk, todo, counts>>
    BY Zenon DEF Walks
  <2> QED BY <2>1 DEF NoWalk
<1>2. PICK here : here = {t \in traces : t.commit = c}
  OBVIOUS
<1> DEFINE of(p, l) == {Found(t, StepsTo(t)) : t \in {u \in here : u.file = p /\ u.origin = l}} \ {NoCommit}
<1> DEFINE goes == {<<t, StepsTo(t)>> : t \in here}
           found == {<<g[1], Found(g[1], g[2])>> : g \in goes}
           off(p, l) == {f[2] : f \in {k \in found : k[1].file = p /\ k[1].origin = l}} \ {NoCommit}
<1>15. /\ traces' = (traces \ here) \cup
           {Onward(g[1], g[2]) : g \in {h \in goes : Found(h[1], h[2]) = NoCommit}}
       /\ owners' = [p \in Paths |-> [l \in Lines |->
            IF off(p, l) # {} THEN CHOOSE o \in off(p, l) : TRUE ELSE owners[p][l]]]
  BY <1>2 DEF Walks
<1>16. {Onward(g[1], g[2]) : g \in {h \in goes : Found(h[1], h[2]) = NoCommit}}
         = {Onward(t, StepsTo(t)) : t \in {u \in here : Found(u, StepsTo(u)) = NoCommit}}
  <2>1. ASSUME NEW g \in goes PROVE \E t \in here : g[1] = t /\ g[2] = StepsTo(t)
    OBVIOUS
  <2>2. ASSUME NEW t \in here PROVE <<t, StepsTo(t)>> \in goes
    OBVIOUS
  <2>3. ASSUME NEW x \in {Onward(g[1], g[2]) : g \in {h \in goes : Found(h[1], h[2]) = NoCommit}}
        PROVE  x \in {Onward(t, StepsTo(t)) : t \in {u \in here : Found(u, StepsTo(u)) = NoCommit}}
    <3>1. PICK g \in goes : Found(g[1], g[2]) = NoCommit /\ x = Onward(g[1], g[2])
      BY <2>3
    <3> HIDE DEF goes
    <3> QED BY <3>1, <2>1
  <2>4. ASSUME NEW t \in here, Found(t, StepsTo(t)) = NoCommit
        PROVE  Onward(t, StepsTo(t)) \in
                 {Onward(g[1], g[2]) : g \in {h \in goes : Found(h[1], h[2]) = NoCommit}}
    <3>1. PICK g \in goes : g = <<t, StepsTo(t)>>
      BY <2>2
    <3>2. Found(g[1], g[2]) = NoCommit /\ Onward(t, StepsTo(t)) = Onward(g[1], g[2])
      BY <3>1, <2>4
    <3> QED BY <3>2
  <2> QED BY <2>3, <2>4
<1>17. ASSUME NEW p, NEW l PROVE off(p, l) = of(p, l)
  <2>1. ASSUME NEW f \in found
        PROVE  \E t \in here : f[1] = t /\ f[2] = Found(t, StepsTo(t))
    <3>1. PICK g \in goes : f = <<g[1], Found(g[1], g[2])>>
      OBVIOUS
    <3>2. PICK t \in here : g = <<t, StepsTo(t)>>
      OBVIOUS
    <3>3. g[1] = t /\ g[2] = StepsTo(t)
      BY <3>2
    <3> QED BY <3>1, <3>3
  <2>2. ASSUME NEW t \in here PROVE \E f \in found : f[1] = t /\ f[2] = Found(t, StepsTo(t))
    <3>1. PICK g \in goes : g = <<t, StepsTo(t)>>
      OBVIOUS
    <3>2. <<g[1], Found(g[1], g[2])>> \in found
      OBVIOUS
    <3>3. g[1] = t /\ g[2] = StepsTo(t)
      BY <3>1
    <3> QED BY <3>2, <3>3
  <2> HIDE DEF found, goes
  <2>3. ASSUME NEW x \in off(p, l) PROVE x \in of(p, l)
    BY <2>1
  <2>4. ASSUME NEW x \in of(p, l) PROVE x \in off(p, l)
    BY <2>2
  <2> QED BY <2>3, <2>4
<1> HIDE DEF of, off
<1>18. owners' = [p \in Paths |-> [l \in Lines |->
            IF of(p, l) # {} THEN CHOOSE o \in of(p, l) : TRUE ELSE owners[p][l]]]
  <2> DEFINE pick(S, d) == IF S # {} THEN CHOOSE o \in S : TRUE ELSE d
  <2>1. owners' = [p \in Paths |-> [l \in Lines |-> pick(off(p, l), owners[p][l])]]
    BY <1>15
  <2> HIDE DEF pick
  <2>2. \A p, l : pick(off(p, l), owners[p][l]) = pick(of(p, l), owners[p][l])
    BY <1>17
  <2>3. owners' = [p \in Paths |-> [l \in Lines |-> pick(of(p, l), owners[p][l])]]
    BY <2>1, <2>2
  <2> QED BY <2>3 DEF pick
<1>3. /\ traces' = (traces \ here) \cup {Onward(t, StepsTo(t)) : t \in {u \in here : Found(u, StepsTo(u)) = NoCommit}}
      /\ owners' = [p \in Paths |-> [l \in Lines |->
           IF of(p, l) # {} THEN CHOOSE o \in of(p, l) : TRUE ELSE owners[p][l]]]
  BY <1>15, <1>16, <1>18
<1> HIDE DEF goes, found
<1>4. \A t \in traces :
        /\ Onward(t, StepsTo(t)).file = t.file /\ Onward(t, StepsTo(t)).origin = t.origin
        /\ Found(t, StepsTo(t)) = NoCommit => Onward(t, StepsTo(t)) \in Trace /\ TraceOK(Onward(t, StepsTo(t)))
        /\ Found(t, StepsTo(t)) # NoCommit => Found(t, StepsTo(t)) = BlameOf(walk.head, t.file, t.origin)
        /\ Found(t, StepsTo(t)) \in Commits \cup {NoCommit}
  BY <1>1, WalkOn
<1> HIDE DEF of
<1>5. ASSUME NEW p \in Paths, NEW l \in Lines
      PROVE  /\ owners'[p][l] \in Commits \cup {NoCommit}
             /\ owners[p][l] # NoCommit => owners'[p][l] # NoCommit
             /\ owners'[p][l] # owners[p][l] => owners'[p][l] = BlameOf(walk.head, p, l)
             /\ \A t \in here : t.file = p /\ t.origin = l /\ Found(t, StepsTo(t)) # NoCommit => owners'[p][l] # NoCommit
  <2>1. owners[p][l] \in Commits \cup {NoCommit}
    BY DEF OwnershipInv, OwnershipTypeOK, Owners
  <2>2. CASE of(p, l) # {}
    <3>1. owners'[p][l] \in of(p, l)
      BY <1>3, <2>2
    <3>2. PICK u \in here : u.file = p /\ u.origin = l /\ owners'[p][l] = Found(u, StepsTo(u))
                           /\ Found(u, StepsTo(u)) # NoCommit
      BY <3>1 DEF of
    <3> QED BY <1>2, <1>4, <3>2
  <2>3. CASE of(p, l) = {}
    <3>1. owners'[p][l] = owners[p][l]
      BY <1>3, <2>3
    <3> QED BY <2>1, <2>3, <3>1 DEF of
  <2> QED BY <2>2, <2>3
<1>6. walk.head \in Commits
  BY <1>1, WalkingOK DEF OwnershipInv
<1>7. \A p \in FilesAt(walk.head) : p \in Paths /\ Tree[walk.head][p] \subseteq Lines
  BY <1>6, OwnershipAssumption DEF FilesAt, Blobs
<1>8. OwnershipTypeOK'
  <2>1. traces' \subseteq Trace
    BY <1>2, <1>3, <1>4 DEF OwnershipInv, OwnershipTypeOK
  <2>2. owners' \in Owners
    <3>1. owners' = [p \in Paths |-> [l \in Lines |-> owners'[p][l]]]
      BY <1>3
    <3> QED BY <3>1, <1>5 DEF Owners
  <2> QED BY <2>1, <2>2, <1>1 DEF OwnershipInv, OwnershipTypeOK
<1>9. Sound(ownership)' /\ Sound(backup)' /\ KnownOK'
  BY <1>1 DEF OwnershipInv, KnownOK, Sound, AsBlamed, AllOwned, IsWhole
<1>10. SameOK'
  BY <1>1 DEF SameOK
<1>11. TracesOK'
  <2>1. \A t \in traces' : TraceOK(t)
    BY <1>1, <1>2, <1>3, <1>4 DEF OwnershipInv, TracesOK
  <2> QED BY <2>1, <1>1 DEF OwnershipInv, TracesOK, TraceOK, BlameOf
<1>12. OwnersOK'
  <2>1. ASSUME NEW p \in FilesAt(walk.head), NEW l \in Tree[walk.head][p], owners'[p][l] # NoCommit
        PROVE  owners'[p][l] = BlameOf(walk.head, p, l)
    BY <2>1, <1>1, <1>5, <1>7 DEF OwnershipInv, OwnersOK
  <2> QED BY <2>1, <1>1 DEF OwnersOK, BlameOf
<1>13. NoneLost'
  <2>1. ASSUME NEW p \in FilesAt(walk.head) \ todo, NEW l \in Tree[walk.head][p]
        PROVE  owners'[p][l] # NoCommit \/ \E t \in traces' : t.file = p /\ t.origin = l
    <3>1. CASE owners[p][l] # NoCommit
      BY <3>1, <1>5, <1>7
    <3>2. CASE owners[p][l] = NoCommit
      <4>1. PICK t \in traces : t.file = p /\ t.origin = l
        BY <3>2, <1>1 DEF OwnershipInv, NoneLost
      <4>2. CASE t \notin here
        BY <4>1, <4>2, <1>3
      <4>3. CASE t \in here /\ Found(t, StepsTo(t)) = NoCommit
        <5>1. Onward(t, StepsTo(t)) \in traces' /\ Onward(t, StepsTo(t)).file = p /\ Onward(t, StepsTo(t)).origin = l
          BY <4>1, <4>3, <1>3, <1>4
        <5> QED BY <5>1
      <4>4. CASE t \in here /\ Found(t, StepsTo(t)) # NoCommit
        BY <4>1, <4>4, <1>5, <1>7
      <4> QED BY <4>2, <4>3, <4>4
    <3> QED BY <3>1, <3>2
  <2> QED BY <2>1, <1>1 DEF NoneLost
<1> QED BY <1>8, <1>9, <1>10, <1>11, <1>12, <1>13 DEF OwnershipInv

\* What a count keeps: of the files it finished, what it found.
LEMMA KeepsSound ==
  ASSUME OwnershipInv, walk # NoWalk, walk.pc = "walks", NEW whole \in BOOLEAN, Keeps(whole),
         whole => todo = {} /\ traces = {}
  PROVE  ownership' \in Kept /\ Sound(ownership)'
<1>1. walk.head \in Commits /\ walk.settings \in Settings
  BY WalkingOK DEF OwnershipInv
<1>2. PICK files : files = [p \in Paths |-> IF Finished(p) THEN Tree[walk.head][p] ELSE NoFile]
  OBVIOUS
<1>3. PICK found : found = [p \in Paths |-> IF Finished(p) THEN owners[p] ELSE NoOwners[p]]
  OBVIOUS
<1>4. ownership' = [head |-> walk.head, settings |-> walk.settings, complete |-> whole,
                    files |-> files, owners |-> found]
  BY <1>2, <1>3 DEF Keeps
<1>5. files \in [Paths -> Blobs]
  BY <1>1, <1>2, OwnershipAssumption DEF Blobs
<1>6. found \in Owners
  BY <1>3, NoOwnersType DEF OwnershipInv, OwnershipTypeOK, Owners
<1>7. ownership' \in Kept
  BY <1>1, <1>4, <1>5, <1>6 DEF Kept
<1>8. ownership'.head = walk.head /\ ownership'.settings = walk.settings /\ ownership'.complete = whole
      /\ ownership'.files = files /\ ownership'.owners = found
  BY <1>4
<1>9. ASSUME NEW p \in Paths, files[p] # NoFile
      PROVE  /\ files[p] = Tree[walk.head][p]
             /\ \A l \in files[p] : found[p][l] # NoCommit /\ found[p][l] = BlameOf(walk.head, p, l)
  <2>1. Finished(p) /\ files[p] = Tree[walk.head][p] /\ found[p] = owners[p]
    BY <1>2, <1>3, <1>9
  <2> QED BY <2>1 DEF Finished, OwnershipInv, OwnersOK
<1>10. ASSUME whole, NEW p \in FilesAt(walk.head) PROVE files[p] # NoFile
  <2>1. Finished(p)
    BY <1>10 DEF Finished, OwnershipInv, NoneLost
  <2> QED BY <2>1, <1>2 DEF FilesAt
<1> QED BY <1>7, <1>8, <1>9, <1>10 DEF Sound, AsBlamed, AllOwned, IsWhole, BlameOf

LEMMA NextInv == OwnershipInv /\ [OwnershipNext]_ownershipVars => OwnershipInv'
<1> SUFFICES ASSUME OwnershipInv, [OwnershipNext]_ownershipVars PROVE OwnershipInv'
  OBVIOUS
<1>1. ASSUME NEW h \in Commits, NEW s \in Settings, CountStarts(h, s) PROVE OwnershipInv'
  BY <1>1, StartStep
<1>2. CASE LineSteps
  BY <1>2, LineStep
<1>3. CASE LineEnds
  BY <1>3, LineEndStep
<1>4. ASSUME NEW p \in Paths, WalkTakes(p) PROVE OwnershipInv'
  BY <1>4, TakeStep
<1>5. ASSUME NEW c \in Commits, Walks(c) PROVE OwnershipInv'
  BY <1>5, WalkStep
<1>6. ASSUME NEW whole \in BOOLEAN, walk.pc = "walks", Keeps(whole), Ends, UNCHANGED <<backup, counts>>,
             whole => todo = {} /\ traces = {}
      PROVE  OwnershipInv'
  <2>1. walk # NoWalk
    BY <1>6 DEF NoWalk
  <2>2. ownership' \in Kept /\ Sound(ownership)'
    BY <1>6, <2>1, KeepsSound
  <2>3. OwnershipTypeOK'
    BY <1>6, <2>2, NoOwnersType DEF Ends, OwnershipInv, OwnershipTypeOK
  <2>4. Sound(backup)'
    BY <1>6 DEF OwnershipInv, Sound, AsBlamed, AllOwned, IsWhole
  <2> QED BY <1>6, <2>2, <2>3, <2>4, IdleInv DEF Ends
<1>7. CASE CountFinishes
  BY <1>6, <1>7 DEF CountFinishes
<1>8. CASE CountRunsOut
  BY <1>6, <1>8 DEF CountRunsOut
<1>9. CASE CountFails
  <2>1. OwnershipTypeOK'
    BY <1>9, NoOwnersType DEF CountFails, Ends, OwnershipInv, OwnershipTypeOK
  <2>2. Sound(ownership)' /\ Sound(backup)'
    BY <1>9 DEF CountFails, OwnershipInv, Sound, AsBlamed, AllOwned, IsWhole
  <2> QED BY <1>9, <2>1, <2>2, IdleInv DEF CountFails, Ends
<1>10. CASE SavesState
  <2>1. OwnershipTypeOK'
    BY <1>10 DEF SavesState, OwnershipInv, OwnershipTypeOK
  <2>2. Sound(ownership)' /\ Sound(backup)'
    BY <1>10 DEF SavesState, OwnershipInv, Sound, AsBlamed, AllOwned, IsWhole
  <2> QED BY <1>10, <2>1, <2>2, IdleInv DEF SavesState
<1>11. CASE RestoresState
  <2>1. OwnershipTypeOK'
    BY <1>11 DEF RestoresState, OwnershipInv, OwnershipTypeOK
  <2>2. Sound(ownership)' /\ Sound(backup)'
    BY <1>11 DEF RestoresState, OwnershipInv, Sound, AsBlamed, AllOwned, IsWhole
  <2> QED BY <1>11, <2>1, <2>2, IdleInv DEF RestoresState
<1>12. CASE UNCHANGED ownershipVars
  BY <1>12 DEF ownershipVars, OwnershipInv, OwnershipTypeOK, Sound, AsBlamed, AllOwned, IsWhole,
     KnownOK, SameOK, TracesOK, TraceOK, OwnersOK, NoneLost, BlameOf
<1> QED BY <1>1, <1>2, <1>3, <1>4, <1>5, <1>7, <1>8, <1>9, <1>10, <1>11, <1>12 DEF OwnershipNext

-----------------------------------------------------------------------------
(* A count of the head that is kept loses none of its files *)

\* A file whose owners are kept is still to be carried over, or has all its owners.
HasGoneOn(p) ==
  IF walk.pc = "lines" THEN p \in walk.same
  ELSE p \notin todo /\ \A l \in Tree[walk.head][p] : owners[p][l] # NoCommit

GoesOnFrom ==
  walk # NoWalk /\ ownership # NoOwnership /\ ownership.settings = walk.settings =>
    /\ walk.known = ownership
    /\ ownership.head = walk.head =>
         /\ walk.pc = "lines" => walk.at = walk.head
         /\ \A p \in Paths : ownership.files[p] # NoFile => HasGoneOn(p)

LEMMA GoesOnStarts ==
  ASSUME OwnershipInv, NEW h \in Commits, NEW s \in Settings, CountStarts(h, s)
  PROVE  GoesOnFrom'
<1>1. PICK known : known = Previous(s)
  OBVIOUS
<1>2. PICK same : same = {p \in FilesAt(h) : known.files[p] = Tree[h][p]}
  OBVIOUS
<1>3. /\ walk' = [pc |-> IF known = NoOwnership THEN "walks" ELSE "lines", head |-> h, settings |-> s,
                  known |-> known, at |-> h, same |-> IF known = NoOwnership THEN {} ELSE same]
      /\ ownership' = ownership
  BY <1>1, <1>2 DEF CountStarts
<1>4. SUFFICES ASSUME ownership # NoOwnership, ownership.settings = s
               PROVE  GoesOnFrom'
  BY <1>3 DEF GoesOnFrom
<1>5. known = ownership
  BY <1>1, <1>4 DEF Previous
<1>6. walk'.pc = "lines" /\ walk'.known = ownership /\ walk'.at = h /\ walk'.head = h /\ walk'.same = same
  BY <1>3, <1>4, <1>5
<1>7. ASSUME ownership.head = h, NEW p \in Paths, ownership.files[p] # NoFile PROVE p \in same
  BY <1>2, <1>4, <1>5, <1>7 DEF OwnershipInv, Sound, AsBlamed, FilesAt
<1> QED BY <1>3, <1>6, <1>7 DEF GoesOnFrom, HasGoneOn

LEMMA GoesOnThroughLine ==
  ASSUME OwnershipInv, GoesOnFrom, LineSteps \/ LineEnds
  PROVE  GoesOnFrom'
<1>1. walk # NoWalk /\ walk.pc = "lines" /\ ownership' = ownership
  BY DEF LineSteps, LineEnds, NoWalk
<1>2. walk \in Walking
  BY <1>1 DEF OwnershipInv, OwnershipTypeOK
<1>3. walk'.head = walk.head /\ walk'.settings = walk.settings /\ walk'.known = walk.known
  BY <1>2 DEF LineSteps, LineEnds, Walking
<1>4. SUFFICES ASSUME ownership # NoOwnership, ownership.settings = walk.settings
               PROVE  GoesOnFrom'
  BY <1>1, <1>3 DEF GoesOnFrom
<1>5. walk.known = ownership
  BY <1>1, <1>4 DEF GoesOnFrom
<1>6. SUFFICES ASSUME ownership.head = walk.head
               PROVE  GoesOnFrom'
  BY <1>1, <1>3, <1>5 DEF GoesOnFrom
<1>7. walk.at = walk.known.head /\ \A p \in Paths : ownership.files[p] # NoFile => p \in walk.same
  BY <1>1, <1>4, <1>5, <1>6 DEF GoesOnFrom, HasGoneOn
<1>8. LineEnds /\ walk'.pc = "walks"
  BY <1>2, <1>7 DEF LineSteps, LineEnds, Walking
<1>9. ASSUME NEW p \in Paths, ownership.files[p] # NoFile PROVE HasGoneOn(p)'
  <2>1. p \in walk.same
    BY <1>7, <1>9
  <2>2. p \notin todo' /\ owners'[p] = ownership.owners[p]
    BY <2>1, <1>5, <1>7, <1>8 DEF LineEnds
  <2>3. Sound(ownership)
    BY DEF OwnershipInv
  <2>4. /\ ownership.files[p] = Tree[walk.head][p]
        /\ \A l \in Tree[walk.head][p] : ownership.owners[p][l] # NoCommit
    BY <2>3, <1>4, <1>6, <1>9 DEF Sound, AsBlamed, AllOwned
  <2> QED BY <2>2, <2>4, <1>3, <1>8 DEF HasGoneOn
<1> QED BY <1>1, <1>3, <1>5, <1>8, <1>9 DEF GoesOnFrom

LEMMA GoesOnThroughWalk ==
  ASSUME OwnershipInv, GoesOnFrom, \/ \E p \in Paths : WalkTakes(p)
                                   \/ \E c \in Commits : Walks(c)
  PROVE  GoesOnFrom'
<1>1. /\ walk.pc = "walks" /\ walk # NoWalk /\ UNCHANGED <<ownership, walk>>
      /\ todo' \subseteq todo
  BY DEF WalkTakes, Walks, NoWalk
<1>2. ASSUME NEW p \in Paths, NEW l \in Lines, owners[p][l] # NoCommit PROVE owners'[p][l] # NoCommit
  <2>1. CASE owners' = owners
    BY <1>2, <2>1
  <2>2. CASE \E c \in Commits : Walks(c)
    <3>1. PICK c \in Commits : Walks(c)
      BY <2>2
    <3>2. PICK found :
            found = {<<g[1], Found(g[1], g[2])>> : g \in {<<t, StepsTo(t)>> : t \in {t \in traces : t.commit = c}}}
      OBVIOUS
    <3>3. PICK of : of = {f[2] : f \in {k \in found : k[1].file = p /\ k[1].origin = l}} \ {NoCommit}
      OBVIOUS
    <3>4. owners'[p][l] = IF of # {} THEN CHOOSE o \in of : TRUE ELSE owners[p][l]
      BY <3>1, <3>2, <3>3 DEF Walks
    <3>5. of # {} => (CHOOSE o \in of : TRUE) \in of
      OBVIOUS
    <3>6. NoCommit \notin of
      BY <3>3
    <3> QED BY <1>2, <3>4, <3>5, <3>6
  <2> QED BY <2>1, <2>2 DEF WalkTakes
<1>3. ASSUME ownership # NoOwnership, ownership.head = walk.head,
             NEW p \in Paths, ownership.files[p] # NoFile, HasGoneOn(p)
      PROVE  HasGoneOn(p)'
  <2>1. walk.head \in Commits /\ walk'.pc = "walks" /\ walk'.head = walk.head
    BY <1>1, WalkingOK DEF OwnershipInv
  <2>2. p \notin todo' /\ \A l \in Tree[walk.head][p] : owners[p][l] # NoCommit
    BY <1>1, <1>3 DEF HasGoneOn
  <2>3. Tree[walk.head][p] \subseteq Lines
    <3>1. Tree[walk.head][p] # NoFile
      BY <1>3 DEF OwnershipInv, Sound, AsBlamed
    <3> QED BY <3>1, <2>1, OwnershipAssumption DEF Blobs
  <2>4. \A l \in Tree[walk.head][p] : owners'[p][l] # NoCommit
    BY <2>2, <2>3, <1>2
  <2> QED BY <2>1, <2>2, <2>4 DEF HasGoneOn
<1> QED BY <1>1, <1>3 DEF GoesOnFrom

LEMMA GoesOnIsKept ==
  OwnershipInv /\ GoesOnFrom /\ [OwnershipNext]_ownershipVars => GoesOnFrom'
<1> SUFFICES ASSUME OwnershipInv, GoesOnFrom, [OwnershipNext]_ownershipVars PROVE GoesOnFrom'
  OBVIOUS
<1>1. CASE walk' = NoWalk
  BY <1>1 DEF GoesOnFrom
<1>2. ASSUME NEW h \in Commits, NEW s \in Settings, CountStarts(h, s) PROVE GoesOnFrom'
  BY <1>2, GoesOnStarts
<1>3. CASE LineSteps \/ LineEnds
  BY <1>3, GoesOnThroughLine
<1>4. CASE \/ \E p \in Paths : WalkTakes(p)
           \/ \E c \in Commits : Walks(c)
  BY <1>4, GoesOnThroughWalk
<1>5. CASE CountFinishes \/ CountRunsOut \/ CountFails \/ SavesState \/ RestoresState
  BY <1>1, <1>5 DEF CountFinishes, CountRunsOut, CountFails, SavesState, RestoresState, Ends
<1>6. CASE UNCHANGED ownershipVars
  BY <1>6 DEF ownershipVars, GoesOnFrom, HasGoneOn
<1> QED BY <1>2, <1>3, <1>4, <1>5, <1>6 DEF OwnershipNext

LEMMA GoesOnAlways == OwnershipSpec => [](OwnershipInv /\ GoesOnFrom)
<1>1. OwnershipInit => GoesOnFrom
  BY DEF OwnershipInit, GoesOnFrom
<1> QED BY <1>1, InitInv, NextInv, GoesOnIsKept, PTL DEF OwnershipSpec

-----------------------------------------------------------------------------
(* Theorems *)

\* The inductive invariant holds in every reachable state.
THEOREM OwnershipHolds == OwnershipSpec => []OwnershipInv
BY InitInv, NextInv, PTL DEF OwnershipSpec

\* Every variable of the Ownership of lines keeps its type, for every history
\* (surviving.rs, ownership/mod.rs, ownership/file.rs).
THEOREM OwnershipTypes == OwnershipSpec => []OwnershipTypeOK
<1>1. OwnershipInv => OwnershipTypeOK
  BY DEF OwnershipInv
<1> QED BY <1>1, OwnershipHolds, PTL

\* Whatever counts were made, cut short, carried over, saved and restored, in whatever
\* order, each line kept has the owner blame gives it from scratch.
THEOREM OwnersAreBlamed == OwnershipSpec => []OwnedAsBlamed
<1>1. OwnershipInv => OwnedAsBlamed
  BY DEF OwnershipInv, Sound, OwnedAsBlamed
<1> QED BY <1>1, OwnershipHolds, PTL

\* An Ownership that says it is complete has every file of its head.
THEOREM CompleteHasAll == OwnershipSpec => []CompleteIsWhole
<1>1. OwnershipInv => CompleteIsWhole
  BY DEF OwnershipInv, Sound, IsWhole, CompleteIsWhole
<1> QED BY <1>1, OwnershipHolds, PTL

\* A count that was cut short is gone on from: one of the same head and settings keeps
\* every file that an earlier one had finished.
THEOREM CountsGoOn == OwnershipSpec => GoesOn
<1> DEFINE Keeping == /\ walk # NoWalk /\ ownership # NoOwnership /\ ownership' # ownership
                      /\ ownership'.head = ownership.head /\ ownership'.settings = ownership.settings
                      => \A p \in Paths : ownership.files[p] # NoFile => ownership'.files[p] # NoFile
<1>1. OwnershipInv /\ GoesOnFrom /\ [OwnershipNext]_ownershipVars => [Keeping]_ownershipVars
  <2> SUFFICES ASSUME OwnershipInv, GoesOnFrom, OwnershipNext, walk # NoWalk, ownership # NoOwnership,
                      ownership' # ownership, ownership'.head = ownership.head,
                      ownership'.settings = ownership.settings,
                      NEW p \in Paths, ownership.files[p] # NoFile
               PROVE  ownership'.files[p] # NoFile
    OBVIOUS
  <2>1. CASE CountFinishes \/ CountRunsOut
    <3>1. walk.pc = "walks" /\ \E whole \in BOOLEAN : Keeps(whole)
      BY <2>1 DEF CountFinishes, CountRunsOut
    <3>2. /\ ownership'.head = walk.head /\ ownership'.settings = walk.settings
          /\ ownership'.files[p] = IF Finished(p) THEN Tree[walk.head][p] ELSE NoFile
      BY <3>1 DEF Keeps
    <3>3. HasGoneOn(p)
      BY <3>2 DEF GoesOnFrom
    <3>4. Tree[walk.head][p] # NoFile
      BY <3>2 DEF OwnershipInv, Sound, AsBlamed
    <3>5. Finished(p)
      BY <3>1, <3>3, <3>4 DEF Finished, HasGoneOn, FilesAt
    <3> QED BY <3>2, <3>4, <3>5
  <2>2. CASE ~ (CountFinishes \/ CountRunsOut)
    BY <2>2 DEF OwnershipNext, CountStarts, LineSteps, LineEnds, WalkTakes, Walks, CountFails, SavesState,
       RestoresState
  <2> QED BY <2>1, <2>2
<1> QED BY <1>1, GoesOnAlways, PTL DEF OwnershipSpec, GoesOn

-----------------------------------------------------------------------------
(* What a reviewer's reviews come to *)

WordOrNone == Word \cup {NoWord}

LEMMA StampsAre == Stamps = 0 .. LastSecond /\ LastSecond \in Nat
BY PullsAssumption DEF PullsAssumption, Stamps

LEMMA NoWordIsNoWord == NoWord \notin Word
<1> SUFFICES ASSUME NoWord \in Word PROVE FALSE
  OBVIOUS
<1>1. DOMAIN NoWord = {"reviews"}
  BY DEF NoWord
<1>2. DOMAIN NoWord = {"reviews", "firstAt", "lastAt", "state", "approvedAt"}
  BY DEF Word
<1> QED BY <1>1, <1>2

\* A row stays a row, whichever way a review is told of.
LEMMA FoldIsWord ==
  ASSUME NEW seen \in WordOrNone, NEW state \in Said, NEW at \in Stamps
  PROVE  /\ FirstReview(state, at) \in Word
         /\ foldReview(seen, state, at) \in Word
         /\ seen # NoWord => onConflict(seen, state, at) \in Word
<1>1. 0 \in Stamps /\ Stamps \subseteq Nat
  BY StampsAre
<1>2. FirstReview(state, at) \in Word
  BY <1>1 DEF FirstReview, Word
<1>3. ASSUME seen # NoWord
      PROVE  foldReview(seen, state, at) \in Word /\ onConflict(seen, state, at) \in Word
  <2>1. seen \in Word
    BY <1>3 DEF WordOrNone
  <2>2. /\ seen.reviews + 1 \in Nat /\ seen.state \in Said
        /\ Least(seen.firstAt, at) \in Stamps /\ Greatest(seen.lastAt, at) \in Stamps
        /\ seen.approvedAt \in Stamps /\ Least(seen.approvedAt, at) \in Stamps
    BY <2>1 DEF Word, Least, Greatest
  <2> QED BY <1>3, <2>2 DEF foldReview, onConflict, Word
<1> QED BY <1>2, <1>3 DEF foldReview

Latests == [s \in SUBSET Review |-> Latest(s)]
FoldsIn == [r \in Review |-> [v \in WordOrNone |-> foldReview(v, r.state, r.at)]]

\* A set of reviews has a latest one.
LEMMA LatestIsThere ==
  ASSUME NEW S \in SUBSET Review, S # {}
  PROVE  Latest(S) \in S /\ \A s \in S : s.at <= Latest(S).at
<1>1. \A s \in S : s.at \in 0 .. LastSecond
  BY StampsAre DEF Review
<1>2. PICK ats : ats = {s.at : s \in S}
  OBVIOUS
<1>3. Max(ats) \in ats /\ \A a \in ats : Max(ats) >= a
  <2>1. ats \in SUBSET (0 .. LastSecond) /\ ats # {}
    BY <1>1, <1>2
  <2> QED BY <2>1, StampsAre, LargestIsThere
<1>4. PICK r \in S : r.at = Max(ats)
  BY <1>2, <1>3
<1>5. \A s \in S : s.at <= r.at
  BY <1>1, <1>2, <1>3, <1>4
<1> QED BY <1>5 DEF Latest

\* reviewRow takes the latest last.
LEMMA RowIsFold ==
  ASSUME NEW S \in SUBSET Review, IsFiniteSet(S)
  PROVE  /\ Picks(Latests, S)
         /\ \A r \in S, v \in WordOrNone : FoldsIn[r][v] = foldReview(v, r.state, r.at)
                                           /\ FoldsIn[r][v] \in WordOrNone
         /\ reviewRow(S) = Folded(Latests, FoldsIn, NoWord, S)
<1>1. PICK pick : pick = Latests
  OBVIOUS
<1>2. PICK step : step = FoldsIn
  OBVIOUS
<1>3. /\ \A s \in SUBSET S : pick[s] = Latest(s) /\ Rest(pick, s) = s \ {Latest(s)}
      /\ \A s \in SUBSET S : s # {} => Latest(s) \in s
      /\ Picks(pick, S)
  BY <1>1, LatestIsThere DEF Latests, Rest, Picks
<1>4. \A r \in S, v \in WordOrNone : step[r][v] = foldReview(v, r.state, r.at) /\ step[r][v] \in WordOrNone
  <2> SUFFICES ASSUME NEW r \in S, NEW v \in WordOrNone
               PROVE  step[r][v] = foldReview(v, r.state, r.at) /\ step[r][v] \in WordOrNone
    OBVIOUS
  <2>1. r \in Review /\ r.state \in Said /\ r.at \in Stamps
    BY DEF Review
  <2>2. step[r][v] = foldReview(v, r.state, r.at)
    BY <1>2, <2>1 DEF FoldsIn
  <2> QED BY <2>1, <2>2, FoldIsWord DEF WordOrNone
<1>5. NoWord \in WordOrNone
  BY DEF WordOrNone
<1> DEFINE Iterates(g) == g = [s \in SUBSET S |-> IF s = {} THEN NoWord
                                           ELSE foldReview(g[s \ {Latest(s)}], Latest(s).state, Latest(s).at)]
           iter == CHOOSE g : Iterates(g)
<1>6. reviewRow(S) = iter[S]
  BY DEF reviewRow, MapThenFoldSet
<1>7. Iterates(iter)
  <2>1. PICK g : Folds(pick, step, NoWord, S, g)
    BY <1>3, FoldsExist
  <2>2. \A s \in SUBSET S : g[s] \in WordOrNone
    BY <1>3, <1>4, <1>5, <2>1, FoldsStay
  <2>3. ASSUME NEW s \in SUBSET S
        PROVE  g[s] = IF s = {} THEN NoWord ELSE foldReview(g[s \ {Latest(s)}], Latest(s).state, Latest(s).at)
    <3>1. CASE s = {}
      BY <2>1, <3>1 DEF Folds
    <3>2. CASE s # {}
      <4>1. g[s] = step[Latest(s)][g[s \ {Latest(s)}]]
        BY <2>1, <1>3, <3>2 DEF Folds
      <4> QED BY <4>1, <1>3, <1>4, <2>2, <3>2
    <3> QED BY <3>1, <3>2
  <2>4. g = [s \in SUBSET S |-> g[s]]
    BY <2>1 DEF Folds
  <2>5. Iterates(g)
    BY <2>3, <2>4
  <2> QED BY <2>5
<1>8. PICK g : g = iter
  OBVIOUS
<1>9. Iterates(g)
  BY <1>7, <1>8
<1>10. g[{}] = NoWord
  BY <1>9
<1>11. \A s \in SUBSET S : s # {} /\ g[Rest(pick, s)] \in WordOrNone => g[s] = step[pick[s]][g[Rest(pick, s)]]
  <2> SUFFICES ASSUME NEW s \in SUBSET S, s # {}, g[Rest(pick, s)] \in WordOrNone
               PROVE  g[s] = step[pick[s]][g[Rest(pick, s)]]
    OBVIOUS
  <2>1. g[s] = foldReview(g[s \ {Latest(s)}], Latest(s).state, Latest(s).at)
    BY <1>9
  <2> QED BY <2>1, <1>3, <1>4
<1>12. g[S] = Folded(pick, step, NoWord, S)
  <2> HIDE DEF Iterates, iter
  <2> QED BY <1>3, <1>4, <1>5, <1>10, <1>11, IsTheFold
<1> QED BY <1>1, <1>2, <1>3, <1>4, <1>6, <1>8, <1>12

LEMMA RowSteps ==
  ASSUME NEW S \in SUBSET Review, IsFiniteSet(S)
  PROVE  /\ reviewRow(S) \in WordOrNone
         /\ S = {} => reviewRow(S) = NoWord
         /\ S # {} => /\ Latest(S) \in S /\ reviewRow(S) \in Word
                      /\ reviewRow(S) = foldReview(reviewRow(S \ {Latest(S)}), Latest(S).state, Latest(S).at)
<1>1. PICK pick : pick = Latests
  OBVIOUS
<1>2. PICK step : step = FoldsIn
  OBVIOUS
<1>3. \A T \in SUBSET S :
        /\ Picks(pick, T) /\ IsFiniteSet(T)
        /\ reviewRow(T) = Folded(pick, step, NoWord, T) /\ reviewRow(T) \in WordOrNone
  <2> SUFFICES ASSUME NEW T \in SUBSET S
               PROVE  /\ Picks(pick, T) /\ IsFiniteSet(T)
                      /\ reviewRow(T) = Folded(pick, step, NoWord, T) /\ reviewRow(T) \in WordOrNone
    OBVIOUS
  <2>1. IsFiniteSet(T) /\ T \in SUBSET Review
    BY FS_Subset
  <2>2. /\ Picks(pick, T) /\ reviewRow(T) = Folded(pick, step, NoWord, T)
        /\ \A r \in T, v \in WordOrNone : step[r][v] \in WordOrNone
    BY <1>1, <1>2, <2>1, RowIsFold
  <2>3. NoWord \in WordOrNone
    BY DEF WordOrNone
  <2>4. Folded(pick, step, NoWord, T) \in WordOrNone
    BY <2>1, <2>2, <2>3, FoldedStays
  <2> QED BY <2>1, <2>2, <2>4
<1>4. CASE S = {}
  <2>1. Folded(pick, step, NoWord, S) = NoWord
    BY <1>3, <1>4, FoldedSteps
  <2> QED BY <1>3, <1>4, <2>1
<1>5. CASE S # {}
  <2>1. pick[S] \in S /\ Folded(pick, step, NoWord, S) = step[pick[S]][Folded(pick, step, NoWord, Rest(pick, S))]
    BY <1>3, <1>5, FoldedSteps
  <2>2. pick[S] = Latest(S) /\ Rest(pick, S) = S \ {Latest(S)}
    BY <1>1 DEF Latests, Rest
  <2>3. reviewRow(S) = step[Latest(S)][reviewRow(S \ {Latest(S)})]
    BY <1>3, <2>1, <2>2
  <2>4. \A r \in S, v \in WordOrNone : step[r][v] = foldReview(v, r.state, r.at)
    BY <1>2, RowIsFold
  <2>5. reviewRow(S) = foldReview(reviewRow(S \ {Latest(S)}), Latest(S).state, Latest(S).at)
    BY <1>3, <2>1, <2>2, <2>3, <2>4
  <2>6. foldReview(reviewRow(S \ {Latest(S)}), Latest(S).state, Latest(S).at) \in Word
    <3>1. Latest(S).state \in Said /\ Latest(S).at \in Stamps
      BY <2>1, <2>2 DEF Review
    <3>2. reviewRow(S \ {Latest(S)}) \in WordOrNone
      BY <1>3
    <3> QED BY <3>1, <3>2, FoldIsWord
  <2> QED BY <1>3, <1>5, <2>1, <2>2, <2>5, <2>6
<1> QED BY <1>4, <1>5

\* What a function makes of a finite set is finite.
LEMMA ImageIsFinite ==
  ASSUME NEW S, IsFiniteSet(S), NEW f
  PROVE  IsFiniteSet({f[x] : x \in S})
<1>1. PICK T : T = {f[x] : x \in S}
  OBVIOUS
<1>2. PICK g : g = [x \in S |-> f[x]]
  OBVIOUS
<1>3. g \in Surjection(S, T)
  BY <1>1, <1>2 DEF Surjection
<1> QED BY <1>1, <1>3, FS_Surjection

-----------------------------------------------------------------------------
(* Pages *)

PlaceOf(p) == [at |-> updated[p], pull |-> p]

\* The read has come to the pull request's place, or is past it.
PagedPast(p, place) == place # NoPlace /\ ~ Sooner(place, PlaceOf(p))

LEMMA PlacesAre ==
  ASSUME NEW S \in SUBSET Place
  PROVE  /\ NoPlace \notin S
         /\ \A a \in S : a.at \in Nat /\ a.at <= LastSecond /\ a.pull \in Pulls /\ a.pull \in Nat
         /\ \A a, b \in S : a = b \/ Sooner(a, b) \/ Sooner(b, a)
         /\ \A a, b, c \in S : Sooner(a, b) /\ Sooner(b, c) => Sooner(a, c)
         /\ \A a, b \in S : Sooner(a, b) => ~ Sooner(b, a)
<1>1. NoPlace \notin Place
  <2> SUFFICES ASSUME NoPlace \in Place PROVE FALSE
    OBVIOUS
  <2>1. DOMAIN NoPlace = {"at"}
    BY DEF NoPlace
  <2>2. DOMAIN NoPlace = {"at", "pull"}
    BY DEF Place
  <2> QED BY <2>1, <2>2
<1>2. \A a \in S : a.at \in Nat /\ a.at <= LastSecond /\ a.pull \in Pulls /\ a.pull \in Nat
  <2> SUFFICES ASSUME NEW a \in S PROVE a.at \in 0 .. LastSecond /\ LastSecond \in Nat /\ a.pull \in Pulls /\ a.pull \in Nat
    OBVIOUS
  <2>1. a.at \in Stamps /\ a.pull \in Pulls
    BY DEF Place
  <2> QED BY <2>1, StampsAre, PullsAssumption DEF PullsAssumption
<1>3. \A a, b \in S : a.at = b.at /\ a.pull = b.pull => a = b
  BY DEF Place
<1> QED BY <1>1, <1>2, <1>3 DEF Sooner

\* Of some places one is the last.
LEMMA LastPlaceIsThere ==
  ASSUME NEW S \in SUBSET Place, IsFiniteSet(S), S # {}
  PROVE  LastPlace(S) \in S /\ \A b \in S : b = LastPlace(S) \/ Sooner(b, LastPlace(S))
<1> DEFINE F == {T \in SUBSET S : T # {} /\ ~ \E a \in T : \A b \in T : b = a \/ Sooner(b, a)}
<1>1. SUFFICES ASSUME F # {} PROVE FALSE
  BY DEF LastPlace
<1>2. PICK T \in F : \A U \in F : U \subseteq T => U = T
  <2> HIDE DEF F
  <2>1. F \in SUBSET (SUBSET S)
    BY DEF F
  <2> QED BY <1>1, <2>1, SmallestIsThere
<1>3. PICK x \in T : TRUE
  BY <1>2
<1>4. PICK U : U = T \ {x}
  OBVIOUS
<1>5. T \in SUBSET Place /\ U \in SUBSET S /\ U \notin F /\ T = U \cup {x}
  BY <1>2, <1>3, <1>4
<1>6. ~ \E a \in T : \A b \in T : b = a \/ Sooner(b, a)
  BY <1>2
<1>7. CASE U = {}
  BY <1>5, <1>6, <1>7
<1>8. CASE U # {}
  <2>1. PICK a \in U : \A b \in U : b = a \/ Sooner(b, a)
    BY <1>5, <1>8
  <2>2. x # a /\ x \in T /\ a \in T
    BY <1>3, <1>4, <2>1
  <2>3. CASE Sooner(x, a)
    <3>1. \A b \in T : b = a \/ Sooner(b, a)
      BY <1>5, <2>1, <2>3
    <3> QED BY <3>1, <2>2, <1>6
  <2>4. CASE Sooner(a, x)
    <3>1. \A b \in T : b = x \/ Sooner(b, x)
      BY <1>5, <2>1, <2>2, <2>4, PlacesAre
    <3> QED BY <3>1, <2>2, <1>6
  <2> QED BY <2>2, <2>3, <2>4, <1>5, PlacesAre
<1> QED BY <1>7, <1>8

LEMMA ListedAre ==
  ASSUME updated \in [Pulls -> Stamps], NEW after \in Place \cup {NoPlace}
  PROVE  /\ Listed(after) \in SUBSET Place /\ IsFiniteSet(Listed(after))
         /\ \A a \in Listed(after) : a.at = updated[a.pull] /\ a.at # 0 /\ a = PlaceOf(a.pull)
         /\ \A p \in Pulls : updated[p] # 0 => PlaceOf(p) \in Listed(after) \/ PagedPast(p, after)
<1>1. PICK all : all = {[at |-> updated[p], pull |-> p] : p \in {q \in Pulls : updated[q] # 0}}
  OBVIOUS
<1>2. Listed(after) = {a \in all : after = NoPlace \/ Sooner(after, a)}
  BY <1>1 DEF Listed
<1>3. IsFiniteSet(all)
  <2>1. IsFiniteSet({q \in Pulls : updated[q] # 0})
    BY PullsAssumption, FS_Subset DEF PullsAssumption
  <2>2. PICK f : f = [p \in {q \in Pulls : updated[q] # 0} |-> [at |-> updated[p], pull |-> p]]
    OBVIOUS
  <2>3. all = {f[p] : p \in {q \in Pulls : updated[q] # 0}} /\ DOMAIN f = {q \in Pulls : updated[q] # 0}
    BY <1>1, <2>2
  <2> QED BY <2>1, <2>3, ImageIsFinite
<1>4. \A a \in all : a \in Place /\ a.at = updated[a.pull] /\ a.at # 0 /\ a = PlaceOf(a.pull)
  BY <1>1 DEF Place, PlaceOf
<1>5. \A p \in Pulls : updated[p] # 0 => PlaceOf(p) \in all
  BY <1>1 DEF PlaceOf
<1>6. IsFiniteSet(Listed(after))
  BY <1>2, <1>3, FS_Subset
<1> QED BY <1>2, <1>4, <1>5, <1>6 DEF PagedPast

LEMMA PagesAre ==
  ASSUME NEW list \in SUBSET Place, IsFiniteSet(list), NEW size \in PageSizes, NEW page \in PageOf(list, size)
  PROVE  /\ page \subseteq list /\ page \in SUBSET Place /\ IsFiniteSet(page)
         /\ page = {} => list = {}
         /\ \A a \in page, b \in list \ page : Sooner(a, b)
         /\ page # {} => /\ LastPlace(page) \in page
                         /\ Max({a.at : a \in page}) \in {a.at : a \in page}
<1>1. /\ page \subseteq list /\ Cardinality(page) = Least(size, Cardinality(list))
      /\ \A a \in page, b \in list \ page : Sooner(a, b)
  BY DEF PageOf
<1>2. page \in SUBSET Place /\ IsFiniteSet(page)
  BY <1>1, FS_Subset
<1>3. page = {} => list = {}
  <2>1. Cardinality(list) \in Nat /\ size \in Nat \ {0}
    BY FS_CardinalityType, PullsAssumption DEF PullsAssumption
  <2>2. page = {} => Cardinality(page) = 0
    BY FS_EmptySet
  <2>3. page = {} => Cardinality(list) = 0
    BY <1>1, <2>1, <2>2 DEF Least
  <2> QED BY <2>3, FS_EmptySet
<1>4. ASSUME page # {} PROVE Max({a.at : a \in page}) \in {a.at : a \in page}
  <2>1. PICK ats : ats = {a.at : a \in page}
    OBVIOUS
  <2>2. ats \in SUBSET (0 .. LastSecond) /\ ats # {}
    BY <1>2, <1>4, <2>1, StampsAre DEF Place
  <2>3. Max(ats) \in ats
    BY <2>2, StampsAre, LargestIsThere
  <2> QED BY <2>1, <2>3
<1> QED BY <1>1, <1>2, <1>3, <1>4, LastPlaceIsThere

LEMMA ReviewsAreFinite == IsFiniteSet(Review)
<1>1. IsFiniteSet(Stamps) /\ IsFiniteSet(Said)
  <2>1. IsFiniteSet(Stamps)
    BY StampsAre, FS_Interval
  <2>2. IsFiniteSet({"approved"}) /\ IsFiniteSet({"changes_requested"}) /\ IsFiniteSet({"commented"})
        /\ IsFiniteSet({"dismissed"})
    BY FS_Singleton
  <2>3. Said = (({"approved"} \cup {"changes_requested"}) \cup {"commented"}) \cup {"dismissed"}
    BY DEF Said
  <2> QED BY <2>1, <2>2, <2>3, FS_Union
<1>2. IsFiniteSet(Stamps \X Said)
  BY <1>1, FS_Product
<1>3. PICK f : f = [x \in Stamps \X Said |-> [at |-> x[1], state |-> x[2]]]
  OBVIOUS
<1>4. \A r \in Review : <<r.at, r.state>> \in Stamps \X Said /\ f[<<r.at, r.state>>] = r
  BY <1>3 DEF Review
<1>5. Review \subseteq {f[x] : x \in Stamps \X Said}
  BY <1>4
<1>6. IsFiniteSet({f[x] : x \in Stamps \X Said})
  BY <1>2, ImageIsFinite
<1> QED BY <1>5, <1>6, FS_Subset

-----------------------------------------------------------------------------
(* Types of the reading of pull requests *)

LEMMA ReadIs ==
  ASSUME PullsTypeOK, read # NoRead
  PROVE  /\ read \in Reading /\ read.pc \in {"asks", "keeps", "ends"} /\ read.whole \in BOOLEAN
         /\ read.since \in Stamps /\ read.after \in Place \cup {NoPlace} /\ read.mark \in Stamps
         /\ read.newest \in Stamps /\ read.resumed \in BOOLEAN /\ read.nodes \subseteq Node
         /\ read.more \in BOOLEAN
<1>1. read \in Reading
  BY DEF PullsTypeOK
<1> QED BY <1>1 DEF Reading

LEMMA ReadGoesOn ==
  ASSUME read.pc \in {"asks", "keeps", "ends"}
  PROVE  read # NoRead
BY DEF NoRead

\* What GitHub, a webhook and a page hold of reviews.
LEMMA NodesAre ==
  ASSUME PullsTypeOK, NEW n \in Node
  PROVE  /\ n.pull \in Pulls /\ n.at \in Stamps /\ n.reviews \in SUBSET Review
BY DEF Node

LEMMA GitHubTypes == ASSUME PullsTypeOK, GitHubMoves PROVE PullsTypeOK'
<1>1. PICK p \in Pulls :
        \/ IsChanged(p)
        \/ /\ \E t \in Stamps : Updates(p, t)
           /\ \/ \E state \in Said \ {"dismissed"} : IsReviewed(p, state)
              \/ \E r \in reviews[p] : IsDismissed(p, r)
  BY DEF GitHubMoves
<1>2. PICK t \in Stamps : Updates(p, t)
  BY <1>1 DEF IsChanged
<1>3. /\ latest' = t /\ t \in Stamps \ {0} /\ updated' = [updated EXCEPT ![p] = t]
      /\ UNCHANGED <<rows, words, heard, lateRows, overtaken, marks, read>>
  BY <1>2 DEF Updates, historyVars
<1>4. latest' \in Stamps /\ updated' \in [Pulls -> Stamps] /\ updated'[p] = t
  BY <1>3 DEF PullsTypeOK
<1>6. CASE IsChanged(p)
  <2>1. reviews' = reviews
    BY <1>6 DEF IsChanged
  <2>2. hooks' \subseteq [pull : Pulls, at : Stamps, review : Review \cup {NoReview}]
    BY <1>4, <1>6 DEF IsChanged, PullsTypeOK
  <2> QED BY <1>3, <1>4, <2>1, <2>2 DEF PullsTypeOK
<1>7. ASSUME NEW state \in Said \ {"dismissed"}, IsReviewed(p, state) PROVE PullsTypeOK'
  <2>1. PICK review : review = [at |-> latest', state |-> state]
    OBVIOUS
  <2>2. review \in Review
    BY <2>1, <1>3, <1>4 DEF Review
  <2>3. reviews' = [reviews EXCEPT ![p] = @ \cup {review}]
    BY <1>7, <2>1 DEF IsReviewed
  <2>4. hooks' \subseteq hooks \cup {[pull |-> p, at |-> latest', review |-> review]}
    BY <1>7, <2>1 DEF IsReviewed
  <2>5. reviews' \in [Pulls -> SUBSET Review]
    BY <2>2, <2>3 DEF PullsTypeOK
  <2>6. hooks' \subseteq [pull : Pulls, at : Stamps, review : Review \cup {NoReview}]
    BY <1>4, <2>2, <2>4 DEF PullsTypeOK
  <2> QED BY <1>3, <1>4, <2>5, <2>6 DEF PullsTypeOK
<1>8. ASSUME NEW r \in reviews[p], IsDismissed(p, r) PROVE PullsTypeOK'
  <2>1. PICK dismissed : dismissed = [r EXCEPT !.state = "dismissed"]
    OBVIOUS
  <2>2. dismissed \in Review
    BY <2>1 DEF PullsTypeOK, Review, Said
  <2>3. reviews' = [reviews EXCEPT ![p] = (@ \ {r}) \cup {dismissed}] /\ hooks' = hooks
    BY <1>8, <2>1 DEF IsDismissed
  <2>4. reviews' \in [Pulls -> SUBSET Review]
    BY <2>2, <2>3 DEF PullsTypeOK
  <2> QED BY <1>3, <1>4, <2>3, <2>4 DEF PullsTypeOK
<1> QED BY <1>1, <1>6, <1>7, <1>8

LEMMA HookTypes == ASSUME PullsTypeOK, HookLost \/ keepPull \/ keepReview PROVE PullsTypeOK'
<1>1. CASE HookLost
  BY <1>1 DEF HookLost, PullsTypeOK, githubVars, historyVars
<1>2. CASE keepPull
  <2>1. PICK h \in hooks :
          /\ hooks' = hooks \ {h} /\ rows' = [rows EXCEPT ![h.pull] = h.at]
          /\ lateRows' = (IF h.at = updated[h.pull] THEN lateRows \ {h.pull} ELSE lateRows \cup {h.pull})
          /\ UNCHANGED <<githubVars, words, heard, overtaken, marks, read>>
    BY <1>2 DEF keepPull
  <2>2. h.pull \in Pulls /\ h.at \in Stamps
    BY DEF PullsTypeOK
  <2> QED BY <2>1, <2>2 DEF PullsTypeOK, githubVars
<1>3. CASE keepReview
  <2>1. PICK h \in hooks :
          /\ h.review # NoReview /\ hooks' = hooks \ {h}
          /\ words' = [words EXCEPT ![h.pull] = IF @ = NoWord THEN FirstReview(h.review.state, h.review.at)
                                                ELSE onConflict(@, h.review.state, h.review.at)]
          /\ heard' = [heard EXCEPT ![h.pull] = @ \cup {h.review}]
          /\ overtaken' \subseteq overtaken \cup {h.pull}
          /\ UNCHANGED <<githubVars, rows, lateRows, marks, read>>
    BY <1>3 DEF keepReview
  <2>2. h.pull \in Pulls /\ h.review \in Review /\ h.review.state \in Said /\ h.review.at \in Stamps
    BY <2>1 DEF PullsTypeOK, Review
  <2>3. words' \in [Pulls -> Word \cup {NoWord}]
    <3>1. words[h.pull] \in WordOrNone
      BY <2>2 DEF PullsTypeOK, WordOrNone
    <3>2. PICK word : word = IF words[h.pull] = NoWord THEN FirstReview(h.review.state, h.review.at)
                             ELSE onConflict(words[h.pull], h.review.state, h.review.at)
      OBVIOUS
    <3>3. word \in Word
      BY <2>2, <3>1, <3>2, FoldIsWord
    <3>4. words' = [words EXCEPT ![h.pull] = word]
      BY <2>1, <3>2
    <3> QED BY <3>3, <3>4 DEF PullsTypeOK
  <2>4. heard' \in [Pulls -> SUBSET Review]
    BY <2>1, <2>2 DEF PullsTypeOK
  <2> QED BY <2>1, <2>3, <2>4 DEF PullsTypeOK, githubVars
<1> QED BY <1>1, <1>2, <1>3

LEMMA PageTypes == ASSUME PullsTypeOK, NEW size \in PageSizes, PageComes(size) PROVE PullsTypeOK'
<1>1. read # NoRead /\ read.pc = "asks"
  BY ReadGoesOn DEF PageComes
<1>2. read \in Reading /\ read.after \in Place \cup {NoPlace} /\ read.newest \in Stamps /\ read.mark \in Stamps
  BY <1>1, ReadIs
<1>3. PICK list : list = Listed(read.after)
  OBVIOUS
<1>4. list \in SUBSET Place /\ IsFiniteSet(list)
  BY <1>2, <1>3, ListedAre DEF PullsTypeOK
<1>5. PICK page \in PageOf(list, size) :
        LET fresh == {a \in page : read.since = 0 \/ a.at > read.since}
            newest == IF read.newest # 0 \/ page = {} THEN read.newest ELSE Max({a.at : a \in page})
            more == fresh = page /\ page # list IN
        read' = [read EXCEPT
          !.pc = "keeps", !.newest = newest, !.more = more,
          !.mark = IF read.whole /\ @ = 0 THEN newest ELSE @,
          !.after = IF more THEN LastPlace(page) ELSE @,
          !.resumed = FALSE,
          !.nodes = {[pull |-> a.pull, at |-> a.at, reviews |-> FirstReviews(reviews[a.pull])] : a \in fresh}]
  BY <1>3 DEF PageComes
<1>6. /\ page \in SUBSET Place /\ page \subseteq list /\ (page = {} => list = {})
      /\ page # {} => LastPlace(page) \in page /\ Max({a.at : a \in page}) \in {a.at : a \in page}
  BY <1>4, <1>5, PagesAre
<1>7. PICK fresh : fresh = {a \in page : read.since = 0 \/ a.at > read.since}
  OBVIOUS
<1>8. PICK newest : newest = IF read.newest # 0 \/ page = {} THEN read.newest ELSE Max({a.at : a \in page})
  OBVIOUS
<1>9. PICK more : more = (fresh = page /\ page # list)
  OBVIOUS
<1>10. PICK nodes : nodes = {[pull |-> a.pull, at |-> a.at, reviews |-> FirstReviews(reviews[a.pull])] : a \in fresh}
  OBVIOUS
<1>11. newest \in Stamps
  BY <1>2, <1>6, <1>8 DEF Place
<1>12. more \in BOOLEAN /\ (more => LastPlace(page) \in Place)
  BY <1>6, <1>9
<1>13. nodes \in SUBSET Node
  <2> SUFFICES ASSUME NEW a \in fresh
               PROVE  [pull |-> a.pull, at |-> a.at, reviews |-> FirstReviews(reviews[a.pull])] \in Node
    BY <1>10
  <2>1. a.pull \in Pulls /\ a.at \in Stamps
    BY <1>6, <1>7 DEF Place
  <2>2. FirstReviews(reviews[a.pull]) \in SUBSET Review
    BY <2>1 DEF FirstReviews, PullsTypeOK
  <2> QED BY <2>1, <2>2 DEF Node
<1>14. read' \in Reading
  <2>1. read' = [read EXCEPT
          !.pc = "keeps", !.newest = newest, !.more = more,
          !.mark = IF read.whole /\ @ = 0 THEN newest ELSE @,
          !.after = IF more THEN LastPlace(page) ELSE @, !.resumed = FALSE, !.nodes = nodes]
    BY <1>5, <1>7, <1>8, <1>9, <1>10
  <2> QED BY <2>1, <1>2, <1>11, <1>12, <1>13 DEF Reading
<1> QED BY <1>14 DEF PageComes, PullsTypeOK, githubVars, historyVars

LEMMA KeepTypes == ASSUME PullsTypeOK, PageKept PROVE PullsTypeOK'
<1>1. read # NoRead /\ read.pc = "keeps"
  BY ReadGoesOn DEF PageKept
<1>2. read \in Reading /\ read.nodes \subseteq Node /\ read.more \in BOOLEAN
      /\ read.after \in Place \cup {NoPlace} /\ read.mark \in Stamps
  BY <1>1, ReadIs
<1>3. PICK brought : brought = {n.pull : n \in read.nodes}
  OBVIOUS
<1>4. PICK node : node = [p \in Pulls |-> CHOOSE n \in read.nodes : n.pull = p]
  OBVIOUS
<1>5. ASSUME NEW p \in brought, p \in Pulls
      PROVE  /\ node[p] \in read.nodes /\ node[p].pull = p /\ node[p].at \in Stamps
             /\ node[p].reviews \in SUBSET Review
  <2>1. \E n \in read.nodes : n.pull = p
    BY <1>3
  <2>2. node[p] \in read.nodes /\ node[p].pull = p
    BY <1>4, <1>5, <2>1
  <2> QED BY <2>2, <1>2 DEF Node
<1>6. ASSUME NEW p \in brought, p \in Pulls PROVE reviewRow(node[p].reviews) \in Word \cup {NoWord}
  BY <1>5, <1>6, ReviewsAreFinite, FS_Subset, RowSteps DEF WordOrNone
<1>7. /\ rows' = [p \in Pulls |-> IF p \in brought THEN node[p].at ELSE rows[p]]
      /\ words' = [p \in Pulls |-> IF p \in brought THEN reviewRow(node[p].reviews) ELSE words[p]]
      /\ heard' = [p \in Pulls |-> IF p \in brought THEN node[p].reviews ELSE heard[p]]
  BY <1>3, <1>4 DEF PageKept
<1>8. rows' \in [Pulls -> Stamps] /\ heard' \in [Pulls -> SUBSET Review]
      /\ words' \in [Pulls -> Word \cup {NoWord}]
  BY <1>5, <1>6, <1>7 DEF PullsTypeOK
<1>11. lateRows' \subseteq Pulls /\ overtaken' \subseteq Pulls
  BY DEF PageKept, PullsTypeOK
<1>9. marks' \in [pullsAt : Stamps, cursor : Place \cup {NoPlace}, mark : Stamps, version : 0 .. 1]
  BY <1>2 DEF PageKept, PullsTypeOK
<1>10. read' \in Reading
  BY <1>2 DEF PageKept, Reading
<1> QED BY <1>8, <1>9, <1>10, <1>11 DEF PageKept, PullsTypeOK, githubVars, historyVars

LEMMA ReadTypes ==
  ASSUME PullsTypeOK, ReadStarts \/ PageRestarts \/ PageIsNull \/ ReadEnds \/ ReadFails
  PROVE  PullsTypeOK'
<1>0. /\ 0 \in Stamps /\ marks.pullsAt \in Stamps /\ marks.mark \in Stamps
      /\ marks.cursor \in Place \cup {NoPlace}
  BY StampsAre DEF PullsTypeOK
<1>1. CASE ReadStarts
  <2>1. read' \in Reading
    BY <1>0, <1>1 DEF ReadStarts, Reading
  <2> QED BY <2>1, <1>1 DEF ReadStarts, PullsTypeOK, githubVars, historyVars
<1>2. CASE PageRestarts \/ PageIsNull
  <2>1. read \in Reading
    BY <1>2, ReadGoesOn, ReadIs DEF PageRestarts, PageIsNull
  <2>2. read' \in Reading
    BY <1>0, <1>2, <2>1 DEF PageRestarts, PageIsNull, Reading
  <2> QED BY <2>2, <1>2 DEF PageRestarts, PageIsNull, PullsTypeOK, githubVars, historyVars
<1>3. CASE ReadEnds
  <2>1. read # NoRead
    BY <1>3, ReadGoesOn DEF ReadEnds
  <2>2. read.newest \in Stamps /\ read.mark \in Stamps /\ read.since \in Stamps
    BY <2>1, ReadIs
  <2>3. marks' \in [pullsAt : Stamps, cursor : Place \cup {NoPlace}, mark : Stamps, version : 0 .. 1]
    BY <1>0, <1>3, <2>2 DEF ReadEnds
  <2> QED BY <2>3, <1>3 DEF ReadEnds, PullsTypeOK, githubVars, historyVars
<1>4. CASE ReadFails
  BY <1>4 DEF ReadFails, PullsTypeOK, githubVars, historyVars
<1> QED BY <1>1, <1>2, <1>3, <1>4

LEMMA PullsTypesKept == PullsTypeOK /\ [PullsNext]_pullsVars => PullsTypeOK'
<1>1. PullsTypeOK /\ UNCHANGED pullsVars => PullsTypeOK'
  BY DEF pullsVars, githubVars, historyVars, PullsTypeOK
<1> QED BY <1>1, GitHubTypes, HookTypes, PageTypes, KeepTypes, ReadTypes DEF PullsNext

LEMMA PullsTypesFirst == PullsInit => PullsTypeOK
BY StampsAre DEF PullsInit, PullsTypeOK

\* The state of the reading of pull requests is well typed; in particular what a row says
\* of a reviewer's reviews always is a state and times that GitHub gives (pulls.ts,
\* webhooks.ts).
THEOREM PullsTypes == PullsSpec => []PullsTypeOK
BY PullsTypesFirst, PullsTypesKept, PTL DEF PullsSpec

-----------------------------------------------------------------------------
(* A reviewer's last word *)

\* What a row says of some reviews; `late`: one of them was told of after a later one.
SaysOf(word, S, late) ==
  /\ word \in Word /\ word.reviews >= Cardinality(S)
  /\ IsFirst(word.firstAt, S)
  /\ \E r \in LastOf(S) : word.lastAt = r.at
  /\ IF Approvals(S) = {} THEN word.approvedAt = 0 ELSE IsFirst(word.approvedAt, Approvals(S))
  /\ word.state \in Decisive <=> Decisions(S) # {}
  /\ \/ Decisions(S) = {}
     \/ \E r \in LastOf(Decisions(S)) : word.state = r.state
     \/ late /\ CommentedSince(S)

WordSays(p) == IF heard[p] = {} THEN words[p] = NoWord ELSE SaysOf(words[p], heard[p], p \in overtaken)

WordsInv == PullsTypeOK /\ \A p \in Pulls : WordSays(p)

LEMMA ReviewIs ==
  ASSUME NEW r \in Review
  PROVE  /\ r.at \in Nat /\ r.at # 0 /\ r.at \in Stamps /\ r.state \in Said
         /\ r.state \notin Decisive <=> r.state = "commented"
BY StampsAre DEF Review, Said, Decisive

LEMMA WordIs ==
  ASSUME NEW word \in Word
  PROVE  /\ word.reviews \in Nat /\ word.firstAt \in Nat /\ word.lastAt \in Nat /\ word.approvedAt \in Nat
         /\ word.state \in Said
         /\ word.state \notin Decisive <=> word.state = "commented"
BY StampsAre DEF Word, Said, Decisive

\* A first review.
LEMMA FirstSays ==
  ASSUME NEW r \in Review, NEW late \in BOOLEAN
  PROVE  SaysOf(FirstReview(r.state, r.at), {r}, late)
<1>1. PICK word : word = FirstReview(r.state, r.at)
  OBVIOUS
<1>2. r.at \in Nat /\ r.at # 0 /\ r.at \in Stamps /\ r.state \in Said
  BY ReviewIs
<1>3. word \in Word
  BY <1>1, <1>2, FoldIsWord DEF WordOrNone
<1>4. /\ word.reviews = 1 /\ word.firstAt = r.at /\ word.lastAt = r.at /\ word.state = r.state
      /\ word.approvedAt = IF r.state = "approved" THEN r.at ELSE 0
  BY <1>1 DEF FirstReview
<1>5. Cardinality({r}) = 1
  BY FS_Singleton
<1>6. r \in LastOf({r}) /\ IsFirst(r.at, {r})
  BY <1>2 DEF LastOf, IsFirst
<1>7. IF Approvals({r}) = {} THEN word.approvedAt = 0 ELSE IsFirst(word.approvedAt, Approvals({r}))
  <2>1. CASE r.state = "approved"
    <3>1. Approvals({r}) = {r}
      BY <2>1 DEF Approvals
    <3> QED BY <1>4, <1>6, <2>1, <3>1
  <2>2. CASE r.state # "approved"
    <3>1. Approvals({r}) = {}
      BY <2>2 DEF Approvals
    <3> QED BY <1>4, <2>2, <3>1
  <2> QED BY <2>1, <2>2
<1>8. IF r.state \in Decisive THEN Decisions({r}) = {r} ELSE Decisions({r}) = {}
  BY DEF Decisions
<1>9. word.reviews >= Cardinality({r})
  BY <1>4, <1>5
<1> QED BY <1>1, <1>3, <1>4, <1>6, <1>7, <1>8, <1>9 DEF SaysOf

\* The count, the times and the first approval go on with one more review.
LEMMA TimesGoOn ==
  ASSUME NEW S \in SUBSET Review, S # {}, NEW late, NEW seen, SaysOf(seen, S, late),
         NEW r \in Review, NEW word, word = onConflict(seen, r.state, r.at)
  PROVE  /\ word \in Word /\ word.reviews >= Cardinality(S \cup {r})
         /\ IsFirst(word.firstAt, S \cup {r})
         /\ \E t \in LastOf(S \cup {r}) : word.lastAt = t.at
         /\ IF Approvals(S \cup {r}) = {} THEN word.approvedAt = 0
            ELSE IsFirst(word.approvedAt, Approvals(S \cup {r}))
<1>1. PICK T : T = S \cup {r}
  OBVIOUS
<1>2. /\ r.at \in Nat /\ r.at # 0 /\ r.at \in Stamps /\ r.state \in Said
      /\ \A s \in S : s.at \in Nat /\ s.at # 0
  BY ReviewIs
<1>3. /\ seen \in Word /\ seen.reviews \in Nat /\ seen.firstAt \in Nat /\ seen.lastAt \in Nat /\ seen.approvedAt \in Nat
      /\ seen.reviews >= Cardinality(S)
  BY WordIs DEF SaysOf
<1>4. word \in Word
  BY <1>2, <1>3, NoWordIsNoWord, FoldIsWord DEF WordOrNone
<1>5. /\ word.reviews = seen.reviews + 1
      /\ word.firstAt = Least(seen.firstAt, r.at) /\ word.lastAt = Greatest(seen.lastAt, r.at)
      /\ word.approvedAt = IF r.state # "approved" THEN seen.approvedAt
                           ELSE IF seen.approvedAt = 0 THEN r.at ELSE Least(seen.approvedAt, r.at)
  BY DEF onConflict
<1>6. word.reviews >= Cardinality(T)
  <2>1. IsFiniteSet(S)
    BY ReviewsAreFinite, FS_Subset
  <2>2. Cardinality(S) \in Nat /\ (Cardinality(T) = Cardinality(S) \/ Cardinality(T) = Cardinality(S) + 1)
    BY <1>1, <2>1, FS_AddElement, FS_CardinalityType
  <2> QED BY <1>3, <1>5, <2>2
<1>7. IsFirst(word.firstAt, T)
  <2>1. PICK f \in S : f.at = seen.firstAt
    BY DEF SaysOf, IsFirst
  <2>2. \A s \in S : seen.firstAt <= s.at
    BY DEF SaysOf, IsFirst
  <2>3. \A s \in T : word.firstAt <= s.at
    BY <1>1, <1>2, <1>3, <1>5, <2>2 DEF Least
  <2>4. \E s \in T : s.at = word.firstAt
    BY <1>1, <1>5, <2>1 DEF Least
  <2> QED BY <2>3, <2>4 DEF IsFirst
<1>8. \E t \in LastOf(T) : word.lastAt = t.at
  <2>1. PICK l \in S : l.at = seen.lastAt /\ \A s \in S : s.at <= l.at
    BY DEF SaysOf, LastOf
  <2>2. \A s \in T : s.at <= word.lastAt
    BY <1>1, <1>2, <1>3, <1>5, <2>1 DEF Greatest
  <2>3. PICK t \in T : t.at = word.lastAt
    BY <1>1, <1>5, <2>1 DEF Greatest
  <2>4. t \in LastOf(T)
    BY <2>2, <2>3 DEF LastOf
  <2> QED BY <2>3, <2>4
<1>9. IF Approvals(T) = {} THEN word.approvedAt = 0 ELSE IsFirst(word.approvedAt, Approvals(T))
  <2>1. CASE r.state # "approved"
    <3>1. Approvals(T) = Approvals(S) /\ word.approvedAt = seen.approvedAt
      BY <1>1, <1>5, <2>1 DEF Approvals
    <3> QED BY <3>1 DEF SaysOf
  <2>2. CASE r.state = "approved" /\ Approvals(S) = {}
    <3>1. seen.approvedAt = 0
      BY <2>2 DEF SaysOf
    <3>2. Approvals(T) = {r} /\ word.approvedAt = r.at
      BY <1>1, <1>5, <2>2, <3>1 DEF Approvals
    <3> QED BY <1>2, <3>2 DEF IsFirst
  <2>3. CASE r.state = "approved" /\ Approvals(S) # {}
    <3>1. IsFirst(seen.approvedAt, Approvals(S))
      BY <2>3 DEF SaysOf
    <3>2. PICK a \in Approvals(S) : a.at = seen.approvedAt
      BY <3>1 DEF IsFirst
    <3>3. seen.approvedAt # 0
      BY <1>2, <3>2 DEF Approvals
    <3>4. Approvals(T) = Approvals(S) \cup {r} /\ word.approvedAt = Least(seen.approvedAt, r.at)
      BY <1>1, <1>5, <2>3, <3>3 DEF Approvals
    <3>5. \A s \in Approvals(S) : seen.approvedAt <= s.at /\ s.at \in Nat
      BY <1>2, <3>1 DEF IsFirst, Approvals
    <3>6. \A s \in Approvals(T) : word.approvedAt <= s.at
      BY <1>2, <1>3, <3>4, <3>5 DEF Least
    <3>7. \E s \in Approvals(T) : s.at = word.approvedAt
      BY <3>2, <3>4 DEF Least
    <3> QED BY <3>4, <3>6, <3>7 DEF IsFirst
  <2> QED BY <2>1, <2>2, <2>3
<1> QED BY <1>1, <1>4, <1>6, <1>7, <1>8, <1>9

\* The word goes on too, but where a decision comes after a later comment.
LEMMA WordGoesOn ==
  ASSUME NEW S \in SUBSET Review, S # {}, NEW late \in BOOLEAN, NEW seen, SaysOf(seen, S, late),
         NEW r \in Review
  PROVE  SaysOf(onConflict(seen, r.state, r.at), S \cup {r}, late \/ \E s \in S : r.at < s.at)
<1>1. PICK word : word = onConflict(seen, r.state, r.at)
  OBVIOUS
<1>2. PICK T : T = S \cup {r}
  OBVIOUS
<1>3. PICK now \in BOOLEAN : now <=> (late \/ \E s \in S : r.at < s.at)
  OBVIOUS
<1>4. /\ r.at \in Nat /\ r.state \in Said /\ (r.state \notin Decisive <=> r.state = "commented")
      /\ \A s \in S : s.at \in Nat /\ (s.state \notin Decisive <=> s.state = "commented")
  BY ReviewIs
<1>5. /\ seen.lastAt \in Nat /\ (seen.state \notin Decisive <=> seen.state = "commented")
      /\ seen.state \in Decisive <=> Decisions(S) # {}
      /\ \/ Decisions(S) = {}
         \/ \E t \in LastOf(Decisions(S)) : seen.state = t.state
         \/ late /\ CommentedSince(S)
  <2>1. seen \in Word
    BY DEF SaysOf
  <2> QED BY <2>1, WordIs DEF SaysOf
<1>6. PICK last \in S : last.at = seen.lastAt /\ \A s \in S : s.at <= last.at
  BY DEF SaysOf, LastOf
<1>7. word.state = IF r.state \in Decisive /\ (r.at >= seen.lastAt \/ seen.state = "commented") THEN r.state
                   ELSE seen.state
  BY <1>1 DEF onConflict
<1>8. /\ word.state \in Decisive <=> Decisions(T) # {}
      /\ \/ Decisions(T) = {}
         \/ \E t \in LastOf(Decisions(T)) : word.state = t.state
         \/ now /\ CommentedSince(T)
  <2>1. CASE r.state \notin Decisive
    <3>1. Decisions(T) = Decisions(S) /\ word.state = seen.state
      BY <1>2, <1>7, <2>1 DEF Decisions
    <3>2. CommentedSince(S) => CommentedSince(T)
      BY <1>2, <3>1 DEF CommentedSince
    <3> QED BY <1>3, <1>5, <3>1, <3>2
  <2>2. CASE r.state \in Decisive /\ seen.state = "commented"
    <3>1. Decisions(S) = {} /\ word.state = r.state
      BY <1>5, <1>7, <2>2
    <3>2. Decisions(T) = {r}
      BY <1>2, <2>2, <3>1 DEF Decisions
    <3>3. r \in LastOf(Decisions(T))
      BY <1>4, <3>2 DEF LastOf
    <3> QED BY <2>2, <3>1, <3>2, <3>3
  <2>3. CASE r.state \in Decisive /\ r.at >= seen.lastAt
    <3>1. word.state = r.state /\ Decisions(T) \subseteq T /\ r \in Decisions(T)
      BY <1>2, <1>7, <2>3 DEF Decisions
    <3>2. \A s \in T : s.at <= r.at
      BY <1>2, <1>4, <1>5, <1>6, <2>3
    <3>3. r \in LastOf(Decisions(T))
      BY <3>1, <3>2 DEF LastOf
    <3> QED BY <2>3, <3>1, <3>3
  <2>4. CASE r.state \in Decisive /\ seen.state # "commented" /\ ~ (r.at >= seen.lastAt)
    <3>1. /\ word.state = seen.state /\ word.state \in Decisive /\ Decisions(S) # {}
          /\ Decisions(T) = Decisions(S) \cup {r} /\ r.at < last.at /\ now
      BY <1>2, <1>3, <1>4, <1>5, <1>6, <1>7, <2>4 DEF Decisions
    <3>2. CASE last.state \in Decisive
      <4>1. last \in Decisions(S) /\ \A s \in Decisions(S) : s.at \in Nat /\ s.at <= last.at
        BY <1>4, <1>6, <3>2 DEF Decisions
      <4>2. ~ CommentedSince(S)
        <5> SUFFICES ASSUME NEW c \in S, last.at < c.at PROVE FALSE
          BY <4>1 DEF CommentedSince
        <5> QED BY <1>4, <1>6
      <4>3. PICK t \in LastOf(Decisions(S)) : seen.state = t.state
        BY <1>5, <3>1, <4>2
      <4>4. t \in Decisions(S) /\ last.at <= t.at /\ \A s \in Decisions(S) : s.at <= t.at
        BY <4>1, <4>3 DEF LastOf
      <4>5. r.at <= t.at
        BY <1>4, <1>6, <3>1, <4>1, <4>4
      <4>6. t \in LastOf(Decisions(T))
        BY <3>1, <4>4, <4>5 DEF LastOf
      <4> QED BY <3>1, <4>3, <4>6
    <3>3. CASE last.state \notin Decisive /\ \E s \in Decisions(S) : s.at = last.at
      <4>1. PICK d \in Decisions(S) : d.at = last.at
        BY <3>3
      <4>2. ~ CommentedSince(S)
        <5> SUFFICES ASSUME NEW c \in S, d.at < c.at PROVE FALSE
          BY <4>1 DEF CommentedSince
        <5> QED BY <1>4, <1>6, <4>1
      <4>3. PICK t \in LastOf(Decisions(S)) : seen.state = t.state
        BY <1>5, <3>1, <4>2
      <4>4. t \in Decisions(S) /\ t \in S /\ last.at <= t.at /\ \A s \in Decisions(S) : s.at <= t.at
        BY <4>1, <4>3 DEF LastOf, Decisions
      <4>5. r.at <= t.at
        BY <1>4, <1>6, <3>1, <4>4
      <4>6. t \in LastOf(Decisions(T))
        BY <3>1, <4>4, <4>5 DEF LastOf
      <4> QED BY <3>1, <4>3, <4>6
    <3>4. CASE last.state \notin Decisive /\ \A s \in Decisions(S) : s.at # last.at
      <4>1. last \in T /\ last.state = "commented"
        BY <1>2, <1>4, <3>4
      <4>2. \A s \in Decisions(T) : s.at < last.at
        <5>1. \A s \in Decisions(S) : s \in S
          BY DEF Decisions
        <5> QED BY <1>4, <1>6, <3>1, <3>4, <5>1
      <4>3. CommentedSince(T)
        BY <4>1, <4>2 DEF CommentedSince
      <4> QED BY <3>1, <4>3
    <3> QED BY <3>2, <3>3, <3>4
  <2> QED BY <2>1, <2>2, <2>3, <2>4
<1>9. /\ word \in Word /\ word.reviews >= Cardinality(T) /\ IsFirst(word.firstAt, T)
      /\ \E t \in LastOf(T) : word.lastAt = t.at
      /\ IF Approvals(T) = {} THEN word.approvedAt = 0 ELSE IsFirst(word.approvedAt, Approvals(T))
  <2>1. SaysOf(seen, S, late) /\ S # {} /\ word = onConflict(seen, r.state, r.at)
    BY <1>1
  <2>2. /\ word \in Word /\ word.reviews >= Cardinality(S \cup {r}) /\ IsFirst(word.firstAt, S \cup {r})
        /\ \E t \in LastOf(S \cup {r}) : word.lastAt = t.at
        /\ IF Approvals(S \cup {r}) = {} THEN word.approvedAt = 0
           ELSE IsFirst(word.approvedAt, Approvals(S \cup {r}))
    BY <2>1, TimesGoOn
  <2> QED BY <1>2, <2>2
<1>10. SaysOf(word, T, now)
  BY <1>8, <1>9 DEF SaysOf
<1> QED BY <1>1, <1>2, <1>3, <1>10

\* A page's row: its reviews told of in the order submitted.
LEMMA RowSays ==
  ASSUME NEW S \in SUBSET Review, S # {}
  PROVE  SaysOf(reviewRow(S), S, FALSE)
<1> DEFINE F == {T \in SUBSET S : T # {} /\ ~ SaysOf(reviewRow(T), T, FALSE)}
<1>0. IsFiniteSet(S)
  BY ReviewsAreFinite, FS_Subset
<1>1. SUFFICES ASSUME F # {} PROVE FALSE
  OBVIOUS
<1>2. PICK T \in F : \A U \in F : U \subseteq T => U = T
  <2> HIDE DEF F
  <2>1. F \in SUBSET (SUBSET S)
    BY DEF F
  <2> QED BY <1>0, <1>1, <2>1, SmallestIsThere
<1>3. /\ T \in SUBSET Review /\ IsFiniteSet(T) /\ T # {} /\ ~ SaysOf(reviewRow(T), T, FALSE)
  BY <1>0, <1>2, FS_Subset
<1>4. PICK r : r = Latest(T)
  OBVIOUS
<1>5. PICK U : U = T \ {r}
  OBVIOUS
<1>6. /\ r \in T /\ r \in Review /\ \A s \in T : s.at <= r.at
      /\ reviewRow(T) = foldReview(reviewRow(U), r.state, r.at)
  BY <1>3, <1>4, <1>5, RowSteps, LatestIsThere
<1>7. /\ U \in SUBSET Review /\ U \in SUBSET S /\ IsFiniteSet(U) /\ U \subseteq T /\ U # T /\ T = U \cup {r}
  BY <1>2, <1>3, <1>5, <1>6, FS_Subset
<1>8. /\ r.at \in Nat /\ r.state \in Said /\ (r.state \notin Decisive <=> r.state = "commented")
      /\ \A s \in T : s.at \in Nat
  BY <1>3, <1>6, ReviewIs
<1>9. CASE U = {}
  <2>1. reviewRow(T) = FirstReview(r.state, r.at) /\ T = {r}
    BY <1>6, <1>7, <1>9, RowSteps DEF foldReview
  <2> QED BY <1>3, <1>6, <2>1, FirstSays
<1>10. CASE U # {}
  <2>1. PICK seen : seen = reviewRow(U)
    OBVIOUS
  <2>2. SaysOf(seen, U, FALSE)
    BY <1>2, <1>7, <1>10, <2>1
  <2>3. seen \in Word /\ seen # NoWord /\ seen.lastAt \in Nat /\ (seen.state \notin Decisive <=> seen.state = "commented")
    BY <2>2, NoWordIsNoWord, WordIs DEF SaysOf
  <2>4. seen.lastAt <= r.at
    BY <1>6, <1>7, <2>2 DEF SaysOf, LastOf
  <2>5. r.at >= seen.lastAt
    BY <1>8, <2>3, <2>4
  <2>6. foldReview(seen, r.state, r.at) = onConflict(seen, r.state, r.at)
    BY <1>8, <2>3, <2>5 DEF foldReview, onConflict
  <2>7. \A s \in U : ~ (r.at < s.at)
    BY <1>6, <1>7, <1>8
  <2>8. SaysOf(onConflict(seen, r.state, r.at), U \cup {r}, FALSE \/ \E s \in U : r.at < s.at)
    BY <1>6, <1>7, <1>10, <2>2, WordGoesOn
  <2>9. (FALSE \/ \E s \in U : r.at < s.at) = FALSE
    BY <2>7
  <2>10. SaysOf(onConflict(seen, r.state, r.at), U \cup {r}, FALSE)
    BY <2>8, <2>9
  <2> QED BY <1>3, <1>6, <1>7, <2>1, <2>6, <2>10
<1> QED BY <1>9, <1>10

\* A word said of reviews none of which is late may be called late.
LEMMA LateSays ==
  ASSUME NEW word, NEW S, NEW late, SaysOf(word, S, FALSE)
  PROVE  SaysOf(word, S, late)
BY DEF SaysOf

LEMMA HookKeepsWords ==
  ASSUME WordsInv, keepReview
  PROVE  WordsInv'
<1>1. PullsTypeOK' /\ PullsTypeOK
  BY HookTypes DEF WordsInv
<1>2. PICK h \in hooks :
        /\ h.review # NoReview
        /\ words' = [words EXCEPT ![h.pull] = IF @ = NoWord THEN FirstReview(h.review.state, h.review.at)
                                              ELSE onConflict(@, h.review.state, h.review.at)]
        /\ heard' = [heard EXCEPT ![h.pull] = @ \cup {h.review}]
        /\ overtaken' = IF \E r \in heard[h.pull] : h.review.at < r.at THEN overtaken \cup {h.pull} ELSE overtaken
  BY DEF keepReview
<1>3. PICK p : p = h.pull
  OBVIOUS
<1>0. PICK r : r = h.review
  OBVIOUS
<1>4. p \in Pulls /\ r \in Review /\ heard[p] \in SUBSET Review
  BY <1>1, <1>0, <1>2, <1>3 DEF PullsTypeOK
<1>5. ASSUME NEW q \in Pulls, q # p PROVE WordSays(q)'
  <2>1. words'[q] = words[q] /\ heard'[q] = heard[q] /\ (q \in overtaken' <=> q \in overtaken)
    BY <1>1, <1>0, <1>2, <1>3, <1>5 DEF PullsTypeOK
  <2>2. PICK late \in BOOLEAN : late <=> q \in overtaken
    OBVIOUS
  <2>3. (q \in overtaken) = late /\ (q \in overtaken') = late
    BY <2>1, <2>2
  <2> QED BY <2>1, <2>3 DEF WordsInv, WordSays
<1>6. WordSays(p)'
  <2>1. PICK late \in BOOLEAN : late <=> p \in overtaken
    OBVIOUS
  <2>2. PICK word : word = IF words[p] = NoWord THEN FirstReview(r.state, r.at)
                           ELSE onConflict(words[p], r.state, r.at)
    OBVIOUS
  <2>3. words'[p] = word /\ heard'[p] = heard[p] \cup {r} /\ heard'[p] # {}
    BY <1>1, <1>0, <1>2, <1>3, <1>4, <2>2 DEF PullsTypeOK
  <2>4. (p \in overtaken') = (late \/ \E s \in heard[p] : r.at < s.at)
    BY <1>0, <1>2, <1>3, <2>1
  <2>5. CASE heard[p] = {}
    <3>1. words[p] = NoWord
      BY <1>4, <2>5 DEF WordsInv, WordSays
    <3>2. word = FirstReview(r.state, r.at) /\ heard'[p] = {r}
      BY <2>2, <2>3, <2>5, <3>1
    <3>3. (p \in overtaken') \in BOOLEAN
      OBVIOUS
    <3>4. SaysOf(word, {r}, p \in overtaken')
      BY <1>4, <3>2, <3>3, FirstSays
    <3> QED BY <2>3, <3>2, <3>4 DEF WordSays
  <2>6. CASE heard[p] # {}
    <3>1. SaysOf(words[p], heard[p], late)
      <4>1. (p \in overtaken) = late
        BY <2>1
      <4> QED BY <1>4, <2>6, <4>1 DEF WordsInv, WordSays
    <3>2. words[p] \in Word /\ words[p] # NoWord
      BY <3>1, NoWordIsNoWord DEF SaysOf
    <3>3. word = onConflict(words[p], r.state, r.at)
      BY <2>2, <3>2
    <3>4. SaysOf(onConflict(words[p], r.state, r.at), heard[p] \cup {r}, late \/ \E s \in heard[p] : r.at < s.at)
      BY <1>4, <2>6, <3>1, WordGoesOn
    <3> QED BY <2>3, <2>4, <3>3, <3>4 DEF WordSays
  <2> QED BY <2>5, <2>6
<1> QED BY <1>1, <1>5, <1>6 DEF WordsInv

LEMMA PageKeepsWords ==
  ASSUME WordsInv, PageKept
  PROVE  WordsInv'
<1>1. PullsTypeOK' /\ PullsTypeOK /\ read # NoRead
  BY KeepTypes, ReadGoesOn DEF WordsInv, PageKept
<1>2. PICK brought : brought = {n.pull : n \in read.nodes}
  OBVIOUS
<1>3. PICK node : node = [p \in Pulls |-> CHOOSE n \in read.nodes : n.pull = p]
  OBVIOUS
<1>4. /\ words' = [p \in Pulls |-> IF p \in brought THEN reviewRow(node[p].reviews) ELSE words[p]]
      /\ heard' = [p \in Pulls |-> IF p \in brought THEN node[p].reviews ELSE heard[p]]
      /\ overtaken' = overtaken \ brought
  BY <1>2, <1>3 DEF PageKept
<1> SUFFICES ASSUME NEW p \in Pulls PROVE WordSays(p)'
  BY <1>1 DEF WordsInv
<1>6. CASE p \in brought
  <2>1. \E n \in read.nodes : n.pull = p
    BY <1>2, <1>6
  <2>2. node[p] \in read.nodes
    BY <1>3, <2>1
  <2>3. node[p].reviews \in SUBSET Review
    BY <1>1, <2>2, ReadIs, NodesAre
  <2>4. words'[p] = reviewRow(node[p].reviews) /\ heard'[p] = node[p].reviews
    BY <1>4, <1>6
  <2>5. CASE node[p].reviews = {}
    <3>1. reviewRow(node[p].reviews) = NoWord
      BY <2>3, <2>5, ReviewsAreFinite, FS_Subset, RowSteps
    <3> QED BY <2>4, <2>5, <3>1 DEF WordSays
  <2>6. CASE node[p].reviews # {}
    <3>1. SaysOf(reviewRow(node[p].reviews), node[p].reviews, FALSE)
      BY <2>3, <2>6, RowSays
    <3>2. SaysOf(reviewRow(node[p].reviews), node[p].reviews, p \in overtaken')
      BY <3>1, LateSays
    <3> QED BY <2>4, <2>6, <3>2 DEF WordSays
  <2> QED BY <2>5, <2>6
<1>7. CASE p \notin brought
  <2>1. words'[p] = words[p] /\ heard'[p] = heard[p] /\ (p \in overtaken') = (p \in overtaken)
    BY <1>4, <1>7
  <2> QED BY <2>1 DEF WordsInv, WordSays
<1> QED BY <1>6, <1>7

LEMMA WordsKept == WordsInv /\ [PullsNext]_pullsVars => WordsInv'
<1> SUFFICES ASSUME WordsInv, [PullsNext]_pullsVars PROVE WordsInv'
  OBVIOUS
<1>1. CASE UNCHANGED <<words, heard, overtaken>>
  <2>1. PullsTypeOK'
    BY PullsTypesKept DEF WordsInv
  <2> QED BY <1>1, <2>1 DEF WordsInv, WordSays
<1>2. CASE UNCHANGED pullsVars
  BY <1>1, <1>2 DEF pullsVars, historyVars
<1>3. CASE GitHubMoves
  <2>1. \E p \in Pulls : \E t \in Stamps : Updates(p, t)
    BY <1>3 DEF GitHubMoves, IsChanged
  <2> QED BY <1>1, <2>1 DEF Updates, historyVars
<1>4. CASE HookLost \/ keepPull
  BY <1>1, <1>4 DEF HookLost, keepPull, historyVars
<1>5. CASE ReadStarts \/ PageRestarts \/ PageIsNull \/ ReadEnds \/ ReadFails
  BY <1>1, <1>5 DEF ReadStarts, PageRestarts, PageIsNull, ReadEnds, ReadFails, historyVars
<1>6. ASSUME NEW size \in PageSizes, PageComes(size) PROVE WordsInv'
  BY <1>1, <1>6 DEF PageComes, historyVars
<1> QED BY <1>2, <1>3, <1>4, <1>5, <1>6, HookKeepsWords, PageKeepsWords DEF PullsNext

LEMMA WordsFirst == PullsInit => WordsInv
BY PullsTypesFirst DEF PullsInit, WordsInv, WordSays

LEMMA WordsAlways == PullsSpec => []WordsInv
BY WordsFirst, WordsKept, PTL DEF PullsSpec

\* However reviews came, by webhook in any order, by a read or both, the row says what they
\* come to (foldReview, keepReview's ON CONFLICT): their number at least, the first and the
\* last, the first approval, and the last decision, unless a comment later than all the
\* decisions was told of before one of them.
THEOREM LastWordStands == PullsSpec => []LastWord
<1>1. WordsInv => LastWord
  BY DEF WordsInv, WordSays, SaysOf, LastWord, Stands
<1> QED BY <1>1, WordsAlways, PTL

-----------------------------------------------------------------------------
(* What is not asked for again *)

\* The reviews of a pull request that are read are all it has.
FewReviews == \A p \in Pulls : Cardinality(reviews[p]) <= ReviewsRead

UpToDate(p) == (rows[p] = updated[p] \/ p \in lateRows) /\ reviews[p] \subseteq heard[p]

\* What the next read would not ask for, or the rest of one cut off.
SettledPull(p) ==
  /\ updated[p] # 0
  /\ updated[p] <= marks.pullsAt \/ (updated[p] <= marks.mark /\ PagedPast(p, marks.cursor))

\* Where the next read would stop, if this one ended here.
Target == IF read.whole THEN read.mark ELSE read.newest

\* What the read under way answers for.
Due(p) ==
  /\ updated[p] # 0 /\ updated[p] <= Target
  /\ IF read.pc = "asks" THEN PagedPast(p, read.after)
     ELSE read.pc = "keeps" /\ read.more => PagedPast(p, read.after)

Held(p) == UpToDate(p) \/ \E n \in read.nodes : n.pull = p /\ n.at = updated[p]

\* A page not yet kept is what GitHub has, or of a pull request that a later read asks for.
NodeStands(n) ==
  /\ n.at <= latest
  /\ IF n.at = updated[n.pull] THEN reviews[n.pull] \subseteq n.reviews
     ELSE /\ updated[n.pull] > Target /\ updated[n.pull] > marks.pullsAt
          /\ updated[n.pull] > marks.mark

\* Where a read is, and what it stops at.
ReadGoes ==
  /\ read.since <= marks.pullsAt /\ Target <= latest
  /\ read.pc = "asks" => IF read.after = NoPlace THEN read.mark = 0 /\ read.newest = 0 ELSE Target # 0
  /\ read.pc = "keeps" /\ read.more => read.after # NoPlace /\ Target # 0
  /\ read.resumed => read.newest = 0
  /\ read.pc # "keeps" => read.nodes = {}

ReadAnswers ==
  /\ ReadGoes
  /\ \A p \in Pulls : Due(p) => Held(p)
  /\ \A n \in read.nodes : NodeStands(n)

Bounded ==
  /\ \A p \in Pulls : updated[p] <= latest
  /\ marks.pullsAt <= latest /\ marks.mark <= latest
  /\ marks.cursor # NoPlace => marks.mark # 0

KeptInv ==
  /\ PullsTypeOK /\ Bounded
  /\ \A p \in Pulls : SettledPull(p) => UpToDate(p)
  /\ read # NoRead => ReadAnswers

LEMMA SecondsAre ==
  ASSUME PullsTypeOK
  PROVE  /\ latest \in Nat /\ marks.pullsAt \in Nat /\ marks.mark \in Nat
         /\ \A p \in Pulls : updated[p] \in Nat
         /\ read # NoRead => /\ read.since \in Nat /\ read.mark \in Nat /\ read.newest \in Nat
                             /\ Target \in Nat /\ \A n \in read.nodes : n.at \in Nat /\ n.pull \in Pulls
<1>1. Stamps \subseteq Nat
  BY StampsAre
<1>2. /\ latest \in Nat /\ marks.pullsAt \in Nat /\ marks.mark \in Nat
      /\ \A p \in Pulls : updated[p] \in Nat
  BY <1>1 DEF PullsTypeOK
<1>3. ASSUME read # NoRead
      PROVE  /\ read.since \in Nat /\ read.mark \in Nat /\ read.newest \in Nat /\ Target \in Nat
             /\ \A n \in read.nodes : n.at \in Nat /\ n.pull \in Pulls
  <2>1. read.since \in Nat /\ read.mark \in Nat /\ read.newest \in Nat /\ read.nodes \subseteq Node
    BY <1>1, <1>3, ReadIs
  <2> QED BY <1>1, <2>1 DEF Target, Node
<1> QED BY <1>2, <1>3

\* An update is later than all that a read or its marks stand for.
LEMMA GitHubKeepsKept ==
  ASSUME ~SameSecond, KeptInv, GitHubMoves
  PROVE  KeptInv'
<1>1. PICK p \in Pulls :
        \/ IsChanged(p)
        \/ /\ \E t \in Stamps : Updates(p, t)
           /\ \/ \E state \in Said \ {"dismissed"} : IsReviewed(p, state)
              \/ \E r \in reviews[p] : IsDismissed(p, r)
  BY DEF GitHubMoves
<1>2. PICK t \in Stamps : Updates(p, t)
  BY <1>1 DEF IsChanged
<1>3. /\ latest' = t /\ t # 0 /\ t = latest + 1
      /\ updated' = [updated EXCEPT ![p] = t] /\ UNCHANGED <<rows, heard, lateRows, marks, read>>
  BY <1>2 DEF Updates, historyVars
<1>4. PullsTypeOK' /\ PullsTypeOK
  BY GitHubTypes DEF KeptInv
<1>5. /\ updated'[p] = t /\ \A q \in Pulls : q # p => updated'[q] = updated[q] /\ reviews'[q] = reviews[q]
      /\ updated \in [Pulls -> Stamps] /\ t \in Nat /\ latest \in Nat
  <2>1. updated \in [Pulls -> Stamps] /\ reviews \in [Pulls -> SUBSET Review] /\ latest \in Nat
    BY <1>4, SecondsAre DEF PullsTypeOK
  <2>2. \A q \in Pulls : q # p => reviews'[q] = reviews[q]
    BY <1>1, <2>1 DEF IsChanged, IsReviewed, IsDismissed
  <2> QED BY <1>3, <2>1, <2>2
<1>7. Bounded'
  <2>1. \A q \in Pulls : updated'[q] <= latest'
    BY <1>3, <1>4, <1>5, SecondsAre DEF KeptInv, Bounded
  <2> QED BY <1>3, <1>4, <1>5, <2>1, SecondsAre DEF KeptInv, Bounded
<1>8. \A q \in Pulls : q # p => (UpToDate(q) => UpToDate(q)')
  BY <1>3, <1>5 DEF UpToDate
<1>9. \A q \in Pulls : \A place : q # p /\ PagedPast(q, place)' => PagedPast(q, place)
  BY <1>5 DEF PagedPast, PlaceOf, Sooner
<1>10. \A q \in Pulls : SettledPull(q)' => q # p /\ SettledPull(q)
  <2>1. marks.pullsAt < t /\ marks.mark < t
    BY <1>3, <1>4, <1>5, SecondsAre DEF KeptInv, Bounded
  <2>2. ASSUME SettledPull(p)' PROVE FALSE
    BY <1>3, <1>4, <1>5, <2>1, <2>2, SecondsAre DEF SettledPull
  <2> QED BY <1>3, <1>5, <1>9, <2>2 DEF SettledPull
<1>11. ASSUME read' # NoRead PROVE ReadAnswers'
  <2>1. read # NoRead /\ ReadAnswers /\ Target' = Target /\ Target < t
    BY <1>3, <1>4, <1>5, <1>11, SecondsAre DEF KeptInv, ReadAnswers, ReadGoes, Target
  <2>2. ReadGoes'
    BY <1>3, <1>4, <1>5, <2>1, SecondsAre DEF ReadAnswers, ReadGoes
  <2>3. ASSUME NEW q \in Pulls, Due(q)' PROVE Held(q)'
    <3>1. q # p
      BY <1>3, <1>4, <1>5, <2>1, <2>3, SecondsAre DEF Due
    <3>2. Due(q)
      BY <1>3, <1>5, <1>9, <2>1, <2>3, <3>1 DEF Due
    <3> QED BY <1>3, <1>5, <1>8, <2>1, <3>1, <3>2 DEF ReadAnswers, Held
  <2>4. ASSUME NEW n \in read'.nodes PROVE NodeStands(n)'
    <3>1. n \in read.nodes /\ n.pull \in Pulls /\ n.at \in Nat /\ NodeStands(n)
      BY <1>3, <1>4, <2>1, <2>4, SecondsAre DEF ReadAnswers
    <3>2. CASE n.pull = p
      <4>1. marks.pullsAt < t /\ marks.mark < t /\ n.at < t
        BY <1>3, <1>4, <1>5, <3>1, SecondsAre DEF KeptInv, Bounded, NodeStands
      <4> QED BY <1>3, <1>5, <2>1, <3>1, <3>2, <4>1 DEF NodeStands
    <3>3. CASE n.pull # p
      BY <1>3, <1>5, <2>1, <3>1, <3>3 DEF NodeStands
    <3> QED BY <3>2, <3>3
  <2> QED BY <2>2, <2>3, <2>4 DEF ReadAnswers
<1> QED BY <1>4, <1>7, <1>8, <1>10, <1>11 DEF KeptInv

\* A webhook sets a row to the latest there is, or it is counted late, or is lost.
LEMMA HookKeepsKept ==
  ASSUME KeptInv, HookLost \/ keepPull \/ keepReview
  PROVE  KeptInv'
<1>1. PullsTypeOK' /\ PullsTypeOK
  BY HookTypes DEF KeptInv
<1>2. /\ UNCHANGED <<latest, updated, reviews, marks, read>>
  BY DEF HookLost, keepPull, keepReview, githubVars
<1>3. \A p \in Pulls : UpToDate(p) => UpToDate(p)'
  <2>1. CASE HookLost
    BY <2>1, <1>2 DEF HookLost, UpToDate, historyVars
  <2>2. CASE keepPull
    <3>1. PICK h \in hooks :
            /\ rows' = [rows EXCEPT ![h.pull] = h.at] /\ heard' = heard
            /\ lateRows' = IF h.at = updated[h.pull] THEN lateRows \ {h.pull} ELSE lateRows \cup {h.pull}
      BY <2>2 DEF keepPull
    <3> QED BY <1>1, <1>2, <3>1 DEF UpToDate, PullsTypeOK
  <2>3. CASE keepReview
    <3>1. PICK h \in hooks : heard' = [heard EXCEPT ![h.pull] = @ \cup {h.review}] /\ rows' = rows /\ lateRows' = lateRows
      BY <2>3 DEF keepReview
    <3> QED BY <1>1, <1>2, <3>1 DEF UpToDate, PullsTypeOK
  <2> QED BY <2>1, <2>2, <2>3
<1>4. Bounded'
  BY <1>2 DEF KeptInv, Bounded
<1>5. \A p \in Pulls : SettledPull(p)' => SettledPull(p)
  BY <1>2 DEF SettledPull, PagedPast, PlaceOf
<1>6. ASSUME read' # NoRead PROVE ReadAnswers'
  <2>1. ReadAnswers /\ Target' = Target
    BY <1>2, <1>6 DEF KeptInv, Target
  <2>2. ReadGoes'
    BY <1>2, <2>1 DEF ReadAnswers, ReadGoes
  <2>3. \A p \in Pulls : Due(p)' => Held(p)'
    BY <1>2, <1>3, <2>1 DEF ReadAnswers, Due, Held, PagedPast, PlaceOf
  <2>4. \A n \in read'.nodes : NodeStands(n)'
    BY <1>2, <2>1 DEF ReadAnswers, NodeStands
  <2> QED BY <2>2, <2>3, <2>4 DEF ReadAnswers
<1> QED BY <1>1, <1>3, <1>4, <1>5, <1>6 DEF KeptInv

\* The read after a page, what is fresh of it and whether there is more to ask for.
PageGives(page, fresh, newest, more) ==
  /\ fresh = {a \in page : read.since = 0 \/ a.at > read.since}
  /\ newest = IF read.newest # 0 \/ page = {} THEN read.newest ELSE Max({a.at : a \in page})
  /\ more = (fresh = page /\ page # Listed(read.after))
  /\ read'.pc = "keeps" /\ read'.newest = newest /\ read'.more = more
  /\ read'.mark = IF read.whole /\ read.mark = 0 THEN newest ELSE read.mark
  /\ read'.after = IF more THEN LastPlace(page) ELSE read.after
  /\ read'.nodes = {[pull |-> a.pull, at |-> a.at, reviews |-> FirstReviews(reviews[a.pull])] : a \in fresh}
  /\ read'.whole = read.whole /\ read'.since = read.since /\ read'.resumed = FALSE

LEMMA PageSays ==
  ASSUME PullsTypeOK, NEW size \in PageSizes, PageComes(size)
  PROVE  \E page \in PageOf(Listed(read.after), size) : \E fresh, newest, more : PageGives(page, fresh, newest, more)
<1>1. read \in Reading
  BY ReadGoesOn, ReadIs DEF PageComes
<1>2. PICK page \in PageOf(Listed(read.after), size) :
        LET fresh == {a \in page : read.since = 0 \/ a.at > read.since}
            newest == IF read.newest # 0 \/ page = {} THEN read.newest ELSE Max({a.at : a \in page})
            more == fresh = page /\ page # Listed(read.after) IN
        read' = [read EXCEPT
          !.pc = "keeps", !.newest = newest, !.more = more,
          !.mark = IF read.whole /\ @ = 0 THEN newest ELSE @,
          !.after = IF more THEN LastPlace(page) ELSE @,
          !.resumed = FALSE,
          !.nodes = {[pull |-> a.pull, at |-> a.at, reviews |-> FirstReviews(reviews[a.pull])] : a \in fresh}]
  BY DEF PageComes
<1>3. PICK fresh : fresh = {a \in page : read.since = 0 \/ a.at > read.since}
  OBVIOUS
<1>4. PICK newest : newest = IF read.newest # 0 \/ page = {} THEN read.newest ELSE Max({a.at : a \in page})
  OBVIOUS
<1>5. PICK more : more = (fresh = page /\ page # Listed(read.after))
  OBVIOUS
<1>6. PICK nodes : nodes = {[pull |-> a.pull, at |-> a.at, reviews |-> FirstReviews(reviews[a.pull])] : a \in fresh}
  OBVIOUS
<1>7. read' = [read EXCEPT
          !.pc = "keeps", !.newest = newest, !.more = more,
          !.mark = IF read.whole /\ @ = 0 THEN newest ELSE @,
          !.after = IF more THEN LastPlace(page) ELSE @, !.resumed = FALSE, !.nodes = nodes]
  BY <1>2, <1>3, <1>4, <1>5, <1>6
<1>8. PageGives(page, fresh, newest, more)
  BY <1>1, <1>3, <1>4, <1>5, <1>6, <1>7 DEF PageGives, Reading
<1> QED BY <1>8

LEMMA AllReviewsRead ==
  ASSUME PullsTypeOK, FewReviews, NEW p \in Pulls
  PROVE  FirstReviews(reviews[p]) = reviews[p]
<1>1. IsFiniteSet(reviews[p]) /\ Cardinality(reviews[p]) <= ReviewsRead
  BY ReviewsAreFinite, FS_Subset DEF PullsTypeOK, FewReviews
<1>2. ASSUME NEW r \in reviews[p]
      PROVE  Cardinality({s \in reviews[p] : s.at <= r.at}) <= ReviewsRead
  <2>1. PICK some : some = {s \in reviews[p] : s.at <= r.at}
    OBVIOUS
  <2>2. IsFiniteSet(some) /\ Cardinality(some) <= Cardinality(reviews[p])
    BY <1>1, <2>1, FS_Subset
  <2>3. Cardinality(some) \in Nat /\ Cardinality(reviews[p]) \in Nat /\ ReviewsRead \in Nat
    BY <1>1, <2>2, FS_CardinalityType, PullsAssumption DEF PullsAssumption
  <2> QED BY <1>1, <2>1, <2>2, <2>3
<1> QED BY <1>2 DEF FirstReviews

LEMMA PageKeepsKept ==
  ASSUME KeptInv, FewReviews, NEW size \in PageSizes, PageComes(size)
  PROVE  KeptInv'
<1>1. /\ PullsTypeOK' /\ PullsTypeOK /\ read.pc = "asks" /\ read # NoRead
      /\ UNCHANGED <<latest, updated, reviews, rows, heard, lateRows, marks>>
  BY PageTypes, ReadGoesOn DEF KeptInv, PageComes, githubVars, historyVars
<1>2. /\ ReadAnswers /\ ReadGoes /\ read.nodes = {} /\ read.after \in Place \cup {NoPlace}
      /\ read.whole \in BOOLEAN
  BY <1>1, ReadIs DEF KeptInv, ReadAnswers, ReadGoes
<1>3. PICK list : list = Listed(read.after)
  OBVIOUS
<1>4. /\ list \in SUBSET Place /\ IsFiniteSet(list)
      /\ \A a \in list : a.at = updated[a.pull] /\ a.at # 0 /\ a = PlaceOf(a.pull)
      /\ \A p \in Pulls : updated[p] # 0 => PlaceOf(p) \in list \/ PagedPast(p, read.after)
  BY <1>1, <1>2, <1>3, ListedAre DEF PullsTypeOK
<1>5. PICK page \in PageOf(list, size) : \E fresh, newest, more : PageGives(page, fresh, newest, more)
  BY <1>1, <1>3, PageSays
<1>6. PICK fresh, newest, more : PageGives(page, fresh, newest, more)
  BY <1>5
<1>7. /\ page \subseteq list /\ page \in SUBSET Place
      /\ page = {} => list = {}
      /\ \A a \in page, b \in list \ page : Sooner(a, b)
      /\ page # {} => /\ LastPlace(page) \in page
                      /\ Max({a.at : a \in page}) \in {a.at : a \in page}
  BY <1>4, <1>5, PagesAre
<1>8. \A a \in page : /\ a.pull \in Pulls /\ a.at = updated[a.pull] /\ a.at # 0 /\ a.at <= latest
                      /\ a.at \in Nat /\ a = PlaceOf(a.pull)
  BY <1>1, <1>4, <1>7, PlacesAre DEF KeptInv, Bounded
<1>9. /\ read.since \in Nat /\ read.mark \in Nat /\ read.newest \in Nat /\ latest \in Nat
      /\ marks.pullsAt \in Nat /\ read.since <= marks.pullsAt
  BY <1>1, <1>2, SecondsAre DEF ReadGoes
<1>10. IF read.after = NoPlace THEN read.mark = 0 /\ read.newest = 0 /\ Target = 0 ELSE Target # 0 /\ Target' = Target
  BY <1>1, <1>2, <1>6, <1>9 DEF ReadGoes, Target, PageGives
<1>11. Target' <= latest /\ (page # {} => Target' # 0)
  <2>1. CASE read.after # NoPlace
    BY <1>2, <1>10, <2>1 DEF ReadGoes
  <2>2. CASE read.after = NoPlace
    <3>1. Target' = newest
      BY <1>2, <1>6, <1>10, <2>2 DEF PageGives, Target
    <3>2. CASE page = {}
      BY <1>6, <1>9, <1>10, <2>2, <3>1, <3>2 DEF PageGives
    <3>3. CASE page # {}
      <4>1. newest = Max({a.at : a \in page})
        BY <1>6, <1>10, <2>2, <3>3 DEF PageGives
      <4>2. PICK a \in page : newest = a.at
        BY <1>7, <3>3, <4>1
      <4> QED BY <1>8, <3>1, <4>2
    <3> QED BY <3>2, <3>3
  <2> QED BY <2>1, <2>2
<1>12. more => page # {} /\ read'.after = LastPlace(page) /\ read'.after # NoPlace
  <2>1. more => page # {}
    BY <1>3, <1>6, <1>7 DEF PageGives
  <2> QED BY <1>6, <1>7, <2>1, PlacesAre DEF PageGives
<1>13. ReadGoes'
  <2>1. /\ read'.since <= marks'.pullsAt /\ read'.pc = "keeps" /\ read'.more = more
        /\ read'.resumed = FALSE
    BY <1>1, <1>6, <1>9 DEF PageGives
  <2> QED BY <1>1, <1>11, <1>12, <2>1 DEF ReadGoes
\* What the page leaves to the mark of an earlier read is kept since.
<1>14. \A p \in Pulls : updated[p] # 0 /\ updated[p] <= read.since => UpToDate(p)
  BY <1>1, <1>9, SecondsAre DEF KeptInv, SettledPull
<1>15. ASSUME NEW p \in Pulls, Due(p)' PROVE Held(p)'
  <2>1. updated[p] # 0 /\ updated[p] <= Target' /\ (more => PagedPast(p, read'.after))
    BY <1>1, <1>6, <1>15 DEF Due, PageGives, PagedPast, PlaceOf
  <2>2. SUFFICES ASSUME ~ UpToDate(p) PROVE \E n \in read'.nodes : n.pull = p /\ n.at = updated[p]
    BY <1>1 DEF Held, UpToDate
  <2>3. ~ (updated[p] <= read.since)
    BY <1>14, <2>1, <2>2
  <2>4. PlaceOf(p) \in list
    <3>1. CASE PagedPast(p, read.after)
      <4>1. Due(p)
        BY <1>1, <1>10, <2>1, <3>1 DEF Due, PagedPast
      <4> QED BY <1>2, <2>2, <4>1 DEF ReadAnswers, Held
    <3> QED BY <1>4, <2>1, <3>1
  <2>5. PICK place : place = PlaceOf(p)
    OBVIOUS
  <2>6. place \in list /\ place.at = updated[p] /\ place.pull = p
    BY <2>4, <2>5 DEF PlaceOf
  <2>7. place \in page
    <3> SUFFICES ASSUME place \notin page PROVE FALSE
      OBVIOUS
    <3>1. page # {} /\ \A a \in page : Sooner(a, place)
      BY <1>7, <2>6
    <3>2. ~ more
      BY <1>7, <1>12, <2>1, <2>5, <3>1 DEF PagedPast
    <3>3. PICK a \in page : a \notin fresh
      BY <1>3, <1>6, <2>6, <3>2 DEF PageGives
    <3>4. a.at <= read.since
      BY <1>6, <1>8, <1>9, <3>3 DEF PageGives
    <3>5. place.at <= a.at /\ place.at \in Nat
      BY <1>1, <1>8, <2>6, <3>1, SecondsAre DEF Sooner
    <3> QED BY <1>8, <1>9, <2>3, <2>6, <3>4, <3>5
  <2>8. place \in fresh
    BY <1>1, <1>6, <1>9, <2>3, <2>6, <2>7, SecondsAre DEF PageGives
  <2>9. PICK n : n = [pull |-> place.pull, at |-> place.at, reviews |-> FirstReviews(reviews[place.pull])]
    OBVIOUS
  <2>10. n \in read'.nodes
    BY <1>6, <2>8, <2>9 DEF PageGives
  <2> QED BY <2>6, <2>9, <2>10
<1>16. ASSUME NEW n \in read'.nodes PROVE NodeStands(n)'
  <2>1. PICK a \in fresh : n = [pull |-> a.pull, at |-> a.at, reviews |-> FirstReviews(reviews[a.pull])]
    BY <1>6 DEF PageGives
  <2>2. a \in page
    BY <1>6, <2>1 DEF PageGives
  <2>3. n.at = updated[n.pull] /\ n.at <= latest /\ n.reviews = reviews[n.pull]
    BY <1>1, <1>8, <2>1, <2>2, AllReviewsRead
  <2> QED BY <1>1, <2>3 DEF NodeStands
<1>17. Bounded' /\ \A p \in Pulls : SettledPull(p)' => UpToDate(p)'
  <2>1. Bounded'
    BY <1>1 DEF KeptInv, Bounded
  <2>2. \A p \in Pulls : SettledPull(p)' => UpToDate(p)'
    BY <1>1 DEF KeptInv, SettledPull, UpToDate, PagedPast, PlaceOf
  <2> QED BY <2>1, <2>2
<1> QED BY <1>1, <1>13, <1>15, <1>16, <1>17 DEF KeptInv, ReadAnswers

LEMMA KeepKeepsKept ==
  ASSUME KeptInv, PageKept
  PROVE  KeptInv'
<1>1. /\ PullsTypeOK' /\ PullsTypeOK /\ read.pc = "keeps" /\ read # NoRead
      /\ UNCHANGED <<latest, updated, reviews, hooks>>
  BY KeepTypes, ReadGoesOn DEF KeptInv, PageKept, githubVars
<1>2. /\ ReadAnswers /\ ReadGoes /\ read \in Reading /\ read.whole \in BOOLEAN /\ read.more \in BOOLEAN
      /\ Target \in Nat /\ \A p \in Pulls : updated[p] \in Nat
  BY <1>1, ReadIs, SecondsAre DEF KeptInv, ReadAnswers
<1>3. PICK brought : brought = {n.pull : n \in read.nodes}
  OBVIOUS
<1>4. PICK node : node = [p \in Pulls |-> CHOOSE n \in read.nodes : n.pull = p]
  OBVIOUS
<1>5. /\ rows' = [p \in Pulls |-> IF p \in brought THEN node[p].at ELSE rows[p]]
      /\ heard' = [p \in Pulls |-> IF p \in brought THEN node[p].reviews ELSE heard[p]]
      /\ lateRows' = lateRows \ brought
  BY <1>3, <1>4 DEF PageKept
<1>6. ASSUME NEW p \in Pulls, p \in brought
      PROVE  node[p] \in read.nodes /\ node[p].pull = p /\ NodeStands(node[p])
  <2>1. \E n \in read.nodes : n.pull = p
    BY <1>3, <1>6
  <2>2. node[p] \in read.nodes /\ node[p].pull = p
    BY <1>4, <2>1
  <2> QED BY <1>2, <2>2 DEF ReadAnswers
\* A pull request that the page has is kept with it, or is later than all the marks.
<1>7. ASSUME NEW p \in Pulls, Held(p),
             updated[p] <= Target \/ updated[p] <= marks.pullsAt \/ updated[p] <= marks.mark
      PROVE  UpToDate(p)'
  <2>1. CASE p \in brought
    <3>1. node[p].at = updated[p] /\ reviews[p] \subseteq node[p].reviews
      <4>1. marks.pullsAt \in Nat /\ marks.mark \in Nat
        BY <1>1, SecondsAre
      <4> QED BY <1>2, <1>6, <1>7, <2>1, <4>1 DEF NodeStands
    <3> QED BY <1>1, <1>5, <2>1, <3>1 DEF UpToDate
  <2>2. CASE p \notin brought
    BY <1>1, <1>3, <1>5, <1>7, <2>2 DEF UpToDate, Held
  <2> QED BY <2>1, <2>2
<1>8. /\ read'.pc = (IF read.more THEN "asks" ELSE "ends") /\ read'.nodes = {}
      /\ read'.whole = read.whole /\ read'.since = read.since /\ read'.after = read.after
      /\ read'.mark = read.mark /\ read'.newest = read.newest /\ Target' = Target
      /\ read'.resumed = read.resumed
      /\ marks'.pullsAt = marks.pullsAt
      /\ IF read.whole /\ read.more THEN marks'.cursor = read.after /\ marks'.mark = read.mark
         ELSE marks' = marks
  <2>1. /\ marks' = IF read.whole /\ read.more THEN [marks EXCEPT !.cursor = read.after, !.mark = read.mark]
                    ELSE marks
        /\ read' = [read EXCEPT !.pc = IF read.more THEN "asks" ELSE "ends", !.nodes = {}]
    BY DEF PageKept
  <2>2. marks \in [pullsAt : Stamps, cursor : Place \cup {NoPlace}, mark : Stamps, version : 0 .. 1]
    BY <1>1 DEF PullsTypeOK
  <2>3. /\ read'.pc = (IF read.more THEN "asks" ELSE "ends") /\ read'.nodes = {}
        /\ read'.whole = read.whole /\ read'.since = read.since /\ read'.after = read.after
        /\ read'.mark = read.mark /\ read'.newest = read.newest /\ read'.resumed = read.resumed
    BY <1>2, <2>1 DEF Reading
  <2> QED BY <2>1, <2>2, <2>3 DEF Target
<1>9. \A p \in Pulls : Due(p) => UpToDate(p)'
  BY <1>2, <1>7 DEF ReadAnswers, Due
<1>10. \A p \in Pulls : SettledPull(p) => UpToDate(p)'
  BY <1>7 DEF KeptInv, SettledPull, Held
<1>11. \A p \in Pulls : SettledPull(p)' => UpToDate(p)'
  <2> SUFFICES ASSUME NEW p \in Pulls, SettledPull(p)' PROVE UpToDate(p)'
    OBVIOUS
  <2>1. CASE SettledPull(p)
    BY <1>10, <2>1
  <2>2. CASE ~ SettledPull(p)
    <3>1. /\ read.whole /\ read.more /\ updated[p] # 0 /\ updated[p] <= read.mark
          /\ PagedPast(p, read.after)
      BY <1>1, <1>8, <2>2 DEF SettledPull, PagedPast, PlaceOf
    <3>2. Due(p)
      BY <1>1, <3>1 DEF Due, Target
    <3> QED BY <1>9, <3>2
  <2> QED BY <2>1, <2>2
<1>12. Bounded'
  <2>1. marks'.pullsAt <= latest' /\ marks'.mark <= latest' /\ (marks'.cursor # NoPlace => marks'.mark # 0)
    <3>1. CASE read.whole /\ read.more
      BY <1>1, <1>2, <1>8, <3>1 DEF KeptInv, Bounded, ReadGoes, Target
    <3>2. CASE ~ (read.whole /\ read.more)
      BY <1>1, <1>8, <3>2 DEF KeptInv, Bounded
    <3> QED BY <3>1, <3>2
  <2> QED BY <1>1, <2>1 DEF KeptInv, Bounded
<1>13. ReadGoes'
  BY <1>1, <1>2, <1>8 DEF ReadGoes
<1>14. \A p \in Pulls : Due(p)' => Held(p)'
  <2>1. \A p \in Pulls : Due(p)' => Due(p)
    BY <1>1, <1>2, <1>8 DEF Due, PagedPast, PlaceOf
  <2> QED BY <1>9, <2>1 DEF Held
<1> QED BY <1>1, <1>8, <1>11, <1>12, <1>13, <1>14 DEF KeptInv, ReadAnswers

LEMMA ReadKeepsKept ==
  ASSUME ~Gone, KeptInv, ReadStarts \/ PageRestarts \/ PageIsNull \/ ReadEnds \/ ReadFails
  PROVE  KeptInv'
<1>1. /\ PullsTypeOK' /\ PullsTypeOK
      /\ UNCHANGED <<latest, updated, reviews, rows, heard, lateRows>>
  BY ReadTypes DEF KeptInv, ReadStarts, PageRestarts, PageIsNull, ReadEnds, ReadFails, githubVars,
                   historyVars
<1>2. \A p \in Pulls : updated[p] \in Nat
  BY <1>1, SecondsAre
<1>3. ASSUME UNCHANGED marks PROVE Bounded' /\ \A p \in Pulls : SettledPull(p)' => UpToDate(p)'
  BY <1>1, <1>3 DEF KeptInv, Bounded, SettledPull, UpToDate, PagedPast, PlaceOf
<1>4. CASE ReadStarts
  <2>1. UNCHANGED marks /\ marks.pullsAt \in Nat /\ marks.mark \in Nat /\ latest \in Nat
    BY <1>1, <1>4, SecondsAre DEF ReadStarts
  <2>2. PICK whole, after : whole = (marks.version = 0) /\ after = IF whole THEN marks.cursor ELSE NoPlace
    OBVIOUS
  <2>3. /\ read'.pc = "asks" /\ read'.whole = whole /\ read'.since = (IF whole THEN 0 ELSE marks.pullsAt)
        /\ read'.after = after /\ read'.mark = (IF after # NoPlace THEN marks.mark ELSE 0)
        /\ read'.newest = 0 /\ read'.nodes = {}
    BY <1>4, <2>2 DEF ReadStarts
  <2>4. after # NoPlace => whole /\ marks.mark # 0 /\ after = marks.cursor
    BY <2>2 DEF KeptInv, Bounded
  <2>5. Target' = IF after # NoPlace THEN marks.mark ELSE 0
    BY <2>3, <2>4 DEF Target
  <2>6. ReadGoes'
    BY <1>1, <2>1, <2>3, <2>4, <2>5 DEF ReadGoes, KeptInv, Bounded
  <2>7. \A p \in Pulls : Due(p)' => Held(p)'
    <3> SUFFICES ASSUME NEW p \in Pulls, Due(p)' PROVE Held(p)'
      OBVIOUS
    <3>1. after # NoPlace /\ SettledPull(p)
      BY <1>1, <2>3, <2>4, <2>5 DEF Due, SettledPull, PagedPast, PlaceOf
    <3> QED BY <1>1, <3>1 DEF KeptInv, Held, UpToDate
  <2> QED BY <1>1, <1>3, <2>1, <2>3, <2>6, <2>7 DEF KeptInv, ReadAnswers
<1>5. CASE PageRestarts \/ PageIsNull
  <2>1. /\ UNCHANGED marks /\ read # NoRead /\ read.pc = "asks" /\ ReadAnswers /\ ReadGoes
        /\ read \in Reading /\ read.nodes = {}
    BY <1>1, <1>5, ReadGoesOn, ReadIs DEF PageRestarts, PageIsNull, KeptInv, ReadAnswers, ReadGoes
  <2>2. /\ read'.mark = 0 /\ read'.newest = 0 /\ read'.nodes = {} /\ read'.since = read.since
        /\ (read'.pc = "asks" /\ read'.after = NoPlace) \/ read'.pc = "ends"
    <3>1. CASE PageRestarts
      BY <2>1, <3>1 DEF PageRestarts, ReadGoes, Reading
    <3>2. CASE PageIsNull
      BY <2>1, <3>2 DEF PageIsNull, ReadGoes, Reading
    <3> QED BY <1>5, <3>1, <3>2
  <2>3. Target' = 0 /\ latest \in Nat
    BY <1>1, <2>2, SecondsAre DEF Target
  <2>4. ReadGoes'
    BY <1>1, <2>1, <2>2, <2>3 DEF ReadGoes
  <2>5. \A p \in Pulls : ~ Due(p)'
    BY <1>1, <1>2, <2>3 DEF Due
  <2> QED BY <1>1, <1>3, <2>1, <2>2, <2>4, <2>5 DEF KeptInv, ReadAnswers
<1>6. CASE ReadEnds
  <2>1. read.pc = "ends" /\ read # NoRead /\ ReadAnswers /\ ReadGoes /\ read.nodes = {} /\ read' = NoRead
    BY <1>6, ReadGoesOn DEF ReadEnds, KeptInv, ReadAnswers, ReadGoes
  <2>2. PICK at : at = IF read.whole THEN IF read.mark # 0 THEN read.mark ELSE marks.pullsAt
                       ELSE IF read.newest # 0 THEN read.newest ELSE read.since
    OBVIOUS
  <2>3. marks' = [pullsAt |-> at, cursor |-> NoPlace, mark |-> 0, version |-> 1]
    BY <1>6, <2>2 DEF ReadEnds
  <2>4. at = Target \/ at <= marks.pullsAt
    BY <1>1, <2>1, <2>2, SecondsAre DEF Target, ReadGoes
  <2>5. at \in Nat /\ at <= latest /\ marks.pullsAt \in Nat /\ latest \in Nat
    <3>1. /\ marks.pullsAt \in Nat /\ latest \in Nat /\ marks.pullsAt <= latest
          /\ read.mark \in Nat /\ read.newest \in Nat /\ read.since \in Nat /\ Target \in Nat
      BY <1>1, <2>1, SecondsAre DEF KeptInv, Bounded
    <3> QED BY <2>1, <2>2, <2>4, <3>1 DEF ReadGoes
  <2>6. Bounded'
    BY <1>1, <2>3, <2>5 DEF KeptInv, Bounded
  <2>7. \A p \in Pulls : SettledPull(p)' => UpToDate(p)'
    <3> SUFFICES ASSUME NEW p \in Pulls, SettledPull(p)' PROVE UpToDate(p)
      BY <1>1 DEF UpToDate
    <3>1. updated[p] # 0 /\ updated[p] <= at
      BY <1>1, <2>3 DEF SettledPull, PagedPast
    <3>2. CASE at = Target
      <4>1. Due(p)
        BY <2>1, <3>1, <3>2 DEF Due
      <4> QED BY <2>1, <4>1 DEF ReadAnswers, Held
    <3>3. CASE at <= marks.pullsAt
      BY <1>2, <2>5, <3>1, <3>3 DEF KeptInv, SettledPull
    <3> QED BY <2>4, <3>2, <3>3
  <2> QED BY <1>1, <2>1, <2>6, <2>7 DEF KeptInv
<1>7. CASE ReadFails
  <2>1. UNCHANGED marks /\ read' = NoRead
    BY <1>7 DEF ReadFails
  <2> QED BY <1>1, <1>3, <2>1 DEF KeptInv
<1> QED BY <1>4, <1>5, <1>6, <1>7

LEMMA KeptFirst == PullsInit => KeptInv
<1> SUFFICES ASSUME PullsInit PROVE KeptInv
  OBVIOUS
<1>1. PullsTypeOK
  BY PullsTypesFirst
<1>2. /\ hooks = {} /\ read = NoRead /\ latest = 0 /\ \A p \in Pulls : updated[p] = 0
      /\ marks.pullsAt = 0 /\ marks.mark = 0 /\ marks.cursor = NoPlace
  BY DEF PullsInit
<1> QED BY <1>1, <1>2 DEF KeptInv, Bounded, SettledPull

LEMMA StutterKeepsKept == KeptInv /\ UNCHANGED pullsVars => KeptInv'
<1> SUFFICES ASSUME KeptInv, UNCHANGED pullsVars PROVE KeptInv'
  OBVIOUS
<1>1. UNCHANGED <<latest, updated, reviews, hooks, rows, words, heard, lateRows, overtaken, marks, read>>
  BY DEF pullsVars, githubVars, historyVars
<1>2. PullsTypeOK' /\ Bounded'
  BY <1>1 DEF KeptInv, PullsTypeOK, Bounded
<1>3. \A p \in Pulls : SettledPull(p)' => UpToDate(p)'
  BY <1>1 DEF KeptInv, SettledPull, UpToDate, PagedPast, PlaceOf
<1>4. ASSUME read' # NoRead PROVE ReadAnswers'
  <2>1. ReadAnswers
    BY <1>1, <1>4 DEF KeptInv
  <2>2. ReadGoes'
    BY <1>1, <2>1 DEF ReadAnswers, ReadGoes, Target
  <2>3. \A p \in Pulls : Due(p)' => Held(p)'
    BY <1>1, <2>1 DEF ReadAnswers, Due, Held, UpToDate, Target, PagedPast, PlaceOf
  <2>4. \A n \in read'.nodes : NodeStands(n)'
    BY <1>1, <2>1 DEF ReadAnswers, NodeStands, Target
  <2> QED BY <2>2, <2>3, <2>4 DEF ReadAnswers
<1> QED BY <1>2, <1>3, <1>4 DEF KeptInv

\* As long as no second sees two updates, GitHub does not call a repository gone between two
\* pages and all reviews of a pull request are read: what the next read will not ask for
\* again, or the rest of one cut off, is kept as GitHub has it, in whatever order webhooks
\* come (readPulls, keep), but for a row that one taken late has set back (keepPull).
THEOREM KeptIsThrough ==
  ASSUME ~SameSecond, ~Gone
  PROVE  PullsSpec /\ []FewReviews => []KeptThrough
<1>1. KeptInv /\ FewReviews /\ [PullsNext]_pullsVars => KeptInv'
  BY StutterKeepsKept, GitHubKeepsKept, HookKeepsKept, PageKeepsKept, KeepKeepsKept, ReadKeepsKept DEF PullsNext
<1>2. KeptInv => KeptThrough
  BY DEF KeptInv, SettledPull, UpToDate, KeptThrough
<1> QED BY <1>1, <1>2, KeptFirst, PTL DEF PullsSpec

-----------------------------------------------------------------------------
(* The parts together *)

\* A behaviour of one part is a behaviour of that part alone, in which the others do
\* nothing.
THEOREM PartsBehaveAlone ==
  PartsSpec => StateSpec /\ ServingSpec /\ OwnershipSpec /\ PullsSpec /\ EngineSpec
<1>1. PartsInit => StateInit /\ ServingInit /\ OwnershipInit /\ PullsInit /\ EngineInit
  BY DEF PartsInit
<1>2. [PartsNext]_partsVars =>
        /\ [StateNext]_stateVars /\ [ServingNext]_servingVars /\ [OwnershipNext]_ownershipVars
        /\ [PullsNext]_pullsVars /\ [EngineNext]_engineVars
  BY DEF PartsNext, partsVars
<1>. QED
  BY <1>1, <1>2, PTL DEF PartsSpec, StateSpec, ServingSpec, OwnershipSpec, PullsSpec, EngineSpec

\* Whatever part goes on, every part keeps its types.
THEOREM PartsTypes == PartsSpec => []PartsTypeOK
<1>1. StateTypeOK /\ ServingTypeOK /\ OwnershipTypeOK /\ PullsTypeOK /\ EngineTypeOK => PartsTypeOK
  BY DEF PartsTypeOK
<1>. QED
  BY <1>1, PartsBehaveAlone, StateTypes, ServingTypes, OwnershipTypes, PullsTypes, EngineTypes, PTL

=============================================================================
