----------------------------- MODULE HeadCheck -----------------------------
(***************************************************************************)
(* Whether a Report is still current: a Build ends at its head check when  *)
(* every branch and tag of the remote is as the Build that published the   *)
(* Report saw them, and the nightly queueing of seeds marks a whole Report *)
(* checked when the default branch's head is the Stored Index's.           *)
(*                                                                         *)
(* Sources: packages/server/src/builds.ts (whole, unchanged,               *)
(* refsUnchanged), apps/builder/src/job.ts (claimedJob, keptUnchanged,     *)
(* publishBuild), run.ts (build), seeds.ts (queueSeeds), clone.ts          *)
(* (remoteRefs), and packages/server/src/stored-index.ts (loadExport).     *)
(*                                                                         *)
(* Git is modelled from how it is asked: the remote is a default branch    *)
(* and one other, each at its latest push, and a clone or a fetch takes    *)
(* both.  Left out: the release a Stored Index was made by, a clone kept   *)
(* from before (it is fetched into first), lines left on other branches    *)
(* only, the week after which a Report is old however little has moved     *)
(* (it may be over whenever it is asked), a private repository (whose      *)
(* Builds do not wait for each other), and what Publication has: the       *)
(* objects, and which of two Stored Indexes is live.                       *)
(***************************************************************************)
EXTENDS Naturals

CONSTANTS
  HeadBuilds,  \* the Builds of one repository at a time
  Nobody,
  LastPush,    \* bound: pushes to a branch
  Withdrawn    \* whether a branch may go back to what it was

ASSUME HeadCheckAssumption ==
  /\ Nobody \notin HeadBuilds
  /\ LastPush \in Nat \ {0} /\ Withdrawn \in BOOLEAN

VARIABLES
  remote,   \* the remote: its default branch and another
  report,   \* the repository's row
  index,    \* its live Stored Index
  covers,   \* history: what the published pack was made from
  build,    \* Build -> where its handler is
  holds,    \* who holds the repository (holdingRepo)
  seeds     \* queueSeeds

headsVars == <<remote, report, index, covers, build, holds, seeds>>

Refs == [head : 1 .. LastPush, other : 1 .. LastPush]
NoRefs == [head |-> 0, other |-> 0]
SomeRefs == Refs \cup {NoRefs}

\* lines: whether there is a Report, or a Stored Index, with all of them counted.
ReportRow == [lines : BOOLEAN, refs : SomeRefs]
Index == [head : 0 .. LastPush, lines : BOOLEAN]
NoRow == [lines |-> FALSE, refs |-> NoRefs]
NoIndexYet == [head |-> 0, lines |-> FALSE]

\* turn: a first attempt, a first attempt at more lines, or a retry.  quick and full are its
\* clones, and lines is what the row it read, then its engine run, says of them.  A handler
\* that holds the repository is cloning for, then in, its quick phase, then in its full one.
Holding == {"cloning", "cloned", "madeQuick", "reading", "made"}
BuildState ==
  [pc : {"none", "queued", "claimed", "asked", "waits"} \cup Holding,
   turn : {"first", "more", "retry"}, row : ReportRow, remote : SomeRefs,
   quick : SomeRefs, full : SomeRefs, lines : BOOLEAN]
NoHandlerYet ==
  [pc |-> "none", turn |-> "first", row |-> NoRow, remote |-> NoRefs,
   quick |-> NoRefs, full |-> NoRefs, lines |-> FALSE]

\* What queueSeeds has read: the head of the Stored Index of a whole Report, or 0.
SeedsIdle == [pc |-> "idle", head |-> 0]
SeedsState == {SeedsIdle} \cup [pc : {"read"}, head : 0 .. LastPush]

HeadsTypeOK ==
  /\ remote \in Refs /\ report \in ReportRow /\ index \in Index /\ covers \in SomeRefs
  /\ build \in [HeadBuilds -> BuildState]
  /\ holds \in HeadBuilds \cup {Nobody}
  /\ \A b \in HeadBuilds : holds = b <=> build[b].pc \in Holding
  /\ seeds \in SeedsState

HeadsInit ==
  /\ remote = [head |-> 1, other |-> 1]
  /\ report = NoRow /\ index = NoIndexYet /\ covers = NoRefs
  /\ build = [b \in HeadBuilds |-> NoHandlerYet] /\ holds = Nobody
  /\ seeds = SeedsIdle

AtLeast(a, b) == a.head >= b.head /\ a.other >= b.other

-----------------------------------------------------------------------------
(* The remote *)

Push ==
  /\ \E n \in 1 .. LastPush :
       \/ (n > remote.head \/ Withdrawn) /\ remote' = [remote EXCEPT !.head = n]
       \/ (n > remote.other \/ Withdrawn) /\ remote' = [remote EXCEPT !.other = n]
  /\ UNCHANGED <<report, index, covers, build, holds, seeds>>

-----------------------------------------------------------------------------
(* builds.ts *)

whole(r, i) == r.lines /\ i.head # 0 /\ i.lines

unchanged(r, i, head) == head # 0 /\ whole(r, i) /\ i.head = head

\* Mutant: only the default branch's head is looked at.
refsUnchanged_HeadOnly(r, i, asked) == asked # NoRefs /\ unchanged(r, i, asked.head)
refsUnchanged(r, i, asked) ==
  asked # NoRefs /\ r.refs # NoRefs /\ r.refs = asked /\ unchanged(r, i, asked.head)

-----------------------------------------------------------------------------
(* claimedJob *)

BuildQueued(b) ==
  /\ build[b].pc = "none"
  /\ build' = [build EXCEPT ![b] = [NoHandlerYet EXCEPT !.pc = "queued"]]

PersonAsks(b) ==
  /\ BuildQueued(b)
  /\ UNCHANGED <<remote, report, index, covers, holds, seeds>>

BuildReadsRow(b) ==
  /\ build[b].pc = "queued"
  /\ build' = [build EXCEPT ![b].pc = "claimed", ![b].row = report]
  /\ UNCHANGED <<remote, report, index, covers, holds, seeds>>

\* A retry does not ask, nor does a Build for more lines; and asking may fail.
BuildAsksRemote(b) ==
  /\ build[b].pc = "claimed"
  /\ \E asked \in {NoRefs} \cup (IF build[b].turn = "first" THEN {remote} ELSE {}) :
       build' = [build EXCEPT ![b].pc = "asked", ![b].remote = asked]
  /\ UNCHANGED <<remote, report, index, covers, holds, seeds>>

\* keptUnchanged: the Stored Index is read now, the row was before; then checkedAt.
BuildIsKept(b) ==
  /\ build[b].pc = "asked" /\ refsUnchanged(build[b].row, index, build[b].remote)
  /\ build' = [build EXCEPT ![b] = NoHandlerYet]
  /\ UNCHANGED <<remote, report, index, covers, holds, seeds>>

\* Something has moved, or the Report is old.  Of the row, whether it has lines is
\* remembered.
BuildGoesOn(b) ==
  /\ build[b].pc = "asked"
  /\ build' = [build EXCEPT ![b].pc = "waits", ![b].lines = build[b].row.lines, ![b].row = NoRow]
  /\ UNCHANGED <<remote, report, index, covers, holds, seeds>>

-----------------------------------------------------------------------------
(* build, once the repository is held *)

\* A quick phase too, unless a clone was kept, when nothing is known of the repository's
\* lines.  One whose clone fails is as if there had been none.
BuildHoldsRepo(b) ==
  /\ build[b].pc = "waits" /\ holds = Nobody
  /\ holds' = b
  /\ \E pc \in {"reading"} \cup (IF build[b].turn # "retry" /\ ~build[b].lines /\ ~index.lines
                               THEN {"cloning"} ELSE {}) :
       build' = [build EXCEPT ![b].pc = pc, ![b].lines = FALSE]
  /\ UNCHANGED <<remote, report, index, covers, seeds>>

\* The two clones are made at once, and either is there first.
BuildClonesQuick(b) ==
  /\ build[b].pc = "cloning"
  /\ build' = [build EXCEPT ![b].pc = "cloned", ![b].quick = remote]
  /\ UNCHANGED <<remote, report, index, covers, holds, seeds>>

BuildClones(b) ==
  /\ build[b].pc \in Holding /\ build[b].full = NoRefs
  /\ build' = [build EXCEPT ![b].full = remote]
  /\ UNCHANGED <<remote, report, index, covers, holds, seeds>>

\* engine: what it made is loaded into a Stored Index of its own, or appended to the live
\* one, which has its head and its lines from then on.
Loads(at, lines) ==
  \/ UNCHANGED index
  \/ index.head # 0 /\ index' = [head |-> at.head, lines |-> lines]

\* Whatever becomes of the quick phase, the full one follows.
BuildMakesQuick(b) ==
  /\ build[b].pc = "cloned"
  /\ Loads(build[b].quick, FALSE)
  /\ \E pc \in {"madeQuick", "reading"} : build' = [build EXCEPT ![b].pc = pc]
  /\ UNCHANGED <<remote, report, covers, holds, seeds>>

\* caughtUp: a full clone that lacks what the quick one had is brought up to date again, and
\* whether that went well is not looked at.  (It need not wait for the quick phase's end,
\* which tells nothing of it apart.)
BuildCatchesUp(b) ==
  /\ build[b].pc = "reading" /\ build[b].full # NoRefs
  /\ ~AtLeast(build[b].full, build[b].quick)
  /\ \E full \in {build[b].full, remote} :
       build' = [build EXCEPT ![b].quick = NoRefs, ![b].full = full]
  /\ UNCHANGED <<remote, report, index, covers, holds, seeds>>

BuildMakesFull(b) ==
  /\ build[b].pc = "reading" /\ build[b].full # NoRefs
  /\ AtLeast(build[b].full, build[b].quick)
  /\ \E lines \in BOOLEAN :
       /\ Loads(build[b].full, lines)
       /\ build' = [build EXCEPT ![b].pc = "made", ![b].quick = NoRefs, ![b].lines = lines]
  /\ UNCHANGED <<remote, report, covers, holds, seeds>>

\* Mutant: the refs are those of the remote by now.
RefsOf_Now(b) == remote
\* refs are those the handler asked for before it cloned.
RefsOf(b) == IF build[b].remote # NoRefs THEN build[b].remote ELSE report.refs

\* The transaction of publishBuild.
PublishesMade(b, at, lines) ==
  /\ report' = [lines |-> lines, refs |-> RefsOf(b)]
  /\ index' = [head |-> at.head, lines |-> lines]
  /\ covers' = at

\* A quick Report, unless there is one with lines by now; the full one follows.
BuildPublishesQuick(b) ==
  /\ build[b].pc = "madeQuick"
  /\ \/ report.lines /\ UNCHANGED <<report, index, covers>>
     \/ ~report.lines /\ PublishesMade(b, build[b].quick, FALSE)
  /\ build' = [build EXCEPT ![b].pc = "reading"]
  /\ UNCHANGED <<remote, holds, seeds>>

\* Lines left to count are left to another Build, some minutes later.
BuildPublishesFull(b) ==
  /\ build[b].pc = "made"
  /\ PublishesMade(b, build[b].full, build[b].lines)
  /\ \/ build' = [build EXCEPT ![b] = NoHandlerYet]
     \/ /\ ~build[b].lines
        /\ build' = [build EXCEPT ![b] = [NoHandlerYet EXCEPT !.pc = "queued", !.turn = "more"]]
  /\ holds' = Nobody
  /\ UNCHANGED <<remote, seeds>>

\* Mutant: a failure leaves the repository held.
BuildFails_Holding(b) ==
  /\ holds = b
  /\ build' = [build EXCEPT ![b] = NoHandlerYet]
  /\ UNCHANGED <<remote, report, index, covers, holds, seeds>>
\* A clone, the engine, the load or the upload fails; or its time is up, and the Build is
\* tried again.  A load that was committed stays.
BuildFails(b) ==
  /\ holds = b
  /\ holds' = Nobody
  /\ \/ build' = [build EXCEPT ![b] = NoHandlerYet]
     \/ build' = [build EXCEPT ![b] = [NoHandlerYet EXCEPT !.pc = "queued", !.turn = "retry"]]
  /\ UNCHANGED <<remote, report, index, covers, seeds>>

-----------------------------------------------------------------------------
(* queueSeeds *)

SeedsRead ==
  /\ seeds.pc = "idle"
  /\ seeds' = [pc |-> "read", head |-> IF whole(report, index) THEN index.head ELSE 0]
  /\ UNCHANGED <<remote, report, index, covers, build, holds>>

\* GitHub is asked for the head, and it is the Stored Index's as it was: checkedAt.
SeedsMark ==
  /\ seeds.pc = "read" /\ seeds.head # 0 /\ seeds.head = remote.head
  /\ seeds' = SeedsIdle
  /\ UNCHANGED <<remote, report, index, covers, build, holds>>

\* It is not, or GitHub does not say; a Build is queued unless nobody viewed the Report or
\* one is under way.
SeedsQueue ==
  /\ seeds.pc = "read"
  /\ seeds' = SeedsIdle
  /\ \/ UNCHANGED build
     \/ /\ \A b \in HeadBuilds : build[b].pc = "none"
        /\ \E b \in HeadBuilds : BuildQueued(b)
  /\ UNCHANGED <<remote, report, index, covers, holds>>

HeadsNext ==
  \/ Push
  \/ \E b \in HeadBuilds :
       \/ PersonAsks(b) \/ BuildReadsRow(b) \/ BuildAsksRemote(b) \/ BuildIsKept(b) \/ BuildGoesOn(b)
       \/ BuildHoldsRepo(b) \/ BuildClonesQuick(b) \/ BuildClones(b)
       \/ BuildMakesQuick(b) \/ BuildCatchesUp(b) \/ BuildMakesFull(b)
       \/ BuildPublishesQuick(b) \/ BuildPublishesFull(b) \/ BuildFails(b)
  \/ SeedsRead \/ SeedsMark \/ SeedsQueue

HeadsSpec == HeadsInit /\ [][HeadsNext]_headsVars

-----------------------------------------------------------------------------
(* Properties *)

\* reportRefs never says more than the pack holds, whoever asked when, whatever failed in
\* between and whichever Build published last: else a push would stay unread until the
\* next one.
RefsNotAhead == AtLeast(covers, report.refs)

\* A Build that ends at its head check leaves a Report of every branch as it found them:
\* "a Report covers them all, not only the default branch" (builds.ts).
KeptIsCurrent ==
  [][\A b \in HeadBuilds : BuildIsKept(b) => AtLeast(covers, build[b].remote)]_headsVars

\* A Report that the seeds are to mark checked, while no Build is under way, was made from
\* the head they found: "the default branch's head is still the one it was built from"
\* (builds.ts).
CheckedIsCovered ==
  (/\ \A b \in HeadBuilds : build[b].pc = "none"
   /\ seeds.head # 0 /\ seeds.head = remote.head) => covers.head >= seeds.head
=============================================================================
