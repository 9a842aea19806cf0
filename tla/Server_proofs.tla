---------------------------- MODULE Server_proofs ----------------------------
(***************************************************************************)
(* Proofs about what the Site and the Builder share: HeadCheck, for every  *)
(* set of Builds and any number of pushes, as long as no branch goes back  *)
(* to what it was (types hold even then); Shares, for any ids and any      *)
(* number of uploads; and GitHubCache, for any number of processes, any    *)
(* answers of GitHub, and all times.                                       *)
(***************************************************************************)
EXTENDS MCServer, TLAPS

-----------------------------------------------------------------------------
(* HeadCheck: what is kept beside a Report is never ahead of its pack *)

\* What a pack, or a clone, is: no less than all that was said of an earlier one.
Says(at) ==
  /\ AtLeast(remote, at) /\ AtLeast(at, report.refs)
  /\ \A c \in HeadBuilds : AtLeast(at, build[c].row.refs)

CloneSays(b, at) == at # NoRefs => Says(at) /\ AtLeast(at, build[b].remote)

\* What a handler asked for is no more than there is, what it has cloned is no less, and it
\* has the clone that it goes on with.
Ordered(b) ==
  /\ AtLeast(remote, build[b].remote)
  /\ CloneSays(b, build[b].quick) /\ CloneSays(b, build[b].full)
  /\ build[b].pc \notin Holding => build[b].quick = NoRefs /\ build[b].full = NoRefs
  /\ build[b].pc \in {"cloned", "madeQuick"} => build[b].quick # NoRefs
  /\ build[b].pc = "made" => build[b].full # NoRefs

HeadsInv ==
  /\ HeadsTypeOK
  /\ Says(covers)
  /\ \A b \in HeadBuilds : Ordered(b)

-----------------------------------------------------------------------------
(* AtLeast is an order, with NoRefs below everything *)

LEMMA AtLeastItself == \A a \in SomeRefs : AtLeast(a, a) /\ AtLeast(a, NoRefs)
<1>. LastPush \in Nat
  BY HeadCheckAssumption
<1>. QED  BY DEF AtLeast, SomeRefs, Refs, NoRefs

LEMMA AtLeastTransitive ==
  \A a, b, c \in SomeRefs : AtLeast(a, b) /\ AtLeast(b, c) => AtLeast(a, c)
<1>. LastPush \in Nat
  BY HeadCheckAssumption
<1>. QED  BY DEF AtLeast, SomeRefs, Refs, NoRefs

\* A push only adds.
LEMMA PushAdds ==
  ASSUME ~Withdrawn, HeadsTypeOK, Push
  PROVE  remote' \in Refs /\ AtLeast(remote', remote)
<1>. LastPush \in Nat
  BY HeadCheckAssumption
<1>. QED  BY DEF Push, HeadsTypeOK, Refs, AtLeast

\* The head of a clone, and of what it was before there was one, is a Stored Index's.
LEMMA HeadIsHead == \A a \in SomeRefs : a.head \in 0 .. LastPush
<1>. LastPush \in Nat
  BY HeadCheckAssumption
<1>. QED  BY DEF SomeRefs, Refs, NoRefs

-----------------------------------------------------------------------------
(* A handler's step, whichever way branches move *)

\* What becomes of a handler: what it knows is what it knew, what the row or the remote says,
\* or nothing; and what it publishes is one of its clones.
Moves(b, h) ==
  /\ build' = [build EXCEPT ![b] = h]
  /\ h.row.refs \in {NoRefs, report.refs, build[b].row.refs}
  /\ h.remote \in {NoRefs, remote, build[b].remote}
  /\ h.quick \in {NoRefs, remote, build[b].quick} /\ h.full \in {NoRefs, remote, build[b].full}
  /\ \/ h.remote = build[b].remote \/ h.remote = NoRefs
     \/ build[b].pc \notin Holding /\ h.quick = build[b].quick /\ h.full = build[b].full
  /\ \/ h.pc \notin Holding /\ h.quick = NoRefs /\ h.full = NoRefs
     \/ h.pc \notin Holding /\ build[b].pc \notin Holding /\ h.quick = build[b].quick /\ h.full = build[b].full
     \/ h.pc \in Holding
  /\ h.pc \in {"cloned", "madeQuick"} =>
       \/ h.quick = remote
       \/ build[b].pc \in {"cloned", "madeQuick"} /\ h.quick = build[b].quick
  /\ h.pc = "made" =>
       \/ build[b].full # NoRefs /\ h.full = build[b].full
       \/ h.full = remote
  /\ \/ UNCHANGED holds /\ (h.pc \in Holding <=> build[b].pc \in Holding)
     \/ holds = Nobody /\ holds' = b /\ h.pc \in Holding
     \/ holds = b /\ holds' = Nobody /\ h.pc \notin Holding
  /\ UNCHANGED <<remote, seeds>>
  /\ report' \in ReportRow /\ index' \in Index
  /\ \/ UNCHANGED <<report, covers>>
     \/ /\ report'.refs = RefsOf(b)
        /\ \/ build[b].pc = "madeQuick" /\ covers' = build[b].quick
           \/ build[b].pc = "made" /\ covers' = build[b].full

\* What Moves speaks of is typed.
LEMMA HandlerIsTyped ==
  ASSUME HeadsTypeOK, NEW b \in HeadBuilds
  PROVE  /\ build[b] \in BuildState /\ build[b].quick \in SomeRefs /\ build[b].full \in SomeRefs
         /\ build[b].remote \in SomeRefs /\ build[b].row \in ReportRow /\ build[b].row.refs \in SomeRefs
         /\ build[b].lines \in BOOLEAN /\ build[b].row.lines \in BOOLEAN
         /\ remote \in Refs /\ remote \in SomeRefs /\ remote # NoRefs /\ covers \in SomeRefs
         /\ report \in ReportRow /\ report.refs \in SomeRefs /\ NoRefs \in SomeRefs /\ NoRow \in ReportRow
         /\ RefsOf(b) \in SomeRefs /\ index \in Index
         /\ holds = b <=> build[b].pc \in Holding
<1>. LastPush \in Nat
  BY HeadCheckAssumption
<1>1. build[b] \in BuildState /\ remote \in Refs /\ report \in ReportRow /\ covers \in SomeRefs /\ index \in Index
      /\ (holds = b <=> build[b].pc \in Holding)
  BY DEF HeadsTypeOK
<1>2. remote # NoRefs /\ NoRefs \in SomeRefs /\ remote \in SomeRefs
  <2>1. remote.head \in 1 .. LastPush
    BY <1>1 DEF Refs
  <2>2. NoRefs.head = 0
    BY DEF NoRefs
  <2>. QED  BY <1>1, <2>1, <2>2 DEF SomeRefs
<1>3. /\ build[b].quick \in SomeRefs /\ build[b].full \in SomeRefs /\ build[b].remote \in SomeRefs
      /\ build[b].row \in ReportRow /\ build[b].lines \in BOOLEAN
  BY <1>1 DEF BuildState
<1>4. build[b].row.refs \in SomeRefs /\ build[b].row.lines \in BOOLEAN /\ report.refs \in SomeRefs
  BY <1>1, <1>3 DEF ReportRow
<1>5. NoRow \in ReportRow
  BY <1>2 DEF NoRow, ReportRow
<1>. QED  BY <1>1, <1>2, <1>3, <1>4, <1>5 DEF RefsOf

\* A Stored Index that is loaded, and a Report that is published, are typed.
LEMMA LoadsTyped ==
  ASSUME HeadsTypeOK, NEW b \in HeadBuilds, NEW at \in SomeRefs, NEW lines \in BOOLEAN
  PROVE  /\ Loads(at, lines) => index' \in Index
         /\ PublishesMade(b, at, lines) =>
              /\ report' \in ReportRow /\ index' \in Index /\ covers' = at
              /\ report'.refs = RefsOf(b)
<1>1. RefsOf(b) \in SomeRefs /\ index \in Index
  BY HandlerIsTyped
<1>2. at.head \in 0 .. LastPush
  BY HeadIsHead
<1>. QED  BY <1>1, <1>2 DEF Loads, PublishesMade, Index, ReportRow

\* Nobody's handler that is none, or queued.
NotYet(h) ==
  /\ h \in BuildState /\ h.pc \in {"none", "queued"} /\ h.row.refs = NoRefs
  /\ h.remote = NoRefs /\ h.quick = NoRefs /\ h.full = NoRefs

LEMMA NotYets ==
  /\ NotYet(NoHandlerYet) /\ NotYet([NoHandlerYet EXCEPT !.pc = "queued"])
  /\ NotYet([NoHandlerYet EXCEPT !.pc = "queued", !.turn = "more"])
  /\ NotYet([NoHandlerYet EXCEPT !.pc = "queued", !.turn = "retry"])
BY DEF NotYet, NoHandlerYet, BuildState, NoRow, ReportRow, SomeRefs, NoRefs

\* A handler that reads, asks or waits for the repository.
LEMMA ReadingMoves ==
  ASSUME HeadsTypeOK, NEW b \in HeadBuilds,
         PersonAsks(b) \/ BuildReadsRow(b) \/ BuildAsksRemote(b) \/ BuildIsKept(b) \/ BuildGoesOn(b)
  PROVE  \E h \in BuildState : Moves(b, h)
<1>1. UNCHANGED <<remote, report, index, covers, holds, seeds>>
  BY DEF PersonAsks, BuildReadsRow, BuildAsksRemote, BuildIsKept, BuildGoesOn
<1>2. build[b].pc \notin Holding
  BY DEF PersonAsks, BuildQueued, BuildReadsRow, BuildAsksRemote, BuildIsKept, BuildGoesOn, Holding
<1>3. report' \in ReportRow /\ index' \in Index
  BY <1>1, HandlerIsTyped
<1>4. CASE PersonAsks(b) \/ BuildIsKept(b)
  <2>1. PICK h : NotYet(h) /\ build' = [build EXCEPT ![b] = h]
    BY <1>4, NotYets DEF PersonAsks, BuildQueued, BuildIsKept
  <2>. QED  BY <1>1, <1>2, <1>3, <2>1 DEF Moves, NotYet, Holding
<1>5. CASE BuildReadsRow(b)
  <2>. DEFINE h == [build[b] EXCEPT !.pc = "claimed", !.row = report]
  <2>1. /\ h \in BuildState /\ h.pc = "claimed" /\ h.row = report /\ h.remote = build[b].remote
        /\ h.quick = build[b].quick /\ h.full = build[b].full
    BY HandlerIsTyped DEF BuildState
  <2>2. build' = [build EXCEPT ![b] = h]
    BY <1>5 DEF BuildReadsRow, HeadsTypeOK
  <2>. HIDE DEF h
  <2>. QED  BY <1>1, <1>2, <1>3, <2>1, <2>2 DEF Moves, Holding
<1>6. CASE BuildAsksRemote(b)
  <2>1. PICK asked \in {NoRefs, remote} :
          build' = [build EXCEPT ![b].pc = "asked", ![b].remote = asked]
    BY <1>6 DEF BuildAsksRemote
  <2>. DEFINE h == [build[b] EXCEPT !.pc = "asked", !.remote = asked]
  <2>2. /\ h \in BuildState /\ h.pc = "asked" /\ h.row = build[b].row /\ h.remote = asked
        /\ h.quick = build[b].quick /\ h.full = build[b].full
    BY <2>1, HandlerIsTyped DEF BuildState
  <2>3. build' = [build EXCEPT ![b] = h]
    BY <2>1 DEF HeadsTypeOK
  <2>. HIDE DEF h
  <2>. QED  BY <1>1, <1>2, <1>3, <2>1, <2>2, <2>3 DEF Moves, Holding
<1>7. CASE BuildGoesOn(b)
  <2>. DEFINE h == [build[b] EXCEPT !.pc = "waits", !.lines = build[b].row.lines, !.row = NoRow]
  <2>1. /\ h \in BuildState /\ h.pc = "waits" /\ h.row = NoRow /\ h.remote = build[b].remote
        /\ h.quick = build[b].quick /\ h.full = build[b].full
    BY HandlerIsTyped DEF BuildState
  <2>2. build' = [build EXCEPT ![b] = h] /\ NoRow.refs = NoRefs
    BY <1>7 DEF BuildGoesOn, HeadsTypeOK, NoRow
  <2>. HIDE DEF h
  <2>. QED  BY <1>1, <1>2, <1>3, <2>1, <2>2 DEF Moves, Holding
<1>. QED  BY <1>4, <1>5, <1>6, <1>7

\* A handler that holds the repository, up to what it has made.
LEMMA HoldingMoves ==
  ASSUME HeadsTypeOK, NEW b \in HeadBuilds,
         BuildHoldsRepo(b) \/ BuildClonesQuick(b) \/ BuildClones(b) \/ BuildMakesQuick(b)
         \/ BuildCatchesUp(b) \/ BuildMakesFull(b)
  PROVE  \E h \in BuildState : Moves(b, h)
<1>1. UNCHANGED <<remote, report, covers, seeds>>
  BY DEF BuildHoldsRepo, BuildClonesQuick, BuildClones, BuildMakesQuick, BuildCatchesUp, BuildMakesFull
<1>2. report' \in ReportRow
  BY <1>1, HandlerIsTyped
<1>3. index' \in Index
  <2>1. CASE BuildMakesQuick(b) \/ BuildMakesFull(b)
    BY <2>1, HandlerIsTyped, LoadsTyped DEF BuildMakesQuick, BuildMakesFull
  <2>2. CASE UNCHANGED index
    BY <2>2, HandlerIsTyped
  <2>. QED  BY <2>1, <2>2 DEF BuildHoldsRepo, BuildClonesQuick, BuildClones, BuildCatchesUp
<1>4. CASE BuildHoldsRepo(b)
  <2>1. PICK pc \in {"reading", "cloning"} : build' = [build EXCEPT ![b].pc = pc, ![b].lines = FALSE]
    BY <1>4 DEF BuildHoldsRepo
  <2>. DEFINE h == [build[b] EXCEPT !.pc = pc, !.lines = FALSE]
  <2>2. /\ h \in BuildState /\ h.pc = pc /\ h.row = build[b].row /\ h.remote = build[b].remote
        /\ h.quick = build[b].quick /\ h.full = build[b].full
    BY <2>1, HandlerIsTyped DEF BuildState, Holding
  <2>3. build' = [build EXCEPT ![b] = h]
    BY <2>1 DEF HeadsTypeOK
  <2>4. holds = Nobody /\ holds' = b
    BY <1>4 DEF BuildHoldsRepo
  <2>. HIDE DEF h
  <2>. QED  BY <1>1, <1>2, <1>3, <2>1, <2>2, <2>3, <2>4 DEF Moves, Holding
<1>5. CASE BuildClonesQuick(b)
  <2>. DEFINE h == [build[b] EXCEPT !.pc = "cloned", !.quick = remote]
  <2>1. /\ h \in BuildState /\ h.pc = "cloned" /\ h.row = build[b].row /\ h.remote = build[b].remote
        /\ h.quick = remote /\ h.full = build[b].full
    BY HandlerIsTyped DEF BuildState, Holding
  <2>2. build' = [build EXCEPT ![b] = h] /\ build[b].pc = "cloning" /\ UNCHANGED holds
    BY <1>5 DEF BuildClonesQuick, HeadsTypeOK
  <2>. HIDE DEF h
  <2>. QED  BY <1>1, <1>2, <1>3, <2>1, <2>2 DEF Moves, Holding
<1>6. CASE BuildClones(b)
  <2>. DEFINE h == [build[b] EXCEPT !.full = remote]
  <2>1. /\ h \in BuildState /\ h.pc = build[b].pc /\ h.row = build[b].row /\ h.remote = build[b].remote
        /\ h.quick = build[b].quick /\ h.full = remote
    BY HandlerIsTyped DEF BuildState
  <2>2. build' = [build EXCEPT ![b] = h] /\ build[b].pc \in Holding /\ UNCHANGED holds
    BY <1>6 DEF BuildClones, HeadsTypeOK
  <2>. HIDE DEF h
  <2>. QED  BY <1>1, <1>2, <1>3, <2>1, <2>2 DEF Moves
<1>7. CASE BuildMakesQuick(b)
  <2>1. PICK pc \in {"madeQuick", "reading"} : build' = [build EXCEPT ![b].pc = pc]
    BY <1>7 DEF BuildMakesQuick
  <2>. DEFINE h == [build[b] EXCEPT !.pc = pc]
  <2>2. /\ h \in BuildState /\ h.pc = pc /\ h.row = build[b].row /\ h.remote = build[b].remote
        /\ h.quick = build[b].quick /\ h.full = build[b].full
    BY <2>1, HandlerIsTyped DEF BuildState, Holding
  <2>3. build' = [build EXCEPT ![b] = h] /\ build[b].pc = "cloned" /\ UNCHANGED holds
    BY <1>7, <2>1 DEF BuildMakesQuick, HeadsTypeOK
  <2>. HIDE DEF h
  <2>. QED  BY <1>1, <1>2, <1>3, <2>1, <2>2, <2>3 DEF Moves, Holding
<1>8. CASE BuildCatchesUp(b)
  <2>1. PICK full \in {build[b].full, remote} :
          build' = [build EXCEPT ![b].quick = NoRefs, ![b].full = full]
    BY <1>8 DEF BuildCatchesUp
  <2>. DEFINE h == [build[b] EXCEPT !.quick = NoRefs, !.full = full]
  <2>2. /\ h \in BuildState /\ h.pc = build[b].pc /\ h.row = build[b].row /\ h.remote = build[b].remote
        /\ h.quick = NoRefs /\ h.full = full
    BY <2>1, HandlerIsTyped DEF BuildState
  <2>3. build' = [build EXCEPT ![b] = h] /\ build[b].pc = "reading" /\ UNCHANGED holds
    BY <1>8, <2>1 DEF BuildCatchesUp, HeadsTypeOK
  <2>. HIDE DEF h
  <2>. QED  BY <1>1, <1>2, <1>3, <2>1, <2>2, <2>3 DEF Moves, Holding
<1>9. CASE BuildMakesFull(b)
  <2>1. PICK lines \in BOOLEAN : build' = [build EXCEPT ![b].pc = "made", ![b].quick = NoRefs, ![b].lines = lines]
    BY <1>9 DEF BuildMakesFull
  <2>. DEFINE h == [build[b] EXCEPT !.pc = "made", !.quick = NoRefs, !.lines = lines]
  <2>2. /\ h \in BuildState /\ h.pc = "made" /\ h.row = build[b].row /\ h.remote = build[b].remote
        /\ h.quick = NoRefs /\ h.full = build[b].full
    BY <2>1, HandlerIsTyped DEF BuildState, Holding
  <2>3. /\ build' = [build EXCEPT ![b] = h] /\ build[b].pc = "reading" /\ UNCHANGED holds
        /\ build[b].full # NoRefs
    BY <1>9, <2>1 DEF BuildMakesFull, HeadsTypeOK
  <2>. HIDE DEF h
  <2>. QED  BY <1>1, <1>2, <1>3, <2>1, <2>2, <2>3 DEF Moves, Holding
<1>. QED  BY <1>4, <1>5, <1>6, <1>7, <1>8, <1>9

\* A handler that publishes what it has made, or fails.
LEMMA PublishingMoves ==
  ASSUME HeadsTypeOK, NEW b \in HeadBuilds,
         BuildPublishesQuick(b) \/ BuildPublishesFull(b) \/ BuildFails(b)
  PROVE  \E h \in BuildState : Moves(b, h)
<1>1. UNCHANGED <<remote, seeds>>
  BY DEF BuildPublishesQuick, BuildPublishesFull, BuildFails
<1>2. CASE BuildPublishesQuick(b)
  <2>. DEFINE h == [build[b] EXCEPT !.pc = "reading"]
  <2>1. /\ h \in BuildState /\ h.pc = "reading" /\ h.row = build[b].row /\ h.remote = build[b].remote
        /\ h.quick = build[b].quick /\ h.full = build[b].full
    BY HandlerIsTyped DEF BuildState, Holding
  <2>2. build' = [build EXCEPT ![b] = h] /\ build[b].pc = "madeQuick" /\ UNCHANGED holds
    BY <1>2 DEF BuildPublishesQuick, HeadsTypeOK
  <2>3. \/ UNCHANGED <<report, index, covers>>
        \/ /\ report' \in ReportRow /\ index' \in Index /\ covers' = build[b].quick
           /\ report'.refs = RefsOf(b)
    BY <1>2, HandlerIsTyped, LoadsTyped DEF BuildPublishesQuick
  <2>4. report' \in ReportRow /\ index' \in Index
    BY <2>3, HandlerIsTyped
  <2>. HIDE DEF h
  <2>. QED  BY <1>1, <2>1, <2>2, <2>3, <2>4 DEF Moves, Holding
<1>3. CASE BuildPublishesFull(b)
  <2>1. PICK h : NotYet(h) /\ build' = [build EXCEPT ![b] = h]
    BY <1>3, NotYets DEF BuildPublishesFull
  <2>2. build[b].pc = "made" /\ holds' = Nobody /\ holds = b
    BY <1>3, HandlerIsTyped DEF BuildPublishesFull, Holding
  <2>3. /\ report' \in ReportRow /\ index' \in Index /\ covers' = build[b].full
        /\ report'.refs = RefsOf(b)
    BY <1>3, HandlerIsTyped, LoadsTyped DEF BuildPublishesFull
  <2>. QED  BY <1>1, <2>1, <2>2, <2>3 DEF Moves, NotYet, Holding
<1>4. CASE BuildFails(b)
  <2>1. PICK h : NotYet(h) /\ build' = [build EXCEPT ![b] = h]
    BY <1>4, NotYets DEF BuildFails
  <2>2. holds' = Nobody /\ holds = b /\ UNCHANGED <<report, index, covers>>
    BY <1>4 DEF BuildFails
  <2>3. report' \in ReportRow /\ index' \in Index
    BY <2>2, HandlerIsTyped
  <2>. QED  BY <1>1, <2>1, <2>2, <2>3 DEF Moves, NotYet, Holding
<1>. QED  BY <1>2, <1>3, <1>4

-----------------------------------------------------------------------------
(* Types *)

LEMMA HeadsTypesFirst == HeadsInit => HeadsTypeOK
<1>. SUFFICES ASSUME HeadsInit PROVE HeadsTypeOK
  OBVIOUS
<1>1. remote \in Refs /\ LastPush \in Nat
  BY HeadCheckAssumption DEF HeadsInit, Refs
<1>2. NoHandlerYet \in BuildState
  BY NotYets DEF NotYet
<1>. QED  BY <1>1, <1>2, HeadCheckAssumption
  DEF HeadsInit, HeadsTypeOK, NoRow, ReportRow, NoIndexYet, Index, SeedsIdle, SeedsState, NoHandlerYet, SomeRefs, Holding

LEMMA MovesKeepTypes ==
  ASSUME HeadsTypeOK, NEW b \in HeadBuilds, NEW h \in BuildState, Moves(b, h)
  PROVE  HeadsTypeOK'
<1>1. build' \in [HeadBuilds -> BuildState] /\ build'[b] = h /\ \A c \in HeadBuilds : c # b => build'[c] = build[c]
  BY DEF HeadsTypeOK, Moves
<1>2. \A c \in HeadBuilds : holds = c <=> build[c].pc \in Holding
  BY DEF HeadsTypeOK
<1>3. \A c \in HeadBuilds : holds' = c <=> build'[c].pc \in Holding
  BY <1>1, <1>2, HeadCheckAssumption DEF Moves
<1>4. covers' \in SomeRefs /\ report' \in ReportRow /\ index' \in Index /\ UNCHANGED <<remote, seeds>>
  BY HandlerIsTyped DEF Moves
<1>5. holds' \in HeadBuilds \cup {Nobody}
  BY DEF HeadsTypeOK, Moves
<1>. QED  BY <1>1, <1>3, <1>4, <1>5 DEF HeadsTypeOK

\* The nightly run reads, asks and marks, or queues a Build.
LEMMA SeedsStep ==
  ASSUME HeadsTypeOK, SeedsRead \/ SeedsMark \/ SeedsQueue
  PROVE  /\ UNCHANGED <<remote, report, index, covers, holds>> /\ seeds' \in SeedsState
         /\ \/ UNCHANGED build
            \/ \E b \in HeadBuilds : build[b].pc = "none" /\ BuildQueued(b)
<1>1. index.head \in 0 .. LastPush /\ 0 \in 0 .. LastPush
  BY HeadCheckAssumption DEF HeadsTypeOK, Index
<1>. QED  BY <1>1 DEF SeedsRead, SeedsMark, SeedsQueue, SeedsIdle, SeedsState, BuildQueued

LEMMA SeedsKeepTypes ==
  ASSUME HeadsTypeOK, SeedsRead \/ SeedsMark \/ SeedsQueue
  PROVE  HeadsTypeOK'
<1>1. UNCHANGED <<remote, report, index, covers, holds>> /\ seeds' \in SeedsState
  BY SeedsStep
<1>2. CASE UNCHANGED build
  BY <1>1, <1>2 DEF HeadsTypeOK
<1>3. ASSUME NEW b \in HeadBuilds, build[b].pc = "none", BuildQueued(b)
      PROVE  HeadsTypeOK'
  <2>1. PICK h : NotYet(h) /\ h.pc = "queued" /\ build' = [build EXCEPT ![b] = h]
    BY <1>3, NotYets DEF BuildQueued, NoHandlerYet
  <2>2. build' \in [HeadBuilds -> BuildState] /\ build'[b] = h /\ \A c \in HeadBuilds : c # b => build'[c] = build[c]
    BY <2>1 DEF HeadsTypeOK, NotYet
  <2>3. \A c \in HeadBuilds : build'[c].pc \in Holding <=> build[c].pc \in Holding
    BY <1>3, <2>1, <2>2 DEF Holding
  <2>. QED  BY <1>1, <2>2, <2>3 DEF HeadsTypeOK
<1>. QED  BY <1>2, <1>3, SeedsStep

LEMMA HandlersMove ==
  ASSUME HeadsTypeOK, HeadsNext
  PROVE  \/ Push \/ SeedsRead \/ SeedsMark \/ SeedsQueue
         \/ \E b \in HeadBuilds, h \in BuildState : Moves(b, h)
BY ReadingMoves, HoldingMoves, PublishingMoves DEF HeadsNext

LEMMA HeadsTypesKept == HeadsTypeOK /\ [HeadsNext]_headsVars => HeadsTypeOK'
<1>. SUFFICES ASSUME HeadsTypeOK, [HeadsNext]_headsVars
     PROVE  HeadsTypeOK'
  OBVIOUS
<1>1. CASE UNCHANGED headsVars
  BY <1>1 DEF headsVars, HeadsTypeOK
<1>2. CASE Push
  <2>1. remote \in Refs /\ LastPush \in Nat
    BY HeadCheckAssumption DEF HeadsTypeOK
  <2>2. remote' \in Refs /\ UNCHANGED <<report, index, covers, build, holds, seeds>>
    BY <1>2, <2>1 DEF Push, Refs
  <2>. QED  BY <2>2 DEF HeadsTypeOK
<1>. QED  BY <1>1, <1>2, HandlersMove, MovesKeepTypes, SeedsKeepTypes

-----------------------------------------------------------------------------
(* Every step keeps the invariant, as long as branches only move on *)

LEMMA HeadsInitInv == HeadsInit => HeadsInv
<1>. SUFFICES ASSUME HeadsInit PROVE HeadsInv
  OBVIOUS
<1>1. HeadsTypeOK
  BY HeadsTypesFirst
<1>2. remote \in SomeRefs
  BY <1>1 DEF HeadsTypeOK, SomeRefs
<1>3. AtLeast(remote, NoRefs) /\ AtLeast(NoRefs, NoRefs)
  BY <1>2, AtLeastItself DEF SomeRefs
<1>4. Says(covers)
  BY <1>3 DEF HeadsInit, Says, NoRow, NoHandlerYet
<1>5. \A b \in HeadBuilds : Ordered(b)
  BY <1>3 DEF HeadsInit, Ordered, CloneSays, NoHandlerYet, Holding
<1>. QED  BY <1>1, <1>4, <1>5 DEF HeadsInv

\* The remote moves on: nothing is less than it was.
LEMMA PushKeeps ==
  ASSUME ~Withdrawn, HeadsInv, Push
  PROVE  HeadsInv'
<1>1. remote' \in Refs /\ AtLeast(remote', remote)
  BY PushAdds DEF HeadsInv
<1>2. UNCHANGED <<report, index, covers, build, holds, seeds>>
  BY DEF Push
<1>3. HeadsTypeOK'
  BY <1>1, <1>2 DEF HeadsInv, HeadsTypeOK
<1>4. \A a \in SomeRefs : AtLeast(remote, a) => AtLeast(remote', a)
  BY <1>1, AtLeastTransitive DEF HeadsInv, HeadsTypeOK, SomeRefs
<1>5. \A a \in SomeRefs : Says(a) => Says(a)'
  BY <1>2, <1>4 DEF Says
<1>6. ASSUME NEW b \in HeadBuilds
      PROVE  Ordered(b)'
  <2>1. build[b].quick \in SomeRefs /\ build[b].full \in SomeRefs /\ build[b].remote \in SomeRefs
    BY HandlerIsTyped DEF HeadsInv
  <2>2. Ordered(b)
    BY DEF HeadsInv
  <2>. QED  BY <1>2, <1>4, <1>5, <2>1, <2>2 DEF Ordered, CloneSays
<1>7. Says(covers)'
  BY <1>2, <1>5 DEF HeadsInv, HeadsTypeOK
<1>. QED  BY <1>3, <1>6, <1>7 DEF HeadsInv

\* A handler's step adds nothing to what has been said that its own clone does not hold.
LEMMA MovesKeep ==
  ASSUME HeadsInv, NEW b \in HeadBuilds, NEW h \in BuildState, Moves(b, h)
  PROVE  HeadsInv'
<1>1. HeadsTypeOK /\ HeadsTypeOK'
  BY MovesKeepTypes DEF HeadsInv
<1>2. build'[b] = h /\ (\A c \in HeadBuilds : c # b => build'[c] = build[c]) /\ UNCHANGED remote
  BY <1>1 DEF HeadsTypeOK, Moves
<1>3. \A c \in HeadBuilds : Ordered(c) /\ (holds = c <=> build[c].pc \in Holding)
  BY <1>1 DEF HeadsInv, HeadsTypeOK
<1>4. /\ \A a \in SomeRefs : AtLeast(a, a) /\ AtLeast(a, NoRefs)
      /\ remote \in SomeRefs /\ covers \in SomeRefs /\ report.refs \in SomeRefs /\ remote # NoRefs
      /\ \A c \in HeadBuilds :
           /\ build[c].quick \in SomeRefs /\ build[c].full \in SomeRefs /\ build[c].remote \in SomeRefs
           /\ build[c].row.refs \in SomeRefs
  BY <1>1, AtLeastItself, HandlerIsTyped
<1>5. Says(covers)
  BY DEF HeadsInv
<1>6. Says(remote)
  BY <1>4, <1>5, AtLeastTransitive DEF Says
<1>7. ASSUME NEW a \in SomeRefs, Says(a), UNCHANGED report
      PROVE  Says(a)'
  <2>1. h.row.refs \in {NoRefs, report.refs, build[b].row.refs}
    BY DEF Moves
  <2>. QED  BY <1>2, <1>4, <1>7, <2>1 DEF Says
<1>8. CASE UNCHANGED <<report, covers>>
  <2>1. Says(covers)'
    BY <1>4, <1>5, <1>7, <1>8
  <2>2. \A c \in HeadBuilds : c # b => Ordered(c)'
    BY <1>2, <1>3, <1>4, <1>7, <1>8 DEF Ordered, CloneSays
  <2>3. Ordered(b)'
    <3>1. AtLeast(remote, h.remote)
      BY <1>3, <1>4 DEF Moves, Ordered
    <3>2. ASSUME NEW at, at = h.quick \/ at = h.full, at # NoRefs
          PROVE  Says(at)' /\ AtLeast(at, h.remote)
      <4>1. at \in {remote, build[b].quick, build[b].full}
        BY <3>2 DEF Moves
      <4>2. Says(at)'
        BY <1>3, <1>4, <1>6, <1>7, <1>8, <3>2, <4>1 DEF Ordered, CloneSays
      <4>3. AtLeast(at, h.remote)
        <5>1. CASE at = remote
          BY <3>1, <5>1
        <5>2. CASE at # remote
          <6>1. build[b].pc \in Holding
            BY <1>3, <3>2, <4>1, <5>2 DEF Ordered
          <6>2. h.remote = build[b].remote \/ h.remote = NoRefs
            BY <6>1 DEF Moves
          <6>. QED  BY <1>3, <1>4, <3>2, <4>1, <5>2, <6>2 DEF Ordered, CloneSays
        <5>. QED  BY <5>1, <5>2
      <4>. QED  BY <4>2, <4>3
    <3>3. h.pc \notin Holding => h.quick = NoRefs /\ h.full = NoRefs
      BY <1>3 DEF Moves, Ordered
    <3>4. h.pc \in {"cloned", "madeQuick"} => h.quick # NoRefs
      BY <1>3, <1>4 DEF Moves, Ordered
    <3>5. h.pc = "made" => h.full # NoRefs
      BY <1>3, <1>4 DEF Moves, Ordered
    <3>. QED  BY <1>2, <3>1, <3>2, <3>3, <3>4, <3>5 DEF Ordered, CloneSays
  <2>. QED  BY <1>1, <2>1, <2>2, <2>3 DEF HeadsInv
<1>9. CASE /\ report'.refs = RefsOf(b)
           /\ \/ build[b].pc = "madeQuick" /\ covers' = build[b].quick
              \/ build[b].pc = "made" /\ covers' = build[b].full
  <2>1. build[b].pc \in Holding /\ holds = b
    BY <1>3, <1>9 DEF Holding
  <2>2. \A c \in HeadBuilds : c # b => build[c].quick = NoRefs /\ build[c].full = NoRefs
    BY <1>3, <2>1 DEF Ordered
  <2>3. report'.refs \in {report.refs, build[b].remote}
    BY <1>9 DEF RefsOf
  <2>4. h.remote = build[b].remote \/ h.remote = NoRefs
    BY <2>1 DEF Moves
  <2>5. ASSUME NEW at \in SomeRefs, Says(at), AtLeast(at, build[b].remote)
        PROVE  Says(at)'
    <3>1. h.row.refs \in {NoRefs, report.refs, build[b].row.refs}
      BY DEF Moves
    <3>. QED  BY <1>2, <1>4, <2>3, <2>5, <3>1 DEF Says
  <2>6. Says(covers)'
    BY <1>3, <1>4, <1>9, <2>5 DEF Ordered, CloneSays
  <2>7. \A c \in HeadBuilds : c # b => Ordered(c)'
    BY <1>2, <1>3, <2>2 DEF Ordered, CloneSays
  <2>8. Ordered(b)'
    <3>1. AtLeast(remote, h.remote)
      BY <1>3, <1>4 DEF Moves, Ordered
    <3>2. ASSUME NEW at, at = h.quick \/ at = h.full, at # NoRefs
          PROVE  Says(at)' /\ AtLeast(at, h.remote)
      <4>1. at \in {remote, build[b].quick, build[b].full}
        BY <3>2 DEF Moves
      <4>2. Says(at) /\ AtLeast(at, build[b].remote) /\ at \in SomeRefs
        BY <1>3, <1>4, <1>6, <3>2, <4>1 DEF Ordered, CloneSays
      <4>. QED  BY <1>4, <2>4, <2>5, <4>2
    <3>3. h.pc \notin Holding => h.quick = NoRefs /\ h.full = NoRefs
      BY <2>1 DEF Moves
    <3>4. h.pc \in {"cloned", "madeQuick"} => h.quick # NoRefs
      BY <1>3, <1>4 DEF Moves, Ordered
    <3>5. h.pc = "made" => h.full # NoRefs
      BY <1>3, <1>4 DEF Moves, Ordered
    <3>. QED  BY <1>2, <3>1, <3>2, <3>3, <3>4, <3>5 DEF Ordered, CloneSays
  <2>. QED  BY <1>1, <2>6, <2>7, <2>8 DEF HeadsInv
<1>. QED  BY <1>8, <1>9 DEF Moves

LEMMA SeedsKeep ==
  ASSUME HeadsInv, SeedsRead \/ SeedsMark \/ SeedsQueue
  PROVE  HeadsInv'
<1>1. HeadsTypeOK /\ HeadsTypeOK'
  BY SeedsKeepTypes DEF HeadsInv
<1>2. UNCHANGED <<remote, report, index, covers, holds>>
  BY <1>1, SeedsStep
<1>3. CASE UNCHANGED build
  BY <1>1, <1>2, <1>3 DEF HeadsInv, Says, Ordered, CloneSays
<1>4. ASSUME NEW b \in HeadBuilds, build[b].pc = "none", BuildQueued(b)
      PROVE  HeadsInv'
  <2>1. PICK h : NotYet(h) /\ build' = [build EXCEPT ![b] = h]
    BY <1>4, NotYets DEF BuildQueued
  <2>2. build'[b] = h /\ \A c \in HeadBuilds : c # b => build'[c] = build[c]
    BY <1>1, <2>1 DEF HeadsTypeOK
  <2>3. \A a \in SomeRefs : AtLeast(a, NoRefs)
    BY AtLeastItself
  <2>4. \A a \in SomeRefs : Says(a) => Says(a)'
    BY <1>2, <2>1, <2>2, <2>3 DEF Says, NotYet
  <2>5. ASSUME NEW c \in HeadBuilds
        PROVE  Ordered(c)'
    <3>1. build[c].quick \in SomeRefs /\ build[c].full \in SomeRefs /\ remote \in SomeRefs
      BY <1>1, HandlerIsTyped
    <3>2. CASE c = b
      BY <1>2, <2>1, <2>2, <2>3, <3>1, <3>2 DEF Ordered, CloneSays, NotYet
    <3>3. CASE c # b
      BY <1>2, <2>2, <2>4, <3>1, <3>3 DEF HeadsInv, Ordered, CloneSays
    <3>. QED  BY <3>2, <3>3
  <2>6. Says(covers)'
    BY <1>1, <1>2, <2>4 DEF HeadsInv, HeadsTypeOK
  <2>. QED  BY <1>1, <2>5, <2>6 DEF HeadsInv
<1>. QED  BY <1>1, <1>3, <1>4, SeedsStep

LEMMA HeadsNextInv ==
  ASSUME ~Withdrawn
  PROVE  HeadsInv /\ [HeadsNext]_headsVars => HeadsInv'
<1>. SUFFICES ASSUME HeadsInv, [HeadsNext]_headsVars PROVE HeadsInv'
  OBVIOUS
<1>1. CASE UNCHANGED headsVars
  BY <1>1 DEF headsVars, HeadsInv, HeadsTypeOK, Says, Ordered, CloneSays
<1>2. CASE HeadsNext
  <2>1. HeadsTypeOK
    BY DEF HeadsInv
  <2>. QED  BY <1>2, <2>1, HandlersMove, PushKeeps, MovesKeep, SeedsKeep
<1>. QED  BY <1>1, <1>2

-----------------------------------------------------------------------------
(* Theorems *)

\* As long as branches only move on, the refs kept with a Report are never ahead of the
\* pack it is served from.
THEOREM RefsNeverAhead ==
  ASSUME ~Withdrawn
  PROVE  HeadsSpec => []RefsNotAhead
<1>1. HeadsInv => RefsNotAhead
  BY DEF HeadsInv, Says, RefsNotAhead
<1>. QED  BY <1>1, HeadsInitInv, HeadsNextInv, PTL DEF HeadsSpec

\* So a Build that ends at its head check keeps a Report of every branch as it found them.
THEOREM KeptReportsAreCurrent ==
  ASSUME ~Withdrawn
  PROVE  HeadsSpec => KeptIsCurrent
<1>1. HeadsInv /\ [HeadsNext]_headsVars
        => [\A b \in HeadBuilds : BuildIsKept(b) => AtLeast(covers, build[b].remote)]_headsVars
  BY DEF HeadsInv, Says, BuildIsKept, refsUnchanged
<1>. QED  BY <1>1, HeadsInitInv, HeadsNextInv, PTL DEF HeadsSpec, KeptIsCurrent

-----------------------------------------------------------------------------
(* HeadCheck: what makes the seeds mark a Report that was not made from there *)

\* A Build that fails leaves no load behind that its pack was not published with.
FailsAsPublished == \A b \in HeadBuilds : BuildFails(b) => index.head <= covers.head

\* A clone holds what the seeds have read, or would read now.
Kept(at) ==
  at # NoRefs => seeds.head <= at.head /\ (index.lines /\ report.lines => index.head <= at.head)

\* Only who holds the repository has the index ahead of the pack, or is to put it back from a
\* quick clone to a full one, when the seeds find it without lines.
LoadedInv ==
  /\ HeadsInv
  /\ index.head <= remote.head /\ seeds.head <= remote.head
  /\ seeds.head <= covers.head \/ seeds.head <= index.head
  /\ holds = Nobody => index.head <= covers.head
  /\ \A b \in HeadBuilds : Kept(build[b].quick) /\ Kept(build[b].full)

LEMMA HeadsAreNats ==
  ASSUME HeadsTypeOK
  PROVE  /\ index.head \in Nat /\ covers.head \in Nat /\ seeds.head \in Nat /\ remote.head \in Nat
         /\ \A b \in HeadBuilds : build[b].quick.head \in Nat /\ build[b].full.head \in Nat
<1>1. LastPush \in Nat
  BY HeadCheckAssumption
<1>2. \A a \in SomeRefs : a.head \in Nat
  BY <1>1, HeadIsHead
<1>3. \A b \in HeadBuilds : build[b].quick \in SomeRefs /\ build[b].full \in SomeRefs
  BY HandlerIsTyped
<1>. QED  BY <1>1, <1>2, <1>3 DEF HeadsTypeOK, Index, SeedsState, SeedsIdle, SomeRefs

\* A step that moves neither the Stored Index nor what the seeds have read.
LEMMA ClonesLeaveLoads ==
  ASSUME LoadedInv, HeadsInv', UNCHANGED <<index, report, covers, seeds>>, remote'.head >= remote.head,
         holds' = Nobody => index.head <= covers.head,
         \A c \in HeadBuilds :
           /\ build'[c].quick \in {NoRefs, remote, build[c].quick}
           /\ build'[c].full \in {NoRefs, remote, build[c].full}
  PROVE  LoadedInv'
<1>1. index.head \in Nat /\ seeds.head \in Nat /\ remote.head \in Nat /\ remote'.head \in Nat
  <2>1. HeadsTypeOK /\ HeadsTypeOK'
    BY DEF LoadedInv, HeadsInv
  <2>. QED  BY <2>1, HeadsAreNats, HeadCheckAssumption DEF HeadsTypeOK, Refs
<1>2. index.head <= remote'.head /\ seeds.head <= remote'.head
  BY <1>1 DEF LoadedInv
<1>3. Kept(remote) /\ Kept(NoRefs)
  BY DEF LoadedInv, Kept
<1>4. \A c \in HeadBuilds : Kept(build'[c].quick) /\ Kept(build'[c].full)
  BY <1>3 DEF LoadedInv
<1>5. \A c \in HeadBuilds : Kept(build[c].quick)' /\ Kept(build[c].full)'
  BY <1>4 DEF Kept
<1>. QED  BY <1>2, <1>5 DEF LoadedInv

LEMMA LoadedStep ==
  ASSUME ~Withdrawn, LoadedInv, HeadsInv', [HeadsNext]_headsVars, [FailsAsPublished]_headsVars
  PROVE  LoadedInv'
<1>1. HeadsInv /\ HeadsTypeOK /\ HeadsTypeOK'
  BY DEF LoadedInv, HeadsInv
<1>2. /\ index.head \in Nat /\ covers.head \in Nat /\ seeds.head \in Nat /\ remote.head \in Nat
      /\ \A b \in HeadBuilds : build[b].quick.head \in Nat /\ build[b].full.head \in Nat
  BY <1>1, HeadsAreNats
<1>3. ASSUME NEW b \in HeadBuilds, NEW at, at = build[b].quick \/ at = build[b].full, at # NoRefs
      PROVE  at.head <= remote.head /\ seeds.head <= at.head /\ at.head \in Nat
  BY <1>2, <1>3 DEF LoadedInv, Kept, HeadsInv, Ordered, CloneSays, Says, AtLeast
<1>4. \A b \in HeadBuilds :
        /\ holds = b <=> build[b].pc \in Holding
        /\ build[b].pc \notin Holding => build[b].quick = NoRefs /\ build[b].full = NoRefs
  BY <1>1 DEF HeadsTypeOK, HeadsInv, Ordered
<1>5. CASE UNCHANGED headsVars
  BY <1>5 DEF headsVars, LoadedInv, Kept
<1>6. CASE Push
  <2>1. AtLeast(remote', remote) /\ UNCHANGED <<report, index, covers, build, holds, seeds>>
    BY <1>1, <1>6, PushAdds DEF Push
  <2>2. remote'.head >= remote.head
    BY <2>1 DEF AtLeast
  <2>. QED  BY <2>1, <2>2, ClonesLeaveLoads DEF LoadedInv
<1>7. ASSUME NEW b \in HeadBuilds,
             \/ PersonAsks(b) \/ BuildReadsRow(b) \/ BuildAsksRemote(b) \/ BuildIsKept(b) \/ BuildGoesOn(b)
             \/ BuildHoldsRepo(b) \/ BuildClonesQuick(b) \/ BuildClones(b) \/ BuildCatchesUp(b)
      PROVE  LoadedInv'
  <2>1. PICK h \in BuildState : Moves(b, h)
    BY <1>1, <1>7, ReadingMoves, HoldingMoves
  <2>2. UNCHANGED <<remote, report, index, covers, seeds>>
    BY <1>7 DEF PersonAsks, BuildReadsRow, BuildAsksRemote, BuildIsKept, BuildGoesOn,
                BuildHoldsRepo, BuildClonesQuick, BuildClones, BuildCatchesUp
  <2>3. holds' \in {holds, b} /\ b # Nobody
    BY <1>7, HeadCheckAssumption
    DEF PersonAsks, BuildReadsRow, BuildAsksRemote, BuildIsKept, BuildGoesOn,
        BuildHoldsRepo, BuildClonesQuick, BuildClones, BuildCatchesUp
  <2>4. build'[b] = h /\ \A c \in HeadBuilds : c # b => build'[c] = build[c]
    BY <1>1, <2>1 DEF Moves, HeadsTypeOK
  <2>5. \A c \in HeadBuilds :
           /\ build'[c].quick \in {NoRefs, remote, build[c].quick}
           /\ build'[c].full \in {NoRefs, remote, build[c].full}
    BY <2>1, <2>4 DEF Moves
  <2>6. remote'.head >= remote.head
    BY <1>2, <2>2
  <2>7. holds' = Nobody => index.head <= covers.head
    BY <2>3 DEF LoadedInv
  <2>. QED  BY <2>2, <2>5, <2>6, <2>7, ClonesLeaveLoads
<1>8. ASSUME NEW b \in HeadBuilds, BuildMakesQuick(b)
      PROVE  LoadedInv'
  <2>1. build[b].pc = "cloned" /\ UNCHANGED <<remote, report, covers, seeds, holds>>
    BY <1>8 DEF BuildMakesQuick
  <2>2. holds = b /\ build[b].quick # NoRefs /\ b # Nobody
    BY <1>1, <1>4, <2>1, HeadCheckAssumption DEF HeadsInv, Ordered, Holding
  <2>3. \A c \in HeadBuilds : build'[c].quick = build[c].quick /\ build'[c].full = build[c].full
    BY <1>1, <1>8 DEF BuildMakesQuick, HeadsTypeOK, BuildState
  <2>4. CASE UNCHANGED index
    BY <2>1, <2>3, <2>4 DEF LoadedInv, Kept
  <2>5. CASE index' = [head |-> build[b].quick.head, lines |-> FALSE]
    <3>1. index'.head = build[b].quick.head /\ index'.lines = FALSE
      BY <2>5
    <3>2. build[b].quick.head <= remote.head /\ seeds.head <= build[b].quick.head
      BY <1>3, <2>2
    <3>3. \A c \in HeadBuilds : Kept(build[c].quick)' /\ Kept(build[c].full)'
      BY <2>1, <2>3, <3>1 DEF LoadedInv, Kept
    <3>. QED  BY <2>1, <2>2, <3>1, <3>2, <3>3 DEF LoadedInv
  <2>. QED  BY <1>8, <2>4, <2>5 DEF BuildMakesQuick, Loads
<1>9. ASSUME NEW b \in HeadBuilds, BuildMakesFull(b)
      PROVE  LoadedInv'
  <2>1. build[b].pc = "reading" /\ build[b].full # NoRefs /\ UNCHANGED <<remote, report, covers, seeds, holds>>
    BY <1>9 DEF BuildMakesFull
  <2>2. holds = b /\ b # Nobody
    BY <1>4, <2>1, HeadCheckAssumption DEF Holding
  <2>3. PICK lines \in BOOLEAN :
          /\ Loads(build[b].full, lines)
          /\ build' = [build EXCEPT ![b].pc = "made", ![b].quick = NoRefs, ![b].lines = lines]
    BY <1>9 DEF BuildMakesFull
  <2>4. build'[b].quick = NoRefs /\ build'[b].full = build[b].full
        /\ \A c \in HeadBuilds : c # b => build'[c] = build[c]
    BY <1>1, <2>3 DEF HeadsTypeOK, BuildState
  <2>5. CASE UNCHANGED index
    <3>1. \A c \in HeadBuilds : Kept(build[c].quick)' /\ Kept(build[c].full)'
      BY <2>1, <2>4, <2>5 DEF LoadedInv, Kept
    <3>. QED  BY <2>1, <2>5, <3>1 DEF LoadedInv
  <2>6. CASE index' = [head |-> build[b].full.head, lines |-> lines]
    <3>1. index'.head = build[b].full.head
      BY <2>6
    <3>2. build[b].full.head <= remote.head /\ seeds.head <= build[b].full.head /\ build[b].full.head \in Nat
      BY <1>3, <2>1
    <3>3. \A c \in HeadBuilds : c # b => build'[c].quick = NoRefs /\ build'[c].full = NoRefs
      BY <1>4, <2>2, <2>4
    <3>4. \A c \in HeadBuilds : Kept(build[c].quick)' /\ Kept(build[c].full)'
      BY <2>1, <2>4, <3>1, <3>2, <3>3 DEF Kept
    <3>. QED  BY <2>1, <2>2, <3>1, <3>2, <3>4 DEF LoadedInv
  <2>. QED  BY <2>3, <2>5, <2>6 DEF Loads
<1>10. ASSUME NEW b \in HeadBuilds, BuildPublishesQuick(b)
       PROVE  LoadedInv'
  <2>1. build[b].pc = "madeQuick" /\ UNCHANGED <<remote, holds, seeds>>
    BY <1>10 DEF BuildPublishesQuick
  <2>2. holds = b /\ build[b].quick # NoRefs /\ b # Nobody
    BY <1>1, <1>4, <2>1, HeadCheckAssumption DEF HeadsInv, Ordered, Holding
  <2>3. \A c \in HeadBuilds : build'[c].quick = build[c].quick /\ build'[c].full = build[c].full
    BY <1>1, <1>10 DEF BuildPublishesQuick, HeadsTypeOK, BuildState
  <2>4. CASE UNCHANGED <<report, index, covers>>
    BY <2>1, <2>3, <2>4 DEF LoadedInv, Kept
  <2>5. CASE PublishesMade(b, build[b].quick, FALSE)
    <3>1. index'.head = build[b].quick.head /\ index'.lines = FALSE /\ covers' = build[b].quick
      BY <2>5 DEF PublishesMade
    <3>2. build[b].quick.head <= remote.head /\ seeds.head <= build[b].quick.head
      BY <1>3, <2>2
    <3>3. \A c \in HeadBuilds : Kept(build[c].quick)' /\ Kept(build[c].full)'
      BY <2>1, <2>3, <3>1 DEF LoadedInv, Kept
    <3>. QED  BY <2>1, <2>2, <3>1, <3>2, <3>3 DEF LoadedInv
  <2>. QED  BY <1>10, <2>4, <2>5 DEF BuildPublishesQuick
<1>11. ASSUME NEW b \in HeadBuilds, BuildPublishesFull(b) \/ BuildFails(b)
       PROVE  LoadedInv'
  <2>1. PICK h : NotYet(h) /\ build' = [build EXCEPT ![b] = h]
    BY <1>11, NotYets DEF BuildPublishesFull, BuildFails
  <2>2. UNCHANGED <<remote, seeds>> /\ holds = b /\ holds' = Nobody /\ b # Nobody
    BY <1>4, <1>11, HeadCheckAssumption DEF BuildPublishesFull, BuildFails, Holding
  <2>3. build'[b] = h /\ \A c \in HeadBuilds : c # b => build'[c] = build[c]
    BY <1>1, <2>1 DEF HeadsTypeOK
  <2>4. \A c \in HeadBuilds : build'[c].quick = NoRefs /\ build'[c].full = NoRefs
    BY <1>4, <2>1, <2>2, <2>3 DEF NotYet
  <2>5. \A c \in HeadBuilds : Kept(build[c].quick)' /\ Kept(build[c].full)'
    BY <2>4 DEF Kept
  <2>6. CASE BuildPublishesFull(b)
    <3>1. build[b].pc = "made" /\ PublishesMade(b, build[b].full, build[b].lines)
      BY <2>6 DEF BuildPublishesFull
    <3>2. build[b].full # NoRefs
      BY <1>1, <3>1 DEF HeadsInv, Ordered
    <3>3. index'.head = build[b].full.head /\ covers'.head = build[b].full.head
      BY <3>1 DEF PublishesMade
    <3>4. build[b].full.head <= remote.head /\ seeds.head <= build[b].full.head /\ build[b].full.head \in Nat
      BY <1>3, <3>2
    <3>. QED  BY <2>2, <2>5, <3>3, <3>4 DEF LoadedInv
  <2>7. CASE BuildFails(b)
    <3>1. holds' # holds /\ UNCHANGED <<index, covers>>
      BY <2>2, <2>7 DEF BuildFails
    <3>2. index.head <= covers.head
      BY <2>7, <3>1 DEF FailsAsPublished, headsVars
    <3>. QED  BY <2>2, <2>5, <3>1, <3>2 DEF LoadedInv
  <2>. QED  BY <1>11, <2>6, <2>7
<1>12. CASE SeedsRead \/ SeedsMark \/ SeedsQueue
  <2>1. /\ UNCHANGED <<remote, report, index, covers, holds>>
        /\ \/ UNCHANGED build
           \/ \E b \in HeadBuilds : build[b].pc = "none" /\ BuildQueued(b)
    BY <1>1, <1>12, SeedsStep
  <2>2. \/ seeds'.head = 0
        \/ seeds'.head = index.head /\ index.lines /\ report.lines
    BY <1>12 DEF SeedsRead, SeedsMark, SeedsQueue, SeedsIdle, whole
  <2>3. \A c \in HeadBuilds :
          build'[c].quick \in {NoRefs, build[c].quick} /\ build'[c].full \in {NoRefs, build[c].full}
    <3>1. CASE UNCHANGED build
      BY <3>1
    <3>2. ASSUME NEW b \in HeadBuilds, BuildQueued(b)
          PROVE  \A c \in HeadBuilds :
                   build'[c].quick \in {NoRefs, build[c].quick} /\ build'[c].full \in {NoRefs, build[c].full}
      <4>1. PICK h : NotYet(h) /\ build' = [build EXCEPT ![b] = h]
        BY <3>2, NotYets DEF BuildQueued
      <4>. QED  BY <1>1, <4>1 DEF HeadsTypeOK, NotYet
    <3>. QED  BY <2>1, <3>1, <3>2
  <2>4. \A c \in HeadBuilds : Kept(build[c].quick)' /\ Kept(build[c].full)'
    BY <1>2, <2>1, <2>2, <2>3 DEF LoadedInv, Kept
  <2>. QED  BY <1>2, <2>1, <2>2, <2>4 DEF LoadedInv
<1>. QED  BY <1>5, <1>6, <1>7, <1>8, <1>9, <1>10, <1>11, <1>12 DEF HeadsNext

LEMMA LoadedFirst == HeadsInit => LoadedInv
<1>. SUFFICES ASSUME HeadsInit PROVE LoadedInv
  OBVIOUS
<1>1. HeadsInv
  BY HeadsInitInv
<1>. QED  BY <1>1 DEF HeadsInit, LoadedInv, Kept, NoIndexYet, NoHandlerYet, NoRefs, SeedsIdle

\* What `unchanged` is asked ("the default branch's head is still the one it was built from")
\* goes wrong by one thing alone: a Build that fails after its load moved the index.  While
\* none does, whatever the seeds read in the middle of which Build, and however many retries
\* and skipped quick Reports, what they mark checked was made from the head they found.
THEOREM CheckedUnlessItFails ==
  ASSUME ~Withdrawn
  PROVE  HeadsSpec /\ [][FailsAsPublished]_headsVars => []CheckedIsCovered
<1>1. LoadedInv => CheckedIsCovered
  <2>. SUFFICES ASSUME LoadedInv, \A b \in HeadBuilds : build[b].pc = "none"
       PROVE  covers.head >= seeds.head
    BY DEF CheckedIsCovered
  <2>1. holds = Nobody
    BY DEF LoadedInv, HeadsInv, HeadsTypeOK, Holding
  <2>2. index.head <= covers.head /\ (seeds.head <= covers.head \/ seeds.head <= index.head)
    BY <2>1 DEF LoadedInv
  <2>. QED  BY <2>2, HeadsAreNats DEF LoadedInv, HeadsInv
<1>2. LoadedInv /\ [HeadsNext]_headsVars /\ [FailsAsPublished]_headsVars => LoadedInv'
  <2>. SUFFICES ASSUME LoadedInv, [HeadsNext]_headsVars, [FailsAsPublished]_headsVars  PROVE LoadedInv'
    OBVIOUS
  <2>1. HeadsInv'
    BY HeadsNextInv DEF LoadedInv
  <2>. QED  BY <2>1, LoadedStep
<1>. QED  BY <1>1, <1>2, LoadedFirst, PTL DEF HeadsSpec

-----------------------------------------------------------------------------
(* Shares: an object keeps its row *)

\* Between the two deletions of a removal there is no object but a late one,
\* so the row that goes next leads to none.
EmptiedHasNone == \A s \in Shares : IsEmptied(s) => s \notin object \ late

SharesInv == SharesTypeOK /\ NoObjectIsLeft /\ EmptiedHasNone

\* The types hold at first, and nothing is stored.
LEMMA SharesInvFirst == SharesInit => SharesInv
BY DEF SharesInit, SharesInv, SharesTypeOK, NoObjectIsLeft, EmptiedHasNone, IsEmptied, There,
       Share, UploadState, NoUpload, ExpiryState, NoExpiry

\* Dropping rows leaves the other rows, and the types, as they are.
LEMMA DropRowsKeeps ==
  ASSUME SharesTypeOK, NEW ids \in SUBSET Shares, DropRows(ids)
  PROVE  /\ share' \in [Shares -> Share]
         /\ \A s \in Shares \ ids : share'[s] = share[s]
BY DEF SharesTypeOK, DropRows, There, Share

\* One step: the actions that make an object, or take a row, keep one to the other.
LEMMA SharesInvIsKept == SharesInv /\ [SharesNext]_sharesVars => SharesInv'
<1> SUFFICES ASSUME SharesInv, [SharesNext]_sharesVars
             PROVE  SharesInv'
  OBVIOUS
<1> USE DEF SharesInv, SharesTypeOK, NoObjectIsLeft, EmptiedHasNone, IsEmptied, There
<1>1. ASSUME NEW s \in Shares, CreateShare(s) PROVE SharesInv'
  BY <1>1 DEF CreateShare, Share
<1>2. ASSUME NEW s \in Shares, GrowsOld(s) PROVE SharesInv'
  BY <1>2 DEF GrowsOld, Share
<1>3. ASSUME NEW s \in Shares, DeleteReads(s) \/ DeleteStops(s) PROVE SharesInv'
  BY <1>3 DEF DeleteReads, DeleteStops
<1>4. ASSUME NEW s \in Shares, DeleteEmpties(s) PROVE SharesInv'
  BY <1>4 DEF DeleteEmpties
<1>5. ASSUME NEW s \in Shares, DeleteDrops(s) PROVE SharesInv'
  <2>1. /\ share' \in [Shares -> Share]
        /\ \A t \in Shares \ {s} : share'[t] = share[t]
    BY <1>5, DropRowsKeeps DEF DeleteDrops
  <2>2. s \notin object \ late
    BY <1>5 DEF DeleteDrops
  <2> QED
    BY <1>5, <2>1, <2>2 DEF DeleteDrops
<1>6. ASSUME NEW u \in Uploaders, NEW s \in Shares, UploadReads(u, s) PROVE SharesInv'
  BY <1>6 DEF UploadReads, UploadState
<1>7. ASSUME NEW u \in Uploaders, UploadPuts(u) PROVE SharesInv'
  <2> DEFINE s == upload[u].id
  <2>1. s \in Shares /\ upload'[u] \in UploadState
    BY <1>7 DEF UploadPuts, UploadState, NoUpload
  <2>2. upload' \in [Uploaders -> UploadState]
    BY <1>7, <2>1 DEF UploadPuts
  <2>3. CASE There(s) /\ ~IsEmptied(s)
    BY <1>7, <2>1, <2>2, <2>3 DEF UploadPuts
  <2>4. CASE ~(There(s) /\ ~IsEmptied(s))
    BY <1>7, <2>1, <2>2, <2>4 DEF UploadPuts
  <2> QED BY <2>3, <2>4
<1>8. ASSUME NEW u \in Uploaders, UploadMarks(u) PROVE SharesInv'
  <2> DEFINE s == upload[u].id
  <2>1. share' \in [Shares -> Share] /\ \A t \in Shares : share'[t].row = share[t].row
    BY <1>8 DEF UploadMarks, Share
  <2>2. upload' \in [Uploaders -> UploadState]
    BY <1>8 DEF UploadMarks, UploadState
  <2> QED
    BY <1>8, <2>1, <2>2 DEF UploadMarks
<1>9. ASSUME NEW u \in Uploaders, UploadStops(u) PROVE SharesInv'
  BY <1>9 DEF UploadStops, UploadState
<1>10. CASE ExpiryReads
  BY <1>10 DEF ExpiryReads, ExpiryState
<1>11. CASE ExpiryEmpties
  BY <1>11 DEF ExpiryEmpties, ExpiryState
<1>12. CASE ExpiryDrops
  <2>1. /\ share' \in [Shares -> Share]
        /\ \A t \in Shares \ expiry.ids : share'[t] = share[t]
    BY <1>12, DropRowsKeeps DEF ExpiryDrops, ExpiryState
  <2>2. \A t \in expiry.ids : t \notin object \ late
    BY <1>12 DEF ExpiryDrops, ExpiryState
  <2> QED
    BY <1>12, <2>1, <2>2 DEF ExpiryDrops, ExpiryState, NoExpiry
<1>13. CASE ExpiryStops
  BY <1>13 DEF ExpiryStops, ExpiryState, NoExpiry
<1>14. CASE UNCHANGED sharesVars
  BY <1>14 DEF sharesVars
<1> QED
  BY <1>1, <1>2, <1>3, <1>4, <1>5, <1>6, <1>7, <1>8, <1>9, <1>10, <1>11, <1>12, <1>13, <1>14 DEF SharesNext

\* An object keeps its row, whatever stops between deleteShare's and expireShares'
\* two deletions, but for an upload that comes after the first of them.
THEOREM ObjectsKeepRows == SharesSpec => []NoObjectIsLeft
<1>1. SharesInv => NoObjectIsLeft
  BY DEF SharesInv
<1> QED
  BY <1>1, SharesInvFirst, SharesInvIsKept, PTL DEF SharesSpec

-----------------------------------------------------------------------------
(* GitHubCache: an answer given as fresh was GitHub's lately *)

\* The last second at which GitHub said a body.
Said(b) == IF github = b THEN time ELSE saidAt[b]

IsUnderWay(p) == flight[p].pc \notin {"none", "reads"}

SaidBefore == \A b \in Bodies : saidAt[b] <= time

FlightsAreShort == \A p \in Servers :
  IsUnderWay(p) => flight[p].at <= time /\ time <= flight[p].at + Longest

\* What a flight brings was said after it read the clock.
BringsSaid == \A p \in Servers :
  /\ flight[p].pc \in {"stores", "passes"} =>
       flight[p].answer \in Bodies /\ flight[p].at <= Said(flight[p].answer)
  /\ flight[p].pc = "revalidates" =>
       flight[p].kept \in Bodies /\ flight[p].at <= Said(flight[p].kept)

RowIsOfItsTime == keptRow.body # NoBody => keptRow.until <= Said(keptRow.body) + Ttl + Longest

\* Under a flight that may keep the row on, the row is the one it read, or one whose
\* request was under way with it.
RowUnderFlight == \A p \in Servers :
  flight[p].pc \in {"sent", "revalidates"} =>
    keptRow.body \in {NoBody, flight[p].kept} \/ flight[p].at <= Said(keptRow.body) + Longest

CacheInv ==
  /\ CacheTypeOK /\ SaidBefore /\ FlightsAreShort
  /\ BringsSaid /\ RowIsOfItsTime /\ RowUnderFlight

-----------------------------------------------------------------------------

\* At first nothing is kept, and nothing is under way.
LEMMA CacheInvFirst == CacheInit => CacheInv
BY CacheAssumption DEF CacheInit, CacheInv, CacheTypeOK, SaidBefore, FlightsAreShort, IsUnderWay,
   BringsSaid, RowIsOfItsTime, RowUnderFlight, NoRowKept, NoFlight, NothingGiven, KeptRow, Flight, Times

\* What GitHub said last is never longer ago than it was.
LEMMA SaidGrows ==
  ASSUME CacheTypeOK, SaidBefore, [CacheNext]_cacheVars, NEW b \in Bodies
  PROVE  Said(b) \in Nat /\ Said(b)' \in Nat /\ Said(b) <= Said(b)' /\ Said(b)' <= time'
<1> USE DEF Said, CacheTypeOK, SaidBefore, Times
<1>1. CASE GitHubChanges
  BY <1>1, CacheAssumption DEF GitHubChanges
<1>2. CASE TimePasses
  BY <1>2, CacheAssumption DEF TimePasses
<1>3. CASE UNCHANGED <<time, github, saidAt>>
  BY <1>3, CacheAssumption
<1> QED
  BY <1>1, <1>2, <1>3 DEF CacheNext, cacheVars, Starts, ReadsFresh, ReadsLimited, Sends, GitHubAnswers,
     Revalidates, StoresAnswer, PassesOn, FallsBack, Prunes

\* What the invariant says of one flight.
FlightIsRight(h) ==
  /\ h \in Flight
  /\ h.pc \notin {"none", "reads"} => h.at <= time /\ time <= h.at + Longest
  /\ h.pc \in {"stores", "passes"} => h.answer \in Bodies /\ h.at <= Said(h.answer)
  /\ h.pc = "revalidates" => h.kept \in Bodies /\ h.at <= Said(h.kept)
  /\ h.pc \in {"sent", "revalidates"} =>
       keptRow.body \in {NoBody, h.kept} \/ h.at <= Said(keptRow.body) + Longest

RestIsRight ==
  /\ time \in Times /\ github \in Bodies /\ saidAt \in [Bodies -> Times]
  /\ keptRow \in KeptRow
  /\ given \in [Servers -> [how : {"nothing", "fresh", "stale", "failed"}, body : Bodies \cup {NoBody}]]
  /\ SaidBefore /\ RowIsOfItsTime

\* The invariant, flight by flight.
LEMMA ByFlight ==
  CacheInv <=> /\ RestIsRight /\ flight \in [Servers -> Flight]
               /\ \A p \in Servers : FlightIsRight(flight[p])
BY DEF CacheInv, CacheTypeOK, FlightsAreShort, IsUnderWay, BringsSaid, RowUnderFlight, RestIsRight, FlightIsRight

\* A step of one flight that leaves the row and the time alone.
LEMMA OneFlightMoves ==
  ASSUME CacheInv, NEW p \in Servers, NEW h, FlightIsRight(h),
         flight' = [flight EXCEPT ![p] = h], UNCHANGED <<time, github, saidAt, keptRow>>,
         given' \in [Servers -> [how : {"nothing", "fresh", "stale", "failed"}, body : Bodies \cup {NoBody}]]
  PROVE  CacheInv'
<1>1. RestIsRight' /\ flight' \in [Servers -> Flight]
  BY ByFlight DEF RestIsRight, SaidBefore, RowIsOfItsTime, Said, FlightIsRight
<1>2. ASSUME NEW q \in Servers PROVE FlightIsRight(flight[q])'
  <2>1. flight'[q] = IF q = p THEN h ELSE flight[q]
    BY ByFlight
  <2>2. FlightIsRight(flight'[q])
    BY <2>1, ByFlight
  <2> QED
    BY <2>2 DEF FlightIsRight, Said
<1> QED
  BY <1>1, <1>2 DEF CacheInv, CacheTypeOK, FlightsAreShort, IsUnderWay, BringsSaid, RowUnderFlight, RestIsRight, FlightIsRight

LEMMA GivesTyped ==
  ASSUME CacheInv, NEW p \in Servers, NEW how \in {"fresh", "stale", "failed"},
         NEW body \in Bodies \cup {NoBody}, Gives(p, how, body)
  PROVE  given' \in [Servers -> [how : {"nothing", "fresh", "stale", "failed"}, body : Bodies \cup {NoBody}]]
BY DEF CacheInv, CacheTypeOK, Gives

LEMMA NoFlightIsRight == CacheInv => FlightIsRight(NoFlight)
BY CacheAssumption DEF CacheInv, CacheTypeOK, FlightIsRight, NoFlight, Flight, Times

\* The row changes to one of its time: flights that may keep it on read it, or overlap it.
LEMMA RowChanges ==
  ASSUME CacheInv, NEW p \in Servers, flight' = [flight EXCEPT ![p] = NoFlight],
         UNCHANGED <<time, github, saidAt>>, keptRow' \in KeptRow, NEW how \in {"fresh", "stale", "failed"},
         NEW body \in Bodies \cup {NoBody}, Gives(p, how, body),
         keptRow'.body # NoBody => keptRow'.until <= Said(keptRow'.body) + Ttl + Longest,
         keptRow'.body = keptRow.body \/ (keptRow'.body \in Bodies /\ time <= Said(keptRow'.body) + Longest)
  PROVE  CacheInv'
<1>1. RestIsRight' /\ flight' \in [Servers -> Flight]
  BY ByFlight, GivesTyped, NoFlightIsRight DEF RestIsRight, SaidBefore, RowIsOfItsTime, Said, FlightIsRight
<1>2. ASSUME NEW q \in Servers PROVE FlightIsRight(flight[q])'
  <2>1. flight'[q] = NoFlight \/ flight'[q] = flight[q]
    BY ByFlight
  <2>2. FlightIsRight(flight'[q])
    BY <2>1, ByFlight, NoFlightIsRight
  <2> DEFINE h == flight'[q]
  <2>3. h.pc \in {"sent", "revalidates"} /\ keptRow'.body # keptRow.body => h.at <= time /\ time <= Said(keptRow'.body) + Longest
    BY <2>2 DEF FlightIsRight
  <2>4. h.at \in Nat /\ time \in Nat /\ Longest \in Nat /\ (keptRow'.body \in Bodies => Said(keptRow'.body) \in Nat)
    BY <2>2, ByFlight, CacheAssumption DEF FlightIsRight, Flight, RestIsRight, Said, Times
  <2>5. h.pc \in {"sent", "revalidates"} /\ keptRow'.body # keptRow.body => h.at <= Said(keptRow'.body) + Longest
    BY <2>3, <2>4
  <2> QED
    BY <2>2, <2>5 DEF FlightIsRight, Said
<1> QED
  BY <1>1, <1>2 DEF CacheInv, CacheTypeOK, FlightsAreShort, IsUnderWay, BringsSaid, RowUnderFlight, RestIsRight, FlightIsRight

\* One step of anybody.
LEMMA CacheInvIsKept == CacheInv /\ [CacheNext]_cacheVars => CacheInv'
<1> SUFFICES ASSUME CacheInv, [CacheNext]_cacheVars
             PROVE  CacheInv'
  OBVIOUS
<1>t. /\ time \in Nat /\ Longest \in Nat /\ Ttl \in Nat /\ github \in Bodies
      /\ NoBody \notin Bodies /\ keptRow.body \in Bodies \cup {NoBody}
      /\ \A b \in Bodies : Said(b) \in Nat /\ Said(b) <= time
  BY CacheAssumption DEF CacheInv, CacheTypeOK, SaidBefore, Said, KeptRow, Times
<1>f. \A p \in Servers : FlightIsRight(flight[p])
  BY ByFlight
<1>g. ASSUME NEW p \in Servers, NEW kept \in Bodies \cup {NoBody}, GivesKept(p, kept),
             UNCHANGED <<time, github, saidAt, keptRow>>
      PROVE  CacheInv'
  <2> DEFINE how == IF kept = NoBody THEN "failed" ELSE "stale"
  <2>1. Gives(p, how, kept) /\ how \in {"fresh", "stale", "failed"}
    BY <1>g DEF GivesKept
  <2>2. given' \in [Servers -> [how : {"nothing", "fresh", "stale", "failed"}, body : Bodies \cup {NoBody}]]
    BY <2>1, GivesTyped
  <2> QED
    BY <1>g, <2>1, <2>2, OneFlightMoves, NoFlightIsRight DEF Gives
<1>1. ASSUME NEW p \in Servers, Starts(p) PROVE CacheInv'
  <2> DEFINE h == [flight[p] EXCEPT !.pc = "reads"]
  <2>1. FlightIsRight(h)
    BY <1>f DEF FlightIsRight, Flight
  <2>2. flight' = [flight EXCEPT ![p] = h]
    BY <1>1, ByFlight DEF Starts
  <2>3. given' \in [Servers -> [how : {"nothing", "fresh", "stale", "failed"}, body : Bodies \cup {NoBody}]]
    BY <1>1 DEF Starts, CacheInv, CacheTypeOK, NothingGiven
  <2> QED
    BY <1>1, <2>1, <2>2, <2>3, OneFlightMoves DEF Starts
<1>2. ASSUME NEW p \in Servers, ReadsFresh(p) PROVE CacheInv'
  <2>1. given' \in [Servers -> [how : {"nothing", "fresh", "stale", "failed"}, body : Bodies \cup {NoBody}]]
    BY <1>2, <1>t, GivesTyped DEF ReadsFresh
  <2> QED
    BY <1>2, <2>1, OneFlightMoves, NoFlightIsRight DEF ReadsFresh, Gives
<1>3. ASSUME NEW p \in Servers, ReadsLimited(p) PROVE CacheInv'
  BY <1>3, <1>t, <1>g DEF ReadsLimited
<1>4. ASSUME NEW p \in Servers, Sends(p) PROVE CacheInv'
  <2> DEFINE h == [pc |-> "sent", kept |-> keptRow.body, at |-> time, answer |-> NoBody]
  <2>1. FlightIsRight(h)
    BY <1>t DEF FlightIsRight, Flight, CacheInv, CacheTypeOK
  <2> QED
    BY <1>4, <2>1, OneFlightMoves DEF Sends, CacheInv, CacheTypeOK
<1>5. ASSUME NEW p \in Servers, GitHubAnswers(p) PROVE CacheInv'
  <2>1. /\ flight[p] \in Flight /\ flight[p].pc = "sent"
        /\ flight[p].at <= time /\ Said(github) = time
    BY <1>5, <1>f DEF FlightIsRight, GitHubAnswers, Said
  <2>2. \A pc \in {"stores", "passes"} : FlightIsRight([flight[p] EXCEPT !.pc = pc, !.answer = github])
    BY <1>f, <1>t, <2>1 DEF FlightIsRight, Flight
  <2>3. flight[p].kept = github => FlightIsRight([flight[p] EXCEPT !.pc = "revalidates"])
    BY <1>f, <1>t, <2>1 DEF FlightIsRight, Flight
  <2>4. FlightIsRight([flight[p] EXCEPT !.pc = "fails"])
    BY <1>f, <1>t, <2>1 DEF FlightIsRight, Flight
  <2>5. \E h : FlightIsRight(h) /\ flight' = [flight EXCEPT ![p] = h]
    <3>1. CASE \E pc \in {"stores", "passes"} : flight' = [flight EXCEPT ![p].pc = pc, ![p].answer = github]
      <4>1. PICK pc \in {"stores", "passes"} : flight' = [flight EXCEPT ![p].pc = pc, ![p].answer = github]
        BY <3>1
      <4>2. flight' = [flight EXCEPT ![p] = [flight[p] EXCEPT !.pc = pc, !.answer = github]]
        BY <4>1, ByFlight
      <4> QED BY <4>2, <2>2
    <3>2. CASE flight[p].kept = github /\ flight' = [flight EXCEPT ![p].pc = "revalidates"]
      <4>1. flight' = [flight EXCEPT ![p] = [flight[p] EXCEPT !.pc = "revalidates"]]
        BY <3>2, ByFlight
      <4> QED BY <4>1, <2>3, <3>2
    <3>3. CASE flight' = [flight EXCEPT ![p].pc = "fails"]
      <4>1. flight' = [flight EXCEPT ![p] = [flight[p] EXCEPT !.pc = "fails"]]
        BY <3>3, ByFlight
      <4> QED BY <4>1, <2>4
    <3> QED BY <1>5, <3>1, <3>2, <3>3 DEF GitHubAnswers
  <2> QED
    BY <1>5, <2>5, OneFlightMoves DEF GitHubAnswers, CacheInv, CacheTypeOK
<1>6. ASSUME NEW p \in Servers, Revalidates(p) PROVE CacheInv'
  <2> DEFINE h == flight[p]
  <2>1. /\ h \in Flight /\ h.pc = "revalidates" /\ h.kept \in Bodies /\ h.at <= Said(h.kept)
        /\ keptRow.body \in {NoBody, h.kept} \/ h.at <= Said(keptRow.body) + Longest
    BY <1>6, <1>f DEF FlightIsRight, Revalidates
  <2>2. h.at \in Times /\ h.at \in Nat /\ Ttl \in Nat /\ Longest \in Nat /\ CacheSeconds \in Nat
    BY <2>1, CacheAssumption DEF Flight, Times
  <2>3. keptRow' \in KeptRow /\ keptRow'.body = keptRow.body
    BY <1>6, <2>2 DEF Revalidates, KeptRow, CacheInv, CacheTypeOK, Times
  <2>4. keptRow'.body # NoBody => keptRow'.until = h.at + Ttl
    BY <1>6, <2>3 DEF Revalidates, KeptRow, CacheInv, CacheTypeOK
  <2>5. keptRow'.body # NoBody => keptRow'.until <= Said(keptRow'.body) + Ttl + Longest
    BY <2>1, <2>2, <2>3, <2>4, <1>t
  <2> QED
    BY <1>6, <2>1, <2>3, <2>5, RowChanges DEF Revalidates, Gives
<1>7. ASSUME NEW p \in Servers, StoresAnswer(p) PROVE CacheInv'
  <2> DEFINE h == flight[p]
  <2>1. /\ h \in Flight /\ h.answer \in Bodies /\ h.at <= Said(h.answer) /\ time <= h.at + Longest
    BY <1>7, <1>f DEF FlightIsRight, StoresAnswer
  <2>2. /\ h.at \in 0 .. CacheSeconds /\ h.at \in Nat /\ CacheSeconds \in Nat /\ Said(h.answer) \in Nat
        /\ KeptFor(h.answer) \in Nat /\ KeptFor(h.answer) <= Ttl
    BY <2>1, <1>t, CacheAssumption DEF Flight, Times, KeptFor
  <2>3. keptRow' = [body |-> h.answer, until |-> h.at + KeptFor(h.answer)]
    BY <1>7 DEF StoresAnswer
  <2>4. h.at + KeptFor(h.answer) \in 0 .. CacheSeconds + Ttl
    BY <2>2, <1>t
  <2>5. /\ h.at + KeptFor(h.answer) <= Said(h.answer) + Ttl + Longest
        /\ time <= Said(h.answer) + Longest
    BY <2>1, <2>2, <1>t
  <2>6. keptRow' \in KeptRow /\ keptRow'.body = h.answer /\ keptRow'.until = h.at + KeptFor(h.answer)
    BY <2>1, <2>3, <2>4 DEF KeptRow
  <2>7. /\ keptRow'.body # NoBody => keptRow'.until <= Said(keptRow'.body) + Ttl + Longest
        /\ keptRow'.body \in Bodies /\ time <= Said(keptRow'.body) + Longest
    BY <2>1, <2>5, <2>6
  <2>8. Gives(p, "fresh", h.answer) /\ UNCHANGED <<time, github, saidAt>>
    BY <1>7 DEF StoresAnswer
  <2>9. flight' = [flight EXCEPT ![p] = NoFlight]
    BY <2>8 DEF Gives
  <2> HIDE DEF h
  <2> QED
    BY <2>1, <2>6, <2>7, <2>8, <2>9, RowChanges
<1>8. ASSUME NEW p \in Servers, PassesOn(p) PROVE CacheInv'
  <2>1. flight[p].answer \in Bodies
    BY <1>8, <1>f DEF FlightIsRight, PassesOn
  <2>2. given' \in [Servers -> [how : {"nothing", "fresh", "stale", "failed"}, body : Bodies \cup {NoBody}]]
    BY <1>8, <2>1, GivesTyped DEF PassesOn
  <2> QED
    BY <1>8, <2>2, OneFlightMoves, NoFlightIsRight DEF PassesOn, Gives
<1>9. ASSUME NEW p \in Servers, FallsBack(p) PROVE CacheInv'
  <2>1. flight[p].kept \in Bodies \cup {NoBody}
    BY <1>f DEF FlightIsRight, Flight
  <2> QED
    BY <1>9, <2>1, <1>g DEF FallsBack
<1>10. CASE Prunes
  BY <1>10, CacheAssumption DEF Prunes, NoRowKept, KeptRow, CacheInv, CacheTypeOK, SaidBefore, FlightsAreShort,
     IsUnderWay, BringsSaid, RowIsOfItsTime, RowUnderFlight, Said
<1>11. CASE GitHubChanges \/ TimePasses
  <2> DEFINE SaidNext(b) == IF github' = b THEN time' ELSE saidAt'[b]
  <2>1. \A b \in Bodies : SaidNext(b) \in Nat /\ Said(b) <= SaidNext(b) /\ SaidNext(b) <= time'
    BY SaidGrows DEF CacheInv, Said
  <2>2. UNCHANGED <<keptRow, flight, given>>
    BY <1>11 DEF GitHubChanges, TimePasses
  <2>3. RestIsRight'
    <3>1. time' \in Times /\ github' \in Bodies /\ saidAt' \in [Bodies -> Times]
      BY <1>11, CacheAssumption DEF GitHubChanges, TimePasses, CacheInv, CacheTypeOK, Times
    <3>2. SaidBefore'
      BY <1>11, <1>t DEF SaidBefore, CacheInv, CacheTypeOK, GitHubChanges, TimePasses, Times
    <3>3. keptRow.until \in Nat /\ (keptRow.body # NoBody => keptRow.until <= Said(keptRow.body) + Ttl + Longest)
      BY CacheAssumption DEF CacheInv, CacheTypeOK, RowIsOfItsTime, KeptRow
    <3>4. keptRow.body # NoBody => keptRow.until <= SaidNext(keptRow.body) + Ttl + Longest
      BY <3>3, <2>1, <1>t
    <3> QED
      BY <3>1, <3>2, <3>4, <2>2 DEF Said, RestIsRight, RowIsOfItsTime, CacheInv, CacheTypeOK
  <2>4. ASSUME NEW p \in Servers PROVE FlightIsRight(flight[p])'
    <3> DEFINE h == flight[p]
    <3>1. FlightIsRight(h) /\ h.at \in Nat
      BY <1>f, CacheAssumption DEF FlightIsRight, Flight, Times
    <3>2. h.pc \notin {"none", "reads"} => h.at <= time' /\ time' <= h.at + Longest
      BY <3>1, <1>11, <1>t DEF FlightIsRight, GitHubChanges, TimePasses, InTime
    <3>3. h.answer \in Bodies /\ h.at <= Said(h.answer) => h.at <= SaidNext(h.answer)
      BY <3>1, <2>1, <1>t
    <3>4. h.kept \in Bodies /\ h.at <= Said(h.kept) => h.at <= SaidNext(h.kept)
      BY <3>1, <2>1, <1>t
    <3>5. keptRow.body \in Bodies /\ h.at <= Said(keptRow.body) + Longest => h.at <= SaidNext(keptRow.body) + Longest
      BY <3>1, <2>1, <1>t
    <3>6. h' = h /\ keptRow' = keptRow
      BY <2>2
    <3> QED
      BY <3>1, <3>2, <3>3, <3>4, <3>5, <3>6, <1>t DEF FlightIsRight, Said
  <2> QED
    BY <2>2, <2>3, <2>4 DEF CacheInv, CacheTypeOK, FlightsAreShort, IsUnderWay, BringsSaid, RowUnderFlight, RestIsRight, FlightIsRight
<1>12. CASE UNCHANGED cacheVars
  BY <1>12 DEF cacheVars, CacheInv, CacheTypeOK, SaidBefore, FlightsAreShort, IsUnderWay, BringsSaid,
     RowIsOfItsTime, RowUnderFlight, Said
<1> QED
  BY <1>1, <1>2, <1>3, <1>4, <1>5, <1>6, <1>7, <1>8, <1>9, <1>10, <1>11, <1>12 DEF CacheNext

\* What is given as fresh is what the row holds within its time, or what a flight brought.
LEMMA GivenIsSaid ==
  ASSUME CacheInv, [CacheNext]_cacheVars, NEW p \in Servers,
         given'[p].how = "fresh", given[p].how # "fresh"
  PROVE  SaidLately(given'[p].body)
<1>t. /\ time \in Nat /\ Longest \in Nat /\ Ttl \in Nat
      /\ keptRow.until \in Nat /\ flight[p].at \in Nat
      /\ \A b \in Bodies : Said(b) \in Nat /\ saidAt[b] \in Nat
  BY CacheAssumption DEF CacheInv, CacheTypeOK, Said, KeptRow, Times, Flight
<1>1. PICK q \in Servers : ReadsFresh(q) \/ Revalidates(q) \/ StoresAnswer(q) \/ PassesOn(q)
                           \/ Starts(q) \/ ReadsLimited(q) \/ FallsBack(q)
  BY DEF CacheNext, cacheVars, Sends, GitHubAnswers, Prunes, GitHubChanges, TimePasses
<1>2. given \in [Servers -> [how : {"nothing", "fresh", "stale", "failed"}, body : Bodies \cup {NoBody}]]
  BY DEF CacheInv, CacheTypeOK
<1>3. q = p /\ ~Starts(q) /\ ~ReadsLimited(q) /\ ~FallsBack(q)
  BY <1>1, <1>2 DEF ReadsFresh, Revalidates, StoresAnswer, PassesOn, Starts, ReadsLimited, FallsBack,
     GivesKept, Gives, NothingGiven
<1>4. UNCHANGED <<time, github, saidAt>>
  BY <1>1 DEF ReadsFresh, Revalidates, StoresAnswer, PassesOn, Starts, ReadsLimited, FallsBack
<1>5. SUFFICES given'[p].body \in Bodies /\ time <= Said(given'[p].body) + Ttl + Longest
  BY <1>t DEF SaidLately, Said
<1>6. CASE ReadsFresh(p)
  <2>1. keptRow.body \in Bodies /\ time < keptRow.until /\ keptRow.until <= Said(keptRow.body) + Ttl + Longest
    BY <1>6, <1>t DEF ReadsFresh, IsFresh, CacheInv, CacheTypeOK, RowIsOfItsTime, KeptRow
  <2> QED
    BY <1>6, <1>2, <1>t, <2>1 DEF ReadsFresh, Gives
<1>7. CASE Revalidates(p)
  <2>1. flight[p].kept \in Bodies /\ flight[p].at <= Said(flight[p].kept) /\ time <= flight[p].at + Longest
    BY <1>7 DEF Revalidates, CacheInv, BringsSaid, FlightsAreShort, IsUnderWay
  <2> QED
    BY <1>7, <1>2, <1>t, <2>1 DEF Revalidates, Gives
<1>8. CASE StoresAnswer(p) \/ PassesOn(p)
  <2>1. flight[p].answer \in Bodies /\ flight[p].at <= Said(flight[p].answer) /\ time <= flight[p].at + Longest
    BY <1>8 DEF StoresAnswer, PassesOn, CacheInv, BringsSaid, FlightsAreShort, IsUnderWay
  <2> QED
    BY <1>8, <1>2, <1>t, <2>1 DEF StoresAnswer, PassesOn, Gives
<1> QED
  BY <1>1, <1>3, <1>6, <1>7, <1>8

\* Whatever the processes, times and answers: an answer not marked stale was GitHub's
\* within the time answers are kept for, and a request takes.
THEOREM GivenAreFresh == CacheSpec => AnswersAreFresh
<1>1. CacheInv /\ [CacheNext]_cacheVars =>
        [\A p \in Servers : given'[p].how = "fresh" /\ given[p].how # "fresh" => SaidLately(given'[p].body)]_cacheVars
  BY GivenIsSaid
<1> QED
  BY <1>1, CacheInvFirst, CacheInvIsKept, PTL DEF CacheSpec, AnswersAreFresh

-----------------------------------------------------------------------------
(* All of them in one *)

\* Beside the queue, every part keeps its types, whichever way branches move.
THEOREM ServerTypes == ServerSpec => []ServerTypeOK
<1>. DEFINE ServerInv == HeadsTypeOK /\ SharesInv /\ CacheInv
<1>1. ServerInit => ServerInv
  BY HeadsTypesFirst, SharesInvFirst, CacheInvFirst DEF ServerInit
<1>2. ServerInv /\ [ServerNext]_serverVars => ServerInv'
  <2>. SUFFICES ASSUME ServerInv, [ServerNext]_serverVars
       PROVE  ServerInv'
    OBVIOUS
  <2>1. [HeadsNext]_headsVars /\ [SharesNext]_sharesVars /\ [CacheNext]_cacheVars
    BY DEF ServerNext, serverVars
  <2>. QED  BY <2>1, HeadsTypesKept, SharesInvIsKept, CacheInvIsKept
<1>3. ServerInv => ServerTypeOK
  BY DEF SharesInv, CacheInv, ServerTypeOK
<1>. HIDE DEF ServerInv
<1>. QED  BY <1>1, <1>2, <1>3, PTL DEF ServerSpec
=============================================================================
