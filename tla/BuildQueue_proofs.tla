-------------------------- MODULE BuildQueue_proofs --------------------------
(***************************************************************************)
(* Proofs about BuildQueue, for every set of Builds, repositories and      *)
(* slots, every number of attempts and every number of faults.             *)
(***************************************************************************)
EXTENDS BuildQueue, TLAPS

\* What a slot's fields say of each other.
SlotShape(j) ==
  /\ j.state = "free" <=> j.pc = "none"
  /\ j.pc # "none" => j.build \in Builds
  /\ j.pc = "more" => j.child \in Builds /\ j.more < MoreLinesMax
  /\ j.pc = "again" => j.attempt < BuildAttempts

Shape ==
  /\ \A s \in Slots : SlotShape(job[s])
  /\ reaper.read # "none" => reaper.at \in Builds

\* A Build some handler has claimed is never queued again behind its back.
Unstarted == {"none", "queued"}

ClaimedIsStarted ==
  \A s \in Slots : job[s].pc \in Claimed => row[job[s].build].state \notin Unstarted

IInv == TypeOK /\ Shape /\ ClaimedIsStarted /\ OneHandlerPerBuild

-----------------------------------------------------------------------------
(* Lemmas about the operators the actions are built from *)

\* A place for a job that is sent is a free slot.
LEMMA PlaceIsFree == \A p \in Places : p \in Slots /\ job[p].state = "free"
<1>1. CASE FreeSlots = {}
  BY <1>1 DEF Places
<1>2. CASE FreeSlots # {}
  <2>1. (CHOOSE s \in FreeSlots : TRUE) \in FreeSlots
    BY <1>2
  <2>. QED  BY <2>1, <1>2 DEF Places, FreeSlots
<1>. QED  BY <1>1, <1>2

\* A slot that is free is a job.
LEMMA FreeIsJob == Free \in Job /\ Free.pc = "none" /\ Free.state = "free"
<1>1. 1 \in 1 .. BuildAttempts /\ 0 \in 0 .. MoreLinesMax
  BY BuildQueueAssumption
<1>. QED  BY <1>1 DEF Free, Job, PCs, Lanes

\* A job that is sent is a job, and it waits.
LEMMA CreatedIsJob ==
  ASSUME NEW b \in Builds, NEW lane \in Lanes,
         NEW attempt \in 1 .. BuildAttempts, NEW more \in 0 .. MoreLinesMax
  PROVE  /\ Created(b, lane, attempt, more) \in Job
         /\ Created(b, lane, attempt, more).state = "created"
         /\ Created(b, lane, attempt, more).pc = "waiting"
         /\ Created(b, lane, attempt, more).build = b
BY FreeIsJob DEF Created, Free, Job, PCs

\* So is the slot of a handler that has nothing left to do.
LEMMA ReturningIsJob ==
  ASSUME NEW s \in Slots, job[s] \in Job
  PROVE  /\ Returning(s) \in Job
         /\ Returning(s).pc = "returning"
         /\ Returning(s).state = job[s].state
         /\ Returning(s).build = job[s].build
<1>1. Free \in Job
  BY FreeIsJob
<1>2. "returning" \in PCs
  BY DEF PCs, Handling
<1>3. /\ job[s].state \in {"free", "created", "active", "expired"}
      /\ job[s].build \in Builds \cup {NoBuild}
      /\ job[s].lane \in Lanes
  BY DEF Job
<1>. QED  BY <1>1, <1>2, <1>3 DEF Returning, Free, Job

LEMMA LaneIsLane == \A b : LaneOf(b) \in Lanes
BY DEF LaneOf, Lanes

\* The updates of a row keep it a row and leave every other one alone.
LEMMA RowQueued ==
  ASSUME row \in [Builds -> Row], NEW b \in Builds
  PROVE  /\ Queued(b) \in [Builds -> Row]
         /\ Queued(b)[b].state = "queued"
         /\ \A c \in Builds \ {b} : Queued(b)[c] = row[c]
<1>1. row[b] \in Row /\ 0 \in Ages
  BY DEF Ages
<1>2. [row[b] EXCEPT !.state = "queued", !.age = 0] \in Row
  BY <1>1 DEF Row, Open
<1>. QED  BY <1>1, <1>2 DEF Queued, Row

LEMMA RowRunning ==
  ASSUME row \in [Builds -> Row], NEW b \in Builds
  PROVE  /\ Running(b) \in [Builds -> Row]
         /\ Running(b)[b].state = "running"
         /\ \A c \in Builds \ {b} : Running(b)[c] = row[c]
<1>1. row[b] \in Row /\ 0 \in Ages
  BY DEF Ages
<1>2. [row[b] EXCEPT !.state = "running", !.reason = "none", !.age = 0] \in Row
  BY <1>1 DEF Row, Open, Reasons
<1>. QED  BY <1>1, <1>2 DEF Running, Row

LEMMA RowEnds ==
  ASSUME row \in [Builds -> Row], NEW b \in Builds, NEW state \in Ended,
         NEW reason \in Reasons
  PROVE  /\ EndRow(b, state, reason) \in [Builds -> Row]
         /\ EndRow(b, state, reason)[b].state = state
         /\ \A c \in Builds \ {b} : EndRow(b, state, reason)[c] = row[c]
<1>1. row[b] \in Row /\ 0 \in Ages
  BY DEF Ages
<1>2. [row[b] EXCEPT !.state = state, !.reason = reason, !.age = 0] \in Row
  BY <1>1 DEF Row
<1>. QED  BY <1>1, <1>2 DEF EndRow, Row

LEMMA RowDone ==
  ASSUME row \in [Builds -> Row], NEW b \in Builds, NEW partial \in BOOLEAN,
         NEW reason \in Reasons
  PROVE  /\ Done(b, partial, reason) \in [Builds -> Row]
         /\ Done(b, partial, reason)[b].state = "done"
         /\ \A c \in Builds \ {b} : Done(b, partial, reason)[c] = row[c]
<1>1. row[b] \in Row /\ 0 \in Ages
  BY DEF Ages
<1>2. [row[b] EXCEPT !.state = "done", !.reason = reason,
                     !.partial = partial, !.age = 0] \in Row
  BY <1>1 DEF Row, Ended
<1>. QED  BY <1>1, <1>2 DEF Done, Row

-----------------------------------------------------------------------------
(* What keeps the invariant: steps that move no slot, one slot, or two *)

\* The variables whose own values the invariant says little about.
RestOK ==
  /\ sending \subseteq Builds
  /\ large \subseteq Repos
  /\ up \in BOOLEAN
  /\ reaper \in Reaper
  /\ reaper.read # "none" => reaper.at \in Builds
  /\ faults \in 0 .. MaxFaults

\* Slots that are claimed were claimed already, for the same Build.
LEMMA NoNewClaim ==
  ASSUME IInv, RestOK', row' \in [Builds -> Row], job' \in [Slots -> Job],
         \A t \in Slots : SlotShape(job'[t]),
         \A t \in Slots : job'[t].pc \in Claimed =>
           /\ job[t].pc \in Claimed
           /\ job'[t].build = job[t].build
           /\ row'[job[t].build].state \notin Unstarted
  PROVE  IInv'
<1>1. TypeOK' /\ Shape'
  BY DEF TypeOK, Shape, RestOK
<1>2. ClaimedIsStarted'
  BY DEF ClaimedIsStarted, Unstarted
<1>3. OneHandlerPerBuild'
  BY DEF IInv, OneHandlerPerBuild
<1>. QED  BY <1>1, <1>2, <1>3 DEF IInv

LEMMA RowMoves ==
  ASSUME IInv, RestOK', row' \in [Builds -> Row], UNCHANGED job,
         \A c \in Builds : row'[c].state \in Unstarted => row[c].state \in Unstarted
  PROVE  IInv'
<1>1. \A t \in Slots : job[t].pc \in Claimed => job[t].build \in Builds
  BY DEF IInv, Shape, SlotShape, Claimed
<1>2. \A t \in Slots : job'[t].pc \in Claimed => row'[job[t].build].state \notin Unstarted
  BY <1>1 DEF IInv, ClaimedIsStarted, Unstarted
<1>3. job' \in [Slots -> Job] /\ \A t \in Slots : SlotShape(job'[t])
  BY DEF IInv, TypeOK, Shape
<1>. QED  BY <1>2, <1>3, NoNewClaim

\* The step changes the slot s and no other.
MovesOnly(s) ==
  /\ job' \in [Slots -> Job]
  /\ SlotShape(job'[s])
  /\ \A t \in Slots \ {s} : job'[t] = job[t]

\* The handler of s has a claim after the step only if it had it before.
ClaimsNothing(s) ==
  job'[s].pc \in Claimed =>
    /\ job[s].pc \in Claimed
    /\ job'[s].build = job[s].build
    /\ row'[job[s].build].state \notin Unstarted

\* No row is queued by the step but the one the handler of s has claimed.
QueuesOwn(s) ==
  /\ row' \in [Builds -> Row]
  /\ \A c \in Builds : row'[c].state \in Unstarted =>
       row[c].state \in Unstarted \/ (job[s].pc \in Claimed /\ c = job[s].build)

LEMMA SlotMoves ==
  ASSUME IInv, RestOK', NEW s \in Slots, MovesOnly(s), ClaimsNothing(s), QueuesOwn(s)
  PROVE  IInv'
<1>1. \A t \in Slots : SlotShape(job'[t])
  BY DEF IInv, Shape, MovesOnly
<1>2. ASSUME NEW t \in Slots \ {s}, job[t].pc \in Claimed
      PROVE  row'[job[t].build].state \notin Unstarted
  <2>1. job[t].build \in Builds /\ row[job[t].build].state \notin Unstarted
    BY <1>2 DEF IInv, Shape, SlotShape, Claimed, ClaimedIsStarted
  <2>2. job[s].pc \in Claimed => job[t].build # job[s].build
    BY <1>2 DEF IInv, OneHandlerPerBuild
  <2>. QED  BY <2>1, <2>2 DEF QueuesOwn
<1>3. ASSUME NEW t \in Slots, job'[t].pc \in Claimed
      PROVE  /\ job[t].pc \in Claimed
             /\ job'[t].build = job[t].build
             /\ row'[job[t].build].state \notin Unstarted
  BY <1>2, <1>3 DEF MovesOnly, ClaimsNothing
<1>. QED  BY <1>1, <1>3, NoNewClaim DEF MovesOnly, QueuesOwn

\* A step that leaves the rows alone queues none.
LEMMA SameRows ==
  ASSUME IInv, row' = row, NEW s \in Slots
  PROVE  QueuesOwn(s)
<1>1. row' \in [Builds -> Row]
  BY DEF IInv, TypeOK
<1>. QED  BY <1>1 DEF QueuesOwn

\* A handler that has sent a job returns, its own Build no longer claimed.
LEMMA SlotSends ==
  ASSUME IInv, RestOK', row' = row, NEW s \in Slots, job[s].pc # "none",
         NEW p \in Places, NEW j \in Job, SlotShape(j), j.pc = "waiting",
         job' = [job EXCEPT ![p] = j, ![s] = Returning(s)]
  PROVE  IInv'
<1>1. job \in [Slots -> Job] /\ row' \in [Builds -> Row] /\ p \in Slots
  BY PlaceIsFree DEF IInv, TypeOK
<1>2. p # s
  BY PlaceIsFree DEF IInv, Shape, SlotShape
<1>3. Returning(s) \in Job /\ SlotShape(Returning(s)) /\ Returning(s).pc = "returning"
  BY <1>1, ReturningIsJob DEF IInv, Shape, SlotShape
<1>4. /\ job' \in [Slots -> Job]
      /\ job'[s] = Returning(s) /\ job'[p] = j
      /\ \A t \in Slots \ {s, p} : job'[t] = job[t]
  BY <1>1, <1>2, <1>3
<1>5. \A t \in Slots : SlotShape(job'[t])
  BY <1>3, <1>4 DEF IInv, Shape
<1>6. ASSUME NEW t \in Slots, job'[t].pc \in Claimed
      PROVE  /\ job[t].pc \in Claimed
             /\ job'[t].build = job[t].build
             /\ row'[job[t].build].state \notin Unstarted
  <2>1. job'[t] = job[t]
    BY <1>3, <1>4, <1>6 DEF Claimed
  <2>. QED  BY <2>1, <1>6 DEF IInv, ClaimedIsStarted
<1>. QED  BY <1>1, <1>4, <1>5, <1>6, NoNewClaim

-----------------------------------------------------------------------------
(* Every step keeps the invariant *)

LEMMA InitIInv == Init => IInv
<1>. SUFFICES ASSUME Init PROVE IInv
  OBVIOUS
<1>1. TypeOK
  <2>1. row \in [Builds -> Row]
    BY DEF Init, Row, Reasons, Ages
  <2>2. job \in [Slots -> Job]
    BY FreeIsJob DEF Init
  <2>3. faults \in 0 .. MaxFaults
    BY BuildQueueAssumption DEF Init
  <2>. QED  BY <2>1, <2>2, <2>3 DEF TypeOK, Init, Idle, Reaper
<1>2. Shape
  BY DEF Init, Shape, SlotShape, Free, Idle
<1>3. ClaimedIsStarted /\ OneHandlerPerBuild
  BY DEF Init, ClaimedIsStarted, OneHandlerPerBuild, Free, Claimed
<1>. QED  BY <1>1, <1>2, <1>3 DEF IInv

\* The typing facts every action's proof starts from.
LEMMA Typing ==
  ASSUME IInv
  PROVE  /\ RestOK
         /\ row \in [Builds -> Row]
         /\ job \in [Slots -> Job]
         /\ \A s \in Slots : SlotShape(job[s])
         /\ \A s \in Slots : job[s].pc # "none" => job[s].build \in Builds
         /\ \A s \in Slots : job[s].pc \in Claimed => row[job[s].build].state \notin Unstarted
         /\ faults \in Nat
BY BuildQueueAssumption
   DEF IInv, TypeOK, Shape, SlotShape, RestOK, ClaimedIsStarted, Unstarted

LEMMA FaultCounts ==
  ASSUME faults \in 0 .. MaxFaults, NEW kind, Fault(kind)
  PROVE  faults' \in 0 .. MaxFaults /\ faults' # faults
BY BuildQueueAssumption DEF Fault

\* A handler that returns without sending.
LEMMA Returns ==
  ASSUME IInv, NEW s \in Slots, job[s].pc # "none",
         job' = [job EXCEPT ![s] = Returning(s)]
  PROVE  MovesOnly(s) /\ ClaimsNothing(s)
<1>1. Returning(s) \in Job /\ SlotShape(Returning(s)) /\ Returning(s).pc = "returning"
  BY Typing, ReturningIsJob DEF SlotShape
<1>2. /\ job' \in [Slots -> Job] /\ job'[s] = Returning(s)
      /\ \A t \in Slots \ {s} : job'[t] = job[t]
  BY <1>1, Typing
<1>. QED  BY <1>1, <1>2 DEF MovesOnly, ClaimsNothing, Claimed

\* A row that is ended is not queued.
LEMMA EndsQueueNone ==
  ASSUME IInv, NEW s \in Slots, NEW b \in Builds,
         NEW state \in Ended, NEW reason \in Reasons, NEW partial \in BOOLEAN,
         \/ row' = EndRow(b, state, reason)
         \/ row' = Done(b, partial, reason)
  PROVE  QueuesOwn(s)
<1>1. row \in [Builds -> Row]
  BY Typing
<1>2. row' \in [Builds -> Row] /\ row'[b].state \notin Unstarted
      /\ \A c \in Builds \ {b} : row'[c] = row[c]
  <2>1. CASE row' = EndRow(b, state, reason)
    BY <1>1, <2>1, RowEnds DEF Ended, Unstarted
  <2>2. CASE row' = Done(b, partial, reason)
    BY <1>1, <2>2, RowDone DEF Unstarted
  <2>. QED  BY <2>1, <2>2
<1>. QED  BY <1>2 DEF QueuesOwn

LEMMA UnpublishedQueuesNone ==
  ASSUME IInv, NEW s \in Slots, NEW t \in Slots, job[s].pc # "none",
         NEW why \in Reasons, row' = EndUnpublished(s, why)
  PROVE  QueuesOwn(t)
<1>1. job[s].build \in Builds
  BY Typing
<1>2. row' = EndRow(job[s].build, "failed", why) \/ row' = Done(job[s].build, TRUE, why)
  BY DEF EndUnpublished
<1>. QED  BY <1>1, <1>2, EndsQueueNone DEF Ended

\* The Site's sends, sizes and time.
LEMMA SenderKeepsIInv ==
  ASSUME IInv,
         \/ \E b \in Builds : Insert(b) \/ Send(b) \/ SendThrows(b) \/ SenderStops(b) \/ Age(b)
         \/ \E r \in Repos : Resize(r)
  PROVE  IInv'
<1>. USE Typing, FaultCounts
<1>1. ASSUME NEW b \in Builds, Insert(b) PROVE IInv'
  <2>1. RestOK'
    BY <1>1 DEF Insert, RestOK
  <2>2. /\ row' \in [Builds -> Row]
        /\ \A c \in Builds : row'[c].state \in Unstarted => row[c].state \in Unstarted
    BY <1>1, RowQueued DEF Insert, Unstarted
  <2>. QED  BY <1>1, <2>1, <2>2, RowMoves DEF Insert
<1>2. ASSUME NEW b \in Builds, Send(b) PROVE IInv'
  <2>. DEFINE j == Created(b, "builds", 1, 0)
  <2>1. PICK p \in Places : job' = [job EXCEPT ![p] = j]
    BY <1>2 DEF Send
  <2>2. p \in Slots
    BY PlaceIsFree
  <2>3. j \in Job /\ SlotShape(j) /\ j.pc \notin Claimed
    BY CreatedIsJob, BuildQueueAssumption DEF Lanes, SlotShape, Claimed
  <2>. HIDE DEF j
  <2>4. MovesOnly(p) /\ ClaimsNothing(p)
    BY <2>1, <2>2, <2>3 DEF MovesOnly, ClaimsNothing
  <2>. QED  BY <1>2, <2>2, <2>4, SameRows, SlotMoves DEF Send, RestOK
<1>3. ASSUME NEW b \in Builds, SendThrows(b) PROVE IInv'
  <2>1. RestOK'
    BY <1>3 DEF SendThrows, RestOK
  <2>2. /\ row' \in [Builds -> Row]
        /\ \A c \in Builds : row'[c].state \in Unstarted => row[c].state \in Unstarted
    BY <1>3, "failed" \in Ended, "paused" \in Reasons, RowEnds
    DEF SendThrows, Unstarted, Ended, Reasons
  <2>. QED  BY <1>3, <2>1, <2>2, RowMoves DEF SendThrows
<1>4. ASSUME NEW b \in Builds, SenderStops(b) PROVE IInv'
  BY <1>4, RowMoves DEF SenderStops, RestOK, Unstarted
<1>5. ASSUME NEW b \in Builds, Age(b) PROVE IInv'
  <2>1. /\ row' \in [Builds -> Row]
        /\ \A c \in Builds : row'[c].state \in Unstarted => row[c].state \in Unstarted
    <3>1. row[b].age + 1 \in Ages /\ 2 \in Ages
      BY <1>5 DEF Age, Ages, Row
    <3>. QED  BY <1>5, <3>1 DEF Age, Unstarted, Row
  <2>. QED  BY <1>5, <2>1, RowMoves DEF Age, RestOK
<1>6. ASSUME NEW r \in Repos, Resize(r) PROVE IInv'
  BY <1>6, RowMoves DEF Resize, RestOK, Unstarted
<1>. QED  BY <1>1, <1>2, <1>3, <1>4, <1>5, <1>6

\* A lane's worker: fetch, claim, the steps of a Build and its ends.
LEMMA HandlerKeepsIInv ==
  ASSUME IInv, NEW s \in Slots, Handler(s) PROVE IInv'
<1>. USE Typing, FaultCounts
<1>0. job[s] \in Job /\ SlotShape(job[s])
  OBVIOUS
<1>1. CASE Fetch(s)
  <2>1. job[s].pc = "waiting" /\ row' = row /\ RestOK'
    BY <1>1 DEF Fetch, At, RestOK
  <2>2. /\ job' \in [Slots -> Job]
        /\ job'[s].pc \in {"forward", "claim"} /\ job'[s].build = job[s].build
        /\ job'[s].state = "active"
        /\ \A t \in Slots \ {s} : job'[t] = job[t]
    BY <1>0, <1>1 DEF Fetch, Job, PCs, Handling
  <2>3. MovesOnly(s) /\ ClaimsNothing(s)
    BY <1>0, <2>1, <2>2 DEF MovesOnly, SlotShape, ClaimsNothing, Claimed
  <2>. QED  BY <2>1, <2>3, SameRows, SlotMoves
<1>2. CASE Forward(s)
  <2>. DEFINE j == Created(job[s].build, "builds-large", job[s].attempt, job[s].more)
  <2>1. PICK p \in Places : job' = [job EXCEPT ![p] = j, ![s] = Returning(s)]
    BY <1>2 DEF Forward
  <2>2. job[s].pc = "forward" /\ row' = row /\ RestOK'
    BY <1>2 DEF Forward, At, RestOK
  <2>3. /\ job[s].build \in Builds /\ "builds-large" \in Lanes
        /\ job[s].attempt \in 1 .. BuildAttempts /\ job[s].more \in 0 .. MoreLinesMax
    BY <1>0, <2>2 DEF Job, Lanes, SlotShape
  <2>4. j \in Job /\ SlotShape(j) /\ j.pc = "waiting"
    BY <2>3, CreatedIsJob DEF SlotShape
  <2>. HIDE DEF j
  <2>. QED  BY <2>1, <2>2, <2>4, SlotSends
<1>3. CASE Claim(s)
  <2>. DEFINE b == job[s].build
  <2>1. job[s].pc = "claim" /\ b \in Builds /\ RestOK'
    <3>1. job[s].pc = "claim" /\ b \in Builds
      BY <1>0, <1>3 DEF Claim, At, SlotShape
    <3>. QED  BY <1>3, <3>1 DEF Claim, RestOK
  <2>2. CASE row[b].state = "queued"
    <3>1. row' = Running(b) /\ job' = [job EXCEPT ![s].pc = "working"]
      BY <1>3, <2>2 DEF Claim
    <3>2. /\ row' \in [Builds -> Row] /\ row'[b].state = "running"
          /\ \A c \in Builds \ {b} : row'[c] = row[c]
      BY <2>1, <3>1, RowRunning
    <3>3. /\ job' \in [Slots -> Job]
          /\ job'[s].pc = "working" /\ job'[s].build = b /\ job'[s].state = job[s].state
          /\ \A t \in Slots \ {s} : job'[t] = job[t]
      BY <1>0, <3>1 DEF Job, PCs, Handling, Claimed
    <3>4. \A t \in Slots : SlotShape(job'[t])
      BY <1>0, <2>1, <3>3 DEF SlotShape
    <3>5. \A t \in Slots : job[t].pc \in Claimed => job[t].build # b
      BY <2>2 DEF IInv, ClaimedIsStarted, Unstarted
    <3>6. TypeOK' /\ Shape'
      BY <2>1, <3>2, <3>3, <3>4 DEF TypeOK, Shape, RestOK
    <3>7. ClaimedIsStarted'
      <4>1. ASSUME NEW t \in Slots, job'[t].pc \in Claimed
            PROVE  row'[job'[t].build].state \notin Unstarted
        <5>1. CASE t = s
          BY <3>2, <3>3, <5>1 DEF Unstarted
        <5>2. CASE t # s
          BY <3>2, <3>3, <3>5, <4>1, <5>2 DEF Claimed
        <5>. QED  BY <5>1, <5>2
      <4>. QED  BY <4>1 DEF ClaimedIsStarted
    <3>8. OneHandlerPerBuild'
      BY <3>3, <3>5 DEF IInv, OneHandlerPerBuild, Claimed
    <3>. QED  BY <3>6, <3>7, <3>8 DEF IInv
  <2>3. CASE row[b].state # "queued"
    BY <1>3, <2>1, <2>3, Returns, SameRows, SlotMoves DEF Claim
  <2>. QED  BY <2>2, <2>3
<1>4. CASE EndsEarly(s)
  <2>1. job[s].pc = "working" /\ RestOK' /\ job' = [job EXCEPT ![s] = Returning(s)]
    BY <1>4 DEF EndsEarly, At, RestOK
  <2>2. \/ row' = EndRow(job[s].build, "failed", "private")
        \/ row' = Done(job[s].build, FALSE, "none")
    BY <1>4 DEF EndsEarly
  <2>3. QueuesOwn(s)
    BY <2>1, <2>2, EndsQueueNone DEF Ended, Reasons
  <2>. QED  BY <2>1, <2>3, Returns, SlotMoves
<1>5. CASE Hold(s)
  <2>1. /\ job[s].pc = "working" /\ row' = row /\ RestOK'
        /\ job' = [job EXCEPT ![s].pc = "holding"]
    BY <1>5 DEF Hold, At, RestOK
  <2>2. /\ job' \in [Slots -> Job]
        /\ job'[s].pc = "holding" /\ job'[s].build = job[s].build
        /\ job'[s].state = job[s].state
        /\ \A t \in Slots \ {s} : job'[t] = job[t]
    BY <1>0, <2>1 DEF Job, PCs, Handling, Claimed
  <2>3. MovesOnly(s) /\ ClaimsNothing(s)
    BY <1>0, <2>1, <2>2 DEF MovesOnly, SlotShape, ClaimsNothing, Claimed
  <2>. QED  BY <2>1, <2>3, SameRows, SlotMoves
<1>6. CASE PublishQuick(s)
  <2>. DEFINE b == job[s].build
  <2>1. /\ job[s].pc = "holding" /\ b \in Builds /\ RestOK'
        /\ row' = [row EXCEPT ![b].partial = TRUE]
        /\ job' = [job EXCEPT ![s].quick = TRUE]
    BY <1>0, <1>6 DEF PublishQuick, At, RestOK, SlotShape
  <2>2. /\ job' \in [Slots -> Job]
        /\ job'[s].pc = "holding" /\ job'[s].build = b /\ job'[s].state = job[s].state
        /\ \A t \in Slots \ {s} : job'[t] = job[t]
    BY <1>0, <2>1 DEF Job
  <2>3. row' \in [Builds -> Row] /\ \A c \in Builds : row'[c].state = row[c].state
    BY <2>1 DEF Row
  <2>4. MovesOnly(s) /\ ClaimsNothing(s)
    BY <1>0, <2>1, <2>2, <2>3 DEF MovesOnly, SlotShape, ClaimsNothing, Claimed
  <2>5. QueuesOwn(s)
    BY <2>3 DEF QueuesOwn
  <2>. QED  BY <2>1, <2>4, <2>5, SlotMoves
<1>7. CASE PublishFull(s)
  <2>1. PICK left \in BOOLEAN :
          job' = [job EXCEPT ![s] = [@ EXCEPT !.pc = "published", !.left = left]]
    BY <1>7 DEF PublishFull
  <2>2. job[s].pc = "holding" /\ row' = row /\ RestOK'
    BY <1>7 DEF PublishFull, At, RestOK
  <2>3. /\ job' \in [Slots -> Job]
        /\ job'[s].pc = "published" /\ job'[s].build = job[s].build
        /\ job'[s].state = job[s].state
        /\ \A t \in Slots \ {s} : job'[t] = job[t]
    BY <1>0, <2>1 DEF Job, PCs, Handling, Claimed
  <2>4. MovesOnly(s) /\ ClaimsNothing(s)
    BY <1>0, <2>2, <2>3 DEF MovesOnly, SlotShape, ClaimsNothing, Claimed
  <2>. QED  BY <2>2, <2>4, SameRows, SlotMoves
<1>8. CASE MarkDone(s)
  <2>. DEFINE b == job[s].build
  <2>1. /\ job[s].pc = "published" /\ b \in Builds /\ RestOK'
        /\ row' = Done(b, FALSE, "none")
        /\ job' = [job EXCEPT ![s].pc = "marked"]
    BY <1>0, <1>8 DEF MarkDone, At, RestOK, SlotShape
  <2>2. /\ job' \in [Slots -> Job]
        /\ job'[s].pc = "marked" /\ job'[s].build = b /\ job'[s].state = job[s].state
        /\ \A t \in Slots \ {s} : job'[t] = job[t]
    BY <1>0, <2>1 DEF Job, PCs, Handling, Claimed
  <2>3. row'[b].state = "done"
    BY <2>1, RowDone DEF Reasons
  <2>4. QueuesOwn(s)
    BY <2>1, EndsQueueNone DEF Ended, Reasons
  <2>5. MovesOnly(s) /\ ClaimsNothing(s)
    BY <1>0, <2>1, <2>2, <2>3 DEF MovesOnly, SlotShape, ClaimsNothing, Claimed, Unstarted
  <2>. QED  BY <2>1, <2>4, <2>5, SlotMoves
<1>9. CASE Finish(s)
  <2>. DEFINE b == job[s].build
              done == Done(b, FALSE, "none")
              unused == {c \in Builds : row[c].state = "none" /\ RepoOf[c] = RepoOf[b]}
  <2>1. job[s].pc = "marked" /\ b \in Builds /\ RestOK'
    BY <1>0, <1>9 DEF Finish, At, RestOK, SlotShape
  <2>2. /\ done \in [Builds -> Row] /\ done[b].state = "done"
        /\ \A c \in Builds \ {b} : done[c] = row[c]
    BY <2>1, RowDone DEF Reasons
  <2>3. CASE ~(job[s].left /\ job[s].more < MoreLinesMax /\ unused # {})
    <3>1. row' = done /\ job' = [job EXCEPT ![s] = Returning(s)]
      BY <1>9, <2>3 DEF Finish
    <3>2. QueuesOwn(s)
      BY <2>1, <3>1, EndsQueueNone DEF Reasons, Ended
    <3>. QED  BY <2>1, <3>1, <3>2, Returns, SlotMoves
  <2>4. CASE job[s].left /\ job[s].more < MoreLinesMax /\ unused # {}
    <3>1. PICK c \in unused :
            /\ row' = [done EXCEPT ![c] = [@ EXCEPT !.state = "queued", !.age = 0]]
            /\ job' = [job EXCEPT ![s] = [@ EXCEPT !.pc = "more", !.child = c]]
      BY <1>9, <2>4 DEF Finish
    <3>. HIDE DEF done
    <3>2. c \in Builds /\ row[c].state = "none"
      BY <3>1
    <3>3. [done[c] EXCEPT !.state = "queued", !.age = 0] \in Row
      <4>1. done[c] \in Row /\ 0 \in Ages
        BY <2>2, <3>2 DEF Ages
      <4>. QED  BY <4>1 DEF Row, Open
    <3>4. row' \in [Builds -> Row] /\ \A d \in Builds \ {c} : row'[d] = done[d]
      BY <2>2, <3>1, <3>3
    <3>5. \A d \in Builds : row'[d].state \in Unstarted => row[d].state \in Unstarted
      BY <2>2, <3>2, <3>4 DEF Unstarted
    <3>6. /\ job' \in [Slots -> Job]
          /\ job'[s].pc = "more" /\ job'[s].build = b /\ job'[s].child = c
          /\ job'[s].more = job[s].more /\ job'[s].state = job[s].state
          /\ \A t \in Slots \ {s} : job'[t] = job[t]
      BY <1>0, <3>1, <3>2 DEF Job, PCs, Handling
    <3>7. MovesOnly(s) /\ ClaimsNothing(s)
      BY <1>0, <2>1, <2>4, <3>2, <3>6 DEF MovesOnly, SlotShape, ClaimsNothing, Claimed
    <3>8. QueuesOwn(s)
      BY <3>4, <3>5 DEF QueuesOwn
    <3>. QED  BY <2>1, <3>7, <3>8, SlotMoves
  <2>. QED  BY <2>3, <2>4
<1>10. CASE SendMore(s)
  <2>1. /\ job[s].pc = "more" /\ RestOK'
        /\ job[s].child \in Builds /\ job[s].more + 1 \in 0 .. MoreLinesMax
    BY <1>0, <1>10, BuildQueueAssumption DEF SendMore, At, RestOK, SlotShape, Job
  <2>. DEFINE j == Created(job[s].child, LaneOf(job[s].child), 1, job[s].more + 1)
  <2>2. ASSUME NEW p \in Places, row' = row,
               job' = [job EXCEPT ![p] = j, ![s] = Returning(s)]
        PROVE  IInv'
    <3>1. j \in Job /\ SlotShape(j) /\ j.pc = "waiting"
      BY <2>1, LaneIsLane, CreatedIsJob, BuildQueueAssumption DEF SlotShape
    <3>. HIDE DEF j
    <3>. QED  BY <2>1, <2>2, <3>1, SlotSends
  <2>3. ASSUME row' = EndRow(job[s].child, "failed", "paused"),
               job' = [job EXCEPT ![s] = Returning(s)]
        PROVE  IInv'
    <3>1. QueuesOwn(s)
      BY <2>1, <2>3, EndsQueueNone DEF Ended, Reasons
    <3>. QED  BY <2>1, <2>3, <3>1, Returns, SlotMoves
  <2>. QED  BY <1>10, <2>2, <2>3 DEF SendMore
<1>11. CASE TimesOut(s)
  <2>. DEFINE b == job[s].build
  <2>1. job[s].pc = "holding" /\ b \in Builds /\ RestOK'
    BY <1>0, <1>11 DEF TimesOut, At, RestOK, SlotShape
  <2>2. CASE job[s].attempt < BuildAttempts
    <3>1. row' = Queued(b) /\ job' = [job EXCEPT ![s].pc = "again"]
      BY <1>11, <2>2 DEF TimesOut
    <3>2. /\ job' \in [Slots -> Job]
          /\ job'[s].pc = "again" /\ job'[s].build = b
          /\ job'[s].attempt = job[s].attempt /\ job'[s].state = job[s].state
          /\ \A t \in Slots \ {s} : job'[t] = job[t]
      BY <1>0, <3>1 DEF Job, PCs, Handling
    <3>3. MovesOnly(s) /\ ClaimsNothing(s)
      BY <1>0, <2>1, <2>2, <3>2 DEF MovesOnly, SlotShape, ClaimsNothing, Claimed
    <3>4. QueuesOwn(s)
      BY <2>1, <3>1, RowQueued DEF QueuesOwn, Claimed
    <3>. QED  BY <2>1, <3>3, <3>4, SlotMoves
  <2>3. CASE ~(job[s].attempt < BuildAttempts)
    <3>1. row' = EndUnpublished(s, "timed_out") /\ job' = [job EXCEPT ![s] = Returning(s)]
      BY <1>11, <2>3 DEF TimesOut
    <3>2. QueuesOwn(s)
      BY <2>1, <3>1, UnpublishedQueuesNone DEF Reasons
    <3>. QED  BY <2>1, <3>1, <3>2, Returns, SlotMoves
  <2>. QED  BY <2>2, <2>3
<1>12. CASE SendAgain(s)
  <2>1. /\ job[s].pc = "again" /\ RestOK' /\ job[s].build \in Builds
        /\ job[s].attempt + 1 \in 1 .. BuildAttempts /\ job[s].more \in 0 .. MoreLinesMax
    BY <1>0, <1>12, BuildQueueAssumption DEF SendAgain, At, RestOK, SlotShape, Job
  <2>. DEFINE j == Created(job[s].build, LaneOf(job[s].build), job[s].attempt + 1, job[s].more)
  <2>2. ASSUME NEW p \in Places, row' = row,
               job' = [job EXCEPT ![p] = j, ![s] = Returning(s)]
        PROVE  IInv'
    <3>1. j \in Job /\ SlotShape(j) /\ j.pc = "waiting"
      BY <2>1, LaneIsLane, CreatedIsJob DEF SlotShape
    <3>. HIDE DEF j
    <3>. QED  BY <2>1, <2>2, <3>1, SlotSends
  <2>3. ASSUME row' = EndUnpublished(s, "timed_out"),
               job' = [job EXCEPT ![s] = Returning(s)]
        PROVE  IInv'
    <3>1. QueuesOwn(s)
      BY <2>1, <2>3, UnpublishedQueuesNone DEF Reasons
    <3>. QED  BY <2>1, <2>3, <3>1, Returns, SlotMoves
  <2>. QED  BY <1>12, <2>2, <2>3 DEF SendAgain
<1>13. CASE Fails(s)
  <2>1. /\ job[s].pc = "holding" /\ RestOK'
        /\ row' = EndUnpublished(s, "error") /\ job' = [job EXCEPT ![s] = Returning(s)]
    BY <1>13 DEF Fails, At, RestOK
  <2>2. QueuesOwn(s)
    BY <2>1, UnpublishedQueuesNone DEF Reasons
  <2>. QED  BY <2>1, <2>2, Returns, SlotMoves
<1>14. CASE FailsAfterPublish(s)
  <2>1. /\ job[s].pc \in {"published", "marked"} /\ RestOK' /\ job[s].build \in Builds
        /\ job' = [job EXCEPT ![s] = Returning(s)]
    BY <1>0, <1>14 DEF FailsAfterPublish, At, RestOK, SlotShape
  <2>2. \/ row' = EndUnpublished(s, "error")
        \/ row' = EndRow(job[s].build, "failed", "error")
    BY <1>14 DEF FailsAfterPublish
  <2>3. QueuesOwn(s)
    BY <2>1, <2>2, UnpublishedQueuesNone, EndsQueueNone DEF Reasons, Ended
  <2>. QED  BY <2>1, <2>3, Returns, SlotMoves
<1>15. CASE Throws(s)
  <2>1. /\ job[s].pc # "none" /\ RestOK' /\ job[s].build \in Builds
        /\ job' = [job EXCEPT ![s] = Returning(s)]
    BY <1>0, <1>15 DEF Throws, RestOK, Claimed, SlotShape
  <2>2. row' = EndRow(job[s].build, "failed", "error") \/ row' = row
    BY <1>15 DEF Throws
  <2>3. QueuesOwn(s)
    BY <2>1, <2>2, SameRows, EndsQueueNone DEF Reasons, Ended
  <2>. QED  BY <2>1, <2>3, Returns, SlotMoves
<1>16. CASE Complete(s)
  <2>1. row' = row /\ RestOK' /\ job' = [job EXCEPT ![s] = Free]
    BY <1>16 DEF Complete, RestOK
  <2>2. MovesOnly(s) /\ ClaimsNothing(s)
    BY <2>1, FreeIsJob DEF MovesOnly, SlotShape, ClaimsNothing, Claimed
  <2>. QED  BY <2>1, <2>2, SameRows, SlotMoves
<1>. QED
  BY <1>1, <1>2, <1>3, <1>4, <1>5, <1>6, <1>7, <1>8, <1>9, <1>10, <1>11, <1>12,
     <1>13, <1>14, <1>15, <1>16 DEF Handler

\* Expiry, crash and restart.
LEMMA FaultsKeepIInv ==
  ASSUME IInv, (\E s \in Slots : Expire(s)) \/ Crash \/ Restart
  PROVE  IInv'
<1>. USE Typing, FaultCounts
<1>1. ASSUME NEW s \in Slots, Expire(s) PROVE IInv'
  <2>1. job[s] \in Job /\ SlotShape(job[s]) /\ job[s].state = "active" /\ row' = row /\ RestOK'
    BY <1>1 DEF Expire, RestOK
  <2>2. CASE job' = [job EXCEPT ![s] = Free]
    <3>1. MovesOnly(s) /\ ClaimsNothing(s)
      BY <2>2, FreeIsJob DEF MovesOnly, SlotShape, ClaimsNothing, Claimed
    <3>. QED  BY <2>1, <3>1, SameRows, SlotMoves
  <2>3. CASE job' = [job EXCEPT ![s].state = "expired"]
    <3>1. /\ job' \in [Slots -> Job]
          /\ job'[s].state = "expired" /\ job'[s].pc = job[s].pc
          /\ job'[s].build = job[s].build /\ job'[s].child = job[s].child
          /\ job'[s].more = job[s].more /\ job'[s].attempt = job[s].attempt
          /\ \A t \in Slots \ {s} : job'[t] = job[t]
      BY <2>1, <2>3 DEF Job
    <3>2. MovesOnly(s)
      BY <2>1, <3>1 DEF MovesOnly, SlotShape
    <3>3. ClaimsNothing(s)
      BY <2>1, <3>1 DEF ClaimsNothing, IInv, ClaimedIsStarted
    <3>. QED  BY <2>1, <3>2, <3>3, SameRows, SlotMoves
  <2>. QED  BY <1>1, <2>2, <2>3 DEF Expire
<1>2. ASSUME Crash PROVE IInv'
  <2>1. row' \in [Builds -> Row] /\ RestOK'
    <3>1. /\ faults' \in 0 .. MaxFaults /\ reaper' = Idle /\ up' = FALSE
          /\ UNCHANGED <<row, sending, large>>
      BY <1>2 DEF Crash, RestOK
    <3>2. Idle \in Reaper /\ Idle.read = "none"
      BY DEF Idle, Reaper
    <3>3. row \in [Builds -> Row] /\ RestOK
      OBVIOUS
    <3>. QED  BY <3>1, <3>2, <3>3 DEF RestOK
  <2>2. ASSUME NEW s \in Slots
        PROVE  /\ job'[s] \in Job /\ SlotShape(job'[s])
               /\ job'[s].pc \notin Claimed \/ job'[s] = job[s]
    <3>1. CASE job[s].state = "active"
      <4>1. job'[s] = [job[s] EXCEPT !.pc = "dead"]
        BY <1>2, <3>1 DEF Crash
      <4>2. job[s] \in Job /\ SlotShape(job[s])
        OBVIOUS
      <4>. QED  BY <3>1, <4>1, <4>2 DEF Job, PCs, SlotShape, Claimed
    <3>2. CASE job[s].state = "expired"
      <4>1. job'[s] = Free
        BY <1>2, <3>2 DEF Crash
      <4>. QED  BY <4>1, FreeIsJob DEF SlotShape, Claimed
    <3>3. CASE job[s].state \notin {"active", "expired"}
      <4>1. job'[s] = job[s]
        BY <1>2, <3>3 DEF Crash
      <4>. QED  BY <4>1
    <3>. QED  BY <3>1, <3>2, <3>3
  <2>3. job' \in [Slots -> Job]
    BY <1>2, <2>2 DEF Crash
  <2>4. ASSUME NEW t \in Slots, job'[t].pc \in Claimed
        PROVE  /\ job[t].pc \in Claimed
               /\ job'[t].build = job[t].build
               /\ row'[job[t].build].state \notin Unstarted
    <3>1. job'[t] = job[t] /\ row' = row
      BY <1>2, <2>2, <2>4 DEF Crash
    <3>. QED  BY <3>1, <2>4
  <2>. QED  BY <2>1, <2>2, <2>3, <2>4, NoNewClaim
<1>3. ASSUME Restart PROVE IInv'
  BY <1>3, RowMoves DEF Restart, RestOK
<1>. QED  BY <1>1, <1>2, <1>3

LEMMA ReaperKeepsIInv == ASSUME IInv, Reap PROVE IInv'
<1>. USE Typing
<1>1. ASSUME NEW b \in Builds, ReapRead(b) PROVE IInv'
  BY <1>1, RowMoves DEF ReapRead, RestOK, Reaper, Open
<1>2. ASSUME ReapLook PROVE IInv'
  <2>1. [reaper EXCEPT !.asks = @ - 1] \in Reaper
    BY <1>2 DEF ReapLook, RestOK, Reaper
  <2>2. RestOK'
    BY <1>2, <2>1 DEF ReapLook, RestOK, Reaper, Idle
  <2>. QED  BY <1>2, <2>2, RowMoves DEF ReapLook
<1>3. ASSUME ReapRunning \/ ReapOld PROVE IInv'
  <2>1. reaper.at \in Builds /\ RestOK' /\ job' = job
    <3>1. reaper.read # "none" /\ reaper' = Idle /\ job' = job
          /\ UNCHANGED <<sending, large, up, faults>>
      BY <1>3 DEF ReapRunning, ReapOld, Looked
    <3>. QED  BY <3>1 DEF RestOK, Idle, Reaper
  <2>2. \/ row' = row
        \/ row' = EndRow(reaper.at, "failed", "error")
        \/ row' = EndRow(reaper.at, "failed", "paused")
    BY <1>3 DEF ReapRunning, ReapOld
  <2>3. /\ row' \in [Builds -> Row]
        /\ \A c \in Builds : row'[c].state \in Unstarted => row[c].state \in Unstarted
    <3>1. CASE row' = row
      BY <3>1
    <3>2. ASSUME NEW reason \in Reasons, row' = EndRow(reaper.at, "failed", reason)
          PROVE  /\ row' \in [Builds -> Row]
                 /\ \A c \in Builds : row'[c].state \in Unstarted => row[c].state \in Unstarted
      <4>1. "failed" \in Ended
        BY DEF Ended
      <4>2. /\ row' \in [Builds -> Row] /\ row'[reaper.at].state = "failed"
            /\ \A c \in Builds \ {reaper.at} : row'[c] = row[c]
        BY <2>1, <3>2, <4>1, RowEnds
      <4>. QED  BY <4>2 DEF Unstarted
    <3>. QED  BY <2>2, <3>1, <3>2 DEF Reasons
  <2>. QED  BY <2>1, <2>3, RowMoves
<1>4. ASSUME ReapQueued PROVE IInv'
  <2>1. reaper.at \in Builds /\ RestOK' /\ row' = row
    BY <1>4 DEF ReapQueued, Looked, RestOK, Idle, Reaper
  <2>. DEFINE j == Created(reaper.at, "builds", 1, 0)
  <2>2. PICK p \in Places : job' = [job EXCEPT ![p] = j]
    BY <1>4 DEF ReapQueued
  <2>3. j \in Job /\ SlotShape(j) /\ j.pc \notin Claimed
    BY <2>1, CreatedIsJob, BuildQueueAssumption DEF Lanes, SlotShape, Claimed
  <2>. HIDE DEF j
  <2>4. p \in Slots /\ MovesOnly(p) /\ ClaimsNothing(p)
    BY <2>2, <2>3, PlaceIsFree DEF MovesOnly, ClaimsNothing
  <2>. QED  BY <2>1, <2>4, SameRows, SlotMoves
<1>. QED  BY <1>1, <1>2, <1>3, <1>4 DEF Reap

LEMMA NextIInv == IInv /\ [Next]_vars => IInv'
<1>1. CASE UNCHANGED vars
  BY <1>1 DEF vars, IInv, TypeOK, Shape, ClaimedIsStarted, OneHandlerPerBuild
<1>2. IInv /\ Next => IInv'
  BY SenderKeepsIInv, HandlerKeepsIInv, FaultsKeepIInv, ReaperKeepsIInv DEF Next
<1>. QED  BY <1>1, <1>2

THEOREM Inductive == Spec => []IInv
BY InitIInv, NextIInv, PTL DEF Spec

-----------------------------------------------------------------------------
(* What follows *)

\* Every variable keeps its type, whatever is sent twice, lost, or crashes: in
\* particular no job is ever sent past the last attempt or the last round of
\* lines left.
THEOREM TypeCorrect == Spec => []TypeOK
<1>1. IInv => TypeOK
  BY DEF IInv
<1>. QED  BY Inductive, <1>1, PTL

\* runJob's claim gives a Build to one live handler at most, however many jobs
\* carry it.
THEOREM ClaimIsExclusive == Spec => []OneHandlerPerBuild
<1>1. IInv => OneHandlerPerBuild
  BY DEF IInv
<1>. QED  BY Inductive, <1>1, PTL

\* The handler of s changes its own slot, and no row but its Build's, when it
\* ends, queues again or publishes for the Build it has claimed.
LEMMA OwnStep ==
  ASSUME IInv, NEW s \in Slots, job[s].pc \in Claimed, job'[s].pc # job[s].pc,
         NEW b \in Builds, b # job[s].build => row'[b] = row[b]
  PROVE  OwnerEnds(b)
BY DEF OwnerEnds

\* A row that was not running, or stays as it was, is nobody's to end.
LEMMA NotEnded ==
  ASSUME NEW b \in Builds,
         row[b].state # "running" \/ row'[b].state = row[b].state \/ faults' # faults
  PROVE  OwnerEnds(b)
BY DEF OwnerEnds

LEMMA HandlerEndsOwn ==
  ASSUME IInv, NEW s \in Slots, Handler(s), NEW b \in Builds
  PROVE  OwnerEnds(b)
<1>. USE Typing
<1>. DEFINE own == job[s].build
<1>1. job \in [Slots -> Job] /\ row \in [Builds -> Row] /\ faults \in 0 .. MaxFaults
  BY DEF RestOK
<1>2. CASE row' = row \/ faults' # faults
  BY <1>2, NotEnded
<1>3. ASSUME job[s].pc \in Claimed, job' = [job EXCEPT ![s] = Returning(s)],
             NEW state, NEW reason, NEW partial,
             \/ row' = EndRow(own, state, reason)
             \/ row' = Done(own, partial, reason)
      PROVE  OwnerEnds(b)
  <2>1. job'[s].pc = "returning"
    BY <1>1, <1>3, ReturningIsJob
  <2>2. b # own => row'[b] = row[b]
    BY <1>1, <1>3 DEF EndRow, Done
  <2>. QED  BY <1>3, <2>1, <2>2, OwnStep DEF Claimed
<1>4. ASSUME NEW why, row' = EndUnpublished(s, why)
      PROVE  row' = EndRow(own, "failed", why) \/ row' = Done(own, TRUE, why)
  BY <1>4 DEF EndUnpublished
<1>5. CASE Claim(s)
  <2>1. CASE row[own].state = "queued"
    <3>1. row' = Running(own)
      BY <1>5, <2>1 DEF Claim
    <3>2. b # own => row'[b] = row[b]
      BY <1>1, <3>1 DEF Running
    <3>. QED  BY <2>1, <3>2, NotEnded
  <2>2. CASE row[own].state # "queued"
    BY <1>5, <2>2, <1>2 DEF Claim
  <2>. QED  BY <2>1, <2>2
<1>6. CASE EndsEarly(s)
  BY <1>6, <1>3 DEF EndsEarly, At, Claimed
<1>7. CASE PublishQuick(s)
  <2>1. row'[b].state = row[b].state
    BY <1>1, <1>7 DEF PublishQuick, Row
  <2>. QED  BY <2>1, NotEnded
<1>8. CASE MarkDone(s)
  <2>1. job'[s].pc = "marked" /\ job[s].pc = "published"
    BY <1>1, <1>8 DEF MarkDone, At, Job
  <2>2. b # own => row'[b] = row[b]
    BY <1>1, <1>8 DEF MarkDone, Done
  <2>. QED  BY <2>1, <2>2, OwnStep DEF Claimed
<1>9. CASE Finish(s)
  <2>. DEFINE done == Done(own, FALSE, "none")
              unused == {c \in Builds : row[c].state = "none" /\ RepoOf[c] = RepoOf[own]}
  <2>1. job[s].pc = "marked"
    BY <1>9 DEF Finish, At
  <2>2. CASE ~(job[s].left /\ job[s].more < MoreLinesMax /\ unused # {})
    BY <1>9, <2>1, <2>2, <1>3 DEF Finish, Claimed
  <2>3. CASE job[s].left /\ job[s].more < MoreLinesMax /\ unused # {}
    <3>1. PICK c \in unused :
            /\ row' = [done EXCEPT ![c] = [@ EXCEPT !.state = "queued", !.age = 0]]
            /\ job' = [job EXCEPT ![s] = [@ EXCEPT !.pc = "more", !.child = c]]
      BY <1>9, <2>3 DEF Finish
    <3>2. job'[s].pc = "more"
      BY <1>1, <3>1 DEF Job
    <3>3. b # own => done[b] = row[b]
      BY <1>1 DEF Done
    <3>4. CASE b = c
      BY <3>1, <3>4, NotEnded
    <3>5. CASE b # c
      <4>1. row'[b] = done[b]
        BY <3>1, <3>5
      <4>. QED  BY <2>1, <3>2, <3>3, <4>1, OwnStep DEF Claimed
    <3>. QED  BY <3>4, <3>5
  <2>. QED  BY <2>2, <2>3
<1>10. CASE TimesOut(s)
  <2>1. job[s].pc = "holding"
    BY <1>10 DEF TimesOut, At
  <2>2. CASE job[s].attempt < BuildAttempts
    <3>1. job'[s].pc = "again"
      BY <1>1, <1>10, <2>2 DEF TimesOut, Job
    <3>2. b # own => row'[b] = row[b]
      BY <1>1, <1>10, <2>2 DEF TimesOut, Queued
    <3>. QED  BY <2>1, <3>1, <3>2, OwnStep DEF Claimed
  <2>3. CASE ~(job[s].attempt < BuildAttempts)
    BY <1>10, <2>1, <2>3, <1>3, <1>4 DEF TimesOut, Claimed
  <2>. QED  BY <2>2, <2>3
<1>11. CASE Fails(s)
  BY <1>11, <1>3, <1>4 DEF Fails, At, Claimed
<1>12. CASE FailsAfterPublish(s) \/ Throws(s)
  BY <1>1, <1>2, <1>12, FaultCounts DEF FailsAfterPublish, Throws
<1>13. CASE SendMore(s) \/ SendAgain(s)
  BY <1>1, <1>2, <1>13, FaultCounts DEF SendMore, SendAgain
<1>14. CASE Fetch(s) \/ Forward(s) \/ Hold(s) \/ PublishFull(s) \/ Complete(s)
  BY <1>2, <1>14 DEF Fetch, Forward, Hold, PublishFull, Complete
<1>. QED
  BY <1>5, <1>6, <1>7, <1>8, <1>9, <1>10, <1>11, <1>12, <1>13, <1>14 DEF Handler

\* Without a fault a running Build is ended, or queued again, by the handler
\* that claimed it or by a reaper that read it running: never by a duplicate
\* job's handler and never by a reaper that took it for one waiting.
THEOREM OwnerAloneEnds == Spec => OnlyOwnerEnds
<1>1. ASSUME IInv, Next, NEW b \in Builds PROVE OwnerEnds(b)
  <2>. USE Typing, NotEnded
  <2>1. faults \in 0 .. MaxFaults /\ row \in [Builds -> Row]
    BY <1>1 DEF RestOK
  <2>2. CASE \E c \in Builds : Insert(c)
    <3>1. PICK c \in Builds : row[c].state = "none" /\ row' = Queued(c)
      BY <2>2 DEF Insert
    <3>2. b # c => row'[b] = row[b]
      BY <1>1, <2>1, <3>1 DEF Queued
    <3>. QED  BY <1>1, <3>1, <3>2
  <2>3. CASE \E c \in Builds : SendThrows(c)
    BY <1>1, <2>1, <2>3, FaultCounts DEF SendThrows
  <2>4. CASE \E c \in Builds : Age(c)
    <3>1. row'[b].state = row[b].state
      BY <1>1, <2>1, <2>4 DEF Age, Row
    <3>. QED  BY <1>1, <3>1
  <2>5. CASE \/ \E c \in Builds : Send(c) \/ SenderStops(c) \/ ReapRead(c)
             \/ \E r \in Repos : Resize(r)
             \/ \E s \in Slots : Expire(s)
             \/ Crash \/ Restart \/ ReapLook \/ ReapQueued
    BY <1>1, <2>5
    DEF Send, SenderStops, ReapRead, Resize, Expire, Crash, Restart, ReapLook, ReapQueued
  <2>6. CASE \E s \in Slots : Handler(s)
    BY <1>1, <2>6, HandlerEndsOwn
  <2>7. CASE ReapRunning \/ ReapOld
    <3>1. b # reaper.at => row'[b] = row[b]
      BY <1>1, <2>1, <2>7 DEF ReapRunning, ReapOld, EndRow
    <3>2. CASE ReapRunning
      BY <1>1, <3>1, <3>2 DEF ReapRunning, Looked, OwnerEnds
    <3>3. CASE ReapOld
      <4>1. b = reaper.at /\ row[b].state = "running" => row'[b] = row[b]
        BY <3>3 DEF ReapOld
      <4>. QED  BY <1>1, <3>1, <4>1
    <3>. QED  BY <2>7, <3>2, <3>3
  <2>. QED  BY <1>1, <2>2, <2>3, <2>4, <2>5, <2>6, <2>7 DEF Next, Reap
<1>2. IInv /\ [Next]_vars => [\A b \in Builds : OwnerEnds(b)]_vars
  BY <1>1
<1>. QED  BY Inductive, <1>2, PTL DEF Spec, OnlyOwnerEnds

-----------------------------------------------------------------------------
(* When a full phase that fails ends its Build done *)

\* What docs/working.md takes for granted of s: its Build had published nothing
\* when it claimed it, and the update that ends a Build does not itself throw.
FirstTry(s) ==
  /\ job[s].pc = "claim" /\ job'[s].pc = "working" => ~row[job[s].build].partial
  /\ job[s].pc = "holding" /\ job'[s].pc = "returning" => faults' = faults

FirstTries == \A s \in Slots : FirstTry(s)

\* Before a handler has claimed its Build.
Early == {"none", "waiting", "forward", "claim"}

\* A handler knows of what its Build has published, and a Build that is sent
\* again after a quick publish is nobody's meanwhile.
Knows(s) ==
  LET b == job[s].build IN
  /\ job[s].pc \in Early => job[s].quick = FALSE
  /\ job[s].pc \in {"working", "holding"} => row[b].partial = job[s].quick
  /\ job[s].pc = "again" /\ job[s].quick =>
       /\ row[b].partial
       /\ \A t \in Slots : job[t].pc \in Claimed => job[t].build # b

KnowsInv == \A s \in Slots : Knows(s)

\* To the invariant the handler of s stands where it stood.
Stays(s) ==
  /\ job'[s].pc = job[s].pc /\ job'[s].build = job[s].build
  /\ job'[s].quick = job[s].quick

\* The only ways on among the places the invariant speaks of.
WaysOn(s) ==
  \/ Stays(s)
  \/ /\ job'[s].pc \notin Claimed \cup {"again"}
     /\ job'[s].pc \in Early => job'[s].quick = FALSE \/ (job[s].pc \in Early /\ job'[s].quick = job[s].quick)
     /\ job[s].pc = "holding" => job'[s].pc \in {"dead", "none"}
  \/ job[s].pc \in Claimed /\ job'[s].pc \in {"published", "marked"} /\ job'[s].build = job[s].build
  \/ Claim(s) /\ row[job[s].build].state = "queued"
  \/ Hold(s) \/ PublishQuick(s) \/ TimesOut(s)
  \/ job'[s] = Returning(s) /\ (Fails(s) \/ Throws(s))

\* What a Build has published is changed by the handler that has claimed it.
OwnPartial(b) ==
  \/ row'[b].partial = row[b].partial
  \/ \E s \in Slots : job[s].pc \in Claimed /\ job[s].build = b /\ ~Stays(s)

LEMMA SlotsGoOn ==
  ASSUME IInv, Next, NEW t \in Slots
  PROVE  WaysOn(t)
<1>. USE Typing
<1>1. job \in [Slots -> Job]
  OBVIOUS
<1>2. ASSUME NEW s \in Slots, job[s].pc # "holding", job' = [job EXCEPT ![s] = Returning(s)]
      PROVE  WaysOn(t)
  BY <1>1, <1>2 DEF WaysOn, Stays, Returning, Claimed, Early, Free
<1>3. ASSUME NEW p \in Places, NEW j, j.pc = "waiting", j.quick = FALSE, job' = [job EXCEPT ![p] = j]
      PROVE  WaysOn(t)
  BY <1>1, <1>3, PlaceIsFree DEF SlotShape, WaysOn, Stays, Claimed, Early
<1>4. ASSUME NEW s \in Slots, job[s].pc # "holding", NEW p \in Places, NEW j, j.pc = "waiting", j.quick = FALSE,
             job' = [job EXCEPT ![p] = j, ![s] = Returning(s)]
      PROVE  WaysOn(t)
  BY <1>1, <1>4, PlaceIsFree DEF SlotShape, WaysOn, Stays, Returning, Claimed, Early, Free
<1>5. \A b, lane, attempt, more : /\ Created(b, lane, attempt, more).pc = "waiting"
                                      /\ Created(b, lane, attempt, more).quick = FALSE
  BY DEF Created, Free
<1>6. CASE UNCHANGED job
  BY <1>6 DEF WaysOn, Stays
<1>7. CASE \/ \E b \in Builds : Send(b)
           \/ ReapQueued
  <2>1. \E p \in Places : \E b, lane, attempt, more :
          job' = [job EXCEPT ![p] = Created(b, lane, attempt, more)]
    BY <1>7 DEF Send, ReapQueued
  <2>2. PICK p \in Places : \E b, lane, attempt, more :
          job' = [job EXCEPT ![p] = Created(b, lane, attempt, more)]
    BY <2>1
  <2>3. PICK b, lane, attempt, more : job' = [job EXCEPT ![p] = Created(b, lane, attempt, more)]
    BY <2>2
  <2>. QED  BY <1>3, <1>5, <2>3
<1>8. ASSUME NEW s \in Slots, Handler(s) PROVE WaysOn(t)
  <2>1. CASE Fetch(s)
    BY <1>1, <2>1 DEF Fetch, At, WaysOn, Stays, Claimed, Early
  <2>2. CASE Forward(s) \/ SendAgain(s)
    <3>1. job[s].pc # "holding"
      BY <2>2 DEF Forward, SendAgain, At
    <3>2. CASE job' = [job EXCEPT ![s] = Returning(s)]
      BY <1>2, <3>1, <3>2
    <3>3. ASSUME NEW p \in Places, NEW b, NEW lane, NEW attempt, NEW more,
                 job' = [job EXCEPT ![p] = Created(b, lane, attempt, more), ![s] = Returning(s)]
          PROVE  WaysOn(t)
      <4>. DEFINE j == Created(b, lane, attempt, more)
      <4>1. j.pc = "waiting" /\ j.quick = FALSE /\ job' = [job EXCEPT ![p] = j, ![s] = Returning(s)]
        BY <1>5, <3>3
      <4>. HIDE DEF j
      <4>. QED  BY <1>4, <3>1, <4>1
    <3>. QED  BY <2>2, <3>2, <3>3 DEF Forward, SendAgain
  <2>3. CASE SendMore(s)
    <3>1. job[s].pc # "holding"
      BY <2>3 DEF SendMore, At
    <3>2. CASE job' = [job EXCEPT ![s] = Returning(s)]
      BY <1>2, <3>1, <3>2
    <3>3. ASSUME NEW p \in Places, NEW b, NEW lane, NEW attempt, NEW more,
                 job' = [job EXCEPT ![p] = Created(b, lane, attempt, more), ![s] = Returning(s)]
          PROVE  WaysOn(t)
      <4>. DEFINE j == Created(b, lane, attempt, more)
      <4>1. j.pc = "waiting" /\ j.quick = FALSE /\ job' = [job EXCEPT ![p] = j, ![s] = Returning(s)]
        BY <1>5, <3>3
      <4>. HIDE DEF j
      <4>. QED  BY <1>4, <3>1, <4>1
    <3>. QED  BY <2>3, <3>2, <3>3 DEF SendMore
  <2>4. CASE Claim(s)
    <3>1. CASE row[job[s].build].state = "queued"
      <4>1. t # s => job'[t] = job[t]
        BY <1>1, <2>4, <3>1 DEF Claim
      <4>. QED  BY <2>4, <3>1, <4>1 DEF WaysOn, Stays
    <3>2. CASE row[job[s].build].state # "queued"
      BY <1>2, <2>4, <3>2 DEF Claim, At
    <3>. QED  BY <3>1, <3>2
  <2>5. CASE EndsEarly(s) \/ FailsAfterPublish(s)
    BY <1>2, <2>5 DEF EndsEarly, FailsAfterPublish, At
  <2>12. CASE Fails(s) \/ Throws(s)
    <3>1. job' = [job EXCEPT ![s] = Returning(s)]
      BY <2>12 DEF Fails, Throws
    <3>2. job'[s] = Returning(s) /\ (t # s => job'[t] = job[t])
      BY <1>1, <3>1
    <3>. QED  BY <2>12, <3>2 DEF WaysOn, Stays
  <2>6. CASE Hold(s) \/ PublishQuick(s)
    <3>1. t # s => job'[t] = job[t]
      BY <1>1, <2>6 DEF Hold, PublishQuick
    <3>. QED  BY <2>6, <3>1 DEF WaysOn, Stays
  <2>7. CASE PublishFull(s)
    <3>1. PICK left \in BOOLEAN :
            job' = [job EXCEPT ![s] = [@ EXCEPT !.pc = "published", !.left = left]]
      BY <2>7 DEF PublishFull
    <3>. QED  BY <1>1, <2>7, <3>1 DEF PublishFull, At, WaysOn, Stays, Claimed, Early, Job
  <2>8. CASE MarkDone(s)
    BY <1>1, <2>8 DEF MarkDone, At, WaysOn, Stays, Claimed, Early, Job
  <2>9. CASE Finish(s)
    <3>1. \/ job' = [job EXCEPT ![s] = Returning(s)]
          \/ \E b \in Builds : job' = [job EXCEPT ![s] = [@ EXCEPT !.pc = "more", !.child = b]]
      BY <2>9 DEF Finish
    <3>2. ASSUME NEW b \in Builds, job' = [job EXCEPT ![s] = [@ EXCEPT !.pc = "more", !.child = b]]
          PROVE  WaysOn(t)
      <4>1. job[s].pc = "marked"
        BY <2>9 DEF Finish, At
      <4>2. job'[s].pc = "more" /\ (t # s => job'[t] = job[t])
        BY <1>1, <3>2 DEF Job
      <4>. QED  BY <4>1, <4>2 DEF WaysOn, Stays, Claimed, Early
    <3>. QED  BY <1>2, <2>9, <3>1, <3>2 DEF Finish, At
  <2>10. CASE TimesOut(s)
    <3>1. CASE job[s].attempt < BuildAttempts
      <4>1. job'[s].pc = "again" /\ (t # s => job'[t] = job[t])
        BY <1>1, <2>10, <3>1 DEF TimesOut, Job
      <4>. QED  BY <2>10, <4>1 DEF WaysOn, Stays
    <3>2. CASE ~(job[s].attempt < BuildAttempts)
      <4>1. t # s => job'[t] = job[t]
        BY <1>1, <2>10, <3>2 DEF TimesOut
      <4>. QED  BY <2>10, <4>1 DEF WaysOn, Stays
    <3>. QED  BY <3>1, <3>2
  <2>11. CASE Complete(s)
    BY <1>1, <2>11 DEF Complete, At, WaysOn, Stays, Claimed, Early, Free
  <2>. QED
    BY <1>8, <2>1, <2>2, <2>3, <2>4, <2>5, <2>6, <2>7, <2>8, <2>9, <2>10, <2>11, <2>12 DEF Handler
<1>9. ASSUME NEW s \in Slots, Expire(s) PROVE WaysOn(t)
  <2>1. \/ job' = [job EXCEPT ![s] = Free]
        \/ job' = [job EXCEPT ![s].state = "expired"]
    BY <1>9 DEF Expire
  <2>2. CASE job' = [job EXCEPT ![s].state = "expired"]
    BY <1>1, <2>2 DEF WaysOn, Stays, Job
  <2>3. CASE job' = [job EXCEPT ![s] = Free]
    <3>1. job[s].pc = "dead"
      BY <1>1, <1>9, <2>3 DEF Expire, Free
    <3>. QED  BY <1>1, <2>3, <3>1 DEF WaysOn, Stays, Claimed, Early, Free
  <2>. QED  BY <2>1, <2>2, <2>3
<1>10. CASE Crash
  <2>1. \/ job'[t] = Free /\ job[t].state = "expired"
        \/ job'[t] = job[t]
        \/ job'[t] = [job[t] EXCEPT !.pc = "dead"]
    BY <1>10 DEF Crash
  <2>2. CASE job'[t] = Free /\ job[t].state = "expired"
    <3>1. job'[t].pc = "none" /\ job'[t].quick = FALSE
      BY <2>2 DEF Free
    <3>. QED  BY <3>1 DEF WaysOn, Claimed
  <2>3. CASE job'[t] = job[t]
    BY <2>3 DEF WaysOn, Stays
  <2>4. CASE job'[t] = [job[t] EXCEPT !.pc = "dead"]
    <3>1. job'[t].pc = "dead"
      BY <1>1, <2>4 DEF Job
    <3>. QED  BY <3>1 DEF WaysOn, Claimed, Early
  <2>. QED  BY <2>1, <2>2, <2>3, <2>4
<1>11. CASE \/ \E b \in Builds : Insert(b) \/ SendThrows(b) \/ SenderStops(b) \/ Age(b) \/ ReapRead(b)
            \/ \E r \in Repos : Resize(r)
            \/ Restart \/ ReapLook \/ ReapRunning \/ ReapOld
  BY <1>6, <1>11
  DEF Insert, SendThrows, SenderStops, Age, ReapRead, Resize, Restart, ReapLook, ReapRunning, ReapOld
<1>. QED  BY <1>7, <1>8, <1>9, <1>10, <1>11 DEF Next, Reap

LEMMA PartialIsOwn ==
  ASSUME IInv, KnowsInv, Next, NEW b \in Builds
  PROVE  OwnPartial(b)
<1>. USE Typing
<1>1. job \in [Slots -> Job] /\ row \in [Builds -> Row]
  OBVIOUS
<1>2. ASSUME NEW c, NEW state, NEW reason, row' = EndRow(c, state, reason)
      PROVE  OwnPartial(b)
  BY <1>1, <1>2 DEF EndRow, OwnPartial, Row
<1>3. ASSUME NEW s \in Slots, job[s].pc \in Claimed, job'[s].pc \notin Claimed \/ ~Stays(s),
             b # job[s].build => row'[b].partial = row[b].partial
      PROVE  OwnPartial(b)
  BY <1>3 DEF OwnPartial, Stays
<1>4. ASSUME NEW s \in Slots, job' = [job EXCEPT ![s] = Returning(s)]
      PROVE  job'[s].pc = "returning"
  BY <1>1, <1>4 DEF Returning, Free
<1>5. ASSUME NEW c, NEW partial, NEW reason, row' = Done(c, partial, reason), b # c
      PROVE  row'[b] = row[b]
  BY <1>1, <1>5 DEF Done
<1>6. ASSUME NEW s \in Slots, NEW why, row' = EndUnpublished(s, why),
             job' = [job EXCEPT ![s] = Returning(s)],
             job[s].pc \in Claimed \cup {"again"}
      PROVE  OwnPartial(b)
  <2>1. CASE ~job[s].quick
    BY <1>2, <1>6, <2>1 DEF EndUnpublished
  <2>2. CASE job[s].quick /\ job[s].pc \in Claimed
    BY <1>3, <1>4, <1>5, <1>6, <2>2 DEF EndUnpublished, Claimed
  <2>3. CASE job[s].quick /\ job[s].pc = "again"
    <3>1. row[job[s].build].partial /\ job[s].build \in Builds
      BY <2>3 DEF KnowsInv, Knows
    <3>2. row' = Done(job[s].build, TRUE, why)
      BY <1>6, <2>3 DEF EndUnpublished
    <3>3. row'[job[s].build].partial
      BY <1>1, <3>1, <3>2 DEF Done, Row
    <3>4. row[job[s].build].partial = TRUE /\ row'[job[s].build].partial = TRUE
      <4>1. row'[job[s].build].partial = TRUE
        BY <1>1, <3>1, <3>2 DEF Done, Row
      <4>. QED  BY <1>1, <3>1, <4>1 DEF Row
    <3>. QED  BY <1>5, <3>2, <3>4 DEF OwnPartial
  <2>. QED  BY <1>6, <2>1, <2>2, <2>3
<1>7. CASE UNCHANGED row
  BY <1>7 DEF OwnPartial
<1>8. ASSUME NEW s \in Slots, Handler(s) PROVE OwnPartial(b)
  <2>1. CASE Claim(s)
    <3>1. CASE row' = Running(job[s].build)
      <4>1. row'[b].partial = row[b].partial
        BY <1>1, <3>1 DEF Running, Row
      <4>. QED  BY <4>1 DEF OwnPartial
    <3>. QED  BY <1>7, <2>1, <3>1 DEF Claim
  <2>2. CASE EndsEarly(s)
    <3>1. job[s].pc = "working" /\ job'[s].pc = "returning"
      BY <1>4, <2>2 DEF EndsEarly, At
    <3>2. CASE row' = Done(job[s].build, FALSE, "none")
      BY <1>3, <1>5, <3>1, <3>2 DEF Claimed
    <3>. QED  BY <1>2, <2>2, <3>2 DEF EndsEarly
  <2>3. CASE PublishQuick(s)
    <3>1. job'[s].quick = TRUE /\ job[s].quick = FALSE
      BY <1>1, <2>3 DEF PublishQuick, Job
    <3>2. b # job[s].build => row'[b] = row[b]
      BY <1>1, <2>3 DEF PublishQuick
    <3>. QED  BY <1>3, <2>3, <3>1, <3>2 DEF PublishQuick, At, Claimed, Stays
  <2>4. CASE MarkDone(s)
    <3>1. job'[s].pc = "marked" /\ job[s].pc = "published"
      BY <1>1, <2>4 DEF MarkDone, At, Job
    <3>. QED  BY <1>3, <1>5, <2>4, <3>1 DEF MarkDone, Claimed, Stays
  <2>5. CASE Finish(s)
    <3>. DEFINE own == job[s].build
                done == Done(own, FALSE, "none")
                unused == {c \in Builds : row[c].state = "none" /\ RepoOf[c] = RepoOf[own]}
    <3>1. job[s].pc = "marked"
      BY <2>5 DEF Finish, At
    <3>2. b # own => done[b].partial = row[b].partial
      BY <1>1 DEF Done
    <3>3. CASE ~(job[s].left /\ job[s].more < MoreLinesMax /\ unused # {})
      <4>1. row' = done /\ job' = [job EXCEPT ![s] = Returning(s)]
        BY <2>5, <3>3 DEF Finish
      <4>2. job'[s].pc = "returning"
        BY <1>4, <4>1
      <4>. QED  BY <1>3, <3>1, <3>2, <4>1, <4>2 DEF Claimed
    <3>4. CASE job[s].left /\ job[s].more < MoreLinesMax /\ unused # {}
      <4>1. PICK c \in unused :
              /\ row' = [done EXCEPT ![c] = [@ EXCEPT !.state = "queued", !.age = 0]]
              /\ job' = [job EXCEPT ![s] = [@ EXCEPT !.pc = "more", !.child = c]]
        BY <2>5, <3>4 DEF Finish
      <4>2. job'[s].pc = "more"
        BY <1>1, <4>1 DEF Job
      <4>3. done \in [Builds -> Row]
        <5>1. own \in Builds
          BY <3>1
        <5>. QED  BY <1>1, <5>1, RowDone DEF Reasons
      <4>4. row'[b].partial = done[b].partial
        <5>1. row'[b] = IF b = c THEN [done[b] EXCEPT !.state = "queued", !.age = 0] ELSE done[b]
          BY <4>1, <4>3
        <5>2. done[b] \in Row
          BY <4>3
        <5>. HIDE DEF done
        <5>. QED  BY <5>1, <5>2 DEF Row
      <4>. QED  BY <1>3, <3>1, <3>2, <4>2, <4>4 DEF Claimed
    <3>. QED  BY <3>3, <3>4
  <2>6. CASE SendMore(s)
    BY <1>2, <1>7, <2>6 DEF SendMore
  <2>7. CASE TimesOut(s)
    <3>1. CASE job[s].attempt < BuildAttempts
      <4>1. row' = Queued(job[s].build)
        BY <2>7, <3>1 DEF TimesOut
      <4>2. row'[b].partial = row[b].partial
        BY <1>1, <4>1 DEF Queued, Row
      <4>. QED  BY <4>2 DEF OwnPartial
    <3>2. CASE ~(job[s].attempt < BuildAttempts)
      BY <1>6, <2>7, <3>2 DEF TimesOut, At, Claimed
    <3>. QED  BY <3>1, <3>2
  <2>8. CASE SendAgain(s)
    BY <1>6, <1>7, <2>8 DEF SendAgain, At
  <2>9. CASE Fails(s)
    BY <1>6, <2>9 DEF Fails, At, Claimed
  <2>10. CASE FailsAfterPublish(s)
    BY <1>2, <1>6, <2>10 DEF FailsAfterPublish, At, Claimed
  <2>11. CASE Throws(s)
    BY <1>2, <1>7, <2>11 DEF Throws
  <2>12. CASE Fetch(s) \/ Forward(s) \/ Hold(s) \/ PublishFull(s) \/ Complete(s)
    BY <1>7, <2>12 DEF Fetch, Forward, Hold, PublishFull, Complete
  <2>. QED
    BY <1>8, <2>1, <2>2, <2>3, <2>4, <2>5, <2>6, <2>7, <2>8, <2>9, <2>10, <2>11, <2>12
    DEF Handler
<1>9. CASE \/ \E c \in Builds : Insert(c) \/ SendThrows(c) \/ Age(c)
           \/ ReapRunning \/ ReapOld
  <2>1. ASSUME NEW c \in Builds, row' = Queued(c) PROVE OwnPartial(b)
    BY <1>1, <2>1 DEF Queued, OwnPartial, Row
  <2>2. ASSUME NEW c \in Builds, Age(c) PROVE OwnPartial(b)
    BY <1>1, <2>2 DEF Age, OwnPartial, Row
  <2>. QED
    BY <1>2, <1>7, <1>9, <2>1, <2>2 DEF Insert, SendThrows, ReapRunning, ReapOld
<1>10. CASE \/ \E c \in Builds : Send(c) \/ SenderStops(c) \/ ReapRead(c)
            \/ \E r \in Repos : Resize(r)
            \/ \E s \in Slots : Expire(s)
            \/ Crash \/ Restart \/ ReapLook \/ ReapQueued
  BY <1>7, <1>10
  DEF Send, SenderStops, ReapRead, Resize, Expire, Crash, Restart, ReapLook, ReapQueued
<1>. QED  BY <1>8, <1>9, <1>10 DEF Next, Reap

LEMMA KnowsFirst == Init => KnowsInv
<1>1. ASSUME Init, NEW s \in Slots PROVE job[s].pc = "none" /\ job[s].quick = FALSE
  BY <1>1 DEF Init, Free
<1>. QED  BY <1>1 DEF KnowsInv, Knows

LEMMA TimedOut ==
  ASSUME IInv, NEW s \in Slots, TimesOut(s)
  PROVE  job'[s].pc \in {"again", "returning"}
<1>1. job \in [Slots -> Job]
  BY Typing
<1>2. CASE job' = [job EXCEPT ![s].pc = "again"]
  BY <1>1, <1>2 DEF Job
<1>3. CASE job' = [job EXCEPT ![s] = Returning(s)]
  BY <1>1, <1>3 DEF Returning, Free
<1>. QED  BY <1>2, <1>3 DEF TimesOut

\* Who gains a claim on a Build finds nothing of it published.
LEMMA ClaimsAnew ==
  ASSUME IInv, KnowsInv, Next, FirstTries, NEW t \in Slots, job'[t].pc \in Claimed
  PROVE  /\ job'[t].build = job[t].build
         /\ \/ job[t].pc \in Claimed
            \/ /\ job[t].pc = "claim" /\ job'[t].pc = "working"
               /\ job'[t].quick = FALSE /\ job[t].quick = FALSE
               /\ ~row[job[t].build].partial
<1>. USE Typing
<1>1. job \in [Slots -> Job] /\ WaysOn(t)
  BY SlotsGoOn
<1>2. CASE Claim(t) /\ row[job[t].build].state = "queued"
  <2>1. job[t].pc = "claim" /\ ~job[t].quick
    BY <1>2 DEF Claim, At, KnowsInv, Knows, Early
  <2>2. job' = [job EXCEPT ![t].pc = "working"]
    BY <1>2 DEF Claim
  <2>3. job'[t].pc = "working" /\ job'[t].build = job[t].build /\ job'[t].quick = job[t].quick
    BY <1>1, <2>2 DEF Job
  <2>4. job[t].quick = FALSE
    BY <1>1, <2>1 DEF Job
  <2>. QED  BY <2>1, <2>3, <2>4 DEF FirstTries, FirstTry
<1>3. CASE Hold(t) \/ PublishQuick(t)
  <2>1. job'[t].build = job[t].build
    BY <1>1, <1>3 DEF Hold, PublishQuick, Job
  <2>2. job[t].pc \in Claimed
    BY <1>3 DEF Hold, PublishQuick, At, Claimed
  <2>. QED  BY <2>1, <2>2
<1>4. job'[t].pc # "again"
  BY DEF Claimed
<1>5. CASE TimesOut(t)
  <2>1. job'[t].pc \in {"again", "returning"}
    BY <1>5, TimedOut
  <2>. QED  BY <2>1 DEF Claimed
<1>6. CASE job'[t] = Returning(t)
  BY <1>6 DEF Returning, Free, Claimed
<1>. QED  BY <1>1, <1>2, <1>3, <1>4, <1>5, <1>6 DEF WaysOn, Stays

\* Nobody changes what a Build has published while the handler that claimed it stays.
LEMMA OthersLeavePartial ==
  ASSUME IInv, KnowsInv, Next, NEW t \in Slots, Stays(t),
         \/ job[t].pc \in {"working", "holding"}
         \/ job[t].pc = "again" /\ job[t].quick
  PROVE  row'[job[t].build].partial = row[job[t].build].partial
<1>1. job[t].build \in Builds
  BY Typing
<1>2. ASSUME NEW s \in Slots, job[s].pc \in Claimed, job[s].build = job[t].build, ~Stays(s)
      PROVE  FALSE
  <2>1. s # t
    BY <1>2
  <2>2. CASE job[t].pc \in {"working", "holding"}
    BY <1>2, <2>1, <2>2 DEF IInv, OneHandlerPerBuild, Claimed
  <2>3. CASE job[t].pc = "again" /\ job[t].quick
    BY <1>2, <2>3 DEF KnowsInv, Knows
  <2>. QED  BY <2>2, <2>3
<1>. QED  BY <1>1, <1>2, PartialIsOwn DEF OwnPartial

LEMMA KnowsStep ==
  ASSUME IInv, KnowsInv, Next, FirstTries, NEW t \in Slots
  PROVE  Knows(t)'
<1>. USE Typing
<1>. DEFINE b == job[t].build
<1>1. job \in [Slots -> Job] /\ row \in [Builds -> Row] /\ WaysOn(t) /\ Knows(t)
  BY SlotsGoOn DEF KnowsInv
<1>2. CASE Stays(t)
  <2>1. job[t].pc \in {"working", "holding"} => row'[b].partial = job[t].quick
    BY <1>1, <1>2, OthersLeavePartial DEF Knows
  <2>2. ASSUME job[t].pc = "again", job[t].quick
        PROVE  row'[b].partial /\ \A s \in Slots : job'[s].pc \in Claimed => job'[s].build # b
    <3>1. row[b].partial /\ row'[b].partial = row[b].partial
      BY <1>1, <1>2, <2>2, OthersLeavePartial DEF Knows
    <3>2. ASSUME NEW s \in Slots, job'[s].pc \in Claimed, job'[s].build = b
          PROVE  FALSE
      <4>1. job[s].build = b /\ (job[s].pc \in Claimed \/ ~row[b].partial)
        BY <3>2, ClaimsAnew
      <4>. QED  BY <1>1, <2>2, <3>1, <4>1 DEF Knows
    <3>. QED  BY <3>1, <3>2
  <2>3. job'[t].pc = job[t].pc /\ job'[t].build = b /\ job'[t].quick = job[t].quick
    BY <1>2 DEF Stays
  <2>. QED  BY <1>1, <2>1, <2>2, <2>3 DEF Knows
<1>3. CASE job'[t].pc \notin Claimed \cup {"again"}
  <2>1. job'[t].pc \in Early => job'[t].quick = FALSE
    <3>1. CASE (Claim(t) /\ row[b].state = "queued") \/ Hold(t) \/ PublishQuick(t)
      BY <1>1, <1>3, <3>1 DEF Claim, Hold, PublishQuick, At, Claimed, Job
    <3>2. CASE TimesOut(t) \/ job'[t] = Returning(t)
      BY <1>1, <1>3, <3>2 DEF TimesOut, Returning, Free, Early, Job
    <3>. QED  BY <1>1, <1>3, <3>1, <3>2 DEF WaysOn, Stays, Knows, Claimed
  <2>. QED  BY <1>3, <2>1 DEF Knows, Claimed
<1>4. CASE job'[t].pc \in {"published", "marked"}
  BY <1>4 DEF Knows, Early
<1>5. CASE Claim(t) /\ row[b].state = "queued"
  <2>1. row' = Running(b) /\ job' = [job EXCEPT ![t].pc = "working"] /\ job[t].pc = "claim"
    BY <1>5 DEF Claim, At
  <2>2. job'[t].pc = "working" /\ job'[t].build = b /\ job'[t].quick = FALSE /\ ~row[b].partial
    <3>1. job'[t].pc = "working" /\ job'[t].build = b
      BY <1>1, <2>1 DEF Job
    <3>. QED  BY <2>1, <3>1, ClaimsAnew DEF Claimed
  <2>3. row'[b].partial = FALSE
    <3>1. b \in Builds
      BY <2>1
    <3>. QED  BY <1>1, <2>1, <2>2, <3>1 DEF Running, Row
  <2>. QED  BY <2>2, <2>3 DEF Knows, Early
<1>6. CASE Hold(t)
  <2>1. job[t].pc = "working" /\ row' = row
    BY <1>6 DEF Hold, At
  <2>2. job'[t].pc = "holding" /\ job'[t].build = b /\ job'[t].quick = job[t].quick
    BY <1>1, <1>6 DEF Hold, Job
  <2>. QED  BY <1>1, <2>1, <2>2 DEF Knows, Early
<1>7. CASE PublishQuick(t)
  <2>1. /\ job[t].pc = "holding" /\ row' = [row EXCEPT ![b].partial = TRUE]
        /\ job' = [job EXCEPT ![t].quick = TRUE]
    BY <1>7 DEF PublishQuick, At
  <2>2. job'[t].pc = "holding" /\ job'[t].build = b /\ job'[t].quick = TRUE
    BY <1>1, <2>1 DEF Job
  <2>3. row'[b].partial = TRUE
    <3>1. b \in Builds
      BY <2>1
    <3>. QED  BY <1>1, <2>1, <3>1 DEF Row
  <2>. QED  BY <2>2, <2>3 DEF Knows, Early
<1>8. CASE TimesOut(t) /\ job'[t].pc = "again"
  <2>1. job[t].pc = "holding" /\ job[t].attempt < BuildAttempts
    <3>1. ASSUME ~(job[t].attempt < BuildAttempts) PROVE FALSE
      BY <1>1, <1>8, <3>1 DEF TimesOut, Returning, Free
    <3>. QED  BY <1>8, <3>1 DEF TimesOut, At
  <2>2. row' = Queued(b) /\ job' = [job EXCEPT ![t].pc = "again"]
    BY <1>8, <2>1 DEF TimesOut
  <2>3. job'[t].build = b /\ job'[t].quick = job[t].quick /\ b \in Builds
    BY <1>1, <2>1, <2>2 DEF Job
  <2>4. row'[b].partial = row[b].partial
    BY <1>1, <2>2, <2>3 DEF Queued, Row
  <2>5. ASSUME NEW s \in Slots, job'[s].pc \in Claimed, job'[s].build = b
        PROVE  FALSE
    <3>1. s # t /\ job'[s] = job[s]
      BY <1>1, <1>8, <2>2, <2>5 DEF Claimed
    <3>. QED  BY <2>1, <2>5, <3>1 DEF IInv, OneHandlerPerBuild, Claimed
  <2>. QED  BY <1>1, <1>8, <2>1, <2>3, <2>4, <2>5 DEF Knows, Early
<1>9. TimesOut(t) \/ job'[t] = Returning(t) => job'[t].pc \in {"again", "returning"}
  BY TimedOut DEF Returning, Free
<1>10. CASE TimesOut(t) \/ job'[t] = Returning(t)
  <2>1. job'[t].pc \in {"again", "returning"}
    BY <1>9, <1>10
  <2>2. CASE job'[t].pc = "again"
    BY <1>8, <1>10, <2>2 DEF Returning, Free
  <2>3. CASE job'[t].pc = "returning"
    BY <1>3, <2>3 DEF Claimed
  <2>. QED  BY <2>1, <2>2, <2>3
<1>. HIDE DEF b
<1>. QED
  BY <1>1, <1>2, <1>3, <1>4, <1>5, <1>6, <1>7, <1>10 DEF WaysOn, b

LEMMA KnowsAlways == Spec /\ [][FirstTries]_vars => []KnowsInv
<1>1. IInv /\ KnowsInv /\ [Next]_vars /\ [FirstTries]_vars => KnowsInv'
  <2>1. CASE UNCHANGED vars
    BY <2>1 DEF vars, KnowsInv, Knows
  <2>2. ASSUME IInv, KnowsInv, Next, FirstTries PROVE KnowsInv'
    BY <2>2, KnowsStep DEF KnowsInv
  <2>. QED  BY <2>1, <2>2
<1>. QED  BY KnowsFirst, Inductive, <1>1, PTL DEF Spec

\* "If the full phase fails after the first one was published, the Build still
\* ends done" (docs/working.md) holds as long as no job claims a Build that has
\* published already and no update that ends one throws, whatever else expires,
\* stops or is sent twice: what breaks it is a later attempt, which remembers
\* only its own quick publish, and `finally`, which remembers none.
THEOREM FullFailureOfAFirstTry ==
  Spec /\ [][FirstTries]_vars => FullFailureEndsDone
<1>1. ASSUME IInv, KnowsInv, Next, FirstTries, NEW s \in Slots,
             job[s].pc = "holding", job'[s].pc = "returning", row[job[s].build].partial
      PROVE  row'[job[s].build].state # "failed"
  <2>1. job \in [Slots -> Job] /\ row \in [Builds -> Row] /\ faults \in 0 .. MaxFaults
    BY <1>1, Typing DEF RestOK
  <2>2. job[s].quick /\ job[s].build \in Builds /\ faults' = faults
    BY <1>1, <2>1, Typing DEF KnowsInv, Knows, FirstTries, FirstTry, Job
  <2>3. WaysOn(s)
    BY <1>1, SlotsGoOn
  <2>4. ASSUME NEW why \in Reasons, row' = EndUnpublished(s, why)
        PROVE  row'[job[s].build].state # "failed"
    BY <2>1, <2>2, <2>4, RowDone DEF EndUnpublished
  <2>5. CASE TimesOut(s)
    <3>1. row' = EndUnpublished(s, "timed_out")
      BY <1>1, <2>1, <2>5 DEF TimesOut, Job
    <3>. QED  BY <2>4, <3>1 DEF Reasons
  <2>6. CASE Fails(s)
    BY <2>4, <2>6 DEF Fails, Reasons
  <2>7. ~Throws(s)
    BY <1>1, <2>1, <2>2, FaultCounts DEF Throws
  <2>8. ~Claim(s) /\ ~Hold(s)
    BY <1>1 DEF Claim, Hold, At
  <2>9. ~PublishQuick(s)
    BY <1>1, <2>1 DEF PublishQuick, Job
  <2>. QED  BY <1>1, <2>3, <2>5, <2>6, <2>7, <2>8, <2>9 DEF WaysOn, Stays, Claimed
<1>2. IInv /\ KnowsInv /\ [Next]_vars /\ [FirstTries]_vars
      => [\A s \in Slots :
            job[s].pc = "holding" /\ job'[s].pc = "returning" /\ row[job[s].build].partial
              => row'[job[s].build].state # "failed"]_vars
  BY <1>1
<1>. QED  BY KnowsAlways, Inductive, <1>2, PTL DEF Spec, FullFailureEndsDone
=============================================================================
