----------------------------- MODULE BuildQueue -----------------------------
(***************************************************************************)
(* The life of a Build: its row in `builds`, the pg-boss jobs that carry   *)
(* it, the Builder's handlers that run it and the reaper that ends or      *)
(* sends again what a stopped Builder left behind.                         *)
(*                                                                         *)
(* Sources: packages/server/src/{builds,queue}.ts and                      *)
(* apps/builder/src/{main,job,run}.ts.  A handler is split wherever the    *)
(* code awaits something another actor can see: the claim, each publish,   *)
(* the row's end, the send of the next job, the job's completion.          *)
(*                                                                         *)
(* Abstracted: priorities and startAfter (a waiting job may be fetched at  *)
(* any time), telemetry, what a Build reads; time, as the age of a row.    *)
(***************************************************************************)
EXTENDS Naturals, FiniteSets

CONSTANTS
  Builds,          \* ids of Builds
  Asked,           \* those the Site, a webhook or the seeds may ask for; the
                   \* others are quiet Builds a Builder may insert
  Repos,           \* repositories
  RepoOf,          \* the repository of each Build's row
  Slots,           \* places for the jobs alive at once: bounds the queue
  BuildAttempts,   \* BUILD_ATTEMPTS, 4 in the code
  MoreLinesMax,    \* MORE_LINES_MAX, 3 in the code
  FaultKinds,      \* which of "crash", "expiry", "throw", "resize" may happen
  MaxFaults,       \* bound: how many of them happen in all
  SlowSends,       \* whether a send may take longer than RESEND_AFTER
  NoBuild          \* no Build

ASSUME BuildQueueAssumption ==
  /\ RepoOf \in [Builds -> Repos]
  /\ Asked \subseteq Builds
  /\ NoBuild \notin Builds
  /\ BuildAttempts \in Nat \ {0}
  /\ MoreLinesMax \in Nat
  /\ MaxFaults \in Nat
  /\ SlowSends \in BOOLEAN

VARIABLES
  row,       \* Build -> its row in `builds`
  job,       \* slot -> a pg-boss job and the handler running it
  sending,   \* Builds inserted by queueBuild whose send has not returned
  large,     \* repositories over LARGE_REPOSITORY_MB
  up,        \* whether a Builder runs, holding the advisory lock
  reaper,    \* what the reaper has read of the Build it is looking at
  faults     \* how many faults happened

vars == <<row, job, sending, large, up, reaper, faults>>

Lanes == {"builds", "builds-large"}
Open == {"queued", "running"}
Ended == {"done", "failed"}

\* The age of a row's requestedAt (queued) or startedAt (running): 0 is
\* younger than RESEND_AFTER, 1 is older, 2 is past LONGEST_JOB_SECONDS.
Ages == 0 .. 2

Reasons == {"none", "paused", "error", "timed_out", "private"}

Row == [state : {"none"} \cup Open \cup Ended,
        reason : Reasons,
        partial : BOOLEAN,
        age : Ages]

\* Where a handler stands between two awaits.
Claimed == {"working", "holding", "published", "marked"}
Handling == Claimed \cup {"forward", "claim", "again", "more", "returning"}
PCs == Handling \cup {"none", "waiting", "dead"}

Job == [state : {"free", "created", "active", "expired"},
        pc : PCs,
        build : Builds \cup {NoBuild},
        child : Builds \cup {NoBuild},
        lane : Lanes,
        attempt : 1 .. BuildAttempts,
        more : 0 .. MoreLinesMax,
        quick : BOOLEAN,
        left : BOOLEAN]

Free == [state |-> "free", pc |-> "none", build |-> NoBuild,
         child |-> NoBuild, lane |-> "builds", attempt |-> 1, more |-> 0,
         quick |-> FALSE, left |-> FALSE]

Created(b, lane, attempt, more) ==
  [Free EXCEPT !.state = "created", !.pc = "waiting", !.build = b,
               !.lane = lane, !.attempt = attempt, !.more = more]

\* The reaper between two queries: the open Build it is looking at, the state
\* it read it in, whether it was older than any job may be, and how many lanes
\* it has still to ask.  The code reads every open Build before it looks at the
\* first: its time on the others is time this one's read grows old.
Idle == [at |-> NoBuild, read |-> "none", old |-> FALSE, asks |-> 0]

Reaper == [at : Builds \cup {NoBuild}, read : Open \cup {"none"}, old : BOOLEAN,
           asks : 0 .. 2]

TypeOK ==
  /\ row \in [Builds -> Row]
  /\ job \in [Slots -> Job]
  /\ sending \subseteq Builds
  /\ large \subseteq Repos
  /\ up \in BOOLEAN
  /\ reaper \in Reaper
  /\ faults \in 0 .. MaxFaults

Init ==
  /\ row = [b \in Builds |->
             [state |-> "none", reason |-> "none", partial |-> FALSE, age |-> 0]]
  /\ job = [s \in Slots |-> Free]
  /\ sending = {}
  /\ large \in SUBSET Repos
  /\ up = TRUE
  /\ reaper = Idle
  /\ faults = 0

-----------------------------------------------------------------------------
(* Helpers *)

\* A row just inserted, or put back, with requestedAt now.
Queued(b) == [row EXCEPT ![b] = [@ EXCEPT !.state = "queued", !.age = 0]]

\* `end` in claimedJob and the failed sends: an update by id alone.
EndRow(b, state, reason) ==
  [row EXCEPT ![b] = [@ EXCEPT !.state = state, !.reason = reason, !.age = 0]]

\* The same for a Build that published: the whole Report, or a part and why.
Done(b, partial, reason) ==
  [row EXCEPT ![b] = [@ EXCEPT !.state = "done", !.reason = reason,
                               !.partial = partial, !.age = 0]]

\* A row a job claims.
Running(b) ==
  [row EXCEPT ![b] = [@ EXCEPT !.state = "running", !.reason = "none", !.age = 0]]

\* The handler of s has nothing left to do.
Returning(s) == [Free EXCEPT !.state = job[s].state, !.pc = "returning",
                             !.build = job[s].build, !.lane = job[s].lane]

\* Where a job that is sent is kept: one place, for it does not matter which.
\* A handler's send is followed by the end of its own job; the Site's and the
\* reaper's leave a place to spare, so that no handler ever waits for one.
FreeSlots == {s \in Slots : job[s].state = "free"}
Places == IF FreeSlots = {} THEN {} ELSE {CHOOSE s \in FreeSlots : TRUE}
Spare == \E s \in FreeSlots : s \notin Places

\* The lane queueBuild in main.ts sends to.
LaneOf(b) == IF RepoOf[b] \in large THEN "builds-large" ELSE "builds"

Fault(kind) == /\ kind \in FaultKinds /\ faults < MaxFaults
               /\ faults' = faults + 1

\* The handler of s goes on to pc.
At(s, pc) == /\ up
             /\ job[s].pc = pc

-----------------------------------------------------------------------------
(* The Site, webhooks, the seeds and `rebuild`: queueBuild *)

\* The row is inserted; the send follows.
Insert(b) ==
  /\ b \in Asked
  /\ row[b].state = "none"
  /\ row' = Queued(b)
  /\ sending' = sending \cup {b}
  /\ UNCHANGED <<job, large, up, reaper, faults>>

Send(b) ==
  /\ b \in sending /\ Spare
  /\ \E p \in Places : job' = [job EXCEPT ![p] = Created(b, "builds", 1, 0)]
  /\ sending' = sending \ {b}
  /\ UNCHANGED <<row, large, up, reaper, faults>>

\* The send throws: the row is marked paused whatever became of it since.
SendThrows(b) ==
  /\ b \in sending
  /\ Fault("throw")
  /\ row' = EndRow(b, "failed", "paused")
  /\ sending' = sending \ {b}
  /\ UNCHANGED <<job, large, up, reaper>>

\* The process that inserted the row stops before its send.
SenderStops(b) ==
  /\ b \in sending
  /\ Fault("crash")
  /\ sending' = sending \ {b}
  /\ UNCHANGED <<row, job, large, up, reaper>>

\* A refresh of GitHub's facts moves a repository over or under the size.
Resize(r) ==
  /\ Fault("resize")
  /\ large' = IF r \in large THEN large \ {r} ELSE large \cup {r}
  /\ UNCHANGED <<row, job, sending, up, reaper>>

\* A send that carries b has been asked for and has not returned.
BeingSent(b) ==
  \/ b \in sending
  \/ \E s \in Slots : \/ job[s].pc = "again" /\ job[s].build = b
                      \/ job[s].pc = "more" /\ job[s].child = b

\* Time passes.  No job is active longer than LONGEST_JOB_SECONDS, so a row
\* older than that has no live handler with an active job.
Age(b) ==
  /\ row[b].age < 2
  /\ \/ /\ row[b].state = "queued"
        /\ SlowSends \/ ~BeingSent(b)
        /\ row' = [row EXCEPT ![b].age = @ + 1]
     \/ /\ row[b].state = "running"
        /\ \A s \in Slots : job[s].build = b /\ job[s].state = "active"
                             => job[s].pc = "dead"
        /\ row' = [row EXCEPT ![b].age = 2]
  /\ UNCHANGED <<job, sending, large, up, reaper, faults>>

-----------------------------------------------------------------------------
(* The lanes' workers and runJob *)

\* pg-boss hands a job to a worker: policy singleton lets one job of a key (a
\* repository) be active in a queue.  laneOf is read as the handler starts.
Fetch(s) ==
  LET j == job[s] IN
  /\ At(s, "waiting")
  /\ \A t \in Slots : job[t].state = "active" /\ job[t].lane = j.lane
                        => RepoOf[job[t].build] # RepoOf[j.build]
  /\ job' = [job EXCEPT ![s] = [@ EXCEPT
       !.state = "active",
       !.pc = IF j.lane = "builds" /\ RepoOf[j.build] \in large
              THEN "forward" ELSE "claim"]]
  /\ UNCHANGED <<row, sending, large, up, reaper, faults>>

\* A large repository's job is sent again to the large lane, whole.
Forward(s) ==
  LET j == job[s] IN
  /\ At(s, "forward")
  /\ \E p \in Places : job' = [job EXCEPT
       ![p] = Created(j.build, "builds-large", j.attempt, j.more),
       ![s] = Returning(s)]
  /\ UNCHANGED <<row, sending, large, up, reaper, faults>>

\* Mutant: the claim does not ask for a queued row.
Claim_Unchecked(s) ==
  LET b == job[s].build IN
  /\ At(s, "claim")
  /\ row' = Running(b)
  /\ job' = [job EXCEPT ![s].pc = "working"]
  /\ UNCHANGED <<sending, large, up, reaper, faults>>

\* runJob claims the Build in one update; a job whose Build is not queued
\* does nothing.
Claim(s) ==
  LET b == job[s].build IN
  /\ At(s, "claim")
  /\ IF row[b].state = "queued"
     THEN /\ row' = Running(b)
          /\ job' = [job EXCEPT ![s].pc = "working"]
     ELSE /\ job' = [job EXCEPT ![s] = Returning(s)]
          /\ UNCHANGED row
  /\ UNCHANGED <<sending, large, up, reaper, faults>>

\* A private repository without a token, or a whole Report whose head has not
\* moved (asked of the first attempt that is no quiet Build).
EndsEarly(s) ==
  LET j == job[s] IN
  /\ At(s, "working")
  /\ \/ row' = EndRow(j.build, "failed", "private")
     \/ /\ j.attempt = 1 /\ j.more = 0
        /\ row' = Done(j.build, FALSE, "none")
  /\ job' = [job EXCEPT ![s] = Returning(s)]
  /\ UNCHANGED <<sending, large, up, reaper, faults>>

\* build() starts once it holds the repository.
Hold(s) ==
  LET b == job[s].build IN
  /\ At(s, "working")
  /\ \A t \in Slots : job[t].pc \in {"holding", "published", "marked"}
                        => RepoOf[job[t].build] # RepoOf[b]
  /\ job' = [job EXCEPT ![s].pc = "holding"]
  /\ UNCHANGED <<row, sending, large, up, reaper, faults>>

\* The quick phase of a first, cold attempt publishes a Report without lines.
PublishQuick(s) ==
  LET j == job[s] IN
  /\ At(s, "holding")
  /\ j.attempt = 1 /\ ~j.quick
  /\ row' = [row EXCEPT ![j.build].partial = TRUE]
  /\ job' = [job EXCEPT ![s].quick = TRUE]
  /\ UNCHANGED <<sending, large, up, reaper, faults>>

\* The full phase publishes; `left` says whether commits are still to count.
PublishFull(s) ==
  /\ At(s, "holding")
  /\ \E left \in BOOLEAN :
       job' = [job EXCEPT ![s] = [@ EXCEPT !.pc = "published", !.left = left]]
  /\ UNCHANGED <<row, sending, large, up, reaper, faults>>

MarkDone(s) ==
  /\ At(s, "published")
  /\ row' = Done(job[s].build, FALSE, "none")
  /\ job' = [job EXCEPT ![s].pc = "marked"]
  /\ UNCHANGED <<sending, large, up, reaper, faults>>

\* build() returns after a full publish: the row is ended again and a quiet
\* Build is inserted for the lines left, three at most.
Finish(s) ==
  LET j == job[s]
      done == Done(j.build, FALSE, "none")
      unused == {b \in Builds : row[b].state = "none" /\ RepoOf[b] = RepoOf[j.build]}
  IN
  /\ At(s, "marked")
  /\ IF j.left /\ j.more < MoreLinesMax /\ unused # {}
     THEN \E b \in unused :
            /\ row' = [done EXCEPT ![b] = [@ EXCEPT !.state = "queued", !.age = 0]]
            /\ job' = [job EXCEPT ![s] = [@ EXCEPT !.pc = "more", !.child = b]]
     ELSE /\ row' = done
          /\ job' = [job EXCEPT ![s] = Returning(s)]
  /\ UNCHANGED <<sending, large, up, reaper, faults>>

SendMore(s) ==
  LET j == job[s] IN
  /\ At(s, "more")
  /\ \/ /\ \E p \in Places : job' = [job EXCEPT
             ![p] = Created(j.child, LaneOf(j.child), 1, j.more + 1),
             ![s] = Returning(s)]
        /\ UNCHANGED <<row, faults>>
     \/ /\ Fault("throw")
        /\ row' = EndRow(j.child, "failed", "paused")
        /\ job' = [job EXCEPT ![s] = Returning(s)]
  /\ UNCHANGED <<sending, large, up, reaper>>

\* How a handler ends a Build whose full phase did not publish.
EndUnpublished(s, why) ==
  LET j == job[s] IN
  IF j.quick
  THEN Done(j.build, TRUE, why)
  ELSE EndRow(j.build, "failed", why)

\* Mutant: the last attempt is queued again too.
TimesOut_OneMore(s) ==
  LET j == job[s] IN
  /\ At(s, "holding")
  /\ IF j.attempt <= BuildAttempts
     THEN /\ row' = Queued(j.build)
          /\ job' = [job EXCEPT ![s].pc = "again"]
     ELSE /\ row' = EndUnpublished(s, "timed_out")
          /\ job' = [job EXCEPT ![s] = Returning(s)]
  /\ UNCHANGED <<sending, large, up, reaper, faults>>

\* The full phase runs past its time limit: the row is queued again, whatever
\* it is by then, until the attempts are used up.
TimesOut(s) ==
  LET j == job[s] IN
  /\ At(s, "holding")
  /\ IF j.attempt < BuildAttempts
     THEN /\ row' = Queued(j.build)
          /\ job' = [job EXCEPT ![s].pc = "again"]
     ELSE /\ row' = EndUnpublished(s, "timed_out")
          /\ job' = [job EXCEPT ![s] = Returning(s)]
  /\ UNCHANGED <<sending, large, up, reaper, faults>>

\* Mutant: the job sent again forgets which attempt it is.
SendAgain_SameAttempt(s) ==
  LET j == job[s] IN
  /\ At(s, "again")
  /\ \E p \in Places : job' = [job EXCEPT
       ![p] = Created(j.build, LaneOf(j.build), j.attempt, j.more),
       ![s] = Returning(s)]
  /\ UNCHANGED <<row, sending, large, up, reaper, faults>>

SendAgain(s) ==
  LET j == job[s] IN
  /\ At(s, "again")
  /\ \/ /\ \E p \in Places : job' = [job EXCEPT
             ![p] = Created(j.build, LaneOf(j.build), j.attempt + 1, j.more),
             ![s] = Returning(s)]
        /\ UNCHANGED <<row, faults>>
     \/ /\ Fault("throw")
        /\ row' = EndUnpublished(s, "timed_out")
        /\ job' = [job EXCEPT ![s] = Returning(s)]
  /\ UNCHANGED <<sending, large, up, reaper>>

\* Any other failure of the full phase: a clone, the engine, the load.
Fails(s) ==
  /\ At(s, "holding")
  /\ row' = EndUnpublished(s, "error")
  /\ job' = [job EXCEPT ![s] = Returning(s)]
  /\ UNCHANGED <<sending, large, up, reaper, faults>>

\* A step after the full publish throws.  The row's end: to the full phase it is
\* a failure like any other.  The move of the kept clones: build() says nothing
\* was published.
FailsAfterPublish(s) ==
  /\ Fault("throw")
  /\ \/ At(s, "published") /\ row' = EndUnpublished(s, "error")
     \/ At(s, "marked") /\ row' = EndRow(job[s].build, "failed", "error")
  /\ job' = [job EXCEPT ![s] = Returning(s)]
  /\ UNCHANGED <<sending, large, up, reaper>>

\* An update throws out of claimedJob.  runJob's `finally` fails a row still
\* running, unless that update throws too.
Throws(s) ==
  LET b == job[s].build IN
  /\ up /\ job[s].pc \in Claimed \cup {"claim", "forward"}
  /\ Fault("throw")
  /\ \/ /\ job[s].pc \in Claimed /\ row[b].state = "running"
        /\ row' = EndRow(b, "failed", "error")
     \/ UNCHANGED row
  /\ job' = [job EXCEPT ![s] = Returning(s)]
  /\ UNCHANGED <<sending, large, up, reaper>>

\* The handler has returned, and pg-boss completes its job.
Complete(s) ==
  /\ At(s, "returning")
  /\ job' = [job EXCEPT ![s] = Free]
  /\ UNCHANGED <<row, sending, large, up, reaper, faults>>

-----------------------------------------------------------------------------
(* Expiry, crash and restart *)

\* pg-boss fails a job active past expireInSeconds.  A handler still alive
\* goes on: nothing stops it.
Expire(s) ==
  /\ up /\ job[s].state = "active"
  /\ \/ /\ job[s].pc = "dead"
        /\ job' = [job EXCEPT ![s] = Free]
        /\ UNCHANGED faults
     \/ /\ job[s].pc # "dead"
        /\ Fault("expiry")
        /\ job' = [job EXCEPT ![s].state = "expired"]
  /\ UNCHANGED <<row, sending, large, up, reaper>>

\* The Builder's process ends, with its handlers and its reaper.
Crash ==
  /\ up /\ Fault("crash")
  /\ up' = FALSE
  /\ job' = [s \in Slots |->
               CASE job[s].state = "active" -> [job[s] EXCEPT !.pc = "dead"]
                 [] job[s].state = "expired" -> Free
                 [] OTHER -> job[s]]
  /\ reaper' = Idle
  /\ UNCHANGED <<row, sending, large>>

Restart ==
  /\ ~up
  /\ up' = TRUE
  /\ UNCHANGED <<row, job, sending, large, reaper, faults>>

-----------------------------------------------------------------------------
(* The reaper: reapBuilds, one query at a time *)

\* An open Build, but for those queued less than RESEND_AFTER ago.  What the
\* lanes say of one past LONGEST_JOB_SECONDS is not used.
ReapRead(b) ==
  /\ up /\ reaper = Idle
  /\ row[b].state \in Open
  /\ row[b].state = "queued" => row[b].age > 0
  /\ reaper' = [at |-> b, read |-> row[b].state, old |-> row[b].age = 2,
                asks |-> IF row[b].age = 2 THEN 0 ELSE 2]
  /\ UNCHANGED <<row, job, sending, large, up, faults>>

\* The job states that let a Build be.
Alive == IF reaper.read = "running" THEN {"active"} ELSE {"created", "active"}

\* buildJobStates asks both lanes at once.  A job is only ever moved from the
\* small lane to the large one, so the large one answering first is the order
\* that can miss it.
ReapLook ==
  LET lane == IF reaper.asks = 2 THEN "builds-large" ELSE "builds"
      seen == \E s \in Slots : /\ job[s].build = reaper.at
                               /\ job[s].lane = lane /\ job[s].state \in Alive
  IN
  /\ up /\ reaper.asks > 0
  /\ reaper' = IF seen THEN Idle ELSE [reaper EXCEPT !.asks = @ - 1]
  /\ UNCHANGED <<row, job, sending, large, up, faults>>

Looked(state) == up /\ reaper.read = state /\ reaper.asks = 0

\* A Build read as running, with no active job seen or older than any job may
\* be, fails if it is running still.
ReapRunning ==
  LET b == reaper.at IN
  /\ Looked("running")
  /\ row' = IF row[b].state = "running" THEN EndRow(b, "failed", "error") ELSE row
  /\ reaper' = Idle
  /\ UNCHANGED <<job, sending, large, up, faults>>

\* Mutant: the update does not ask that the row is queued still.
ReapOld_Unchecked ==
  /\ Looked("queued") /\ reaper.old
  /\ row' = EndRow(reaper.at, "failed", "paused")
  /\ reaper' = Idle
  /\ UNCHANGED <<job, sending, large, up, faults>>

\* A Build read as queued a day ago is given up.
ReapOld ==
  LET b == reaper.at IN
  /\ Looked("queued") /\ reaper.old
  /\ row' = IF row[b].state = "queued" THEN EndRow(b, "failed", "paused") ELSE row
  /\ reaper' = Idle
  /\ UNCHANGED <<job, sending, large, up, faults>>

\* A Build read as queued, with no job seen alive, is sent again: a first
\* attempt, on the small lane.
ReapQueued ==
  /\ Looked("queued") /\ ~reaper.old /\ Spare
  /\ \E p \in Places : job' = [job EXCEPT ![p] = Created(reaper.at, "builds", 1, 0)]
  /\ reaper' = Idle
  /\ UNCHANGED <<row, sending, large, up, faults>>

-----------------------------------------------------------------------------
Handler(s) ==
  \/ Fetch(s) \/ Forward(s) \/ Claim(s) \/ EndsEarly(s) \/ Hold(s)
  \/ PublishQuick(s) \/ PublishFull(s) \/ MarkDone(s) \/ Finish(s)
  \/ SendMore(s) \/ TimesOut(s) \/ SendAgain(s) \/ Fails(s)
  \/ FailsAfterPublish(s) \/ Throws(s) \/ Complete(s)

Reap ==
  \/ \E b \in Builds : ReapRead(b)
  \/ ReapLook \/ ReapRunning \/ ReapOld \/ ReapQueued

Next ==
  \/ \E b \in Builds : Insert(b) \/ Send(b) \/ SendThrows(b) \/ SenderStops(b) \/ Age(b)
  \/ \E r \in Repos : Resize(r)
  \/ \E s \in Slots : Handler(s) \/ Expire(s)
  \/ Crash \/ Restart
  \/ Reap

\* A send returns; a handler's next await settles, every run of git and of the
\* engine having a time limit; pg-boss expires the jobs of a Builder that died
\* and hands out those waiting; the Builder is started again; the reaper's timer
\* fires, and each pass looks at every open Build; two minutes pass.  Nothing
\* makes a fault happen, nor a whole day pass.
Fairness ==
  /\ \A b \in Builds :
       /\ WF_vars(Send(b))
       /\ WF_vars(row[b].age = 0 /\ Age(b))
       /\ SF_vars(ReapRead(b))
  /\ \A s \in Slots :
       /\ WF_vars(Handler(s))
       /\ WF_vars(job[s].pc = "dead" /\ Expire(s))
  /\ WF_vars(Restart)
  /\ WF_vars(ReapLook \/ ReapRunning \/ ReapOld \/ ReapQueued)

Spec == Init /\ [][Next]_vars

FairSpec == Spec /\ Fairness

-----------------------------------------------------------------------------
(* What must hold *)

\* However many jobs carry a Build (sent twice by a slow Site and the reaper,
\* moved between lanes, sent again after a timeout) and whatever expires or
\* crashes, at most one live handler has claimed it: runJob's claim.
OneHandlerPerBuild ==
  \A s, t \in Slots :
    job[s].pc \in Claimed /\ job[t].pc \in Claimed
    /\ job[s].build = job[t].build => s = t

\* The updates that end a Build name it by id alone, yet without a fault a
\* running row is only ever ended, or queued again, by the handler that claimed
\* it or by a reaper that read it running: never by a duplicate job's handler
\* and never by a reaper that took it for one waiting.
OwnerEnds(b) ==
  row[b].state = "running" /\ row'[b].state # "running" /\ faults' = faults
    => \/ \E s \in Slots : /\ job[s].build = b /\ job[s].pc \in Claimed
                            /\ job'[s] # job[s]
       \/ reaper.at = b /\ reaper.read = "running"

OnlyOwnerEnds == [][\A b \in Builds : OwnerEnds(b)]_vars

\* Every Build asked for ends, through lost jobs, dead handlers, timeouts and
\* a Builder that stops: claim, time limits, job expiry and the reaper together.
EveryBuildEnds ==
  \A b \in Builds : row[b].state \in Open ~> row[b].state \in Ended

\* docs/working.md: "If the full phase fails after the first one was published,
\* the Build still ends `done`, partial, with the reason."  claimedJob only
\* remembers a quick publish of the same attempt.
FullFailureEndsDone ==
  [][\A s \in Slots :
       job[s].pc = "holding" /\ job'[s].pc = "returning" /\ row[job[s].build].partial
         => row'[job[s].build].state # "failed"]_vars
=============================================================================
