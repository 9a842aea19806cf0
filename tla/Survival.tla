------------------------------ MODULE Survival ------------------------------
(***************************************************************************)
(* The counts of Surviving Lines of one public repository: the rows the    *)
(* Site shows, the jobs that carry a count, the Builder's handlers of      *)
(* them, and what goes on meanwhile: Builds that move the clone and        *)
(* publish other Reports, the Site asking for a person, jobs that expire   *)
(* and a Builder that stops.                                               *)
(*                                                                         *)
(* Sources: apps/builder/src/survival.ts (runSurvival), job.ts             *)
(* (queueEveryone), main.ts (queueCounts and the worker),                  *)
(* apps/site/src/server/engine.ts (wantsCount, askCounts), and             *)
(* packages/server/src/queue.ts (survivalKey).                             *)
(*                                                                         *)
(* Abstracted: how many lines a count says (Ownership has how they are     *)
(* found), but for the head they are counted at; the half hour after which *)
(* the Site asks again, which may or may not be over whenever it looks;    *)
(* prefetched blobs and the second run after fetching them; and the        *)
(* memory a run waits for, which Holding has.                              *)
(***************************************************************************)
EXTENDS Naturals

CONSTANTS
  People,       \* the people of the repository
  LastVersion,  \* bound: Report versions
  LastTip,      \* bound: heads of the remote
  LastAttempt,  \* the attempt whose budget is four hours
  Handlers,     \* handlers of counts: a second one when a job expires under the first
  NoHandler,
  AskedMost,    \* bound: counts the Site asked for
  FaultsMost    \* bound: sends that fail, jobs that expire, a Builder that stops

ASSUME SurvivalAssumption ==
  /\ LastVersion \in Nat /\ LastTip \in Nat \ {0}
  /\ LastAttempt \in Nat /\ AskedMost \in Nat /\ FaultsMost \in Nat
  /\ {NoHandler, "build"} \cap Handlers = {} /\ NoHandler # "build"

VARIABLES
  live,     \* the repository's Report version; 0: none
  headOf,   \* version -> its head (reportHead); 0: not published
  tip,      \* the remote's head
  clone,    \* the kept clones and the head each is at; 0: not there
  holder,   \* who holds the repository (holdingRepo)
  build,    \* where its Build is
  counts,   \* the rows of `surviving`, and the head a count is of
  queue,    \* jobs of SURVIVAL_QUEUE not fetched yet
  worker,   \* the handler of the active job
  handler,  \* handler -> where it is
  site,     \* a request of the Site
  asks,     \* how many counts it has asked for
  broken    \* how many faults there were

survivalVars == <<live, headOf, tip, clone, holder, build, counts, queue, worker, handler,
                  site, asks, broken>>

Versions == 1 .. LastVersion
Tips == 1 .. LastTip
Uncounted == {"none", "queued", "stale", "failed", "over_budget"}
CountJob ==
  [version : Versions, ids : SUBSET People, everyone : BOOLEAN, attempt : 0 .. LastAttempt,
   full : BOOLEAN]

\* survivalKey: with one key, one job waits at most (pg-boss: stately).
survivalKey(job) == <<job.version, IF job.everyone THEN People ELSE job.ids, job.everyone>>

FreeHandler == [pc |-> "free"]
AtWork ==
  [pc : {"waits", "counts", "ends"}, job : CountJob, head : Tips \cup {0}, leaned : BOOLEAN,
   said : {"nothing", "stale", "failed", "timedOut", "partial", "whole"}, people : SUBSET People]

SurvivalTypeOK ==
  /\ live \in Versions \cup {0} /\ headOf \in [Versions -> Tips \cup {0}] /\ tip \in Tips
  /\ clone \in [full : Tips \cup {0}, lean : Tips \cup {0}]
  /\ holder \in Handlers \cup {NoHandler, "build"}
  /\ build \in {"idle", "holds", "counts"}
  /\ counts \in [Versions \X People ->
                   [status : Uncounted, of : {0}] \cup [status : {"counted"}, of : Tips]]
  /\ queue \subseteq CountJob
  /\ \A j, k \in queue : survivalKey(j) = survivalKey(k) => j = k
  /\ worker \in Handlers \cup {NoHandler}
  /\ handler \in [Handlers -> AtWork \cup {FreeHandler}]
  /\ site \in {[pc |-> "idle"]} \cup
               [pc : {"marks", "sends"}, version : Versions, person : People]
  /\ asks \in 0 .. AskedMost /\ broken \in 0 .. FaultsMost

SurvivalInit ==
  /\ live = 0 /\ headOf = [v \in Versions |-> 0] /\ tip = 1
  /\ clone = [full |-> 0, lean |-> 0]
  /\ holder = NoHandler /\ build = "idle"
  /\ counts = [r \in Versions \X People |-> [status |-> "none", of |-> 0]]
  /\ queue = {} /\ worker = NoHandler /\ handler = [h \in Handlers |-> FreeHandler]
  /\ site = [pc |-> "idle"] /\ asks = 0 /\ broken = 0

\* mark: the rows of some people, if they have one, in one version.
Mark(status, v, ids) ==
  counts' = [r \in Versions \X People |->
    IF r[1] = v /\ r[2] \in ids /\ counts[r].status # "none"
    THEN [status |-> status, of |-> 0] ELSE counts[r]]

\* Mutant: jobs have no key.
Sent_Unkeyed(job) == queue \cup {job}
\* A job is dropped silently when one of its key waits already.
Sent(job) ==
  IF \E j \in queue : survivalKey(j) = survivalKey(job) THEN queue ELSE queue \cup {job}

Breaks == broken < FaultsMost /\ broken' = broken + 1

-----------------------------------------------------------------------------
(* Builds *)

\* Pushes show when somebody fetches.
Fetched == tip' \in tip .. LastTip

\* A Build fetches the remote's head into the full clone, its quick one kept as the
\* blobless clone if there is none; or into the blobless one, letting the full one go.
BuildHolds ==
  /\ build = "idle" /\ holder = NoHandler
  /\ build' = "holds" /\ holder' = "build"
  /\ Fetched
  /\ clone' \in {[full |-> tip', lean |-> clone.lean], [full |-> 0, lean |-> tip']}
                   \cup (IF clone.lean = 0 THEN {[full |-> tip', lean |-> tip']} ELSE {})
  /\ UNCHANGED <<live, headOf, counts, queue, worker, handler, site, asks, broken>>

\* The quick Report has a version of its own, and no counts are asked for.
BuildPublishes(quick) ==
  /\ build = "holds" /\ live + 1 \in Versions
  /\ quick => live = 0
  /\ live' = live + 1
  /\ headOf' = [headOf EXCEPT ![live + 1] = IF clone.full = 0 THEN clone.lean ELSE clone.full]
  /\ build' = IF quick THEN "holds" ELSE "counts"
  /\ UNCHANGED <<tip, clone, holder, counts, queue, worker, handler, site, asks, broken>>

\* queueEveryone: everyone is marked counting, whoever the Site has asked for already
\* left as they are, and one job queued that names nobody.
EveryoneQueued ==
  /\ build = "counts"
  /\ counts' = [r \in Versions \X People |->
       IF r[1] = live /\ counts[r].status = "none" THEN [status |-> "queued", of |-> 0] ELSE counts[r]]
  /\ \/ queue' = Sent([version |-> live, ids |-> {}, everyone |-> TRUE, attempt |-> 0, full |-> FALSE])
        /\ UNCHANGED broken
     \/ Breaks /\ UNCHANGED queue
  /\ build' = "holds"
  /\ UNCHANGED <<live, headOf, tip, clone, holder, worker, handler, site, asks>>

BuildEnds ==
  /\ build = "holds"
  /\ build' = "idle" /\ holder' = NoHandler
  /\ UNCHANGED <<live, headOf, tip, clone, counts, queue, worker, handler, site, asks, broken>>

-----------------------------------------------------------------------------
(* The Site asked for a person *)

\* wantsCount: never asked for, or lost or unfinished after half an hour.
SiteWants(p) ==
  /\ site.pc = "idle" /\ asks < AskedMost /\ live # 0
  /\ counts[<<live, p>>].status \in {"none", "queued", "failed", "over_budget"}
  /\ site' = [pc |-> "marks", version |-> live, person |-> p]
  /\ asks' = asks + 1
  /\ UNCHANGED <<live, headOf, tip, clone, holder, build, counts, queue, worker, handler, broken>>

SiteMarks ==
  /\ site.pc = "marks"
  /\ counts' = [counts EXCEPT ![<<site.version, site.person>>] = [status |-> "queued", of |-> 0]]
  /\ site' = [site EXCEPT !.pc = "sends"]
  /\ UNCHANGED <<live, headOf, tip, clone, holder, build, queue, worker, handler, asks, broken>>

SiteSends ==
  /\ site.pc = "sends"
  /\ \/ queue' = Sent([version |-> site.version, ids |-> {site.person}, everyone |-> FALSE,
                         attempt |-> 0, full |-> FALSE])
        /\ UNCHANGED broken
     \/ Breaks /\ UNCHANGED queue
  /\ site' = [pc |-> "idle"]
  /\ UNCHANGED <<live, headOf, tip, clone, holder, build, counts, worker, handler, asks>>

-----------------------------------------------------------------------------
(* runSurvival *)

\* Fetched while no count is active, a job of a Report replaced since is over at once.
CountIsStale(j) ==
  /\ j \in queue /\ worker = NoHandler /\ live # j.version
  /\ queue' = queue \ {j}
  /\ Mark("stale", j.version, j.ids)
  /\ UNCHANGED <<live, headOf, tip, clone, holder, build, worker, handler, site, asks, broken>>

FreeHandlers == {h \in Handlers : handler[h].pc = "free"}

CountStarts(j) ==
  LET h == CHOOSE k \in FreeHandlers : TRUE IN
  /\ j \in queue /\ worker = NoHandler /\ live = j.version /\ FreeHandlers # {}
  /\ queue' = queue \ {j}
  /\ worker' = h
  /\ handler' = [handler EXCEPT ![h] =
       [pc |-> "waits", job |-> j, head |-> 0, leaned |-> FALSE, said |-> "nothing", people |-> {}]]
  /\ UNCHANGED <<live, headOf, tip, clone, holder, build, counts, site, asks, broken>>

Says(h, said, leaned) ==
  handler' = [handler EXCEPT ![h].pc = "ends", ![h].said = said, ![h].head = 0, ![h].leaned = leaned]

\* Mutant: what was read before the wait is taken for what is there.
Replaced_Unlooked(h) == FALSE
\* The Report is read again once the repository is held.
Replaced(h) == live # handler[h].job.version

CountCameLate(h) ==
  /\ handler[h].pc = "waits" /\ holder = NoHandler /\ Replaced(h)
  /\ Says(h, "stale", FALSE)
  /\ UNCHANGED <<live, headOf, tip, clone, holder, build, counts, queue, worker, site, asks, broken>>

Leaned(job) == ~job.full /\ clone.lean # 0 /\ clone.full = 0

\* Where neither clone will do, the remote is cloned, as it is now.
CountHolds(h) ==
  LET job == handler[h].job IN
  /\ handler[h].pc = "waits" /\ holder = NoHandler /\ ~Replaced(h)
  /\ \/ /\ Leaned(job) \/ clone.full # 0
        /\ holder' = h /\ UNCHANGED <<clone, tip>>
        /\ handler' = [handler EXCEPT ![h].pc = "counts", ![h].head = headOf[live], ![h].leaned = Leaned(job)]
     \/ /\ ~Leaned(job) /\ clone.full = 0
        /\ holder' = h /\ Fetched /\ clone' = [clone EXCEPT !.full = tip']
        /\ handler' = [handler EXCEPT ![h].pc = "counts", ![h].head = headOf[live]]
     \/ /\ ~Leaned(job) /\ clone.full = 0
        /\ UNCHANGED <<holder, clone, tip>>
        /\ Says(h, "failed", FALSE)
  /\ UNCHANGED <<live, headOf, build, counts, queue, worker, site, asks, broken>>

\* The engine stops at once when the clone's head is not the one it is asked for.
CountRuns(h) ==
  LET at == IF handler[h].leaned THEN clone.lean ELSE clone.full IN
  /\ handler[h].pc = "counts"
  /\ holder' = NoHandler
  /\ \/ Says(h, "failed", handler[h].leaned)
     \/ at # handler[h].head /\ Says(h, "stale", FALSE)
     \/ at = handler[h].head /\ \E said \in {"timedOut", "partial"} : Says(h, said, FALSE)
     \/ /\ at = handler[h].head
        /\ \E people \in SUBSET People :
             handler' = [handler EXCEPT ![h].pc = "ends", ![h].said = "whole", ![h].leaned = FALSE,
                                            ![h].people = people, ![h].head = at]
  /\ UNCHANGED <<live, headOf, tip, clone, build, counts, queue, worker, site, asks, broken>>

Returns(h) ==
  /\ handler' = [handler EXCEPT ![h] = FreeHandler]
  /\ worker' = IF worker = h THEN NoHandler ELSE worker

\* Of a blobless clone, a failure is no answer: it is counted again from a full one.
FailsLean(h) == handler[h].said = "failed" /\ handler[h].leaned

CountMarks(h) ==
  LET job == handler[h].job IN
  /\ handler[h].pc = "ends" /\ handler[h].said \in {"stale", "failed"} /\ ~FailsLean(h)
  /\ Mark(handler[h].said, job.version, job.ids)
  /\ Returns(h)
  /\ UNCHANGED <<live, headOf, tip, clone, holder, build, queue, site, asks, broken>>

CountFromFull(h) ==
  LET job == handler[h].job IN
  /\ handler[h].pc = "ends" /\ FailsLean(h)
  /\ \/ queue' = Sent([job EXCEPT !.full = TRUE]) /\ UNCHANGED <<counts, broken>>
     \/ Breaks /\ Mark("failed", job.version, job.ids) /\ UNCHANGED queue
  /\ Returns(h)
  /\ UNCHANGED <<live, headOf, tip, clone, holder, build, site, asks>>

\* Mutant: the largest budget is tried for ever.
NextAttempt_Endless(job) == IF job.attempt = LastAttempt THEN {job.attempt} ELSE {job.attempt + 1}
\* budgetOf: the budget doubles until it is four hours.
NextAttempt(job) == IF job.attempt = LastAttempt THEN {} ELSE {job.attempt + 1}

\* again: for everyone, but naming whom this job named.
CountAgain(h) ==
  LET job == handler[h].job
      next(a) == [job EXCEPT !.everyone = TRUE, !.attempt = a, !.full = FALSE]
  IN
  /\ handler[h].pc = "ends" /\ handler[h].said \in {"timedOut", "partial"}
  /\ \/ \E a \in NextAttempt(job) :
          queue' = Sent(next(a)) /\ UNCHANGED <<counts, broken>>
     \/ /\ \/ NextAttempt(job) = {} /\ UNCHANGED broken
           \/ NextAttempt(job) # {} /\ Breaks
        /\ Mark("over_budget", job.version, job.ids) /\ UNCHANGED queue
  /\ Returns(h)
  /\ UNCHANGED <<live, headOf, tip, clone, holder, build, site, asks>>

\* Everyone counted is recorded, whoever asked; whom the job named and nobody found failed.
CountIsWhole(h) ==
  LET job == handler[h].job IN
  /\ handler[h].pc = "ends" /\ handler[h].said = "whole"
  /\ counts' = [r \in Versions \X People |->
       IF r[1] # job.version THEN counts[r]
       ELSE IF r[2] \in handler[h].people THEN [status |-> "counted", of |-> handler[h].head]
       ELSE IF r[2] \in job.ids /\ counts[r].status # "none" THEN [status |-> "failed", of |-> 0]
       ELSE counts[r]]
  /\ Returns(h)
  /\ UNCHANGED <<live, headOf, tip, clone, holder, build, queue, site, asks, broken>>

-----------------------------------------------------------------------------
(* Faults *)

\* A job for everyone is given no time for its budget, which may be most of what it
\* takes: the queue gives it up, and the handler goes on.
CountExpires ==
  /\ worker # NoHandler /\ Breaks
  /\ worker' = NoHandler
  /\ UNCHANGED <<live, headOf, tip, clone, holder, build, counts, queue, handler, site, asks>>

\* What was active is not tried again (retryLimit 0).
BuilderStops ==
  /\ Breaks
  /\ handler' = [h \in Handlers |-> FreeHandler] /\ worker' = NoHandler
  /\ holder' = NoHandler /\ build' = "idle"
  /\ UNCHANGED <<live, headOf, tip, clone, counts, queue, site, asks>>

-----------------------------------------------------------------------------
CountAtWork(h) ==
  CountCameLate(h) \/ CountHolds(h) \/ CountRuns(h) \/ CountMarks(h) \/ CountFromFull(h)
    \/ CountAgain(h) \/ CountIsWhole(h)

SurvivalNext ==
  \/ BuildHolds \/ EveryoneQueued \/ BuildEnds
  \/ \E quick \in BOOLEAN : BuildPublishes(quick)
  \/ \E p \in People : SiteWants(p)
  \/ SiteMarks \/ SiteSends
  \/ \E j \in queue : CountIsStale(j) \/ CountStarts(j)
  \/ \E h \in Handlers : CountAtWork(h)
  \/ CountExpires \/ BuilderStops

\* A job that waits is fetched; runs have time limits; a request ends.  Who asked for a
\* repository gets it in turn, however many Builds ask for it too (holdingRepo).
SurvivalFairness ==
  /\ WF_survivalVars(\E j \in queue : CountIsStale(j) \/ CountStarts(j))
  /\ \A h \in Handlers : SF_survivalVars(CountAtWork(h))
  /\ WF_survivalVars(EveryoneQueued \/ BuildEnds)

SurvivalSpec == SurvivalInit /\ [][SurvivalNext]_survivalVars /\ SurvivalFairness

-----------------------------------------------------------------------------
(* What must hold *)

\* "Counts everyone's Surviving Lines in one repository at its stored Report's head":
\* what is recorded for a Report was counted at its head, whatever was published, or
\* fetched into the clone, while the count waited for the repository or ran.
CountsAreOfHead ==
  \A r \in Versions \X People : counts[r].status = "counted" => counts[r].of = headOf[r[1]]

\* However often a count runs out of its budget, fails on a blobless clone, expires or
\* finds another count waiting, the counts come to an end once nobody asked for more.
CountsEnd == <>[](queue = {} /\ \A h \in Handlers : handler[h].pc = "free")
=============================================================================
