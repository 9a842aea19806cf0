--------------------------- MODULE Builder_proofs ---------------------------
(***************************************************************************)
(* Proofs about what the Builder's jobs do beside publishing: counts of    *)
(* Surviving Lines (Survival), for any number of people, versions, heads,  *)
(* attempts, handlers and faults; and what jobs wait for (Holding), for    *)
(* any jobs, forks, memory and budget.                                     *)
(***************************************************************************)
EXTENDS Survival, Holding, Folds_proofs

-----------------------------------------------------------------------------
(* Survival *)

\* The versions that are published have a head.
Published == \A v \in Versions : headOf[v] # 0 <=> v <= live

\* A Build that publishes has a clone to take the head of, and one that asks for counts
\* has published.
Cloned ==
  /\ build # "idle" => clone.full # 0 \/ clone.lean # 0
  /\ build = "counts" => live # 0

\* A handler that asks the engine for a head, or has counted at one.
AsksFor(w) == w.pc = "counts" \/ (w.pc = "ends" /\ w.said = "whole")

\* It is the head of its job's Report.
AtHead ==
  \A h \in Handlers : AsksFor(handler[h]) =>
    handler[h].head # 0 /\ handler[h].head = headOf[handler[h].job.version]

SurvivalInv == SurvivalTypeOK /\ Published /\ Cloned /\ AtHead /\ CountsAreOfHead

Counted == [status : Uncounted, of : {0}] \cup [status : {"counted"}, of : Tips]

Keyed(jobs) == jobs \subseteq CountJob /\ \A j, k \in jobs : survivalKey(j) = survivalKey(k) => j = k

-----------------------------------------------------------------------------
(* Lemmas about the operators the actions are built from *)

\* A job joins the queue or is dropped: no two of one key wait.
LEMMA SentIsKeyed == ASSUME Keyed(queue), NEW count \in CountJob PROVE Keyed(Sent(count))
<1>1. CASE \E j \in queue : survivalKey(j) = survivalKey(count)
  BY <1>1 DEF Sent
<1>2. CASE ~ \E j \in queue : survivalKey(j) = survivalKey(count)
  <2>1. Sent(count) = queue \cup {count}
    BY <1>2 DEF Sent
  <2> QED BY <2>1, <1>2 DEF Keyed
<1> QED BY <1>1, <1>2

\* A mark is no count.
LEMMA MarkUncounts ==
  ASSUME counts \in [Versions \X People -> Counted], NEW status \in Uncounted, NEW v, NEW ids,
         Mark(status, v, ids)
  PROVE  /\ counts' \in [Versions \X People -> Counted]
         /\ \A r \in Versions \X People : counts'[r] = counts[r] \/ counts'[r].status # "counted"
<1>1. [status |-> status, of |-> 0] \in Counted
  BY DEF Counted
<1>2. status # "counted"
  BY DEF Uncounted
<1> QED BY <1>1, <1>2 DEF Mark

\* What a step has to keep.
LEMMA SurvivalStep ==
  ASSUME SurvivalInv, SurvivalTypeOK', UNCHANGED <<live, headOf>>,
         build' # "idle" => (build # "idle" /\ UNCHANGED clone) \/ clone'.full # 0 \/ clone'.lean # 0,
         build' = "counts" => build = "counts",
         \A h \in Handlers :
           \/ handler'[h] = handler[h]
           \/ ~AsksFor(handler'[h])
           \/ /\ handler'[h].head # 0
              /\ handler'[h].head = headOf[handler'[h].job.version],
         \A r \in Versions \X People :
           \/ counts'[r] = counts[r]
           \/ counts'[r].status # "counted"
           \/ counts'[r].of = headOf[r[1]]
  PROVE  SurvivalInv'
<1>1. Published'
  BY DEF SurvivalInv, Published
<1>2. Cloned'
  BY DEF SurvivalInv, Cloned
<1>3. AtHead'
  BY DEF SurvivalInv, AtHead
<1>4. CountsAreOfHead'
  BY DEF SurvivalInv, CountsAreOfHead
<1> QED BY <1>1, <1>2, <1>3, <1>4 DEF SurvivalInv

\* A step of one handler that changes no clone: what it is to show.
LEMMA HandlerStep ==
  ASSUME SurvivalInv, NEW h \in Handlers, NEW w \in AtWork \cup {FreeHandler},
         handler' = [handler EXCEPT ![h] = w],
         AsksFor(w) => w.head # 0 /\ w.head = headOf[w.job.version],
         UNCHANGED <<live, headOf, tip, clone, build, site, asks>>,
         holder' \in Handlers \cup {NoHandler, "build"}, worker' \in Handlers \cup {NoHandler},
         broken' \in 0 .. FaultsMost, Keyed(queue'),
         counts' \in [Versions \X People -> Counted],
         \A r \in Versions \X People :
           \/ counts'[r] = counts[r]
           \/ counts'[r].status # "counted"
           \/ counts'[r].of = headOf[r[1]]
  PROVE  SurvivalInv'
<1>1. SurvivalTypeOK
  BY DEF SurvivalInv
<1>2. handler' \in [Handlers -> AtWork \cup {FreeHandler}]
  BY <1>1 DEF SurvivalTypeOK
<1>3. SurvivalTypeOK'
  BY <1>1, <1>2 DEF SurvivalTypeOK, Keyed, Counted
<1>4. \A k \in Handlers :
           \/ handler'[k] = handler[k]
           \/ ~AsksFor(handler'[k])
           \/ /\ handler'[k].head # 0
              /\ handler'[k].head = headOf[handler'[k].job.version]
  BY <1>1 DEF SurvivalTypeOK
<1>5. build' # "idle" => build # "idle" /\ UNCHANGED clone
  OBVIOUS
<1> QED BY <1>3, <1>4, <1>5, SurvivalStep

\* What the type says of the state, part by part.
LEMMA SurvivalState ==
  ASSUME SurvivalInv
  PROVE  /\ live \in Nat /\ live \in Versions \cup {0} /\ tip \in Tips
         /\ headOf \in [Versions -> Tips \cup {0}]
         /\ Keyed(queue) /\ counts \in [Versions \X People -> Counted]
         /\ broken \in 0 .. FaultsMost
         /\ Breaks => broken' \in 0 .. FaultsMost
<1>1. SurvivalTypeOK /\ LastVersion \in Nat /\ FaultsMost \in Nat
  BY SurvivalAssumption DEF SurvivalInv
<1> QED BY <1>1 DEF SurvivalTypeOK, Keyed, Counted, Versions, Breaks

-----------------------------------------------------------------------------
(* Builds and the Site *)

LEMMA BuildKeeps ==
  ASSUME SurvivalInv, BuildHolds \/ EveryoneQueued \/ BuildEnds PROVE SurvivalInv'
<1>1. /\ SurvivalTypeOK /\ tip \in Tips /\ Keyed(queue) /\ live \in Versions \cup {0}
      /\ counts \in [Versions \X People -> Counted] /\ LastTip \in Nat /\ broken \in 0 .. FaultsMost
  BY SurvivalState, SurvivalAssumption DEF SurvivalInv
<1>2. CASE BuildHolds
  <2>1. tip' \in Tips /\ tip' # 0
    BY <1>1, <1>2 DEF BuildHolds, Fetched, Tips
  <2>2. /\ clone' \in [full : Tips \cup {0}, lean : Tips \cup {0}]
        /\ clone'.full # 0 \/ clone'.lean # 0
    <3>1. clone \in [full : Tips \cup {0}, lean : Tips \cup {0}]
      BY <1>1 DEF SurvivalTypeOK
    <3>2. clone' \in {[full |-> tip', lean |-> clone.lean], [full |-> 0, lean |-> tip'],
                      [full |-> tip', lean |-> tip']}
      BY <1>2 DEF BuildHolds
    <3> QED BY <3>1, <3>2, <2>1
  <2>3. SurvivalTypeOK'
    BY <1>1, <1>2, <2>1, <2>2 DEF BuildHolds, SurvivalTypeOK
  <2> QED BY <1>2, <2>2, <2>3, SurvivalStep DEF BuildHolds
<1>3. CASE EveryoneQueued
  <2>1. live \in Versions
    BY <1>1, <1>3 DEF EveryoneQueued, SurvivalInv, Cloned
  <2> DEFINE count == [version |-> live, ids |-> {}, everyone |-> TRUE, attempt |-> 0, full |-> FALSE]
  <2>2. count \in CountJob
    BY <2>1, SurvivalAssumption DEF CountJob
  <2>3. queue' \in {Sent(count), queue} /\ broken' \in 0 .. FaultsMost
    BY <1>1, <1>3, SurvivalState DEF EveryoneQueued
  <2>4. Keyed(queue')
    BY <2>2, <2>3, <1>1, SentIsKeyed
  <2>5. /\ counts' \in [Versions \X People -> Counted]
        /\ \A r \in Versions \X People : counts'[r] = counts[r] \/ counts'[r].status # "counted"
    <3>1. [status |-> "queued", of |-> 0] \in Counted
      BY DEF Counted, Uncounted
    <3> QED BY <3>1, <1>1, <1>3 DEF EveryoneQueued
  <2>6. SurvivalTypeOK'
    BY <1>1, <1>3, <2>3, <2>4, <2>5 DEF EveryoneQueued, SurvivalTypeOK, Keyed, Counted
  <2> QED BY <1>3, <2>5, <2>6, SurvivalStep DEF EveryoneQueued
<1>4. CASE BuildEnds
  <2>1. SurvivalTypeOK'
    BY <1>1, <1>4 DEF BuildEnds, SurvivalTypeOK
  <2> QED BY <1>4, <2>1, SurvivalStep DEF BuildEnds
<1> QED BY <1>2, <1>3, <1>4

LEMMA BuildPublishesKeeps ==
  ASSUME SurvivalInv, NEW quick \in BOOLEAN, BuildPublishes(quick) PROVE SurvivalInv'
<1> DEFINE v == live + 1
           head == IF clone.full = 0 THEN clone.lean ELSE clone.full
<1>1. /\ SurvivalTypeOK /\ Published /\ Cloned /\ AtHead /\ CountsAreOfHead
      /\ live \in Nat /\ v \in Versions /\ build = "holds"
  BY SurvivalState DEF SurvivalInv, BuildPublishes
<1>2. head \in Tips \cup {0} /\ head # 0
  BY <1>1 DEF SurvivalTypeOK, Cloned
<1>3. /\ live' = v /\ headOf'[v] = head /\ headOf' \in [Versions -> Tips \cup {0}]
      /\ \A u \in Versions : u # v => headOf'[u] = headOf[u]
  BY <1>1, <1>2 DEF BuildPublishes, SurvivalTypeOK
<1>4. UNCHANGED <<tip, clone, holder, counts, queue, worker, handler, site, asks, broken>>
  BY DEF BuildPublishes
<1> HIDE DEF head
<1>5. SurvivalTypeOK'
  BY <1>1, <1>3, <1>4 DEF BuildPublishes, SurvivalTypeOK
<1>6. Published'
  BY <1>1, <1>2, <1>3 DEF Published, Versions
<1>7. Cloned'
  BY <1>1, <1>3, <1>4 DEF BuildPublishes, Cloned
<1>8. headOf[v] = 0
  BY <1>1 DEF Published
<1>9. AtHead'
  <2>1. ASSUME NEW h \in Handlers, AsksFor(handler[h])
        PROVE  headOf'[handler[h].job.version] = headOf[handler[h].job.version]
    <3>1. handler[h] \in AtWork
      BY <2>1, <1>1 DEF AsksFor, SurvivalTypeOK, FreeHandler
    <3>2. handler[h].job.version \in Versions
      BY <3>1 DEF AtWork, CountJob
    <3> QED BY <3>2, <2>1, <1>1, <1>3, <1>8 DEF AtHead
  <2> QED BY <2>1, <1>1, <1>4 DEF AtHead
<1>10. CountsAreOfHead'
  <2>1. ASSUME NEW r \in Versions \X People, counts[r].status = "counted"
        PROVE  headOf'[r[1]] = headOf[r[1]]
    <3>1. counts[r].of # 0
      BY <2>1, <1>1, SurvivalState DEF Counted, Uncounted, Tips
    <3> QED BY <3>1, <2>1, <1>1, <1>3, <1>8 DEF CountsAreOfHead
  <2> QED BY <2>1, <1>1, <1>4 DEF CountsAreOfHead
<1> QED BY <1>5, <1>6, <1>7, <1>9, <1>10 DEF SurvivalInv

LEMMA SiteKeeps ==
  ASSUME SurvivalInv, (\E p \in People : SiteWants(p)) \/ SiteMarks \/ SiteSends
  PROVE  SurvivalInv'
<1>1. /\ SurvivalTypeOK /\ Keyed(queue) /\ live \in Versions \cup {0}
      /\ counts \in [Versions \X People -> Counted] /\ AskedMost \in Nat /\ asks \in Nat
  BY SurvivalState, SurvivalAssumption DEF SurvivalInv, SurvivalTypeOK
<1>2. CASE \E p \in People : SiteWants(p)
  <2>1. PICK p \in People : SiteWants(p)
    BY <1>2
  <2>2. /\ site' = [pc |-> "marks", version |-> live, person |-> p] /\ live \in Versions
        /\ asks' = asks + 1 /\ asks < AskedMost
        /\ UNCHANGED <<live, headOf, tip, clone, holder, build, counts, queue, worker, handler, broken>>
    BY <2>1, <1>1 DEF SiteWants
  <2>3. site' \in [pc : {"marks", "sends"}, version : Versions, person : People]
    BY <2>2
  <2>4. asks' \in 0 .. AskedMost
    BY <2>2, <1>1
  <2>5. SurvivalTypeOK'
    BY <1>1, <2>2, <2>3, <2>4 DEF SurvivalTypeOK
  <2> QED BY <2>2, <2>5, SurvivalStep
<1>3. site.pc # "idle" => site \in [pc : {"marks", "sends"}, version : Versions, person : People]
  BY <1>1 DEF SurvivalTypeOK
<1>4. CASE SiteMarks
  <2>1. [status |-> "queued", of |-> 0] \in Counted
    BY DEF Counted, Uncounted
  <2>2. /\ counts' \in [Versions \X People -> Counted]
        /\ \A r \in Versions \X People : counts'[r] = counts[r] \/ counts'[r].status # "counted"
    BY <2>1, <1>1, <1>4 DEF SiteMarks
  <2>3. site' \in [pc : {"marks", "sends"}, version : Versions, person : People]
    BY <1>3, <1>4 DEF SiteMarks
  <2>4. UNCHANGED <<live, headOf, tip, clone, holder, build, queue, worker, handler, asks, broken>>
    BY <1>4 DEF SiteMarks
  <2>5. SurvivalTypeOK'
    BY <1>1, <2>2, <2>3, <2>4 DEF SurvivalTypeOK, Counted
  <2> QED BY <2>2, <2>4, <2>5, SurvivalStep
<1>5. CASE SiteSends
  <2> DEFINE count == [version |-> site.version, ids |-> {site.person}, everyone |-> FALSE,
                     attempt |-> 0, full |-> FALSE]
  <2>1. count \in CountJob
    BY <1>3, <1>5, SurvivalAssumption DEF SiteSends, CountJob
  <2>2. queue' \in {Sent(count), queue} /\ broken' \in 0 .. FaultsMost
    BY <1>5, SurvivalState DEF SiteSends
  <2>3. Keyed(queue')
    BY <2>1, <2>2, <1>1, SentIsKeyed
  <2>4. /\ UNCHANGED <<live, headOf, tip, clone, holder, build, counts, worker, handler, asks>>
        /\ site' = [pc |-> "idle"]
    BY <1>5 DEF SiteSends
  <2>5. SurvivalTypeOK'
    BY <1>1, <2>2, <2>3, <2>4 DEF SurvivalTypeOK, Keyed
  <2> QED BY <2>4, <2>5, SurvivalStep
<1> QED BY <1>2, <1>4, <1>5

-----------------------------------------------------------------------------
(* Counts *)

\* What handlers a step changes, and of which job.
LEMMA JobIsCountJob ==
  ASSUME SurvivalInv, NEW h \in Handlers, handler[h].pc # "free"
  PROVE  /\ handler[h] \in AtWork /\ handler[h].job \in CountJob
         /\ handler[h].job.version \in Versions
BY DEF SurvivalInv, SurvivalTypeOK, FreeHandler, AtWork, CountJob

LEMMA FetchKeeps ==
  ASSUME SurvivalInv, NEW j \in queue, CountIsStale(j) \/ CountStarts(j) PROVE SurvivalInv'
<1>1. /\ SurvivalTypeOK /\ Keyed(queue) /\ counts \in [Versions \X People -> Counted]
      /\ j \in CountJob /\ broken \in 0 .. FaultsMost /\ live \in Versions \cup {0}
  BY SurvivalState DEF SurvivalInv, Keyed
<1>2. Keyed(queue \ {j})
  BY <1>1 DEF Keyed
<1>3. CASE CountIsStale(j)
  <2>1. "stale" \in Uncounted
    BY DEF Uncounted
  <2>2. /\ counts' \in [Versions \X People -> Counted]
        /\ \A r \in Versions \X People : counts'[r] = counts[r] \/ counts'[r].status # "counted"
    BY <2>1, <1>1, <1>3, MarkUncounts DEF CountIsStale
  <2>3. SurvivalTypeOK'
    BY <1>1, <1>2, <1>3, <2>2 DEF CountIsStale, SurvivalTypeOK, Keyed, Counted
  <2> QED BY <1>3, <2>2, <2>3, SurvivalStep DEF CountIsStale
<1>4. CASE CountStarts(j)
  <2>1. PICK h : h = CHOOSE k \in FreeHandlers : TRUE
    OBVIOUS
  <2>2. h \in Handlers
    BY <2>1, <1>4 DEF CountStarts, FreeHandlers
  <2> DEFINE w == [pc |-> "waits", job |-> j, head |-> 0, leaned |-> FALSE, said |-> "nothing",
                   people |-> {}]
  <2>3. w \in AtWork /\ ~AsksFor(w)
    BY <1>1 DEF AtWork, AsksFor
  <2>4. handler' = [handler EXCEPT ![h] = w] /\ worker' = h /\ queue' = queue \ {j}
    BY <2>1, <1>4 DEF CountStarts
  <2>5. UNCHANGED <<live, headOf, tip, clone, holder, build, counts, site, asks, broken>>
    BY <1>4 DEF CountStarts
  <2>6. holder' \in Handlers \cup {NoHandler, "build"}
    BY <2>5, <1>1 DEF SurvivalTypeOK
  <2> HIDE DEF w
  <2> QED BY <1>1, <1>2, <2>2, <2>3, <2>4, <2>5, <2>6, HandlerStep
<1> QED BY <1>3, <1>4

\* A handler that says how its count ended, at no head.
LEMMA SaysIsWork ==
  ASSUME NEW w \in AtWork, NEW said \in {"stale", "failed", "timedOut", "partial"}, NEW leaned \in BOOLEAN,
         NEW x, x = [w EXCEPT !.pc = "ends", !.said = said, !.head = 0, !.leaned = leaned]
  PROVE  x \in AtWork /\ ~AsksFor(x)
BY DEF AtWork, AsksFor

LEMMA CountHoldsKeeps ==
  ASSUME SurvivalInv, NEW h \in Handlers, CountCameLate(h) \/ CountHolds(h) PROVE SurvivalInv'
<1>1. /\ SurvivalTypeOK /\ Keyed(queue) /\ counts \in [Versions \X People -> Counted]
      /\ broken \in 0 .. FaultsMost /\ tip \in Tips /\ Published
      /\ headOf \in [Versions -> Tips \cup {0}] /\ LastTip \in Nat
      /\ holder \in Handlers \cup {NoHandler, "build"} /\ worker \in Handlers \cup {NoHandler}
  BY SurvivalState, SurvivalAssumption DEF SurvivalInv, SurvivalTypeOK
<1>2. PICK w : w = handler[h]
  OBVIOUS
<1>3. w \in AtWork /\ w.pc = "waits" /\ w.job.version \in Versions
  BY <1>2, JobIsCountJob DEF CountCameLate, CountHolds
<1>4. ASSUME NEW said \in {"stale", "failed"}, Says(h, said, FALSE),
             UNCHANGED <<live, headOf, tip, clone, holder, build, counts, queue, worker, site,
                         asks, broken>>
      PROVE  SurvivalInv'
  <2>1. PICK x : x = [w EXCEPT !.pc = "ends", !.said = said, !.head = 0, !.leaned = FALSE]
    OBVIOUS
  <2>2. x \in AtWork /\ ~AsksFor(x)
    BY <2>1, <1>3, SaysIsWork
  <2>3. handler' = [handler EXCEPT ![h] = x]
    BY <2>1, <1>2, <1>4 DEF Says
  <2> QED BY <2>2, <2>3, <1>1, <1>4, HandlerStep
<1>5. CASE CountCameLate(h)
  BY <1>4, <1>5 DEF CountCameLate
<1>6. CASE CountHolds(h)
  <2>1. live = w.job.version /\ headOf[live] \in Tips /\ headOf[live] # 0
    <3>1. live = w.job.version
      BY <1>2, <1>6 DEF CountHolds, Replaced
    <3>2. live \in Nat
      BY SurvivalState
    <3> QED BY <3>1, <3>2, <1>1, <1>3 DEF Published
  <2>2. Leaned(w.job) \in BOOLEAN
    BY DEF Leaned
  <2>3. UNCHANGED <<live, headOf, build, counts, queue, worker, site, asks, broken>>
    BY <1>6 DEF CountHolds
  <2>4. CASE Says(h, "failed", FALSE) /\ UNCHANGED <<holder, clone, tip>>
    BY <2>3, <2>4, <1>4
  <2>5. CASE /\ holder' = h
             /\ \/ UNCHANGED <<clone, tip>> /\ handler' = [handler EXCEPT
                     ![h].pc = "counts", ![h].head = headOf[live], ![h].leaned = Leaned(w.job)]
                \/ /\ Fetched /\ clone' = [clone EXCEPT !.full = tip']
                   /\ handler' = [handler EXCEPT ![h].pc = "counts", ![h].head = headOf[live]]
    <3>1. PICK l \in BOOLEAN : l = Leaned(w.job)
      BY <2>2
    <3>2. PICK x, y : /\ x = [w EXCEPT !.pc = "counts", !.head = headOf[live], !.leaned = l]
                      /\ y = [w EXCEPT !.pc = "counts", !.head = headOf[live]]
      OBVIOUS
    <3>3. /\ x \in AtWork /\ x.head = headOf[live] /\ x.job = w.job
          /\ y \in AtWork /\ y.head = headOf[live] /\ y.job = w.job
      BY <3>2, <2>1, <1>3 DEF AtWork
    <3>4. PICK z \in {x, y} : handler' = [handler EXCEPT ![h] = z]
      BY <3>1, <3>2, <2>5, <1>2
    <3>5. /\ tip' \in Tips /\ clone' \in [full : Tips \cup {0}, lean : Tips \cup {0}]
          /\ clone' = clone \/ clone'.full # 0
      <4>1. clone \in [full : Tips \cup {0}, lean : Tips \cup {0}]
        BY <1>1 DEF SurvivalTypeOK
      <4> QED BY <4>1, <2>5, <1>1 DEF Fetched, Tips
    <3>6. handler' \in [Handlers -> AtWork \cup {FreeHandler}]
      BY <3>3, <3>4, <1>1 DEF SurvivalTypeOK
    <3>7. SurvivalTypeOK'
      BY <3>5, <3>6, <2>3, <2>5, <1>1 DEF SurvivalTypeOK
    <3>8. /\ handler'[h].head # 0 /\ handler'[h].head = headOf[handler'[h].job.version]
          /\ \A k \in Handlers : k # h => handler'[k] = handler[k]
      BY <3>3, <3>4, <2>1, <1>1 DEF SurvivalTypeOK
    <3> QED BY <3>5, <3>7, <3>8, <2>3, SurvivalStep
  <2> QED BY <2>4, <2>5, <1>2, <1>6 DEF CountHolds
<1> QED BY <1>5, <1>6

LEMMA CountRunsKeeps ==
  ASSUME SurvivalInv, NEW h \in Handlers, CountRuns(h) PROVE SurvivalInv'
<1>1. /\ SurvivalTypeOK /\ Keyed(queue) /\ counts \in [Versions \X People -> Counted]
      /\ broken \in 0 .. FaultsMost /\ worker \in Handlers \cup {NoHandler}
  BY SurvivalState DEF SurvivalInv, SurvivalTypeOK
<1>2. PICK w : w = handler[h]
  OBVIOUS
<1>3. /\ w \in AtWork /\ w.pc = "counts" /\ w.leaned \in BOOLEAN
      /\ w.head # 0 /\ w.head = headOf[w.job.version]
  BY <1>2, JobIsCountJob DEF CountRuns, SurvivalInv, AtHead, AsksFor, AtWork
<1>4. /\ UNCHANGED <<live, headOf, tip, clone, build, counts, queue, worker, site, asks, broken>>
      /\ holder' \in Handlers \cup {NoHandler, "build"}
  BY DEF CountRuns
<1>5. ASSUME NEW said \in {"stale", "failed", "timedOut", "partial"}, NEW leaned \in BOOLEAN,
             Says(h, said, leaned)
      PROVE  SurvivalInv'
  <2>1. PICK x : x = [w EXCEPT !.pc = "ends", !.said = said, !.head = 0, !.leaned = leaned]
    OBVIOUS
  <2>2. x \in AtWork /\ ~AsksFor(x)
    BY <2>1, <1>3, SaysIsWork
  <2>3. handler' = [handler EXCEPT ![h] = x]
    BY <2>1, <1>2, <1>5 DEF Says
  <2> QED BY <2>2, <2>3, <1>1, <1>4, HandlerStep
<1>6. ASSUME NEW people \in SUBSET People, NEW at, at = w.head,
             handler' = [handler EXCEPT ![h].pc = "ends", ![h].said = "whole", ![h].leaned = FALSE,
                                            ![h].people = people, ![h].head = at]
      PROVE  SurvivalInv'
  <2>1. PICK x : x = [w EXCEPT !.pc = "ends", !.said = "whole", !.leaned = FALSE,
                               !.people = people, !.head = at]
    OBVIOUS
  <2>2. x \in AtWork /\ x.head = w.head /\ x.job = w.job
    BY <2>1, <1>3, <1>6 DEF AtWork
  <2>3. handler' = [handler EXCEPT ![h] = x]
    BY <2>1, <1>2, <1>6
  <2> QED BY <2>2, <2>3, <1>1, <1>3, <1>4, HandlerStep
<1>7. \/ Says(h, "failed", w.leaned) \/ Says(h, "stale", FALSE)
      \/ \E said \in {"timedOut", "partial"} : Says(h, said, FALSE)
      \/ \E people \in SUBSET People, at \in {w.head} :
             handler' = [handler EXCEPT ![h].pc = "ends", ![h].said = "whole", ![h].leaned = FALSE,
                                            ![h].people = people, ![h].head = at]
  BY <1>2 DEF CountRuns
<1> QED BY <1>3, <1>5, <1>6, <1>7

\* The handler that returns, and the queue's worker.
LEMMA Returned ==
  ASSUME SurvivalInv, NEW h \in Handlers, Returns(h)
  PROVE  /\ handler' = [handler EXCEPT ![h] = FreeHandler] /\ ~AsksFor(FreeHandler)
         /\ worker' \in Handlers \cup {NoHandler}
BY DEF Returns, SurvivalInv, SurvivalTypeOK, FreeHandler, AsksFor

LEMMA CountEndsKeeps ==
  ASSUME SurvivalInv, NEW h \in Handlers, CountMarks(h) \/ CountFromFull(h) \/ CountAgain(h)
  PROVE  SurvivalInv'
<1>1. /\ Keyed(queue) /\ counts \in [Versions \X People -> Counted] /\ broken \in 0 .. FaultsMost
      /\ Breaks => broken' \in 0 .. FaultsMost
  BY SurvivalState
<1>2. PICK count : count = handler[h].job
  OBVIOUS
<1>3. count \in CountJob
  BY <1>2, JobIsCountJob DEF CountMarks, CountFromFull, CountAgain
<1>4. /\ Returns(h) /\ UNCHANGED <<live, headOf, tip, clone, holder, build, site, asks>>
  BY DEF CountMarks, CountFromFull, CountAgain
<1>5. holder' \in Handlers \cup {NoHandler, "build"}
  BY <1>4 DEF SurvivalInv, SurvivalTypeOK
<1>6. ASSUME Keyed(queue'), UNCHANGED <<counts, broken>> PROVE SurvivalInv'
  BY <1>1, <1>4, <1>5, <1>6, Returned, HandlerStep
<1>7. ASSUME NEW status \in Uncounted, Mark(status, count.version, count.ids), UNCHANGED queue,
             broken' \in 0 .. FaultsMost
      PROVE  SurvivalInv'
  <2>1. /\ counts' \in [Versions \X People -> Counted]
        /\ \A r \in Versions \X People : counts'[r] = counts[r] \/ counts'[r].status # "counted"
    BY <1>1, <1>7, MarkUncounts
  <2> QED BY <2>1, <1>1, <1>4, <1>5, <1>7, Returned, HandlerStep
<1>8. CASE CountMarks(h)
  <2>1. handler[h].said \in Uncounted
    BY <1>8 DEF CountMarks, Uncounted
  <2> QED BY <2>1, <1>1, <1>2, <1>7, <1>8 DEF CountMarks
<1>9. CASE CountFromFull(h)
  <2>1. [count EXCEPT !.full = TRUE] \in CountJob /\ "failed" \in Uncounted
    BY <1>3 DEF CountJob, Uncounted
  <2>2. CASE queue' = Sent([count EXCEPT !.full = TRUE]) /\ UNCHANGED <<counts, broken>>
    BY <2>1, <2>2, <1>1, <1>6, SentIsKeyed
  <2>3. CASE Breaks /\ Mark("failed", count.version, count.ids) /\ UNCHANGED queue
    BY <2>1, <2>3, <1>1, <1>7
  <2> QED BY <2>2, <2>3, <1>2, <1>9 DEF CountFromFull
<1>10. CASE CountAgain(h)
  <2>1. ASSUME NEW a \in NextAttempt(count),
               queue' = Sent([count EXCEPT !.everyone = TRUE, !.attempt = a, !.full = FALSE]),
               UNCHANGED <<counts, broken>>
        PROVE  SurvivalInv'
    <3>1. a \in 0 .. LastAttempt
      BY <2>1, <1>3, SurvivalAssumption DEF NextAttempt, CountJob
    <3>2. [count EXCEPT !.everyone = TRUE, !.attempt = a, !.full = FALSE] \in CountJob
      BY <3>1, <1>3 DEF CountJob
    <3> QED BY <3>2, <2>1, <1>1, <1>6, SentIsKeyed
  <2>2. CASE /\ UNCHANGED broken \/ Breaks
             /\ Mark("over_budget", count.version, count.ids) /\ UNCHANGED queue
    <3>1. "over_budget" \in Uncounted
      BY DEF Uncounted
    <3> QED BY <3>1, <2>2, <1>1, <1>7
  <2> QED BY <2>1, <2>2, <1>2, <1>10 DEF CountAgain
<1> QED BY <1>8, <1>9, <1>10

\* What is recorded was counted at the head of the job's Report.
LEMMA CountIsWholeKeeps ==
  ASSUME SurvivalInv, NEW h \in Handlers, CountIsWhole(h) PROVE SurvivalInv'
<1>1. /\ Keyed(queue) /\ counts \in [Versions \X People -> Counted] /\ broken \in 0 .. FaultsMost
      /\ headOf \in [Versions -> Tips \cup {0}]
  BY SurvivalState
<1>2. PICK w : w = handler[h]
  OBVIOUS
<1>3. /\ w \in AtWork /\ w.job.version \in Versions
      /\ w.head # 0 /\ w.head = headOf[w.job.version]
  BY <1>2, JobIsCountJob DEF CountIsWhole, SurvivalInv, AtHead, AsksFor
<1>4. /\ Returns(h) /\ UNCHANGED <<live, headOf, tip, clone, holder, build, queue, site, asks, broken>>
  BY DEF CountIsWhole
<1>5. holder' \in Handlers \cup {NoHandler, "build"}
  BY <1>4 DEF SurvivalInv, SurvivalTypeOK
<1>6. PICK c, f : /\ c = [status |-> "counted", of |-> w.head]
                  /\ f = [status |-> "failed", of |-> 0]
  OBVIOUS
<1>7. c \in Counted /\ f \in Counted /\ f.status # "counted" /\ c.of = w.head
  BY <1>1, <1>3, <1>6 DEF Counted, Uncounted
<1>8. counts' = [r \in Versions \X People |->
        IF r[1] # w.job.version THEN counts[r]
        ELSE IF r[2] \in w.people THEN c
        ELSE IF r[2] \in w.job.ids /\ counts[r].status # "none" THEN f
        ELSE counts[r]]
  BY <1>2, <1>6 DEF CountIsWhole
<1>9. counts' \in [Versions \X People -> Counted]
  BY <1>1, <1>7, <1>8
<1>10. \A r \in Versions \X People :
         counts'[r] = counts[r] \/ counts'[r].status # "counted" \/ counts'[r].of = headOf[r[1]]
  BY <1>3, <1>7, <1>8
<1> QED BY <1>1, <1>4, <1>5, <1>9, <1>10, Returned, HandlerStep

LEMMA FaultKeeps == ASSUME SurvivalInv, CountExpires \/ BuilderStops PROVE SurvivalInv'
<1>1. SurvivalTypeOK /\ broken' \in 0 .. FaultsMost
  BY SurvivalState DEF SurvivalInv, CountExpires, BuilderStops
<1>2. CASE CountExpires
  <2>1. SurvivalTypeOK'
    BY <1>1, <1>2 DEF CountExpires, SurvivalTypeOK
  <2> QED BY <1>2, <2>1, SurvivalStep DEF CountExpires
<1>3. CASE BuilderStops
  <2>1. SurvivalTypeOK'
    BY <1>1, <1>3 DEF BuilderStops, SurvivalTypeOK
  <2>2. \A h \in Handlers : ~AsksFor(handler'[h])
    BY <1>3 DEF BuilderStops, AsksFor, FreeHandler
  <2> QED BY <1>3, <2>1, <2>2, SurvivalStep DEF BuilderStops
<1> QED BY <1>2, <1>3

-----------------------------------------------------------------------------
(* The theorems *)

LEMMA SurvivalFirst == SurvivalInit => SurvivalInv
<1> SUFFICES ASSUME SurvivalInit PROVE SurvivalInv
  OBVIOUS
<1>1. /\ LastVersion \in Nat /\ LastTip \in Nat \ {0} /\ FaultsMost \in Nat /\ AskedMost \in Nat
      /\ 1 \in Tips
  BY SurvivalAssumption DEF Tips
<1>2. [status |-> "none", of |-> 0] \in Counted
  BY DEF Counted, Uncounted
<1>3. counts \in [Versions \X People -> Counted]
  BY <1>2 DEF SurvivalInit
<1>4. SurvivalTypeOK
  BY <1>1, <1>3 DEF SurvivalInit, SurvivalTypeOK, Counted
<1>5. Published /\ Cloned
  BY DEF SurvivalInit, Published, Cloned, Versions
<1>6. AtHead
  BY DEF SurvivalInit, AtHead, AsksFor, FreeHandler
<1>7. CountsAreOfHead
  BY DEF SurvivalInit, CountsAreOfHead
<1> QED BY <1>4, <1>5, <1>6, <1>7 DEF SurvivalInv

LEMMA SurvivalIsKept == SurvivalSpec => []SurvivalInv
<1>1. SurvivalInv /\ [SurvivalNext]_survivalVars => SurvivalInv'
  <2> SUFFICES ASSUME SurvivalInv, [SurvivalNext]_survivalVars PROVE SurvivalInv'
    OBVIOUS
  <2>1. CASE UNCHANGED survivalVars
    <3>1. SurvivalTypeOK'
      BY <2>1 DEF SurvivalInv, SurvivalTypeOK, survivalVars
    <3> QED BY <3>1, <2>1, SurvivalStep DEF survivalVars
  <2>2. CASE \E h \in Handlers : CountAtWork(h)
    BY <2>2, CountHoldsKeeps, CountRunsKeeps, CountEndsKeeps, CountIsWholeKeeps DEF CountAtWork
  <2> QED BY <2>1, <2>2, BuildKeeps, BuildPublishesKeeps, SiteKeeps, FetchKeeps, FaultKeeps
          DEF SurvivalNext
<1> QED BY <1>1, SurvivalFirst, PTL DEF SurvivalSpec

\* Rows, jobs, handlers and the Site's requests keep their types, and no two jobs of one
\* key wait in the queue, whoever sends them.
THEOREM SurvivalTypes == SurvivalSpec => []SurvivalTypeOK
<1>1. SurvivalInv => SurvivalTypeOK
  BY DEF SurvivalInv
<1> QED BY <1>1, SurvivalIsKept, PTL

\* What is recorded for a Report was counted at its head, whatever was published or
\* fetched into the clone while the count waited for the repository or ran, and though a
\* job may expire under its handler and another count begin.
THEOREM CountsAreOfTheirHead == SurvivalSpec => []CountsAreOfHead
<1>1. SurvivalInv => CountsAreOfHead
  BY DEF SurvivalInv
<1> QED BY <1>1, SurvivalIsKept, PTL

-----------------------------------------------------------------------------
(* Holding *)

\* TypeOK, but for the sum the gate counts.
HoldingTypes ==
  /\ chain \in [Repos -> Seq(Jobs \cup {Pruner})]
  /\ job \in [Jobs -> {"new", "waits", "holds", "over"}]
  /\ seed \in [Jobs -> {"none", "waits", "copies", "done"}]
  /\ made \subseteq Runs /\ asked \subseteq Runs /\ going \subseteq Runs
  /\ waiting \in Seq(Runs)
  /\ clones \subseteq Repos

\* Who uses a repository is first in its chain, and a copy has a parent.
HoldsWhatItUses ==
  \A j \in Jobs :
    /\ job[j] = "holds" => Holder(HomeOf[j], j)
    /\ seed[j] # "done" => ParentOf[j] # None
    /\ seed[j] = "copies" => Holder(ParentOf[j], j)

\* A run waits or goes once, and only while its job holds its repository; the first run
\* has ended before another is asked for.
OnceEach(line, in, by, over) ==
  /\ \A i, k \in DOMAIN line : line[i] = line[k] => i = k
  /\ \A i \in DOMAIN line : line[i] \in by \ (in \cup over) /\ job[line[i][1]] = "holds"
  /\ \A r \in in : r \in by \ over /\ job[r[1]] = "holds"

RunsOfHolders ==
  /\ OnceEach(waiting, going, asked, made)
  /\ \A r \in asked : r[2] > 1 => <<r[1], 1>> \in made

\* Once its first run has ended a job has its clone, or makes no other run.
HasItsClone ==
  \A j \in Jobs :
    /\ job[j] \in {"new", "waits"} => RunsOf(j) \cap made = {}
    /\ job[j] = "holds" /\ <<j, 1>> \in made => HomeOf[j] \in clones \/ RunsOf(j) \subseteq made

\* What the gate counts is what the runs let in take, and within the budget.
GateCounts == IsFiniteSet(going) /\ used = Needs(going) /\ used <= Budget

HoldingInv == HoldingTypes /\ HoldsWhatItUses /\ RunsOfHolders /\ HasItsClone /\ GateCounts

-----------------------------------------------------------------------------
(* Lemmas about the chains and the gate *)

\* pump lets in some first ones of the queue, and leaves the others in their order.
LEMMA PumpLetsFirstIn ==
  ASSUME NEW line \in Seq(Runs), NEW in, NEW taken, Pump(line, in, taken)
  PROVE  \E n \in 0 .. Len(line) :
           /\ going' = in \cup {line[i] : i \in 1 .. n}
           /\ waiting' = SubSeq(line, n + 1, Len(line))
           /\ used' = taken + Needs({line[i] : i \in 1 .. n})
           /\ n > 0 => (in = {} /\ n = 1) \/ taken + Needs({line[i] : i \in 1 .. n}) <= Budget
<1> DEFINE fits(i) == (in = {} /\ i = 1) \/ taken + Needs(ToSet(SubSeq(line, 1, i))) <= Budget
           S == {k \in 0 .. Len(line) : \A i \in 1 .. k : fits(i)}
           n == Max(S)
<1>1. n \in S
  <2>1. 0 \in S
    OBVIOUS
  <2>2. S \in SUBSET (0 .. Len(line)) /\ Len(line) \in Nat
    OBVIOUS
  <2> HIDE DEF S
  <2> QED BY <2>1, <2>2, LargestIsThere
<1>2. n \in 0 .. Len(line) /\ (n > 0 => fits(n))
  <2>1. n \in 0 .. Len(line) /\ \A i \in 1 .. n : fits(i)
    BY <1>1
  <2> HIDE DEF n, fits
  <2> QED BY <2>1
<1>3. /\ going' = in \cup ToSet(SubSeq(line, 1, n)) /\ waiting' = SubSeq(line, n + 1, Len(line))
      /\ used' = taken + Needs(ToSet(SubSeq(line, 1, n)))
  BY DEF Pump
<1> HIDE DEF n
<1>4. ToSet(SubSeq(line, 1, n)) = {line[i] : i \in 1 .. n}
  <2>1. /\ DOMAIN SubSeq(line, 1, n) = 1 .. n
        /\ \A i \in 1 .. n : SubSeq(line, 1, n)[i] = line[i]
    BY <1>2
  <2> QED BY <2>1 DEF ToSet
<1> QED BY <1>2, <1>3, <1>4

\* What a run needs is its own, or the whole budget.
LEMMA NeedIsWithin ==
  ASSUME NEW r \in Runs
  PROVE  /\ Need(r) \in Nat /\ Need(r) >= 1 /\ Need(r) <= Budget
         /\ MbOf(r) \in Nat /\ (Need(r) < Budget => Need(r) = MbOf(r))
<1>1. MbOf(r) \in Nat \ {0} /\ Budget \in Nat \ {0}
  BY HoldingAssumption DEF HoldingAssumption, Runs, MbOf
<1> QED BY <1>1 DEF Need, Smallest

NeedOf == [r \in Runs |-> Need(r)]
SaidOf == [r \in Runs |-> MbOf(r)]

\* The sums of the model are totals.
LEMMA NeedsIsTotal ==
  ASSUME NEW S \in SUBSET Runs, IsFiniteSet(S)
  PROVE  Needs(S) = Total(NeedOf, S) /\ MapThenSumSet(MbOf, S) = Total(SaidOf, S)
<1>1. \A s \in SUBSET S : s # {} => One(s) \in Runs
  BY DEF One
<1>2. Needs(S) = Total(NeedOf, S)
  <2> DEFINE A(g) == g = [s \in SUBSET S |-> IF s = {} THEN 0 ELSE Need(One(s)) + g[s \ {One(s)}]]
             iter == CHOOSE g : A(g)
  <2>1. Needs(S) = iter[S]
    BY DEF Needs, MapThenSumSet, MapThenFoldSet, One
  <2>2. \A g : A(g) <=> Sums(NeedOf, S, g)
    BY <1>1 DEF Sums, NeedOf
  <2>3. \A r \in Runs : NeedOf[r] \in Nat
    BY NeedIsWithin DEF NeedOf
  <2>4. Sums(NeedOf, S, iter)
    <3>1. \E g : A(g)
      <4> HIDE DEF A
      <4>1. \E g : Sums(NeedOf, S, g)
        BY <2>3, SumsAreFolds
      <4> QED BY <2>2, <4>1
    <3>2. A(iter)
      BY <3>1
    <3> QED BY <2>2, <3>2
  <2> HIDE DEF iter
  <2> QED BY <2>1, <2>3, <2>4, TotalIs
<1>3. MapThenSumSet(MbOf, S) = Total(SaidOf, S)
  <2> DEFINE A(g) == g = [s \in SUBSET S |-> IF s = {} THEN 0 ELSE MbOf(One(s)) + g[s \ {One(s)}]]
             iter == CHOOSE g : A(g)
  <2>1. MapThenSumSet(MbOf, S) = iter[S]
    BY DEF MapThenSumSet, MapThenFoldSet, One
  <2>2. \A g : A(g) <=> Sums(SaidOf, S, g)
    BY <1>1 DEF Sums, SaidOf
  <2>3. \A r \in Runs : SaidOf[r] \in Nat
    BY NeedIsWithin DEF SaidOf
  <2>4. Sums(SaidOf, S, iter)
    <3>1. \E g : A(g)
      <4> HIDE DEF A
      <4>1. \E g : Sums(SaidOf, S, g)
        BY <2>3, SumsAreFolds
      <4> QED BY <2>2, <4>1
    <3>2. A(iter)
      BY <3>1
    <3> QED BY <2>2, <3>2
  <2> HIDE DEF iter
  <2> QED BY <2>1, <2>3, <2>4, TotalIs
<1> QED BY <1>2, <1>3

LEMMA NeedsSums ==
  /\ Needs({}) = 0
  /\ \A r \in Runs : Needs({r}) = Need(r)
  /\ \A A, B \in SUBSET Runs : IsFiniteSet(A) /\ IsFiniteSet(B) /\ A \cap B = {} =>
       /\ IsFiniteSet(A \cup B) /\ Needs(A \cup B) = Needs(A) + Needs(B)
       /\ Needs(A) \in Nat /\ Needs(B) \in Nat
<1>1. \A r \in Runs : NeedOf[r] = Need(r) /\ NeedOf[r] \in Nat
  BY NeedIsWithin DEF NeedOf
<1>2. Needs({}) = 0
  <2>1. IsFiniteSet({}) /\ {} \in SUBSET Runs
    BY FS_EmptySet
  <2> QED BY <2>1, NeedsIsTotal, TotalSteps
<1>3. ASSUME NEW r \in Runs PROVE Needs({r}) = Need(r)
  <2>1. IsFiniteSet({r}) /\ {r} \in SUBSET Runs
    BY FS_Singleton
  <2>2. Total(NeedOf, {r}) = Need(r)
    BY <1>1, TotalOfOne
  <2> QED BY <2>1, <2>2, NeedsIsTotal
<1>4. ASSUME NEW A \in SUBSET Runs, NEW B \in SUBSET Runs, IsFiniteSet(A), IsFiniteSet(B), A \cap B = {}
      PROVE  /\ IsFiniteSet(A \cup B) /\ Needs(A \cup B) = Needs(A) + Needs(B)
             /\ Needs(A) \in Nat /\ Needs(B) \in Nat
  <2>1. IsFiniteSet(A \cup B) /\ A \cup B \in SUBSET Runs
    BY <1>4, FS_Union
  <2>2. \A r \in A \cup B : NeedOf[r] \in Nat
    BY <1>1
  <2>3. Total(NeedOf, A \cup B) = Total(NeedOf, A) + Total(NeedOf, B)
    BY <1>4, <2>2, TotalJoins
  <2>4. Total(NeedOf, A) \in Nat /\ Total(NeedOf, B) \in Nat
    BY <1>4, <2>2, TotalNat
  <2> QED BY <2>1, <2>3, <2>4, <1>4, NeedsIsTotal
<1> QED BY <1>2, <1>3, <1>4

\* Joining a chain leaves its holder.
LEMMA JoinKeepsHolders ==
  ASSUME HoldingTypes, NEW n \in Repos, NEW who \in Jobs \cup {Pruner}, Join(n, who)
  PROVE  /\ chain' \in [Repos -> Seq(Jobs \cup {Pruner})]
         /\ \A m \in Repos : \A w : Holder(m, w) => Holder(m, w)'
<1>1. /\ Append(chain[n], who) \in Seq(Jobs \cup {Pruner})
      /\ chain[n] # <<>> => Append(chain[n], who) # <<>> /\ Head(Append(chain[n], who)) = Head(chain[n])
  BY DEF HoldingTypes
<1> QED BY <1>1 DEF Join, Holder, HoldingTypes

\* Who leaves a chain leaves the holders of the others.
LEMMA LeaveKeepsOthers ==
  ASSUME HoldingTypes, NEW n \in Repos, NEW who, Holder(n, who), Leave(n)
  PROVE  /\ chain' \in [Repos -> Seq(Jobs \cup {Pruner})]
         /\ \A m \in Repos : \A w : Holder(m, w) /\ w # who => Holder(m, w)'
<1>1. Tail(chain[n]) \in Seq(Jobs \cup {Pruner})
  BY DEF Holder, HoldingTypes
<1> QED BY <1>1 DEF Leave, Holder, HoldingTypes

\* The parts of a run.
LEMMA RunParts ==
  ASSUME NEW r \in Runs
  PROVE  /\ r[1] \in Jobs /\ r[2] \in Int /\ r[2] >= 1
         /\ r = <<r[1], r[2]>> /\ r \in RunsOf(r[1])
<1> QED BY HoldingAssumption DEF HoldingAssumption, Runs, RunsOf


-----------------------------------------------------------------------------
(* A clone stays, and runs go in the order they asked *)

LEMMA HoldingInitial == Init => HoldingInv
<1> SUFFICES ASSUME Init PROVE HoldingInv
  OBVIOUS
<1>1. HoldingTypes /\ HoldsWhatItUses /\ RunsOfHolders /\ HasItsClone
  BY HoldingAssumption DEF HoldingAssumption, Init, HoldingTypes, HoldsWhatItUses, RunsOfHolders, OnceEach, HasItsClone
<1>2. GateCounts
  <2>1. IsFiniteSet({}) /\ Needs({}) = 0 /\ 0 <= Budget
    BY FS_EmptySet, NeedsSums, HoldingAssumption DEF HoldingAssumption
  <2> QED BY <2>1 DEF Init, GateCounts
<1> QED BY <1>1, <1>2 DEF HoldingInv

\* What leaves the runs let in leaves what the gate counts.
LEMMA CountsStay == GateCounts /\ UNCHANGED <<going, used>> => GateCounts'
<1> QED BY DEF GateCounts, Needs

\* A job that comes, or whose turn it is, has no run yet.
LEMMA TurnsKeep ==
  ASSUME HoldingInv, NEW j \in Jobs, Asks(j) \/ Holds(j)
  PROVE  HoldingInv'
<1>1. HomeOf[j] \in Repos /\ j \in Jobs \cup {Pruner}
  BY HoldingAssumption DEF HoldingAssumption
<1>2. PICK to \in {"waits", "holds"} :
        /\ job' = [job EXCEPT ![j] = to]
        /\ job[j] \in {"new", "waits"}
        /\ to = "holds" => Holder(HomeOf[j], j)
  BY DEF Asks, Holds
<1>3. /\ chain' \in [Repos -> Seq(Jobs \cup {Pruner})]
      /\ \A m \in Repos : \A w : Holder(m, w) => Holder(m, w)'
  <2>1. CASE Asks(j)
    BY <2>1, <1>1, JoinKeepsHolders DEF Asks, HoldingInv
  <2>2. CASE Holds(j)
    BY <2>2 DEF Holds, Holder, HoldingInv, HoldingTypes
  <2> QED BY <2>1, <2>2
<1>4. UNCHANGED <<seed, made, asked, waiting, going, clones>>
  BY DEF Asks, Holds
<1>5. HoldingTypes'
  BY <1>2, <1>3, <1>4 DEF HoldingInv, HoldingTypes
<1>6. HoldsWhatItUses'
  <2> SUFFICES ASSUME NEW i \in Jobs
               PROVE  /\ job'[i] = "holds" => Holder(HomeOf[i], i)'
                      /\ seed'[i] # "done" => ParentOf[i] # None
                      /\ seed'[i] = "copies" => Holder(ParentOf[i], i)'
    BY DEF HoldsWhatItUses
  <2>1. HomeOf[i] \in Repos /\ ParentOf[i] \in Repos \cup {None}
    BY HoldingAssumption DEF HoldingAssumption
  <2>2. job'[i] = "holds" => Holder(HomeOf[i], i)
    BY <1>2 DEF HoldingInv, HoldingTypes, HoldsWhatItUses
  <2> QED BY <2>1, <2>2, <1>3, <1>4 DEF HoldingInv, HoldsWhatItUses
<1>7. RunsOfHolders'
  <2>1. \A r \in Runs : job[r[1]] = "holds" => job'[r[1]] = "holds"
    BY <1>2, RunParts DEF HoldingInv, HoldingTypes
  <2>2. \A i \in DOMAIN waiting : waiting[i] \in Runs
    BY DEF HoldingInv, HoldingTypes
  <2> QED BY <2>1, <2>2, <1>4 DEF HoldingInv, HoldingTypes, RunsOfHolders, OnceEach
<1>8. HasItsClone'
  <2> SUFFICES ASSUME NEW i \in Jobs
               PROVE  /\ job'[i] \in {"new", "waits"} => RunsOf(i) \cap made = {}
                      /\ job'[i] = "holds" /\ <<i, 1>> \in made => HomeOf[i] \in clones \/ RunsOf(i) \subseteq made
    BY <1>4 DEF HasItsClone, RunsOf, Runs
  <2>1. CASE i = j
    <3>1. RunsOf(j) \cap made = {}
      BY <1>2 DEF HoldingInv, HasItsClone
    <3>2. <<j, 1>> \notin made
      BY <3>1 DEF RunsOf, HoldingInv, HoldingTypes
    <3> QED BY <2>1, <3>1, <3>2
  <2>2. CASE i # j
    BY <2>2, <1>2 DEF HoldingInv, HoldingTypes, HasItsClone
  <2> QED BY <2>1, <2>2
<1>10. GateCounts'
  BY CountsStay DEF HoldingInv, Asks, Holds, SeedWaits, SeedCopies, SeedEnds, Ends, Prunes, Pruned
<1> QED BY <1>5, <1>6, <1>7, <1>8, <1>10 DEF HoldingInv

\* A copy of a parent's line store leaves every job's home to it.
LEMMA SeedingKeeps ==
  ASSUME HoldingInv, NEW j \in Jobs, SeedWaits(j) \/ SeedCopies(j) \/ SeedEnds(j)
  PROVE  HoldingInv'
<1>1. ParentOf[j] \in Repos /\ ParentOf[j] # None /\ j \in Jobs \cup {Pruner}
  BY HoldingAssumption DEF HoldingAssumption, HoldingInv, HoldsWhatItUses, SeedWaits, SeedCopies, SeedEnds
<1>2. PICK to \in {"waits", "copies", "done"} :
        /\ seed' = [seed EXCEPT ![j] = to]
        /\ to = "copies" => Holder(ParentOf[j], j)'
  BY DEF SeedWaits, SeedCopies, SeedEnds, Holder
<1>3. /\ chain' \in [Repos -> Seq(Jobs \cup {Pruner})]
      /\ \A m \in Repos : \A w : Holder(m, w) /\ (w # j \/ m # ParentOf[j]) => Holder(m, w)'
  <2>1. CASE SeedWaits(j)
    BY <2>1, <1>1, JoinKeepsHolders DEF SeedWaits, HoldingInv
  <2>2. CASE SeedCopies(j)
    BY <2>2 DEF SeedCopies, Holder, HoldingInv, HoldingTypes
  <2>3. CASE SeedEnds(j)
    <3>1. Holder(ParentOf[j], j) /\ Leave(ParentOf[j])
      BY <2>3 DEF SeedEnds, HoldingInv, HoldsWhatItUses
    <3>2. /\ chain' \in [Repos -> Seq(Jobs \cup {Pruner})]
          /\ \A m \in Repos : \A w : Holder(m, w) /\ w # j => Holder(m, w)'
      BY <3>1, <1>1, LeaveKeepsOthers DEF HoldingInv
    <3>3. \A m \in Repos : m # ParentOf[j] => chain'[m] = chain[m]
      BY <3>1 DEF Leave, HoldingInv, HoldingTypes
    <3> QED BY <3>2, <3>3 DEF Holder
  <2> QED BY <2>1, <2>2, <2>3
<1>4. UNCHANGED <<job, made, asked, waiting, going, clones>>
  BY DEF SeedWaits, SeedCopies, SeedEnds
<1>5. HoldingTypes'
  BY <1>2, <1>3, <1>4 DEF HoldingInv, HoldingTypes
<1>6. HoldsWhatItUses'
  <2> SUFFICES ASSUME NEW i \in Jobs
               PROVE  /\ job'[i] = "holds" => Holder(HomeOf[i], i)'
                      /\ seed'[i] # "done" => ParentOf[i] # None
                      /\ seed'[i] = "copies" => Holder(ParentOf[i], i)'
    BY DEF HoldsWhatItUses
  <2>1. HomeOf[i] \in Repos /\ ParentOf[i] \in Repos \cup {None} /\ ParentOf[i] # HomeOf[i]
    BY HoldingAssumption DEF HoldingAssumption
  <2>2. job'[i] = "holds" => Holder(HomeOf[i], i)'
    BY <2>1, <1>3, <1>4 DEF HoldingInv, HoldsWhatItUses
  <2>3. CASE i = j
    BY <2>2, <2>3, <1>1, <1>2 DEF HoldingInv, HoldingTypes
  <2>4. CASE i # j
    <3>1. seed'[i] = seed[i]
      BY <2>4, <1>2 DEF HoldingInv, HoldingTypes
    <3> QED BY <3>1, <2>1, <2>2, <2>4, <1>3 DEF HoldingInv, HoldsWhatItUses
  <2> QED BY <2>3, <2>4
<1>7. RunsOfHolders' /\ HasItsClone'
  BY <1>4 DEF HoldingInv, RunsOfHolders, OnceEach, HasItsClone, RunsOf, Runs
<1>10. GateCounts'
  BY CountsStay DEF HoldingInv, Asks, Holds, SeedWaits, SeedCopies, SeedEnds, Ends, Prunes, Pruned
<1> QED BY <1>5, <1>6, <1>7, <1>10 DEF HoldingInv

\* A job that ends has no run that waits or goes.
LEMMA EndKeeps == ASSUME HoldingInv, NEW j \in Jobs, Ends(j) PROVE HoldingInv'
<1>1. HomeOf[j] \in Repos /\ Holder(HomeOf[j], j) /\ Leave(HomeOf[j])
  BY HoldingAssumption DEF HoldingAssumption, Ends, HoldingInv, HoldsWhatItUses
<1>2. /\ chain' \in [Repos -> Seq(Jobs \cup {Pruner})]
      /\ \A m \in Repos : \A w : Holder(m, w) /\ w # j => Holder(m, w)'
  BY <1>1, LeaveKeepsOthers DEF HoldingInv
<1>3. /\ job' = [job EXCEPT ![j] = "over"]
      /\ UNCHANGED <<seed, made, asked, waiting, going, clones>>
      /\ seed[j] # "copies" /\ RunsOf(j) \subseteq made
  BY DEF Ends
<1>4. \A i \in Jobs : i # j => job'[i] = job[i]
  BY <1>3 DEF HoldingInv, HoldingTypes
<1>5. job'[j] = "over"
  BY <1>3 DEF HoldingInv, HoldingTypes
<1>6. HoldingTypes'
  BY <1>2, <1>3 DEF HoldingInv, HoldingTypes
<1>7. HoldsWhatItUses'
  <2> SUFFICES ASSUME NEW i \in Jobs
               PROVE  /\ job'[i] = "holds" => Holder(HomeOf[i], i)'
                      /\ seed'[i] # "done" => ParentOf[i] # None
                      /\ seed'[i] = "copies" => Holder(ParentOf[i], i)'
    BY DEF HoldsWhatItUses
  <2>1. HomeOf[i] \in Repos /\ ParentOf[i] \in Repos \cup {None}
    BY HoldingAssumption DEF HoldingAssumption
  <2>2. CASE i = j
    BY <2>2, <1>3, <1>5 DEF HoldingInv, HoldsWhatItUses
  <2>3. CASE i # j
    BY <2>1, <2>3, <1>2, <1>3, <1>4 DEF HoldingInv, HoldsWhatItUses
  <2> QED BY <2>2, <2>3
<1>8. RunsOfHolders'
  <2>1. \A r \in Runs \ made : job'[r[1]] = job[r[1]]
    <3> SUFFICES ASSUME NEW r \in Runs \ made, r[1] = j PROVE FALSE
      BY <1>4, RunParts
    <3>1. r \in RunsOf(j)
      BY RunParts
    <3> QED BY <3>1, <1>3
  <2>2. \A i \in DOMAIN waiting : waiting[i] \in Runs
    BY DEF HoldingInv, HoldingTypes
  <2> QED BY <2>1, <2>2, <1>3 DEF HoldingInv, HoldingTypes, RunsOfHolders, OnceEach
<1>9. HasItsClone'
  BY <1>3, <1>4, <1>5 DEF HoldingInv, HasItsClone, RunsOf, Runs
<1>10. GateCounts'
  BY CountsStay DEF HoldingInv, Asks, Holds, SeedWaits, SeedCopies, SeedEnds, Ends, Prunes, Pruned
<1> QED BY <1>6, <1>7, <1>8, <1>9, <1>10 DEF HoldingInv

\* Pruning is of clones nobody holds, and is waited for.
LEMMA PruningKeeps ==
  ASSUME HoldingInv, NEW n \in Repos, Prunes(n) \/ Pruned(n)
  PROVE  HoldingInv'
<1>1. Pruner \notin Jobs /\ Pruner \in Jobs \cup {Pruner}
  BY HoldingAssumption DEF HoldingAssumption
<1>2. /\ chain' \in [Repos -> Seq(Jobs \cup {Pruner})]
      /\ \A m \in Repos : \A w \in Jobs : Holder(m, w) => Holder(m, w)'
  <2>1. CASE Prunes(n)
    BY <2>1, <1>1, JoinKeepsHolders DEF Prunes, HoldingInv
  <2>2. CASE Pruned(n)
    BY <2>2, <1>1, LeaveKeepsOthers DEF Pruned, HoldingInv
  <2> QED BY <2>1, <2>2
<1>3. /\ clones' \subseteq clones
      /\ \A j \in Jobs : Holder(HomeOf[j], j) /\ HomeOf[j] \in clones => HomeOf[j] \in clones'
  BY <1>1 DEF Prunes, Pruned, Holder
<1>4. UNCHANGED <<job, seed, made, asked, waiting, going>>
  BY DEF Prunes, Pruned
<1>5. HoldingTypes'
  BY <1>2, <1>3, <1>4 DEF HoldingInv, HoldingTypes
<1>6. HoldsWhatItUses'
  <2> SUFFICES ASSUME NEW i \in Jobs
               PROVE  /\ job'[i] = "holds" => Holder(HomeOf[i], i)'
                      /\ seed'[i] # "done" => ParentOf[i] # None
                      /\ seed'[i] = "copies" => Holder(ParentOf[i], i)'
    BY DEF HoldsWhatItUses
  <2>1. HomeOf[i] \in Repos /\ ParentOf[i] \in Repos \cup {None}
    BY HoldingAssumption DEF HoldingAssumption
  <2> QED BY <2>1, <1>2, <1>4 DEF HoldingInv, HoldsWhatItUses
<1>7. RunsOfHolders'
  BY <1>4 DEF HoldingInv, RunsOfHolders, OnceEach
<1>8. HasItsClone'
  <2> SUFFICES ASSUME NEW i \in Jobs
               PROVE  /\ job[i] \in {"new", "waits"} => RunsOf(i) \cap made = {}
                      /\ job[i] = "holds" /\ <<i, 1>> \in made => HomeOf[i] \in clones' \/ RunsOf(i) \subseteq made
    BY <1>4 DEF HasItsClone, RunsOf, Runs
  <2> QED BY <1>3 DEF HoldingInv, HoldsWhatItUses, HasItsClone
<1>10. GateCounts'
  BY CountsStay DEF HoldingInv, Asks, Holds, SeedWaits, SeedCopies, SeedEnds, Ends, Prunes, Pruned
<1> QED BY <1>5, <1>6, <1>7, <1>8, <1>10 DEF HoldingInv

\* Whoever pump lets in, runs wait or go once, and for jobs that hold their repository.
LEMMA PumpKeepsRuns ==
  ASSUME NEW line \in Seq(Runs), NEW in \in SUBSET Runs, NEW taken, Pump(line, in, taken),
         NEW by, NEW over, OnceEach(line, in, by, over)
  PROVE  going' \subseteq Runs /\ waiting' \in Seq(Runs) /\ OnceEach(waiting', going', by, over)
<1>1. PICK n \in 0 .. Len(line) :
        /\ going' = in \cup {line[i] : i \in 1 .. n}
        /\ waiting' = SubSeq(line, n + 1, Len(line))
  BY PumpLetsFirstIn
<1>2. /\ DOMAIN line = 1 .. Len(line) /\ Len(line) \in Nat
      /\ \A i \in DOMAIN line : line[i] \in Runs
  OBVIOUS
<1>3. /\ waiting' \in Seq(Runs)
      /\ DOMAIN waiting' = 1 .. (Len(line) - n)
      /\ \A i \in DOMAIN waiting' : n + i \in DOMAIN line /\ n + i > n /\ waiting'[i] = line[n + i]
  BY <1>1, <1>2
<1>4. \A i, k \in DOMAIN waiting' : waiting'[i] = waiting'[k] => i = k
  BY <1>3 DEF OnceEach
<1>5. \A r \in going' : r \in in \/ \E i \in 1 .. n : i \in DOMAIN line /\ r = line[i]
  BY <1>1, <1>2
<1>6. \A i \in DOMAIN waiting' : waiting'[i] \notin going'
  <2> SUFFICES ASSUME NEW i \in DOMAIN waiting', waiting'[i] \in going' PROVE FALSE
    OBVIOUS
  <2>1. n + i \in DOMAIN line /\ n + i > n /\ waiting'[i] = line[n + i] /\ line[n + i] \notin in
    BY <1>3 DEF OnceEach
  <2>2. PICK k \in 1 .. n : k \in DOMAIN line /\ waiting'[i] = line[k]
    BY <2>1, <1>5
  <2>3. n + i = k
    BY <2>1, <2>2 DEF OnceEach
  <2>4. n \in Int /\ k <= n
    BY <2>2
  <2> QED BY <2>1, <2>3, <2>4
<1>7. \A r \in going' : r \in by \ over /\ job[r[1]] = "holds"
  BY <1>5 DEF OnceEach
<1>8. \A i \in DOMAIN waiting' : waiting'[i] \in by \ (going' \cup over) /\ job[waiting'[i][1]] = "holds"
  BY <1>3, <1>6 DEF OnceEach
<1>9. going' \subseteq Runs
  BY <1>2, <1>5
<1> QED BY <1>3, <1>4, <1>7, <1>8, <1>9 DEF OnceEach

\* The gate counts what it lets in, and stays within the budget.
LEMMA PumpCounts ==
  ASSUME NEW line \in Seq(Runs), NEW in \in SUBSET Runs, NEW taken, Pump(line, in, taken),
         NEW by, NEW over, OnceEach(line, in, by, over),
         IsFiniteSet(in), taken = Needs(in), taken <= Budget
  PROVE  IsFiniteSet(going') /\ used' = Needs(going') /\ used' <= Budget
<1>1. PICK n \in 0 .. Len(line) :
        /\ going' = in \cup {line[i] : i \in 1 .. n}
        /\ used' = taken + Needs({line[i] : i \in 1 .. n})
        /\ n > 0 => (in = {} /\ n = 1) \/ taken + Needs({line[i] : i \in 1 .. n}) <= Budget
  BY PumpLetsFirstIn
<1>2. PICK L : L = {line[i] : i \in 1 .. n}
  OBVIOUS
<1>3. n \in Nat /\ \A i \in 1 .. n : i \in DOMAIN line /\ line[i] \in Runs /\ line[i] \notin in
  BY <1>1 DEF OnceEach
<1>4. IsFiniteSet(L) /\ L \in SUBSET Runs /\ in \cap L = {}
  <2>1. L \in SUBSET Runs /\ in \cap L = {}
    BY <1>2, <1>3
  <2>2. IsFiniteSet(1 .. n)
    BY <1>3, FS_Interval
  <2>3. [i \in 1 .. n |-> line[i]] \in Surjection(1 .. n, L)
    BY <1>2, <1>3 DEF Surjection
  <2> QED BY <2>1, <2>2, <2>3, FS_Surjection
<1>5. /\ IsFiniteSet(in \cup L) /\ Needs(in \cup L) = taken + Needs(L)
      /\ taken \in Nat /\ Needs(L) \in Nat
  BY <1>4, NeedsSums
<1>6. taken + Needs(L) <= Budget
  <2>1. CASE n = 0
    <3>1. L = {}
      BY <1>2, <2>1
    <3>2. Needs(L) = 0
      BY <3>1, NeedsSums
    <3> QED BY <1>5, <3>2
  <2>2. CASE n > 0 /\ in = {} /\ n = 1
    <3>1. L = {line[1]} /\ line[1] \in Runs
      BY <1>2, <1>3, <2>2
    <3>2. Needs(L) = Need(line[1]) /\ taken = 0
      BY <3>1, <2>2, NeedsSums
    <3>3. Need(line[1]) <= Budget /\ Need(line[1]) \in Nat
      BY <3>1, NeedIsWithin
    <3> QED BY <3>2, <3>3
  <2>3. CASE n > 0 /\ taken + Needs(L) <= Budget
    BY <2>3
  <2> QED BY <1>1, <1>2, <1>3, <2>1, <2>2, <2>3
<1> QED BY <1>1, <1>2, <1>5, <1>6

\* A run is asked for once, by a job that holds its repository.
LEMMA AskKeeps == ASSUME HoldingInv, NEW r \in Runs, AsksToRun(r) PROVE HoldingInv'
<1>1. /\ job[r[1]] = "holds" /\ r \notin asked \cup made
      /\ r[2] > 1 => <<r[1], 1>> \in made
      /\ asked' = asked \cup {r}
      /\ Pump(Append(waiting, r), going, used)
      /\ UNCHANGED <<chain, job, seed, made, clones>>
  BY DEF AsksToRun
<1> DEFINE line == Append(waiting, r)
<1>2. /\ line \in Seq(Runs) /\ Len(line) = Len(waiting) + 1
      /\ DOMAIN waiting = 1 .. Len(waiting) /\ Len(waiting) \in Nat
      /\ DOMAIN line = 1 .. Len(line)
      /\ \A i \in DOMAIN waiting : line[i] = waiting[i]
      /\ line[Len(line)] = r
  BY DEF HoldingInv, HoldingTypes
<1> HIDE DEF line
<1>3. \A i \in DOMAIN line : (i \in DOMAIN waiting /\ line[i] = waiting[i]) \/ (i = Len(line) /\ line[i] = r)
  BY <1>2
<1>4. \A i \in DOMAIN waiting : waiting[i] \in asked \ (going \cup made) /\ job[waiting[i][1]] = "holds"
  BY DEF HoldingInv, RunsOfHolders, OnceEach
<1>5. \A i, k \in DOMAIN line : line[i] = line[k] => i = k
  BY <1>1, <1>2, <1>3, <1>4 DEF HoldingInv, RunsOfHolders, OnceEach
<1>6. \A i \in DOMAIN line : line[i] \in asked' \ (going \cup made) /\ job[line[i][1]] = "holds"
  BY <1>1, <1>3, <1>4 DEF HoldingInv, RunsOfHolders, OnceEach
<1>7. \A q \in going : q \in asked' \ made /\ job[q[1]] = "holds"
  BY <1>1 DEF HoldingInv, RunsOfHolders, OnceEach
<1>8. going \in SUBSET Runs /\ Pump(line, going, used) /\ OnceEach(line, going, asked', made)
  BY <1>1, <1>5, <1>6, <1>7 DEF HoldingInv, HoldingTypes, OnceEach, line
<1>9. going' \subseteq Runs /\ waiting' \in Seq(Runs) /\ OnceEach(waiting', going', asked', made)
  BY <1>2, <1>8, PumpKeepsRuns
<1>10. HoldingTypes'
  BY <1>1, <1>9 DEF HoldingInv, HoldingTypes
<1>11. HoldsWhatItUses'
  BY <1>1 DEF HoldingInv, HoldsWhatItUses, Holder
<1>12. RunsOfHolders'
  BY <1>1, <1>9 DEF HoldingInv, RunsOfHolders, OnceEach
<1>13. HasItsClone'
  BY <1>1 DEF HoldingInv, HasItsClone, RunsOf, Runs
<1>14. GateCounts'
  <2>1. IsFiniteSet(going) /\ used = Needs(going) /\ used <= Budget
    BY DEF HoldingInv, GateCounts
  <2>2. IsFiniteSet(going') /\ used' = Needs(going') /\ used' <= Budget
    BY <2>1, <1>2, <1>8, PumpCounts
  <2> QED BY <2>2 DEF GateCounts, Needs
<1> QED BY <1>10, <1>11, <1>12, <1>13, <1>14 DEF HoldingInv

\* A first run that ends brings the clone, or its job makes no other.
LEMMA RunEndKeeps == ASSUME HoldingInv, NEW r \in Runs, RunEnds(r) PROVE HoldingInv'
<1>1. PICK ok \in BOOLEAN :
        /\ made' = made \cup {r} \cup (IF ok THEN {} ELSE RunsOf(r[1]) \ asked)
        /\ clones' = IF ok /\ r[2] = 1 THEN clones \cup {HomeOf[r[1]]} ELSE clones
  BY DEF RunEnds
<1>2. /\ r \in going
      /\ Pump(waiting, going \ {r}, used - Need(r))
      /\ UNCHANGED <<chain, job, seed, asked>>
  BY DEF RunEnds
<1>3. /\ r[1] \in Jobs /\ r[2] \in Int /\ r[2] >= 1 /\ r = <<r[1], r[2]>>
      /\ HomeOf[r[1]] \in Repos
  BY RunParts, HoldingAssumption DEF HoldingAssumption
<1>4. r \in asked \ made /\ job[r[1]] = "holds"
  BY <1>2 DEF HoldingInv, RunsOfHolders, OnceEach
<1>5. /\ made \subseteq made' /\ made' \subseteq Runs
      /\ \A q \in asked : q \in made' => q \in made \/ q = r
      /\ \A q \in made' \ made : q[1] = r[1]
  BY <1>1, RunParts DEF HoldingInv, HoldingTypes, RunsOf
<1>6. \A i \in DOMAIN waiting : waiting[i] \in asked \ (going \cup made) /\ job[waiting[i][1]] = "holds"
  BY DEF HoldingInv, RunsOfHolders, OnceEach
<1>7. \A i \in DOMAIN waiting : waiting[i] \in asked \ ((going \ {r}) \cup made') /\ job[waiting[i][1]] = "holds"
  BY <1>2, <1>5, <1>6
<1>8. \A q \in going \ {r} : q \in asked \ made' /\ job[q[1]] = "holds"
  BY <1>5 DEF HoldingInv, RunsOfHolders, OnceEach
<1>9. /\ waiting \in Seq(Runs) /\ going \ {r} \in SUBSET Runs
      /\ OnceEach(waiting, going \ {r}, asked, made')
  BY <1>7, <1>8 DEF HoldingInv, HoldingTypes, RunsOfHolders, OnceEach
<1>10. going' \subseteq Runs /\ waiting' \in Seq(Runs) /\ OnceEach(waiting', going', asked, made')
  BY <1>2, <1>9, PumpKeepsRuns
<1>11. HoldingTypes'
  BY <1>1, <1>2, <1>3, <1>5, <1>10 DEF HoldingInv, HoldingTypes
<1>12. HoldsWhatItUses'
  BY <1>2 DEF HoldingInv, HoldsWhatItUses, Holder
<1>13. RunsOfHolders'
  <2>1. \A q \in asked : q[2] > 1 => <<q[1], 1>> \in made'
    BY <1>5 DEF HoldingInv, RunsOfHolders, OnceEach
  <2> QED BY <2>1, <1>2, <1>10 DEF RunsOfHolders, OnceEach
<1>14. HasItsClone'
  <2> SUFFICES ASSUME NEW i \in Jobs
               PROVE  /\ job[i] \in {"new", "waits"} => RunsOf(i) \cap made' = {}
                      /\ job[i] = "holds" /\ <<i, 1>> \in made' =>
                           HomeOf[i] \in clones' \/ RunsOf(i) \subseteq made'
    BY <1>2 DEF HasItsClone, RunsOf, Runs
  <2>1. CASE i # r[1]
    <3>1. RunsOf(i) \cap made' = RunsOf(i) \cap made
      BY <2>1, <1>5 DEF RunsOf
    <3>2. <<i, 1>> \in made' => <<i, 1>> \in made
      BY <2>1, <1>5
    <3>3. clones \subseteq clones'
      BY <1>1
    <3> QED BY <3>1, <3>2, <3>3 DEF HoldingInv, HasItsClone
  <2>2. CASE i = r[1] /\ r[2] = 1 /\ ok
    BY <2>2, <1>1, <1>4
  <2>3. CASE i = r[1] /\ r[2] = 1 /\ ~ok
    <3> SUFFICES ASSUME NEW q \in RunsOf(i), q \in asked PROVE q = r
      BY <2>3, <1>1, <1>4
    <3>1. q \in Runs /\ q[1] = r[1] /\ q[2] \in Int /\ q[2] >= 1 /\ q = <<q[1], q[2]>>
      BY <2>3, RunParts DEF RunsOf
    <3>2. r = <<r[1], 1>>
      BY <2>3, <1>3
    <3>3. ~ (q[2] > 1)
      BY <3>1, <3>2, <1>4 DEF HoldingInv, RunsOfHolders, OnceEach
    <3> QED BY <3>1, <3>2, <3>3
  <2>4. CASE i = r[1] /\ r[2] # 1
    <3>1. <<i, 1>> \in made
      BY <2>4, <1>3, <1>4 DEF HoldingInv, RunsOfHolders, OnceEach
    <3>2. r \in RunsOf(i) /\ r \notin made
      BY <2>4, <1>4, RunParts
    <3>3. HomeOf[i] \in clones
      BY <2>4, <3>1, <3>2, <1>4 DEF HoldingInv, HasItsClone
    <3> QED BY <2>4, <3>3, <1>1, <1>4
  <2> QED BY <2>1, <2>2, <2>3, <2>4
<1>15. GateCounts'
  <2>1. IsFiniteSet(going) /\ used = Needs(going) /\ used <= Budget
    BY DEF HoldingInv, GateCounts
  <2>2. PICK rest \in SUBSET Runs : rest = going \ {r}
    BY <1>9
  <2>3. IsFiniteSet(rest) /\ IsFiniteSet({r}) /\ {r} \in SUBSET Runs /\ rest \cap {r} = {} /\ rest \cup {r} = going
    BY <2>1, <2>2, <1>2, FS_Subset, FS_Singleton
  <2>4. Needs(going) = Needs(rest) + Needs({r}) /\ Needs(rest) \in Nat
    BY <2>2, <2>3, NeedsSums
  <2>5. Needs({r}) = Need(r) /\ Need(r) \in Nat /\ Budget \in Nat
    BY NeedsSums, NeedIsWithin, HoldingAssumption DEF HoldingAssumption
  <2>6. PICK taken : taken = used - Need(r)
    OBVIOUS
  <2>7. taken = Needs(rest) /\ taken <= Budget
    BY <2>1, <2>4, <2>5, <2>6
  <2>8. Pump(waiting, rest, taken) /\ OnceEach(waiting, rest, asked, made') /\ waiting \in Seq(Runs)
    BY <1>2, <1>9, <2>2, <2>6
  <2>9. IsFiniteSet(going') /\ used' = Needs(going') /\ used' <= Budget
    BY <2>3, <2>7, <2>8, PumpCounts
  <2> QED BY <2>9 DEF GateCounts, Needs
<1> QED BY <1>11, <1>12, <1>13, <1>14, <1>15 DEF HoldingInv

LEMMA HoldingStep == HoldingInv /\ [Next]_vars => HoldingInv'
<1> SUFFICES ASSUME HoldingInv, [Next]_vars PROVE HoldingInv'
  OBVIOUS
<1>1. CASE UNCHANGED vars
  BY <1>1, CountsStay DEF vars, HoldingInv, HoldingTypes, HoldsWhatItUses, RunsOfHolders, OnceEach, HasItsClone, Holder, RunsOf, Runs
<1>2. CASE Next
  BY <1>2, TurnsKeep, SeedingKeeps, EndKeeps, AskKeeps, RunEndKeeps, PruningKeeps DEF Next
<1> QED BY <1>1, <1>2

LEMMA HoldingAlways == Spec => []HoldingInv
<1> QED BY HoldingInitial, HoldingStep, PTL DEF Spec

\* The state is well typed, and the memory counted as taken is never more than there is
\* nor less than none, however many run, ask and end.
THEOREM HoldingTypesHold == Spec => []TypeOK
<1>1. HoldingInv => TypeOK
  <2> SUFFICES ASSUME HoldingInv PROVE used \in 0 .. Budget
    BY DEF HoldingInv, HoldingTypes, TypeOK
  <2>1. IsFiniteSet(going) /\ going \in SUBSET Runs /\ used = Needs(going) /\ used <= Budget
    BY DEF HoldingInv, GateCounts, HoldingTypes
  <2>2. Needs(going) \in Nat
    <3>1. IsFiniteSet({}) /\ {} \in SUBSET Runs /\ going \cap {} = {}
      BY FS_EmptySet
    <3> QED BY <2>1, <3>1, NeedsSums
  <2> QED BY <2>1, <2>2, HoldingAssumption DEF HoldingAssumption
<1> QED BY <1>1, HoldingAlways, PTL

\* admitting's promise, for any jobs and any budget: what runs side by side fits in the
\* budget together, and a run that says more than the budget runs alone.
THEOREM RunsFitOrAreAlone == Spec => []FitsOrAlone
<1>1. HoldingInv => FitsOrAlone
  <2> SUFFICES ASSUME HoldingInv, ~ (Cardinality(going) <= 1)
               PROVE  MapThenSumSet(MbOf, going) <= Budget
    BY DEF FitsOrAlone
  <2>1. IsFiniteSet(going) /\ going \in SUBSET Runs /\ Needs(going) <= Budget
    BY DEF HoldingInv, GateCounts, HoldingTypes
  <2>2. ASSUME NEW r \in going PROVE Need(r) < Budget
    <3>1. PICK q \in going : q # r
      <4> SUFFICES ASSUME going = {r} PROVE FALSE
        BY <2>2
      <4> QED BY FS_Singleton
    <3>2. PICK rest \in SUBSET Runs : rest = going \ {r}
      BY <2>1
    <3>3. PICK others \in SUBSET Runs : others = rest \ {q}
      OBVIOUS
    <3>4. /\ IsFiniteSet(rest) /\ IsFiniteSet(others) /\ IsFiniteSet({r}) /\ IsFiniteSet({q})
          /\ {r} \in SUBSET Runs /\ {q} \in SUBSET Runs /\ r \in Runs /\ q \in Runs
      BY <2>1, <2>2, <3>1, <3>2, <3>3, FS_Subset, FS_Singleton
    <3>5. rest \cup {r} = going /\ rest \cap {r} = {} /\ others \cup {q} = rest /\ others \cap {q} = {}
      BY <2>2, <3>1, <3>2, <3>3
    <3>6. /\ Needs(going) = Needs(rest) + Needs({r}) /\ Needs(rest) = Needs(others) + Needs({q})
          /\ Needs(others) \in Nat
      BY <3>4, <3>5, NeedsSums
    <3>7. Needs({r}) = Need(r) /\ Needs({q}) = Need(q)
      BY <3>4, NeedsSums
    <3>8. Need(r) \in Nat /\ Need(q) \in Nat /\ Need(q) >= 1 /\ Budget \in Nat
      BY <3>4, NeedIsWithin, HoldingAssumption DEF HoldingAssumption
    <3> QED BY <2>1, <3>6, <3>7, <3>8
  <2>3. \A r \in going : NeedOf[r] = SaidOf[r] /\ NeedOf[r] \in Nat
    BY <2>1, <2>2, NeedIsWithin DEF NeedOf, SaidOf
  <2>4. Total(NeedOf, going) = Total(SaidOf, going)
    BY <2>1, <2>3, TotalSame
  <2> QED BY <2>1, <2>4, NeedsIsTotal
<1> QED BY <1>1, HoldingAlways, PTL

\* A run that reads a clone finds it there, for any jobs, forks and prunes: who holds a
\* repository is first in its chain, and prune() takes only one nobody is in the chain of.
THEOREM ClonesStay == Spec => []CloneStays
<1>1. HoldingInv => CloneStays
  <2> SUFFICES ASSUME HoldingInv, NEW r \in going, r[2] > 1 PROVE HomeOf[r[1]] \in clones
    BY DEF CloneStays
  <2>1. r \in Runs /\ r \in asked \ made /\ job[r[1]] = "holds" /\ <<r[1], 1>> \in made
    BY DEF HoldingInv, HoldingTypes, RunsOfHolders, OnceEach
  <2>2. r[1] \in Jobs /\ r \in RunsOf(r[1])
    BY <2>1, RunParts
  <2> QED BY <2>1, <2>2 DEF HoldingInv, HasItsClone
<1> QED BY <1>1, HoldingAlways, PTL

\* Runs are let in in the order they asked, whatever they take and whatever ends.
THEOREM LetInInOrder == Spec => InOrder
<1> DEFINE A == \A r \in going' \ going, i \in DOMAIN waiting :
                  r \notin ToSet(SubSeq(waiting, 1, i)) => waiting[i] \in going'
<1>1. HoldingInv /\ [Next]_vars => [A]_vars
  <2> SUFFICES ASSUME HoldingInv, Next,
                      NEW r \in going' \ going, NEW i \in DOMAIN waiting,
                      r \notin ToSet(SubSeq(waiting, 1, i))
               PROVE  waiting[i] \in going'
    BY DEF A
  <2>1. waiting \in Seq(Runs) /\ DOMAIN waiting = 1 .. Len(waiting) /\ Len(waiting) \in Nat
    BY DEF HoldingInv, HoldingTypes
  <2>2. \A k \in 1 .. i : r # waiting[k]
    <3>1. DOMAIN SubSeq(waiting, 1, i) = 1 .. i /\ \A k \in 1 .. i : SubSeq(waiting, 1, i)[k] = waiting[k]
      BY <2>1
    <3> QED BY <3>1 DEF ToSet
  <2>3. \E line \in Seq(Runs), in \in SUBSET going : \E taken :
          /\ Pump(line, in, taken)
          /\ Len(line) >= Len(waiting)
          /\ \A k \in DOMAIN waiting : line[k] = waiting[k]
    <3>1. CASE \E q \in Runs : AsksToRun(q)
      <4>1. PICK q \in Runs : AsksToRun(q)
        BY <3>1
      <4>2. /\ Append(waiting, q) \in Seq(Runs)
            /\ Len(Append(waiting, q)) >= Len(waiting)
            /\ \A k \in DOMAIN waiting : Append(waiting, q)[k] = waiting[k]
        BY <2>1
      <4>3. Pump(Append(waiting, q), going, used)
        BY <4>1 DEF AsksToRun
      <4> QED BY <4>2, <4>3
    <3>2. CASE \E q \in Runs : RunEnds(q)
      <4>1. PICK q \in Runs : Pump(waiting, going \ {q}, used - Need(q))
        BY <3>2 DEF RunEnds
      <4> QED BY <4>1, <2>1
    <3>3. ASSUME going' = going PROVE FALSE
      BY <3>3
    <3> QED BY <3>1, <3>2, <3>3 DEF Next, Asks, Holds, SeedWaits, SeedCopies, SeedEnds, Ends, Prunes, Pruned
  <2>8. PICK line \in Seq(Runs), in \in SUBSET going :
          /\ \E taken : Pump(line, in, taken)
          /\ Len(line) >= Len(waiting)
          /\ \A k \in DOMAIN waiting : line[k] = waiting[k]
    BY <2>3
  <2>4. PICK n \in 0 .. Len(line) : going' = in \cup {line[k] : k \in 1 .. n}
    BY <2>8, PumpLetsFirstIn
  <2>5. PICK m \in 1 .. n : r = line[m]
    BY <2>8, <2>4
  <2>6. m > i
    BY <2>1, <2>2, <2>8, <2>5
  <2>7. i \in 1 .. n /\ line[i] = waiting[i]
    BY <2>1, <2>8, <2>5, <2>6
  <2> QED BY <2>4, <2>7
<1> QED BY <1>1, HoldingAlways, PTL DEF Spec, InOrder

-----------------------------------------------------------------------------
(* Nobody waits for good *)

\* While a run waits for memory another one has it, and a run that was asked for waits,
\* goes or has ended.
GateMoves ==
  /\ waiting # <<>> => going # {}
  /\ \A r \in asked : r \in made \/ r \in going \/ \E i \in DOMAIN waiting : waiting[i] = r

InChain(n, w) == \E i \in DOMAIN chain[n] : chain[n][i] = w

\* A job that is to hold or copy is in the chain of that repository...
Joined ==
  \A j \in Jobs :
    /\ job[j] \in {"waits", "holds"} => InChain(HomeOf[j], j)
    /\ seed[j] \in {"waits", "copies"} => job[j] = "holds" /\ InChain(ParentOf[j], j)

\* ... and who is in a chain is there once, and for one of these.
Waiters ==
  \A n \in Repos :
    /\ \A i, k \in DOMAIN chain[n] : chain[n][i] = chain[n][k] => i = k
    /\ \A w \in Jobs : InChain(n, w) =>
         \/ HomeOf[w] = n /\ job[w] \in {"waits", "holds"}
         \/ ParentOf[w] = n /\ seed[w] \in {"waits", "copies"}

WaitsInv == HoldingInv /\ GateMoves /\ Joined /\ Waiters

\* The gate lets one in, when nothing goes and something waits.
LEMMA PumpLetsSomeIn ==
  ASSUME NEW line \in Seq(Runs), NEW in, NEW taken, Pump(line, in, taken), waiting' # <<>>
  PROVE  going' # {}
<1> DEFINE fits(i) == (in = {} /\ i = 1) \/ taken + Needs(ToSet(SubSeq(line, 1, i))) <= Budget
           S == {k \in 0 .. Len(line) : \A i \in 1 .. k : fits(i)}
           n == Max(S)
<1>1. S \in SUBSET (0 .. Len(line)) /\ 0 \in S /\ Len(line) \in Nat
  OBVIOUS
<1>2. n \in S /\ \A y \in S : n >= y
  <2> HIDE DEF S
  <2> QED BY <1>1, LargestIsThere
<1>3. /\ going' = in \cup ToSet(SubSeq(line, 1, n)) /\ waiting' = SubSeq(line, n + 1, Len(line))
  BY DEF Pump
<1>4. n \in 0 .. Len(line)
  <2> HIDE DEF n
  <2> QED BY <1>2
<1>5. SUFFICES ASSUME in = {} PROVE n >= 1
  <2> HIDE DEF n
  <2>1. CASE in # {}
    BY <2>1, <1>3
  <2>2. CASE n >= 1
    <3>1. 1 \in DOMAIN SubSeq(line, 1, n)
      BY <2>2, <1>4
    <3> QED BY <3>1, <1>3 DEF ToSet
  <2> QED BY <1>5, <2>1, <2>2
<1>6. Len(line) >= 1
  <2> HIDE DEF n
  <2> SUFFICES ASSUME Len(line) = 0 PROVE FALSE
    BY <1>1
  <2>1. SubSeq(line, n + 1, Len(line)) = <<>>
    BY <1>4
  <2> QED BY <2>1, <1>3
<1>7. 1 \in S
  BY <1>5, <1>6
<1> QED
  <2> HIDE DEF S
  <2> QED BY <1>2, <1>4, <1>7

\* Who is in the queue is let in or stays in it.
LEMMA PumpKeepsAll ==
  ASSUME NEW line \in Seq(Runs), NEW in, NEW taken, Pump(line, in, taken),
         NEW i \in DOMAIN line
  PROVE  line[i] \in going' \/ \E k \in DOMAIN waiting' : waiting'[k] = line[i]
<1>1. PICK n \in 0 .. Len(line) :
        /\ going' = in \cup {line[k] : k \in 1 .. n}
        /\ waiting' = SubSeq(line, n + 1, Len(line))
  BY PumpLetsFirstIn
<1>2. i \in 1 .. Len(line) /\ Len(line) \in Nat
  OBVIOUS
<1>3. CASE i <= n
  <2>1. i \in 1 .. n
    BY <1>2, <1>3
  <2> QED BY <2>1, <1>1
<1>4. CASE i > n
  <2>1. i - n \in DOMAIN waiting' /\ waiting'[i - n] = line[i]
    BY <1>1, <1>2, <1>4
  <2> QED BY <2>1
<1> QED BY <1>1, <1>2, <1>3, <1>4

\* Joining a chain one is not in leaves who is in it, each once.
LEMMA JoinKeepsWaiters ==
  ASSUME HoldingTypes, NEW n \in Repos, NEW who \in Jobs \cup {Pruner}, Join(n, who),
         ~ InChain(n, who),
         \A m \in Repos : \A i, k \in DOMAIN chain[m] : chain[m][i] = chain[m][k] => i = k
  PROVE  /\ \A m \in Repos : \A i, k \in DOMAIN chain'[m] : chain'[m][i] = chain'[m][k] => i = k
         /\ \A m \in Repos : \A w : InChain(m, w)' <=> InChain(m, w) \/ (m = n /\ w = who)
<1>1. /\ chain[n] \in Seq(Jobs \cup {Pruner})
      /\ chain'[n] = Append(chain[n], who)
      /\ \A m \in Repos : m # n => chain'[m] = chain[m]
  BY DEF HoldingTypes, Join
<1>2. /\ Len(chain[n]) \in Nat
      /\ DOMAIN chain[n] = 1 .. Len(chain[n])
      /\ DOMAIN chain'[n] = 1 .. (Len(chain[n]) + 1)
      /\ chain'[n][Len(chain[n]) + 1] = who
      /\ \A i \in 1 .. Len(chain[n]) : chain'[n][i] = chain[n][i]
  BY <1>1
<1>3. \A i \in DOMAIN chain'[n] : i \in DOMAIN chain[n] \/ i = Len(chain[n]) + 1
  BY <1>2
<1>4. \A i, k \in DOMAIN chain'[n] : chain'[n][i] = chain'[n][k] => i = k
  BY <1>2, <1>3 DEF InChain
<1>5. \A w : InChain(n, w)' <=> InChain(n, w) \/ w = who
  <2>1. \A w : InChain(n, w)' => InChain(n, w) \/ w = who
    BY <1>2, <1>3 DEF InChain
  <2>2. \A w : InChain(n, w) => InChain(n, w)'
    <3>1. \A i \in DOMAIN chain[n] : i \in DOMAIN chain'[n] /\ chain'[n][i] = chain[n][i]
      BY <1>2
    <3> QED BY <3>1 DEF InChain
  <2>3. InChain(n, who)'
    <3>1. Len(chain[n]) + 1 \in DOMAIN chain'[n]
      BY <1>2
    <3> QED BY <3>1, <1>2 DEF InChain
  <2> QED BY <2>1, <2>2, <2>3
<1>6. \A m \in Repos : m # n => \A w : InChain(m, w)' <=> InChain(m, w)
  BY <1>1 DEF InChain
<1>7. \A m \in Repos : m # n => \A i, k \in DOMAIN chain'[m] : chain'[m][i] = chain'[m][k] => i = k
  BY <1>1
<1> QED BY <1>4, <1>5, <1>6, <1>7

\* Who leaves a chain is in it no more, and everyone else is.
LEMMA LeaveKeepsWaiters ==
  ASSUME HoldingTypes, NEW n \in Repos, NEW who, Holder(n, who), Leave(n),
         \A m \in Repos : \A i, k \in DOMAIN chain[m] : chain[m][i] = chain[m][k] => i = k
  PROVE  /\ \A m \in Repos : \A i, k \in DOMAIN chain'[m] : chain'[m][i] = chain'[m][k] => i = k
         /\ \A m \in Repos : \A w : InChain(m, w)' <=> InChain(m, w) /\ ~ (m = n /\ w = who)
<1>1. /\ chain[n] \in Seq(Jobs \cup {Pruner}) /\ chain[n] # <<>>
      /\ Head(chain[n]) = who
      /\ chain'[n] = Tail(chain[n])
      /\ \A m \in Repos : m # n => chain'[m] = chain[m]
  BY DEF HoldingTypes, Leave, Holder
<1>2. /\ Len(chain[n]) \in Nat /\ Len(chain[n]) >= 1
      /\ DOMAIN chain[n] = 1 .. Len(chain[n])
      /\ DOMAIN chain'[n] = 1 .. (Len(chain[n]) - 1)
      /\ \A i \in 1 .. (Len(chain[n]) - 1) : chain'[n][i] = chain[n][i + 1]
      /\ chain[n][1] = who
  BY <1>1
<1>3. \A i \in DOMAIN chain'[n] : i \in Int /\ i + 1 \in DOMAIN chain[n] /\ i + 1 # 1
  BY <1>2
<1>4. \A i, k \in DOMAIN chain'[n] : chain'[n][i] = chain'[n][k] => i = k
  <2> SUFFICES ASSUME NEW i \in DOMAIN chain'[n], NEW k \in DOMAIN chain'[n],
                      chain'[n][i] = chain'[n][k]
               PROVE  i = k
    OBVIOUS
  <2>1. i + 1 = k + 1
    BY <1>2, <1>3
  <2> QED BY <2>1, <1>3
<1>5. \A w : InChain(n, w)' <=> InChain(n, w) /\ w # who
  <2>1. ASSUME NEW i \in DOMAIN chain'[n] PROVE InChain(n, chain'[n][i]) /\ chain'[n][i] # who
    <3>1. i + 1 \in DOMAIN chain[n] /\ i + 1 # 1 /\ chain'[n][i] = chain[n][i + 1] /\ 1 \in DOMAIN chain[n]
      BY <1>2, <1>3
    <3> QED BY <3>1, <1>2 DEF InChain
  <2>2. ASSUME NEW i \in DOMAIN chain[n], chain[n][i] # who PROVE \E k \in DOMAIN chain'[n] : chain'[n][k] = chain[n][i]
    <3>1. i - 1 \in DOMAIN chain'[n] /\ chain'[n][i - 1] = chain[n][i]
      BY <2>2, <1>2
    <3> QED BY <3>1
  <2> QED BY <2>1, <2>2 DEF InChain
<1>6. \A m \in Repos : m # n => \A w : InChain(m, w)' <=> InChain(m, w)
  BY <1>1 DEF InChain
<1>7. \A m \in Repos : m # n => \A i, k \in DOMAIN chain'[m] : chain'[m][i] = chain'[m][k] => i = k
  BY <1>1
<1> QED BY <1>4, <1>5, <1>6, <1>7

LEMMA WaitsFirst == Init => WaitsInv
<1> SUFFICES ASSUME Init PROVE GateMoves /\ Joined /\ Waiters
  BY HoldingInitial DEF WaitsInv
<1>1. GateMoves
  BY DEF Init, GateMoves
<1>2. Joined
  BY DEF Init, Joined
<1>3. Waiters
  BY DEF Init, Waiters, InChain
<1> QED BY <1>1, <1>2, <1>3

\* A job that comes joins its repository's chain; whose turn it is stays in it.
LEMMA TurnsWait == ASSUME WaitsInv, NEW j \in Jobs, Asks(j) \/ Holds(j) PROVE Joined' /\ Waiters'
<1>1. HomeOf[j] \in Repos /\ ParentOf[j] # HomeOf[j] /\ j \in Jobs \cup {Pruner} /\ HoldingTypes
  BY HoldingAssumption DEF HoldingAssumption, WaitsInv, HoldingInv
<1>2. PICK to \in {"waits", "holds"} :
        job' = [job EXCEPT ![j] = to] /\ UNCHANGED seed /\ job[j] \in {"new", "waits"}
  BY DEF Asks, Holds
<1>3. \A i \in Jobs : job'[i] = (IF i = j THEN to ELSE job[i])
  BY <1>1, <1>2 DEF HoldingTypes
<1>4. /\ \A m \in Repos : \A i, k \in DOMAIN chain'[m] : chain'[m][i] = chain'[m][k] => i = k
      /\ \A m \in Repos : \A w : InChain(m, w)' <=> InChain(m, w) \/ (m = HomeOf[j] /\ w = j)
  <2>1. CASE Asks(j)
    <3>1. Join(HomeOf[j], j) /\ job[j] = "new"
      BY <2>1 DEF Asks
    <3>2. seed[j] \notin {"waits", "copies"}
      BY <3>1 DEF WaitsInv, Joined
    <3>3. ~ InChain(HomeOf[j], j)
      BY <1>1, <3>1, <3>2 DEF WaitsInv, Waiters
    <3> QED BY <1>1, <3>1, <3>3, JoinKeepsWaiters DEF WaitsInv, Waiters
  <2>2. CASE Holds(j)
    <3>1. chain' = chain /\ job[j] = "waits"
      BY <2>2 DEF Holds
    <3>2. InChain(HomeOf[j], j)
      BY <3>1 DEF WaitsInv, Joined
    <3> QED BY <3>1, <3>2 DEF WaitsInv, Waiters, InChain
  <2> QED BY <2>1, <2>2
<1>5. \A i \in Jobs : HomeOf[i] \in Repos /\ (seed[i] \in {"waits", "copies"} => ParentOf[i] \in Repos)
  BY HoldingAssumption DEF HoldingAssumption, WaitsInv, HoldingInv, HoldsWhatItUses
<1>6. Joined'
  BY <1>2, <1>3, <1>4, <1>5 DEF WaitsInv, Joined
<1>7. Waiters'
  <2> SUFFICES ASSUME NEW m \in Repos, NEW w \in Jobs, InChain(m, w)'
               PROVE  \/ HomeOf[w] = m /\ job'[w] \in {"waits", "holds"}
                      \/ ParentOf[w] = m /\ seed'[w] \in {"waits", "copies"}
    BY <1>4 DEF Waiters
  <2>1. CASE InChain(m, w)
    BY <2>1, <1>2, <1>3 DEF WaitsInv, Waiters
  <2>2. CASE m = HomeOf[j] /\ w = j
    BY <2>2, <1>3
  <2> QED BY <2>1, <2>2, <1>4
<1> QED BY <1>6, <1>7

\* A job that is to copy joins its parent's chain, and leaves it with its copy.
LEMMA SeedsWait ==
  ASSUME WaitsInv, NEW j \in Jobs, SeedWaits(j) \/ SeedCopies(j) \/ SeedEnds(j)
  PROVE  Joined' /\ Waiters'
<1>1. /\ ParentOf[j] \in Repos /\ ParentOf[j] # HomeOf[j] /\ j \in Jobs \cup {Pruner} /\ HoldingTypes
      /\ job[j] = "holds"
  BY HoldingAssumption DEF HoldingAssumption, WaitsInv, Joined, HoldingInv, HoldsWhatItUses, SeedWaits, SeedCopies, SeedEnds
<1>2. PICK to \in {"waits", "copies", "done"} :
        /\ seed' = [seed EXCEPT ![j] = to] /\ UNCHANGED job
        /\ IF to = "done" THEN SeedEnds(j) ELSE SeedWaits(j) \/ SeedCopies(j)
  BY DEF SeedWaits, SeedCopies, SeedEnds
<1>3. \A i \in Jobs : seed'[i] = (IF i = j THEN to ELSE seed[i])
  BY <1>1, <1>2 DEF HoldingTypes
<1>4. /\ \A m \in Repos : \A i, k \in DOMAIN chain'[m] : chain'[m][i] = chain'[m][k] => i = k
      /\ \A m \in Repos : \A w : m # ParentOf[j] \/ w # j => (InChain(m, w)' <=> InChain(m, w))
      /\ InChain(ParentOf[j], j)' <=> to # "done"
  <2>1. CASE SeedWaits(j)
    <3>1. Join(ParentOf[j], j) /\ seed[j] = "none" /\ to # "done"
      BY <2>1, <1>2 DEF SeedWaits, SeedEnds
    <3>2. ~ InChain(ParentOf[j], j)
      BY <1>1, <3>1 DEF WaitsInv, Waiters
    <3> QED BY <1>1, <3>1, <3>2, JoinKeepsWaiters DEF WaitsInv, Waiters
  <2>2. CASE SeedCopies(j)
    <3>1. chain' = chain /\ seed[j] = "waits" /\ to # "done"
      BY <2>2, <1>2 DEF SeedCopies, SeedEnds
    <3>2. InChain(ParentOf[j], j)
      BY <3>1 DEF WaitsInv, Joined
    <3> QED BY <3>1, <3>2 DEF WaitsInv, Waiters, InChain
  <2>3. CASE SeedEnds(j)
    <3>1. Leave(ParentOf[j]) /\ seed[j] = "copies" /\ seed' = [seed EXCEPT ![j] = "done"]
      BY <2>3 DEF SeedEnds
    <3>2. Holder(ParentOf[j], j)
      BY <3>1 DEF WaitsInv, HoldingInv, HoldsWhatItUses
    <3>3. to = "done"
      BY <3>1, <1>3, <1>1 DEF HoldingTypes
    <3> QED BY <1>1, <3>1, <3>2, <3>3, LeaveKeepsWaiters DEF WaitsInv, Waiters
  <2> QED BY <2>1, <2>2, <2>3
<1>5. \A i \in Jobs : HomeOf[i] \in Repos /\ (seed[i] \in {"waits", "copies"} => ParentOf[i] \in Repos)
  BY HoldingAssumption DEF HoldingAssumption, WaitsInv, HoldingInv, HoldsWhatItUses
<1>6. Joined'
  BY <1>1, <1>2, <1>3, <1>4, <1>5 DEF WaitsInv, Joined
<1>7. Waiters'
  <2> SUFFICES ASSUME NEW m \in Repos, NEW w \in Jobs, InChain(m, w)'
               PROVE  \/ HomeOf[w] = m /\ job'[w] \in {"waits", "holds"}
                      \/ ParentOf[w] = m /\ seed'[w] \in {"waits", "copies"}
    BY <1>4 DEF Waiters
  <2>1. CASE m = ParentOf[j] /\ w = j
    BY <2>1, <1>3, <1>4
  <2>2. CASE ~ (m = ParentOf[j] /\ w = j)
    BY <2>2, <1>2, <1>3, <1>4 DEF WaitsInv, Waiters
  <2> QED BY <2>1, <2>2
<1> QED BY <1>6, <1>7

\* A job that ends leaves the one chain it is in.
LEMMA EndsWait == ASSUME WaitsInv, NEW j \in Jobs, Ends(j) PROVE Joined' /\ Waiters'
<1>1. /\ HomeOf[j] \in Repos /\ ParentOf[j] # HomeOf[j] /\ HoldingTypes
      /\ Holder(HomeOf[j], j) /\ Leave(HomeOf[j])
      /\ seed[j] \notin {"waits", "copies"} /\ UNCHANGED seed
  BY HoldingAssumption DEF HoldingAssumption, WaitsInv, HoldingInv, HoldsWhatItUses, Ends
<1>2. \A i \in Jobs : job'[i] = (IF i = j THEN "over" ELSE job[i])
  BY <1>1 DEF HoldingTypes, Ends
<1>3. /\ \A m \in Repos : \A i, k \in DOMAIN chain'[m] : chain'[m][i] = chain'[m][k] => i = k
      /\ \A m \in Repos : \A w : InChain(m, w)' <=> InChain(m, w) /\ ~ (m = HomeOf[j] /\ w = j)
  BY <1>1, LeaveKeepsWaiters DEF WaitsInv, Waiters
<1>4. \A i \in Jobs : HomeOf[i] \in Repos /\ (seed[i] \in {"waits", "copies"} => ParentOf[i] \in Repos)
  BY HoldingAssumption DEF HoldingAssumption, WaitsInv, HoldingInv, HoldsWhatItUses
<1>5. Joined'
  BY <1>1, <1>2, <1>3, <1>4 DEF WaitsInv, Joined
<1>6. Waiters'
  <2> SUFFICES ASSUME NEW m \in Repos, NEW w \in Jobs, InChain(m, w)'
               PROVE  \/ HomeOf[w] = m /\ job'[w] \in {"waits", "holds"}
                      \/ ParentOf[w] = m /\ seed'[w] \in {"waits", "copies"}
    BY <1>3 DEF Waiters
  <2>1. InChain(m, w) /\ ~ (m = HomeOf[j] /\ w = j)
    BY <1>3
  <2> QED BY <2>1, <1>1, <1>2 DEF WaitsInv, Waiters
<1> QED BY <1>5, <1>6

\* prune() joins an empty chain, and leaves it.
LEMMA PruningWaits == ASSUME WaitsInv, NEW n \in Repos, Prunes(n) \/ Pruned(n) PROVE Joined' /\ Waiters'
<1>1. HoldingTypes /\ Pruner \notin Jobs /\ UNCHANGED <<job, seed>>
  BY HoldingAssumption DEF HoldingAssumption, WaitsInv, HoldingInv, Prunes, Pruned
<1>2. /\ \A m \in Repos : \A i, k \in DOMAIN chain'[m] : chain'[m][i] = chain'[m][k] => i = k
      /\ \A m \in Repos : \A w \in Jobs : InChain(m, w)' <=> InChain(m, w)
  <2>1. CASE Prunes(n)
    <3>1. Join(n, Pruner) /\ ~ InChain(n, Pruner) /\ Pruner \in Jobs \cup {Pruner}
      BY <2>1 DEF Prunes, isLocked, InChain
    <3> QED BY <1>1, <3>1, JoinKeepsWaiters DEF WaitsInv, Waiters
  <2>2. CASE Pruned(n)
    <3>1. Holder(n, Pruner) /\ Leave(n)
      BY <2>2 DEF Pruned
    <3> QED BY <1>1, <3>1, LeaveKeepsWaiters DEF WaitsInv, Waiters
  <2> QED BY <2>1, <2>2
<1>3. \A i \in Jobs : HomeOf[i] \in Repos /\ (seed[i] \in {"waits", "copies"} => ParentOf[i] \in Repos)
  BY HoldingAssumption DEF HoldingAssumption, WaitsInv, HoldingInv, HoldsWhatItUses
<1>4. Joined'
  BY <1>1, <1>2, <1>3 DEF WaitsInv, Joined
<1>5. Waiters'
  BY <1>1, <1>2 DEF WaitsInv, Waiters
<1> QED BY <1>4, <1>5

\* A run that is asked for, or ends, leaves the gate with one that goes or none that waits.
LEMMA RunsWait ==
  ASSUME WaitsInv, NEW r \in Runs, AsksToRun(r) \/ RunEnds(r)
  PROVE  GateMoves'
<1>1. waiting \in Seq(Runs)
  BY DEF WaitsInv, HoldingInv, HoldingTypes
<1>2. CASE AsksToRun(r)
  <2>1. Pump(Append(waiting, r), going, used) /\ asked' = asked \cup {r} /\ made' = made
    BY <1>2 DEF AsksToRun
  <2>2. PICK line \in Seq(Runs) : line = Append(waiting, r)
    <3>1. Append(waiting, r) \in Seq(Runs)
      BY <1>1
    <3> QED BY <3>1
  <2>3. /\ \A i \in DOMAIN waiting : i \in DOMAIN line /\ line[i] = waiting[i]
        /\ \E i \in DOMAIN line : line[i] = r
    <3>1. Len(waiting) + 1 \in DOMAIN line /\ line[Len(waiting) + 1] = r
      BY <1>1, <2>2
    <3>2. DOMAIN waiting = 1 .. Len(waiting) /\ Len(waiting) \in Nat
      BY <1>1
    <3>3. \A i \in 1 .. Len(waiting) : i \in DOMAIN line /\ line[i] = waiting[i]
      BY <1>1, <2>2
    <3> QED BY <3>1, <3>2, <3>3
  <2>4. Pump(line, going, used)
    BY <2>1, <2>2
  <2>5. waiting' # <<>> => going' # {}
    BY <2>4, PumpLetsSomeIn
  <2>6. \A i \in DOMAIN line : line[i] \in going' \/ \E k \in DOMAIN waiting' : waiting'[k] = line[i]
    BY <2>4, PumpKeepsAll
  <2>7. \A q \in going : q \in going'
    BY <2>4, PumpLetsFirstIn
  <2>8. \A q \in asked' : q \in made \/ q \in going \/ \E i \in DOMAIN line : line[i] = q
    BY <2>1, <2>3 DEF WaitsInv, GateMoves
  <2> QED BY <2>1, <2>5, <2>6, <2>7, <2>8 DEF GateMoves
<1>3. CASE RunEnds(r)
  <2>1. Pump(waiting, going \ {r}, used - Need(r)) /\ asked' = asked /\ made \subseteq made' /\ r \in made'
    BY <1>3 DEF RunEnds
  <2>2. waiting' # <<>> => going' # {}
    BY <1>1, <2>1, PumpLetsSomeIn
  <2>3. \A i \in DOMAIN waiting : waiting[i] \in going' \/ \E k \in DOMAIN waiting' : waiting'[k] = waiting[i]
    BY <1>1, <2>1, PumpKeepsAll
  <2>4. \A q \in going \ {r} : q \in going'
    <3>1. \E n \in 0 .. Len(waiting) : going' = (going \ {r}) \cup {waiting[i] : i \in 1 .. n}
      BY <1>1, <2>1, PumpLetsFirstIn
    <3> QED BY <3>1
  <2> QED BY <2>1, <2>2, <2>3, <2>4 DEF WaitsInv, GateMoves
<1> QED BY <1>2, <1>3

LEMMA WaitsStep == WaitsInv /\ [Next]_vars => WaitsInv'
<1> SUFFICES ASSUME WaitsInv, [Next]_vars PROVE GateMoves' /\ Joined' /\ Waiters'
  BY HoldingStep DEF WaitsInv
<1>1. CASE UNCHANGED vars
  BY <1>1 DEF vars, WaitsInv, GateMoves, Joined, Waiters, InChain
<1>2. CASE Next
  <2>1. CASE \E r \in Runs : AsksToRun(r) \/ RunEnds(r)
    <3>1. PICK r \in Runs : AsksToRun(r) \/ RunEnds(r)
      BY <2>1
    <3>2. UNCHANGED <<chain, job, seed>>
      BY <3>1 DEF AsksToRun, RunEnds
    <3>3. Joined' /\ Waiters'
      BY <3>2 DEF WaitsInv, Joined, Waiters, InChain
    <3> QED BY <3>1, <3>3, RunsWait
  <2>2. CASE ~ \E r \in Runs : AsksToRun(r) \/ RunEnds(r)
    <3>1. GateMoves'
      <4>1. UNCHANGED <<waiting, going, asked, made>>
        BY <1>2, <2>2 DEF Next, Asks, Holds, SeedWaits, SeedCopies, SeedEnds, Ends, Prunes, Pruned
      <4> QED BY <4>1 DEF WaitsInv, GateMoves
    <3> QED BY <3>1, <1>2, <2>2, TurnsWait, SeedsWait, EndsWait, PruningWaits DEF Next
  <2> QED BY <2>1, <2>2
<1> QED BY <1>1, <1>2

LEMMA WaitsAlways == Spec => []WaitsInv
<1> QED BY WaitsFirst, WaitsStep, PTL DEF Spec

\* The guard of each step that fairness is claimed for.
CanGo ==
  \/ \E j \in Jobs :
       \/ job[j] = "waits" /\ Holder(HomeOf[j], j)
       \/ job[j] = "holds" /\ seed[j] = "none" /\ <<j, 1>> \in made /\ RunsOf(j) \ made # {}
       \/ seed[j] = "waits" /\ Holder(ParentOf[j], j)
       \/ seed[j] = "copies"
       \/ job[j] = "holds" /\ RunsOf(j) \subseteq made /\ seed[j] \notin {"waits", "copies"}
  \/ \E r \in Runs : /\ job[r[1]] = "holds" /\ r \notin asked \cup made
                     /\ r[2] > 1 => <<r[1], 1>> \in made /\ seed[r[1]] = "done"
  \/ going # {}
  \/ \E n \in Repos : Holder(n, Pruner)

\* No job waits for a repository, for its parent's or for memory with nobody left to go on.
NobodyIsStuck == (\E n \in Repos : isLocked(n)) => CanGo

\* A job that holds its repository and cannot go on waits for its parent's.
LEMMA StuckForParent ==
  ASSUME WaitsInv, ~ CanGo, NEW j \in Jobs, job[j] = "holds"
  PROVE  seed[j] = "waits"
<1>1. HoldingTypes /\ going = {} /\ seed[j] \in {"none", "waits", "copies", "done"} /\ seed[j] # "copies"
  BY DEF WaitsInv, HoldingInv, HoldingTypes, CanGo
<1>2. asked \subseteq made
  BY <1>1 DEF WaitsInv, GateMoves, HoldingTypes
<1>3. CASE RunsOf(j) \subseteq made
  BY <1>1, <1>3 DEF CanGo
<1>4. CASE \E r \in RunsOf(j) : r \notin made
  <2>1. PICK r \in RunsOf(j) : r \notin made
    BY <1>4
  <2>2. r \in Runs /\ r[1] = j
    BY <2>1 DEF RunsOf
  <2>3. <<j, 1>> \in Runs
    BY HoldingAssumption DEF HoldingAssumption, Runs
  <2>4. <<j, 1>> \in made
    <3> SUFFICES ASSUME <<j, 1>> \notin made PROVE FALSE
      OBVIOUS
    <3>1. <<j, 1>>[1] = j /\ ~ (<<j, 1>>[2] > 1) /\ <<j, 1>> \notin asked \cup made
      BY <1>2
    <3> QED BY <3>1, <2>3 DEF CanGo
  <2>5. seed[j] # "none"
    BY <2>1, <2>4 DEF CanGo
  <2>6. seed[j] # "done"
    BY <1>2, <2>1, <2>2, <2>4 DEF CanGo
  <2> QED BY <1>1, <2>5, <2>6
<1> QED BY <1>3, <1>4

LEMMA SomeoneCanGo == WaitsInv => NobodyIsStuck
<1> SUFFICES ASSUME WaitsInv, NEW l \in Repos, isLocked(l), ~ CanGo PROVE FALSE
  BY DEF NobodyIsStuck
<1>1. PICK rank \in [Repos -> 1 .. Cardinality(Repos)] :
        \A j \in Jobs : ParentOf[j] # None => rank[ParentOf[j]] < rank[HomeOf[j]]
  BY HoldingAssumption DEF HoldingAssumption
<1>2. Cardinality(Repos) \in Nat
  BY HoldingAssumption, FS_CardinalityType DEF HoldingAssumption
<1> DEFINE Locked == {n \in Repos : isLocked(n)}
           Ranks == {rank[n] : n \in Locked}
<1>3. PICK n \in Locked : \A m \in Locked : ~ (rank[m] < rank[n])
  <2>1. \A m \in Repos : rank[m] \in Nat
    BY <1>1, <1>2
  <2>2. Ranks \subseteq Nat /\ rank[l] \in Ranks
    BY <2>1
  <2>3. PICK least \in Ranks : \A k \in Ranks : ~ (<<k, least>> \in OpToRel(<, Nat))
    <3> HIDE DEF Ranks
    <3> QED BY <2>2, NatLessThanWellFounded, WFMin
  <2>4. \A k \in Ranks : ~ (k < least)
    BY <2>2, <2>3 DEF OpToRel
  <2> QED BY <2>3, <2>4
<1>4. PICK w \in Jobs \cup {Pruner} : Holder(n, w) /\ InChain(n, w)
  <2>1. chain[n] \in Seq(Jobs \cup {Pruner}) /\ chain[n] # <<>>
    BY DEF WaitsInv, HoldingInv, HoldingTypes, isLocked
  <2>2. Head(chain[n]) = chain[n][1] /\ 1 \in DOMAIN chain[n] /\ chain[n][1] \in Jobs \cup {Pruner}
    BY <2>1
  <2> QED BY <2>1, <2>2 DEF Holder, InChain
<1>5. w \in Jobs
  BY <1>4 DEF CanGo
<1>6. CASE HomeOf[w] = n /\ job[w] \in {"waits", "holds"}
  <2>1. job[w] = "holds"
    BY <1>4, <1>5, <1>6 DEF CanGo
  <2>2. seed[w] = "waits"
    BY <2>1, <1>5, StuckForParent
  <2>3. ParentOf[w] \in Repos /\ ParentOf[w] # None
    BY <2>2, <1>5, HoldingAssumption DEF HoldingAssumption, WaitsInv, HoldingInv, HoldsWhatItUses
  <2>4. InChain(ParentOf[w], w)
    BY <2>2, <1>5 DEF WaitsInv, Joined
  <2>5. ParentOf[w] \in Locked
    BY <2>3, <2>4 DEF InChain, isLocked
  <2> QED BY <2>3, <2>5, <1>1, <1>3, <1>5, <1>6
<1>7. CASE ParentOf[w] = n /\ seed[w] \in {"waits", "copies"}
  BY <1>4, <1>5, <1>7 DEF CanGo
<1> QED BY <1>4, <1>5, <1>6, <1>7 DEF WaitsInv, Waiters

\* The safety half of EveryJobEnds, for any jobs, forks, memory and budget: as long as
\* anyone holds a repository or waits for one, a job, a run or prune() can go on.
THEOREM NobodyIsStuckForGood == Spec => []NobodyIsStuck
<1> QED BY WaitsAlways, SomeoneCanGo, PTL

=============================================================================
