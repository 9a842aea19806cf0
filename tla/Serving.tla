------------------------------ MODULE Serving ------------------------------
(***************************************************************************)
(* How the Site answers from a repository's Report while the Builder       *)
(* publishes others: a request reads the repository's row, learns the pack *)
(* of its Stored Index, from a memory of ten seconds or from the database, *)
(* and asks the engine service with it, once more if the pack is gone.     *)
(*                                                                         *)
(* Sources: apps/site/src/server/{answers,repos,warm}.ts; the Builder's    *)
(* side is ReportStore, with the second its transaction stamps.            *)
(*                                                                         *)
(* Time goes by in seconds, and any step may cross into the next: a        *)
(* transaction after it has stamped its Report, a read before it is        *)
(* remembered.  (A Builder's clock behind the Site's is a transaction that *)
(* stamps earlier.)  Abstracted: the engine's two caches and the Site's    *)
(* packed texts are one set of packs that can be answered from without R2; *)
(* and the stored Reports of repositories not built since there are packs, *)
(* which a request falls back to.                                          *)
(***************************************************************************)
EXTENDS ReportStore, Naturals, Sequences

CONSTANTS
  Requests,    \* requests of the Site
  IndexOf,     \* pack -> its Stored Index
  NoIndexId,   \* a repository without a Report
  MemoFor,     \* FRESH_FOR, in seconds
  MaxSecond,   \* bound: seconds
  MaxNotices,  \* bound: notices that wait to be worked off
  SameStamp    \* whether one second may stamp two publications

ASSUME ServingAssumption ==
  /\ NoIndexId \notin {IndexOf[p] : p \in StorePacks}
  /\ DOMAIN IndexOf = StorePacks
  /\ MemoFor \in Nat /\ MaxSecond \in Nat /\ MaxNotices \in Nat
  /\ SameStamp \in BOOLEAN

VARIABLES
  second,      \* the time
  reportAt,    \* the row's reportAt
  publishing,  \* the transaction under way: its pack and the second it stamped
  memo,        \* Stored Index -> the pack remembered for it, and when it came (knownOf)
  request,     \* request -> where it is
  cached,      \* packs answered from without R2
  notices,     \* Stored Indexes the Builder has told of, not worked off yet
  warm         \* where the one who works them off is

siteVars == <<second, reportAt, publishing, memo, request, cached, notices, warm>>
servingVars == <<storeVars, siteVars>>

Ids == {IndexOf[p] : p \in StorePacks}
IdOf(p) == IF p = NoPack THEN NoIndexId ELSE IndexOf[p]
Seconds == 0 .. MaxSecond
NoMemo == [pack |-> NoPack, at |-> 0, late |-> FALSE]

\* What a request has read of the row, the pack it asks with, the asks that failed, the
\* pack on its way from the database; and, as history, what was served meanwhile, the
\* seconds of the publications that overtook its read, and whether it took a memory that
\* was late: learnt before a publication was there, and remembered after its second; or had
\* its pack refused in the very second of its Report.
Request ==
  [pc : {"idle", "row", "read", "asks", "again", "answered", "none"},
   si : Ids \cup {NoIndexId}, after : Seconds, pack : StorePacks \cup {NoPack}, tries : 0 .. 2,
   found : StorePacks \cup {NoPack}, seen : SUBSET (StorePacks \cup {NoPack}), removed : BOOLEAN,
   overtaken : SUBSET Seconds, late : BOOLEAN]

ServingTypeOK ==
  /\ StoreTypeOK
  /\ second \in Seconds /\ reportAt \in Seconds
  /\ publishing \in [pack : StorePacks \cup {NoPack}, at : Seconds]
  /\ memo \in [Ids -> [pack : StorePacks \cup {NoPack}, at : Seconds, late : BOOLEAN]]
  /\ request \in [Requests -> Request]
  /\ cached \subseteq StorePacks
  /\ notices \in Seq(Ids)
  /\ warm \in
       [pc : {"idle", "known", "read", "asks"}, si : Ids \cup {NoIndexId},
        pack : StorePacks \cup {NoPack}, overtaken : SUBSET Seconds]

NoRequest == [pc |-> "idle", si |-> NoIndexId, after |-> 0, pack |-> NoPack,
              tries |-> 0, found |-> NoPack, seen |-> {}, removed |-> FALSE,
              overtaken |-> {}, late |-> FALSE]
NoWarm == [pc |-> "idle", si |-> NoIndexId, pack |-> NoPack, overtaken |-> {}]

ServingInit ==
  /\ StoreInit
  /\ second = 0 /\ reportAt = 0
  /\ publishing = [pack |-> NoPack, at |-> 0]
  /\ memo = [si \in Ids |-> NoMemo]
  /\ request = [r \in Requests |-> NoRequest]
  /\ cached = {} /\ notices = <<>> /\ warm = NoWarm

-----------------------------------------------------------------------------
(* The Builder *)

\* Every request under way sees what is served from now on.
Sees(q, pack) == IF q.pc = "idle" THEN q ELSE [q EXCEPT !.seen = @ \cup {pack}]

\* A read under way is overtaken by a publication of that second.
Overtaken(q, at) == IF q.pc = "read" THEN [q EXCEPT !.overtaken = @ \cup {at}] ELSE q

Uploads(p) ==
  /\ p \notin kept
  /\ kept' = kept \cup {p} /\ Stores
  /\ UNCHANGED siteVars

\* The transaction stamps reportAt, then writes the people, batch by batch.
TransactionStamps(p) ==
  /\ publishing.pack = NoPack /\ p \in kept \ {served}
  /\ reportAt < second \/ SameStamp
  /\ publishing' = [pack |-> p, at |-> second]
  /\ UNCHANGED <<storeVars, second, reportAt, memo, request, cached, notices, warm>>

TransactionCommits ==
  LET p == publishing.pack IN
  /\ p # NoPack /\ p \in kept /\ Len(notices) < MaxNotices
  /\ served' = p /\ Publishes
  /\ reportAt' = publishing.at
  /\ publishing' = [pack |-> NoPack, at |-> 0]
  /\ notices' = Append(notices, IndexOf[p])
  /\ request' = [r \in Requests |-> Overtaken(Sees(request[r], p), publishing.at)]
  /\ warm' = Overtaken(warm, publishing.at)
  /\ UNCHANGED <<second, memo, cached>>

\* The transaction is rolled back.
TransactionFails ==
  /\ publishing.pack # NoPack
  /\ publishing' = [pack |-> NoPack, at |-> 0]
  /\ UNCHANGED <<storeVars, second, reportAt, memo, request, cached, notices, warm>>

\* Mutant: what a Report has been given again is deleted with what it replaced.
DeletesReplaced_Served(p) ==
  /\ p \in kept \ {publishing.pack}
  /\ kept' = kept \ {p} /\ UNCHANGED <<served, going>>
  /\ UNCHANGED siteVars
DeletesReplaced(p) ==
  /\ p \in kept \ {served, publishing.pack}
  /\ kept' = kept \ {p} /\ Discards
  /\ UNCHANGED siteVars

RemovalDeletes ==
  /\ served # NoPack /\ publishing.pack = NoPack
  /\ kept' = kept \ {served} /\ Empties
  /\ request' = [r \in Requests |-> [request[r] EXCEPT !.removed = request[r].pc # "idle"]]
  /\ UNCHANGED <<second, reportAt, publishing, memo, cached, notices, warm>>

RemovalDeletesRow ==
  /\ going /\ publishing.pack = NoPack
  /\ Withdraws
  /\ request' = [r \in Requests |-> Sees(request[r], NoPack)]
  /\ UNCHANGED <<second, reportAt, publishing, memo, cached, notices, warm>>

Ticks ==
  /\ second < MaxSecond
  /\ second' = second + 1
  /\ UNCHANGED <<storeVars, reportAt, publishing, memo, request, cached, notices, warm>>

-----------------------------------------------------------------------------
(* packOf, withPack *)

Fresh(si) == memo[si].pack # NoPack /\ second - memo[si].at < MemoFor

\* Mutant: what was remembered in the second of the publication counts too.
Known_SameSecond(si, after) == Fresh(si) /\ memo[si].at >= after

\* memo.at > (after + 1) * 1000, in the seconds they fall into.
Known(si, after) == Fresh(si) /\ memo[si].at > after

PackInRow(si) == IF IdOf(served) = si THEN served ELSE NoPack

\* History: what was found before a publication of an earlier second is remembered now.
IsLate(overtaken) ==
  \/ \E at \in overtaken : at < second
  \/ publishing.pack # NoPack /\ publishing.at < second

Remembered(si, p, overtaken) ==
  [memo EXCEPT ![si] = [pack |-> p, at |-> second, late |-> IsLate(overtaken)]]

To(r, asked) == request' = [request EXCEPT ![r] = asked]

\* Where a request goes with the pack packOf gave it.
With(q, p) ==
  IF p = NoPack \/ q.tries = 2 \/ (q.tries > 0 /\ p = q.pack)
  THEN [q EXCEPT !.pc = "none", !.found = NoPack, !.overtaken = {}]
  ELSE [q EXCEPT !.pc = "asks", !.pack = p, !.found = NoPack, !.overtaken = {}]

RequestReadsRow(r) ==
  /\ request[r].pc = "idle" /\ served # NoPack
  /\ To(r, [NoRequest EXCEPT !.pc = "row", !.si = IndexOf[served], !.after = reportAt,
                            !.seen = {served}, !.removed = going])
  /\ UNCHANGED <<storeVars, second, reportAt, publishing, memo, cached, notices, warm>>

\* The first time what was read before the publication does not count; after NoPack
\* whatever another request has learnt since does.
RequestRemembers(r) ==
  LET q == request[r] IN
  /\ \/ q.pc = "row" /\ Known(q.si, q.after)
     \/ q.pc = "again" /\ Fresh(q.si)
  /\ To(r, With([q EXCEPT !.late = @ \/ memo[q.si].late], memo[q.si].pack))
  /\ UNCHANGED <<storeVars, second, reportAt, publishing, memo, cached, notices, warm>>

RequestQueries(r) ==
  LET q == request[r] IN
  /\ \/ q.pc = "row" /\ ~Known(q.si, q.after)
     \/ q.pc = "again" /\ ~Fresh(q.si)
  /\ To(r, [q EXCEPT !.pc = "read", !.found = PackInRow(q.si), !.overtaken = {}])
  /\ UNCHANGED <<storeVars, second, reportAt, publishing, memo, cached, notices, warm>>

RequestLearns(r) ==
  LET q == request[r] IN
  /\ q.pc = "read"
  /\ memo' = IF q.found = NoPack THEN memo ELSE Remembered(q.si, q.found, q.overtaken)
  /\ To(r, With(q, q.found))
  /\ UNCHANGED <<storeVars, second, reportAt, publishing, cached, notices, warm>>

\* NoPack: what was remembered is forgotten.
EngineRefuses(r) ==
  LET q == request[r] IN
  /\ q.pc = "asks" /\ q.pack \notin cached \cup kept
  /\ To(r, [q EXCEPT !.pc = "again", !.tries = @ + 1, !.late = @ \/ q.after = second])
  /\ memo' = [memo EXCEPT ![q.si] = NoMemo]
  /\ UNCHANGED <<storeVars, second, reportAt, publishing, cached, notices, warm>>

EngineAnswers(r) ==
  LET q == request[r] IN
  /\ q.pc = "asks" /\ q.pack \in cached \cup kept
  /\ To(r, [q EXCEPT !.pc = "answered"])
  /\ cached' = cached \cup {q.pack}
  /\ UNCHANGED <<storeVars, second, reportAt, publishing, memo, notices, warm>>

RequestEnds(r) ==
  /\ request[r].pc \in {"answered", "none"}
  /\ To(r, NoRequest)
  /\ UNCHANGED <<storeVars, second, reportAt, publishing, memo, cached, notices, warm>>

\* The engine's caches and the Site's are bounded, and empty after a restart.
CacheDrops(p) ==
  /\ p \in cached
  /\ cached' = cached \ {p}
  /\ UNCHANGED <<storeVars, second, reportAt, publishing, memo, request, notices, warm>>

-----------------------------------------------------------------------------
(* startWarming: notices are worked off one after another *)

\* The pack remembered is forgotten, and the repository's row read: none points at the
\* index, or none viewed lately, or packOf is next.
WarmForgets ==
  /\ warm.pc = "idle" /\ notices # <<>>
  /\ LET si == Head(notices) IN
     /\ memo' = [memo EXCEPT ![si] = NoMemo]
     /\ warm' \in {NoWarm} \cup
          IF IdOf(served) = si THEN {[NoWarm EXCEPT !.pc = "known", !.si = si]} ELSE {}
  /\ notices' = Tail(notices)
  /\ UNCHANGED <<storeVars, second, reportAt, publishing, request, cached>>

WarmPackOf ==
  /\ warm.pc = "known"
  /\ warm' = IF Fresh(warm.si) THEN [warm EXCEPT !.pc = "asks", !.pack = memo[warm.si].pack]
             ELSE [warm EXCEPT !.pc = "read", !.pack = PackInRow(warm.si), !.overtaken = {}]
  /\ UNCHANGED <<storeVars, second, reportAt, publishing, memo, request, cached, notices>>

WarmLearns ==
  /\ warm.pc = "read"
  /\ memo' = IF warm.pack = NoPack THEN memo ELSE Remembered(warm.si, warm.pack, warm.overtaken)
  /\ warm' = IF warm.pack = NoPack THEN NoWarm ELSE [warm EXCEPT !.pc = "asks", !.overtaken = {}]
  /\ UNCHANGED <<storeVars, second, reportAt, publishing, request, cached, notices>>

WarmAsks ==
  /\ warm.pc = "asks"
  /\ cached' = cached \cup ({warm.pack} \cap kept)
  /\ warm' = NoWarm
  /\ UNCHANGED <<storeVars, second, reportAt, publishing, memo, request, notices>>

ServingNext ==
  \/ \E p \in StorePacks : Uploads(p) \/ TransactionStamps(p) \/ DeletesReplaced(p) \/ CacheDrops(p)
  \/ TransactionCommits \/ TransactionFails \/ RemovalDeletes \/ RemovalDeletesRow \/ Ticks
  \/ \E r \in Requests : \/ RequestReadsRow(r) \/ RequestRemembers(r) \/ RequestQueries(r)
                         \/ RequestLearns(r) \/ EngineRefuses(r) \/ EngineAnswers(r) \/ RequestEnds(r)
  \/ WarmForgets \/ WarmPackOf \/ WarmLearns \/ WarmAsks

ServingSpec == ServingInit /\ [][ServingNext]_servingVars

-----------------------------------------------------------------------------
(* Properties *)

\* The pack an answer was made from was the repository's at some moment of the
\* request: a pack remembered, or held by the engine after it was replaced and
\* deleted, never answers under the URL of a later Report, where a browser keeps
\* the answer for a year; unless the memory was late, learnt before that Report was
\* there and remembered in a later second than it is stamped with: of such a one, what
\* packOf says ("remembered for ten seconds unless read before `after`") is not so.  Nor
\* does it hold of a Report replaced within the second it is stamped with.  (A Report
\* being removed has lost its pack before its row.)
AnswersAreCurrent ==
  \A r \in Requests :
    request[r].pc = "answered"
      => request[r].removed \/ request[r].late \/ request[r].pack \in request[r].seen

\* A request ends without an answer only if its Report was replaced or removed while it
\* went on, or if it took a late memory: what was remembered or deleted before it began,
\* however the engine's caches came and went, costs it at most another question.
AnsweredUnlessReplaced ==
  \A r \in Requests :
    request[r].pc = "none" =>
      request[r].removed \/ request[r].late \/ \E a, b \in request[r].seen : a # b
=============================================================================
