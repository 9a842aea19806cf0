---------------------------- MODULE Publication ----------------------------
(***************************************************************************)
(* How a Build's Report becomes the one the Site serves: the export is     *)
(* loaded into Postgres as a Stored Index (or appended to the live one),   *)
(* the pack goes to R2, one transaction makes them the repository's, and   *)
(* what they replace is deleted.  Meanwhile the repository may be renamed, *)
(* its Report removed, an Atlas made, and the Builder may stop.            *)
(*                                                                         *)
(* Sources: apps/builder/src/{job,run,universe}.ts and                     *)
(* packages/server/src/{stored-index,repos,reports}.ts.                    *)
(*                                                                         *)
(* One GitHub repository under its names.  A Build of a public repository  *)
(* holds the clone of the name it read when it started, so only Builds of  *)
(* two names run side by side; one of a private repository has a clone of  *)
(* its own, which holds no other Build up.                                 *)
(* Abstracted: what an index and a pack contain, but for the head they     *)
(* were made at and whether every Mainline line is counted; the stats,     *)
(* people and counts written by the same transaction; and which of two     *)
(* rows of a repository holds the newer Report (either may).               *)
(***************************************************************************)
EXTENDS Naturals, FiniteSets

CONSTANTS
  Names,           \* names a repository has had
  Current,         \* the one GitHub gives it now
  Builds,          \* ids of Builds
  NameOf,          \* the name each Build was asked under
  MaxIndex,        \* bound: Stored Indexes ever made
  MaxHead,         \* bound: pushes
  Attempts,        \* BUILD_ATTEMPTS
  Events,          \* which of "rename", "remove", "crash", "storage" happen
  RenameMidBuild,  \* whether a rename may fall into a Build
  Private,         \* whether the repository may be private
  None             \* no name, no Build, no pack

ASSUME PublicationAssumption ==
  /\ Current \in Names
  /\ NameOf \in [Builds -> Names]
  /\ MaxIndex \in Nat \ {0}
  /\ MaxHead \in Nat
  /\ Attempts \in Nat \ {0}
  /\ RenameMidBuild \in BOOLEAN
  /\ Private \in BOOLEAN
  /\ None \notin Names \cup Builds
  /\ Names \cap Builds = {}

VARIABLES
  repos,     \* name -> its row in `repositories`
  rowOf,     \* Build -> repoId of its row in `builds`, None when deleted
  index,     \* id -> row in `stored_indexes`
  serial,    \* the last id given
  r2,        \* objects stored
  at,        \* Build -> its handler
  atlas,     \* packs whose Atlas is queued
  making,    \* packs whose Atlas a job is making
  removing,  \* names whose Report's objects are deleted, their row not yet
  tip,       \* the remote's head
  spoiled    \* history: whether a step has failed that leaves an object behind

vars == <<repos, rowOf, index, serial, r2, at, atlas, making, removing, tip, spoiled>>

Indexes == 1 .. MaxIndex
Heads == 0 .. MaxHead

\* packKey: the objects of a Build's quick and full pack are two.
Packs == [repo : Names, index : Indexes, head : Heads, build : Builds, quick : BOOLEAN]

ASSUME NoneIsNoPack == None \notin Packs

\* A pack and what is kept beside it.
Kinds == {"pack", "screens", "atlas"}
Objects == [kind : Kinds, pack : Packs]
Stored(p) == [kind |-> "pack", pack |-> p]

Repo == [there : BOOLEAN, index : 0 .. MaxIndex, report : {"none", "without", "with"}]
NoRepo == [there |-> FALSE, index |-> 0, report |-> "none"]

\* Where a clone and its cache are kept: repoDir of a name, or privateDir of a Build.
Homes == Names \cup Builds \cup {None}

Index == [there : BOOLEAN, repo : Names \cup {None}, lineage : Homes,
          head : Heads, lines : BOOLEAN, pack : Packs \cup {None}]
NoIndex == [there |-> FALSE, repo |-> None, lineage |-> None, head |-> 0,
            lines |-> FALSE, pack |-> None]

PCs == {"asked", "holding", "exported", "loaded", "uploaded", "undo", "cleanup", "over"}

\* A handler: the attempt and phase it is in, the clone and cache it holds and the
\* remote's head when it took them, the export it made (whole or appended, its head
\* and whether its Mainline's lines are all counted), the index it was loaded into,
\* its pack, the packs and indexes it replaced, and whether its Atlas is to be queued.
Handler == [pc : PCs, attempt : 1 .. Attempts, home : Homes, since : Heads,
            quick : BOOLEAN, full : BOOLEAN, head : Heads, lines : BOOLEAN,
            si : 0 .. MaxIndex, pack : Packs \cup {None},
            gone : SUBSET Packs, dropped : SUBSET Indexes, pending : BOOLEAN]

AtRest(pc, attempt, home) ==
  [pc |-> pc, attempt |-> attempt, home |-> home, since |-> 0, quick |-> FALSE,
   full |-> FALSE, head |-> 0, lines |-> FALSE, si |-> 0, pack |-> None, gone |-> {}, dropped |-> {},
   pending |-> FALSE]

TypeOK ==
  /\ repos \in [Names -> Repo]
  /\ rowOf \in [Builds -> Names \cup {None}]
  /\ index \in [Indexes -> Index]
  /\ serial \in 0 .. MaxIndex
  /\ r2 \subseteq Objects
  /\ at \in [Builds -> Handler]
  /\ atlas \subseteq Packs /\ making \subseteq Packs
  /\ removing \subseteq Names
  /\ tip \in Heads
  /\ spoiled \in BOOLEAN

Init ==
  /\ repos = [n \in Names |-> [NoRepo EXCEPT !.there = \E b \in Builds : NameOf[b] = n]]
  /\ rowOf = NameOf
  /\ index = [i \in Indexes |-> NoIndex]
  /\ serial = 0
  /\ r2 = {}
  /\ at = [b \in Builds |-> AtRest("asked", 1, None)]
  /\ atlas = {} /\ making = {} /\ removing = {}
  /\ tip = 0
  /\ spoiled = FALSE

-----------------------------------------------------------------------------
(* Helpers *)

InFlight(b) == at[b].pc \notin {"asked", "over"}

\* liveIndex: 0 when the repository points at no row.
Live(n) ==
  IF n \in Names /\ repos[n].index # 0 /\ index[repos[n].index].there
  THEN repos[n].index ELSE 0

\* What comes after the phase b is in: the full phase after the quick one.
NextPhase(b) == IF at[b].quick
                THEN [AtRest("holding", at[b].attempt, at[b].home) EXCEPT !.since = at[b].since]
                ELSE AtRest("over", at[b].attempt, None)

Without(indexes, dropped) ==
  [i \in Indexes |-> IF i \in dropped THEN NoIndex ELSE indexes[i]]

\* Mutant: the clone is let go once it has been read.
HomeFree_WhileCloning(n) == \A c \in Builds : at[c].pc = "holding" => at[c].home # n

\* holdingRepo: one handler at a time in a home, from its clone to its end.
HomeFree(n) == \A c \in Builds : InFlight(c) => at[c].home # n

\* build: a private repository's Build has a home of its own.
HomesOf(b) == {rowOf[b]} \cup (IF Private THEN {b} ELSE {})

OfRepo(n) == {i \in Indexes : index[i].there /\ index[i].repo = n}

-----------------------------------------------------------------------------
(* build() *)

Push ==
  /\ tip < MaxHead
  /\ tip' = tip + 1
  /\ UNCHANGED <<repos, rowOf, index, serial, r2, at, atlas, making, removing, spoiled>>

\* A handler reads its repository's row and holds its clone.  Whether GitHub has made
\* the repository private may change from one Build to the next.  The quick phase
\* comes first on a first attempt without a kept clone (either may be), unless the
\* Report or the live index has lines.
Start(b) ==
  /\ at[b].pc = "asked"
  /\ rowOf[b] # None
  /\ \E quick \in BOOLEAN, home \in HomesOf(b) :
       /\ HomeFree(home)
       /\ quick => /\ at[b].attempt = 1
                   /\ repos[rowOf[b]].report # "with"
                   /\ Live(rowOf[b]) # 0 => ~index[Live(rowOf[b])].lines
       /\ at' = [at EXCEPT ![b] = [AtRest("holding", @.attempt, home)
                                      EXCEPT !.quick = quick, !.since = tip]]
  /\ UNCHANGED <<repos, rowOf, index, serial, r2, atlas, making, removing, tip, spoiled>>

\* The engine's run of a clone: everything, or what is new since the live index
\* if that came from the cache kept in this home.  The quick and the full clone
\* are made side by side while it is held; the full one is brought up to the quick
\* one's refs (caughtUp), but a failure of that is let be, so either head may be
\* the older.
Export(b) ==
  LET before == Live(rowOf[b]) IN
  /\ at[b].pc = "holding"
  /\ \E head \in at[b].since .. tip, lines \in BOOLEAN, full \in BOOLEAN :
       /\ lines => ~at[b].quick
       /\ ~full => before # 0 /\ index[before].lineage = at[b].home
       /\ at' = [at EXCEPT ![b] = [@ EXCEPT
            !.pc = "exported", !.head = head, !.lines = lines, !.full = full]]
  /\ UNCHANGED <<repos, rowOf, index, serial, r2, atlas, making, removing, tip, spoiled>>

\* Mutant: the last attempt is queued again too.
TimesOut_OneMore(b) ==
  /\ at[b].pc = "holding" /\ ~at[b].quick
  /\ at' = [at EXCEPT ![b] = AtRest("asked", @.attempt + 1, None)]
  /\ UNCHANGED <<repos, rowOf, index, serial, r2, atlas, making, removing, tip, spoiled>>

\* The full phase's run of the engine is past its time limit.
TimesOut(b) ==
  /\ at[b].pc = "holding" /\ ~at[b].quick
  /\ at[b].attempt < Attempts
  /\ at' = [at EXCEPT ![b] = AtRest("asked", @.attempt + 1, None)]
  /\ UNCHANGED <<repos, rowOf, index, serial, r2, atlas, making, removing, tip, spoiled>>

\* loadExport, of everything: a new index that is not live.
LoadNew(b) ==
  LET i == serial + 1 IN
  /\ at[b].pc = "exported" /\ at[b].full
  /\ rowOf[b] # None /\ serial < MaxIndex
  /\ serial' = i
  /\ index' = [index EXCEPT ![i] =
       [there |-> TRUE, repo |-> rowOf[b], lineage |-> at[b].home, head |-> at[b].head,
        lines |-> at[b].lines, pack |-> None]]
  /\ at' = [at EXCEPT ![b] = [@ EXCEPT !.pc = "loaded", !.si = i]]
  /\ UNCHANGED <<repos, rowOf, r2, atlas, making, removing, tip, spoiled>>

\* loadExport, of what is new: into the live index, while it is served.
Append(b) ==
  LET i == Live(rowOf[b]) IN
  /\ at[b].pc = "exported" /\ ~at[b].full
  /\ i # 0 /\ index[i].lineage = at[b].home
  /\ index' = [index EXCEPT ![i] = [@ EXCEPT !.head = at[b].head, !.lines = at[b].lines]]
  /\ at' = [at EXCEPT ![b] = [@ EXCEPT !.pc = "loaded", !.si = i]]
  /\ UNCHANGED <<repos, rowOf, serial, r2, atlas, making, removing, tip, spoiled>>

\* Anything else that ends the phase unpublished: the clone, the engine, the
\* load's transaction, the upload, the transaction that publishes.
Fails(b) ==
  /\ at[b].pc \in {"holding", "exported", "loaded", "uploaded"}
  /\ at' = [at EXCEPT ![b] = NextPhase(b)]
  /\ spoiled' = (spoiled \/ at[b].pc = "uploaded")
  /\ UNCHANGED <<repos, rowOf, index, serial, r2, atlas, making, removing, tip>>

-----------------------------------------------------------------------------
(* publishBuild *)

\* The Build's repository is gone, or a quick Report finds one with lines.
Declines(b) ==
  /\ at[b].pc = "loaded"
  /\ \/ rowOf[b] = None
     \/ rowOf[b] # None /\ at[b].quick /\ repos[rowOf[b]].report = "with"
  /\ at' = [at EXCEPT ![b] = NextPhase(b)]
  /\ UNCHANGED <<repos, rowOf, index, serial, r2, atlas, making, removing, tip, spoiled>>

\* The pack, then on a full phase its Atlas and its screens, each of which may
\* fail: without its Atlas a pack is published all the same, and it is queued.
Upload(b) ==
  LET h == at[b]
      p == [repo |-> rowOf[b], index |-> h.si, head |-> h.head, build |-> b,
            quick |-> h.quick]
  IN
  /\ h.pc = "loaded" /\ rowOf[b] # None
  /\ h.quick => repos[rowOf[b]].report # "with"
  /\ \E beside \in SUBSET {"screens", "atlas"} :
       /\ h.quick => beside = {}
       /\ r2' = r2 \cup {[kind |-> k, pack |-> p] : k \in beside \cup {"pack"}}
       /\ at' = [at EXCEPT ![b] = [@ EXCEPT
            !.pc = "uploaded", !.pack = p, !.pending = ~h.quick /\ "atlas" \notin beside]]
  /\ UNCHANGED <<repos, rowOf, index, serial, atlas, making, removing, tip, spoiled>>

\* Mutant: the repository's every Stored Index is dropped.
Others_All(b) == OfRepo(rowOf[b])

\* makeLive: the repository's Stored Indexes that the new one replaces.
Others(b) == OfRepo(rowOf[b]) \ {at[b].si}

\* Mutant: the pack of an index that was appended to is forgotten.
ReplacedPacks_Dropped(b) == {index[i].pack : i \in Others(b)} \ {None}

\* Their packs, and the one the Build's own index had.
ReplacedPacks(b) == {index[i].pack : i \in Others(b) \cup {at[b].si}} \ {None, at[b].pack}

\* The transaction: the pack on the Stored Index, the index made live and the
\* repository's others dropped (makeLive), the Report's meta.
Commit(b) ==
  LET h == at[b]
      n == rowOf[b]
  IN
  /\ h.pc = "uploaded" /\ n # None
  /\ index' = [Without(index, Others(b)) EXCEPT
       ![h.si].pack = IF index[h.si].there THEN h.pack ELSE @]
  /\ repos' = [repos EXCEPT ![n] = [@ EXCEPT
       !.index = h.si,
       !.report = IF ~h.quick /\ h.lines THEN "with" ELSE "without"]]
  /\ at' = [at EXCEPT ![b] = [@ EXCEPT
       !.pc = "cleanup", !.dropped = Others(b), !.gone = ReplacedPacks(b)]]
  /\ UNCHANGED <<rowOf, serial, r2, atlas, making, removing, tip, spoiled>>

\* Mutant: what was uploaded stays.
CommitFindsNone_Leaves(b) ==
  /\ at[b].pc = "uploaded" /\ rowOf[b] = None
  /\ at' = [at EXCEPT ![b] = NextPhase(b)]
  /\ UNCHANGED <<repos, rowOf, index, serial, r2, atlas, making, removing, tip, spoiled>>

\* The transaction finds no repository: what was uploaded is taken back.
CommitFindsNone(b) ==
  /\ at[b].pc = "uploaded" /\ rowOf[b] = None
  /\ at' = [at EXCEPT ![b] = [@ EXCEPT !.pc = "undo", !.gone = {at[b].pack}]]
  /\ UNCHANGED <<repos, rowOf, index, serial, r2, atlas, making, removing, tip, spoiled>>

\* Mutant: the folder of the pack's index is deleted, not the pack.
Replaced_Folder(b) == {o \in r2 : \E p \in at[b].gone : o.pack.index = p.index}

\* The packs with what is beside them, and every Atlas of the dropped indexes.
Replaced(b) == {o \in r2 : \/ o.pack \in at[b].gone
                           \/ o.kind = "atlas" /\ o.pack.index \in at[b].dropped}

\* Once the transaction has committed, what it replaced is deleted, and the
\* Atlas that is missing queued.  A deletion that fails is let be.
Cleanup(b) ==
  /\ at[b].pc \in {"cleanup", "undo"}
  /\ \E lost \in SUBSET Replaced(b) :
       /\ lost # {} => "storage" \in Events
       /\ r2' = r2 \ (Replaced(b) \ lost)
       /\ spoiled' = (spoiled \/ lost # {})
  /\ atlas' = IF at[b].pc = "cleanup" /\ at[b].pending THEN atlas \cup {at[b].pack} ELSE atlas
  /\ at' = [at EXCEPT ![b] = NextPhase(b)]
  /\ UNCHANGED <<repos, rowOf, index, serial, making, removing, tip>>

-----------------------------------------------------------------------------
(* atlasJob *)

IsLive(p) == \E n \in Names : /\ repos[n].there /\ repos[n].index = p.index
                              /\ index[p.index].there /\ index[p.index].pack = p

\* The job looks whether the pack is still the repository's, and there.
AtlasLooks(p) ==
  /\ p \in atlas
  /\ atlas' = atlas \ {p}
  /\ making' = IF IsLive(p) /\ Stored(p) \in r2 THEN making \cup {p} ELSE making
  /\ UNCHANGED <<repos, rowOf, index, serial, r2, at, removing, tip, spoiled>>

AtlasStored(p) ==
  /\ p \in making
  /\ making' = making \ {p}
  /\ r2' = r2 \cup {[kind |-> "atlas", pack |-> p]}
  /\ UNCHANGED <<repos, rowOf, index, serial, at, atlas, removing, tip, spoiled>>

-----------------------------------------------------------------------------
\* Whether rows of `stored_indexes` are deleted while their packs are stored.
LeavesBehind(indexes) == \E o \in r2, i \in indexes : o.kind # "atlas" /\ o.pack = index[i].pack

-----------------------------------------------------------------------------
(* settleRepository: one row for the repository, under its current name *)

Settle ==
  LET members == {n \in Names : repos[n].there}
      holders == {n \in members : repos[n].report # "none"}
      earlier == members \ {Current}
  IN
  /\ "rename" \in Events
  /\ earlier # {}
  /\ RenameMidBuild \/ \A b \in Builds : ~InFlight(b)
  \* the newest Report's row, else the current name's, else none
  /\ \E from \in IF holders # {} THEN holders ELSE (members \cap {Current}) \cup
                   (IF Current \in members THEN {} ELSE {None}) :
       LET dropped == {i \in Indexes : index[i].there /\ index[i].repo # from}
           base == IF from # None THEN repos[from] ELSE NoRepo
       IN
       /\ repos' = [n \in Names |->
                      IF n = Current THEN [base EXCEPT !.there = TRUE] ELSE NoRepo]
       /\ index' = [i \in Indexes |->
                      IF i \in dropped THEN NoIndex
                      ELSE IF index[i].there THEN [index[i] EXCEPT !.repo = Current]
                      ELSE index[i]]
       /\ spoiled' = (spoiled \/ LeavesBehind(dropped))
  /\ rowOf' = [b \in Builds |-> IF rowOf[b] = None THEN None ELSE Current]
  /\ UNCHANGED <<serial, r2, at, atlas, making, removing, tip>>

-----------------------------------------------------------------------------
(* removeReports: the App uninstalled, a repository deleted, thirty days *)

\* The Atlases and packs of the repository's indexes are deleted...
RemoveObjects(n) ==
  /\ "remove" \in Events
  /\ repos[n].there /\ n \notin removing
  /\ r2' = {o \in r2 :
       ~ \/ o.kind = "atlas" /\ o.pack.index \in OfRepo(n) \cup {repos[n].index}
         \/ \E i \in OfRepo(n) : o.kind = "pack" /\ o.pack = index[i].pack}
  /\ removing' = removing \cup {n}
  /\ UNCHANGED <<repos, rowOf, index, serial, at, atlas, making, tip, spoiled>>

\* ... then its row, with the Builds and indexes that belong to it.
RemoveRow(n) ==
  /\ n \in removing
  /\ removing' = removing \ {n}
  /\ repos' = [repos EXCEPT ![n] = NoRepo]
  /\ index' = Without(index, OfRepo(n))
  /\ rowOf' = [b \in Builds |-> IF rowOf[b] = n THEN None ELSE rowOf[b]]
  /\ spoiled' = (spoiled \/ LeavesBehind(OfRepo(n)))
  /\ UNCHANGED <<serial, r2, at, atlas, making, tip>>

-----------------------------------------------------------------------------
\* The Builder stops with its handlers: the reaper fails their Builds.  A job
\* making an Atlas is sent again.
Crash ==
  /\ "crash" \in Events
  /\ \E b \in Builds : InFlight(b)
  /\ at' = [b \in Builds |-> IF InFlight(b) THEN AtRest("over", at[b].attempt, None) ELSE at[b]]
  /\ atlas' = atlas \cup making
  /\ making' = {}
  /\ spoiled' = (spoiled \/ \E b \in Builds : at[b].pc \in {"uploaded", "undo", "cleanup"})
  /\ UNCHANGED <<repos, rowOf, index, serial, r2, removing, tip>>

Work(b) ==
  \/ Start(b) \/ Export(b) \/ TimesOut(b) \/ LoadNew(b) \/ Append(b) \/ Fails(b)
  \/ Declines(b) \/ Upload(b) \/ Commit(b) \/ CommitFindsNone(b) \/ Cleanup(b)

Next ==
  \/ \E b \in Builds : Work(b)
  \/ \E p \in atlas : AtlasLooks(p)
  \/ \E p \in making : AtlasStored(p)
  \/ \E n \in Names : RemoveObjects(n) \/ RemoveRow(n)
  \/ Push \/ Settle \/ Crash

Spec == Init /\ [][Next]_vars

-----------------------------------------------------------------------------
(* What must hold *)

\* A pack the Site may be sent to is in R2: it is uploaded before the
\* transaction that names it and deleted after the one that forgets it, through
\* crashes, failed steps, renames and Builds side by side.  (While a Report is
\* removed its objects go first.)
PackIsThere ==
  \A n \in Names \ removing :
    LET i == Live(n) IN i # 0 /\ index[i].pack # None => Stored(index[i].pack) \in r2

\* A public repository with a Report points at a Stored Index that is there, is its own
\* and has a pack: publishBuild and makeLive.  (Two Builds of a private one may overlap,
\* and the first to publish drops the index the other is loading.)
ReportHasIndex ==
  \A n \in Names : repos[n].report # "none" =>
    LET i == Live(n) IN i # 0 /\ index[i].repo = n /\ index[i].pack # None

\* Builds of a public repository's one name wait for each other from the head they
\* clone to the Report they publish, so a Report is never replaced by one of an
\* older head.  But a Build may take back its own quick Report: its full clone may
\* be the older of its two when it could not be caught up.
NeverBack ==
  [][\A b \in Builds : at[b].pc = "uploaded" /\ at'[b].pc = "cleanup" =>
       LET i == Live(rowOf[b]) IN
       i # 0 /\ index[i].pack # None =>
         index[i].pack.build = b \/ at[b].pack.head >= index[i].pack.head]_vars

\* With every handler at rest and no step failed half way, R2 holds the packs of a
\* public repository that are served with their screens, and no others.  (An Atlas may
\* outlive its pack: atlasJob looks whether the pack is live before it makes it.)
NothingLeaks ==
  (\A b \in Builds : ~InFlight(b)) /\ ~spoiled
    => \A o \in r2 : o.kind # "atlas" => IsLive(o.pack)

\* publishBuild: "A quick one never replaces one with lines".  It looks before its upload
\* and not in its transaction, so this rests on the clone a public repository's Builds
\* wait for.
QuickKeepsLines ==
  [][\A b \in Builds :
       at[b].quick /\ at[b].pc = "uploaded" /\ at'[b].pc = "cleanup"
         => repos[rowOf[b]].report # "with"]_vars

\* To the Site a repository is a ReportStore: the pack of the index its row points
\* at, and the packs in R2.
Store(n) == INSTANCE ReportStore WITH
  StorePacks <- Packs, NoPack <- None,
  served <- IF Live(n) = 0 THEN None ELSE index[Live(n)].pack,
  kept <- {o.pack : o \in {x \in r2 : x.kind = "pack"}},
  going <- n \in removing

\* What this module does to R2 and the rows, with its crashes, failed steps, renames
\* and removals, is to the Site only what a ReportStore does.
ImplementsStore ==
  /\ \A n \in Names : Store(n)!StoreInit
  /\ [][\A n \in Names : Store(n)!StoreNext \/ UNCHANGED Store(n)!storeVars]_vars
=============================================================================
