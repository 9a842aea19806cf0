---------------------------- MODULE EnginePacks ----------------------------
(***************************************************************************)
(* The packs of the engine service: many ask for the same few at once, one *)
(* loads while the others wait, the file is fetched, unpacked and opened,  *)
(* and others are deleted from the disk to make room.                      *)
(*                                                                         *)
(* Sources: apps/engine/src/packs.rs (get, load, fetch, forget), lru.rs    *)
(* (SizedLru), and crates/commitscape-report/src/pack.rs (unpack).         *)
(*                                                                         *)
(* Left out: the screens beside a pack; sizes, every file being as large   *)
(* as another; which of the others goes first; and what an earlier run     *)
(* left on the disk.  R2 may refuse, or have no such pack; a pack may be   *)
(* of this format or an older one.  A load runs in a task of its own, so   *)
(* it is not dropped when nobody waits for it any more (routes.rs).        *)
(***************************************************************************)
EXTENDS FiniteSets, Naturals

CONSTANTS
  EngineKeys,   \* packs
  Askers,       \* asks under way at once
  DiskFiles     \* how many files fit on the disk

ASSUME EnginePacksAssumption ==
  IsFiniteSet(Askers) /\ DiskFiles \in Nat \ {0}

VARIABLES
  onDisk,   \* the files in the folder
  used,     \* the names in the disk's SizedLru
  memory,   \* packs decoded in memory
  loading,  \* pack -> the cell those who ask for it wait on
  filled,   \* cells whose pack was loaded
  asker     \* asker -> where it is, with what it has still to delete

engineVars == <<onDisk, used, memory, loading, filled, asker>>

File == [key : EngineKeys, unpacked : BOOLEAN]
Pack(k) == [key |-> k, unpacked |-> FALSE]
Unpacked(k) == [key |-> k, unpacked |-> TRUE]

\* One for each asker is enough; 0 is none.
Cells == 1 .. Cardinality(Askers)

LoadSteps == {"fetches", "counts", "clears", "unpacks", "writes", "keeps", "drops", "clearsAll",
            "opens", "forgets", "removes"}
NotAsking == [pc |-> "idle"]
Asking ==
  [pc : {"asks", "waits", "fails", "returns"} \cup LoadSteps,
   key : EngineKeys, cell : Cells \cup {0}, gone : SUBSET File]

EngineTypeOK ==
  /\ onDisk \subseteq File
  /\ used \subseteq File /\ Cardinality(used) <= DiskFiles
  /\ memory \subseteq EngineKeys
  /\ loading \in [EngineKeys -> Cells \cup {0}]
  /\ filled \subseteq Cells
  /\ asker \in [Askers -> Asking \cup {NotAsking}]

EngineInit ==
  /\ onDisk = {} /\ used = {} /\ memory = {}
  /\ loading = [k \in EngineKeys |-> 0] /\ filled = {}
  /\ asker = [a \in Askers |-> NotAsking]

-----------------------------------------------------------------------------
(* SizedLru *)

\* Mutant: nothing goes to make room.
Inserts_Always(lru, f) == used' = lru \cup {f}
\* insert: others go until the rest fit, but never the one that came.
Inserts(lru, f) ==
  /\ used' \in SUBSET (lru \cup {f}) /\ f \in used'
  /\ Cardinality(used') <= DiskFiles
  /\ Cardinality(lru \cup {f}) <= DiskFiles => used' = lru \cup {f}

-----------------------------------------------------------------------------
(* get *)

IsAt(a, pc) == asker[a].pc = pc
Goes(a, pc) == asker' = [asker EXCEPT ![a].pc = pc]

\* A pack decoded in memory is answered from at once.
AsksFor(a, k) ==
  /\ IsAt(a, "idle")
  /\ k \notin memory
  /\ asker' = [asker EXCEPT ![a] = [pc |-> "asks", key |-> k, cell |-> 0, gone |-> {}]]
  /\ UNCHANGED <<onDisk, used, memory, loading, filled>>

InUse(askers) == {asker[a].cell : a \in {b \in askers : asker[b].pc # "idle"}}

\* The cell of the pack, or a new one.
JoinsCell(a) ==
  LET k == asker[a].key IN
  /\ IsAt(a, "asks")
  /\ \E cell \in Cells :
       /\ IF loading[k] # 0 THEN cell = loading[k] ELSE cell \notin InUse(Askers)
       /\ loading' = [loading EXCEPT ![k] = cell]
       /\ asker' = [asker EXCEPT ![a].pc = "waits", ![a].cell = cell]
  /\ UNCHANGED <<onDisk, used, memory, filled>>

IsLoading(a) == asker[a].pc \in LoadSteps

\* Mutant: the cell of a load that failed stays.
Leaves_Cell(a) == loading' = IF IsAt(a, "fails") THEN loading ELSE [loading EXCEPT ![asker[a].key] = 0]
\* Its cell is taken out, if it is still the pack's.
Leaves(a) ==
  loading' = IF loading[asker[a].key] = asker[a].cell
             THEN [loading EXCEPT ![asker[a].key] = 0] ELSE loading

GetReturns(a) ==
  /\ asker[a].pc \in {"fails", "returns"}
  /\ Leaves(a)
  /\ asker' = [asker EXCEPT ![a] = NotAsking]
  /\ filled' = filled \cap InUse(Askers \ {a})
  /\ UNCHANGED <<onDisk, used, memory>>

\* get_or_try_init: the cell is filled, or nobody is filling it any more.
WaitIsOver(a) ==
  /\ IsAt(a, "waits") /\ asker[a].cell \in filled
  /\ Goes(a, "returns")
  /\ UNCHANGED <<onDisk, used, memory, loading, filled>>

-----------------------------------------------------------------------------
(* load *)

\* A file counts only while it is there, too.
IsKept(f) == f \in used /\ f \in onDisk

LoadBegins(a) ==
  LET k == asker[a].key IN
  /\ IsAt(a, "waits") /\ asker[a].cell \notin filled
  /\ \A b \in Askers : IsLoading(b) => asker[b].cell # asker[a].cell
  /\ \/ /\ k \in memory /\ Goes(a, "returns")
        /\ filled' = filled \cup {asker[a].cell}
     \/ /\ k \notin memory /\ UNCHANGED filled
        /\ Goes(a, IF IsKept(Unpacked(k)) THEN "opens" ELSE IF IsKept(Pack(k)) THEN "unpacks" ELSE "fetches")
  /\ UNCHANGED <<onDisk, used, memory, loading>>

\* fetch: the file is there before it is counted; or R2 has none, or does not answer.
FetchEnds(a) ==
  /\ IsAt(a, "fetches")
  /\ \/ onDisk' = onDisk \cup {Pack(asker[a].key)} /\ Goes(a, "counts")
     \/ Goes(a, "fails") /\ UNCHANGED onDisk
  /\ UNCHANGED <<used, memory, loading, filled>>

CountsFile(a, lru, f, next) ==
  /\ Inserts(lru, f)
  /\ asker' = [asker EXCEPT ![a].pc = next, ![a].gone = lru \ used']

FetchIsCounted(a) ==
  /\ IsAt(a, "counts")
  /\ CountsFile(a, used, Pack(asker[a].key), "clears")
  /\ UNCHANGED <<onDisk, memory, loading, filled>>

\* Mutant: what had to go is left where it is.
Clears_Nothing(a) ==
  /\ asker[a].pc \in {"clears", "clearsAll"}
  /\ Goes(a, IF IsAt(a, "clears") THEN "unpacks" ELSE "opens")
  /\ UNCHANGED <<onDisk, used, memory, loading, filled>>
\* What had to go is deleted, one file after the other, after the lock is let go.
Clears(a) ==
  /\ asker[a].pc \in {"clears", "clearsAll"}
  /\ \/ \E f \in asker[a].gone :
          /\ onDisk' = onDisk \ {f}
          /\ asker' = [asker EXCEPT ![a].gone = @ \ {f}]
     \/ /\ asker[a].gone = {} /\ UNCHANGED onDisk
        /\ Goes(a, IF IsAt(a, "clears") THEN "unpacks" ELSE "opens")
  /\ UNCHANGED <<used, memory, loading, filled>>

\* The pack is in memory, and the cell is filled.
Answers(a) ==
  /\ memory' = memory \cup {asker[a].key} /\ filled' = filled \cup {asker[a].cell}
  /\ Goes(a, "returns")

\* forget: the name first, then its file.
Forgets(a, f) == asker' = [asker EXCEPT ![a].pc = "forgets", ![a].gone = {f}]

\* unpack: the file is opened, then written out as a .part; or it is no pack, or gone again.
UnpackBegins(a) ==
  /\ IsAt(a, "unpacks")
  /\ \/ Pack(asker[a].key) \in onDisk /\ Goes(a, "writes")
     \/ Forgets(a, Pack(asker[a].key))
  /\ UNCHANGED <<onDisk, used, memory, loading, filled>>

\* The .part is renamed; or the disk is full, or another who unpacks the pack has renamed it.
UnpackEnds(a) ==
  /\ IsAt(a, "writes")
  /\ \/ onDisk' = onDisk \cup {Unpacked(asker[a].key)} /\ Goes(a, "keeps")
     \/ Forgets(a, Pack(asker[a].key)) /\ UNCHANGED onDisk
  /\ UNCHANGED <<used, memory, loading, filled>>

\* A pack of an older format is read whole.
DecodesWhole(a) ==
  /\ IsAt(a, "unpacks") /\ Pack(asker[a].key) \in onDisk
  /\ Answers(a)
  /\ UNCHANGED <<onDisk, used, loading>>

\* The work panics, or the service stops: nothing is forgotten.
WorkFails(a) ==
  /\ asker[a].pc \in {"unpacks", "writes", "opens"}
  /\ Goes(a, "fails")
  /\ UNCHANGED <<onDisk, used, memory, loading, filled>>

UnpackIsCounted(a) ==
  LET k == asker[a].key IN
  /\ IsAt(a, "keeps")
  /\ CountsFile(a, used \ {Pack(k)}, Unpacked(k), "drops")
  /\ UNCHANGED <<onDisk, memory, loading, filled>>

DropsPack(a) ==
  /\ IsAt(a, "drops")
  /\ onDisk' = onDisk \ {Pack(asker[a].key)}
  /\ Goes(a, "clearsAll")
  /\ UNCHANGED <<used, memory, loading, filled>>

\* open_unpacked; or the file is gone, or not whole, another having begun its .part anew.
Opens(a) ==
  LET k == asker[a].key IN
  /\ IsAt(a, "opens")
  /\ \/ Unpacked(k) \in onDisk /\ Answers(a)
     \/ Forgets(a, Unpacked(k)) /\ UNCHANGED <<memory, filled>>
  /\ UNCHANGED <<onDisk, used, loading>>

ForgetsName(a) ==
  /\ IsAt(a, "forgets")
  /\ used' = used \ asker[a].gone
  /\ Goes(a, "removes")
  /\ UNCHANGED <<onDisk, memory, loading, filled>>

RemovesFile(a) ==
  /\ IsAt(a, "removes")
  /\ onDisk' = onDisk \ asker[a].gone
  /\ asker' = [asker EXCEPT ![a].pc = "fails", ![a].gone = {}]
  /\ UNCHANGED <<used, memory, loading, filled>>

\* Others take its place.
MemoryLetsGo ==
  /\ \E k \in memory : memory' = memory \ {k}
  /\ UNCHANGED <<onDisk, used, loading, filled, asker>>

EngineNext ==
  \/ \E a \in Askers :
       \/ \E k \in EngineKeys : AsksFor(a, k)
       \/ JoinsCell(a) \/ WaitIsOver(a) \/ LoadBegins(a)
       \/ FetchEnds(a) \/ FetchIsCounted(a) \/ Clears(a)
       \/ UnpackBegins(a) \/ UnpackEnds(a) \/ UnpackIsCounted(a) \/ DropsPack(a)
       \/ DecodesWhole(a) \/ WorkFails(a)
       \/ Opens(a) \/ ForgetsName(a) \/ RemovesFile(a) \/ GetReturns(a)
  \/ MemoryLetsGo

EngineSpec == EngineInit /\ [][EngineNext]_engineVars

-----------------------------------------------------------------------------
(* Properties *)

\* Whatever loads there were, of whichever packs, at once or one after the other, ended well
\* or not: once none is under way, every file is one the disk's budget counts.
FilesAreCounted ==
  (\A a \in Askers : ~IsLoading(a)) => onDisk \subseteq used

\* A pack's cell is taken out by the first of those on it to return, so one still there is of
\* somebody who asks: the next to ask does not wait on a load that failed long ago, nor is the
\* cell kept for a pack that nobody asks for again.
NoCellIsLeft ==
  \A k \in EngineKeys : loading[k] # 0 =>
    \E a \in Askers : asker[a].pc # "idle" /\ asker[a].key = k /\ asker[a].cell = loading[k]

\* "A pack decoded, from memory, from disk, or fetched once however many ask for it at the
\* same time" (packs.rs).
LoadedOnce ==
  \A a, b \in Askers : a # b /\ IsLoading(a) /\ IsLoading(b) => asker[a].key # asker[b].key
=============================================================================
