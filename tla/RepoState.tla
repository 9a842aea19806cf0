----------------------------- MODULE RepoState -----------------------------
(***************************************************************************)
(* The Repo State of one public repository: its engine cache on the        *)
(* Builder's disk, kept in R2 as chunks named by their content and a       *)
(* manifest that names them, saved after a Build or a count, restored      *)
(* before a Build when the disk holds none, and forgotten when no Build    *)
(* has used it for 180 days.                                               *)
(*                                                                         *)
(* Sources: apps/builder/src/state.ts, with the jobs of run.ts and         *)
(* survival.ts that hold the repository while they restore and save, and   *)
(* prune and tidy (disk.ts, main.ts), which delete beside them.            *)
(*                                                                         *)
(* A restore is started and not awaited: the clones go on beside it, and   *)
(* only what follows a clone that came waits for it.  A Build whose clones *)
(* fail gives its repository back while its restore still writes; a run    *)
(* says with RestoreMayOutlive whether that may happen.                    *)
(***************************************************************************)
EXTENDS Naturals, Sequences

CONSTANTS
  StateJobs,          \* Builds and counts of the repository
  NoJob,              \* nobody
  Nothing,            \* no folder, no manifest
  Chunks,             \* what a file of a cache is cut into
  CacheFiles,         \* how many files a cache has
  Caches,             \* the caches the engine may leave on the disk
  StateRounds,        \* bound: jobs that begin
  RestoreMayOutlive,  \* a Build's clones may fail while it restores
  CacheMayOutlast,    \* a State may be forgotten whose cache is on the disk
  ForgetBeside        \* a Build may begin while its State is forgotten

Files == [1 .. CacheFiles -> Seq(Chunks)]

ASSUME StateAssumption ==
  /\ NoJob \notin StateJobs
  /\ Nothing \notin Files \cup [files : Files, local : Files \cup {Nothing}]
  /\ CacheFiles \in Nat \ {0} /\ StateRounds \in Nat
  /\ Caches \subseteq Files
  /\ {RestoreMayOutlive, CacheMayOutlast, ForgetBeside} \subseteq BOOLEAN

VARIABLES
  disk,      \* the cache folder: its files, and the manifest kept beside them
  into,      \* the folder a restore fills, beside it
  stored,    \* the chunks R2 holds
  missed,    \* history: those whose upload failed and was not noticed, and not stored since
  manifest,  \* the manifest R2 holds
  row,       \* the State's row: none, or used lately or long ago
  holder,    \* the job that holds the repository
  phase,     \* where that job is
  save,      \* what saveState has read, and what it has still to upload
  restore,   \* job -> where its restoreState is
  forget,    \* where forgetStates is
  rounds

stateVars == <<disk, into, stored, missed, manifest, row, holder, phase, save, restore, forget, rounds>>

EmptyFiles == [f \in 1 .. CacheFiles |-> <<>>]
Folder(files, local) == [files |-> files, local |-> local]
ChunksOf(files) == IF files = Nothing THEN {}
                   ELSE UNION {{files[f][i] : i \in DOMAIN files[f]} : f \in 1 .. CacheFiles}

\* hasCache; a folder that is empty, as cacheFor leaves it, has none.
hasCache(folder) == folder # Nothing /\ folder.files # EmptyFiles

\* The manifest on disk, as readLocal finds it.
readLocal(folder) == IF folder = Nothing THEN Nothing ELSE folder.local

Places(files) == UNION {{<<f, i>> : i \in DOMAIN files[f]} : f \in 1 .. CacheFiles}
Idle == [pc |-> "idle", names |-> Nothing, file |-> 1, done |-> 0, got |-> {}, handle |-> "none"]
NoSave == [before |-> {}, names |-> Nothing, left |-> {}]

StateTypeOK ==
  LET folders == {Nothing} \cup [files : Files, local : Files \cup {Nothing}] IN
  /\ disk \in folders /\ into \in folders
  /\ stored \subseteq Chunks /\ missed \subseteq Chunks
  /\ manifest \in Files \cup {Nothing}
  /\ row \in {"none", "fresh", "old"}
  /\ holder \in StateJobs \cup {NoJob}
  /\ phase \in {"free", "clones", "made", "uploads", "keeps", "deletes", "marks"}
  /\ save \in [before : SUBSET Chunks, names : Files \cup {Nothing}, left : SUBSET Chunks]
  /\ restore \in [StateJobs ->
       [pc : {"idle", "looks", "asks", "prepares", "fills", "lists", "removes", "renames", "touches"},
        names : Files \cup {Nothing}, file : 1 .. CacheFiles + 1, done : Nat,
        got : SUBSET ((1 .. CacheFiles) \X Nat), handle : {"none", "into", "disk", "gone"}]]
  /\ forget \in {"idle", "listed", "deleted"}
  /\ rounds \in Nat

StateInit ==
  /\ disk = Nothing /\ into = Nothing
  /\ stored = {} /\ missed = {} /\ manifest = Nothing /\ row = "none"
  /\ holder = NoJob /\ phase = "free" /\ save = NoSave
  /\ restore = [j \in StateJobs |-> Idle]
  /\ forget = "idle" /\ rounds = 0

-----------------------------------------------------------------------------
(* A job that holds the repository *)

Release == holder' = NoJob /\ phase' = "free" /\ save' = NoSave

\* A Build asks for its restore at once; a count of Surviving Lines has none.
StateJobStarts(j) ==
  /\ holder = NoJob /\ rounds < StateRounds
  /\ restore[j].pc = "idle"
  /\ forget = "idle" \/ ForgetBeside
  /\ holder' = j /\ phase' = "clones" /\ rounds' = rounds + 1
  /\ \E pc \in {"looks", "idle"} : restore' = [restore EXCEPT ![j].pc = pc]
  /\ UNCHANGED <<disk, into, stored, missed, manifest, row, save, forget>>

\* The engine, after a clone that came and (accountsFrom) after the restore.
\* Mutant: the restore is not awaited.
EngineRuns_NoWait(j) ==
  /\ holder = j /\ phase = "clones"
  /\ \E files \in Caches : disk' = Folder(files, readLocal(disk))
  /\ phase' = "made"
  /\ UNCHANGED <<into, stored, missed, manifest, row, holder, save, restore, forget, rounds>>
EngineRuns(j) ==
  /\ holder = j /\ phase = "clones" /\ restore[j].pc = "idle"
  /\ \E files \in Caches : disk' = Folder(files, readLocal(disk))
  /\ phase' = "made"
  /\ UNCHANGED <<into, stored, missed, manifest, row, holder, save, restore, forget, rounds>>

\* The clones fail, beside a restore or after it, or the engine does: nothing is saved.
GivesUp(j) ==
  /\ holder = j /\ phase \in {"clones", "made"}
  /\ restore[j].pc = "idle" \/ RestoreMayOutlive
  /\ Release
  /\ UNCHANGED <<disk, into, stored, missed, manifest, row, restore, forget, rounds>>

-----------------------------------------------------------------------------
(* saveState *)

\* Only chunks the manifest on disk does not name are uploaded.
SaveReads(j) ==
  /\ holder = j /\ phase = "made"
  /\ LET before == ChunksOf(readLocal(disk))
         names == IF disk = Nothing THEN EmptyFiles ELSE disk.files IN
     save' = [before |-> before, names |-> names, left |-> ChunksOf(names) \ before]
  /\ phase' = "uploads"
  /\ UNCHANGED <<disk, into, stored, missed, manifest, row, holder, restore, forget, rounds>>

SaveUploads(j, c) ==
  /\ holder = j /\ phase = "uploads" /\ c \in save.left
  /\ stored' = stored \cup {c} /\ missed' = missed \ {c}
  /\ save' = [save EXCEPT !.left = @ \ {c}]
  /\ UNCHANGED <<disk, into, manifest, row, holder, phase, restore, forget, rounds>>

\* An upload that fails while nothing awaits it (the next file is being read) is gone from
\* `uploading` when the rest are awaited, and its failure with it.
SaveMisses(j, c) ==
  /\ holder = j /\ phase = "uploads" /\ c \in save.left
  /\ missed' = missed \cup ({c} \ stored)
  /\ save' = [save EXCEPT !.left = @ \ {c}]
  /\ UNCHANGED <<disk, into, stored, manifest, row, holder, phase, restore, forget, rounds>>

\* Mutant: the manifest does not wait for the uploads.
SavePutsManifest_Early(j) ==
  /\ holder = j /\ phase = "uploads"
  /\ manifest' = save.names
  /\ phase' = "keeps"
  /\ UNCHANGED <<disk, into, stored, missed, row, holder, save, restore, forget, rounds>>
SavePutsManifest(j) ==
  /\ holder = j /\ phase = "uploads" /\ save.left = {}
  /\ manifest' = save.names
  /\ phase' = "keeps"
  /\ UNCHANGED <<disk, into, stored, missed, row, holder, save, restore, forget, rounds>>

SaveKeepsLocal(j) ==
  /\ holder = j /\ phase = "keeps" /\ disk # Nothing
  /\ disk' = [disk EXCEPT !.local = save.names]
  /\ phase' = "deletes"
  /\ UNCHANGED <<into, stored, missed, manifest, row, holder, save, restore, forget, rounds>>

\* A delete that fails is let be.
\* Mutant: what the new manifest still names goes too.
SaveDeletesStale_All(j) ==
  /\ holder = j /\ phase = "deletes"
  /\ stored' \in {stored, stored \ save.before}
  /\ phase' = "marks"
  /\ UNCHANGED <<disk, into, missed, manifest, row, holder, save, restore, forget, rounds>>
SaveDeletesStale(j) ==
  /\ holder = j /\ phase = "deletes"
  /\ stored' \in {stored, stored \ (save.before \ ChunksOf(save.names))}
  /\ phase' = "marks"
  /\ UNCHANGED <<disk, into, missed, manifest, row, holder, save, restore, forget, rounds>>

SaveMarksRow(j) ==
  /\ holder = j /\ phase = "marks"
  /\ row' = "fresh"
  /\ Release
  /\ UNCHANGED <<disk, into, stored, missed, manifest, restore, forget, rounds>>

\* R2, the disk or the database fails a step that is awaited; the job goes on without.
SaveFails(j) ==
  /\ holder = j /\ phase \in {"uploads", "keeps", "marks"}
  /\ Release
  /\ UNCHANGED <<disk, into, stored, missed, manifest, row, restore, forget, rounds>>

-----------------------------------------------------------------------------
(* restoreState *)

At(j, pc) == restore[j].pc = pc
Now(j, pc) == [restore EXCEPT ![j].pc = pc]

\* A folder that is deleted or moved takes the files open in it along.
Opened(r, from, to) ==
  [j \in StateJobs |-> [r[j] EXCEPT !.handle = IF @ = from THEN to ELSE @]]

RestoreLooks(j) ==
  /\ At(j, "looks")
  /\ restore' = Now(j, IF hasCache(disk) THEN "idle" ELSE "asks")
  /\ UNCHANGED <<disk, into, stored, missed, manifest, row, holder, phase, save, forget, rounds>>

RestoreAsks(j) ==
  /\ At(j, "asks")
  /\ \/ restore' = Now(j, "idle")           \* there is none, or R2 does not answer
     \/ /\ manifest # Nothing
        /\ restore' = [restore EXCEPT ![j].pc = "prepares", ![j].names = manifest]
  /\ UNCHANGED <<disk, into, stored, missed, manifest, row, holder, phase, save, forget, rounds>>

\* What an earlier restore left goes, and each file is made empty.
\* Mutant: what an earlier restore left stays.
RestorePrepares_Kept(j) ==
  /\ At(j, "prepares")
  /\ into' = IF into = Nothing THEN Folder(EmptyFiles, Nothing) ELSE into
  /\ restore' = Now(j, "fills")
  /\ UNCHANGED <<disk, stored, missed, manifest, row, holder, phase, save, forget, rounds>>
RestorePrepares(j) ==
  /\ At(j, "prepares")
  /\ into' = Folder(EmptyFiles, Nothing)
  /\ restore' = Opened(Now(j, "fills"), "into", "gone")
  /\ UNCHANGED <<disk, stored, missed, manifest, row, holder, phase, save, forget, rounds>>

\* inOrder: chunks are asked for ahead of the one that is written.
RestoreGets(j, place) ==
  /\ At(j, "fills") /\ place \in Places(restore[j].names) \ restore[j].got
  /\ restore[j].names[place[1]][place[2]] \in stored
  /\ restore' = [restore EXCEPT ![j].got = @ \cup {place}]
  /\ UNCHANGED <<disk, into, stored, missed, manifest, row, holder, phase, save, forget, rounds>>

\* A file is opened at its first chunk; what is open is written wherever it is now.
RestoreWrites(j) ==
  LET r == restore[j]
      handle == IF r.handle = "none" THEN "into" ELSE r.handle
      chunk == r.names[r.file][r.done + 1]
      longer(folder) == [folder EXCEPT !.files[r.file] = Append(@, chunk)] IN
  /\ r.pc = "fills" /\ r.file <= CacheFiles /\ r.done < Len(r.names[r.file])
  /\ <<r.file, r.done + 1>> \in r.got
  /\ r.handle = "none" => into # Nothing
  /\ restore' = [restore EXCEPT ![j].done = @ + 1, ![j].handle = handle]
  /\ into' = IF handle = "into" THEN longer(into) ELSE into
  /\ disk' = IF handle = "disk" THEN longer(disk) ELSE disk
  /\ UNCHANGED <<stored, missed, manifest, row, holder, phase, save, forget, rounds>>

RestoreClosesFile(j) ==
  LET r == restore[j] IN
  /\ r.pc = "fills" /\ r.file <= CacheFiles /\ r.done = Len(r.names[r.file])
  /\ restore' = [restore EXCEPT ![j] = [r EXCEPT !.file = @ + 1, !.done = 0, !.handle = "none",
                                        !.pc = IF r.file = CacheFiles THEN "lists" ELSE "fills"]]
  /\ UNCHANGED <<disk, into, stored, missed, manifest, row, holder, phase, save, forget, rounds>>

RestoreWritesLocal(j) ==
  /\ At(j, "lists") /\ into # Nothing
  /\ into' = [into EXCEPT !.local = restore[j].names]
  /\ restore' = Now(j, "removes")
  /\ UNCHANGED <<disk, stored, missed, manifest, row, holder, phase, save, forget, rounds>>

RestoreRemovesRoot(j) ==
  /\ At(j, "removes")
  /\ disk' = Nothing
  /\ restore' = Opened(Now(j, "renames"), "disk", "gone")
  /\ UNCHANGED <<into, stored, missed, manifest, row, holder, phase, save, forget, rounds>>

\* A rename goes onto nothing or an empty folder.
RestoreRenames(j) ==
  /\ At(j, "renames") /\ into # Nothing /\ ~hasCache(disk)
  /\ disk' = into /\ into' = Nothing
  /\ restore' = Opened(Opened(Now(j, "touches"), "disk", "gone"), "into", "disk")
  /\ UNCHANGED <<stored, missed, manifest, row, holder, phase, save, forget, rounds>>

RestoreTouchesRow(j) ==
  /\ At(j, "touches")
  /\ row' = IF row = "none" THEN "none" ELSE "fresh"
  /\ restore' = [restore EXCEPT ![j] = Idle]
  /\ UNCHANGED <<disk, into, stored, missed, manifest, holder, phase, save, forget, rounds>>

\* A chunk is missing, or R2, the disk or the database fails any step from here on.
RestoreFails(j) ==
  /\ restore[j].pc \in {"prepares", "fills", "lists", "removes", "renames", "touches"}
  /\ into' = Nothing
  /\ restore' = Opened([restore EXCEPT ![j] = Idle], "into", "gone")
  /\ UNCHANGED <<disk, stored, missed, manifest, row, holder, phase, save, forget, rounds>>

-----------------------------------------------------------------------------
(* What goes on beside: pruning, time, forgetStates, a restart *)

\* prune, which leaves what a job holds; "X.restoring" is nobody's name, so it
\* may go at any time.
PruneCache ==
  /\ holder = NoJob /\ disk # Nothing
  /\ disk' = Nothing
  /\ restore' = Opened(restore, "disk", "gone")
  /\ UNCHANGED <<into, stored, missed, manifest, row, holder, phase, save, forget, rounds>>

PruneRestoring ==
  /\ into # Nothing
  /\ into' = Nothing
  /\ restore' = Opened(restore, "into", "gone")
  /\ UNCHANGED <<disk, stored, missed, manifest, row, holder, phase, save, forget, rounds>>

\* A hundred and eighty days without a Build that used it.
StateAges ==
  /\ row = "fresh" /\ holder = NoJob
  /\ \A j \in StateJobs : At(j, "idle")
  /\ row' = "old"
  /\ UNCHANGED <<disk, into, stored, missed, manifest, holder, phase, save, restore, forget, rounds>>

\* tidy prunes the caches unused for seven days before it forgets States.
ForgetLists ==
  /\ row = "old" /\ forget = "idle"
  /\ disk = Nothing \/ CacheMayOutlast
  /\ holder = NoJob \/ ForgetBeside
  /\ forget' = "listed"
  /\ UNCHANGED <<disk, into, stored, missed, manifest, row, holder, phase, save, restore, rounds>>

\* deletePrefix goes page by page, in the order of the keys: "manifest" is last.
ForgetDeletesPage ==
  /\ forget = "listed" /\ stored # {}
  /\ \E page \in SUBSET stored \ {{}} : stored' = stored \ page
  /\ UNCHANGED <<disk, into, missed, manifest, row, holder, phase, save, restore, forget, rounds>>

ForgetDeletesManifest ==
  /\ forget = "listed" /\ stored = {}
  /\ manifest' = Nothing /\ forget' = "deleted"
  /\ UNCHANGED <<disk, into, stored, missed, row, holder, phase, save, restore, rounds>>

ForgetDeletesRow ==
  /\ forget = "deleted"
  /\ row' = "none" /\ forget' = "idle"
  /\ UNCHANGED <<disk, into, stored, missed, manifest, holder, phase, save, restore, rounds>>

ForgetFails ==
  /\ forget # "idle"
  /\ forget' = "idle"
  /\ UNCHANGED <<disk, into, stored, missed, manifest, row, holder, phase, save, restore, rounds>>

\* The Builder restarts; the manifest on disk may be half written, and is none then.
BuilderRestarts ==
  /\ holder # NoJob \/ forget # "idle" \/ \E j \in StateJobs : ~At(j, "idle")
  /\ Release /\ forget' = "idle"
  /\ restore' = [j \in StateJobs |-> Idle]
  /\ disk' \in {disk} \cup IF phase = "keeps" /\ disk # Nothing THEN {[disk EXCEPT !.local = Nothing]} ELSE {}
  /\ UNCHANGED <<into, stored, missed, manifest, row, rounds>>

StateJobSteps(j) ==
  \/ StateJobStarts(j) \/ EngineRuns(j) \/ GivesUp(j)
  \/ SaveReads(j) \/ \E c \in Chunks : SaveUploads(j, c) \/ SaveMisses(j, c)
  \/ SavePutsManifest(j) \/ SaveKeepsLocal(j) \/ SaveDeletesStale(j) \/ SaveMarksRow(j) \/ SaveFails(j)

RestoreSteps(j) ==
  \/ RestoreLooks(j) \/ RestoreAsks(j) \/ RestorePrepares(j)
  \/ \E place \in Places(IF restore[j].names = Nothing THEN EmptyFiles ELSE restore[j].names) : RestoreGets(j, place)
  \/ RestoreWrites(j) \/ RestoreClosesFile(j) \/ RestoreWritesLocal(j)
  \/ RestoreRemovesRoot(j) \/ RestoreRenames(j) \/ RestoreTouchesRow(j) \/ RestoreFails(j)

Beside ==
  \/ PruneCache \/ PruneRestoring \/ StateAges
  \/ ForgetLists \/ ForgetDeletesPage \/ ForgetDeletesManifest \/ ForgetDeletesRow \/ ForgetFails
  \/ BuilderRestarts

StateNext == (\E j \in StateJobs : StateJobSteps(j) \/ RestoreSteps(j)) \/ Beside

StateSpec == StateInit /\ [][StateNext]_stateVars

-----------------------------------------------------------------------------
(* Properties *)

\* The manifest in R2 names only chunks that are in R2, but for those an upload of which
\* has failed unnoticed: saves cut off at any step, restores, restarts and stale deletes
\* leave the State no other hole.  While a State is old, forgetStates may have got halfway.
StateIsStored == row # "old" => ChunksOf(manifest) \subseteq stored \cup missed

\* What the manifest on disk names is in R2, with the same exception, so that a save,
\* which uploads only what is not named there, leaves no other hole.
LocalIsHeld == ChunksOf(readLocal(disk)) \subseteq stored \cup missed

\* saveState: "uploading only the chunks R2 does not hold yet ..., then the manifest naming
\* them": what a save has put names only what is stored.
SavedIsStored == phase = "keeps" => ChunksOf(manifest) \subseteq stored

\* "The files are moved into place only once all are whole": whatever is moved into
\* place, after whatever an earlier restore, a restart or a prune left, is the
\* cache the manifest named.
RestoredIsWhole ==
  [][\A j \in StateJobs : At(j, "renames") /\ RestoreRenames(j) => disk'.files = restore[j].names]_stateVars

\* The root a restore deletes holds no cache: no engine has come in between.
CacheNotReplaced ==
  \A j \in StateJobs : restore[j].pc = "removes" => ~hasCache(disk)
=============================================================================
