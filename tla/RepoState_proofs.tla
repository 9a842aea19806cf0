-------------------------- MODULE RepoState_proofs --------------------------
(***************************************************************************)
(* Proofs about RepoState, for every set of chunks and caches, any number  *)
(* of files, of jobs and of rounds, in three layers, each of which takes   *)
(* the ones before it: what holds of every behaviour (FitsInv), what holds *)
(* where a restore does not outlive its Build (AloneInv), and what holds   *)
(* where, besides, a State is forgotten only once its cache is off the     *)
(* disk and no Build uses it (StoredInv).                                  *)
(***************************************************************************)
EXTENDS RepoState, TLAPS

\* What the last layer takes from how the Builder goes about it.
Orderly == ~RestoreMayOutlive /\ ~CacheMayOutlast /\ ~ForgetBeside

\* The manifest a restore reads is known, and it has a folder to fill.
Knows(r) == r.pc \notin {"idle", "looks", "asks"}
Fills(r) == r.pc \in {"fills", "lists", "removes", "renames"}

\* A restore past the manifest has one, and what it has open is there.
FieldsFit(r) ==
  /\ Knows(r) => r.names # Nothing
  /\ r.handle # "none" => r.pc = "fills"
  /\ r.handle = "into" => into # Nothing
  /\ r.handle = "disk" => disk # Nothing

FitsInv ==
  /\ StateTypeOK
  /\ \A j \in StateJobs : FieldsFit(restore[j])
  /\ phase \in {"uploads", "keeps"} => save.names # Nothing

HeldOrFree == holder = NoJob <=> phase = "free"

\* A restore begins where no cache is, and none comes.
NoCacheYet(r) == r.pc \notin {"idle", "looks", "touches"} => ~hasCache(disk)

\* It asks for what the manifest it has read names, and for nothing before it has read one.
ReadsManifest(r) ==
  IF Knows(r) THEN r.got \subseteq Places(r.names) ELSE r = [Idle EXCEPT !.pc = r.pc]

\* The places of the files before the one that is written, and of that one's beginning.
Passed(r) ==
  {place \in Places(r.names) : place[1] < r.file \/ (place[1] = r.file /\ place[2] <= r.done)}

\* What is written is what was got, in order.
FillsInOrder(r) ==
  /\ r.pc = "prepares" => r.file = 1 /\ r.done = 0 /\ r.got = {}
  /\ r.pc = "fills" => r.file <= CacheFiles /\ r.done <= Len(r.names[r.file])
  /\ r.pc \in {"lists", "removes", "renames", "touches"} => r.file = CacheFiles + 1 /\ r.done = 0
  /\ Knows(r) => Passed(r) \subseteq r.got

\* What is open is open in the folder beside, which is not filled any more once pruned.
OpensBeside(r) ==
  /\ r.handle # "none" => r.pc = "fills" /\ r.handle # "disk"
  /\ r.handle = "gone" => into = Nothing
  /\ r.handle = "into" => into # Nothing
  /\ r.done # 0 => r.handle # "none"

FolderIsWhole(r) ==
  Fills(r) /\ into # Nothing =>
    /\ \A f \in 1 .. CacheFiles :
         /\ Len(into.files[f]) = IF f < r.file THEN Len(r.names[f])
                                 ELSE IF f = r.file THEN r.done ELSE 0
         /\ \A i \in 1 .. Len(into.files[f]) : into.files[f][i] = r.names[f][i]
    /\ r.pc \in {"removes", "renames"} => into.local = r.names

RestoreGood(r) ==
  NoCacheYet(r) /\ ReadsManifest(r) /\ FillsInOrder(r) /\ OpensBeside(r) /\ FolderIsWhole(r)

\* A restore is its Build's, before the engine runs.
RestoresBeside ==
  \A j \in StateJobs :
    /\ restore[j].pc # "idle" => holder = j /\ phase = "clones"
    /\ RestoreGood(restore[j])

AloneInv == FitsInv /\ HeldOrFree /\ RestoresBeside

\* forgetStates finds nobody, and no cache on the disk.
ForgetsAlone ==
  /\ forget # "idle" => holder = NoJob /\ row = "old" /\ disk = Nothing
  /\ forget = "deleted" => manifest = Nothing

\* What a restore has read is the manifest R2 still has, and what it has got is still there.
StillThere(r) ==
  Knows(r) => /\ r.names = manifest
              /\ \A place \in r.got : manifest[place[1]][place[2]] \in stored

\* What a save has uploaded, or found named on the disk, is there, or was missed.
SavesWhole ==
  /\ phase = "uploads" => save.before \cup (ChunksOf(save.names) \ save.left) \subseteq stored \cup missed
  /\ phase \in {"keeps", "deletes", "marks"} =>
       manifest = save.names /\ ChunksOf(manifest) \subseteq stored \cup missed
  /\ phase = "deletes" => disk # Nothing /\ disk.local = save.names

StoredInv ==
  /\ AloneInv
  /\ ForgetsAlone /\ SavesWhole /\ \A j \in StateJobs : StillThere(restore[j])
  /\ StateIsStored /\ LocalIsHeld

-----------------------------------------------------------------------------
(* Types *)

Folders == [files : Files, local : Files \cup {Nothing}]
PCs == {"idle", "looks", "asks", "prepares", "fills", "lists", "removes", "renames", "touches"}
Restores ==
  [pc : PCs, names : Files \cup {Nothing}, file : 1 .. CacheFiles + 1, done : Nat,
   got : SUBSET ((1 .. CacheFiles) \X Nat), handle : {"none", "into", "disk", "gone"}]
Saves == [before : SUBSET Chunks, names : Files \cup {Nothing}, left : SUBSET Chunks]

LEMMA NothingIsNoFolder == Nothing \notin Files /\ Nothing \notin Folders
BY StateAssumption DEF Folders

LEMMA Typed ==
  ASSUME StateTypeOK
  PROVE  /\ disk \in {Nothing} \cup Folders /\ into \in {Nothing} \cup Folders
         /\ stored \subseteq Chunks /\ missed \subseteq Chunks /\ manifest \in Files \cup {Nothing}
         /\ save \in Saves /\ restore \in [StateJobs -> Restores]
         /\ holder \in StateJobs \cup {NoJob} /\ NoJob \notin StateJobs
         /\ rounds \in Nat /\ CacheFiles \in Nat \ {0}
BY StateAssumption DEF StateTypeOK, Folders, Restores, Saves, PCs

LEMMA EmptyIsFiles == EmptyFiles \in Files
BY DEF EmptyFiles, Files

LEMMA IdleIsRestore == Idle \in Restores
BY StateAssumption DEF Idle, Restores, PCs

\* The chunks and the places of a manifest.
LEMMA ChunksAre ==
  ASSUME NEW m \in Files
  PROVE  /\ ChunksOf(m) = {m[place[1]][place[2]] : place \in Places(m)}
         /\ ChunksOf(m) \subseteq Chunks
         /\ Places(m) \subseteq (1 .. CacheFiles) \X Nat
         /\ \A f \in 1 .. CacheFiles : \A i \in 1 .. Len(m[f]) : <<f, i>> \in Places(m)
         /\ \A place \in Places(m) : /\ place[1] \in 1 .. CacheFiles
                                     /\ place[2] \in 1 .. Len(m[place[1]])
                                     /\ place = <<place[1], place[2]>>
<1>1. \A f \in 1 .. CacheFiles : m[f] \in Seq(Chunks) /\ DOMAIN m[f] = 1 .. Len(m[f]) /\ Len(m[f]) \in Nat
  BY DEF Files
<1>2. m # Nothing
  BY NothingIsNoFolder
<1>3. \A place \in Places(m) : /\ place[1] \in 1 .. CacheFiles
                               /\ place[2] \in 1 .. Len(m[place[1]])
                               /\ place = <<place[1], place[2]>>
  BY <1>1 DEF Places
<1>4. \A f \in 1 .. CacheFiles : \A i \in 1 .. Len(m[f]) : <<f, i>> \in Places(m)
  BY <1>1 DEF Places
<1>5. ChunksOf(m) \subseteq {m[place[1]][place[2]] : place \in Places(m)}
  <2>. SUFFICES ASSUME NEW c \in ChunksOf(m)  PROVE \E place \in Places(m) : c = m[place[1]][place[2]]
    OBVIOUS
  <2>1. PICK f \in 1 .. CacheFiles : \E i \in DOMAIN m[f] : c = m[f][i]
    BY <1>2 DEF ChunksOf
  <2>2. PICK i \in 1 .. Len(m[f]) : c = m[f][i]
    BY <1>1, <2>1
  <2>3. <<f, i>> \in Places(m) /\ c = m[<<f, i>>[1]][<<f, i>>[2]]
    BY <1>4, <2>2
  <2>. QED  BY <2>3
<1>6. {m[place[1]][place[2]] : place \in Places(m)} \subseteq ChunksOf(m)
  BY <1>1, <1>2, <1>3 DEF ChunksOf
<1>7. ChunksOf(m) \subseteq Chunks
  BY <1>1, <1>2 DEF ChunksOf
<1>8. Places(m) \subseteq (1 .. CacheFiles) \X Nat
  <2>. SUFFICES ASSUME NEW place \in Places(m)  PROVE place \in (1 .. CacheFiles) \X Nat
    OBVIOUS
  <2>1. place[1] \in 1 .. CacheFiles /\ place[2] \in 1 .. Len(m[place[1]]) /\ place = <<place[1], place[2]>>
    BY <1>3
  <2>2. place[2] \in Nat
    BY <1>1, <2>1
  <2>. QED  BY <2>1, <2>2
<1>. QED  BY <1>3, <1>4, <1>5, <1>6, <1>7, <1>8

LEMMA NoChunks == ChunksOf(Nothing) = {}
BY DEF ChunksOf

-----------------------------------------------------------------------------
(* Every behaviour: a restore's fields fit one another *)

LEMMA OpenedIs ==
  ASSUME NEW r \in [StateJobs -> Restores], NEW from, NEW to \in {"disk", "gone"}
  PROVE  /\ Opened(r, from, to) \in [StateJobs -> Restores]
         /\ \A j \in StateJobs :
              /\ Opened(r, from, to)[j].pc = r[j].pc
              /\ Opened(r, from, to)[j].names = r[j].names
              /\ Opened(r, from, to)[j].got = r[j].got
              /\ Opened(r, from, to)[j].handle = IF r[j].handle = from THEN to ELSE r[j].handle
<1>1. ASSUME NEW j \in StateJobs
      PROVE  LET q == [r[j] EXCEPT !.handle = IF @ = from THEN to ELSE @] IN
             /\ q \in Restores /\ q.pc = r[j].pc /\ q.names = r[j].names /\ q.got = r[j].got
             /\ q.handle = IF r[j].handle = from THEN to ELSE r[j].handle
  <2>1. PICK h \in {"none", "into", "disk", "gone"} : h = IF r[j].handle = from THEN to ELSE r[j].handle
    BY DEF Restores
  <2>. QED  BY <2>1 DEF Restores
<1>. QED  BY <1>1 DEF Opened

\* A file that is open in a folder is gone, or goes along, when the folder does.
LEMMA OpenedFits ==
  ASSUME NEW r \in [StateJobs -> Restores], NEW from \in {"into", "disk"}, NEW to \in {"disk", "gone"},
         \A j \in StateJobs : /\ Knows(r[j]) => r[j].names # Nothing
                              /\ r[j].handle # "none" => r[j].pc = "fills"
  PROVE  \A j \in StateJobs : /\ Knows(Opened(r, from, to)[j]) => Opened(r, from, to)[j].names # Nothing
                              /\ Opened(r, from, to)[j].handle # "none" => Opened(r, from, to)[j].pc = "fills"
<1>. SUFFICES ASSUME NEW j \in StateJobs
     PROVE  /\ Knows(Opened(r, from, to)[j]) => Opened(r, from, to)[j].names # Nothing
            /\ Opened(r, from, to)[j].handle # "none" => Opened(r, from, to)[j].pc = "fills"
  OBVIOUS
<1>1. /\ Opened(r, from, to)[j].pc = r[j].pc /\ Opened(r, from, to)[j].names = r[j].names
      /\ Opened(r, from, to)[j].handle = IF r[j].handle = from THEN to ELSE r[j].handle
  BY OpenedIs
<1>. QED  BY <1>1 DEF Knows

\* Of one job's restore, with the folders as they are after.
LEMMA FitsMoves ==
  ASSUME FitsInv,
         disk' \in {Nothing} \cup Folders, into' \in {Nothing} \cup Folders, stored' \subseteq Chunks,
         missed' \subseteq Chunks,
         manifest' \in Files \cup {Nothing}, row' \in {"none", "fresh", "old"},
         forget' \in {"idle", "listed", "deleted"}, UNCHANGED <<holder, phase, save, rounds>>,
         restore' \in [StateJobs -> Restores], \A j \in StateJobs : FieldsFit(restore[j])'
  PROVE  FitsInv'
BY Typed DEF FitsInv, StateTypeOK, Folders, Restores, PCs

\* The steps of the job, which leave restores alone and folders where they are.
LEMMA FitsJob ==
  ASSUME FitsInv,
         disk' \in {Nothing} \cup Folders, disk # Nothing => disk' # Nothing, stored' \subseteq Chunks,
         missed' \subseteq Chunks,
         manifest' \in Files \cup {Nothing}, row' \in {"none", "fresh", "old"}, save' \in Saves,
         holder' \in StateJobs \cup {NoJob},
         phase' \in {"free", "clones", "made", "uploads", "keeps", "deletes", "marks"},
         phase' \in {"uploads", "keeps"} => save'.names # Nothing,
         UNCHANGED <<into, restore, forget, rounds>>
  PROVE  FitsInv'
<1>1. \A j \in StateJobs : FieldsFit(restore[j])'
  BY DEF FitsInv, FieldsFit
<1>. QED  BY <1>1, Typed DEF FitsInv, StateTypeOK, Folders, Restores, Saves, PCs

LEMMA JobFits ==
  ASSUME FitsInv, NEW j \in StateJobs, StateJobSteps(j)
  PROVE  FitsInv'
<1>1. CASE StateJobStarts(j)
  <2>1. PICK start \in {"looks", "idle"} : restore' = [restore EXCEPT ![j].pc = start]
    BY <1>1 DEF StateJobStarts
  <2>2. restore \in [StateJobs -> Restores] /\ restore[j] \in Restores
    BY Typed DEF FitsInv
  <2>3. PICK q : q = [restore[j] EXCEPT !.pc = start]
    OBVIOUS
  <2>4. q \in Restores /\ q.pc = start /\ q.handle = restore[j].handle
    BY <2>2, <2>3 DEF Restores, PCs
  <2>5. restore' \in [StateJobs -> Restores] /\ restore'[j] = q /\ \A k \in StateJobs \ {j} : restore'[k] = restore[k]
    BY <2>1, <2>2, <2>3, <2>4
  <2>6. FieldsFit(q)'
    BY <1>1, <2>4 DEF FitsInv, FieldsFit, StateJobStarts, Knows
  <2>7. \A k \in StateJobs : FieldsFit(restore[k])'
    BY <1>1, <2>5, <2>6 DEF FitsInv, FieldsFit, StateJobStarts
  <2>. QED  BY <1>1, <2>5, <2>7 DEF FitsInv, StateTypeOK, StateJobStarts, Folders, Restores, PCs
<1>2. CASE EngineRuns(j)
  <2>1. PICK files \in Caches : disk' = Folder(files, readLocal(disk))
    BY <1>2 DEF EngineRuns
  <2>2. disk' \in Folders /\ disk' # Nothing
    BY <2>1, Typed, NothingIsNoFolder, StateAssumption DEF FitsInv, Folders, Folder, readLocal
  <2>. QED  BY <1>2, <2>2, FitsJob, Typed DEF EngineRuns, FitsInv, StateTypeOK
<1>3. CASE GivesUp(j) \/ SaveFails(j) \/ SaveMarksRow(j)
  <2>1. NoSave \in Saves
    BY DEF NoSave, Saves
  <2>. QED  BY <1>3, <2>1, FitsJob, Typed DEF GivesUp, SaveFails, SaveMarksRow, Release, FitsInv, StateTypeOK
<1>4. CASE SaveReads(j)
  <2> DEFINE before == ChunksOf(readLocal(disk))
             names == IF disk = Nothing THEN EmptyFiles ELSE disk.files
  <2>1. save' = [before |-> before, names |-> names, left |-> ChunksOf(names) \ before]
    BY <1>4 DEF SaveReads
  <2>2. names \in Files /\ readLocal(disk) \in Files \cup {Nothing}
    BY Typed, EmptyIsFiles DEF FitsInv, Folders, readLocal
  <2>3. ChunksOf(names) \subseteq Chunks /\ before \subseteq Chunks /\ names # Nothing
    BY <2>2, ChunksAre, NoChunks, NothingIsNoFolder
  <2>4. save' \in Saves /\ save'.names # Nothing
    BY <2>1, <2>2, <2>3 DEF Saves
  <2>. QED  BY <1>4, <2>4, FitsJob, Typed DEF SaveReads, FitsInv, StateTypeOK
<1>5. ASSUME NEW c \in Chunks, SaveUploads(j, c) \/ SaveMisses(j, c)  PROVE FitsInv'
  <2>1. save' \in Saves /\ save'.names = save.names
    BY <1>5, Typed DEF SaveUploads, SaveMisses, FitsInv, Saves
  <2>. QED  BY <1>5, <2>1, FitsJob, Typed DEF SaveUploads, SaveMisses, FitsInv, StateTypeOK
<1>6. CASE SavePutsManifest(j)
  <2>1. save.names \in Files
    BY <1>6, Typed DEF SavePutsManifest, FitsInv, Saves
  <2>. QED  BY <1>6, <2>1, FitsJob, Typed DEF SavePutsManifest, FitsInv, StateTypeOK
<1>7. CASE SaveKeepsLocal(j)
  <2>1. disk \in Folders /\ save.names \in Files /\ disk' = [disk EXCEPT !.local = save.names]
    BY <1>7, Typed DEF SaveKeepsLocal, FitsInv, Saves
  <2>2. disk' \in Folders /\ disk' # Nothing
    BY <2>1, NothingIsNoFolder DEF Folders
  <2>. QED  BY <1>7, <2>2, FitsJob, Typed DEF SaveKeepsLocal, FitsInv, StateTypeOK
<1>8. CASE SaveDeletesStale(j)
  BY <1>8, FitsJob, Typed DEF SaveDeletesStale, FitsInv, StateTypeOK
<1>. QED  BY <1>1, <1>2, <1>3, <1>4, <1>5, <1>6, <1>7, <1>8 DEF StateJobSteps

\* A restore that only moves on, with no folder made, moved or deleted.
LEMMA FitsRestoreMoves ==
  ASSUME FitsInv, NEW j \in StateJobs, NEW q \in Restores, restore' = [restore EXCEPT ![j] = q],
         disk' \in {Nothing} \cup Folders, disk # Nothing => disk' # Nothing,
         into' \in {Nothing} \cup Folders, into # Nothing => into' # Nothing,
         row' \in {"none", "fresh", "old"},
         UNCHANGED <<stored, missed, manifest, holder, phase, save, forget, rounds>>,
         FieldsFit(q)'
  PROVE  FitsInv'
<1>1. restore \in [StateJobs -> Restores]
  BY Typed DEF FitsInv
<1>2. restore' \in [StateJobs -> Restores] /\ restore'[j] = q /\ \A k \in StateJobs \ {j} : restore'[k] = restore[k]
  BY <1>1
<1>3. \A k \in StateJobs : FieldsFit(restore[k])'
  BY <1>2 DEF FitsInv, FieldsFit
<1>. QED  BY <1>2, <1>3, FitsMoves, Typed DEF FitsInv, StateTypeOK

LEMMA AsksFits ==
  ASSUME FitsInv, NEW j \in StateJobs, RestoreLooks(j) \/ RestoreAsks(j) \/ RestoreTouchesRow(j)
  PROVE  FitsInv'
<1>1. restore \in [StateJobs -> Restores] /\ restore[j] \in Restores /\ FieldsFit(restore[j])
  BY Typed DEF FitsInv
<1>2. PICK q : /\ restore' = [restore EXCEPT ![j] = q]
               /\ \/ \E step \in {"idle", "asks"} : q = [restore[j] EXCEPT !.pc = step]
                  \/ manifest # Nothing /\ q = [restore[j] EXCEPT !.pc = "prepares", !.names = manifest]
                  \/ q = Idle
  <2>1. CASE RestoreLooks(j)
    BY <1>1, <2>1 DEF RestoreLooks, Now
  <2>2. CASE RestoreAsks(j)
    BY <1>1, <2>2 DEF RestoreAsks, Now
  <2>3. CASE RestoreTouchesRow(j)
    BY <1>1, <2>3 DEF RestoreTouchesRow
  <2>. QED  BY <2>1, <2>2, <2>3
<1>3. restore[j].handle = "none" \/ q = Idle
  BY <1>1 DEF FieldsFit, RestoreLooks, RestoreAsks, RestoreTouchesRow, At
<1>4. q \in Restores /\ q.handle = "none" /\ (Knows(q) => q.names # Nothing)
  <2>1. ASSUME NEW step \in {"idle", "asks"}, q = [restore[j] EXCEPT !.pc = step]
        PROVE  q \in Restores /\ q.handle = restore[j].handle /\ ~Knows(q)
    BY <1>1, <2>1 DEF Restores, PCs, Knows
  <2>2. ASSUME manifest # Nothing, q = [restore[j] EXCEPT !.pc = "prepares", !.names = manifest]
        PROVE  q \in Restores /\ q.handle = restore[j].handle /\ q.names # Nothing
    BY <1>1, <2>2, Typed DEF Restores, PCs, FitsInv
  <2>3. Idle \in Restores /\ Idle.handle = "none" /\ ~Knows(Idle)
    BY IdleIsRestore DEF Idle, Knows
  <2>. QED  BY <1>2, <1>3, <2>1, <2>2, <2>3
<1>5. FieldsFit(q)'
  BY <1>4 DEF FieldsFit
<1>6. row' \in {"none", "fresh", "old"}
  BY DEF FitsInv, StateTypeOK, RestoreLooks, RestoreAsks, RestoreTouchesRow
<1>. QED  BY <1>2, <1>4, <1>5, <1>6, FitsRestoreMoves, Typed
          DEF FitsInv, RestoreLooks, RestoreAsks, RestoreTouchesRow

LEMMA FillsFits ==
  ASSUME FitsInv, NEW j \in StateJobs,
         (\E place \in Places(IF restore[j].names = Nothing THEN EmptyFiles ELSE restore[j].names) : RestoreGets(j, place))
           \/ RestoreWrites(j) \/ RestoreClosesFile(j) \/ RestoreWritesLocal(j)
  PROVE  FitsInv'
<1>1. PICK r : r = restore[j]
  OBVIOUS
<1>2. /\ r \in Restores /\ FieldsFit(r) /\ restore \in [StateJobs -> Restores]
      /\ row \in {"none", "fresh", "old"} /\ disk \in {Nothing} \cup Folders /\ into \in {Nothing} \cup Folders
  BY <1>1, Typed DEF FitsInv, StateTypeOK
<1>3. r.names \in Files
  BY <1>1, <1>2 DEF RestoreGets, RestoreWrites, RestoreClosesFile, RestoreWritesLocal, At, FieldsFit, Knows, Restores
<1>4. CASE \E place \in Places(IF restore[j].names = Nothing THEN EmptyFiles ELSE restore[j].names) : RestoreGets(j, place)
  <2>1. PICK place \in Places(r.names) : RestoreGets(j, place)
    BY <1>1, <1>3, <1>4, NothingIsNoFolder
  <2>2. PICK q : q = [r EXCEPT !.got = @ \cup {place}]
    OBVIOUS
  <2>3. r.got \cup {place} \in SUBSET ((1 .. CacheFiles) \X Nat)
    BY <1>2, <1>3, <2>1, ChunksAre DEF Restores
  <2>4. q \in Restores /\ q.pc = r.pc /\ q.names = r.names /\ q.handle = r.handle
    BY <1>2, <2>2, <2>3 DEF Restores
  <2>5. restore' = [restore EXCEPT ![j] = q]
    BY <1>1, <1>2, <2>1, <2>2 DEF RestoreGets
  <2>6. FieldsFit(q)'
    BY <1>2, <2>1, <2>4 DEF FieldsFit, Knows, RestoreGets
  <2>. QED  BY <1>2, <2>1, <2>4, <2>5, <2>6, FitsRestoreMoves DEF RestoreGets
<1>5. CASE RestoreWrites(j)
  <2>1. PICK handle : handle = IF r.handle = "none" THEN "into" ELSE r.handle
    OBVIOUS
  <2>2. PICK chunk : chunk = r.names[r.file][r.done + 1]
    OBVIOUS
  <2>3. PICK q : q = [r EXCEPT !.done = @ + 1, !.handle = handle]
    OBVIOUS
  <2>4. /\ handle \in {"into", "disk", "gone"} /\ r.file \in 1 .. CacheFiles /\ r.done \in Nat
        /\ r.pc = "fills" /\ r.done < Len(r.names[r.file])
        /\ handle = "into" => into \in Folders
        /\ handle = "disk" => disk \in Folders
    BY <1>1, <1>2, <1>5, <2>1 DEF RestoreWrites, Restores, FieldsFit
  <2>5. q \in Restores /\ q.pc = "fills" /\ q.names = r.names /\ q.handle = handle
    <3>1. r.done + 1 \in Nat /\ handle \in {"none", "into", "disk", "gone"}
      BY <2>4
    <3>2. q = [r EXCEPT !.done = r.done + 1, !.handle = handle]
      BY <1>2, <2>3 DEF Restores
    <3>. QED  BY <1>2, <2>4, <3>1, <3>2 DEF Restores
  <2>6. restore' = [restore EXCEPT ![j] = q]
    BY <1>1, <1>2, <1>5, <2>1, <2>3 DEF RestoreWrites
  <2>7. /\ into' = IF handle = "into" THEN [into EXCEPT !.files[r.file] = Append(@, chunk)] ELSE into
        /\ disk' = IF handle = "disk" THEN [disk EXCEPT !.files[r.file] = Append(@, chunk)] ELSE disk
    BY <1>1, <1>5, <2>1, <2>2 DEF RestoreWrites
  <2>8. chunk \in Chunks
    <3>1. r.names[r.file] \in Seq(Chunks)
      BY <1>3, <2>4 DEF Files
    <3>2. Len(r.names[r.file]) \in Nat
      BY <3>1
    <3>3. r.done + 1 \in 1 .. Len(r.names[r.file])
      BY <2>4, <3>2
    <3>. QED  BY <2>2, <3>1, <3>3
  <2>9. ASSUME NEW folder \in Folders
        PROVE  [folder EXCEPT !.files[r.file] = Append(@, chunk)] \in Folders
    <3>1. folder.files \in Files /\ folder.files[r.file] \in Seq(Chunks)
      BY <2>4, <2>9 DEF Folders, Files
    <3>2. PICK longer : longer = [folder.files EXCEPT ![r.file] = Append(@, chunk)]
      OBVIOUS
    <3>3. longer \in Files
      BY <2>4, <2>8, <3>1, <3>2 DEF Files
    <3>4. [folder EXCEPT !.files[r.file] = Append(@, chunk)] = [folder EXCEPT !.files = longer]
      BY <2>9, <3>2 DEF Folders
    <3>. QED  BY <2>9, <3>3, <3>4 DEF Folders
  <2>10. /\ into' \in {Nothing} \cup Folders /\ (into # Nothing => into' # Nothing)
         /\ disk' \in {Nothing} \cup Folders /\ (disk # Nothing => disk' # Nothing)
    BY <1>2, <2>4, <2>7, <2>9, NothingIsNoFolder
  <2>11. FieldsFit(q)'
    BY <1>2, <1>3, <2>4, <2>5, <2>10, NothingIsNoFolder DEF FieldsFit, Knows
  <2>. QED  BY <1>2, <1>5, <2>5, <2>6, <2>10, <2>11, FitsRestoreMoves DEF RestoreWrites
<1>6. CASE RestoreClosesFile(j)
  <2>1. PICK pc \in {"lists", "fills"} : pc = IF r.file = CacheFiles THEN "lists" ELSE "fills"
    OBVIOUS
  <2>2. PICK q : q = [r EXCEPT !.file = @ + 1, !.done = 0, !.handle = "none", !.pc = pc]
    OBVIOUS
  <2>3. r.file + 1 \in 1 .. CacheFiles + 1
    BY <1>1, <1>2, <1>6, StateAssumption DEF RestoreClosesFile, Restores
  <2>4. q \in Restores /\ q.names = r.names /\ q.handle = "none"
    BY <1>2, <2>1, <2>2, <2>3 DEF Restores, PCs
  <2>5. restore' = [restore EXCEPT ![j] = q]
    BY <1>1, <1>6, <2>1, <2>2 DEF RestoreClosesFile
  <2>6. FieldsFit(q)'
    BY <1>3, <2>4, NothingIsNoFolder DEF FieldsFit
  <2>. QED  BY <1>2, <1>6, <2>4, <2>5, <2>6, FitsRestoreMoves DEF RestoreClosesFile
<1>7. CASE RestoreWritesLocal(j)
  <2>1. PICK q : q = [r EXCEPT !.pc = "removes"]
    OBVIOUS
  <2>2. q \in Restores /\ q.names = r.names /\ q.handle = r.handle /\ r.handle = "none"
    BY <1>1, <1>2, <1>7, <2>1 DEF Restores, PCs, FieldsFit, RestoreWritesLocal, At
  <2>3. restore' = [restore EXCEPT ![j] = q]
    BY <1>1, <1>2, <1>7, <2>1 DEF RestoreWritesLocal, Now
  <2>4. into' \in Folders
    BY <1>1, <1>2, <1>3, <1>7 DEF RestoreWritesLocal, Folders
  <2>5. FieldsFit(q)'
    BY <1>3, <2>2, NothingIsNoFolder DEF FieldsFit
  <2>. QED  BY <1>2, <1>7, <2>2, <2>3, <2>4, <2>5, NothingIsNoFolder, FitsRestoreMoves DEF RestoreWritesLocal
<1>. QED  BY <1>4, <1>5, <1>6, <1>7

\* A folder is made, moved or deleted, with what is open in it.
LEMMA MovesFits ==
  ASSUME FitsInv, NEW j \in StateJobs,
         RestorePrepares(j) \/ RestoreRemovesRoot(j) \/ RestoreRenames(j) \/ RestoreFails(j)
  PROVE  FitsInv'
<1>1. PICK r : r = restore[j]
  OBVIOUS
<1>2. /\ r \in Restores /\ restore \in [StateJobs -> Restores] /\ \A k \in StateJobs : FieldsFit(restore[k])
      /\ row \in {"none", "fresh", "old"} /\ disk \in {Nothing} \cup Folders /\ into \in {Nothing} \cup Folders
  BY <1>1, Typed DEF FitsInv, StateTypeOK
<1> DEFINE Fit(old) ==
             /\ old \in [StateJobs -> Restores]
             /\ \A k \in StateJobs : /\ Knows(old[k]) => old[k].names # Nothing
                                     /\ old[k].handle # "none" => old[k].pc = "fills"
                                     /\ old[k].handle = "into" => into # Nothing
                                     /\ old[k].handle = "disk" => disk # Nothing
<1>3. ASSUME NEW pc \in {"fills", "renames", "touches"}, r.handle = "none", r.names # Nothing
      PROVE  Fit(Now(j, pc))
  <2>1. PICK q : q = [r EXCEPT !.pc = pc]
    OBVIOUS
  <2>2. q \in Restores /\ q.handle = "none" /\ q.names # Nothing
    BY <1>2, <1>3, <2>1 DEF Restores, PCs
  <2>3. Now(j, pc) = [restore EXCEPT ![j] = q]
    BY <1>1, <1>2, <2>1 DEF Now
  <2>. QED  BY <1>2, <2>2, <2>3 DEF FieldsFit
<1>4. Fit([restore EXCEPT ![j] = Idle])
  <2>1. Idle \in Restores /\ Idle.handle = "none" /\ ~Knows(Idle)
    BY IdleIsRestore DEF Idle, Knows
  <2>. QED  BY <1>2, <2>1 DEF FieldsFit
<1>5. PICK old : /\ Fit(old)
                 /\ RestorePrepares(j) => restore' = Opened(old, "into", "gone")
                 /\ RestoreRemovesRoot(j) => restore' = Opened(old, "disk", "gone")
                 /\ RestoreRenames(j) => restore' = Opened(Opened(old, "disk", "gone"), "into", "disk")
                 /\ ~(RestorePrepares(j) \/ RestoreRemovesRoot(j) \/ RestoreRenames(j))
                      => restore' = Opened(old, "into", "gone")
  <2>1. CASE RestorePrepares(j)
    <3>1. r.handle = "none" /\ r.names # Nothing
      BY <1>1, <1>2, <2>1 DEF RestorePrepares, At, FieldsFit, Knows
    <3>. QED  BY <1>1, <1>3, <2>1, <3>1 DEF RestorePrepares, RestoreRemovesRoot, RestoreRenames, At
  <2>2. CASE RestoreRemovesRoot(j)
    <3>1. r.handle = "none" /\ r.names # Nothing
      BY <1>1, <1>2, <2>2 DEF RestoreRemovesRoot, At, FieldsFit, Knows
    <3>. QED  BY <1>1, <1>3, <2>2, <3>1 DEF RestorePrepares, RestoreRemovesRoot, RestoreRenames, At
  <2>3. CASE RestoreRenames(j)
    <3>1. r.handle = "none" /\ r.names # Nothing
      BY <1>1, <1>2, <2>3 DEF RestoreRenames, At, FieldsFit, Knows
    <3>. QED  BY <1>1, <1>3, <2>3, <3>1 DEF RestorePrepares, RestoreRemovesRoot, RestoreRenames, At
  <2>4. CASE ~(RestorePrepares(j) \/ RestoreRemovesRoot(j) \/ RestoreRenames(j))
    BY <1>4, <2>4 DEF RestoreFails
  <2>. QED  BY <2>1, <2>2, <2>3, <2>4
<1>6. CASE RestorePrepares(j) \/ (RestoreFails(j) /\ ~(RestoreRemovesRoot(j) \/ RestoreRenames(j)))
  <2>1. restore' = Opened(old, "into", "gone") /\ restore' \in [StateJobs -> Restores] /\ disk' = disk
    BY <1>6, <1>5, OpenedIs DEF RestorePrepares, RestoreFails
  <2>2. into' \in {Nothing} \cup Folders
    BY <1>6, EmptyIsFiles DEF RestorePrepares, RestoreFails, Folder, Folders
  <2>3. \A k \in StateJobs : restore'[k].handle # "into" /\ (restore'[k].handle = "disk" => disk' # Nothing)
    BY <1>5, <2>1, OpenedIs
  <2>4. \A k \in StateJobs : FieldsFit(restore[k])'
    BY <1>5, <2>1, <2>3, OpenedFits DEF FieldsFit
  <2>. QED  BY <1>2, <1>6, <2>1, <2>2, <2>4, FitsMoves, Typed DEF RestorePrepares, RestoreFails, FitsInv, StateTypeOK
<1>7. CASE RestoreRemovesRoot(j)
  <2>1. restore' = Opened(old, "disk", "gone") /\ restore' \in [StateJobs -> Restores]
    BY <1>7, <1>5, OpenedIs
  <2>2. disk' = Nothing /\ into' = into
    BY <1>7 DEF RestoreRemovesRoot
  <2>3. \A k \in StateJobs : restore'[k].handle # "disk" /\ (restore'[k].handle = "into" => into' # Nothing)
    BY <1>5, <2>1, <2>2, OpenedIs
  <2>4. \A k \in StateJobs : FieldsFit(restore[k])'
    BY <1>5, <2>1, <2>3, OpenedFits DEF FieldsFit
  <2>. QED  BY <1>2, <1>7, <2>1, <2>2, <2>4, FitsMoves, Typed DEF RestoreRemovesRoot, FitsInv, StateTypeOK
<1>8. CASE RestoreRenames(j)
  <2>1. PICK mid : mid = Opened(old, "disk", "gone")
    OBVIOUS
  <2>2. mid \in [StateJobs -> Restores] /\ restore' = Opened(mid, "into", "disk") /\ restore' \in [StateJobs -> Restores]
    BY <1>8, <1>5, <2>1, OpenedIs
  <2>3. disk' = into /\ into # Nothing /\ into' = Nothing
    BY <1>8 DEF RestoreRenames
  <2>4. \A k \in StateJobs : restore'[k].handle # "into"
    BY <2>2, OpenedIs
  <2>5. \A k \in StateJobs : /\ Knows(mid[k]) => mid[k].names # Nothing
                             /\ mid[k].handle # "none" => mid[k].pc = "fills"
    BY <1>5, <2>1, OpenedFits
  <2>6. \A k \in StateJobs : FieldsFit(restore[k])'
    BY <2>2, <2>3, <2>4, <2>5, OpenedFits DEF FieldsFit
  <2>. QED  BY <1>2, <1>8, <2>2, <2>3, <2>6, FitsMoves, Typed DEF RestoreRenames, FitsInv, StateTypeOK
<1>. QED  BY <1>6, <1>7, <1>8

LEMMA BesideFits ==
  ASSUME FitsInv, Beside
  PROVE  FitsInv'
<1>1. /\ restore \in [StateJobs -> Restores] /\ \A k \in StateJobs : FieldsFit(restore[k])
      /\ disk \in {Nothing} \cup Folders /\ into \in {Nothing} \cup Folders
  BY Typed DEF FitsInv
<1>2. CASE PruneCache
  <2>1. restore' \in [StateJobs -> Restores] /\ \A k \in StateJobs : FieldsFit(restore[k])'
    <3>1. restore' = Opened(restore, "disk", "gone") /\ restore' \in [StateJobs -> Restores]
      BY <1>1, <1>2, OpenedIs DEF PruneCache
    <3>2. \A k \in StateJobs : restore'[k].handle # "disk" /\ (restore'[k].handle = "into" => into # Nothing)
      BY <1>1, <3>1, OpenedIs DEF FieldsFit
    <3>. QED  BY <1>1, <1>2, <3>1, <3>2, OpenedFits DEF FieldsFit, PruneCache
  <2>. QED  BY <1>1, <1>2, <2>1, FitsMoves, Typed DEF PruneCache, FitsInv, StateTypeOK
<1>3. CASE PruneRestoring
  <2>1. restore' \in [StateJobs -> Restores] /\ \A k \in StateJobs : FieldsFit(restore[k])'
    <3>1. restore' = Opened(restore, "into", "gone") /\ restore' \in [StateJobs -> Restores]
      BY <1>1, <1>3, OpenedIs DEF PruneRestoring
    <3>2. \A k \in StateJobs : restore'[k].handle # "into" /\ (restore'[k].handle = "disk" => disk # Nothing)
      BY <1>1, <3>1, OpenedIs DEF FieldsFit
    <3>. QED  BY <1>1, <1>3, <3>1, <3>2, OpenedFits DEF FieldsFit, PruneRestoring
  <2>. QED  BY <1>1, <1>3, <2>1, FitsMoves, Typed DEF PruneRestoring, FitsInv, StateTypeOK
<1>4. CASE StateAges \/ ForgetLists \/ ForgetDeletesPage \/ ForgetDeletesManifest \/ ForgetDeletesRow \/ ForgetFails
  <2>1. /\ UNCHANGED <<disk, into, holder, phase, save, restore, rounds>>
        /\ stored' \subseteq stored /\ missed' = missed /\ manifest' \in {manifest, Nothing} /\ row' \in {"none", "old", row}
        /\ forget' \in {"idle", "listed", "deleted"}
    BY <1>4 DEF FitsInv, StateTypeOK, StateAges, ForgetLists, ForgetDeletesPage, ForgetDeletesManifest,
       ForgetDeletesRow, ForgetFails
  <2>2. \A k \in StateJobs : FieldsFit(restore[k])'
    BY <1>1, <2>1 DEF FieldsFit
  <2>. QED  BY <1>1, <2>1, <2>2, FitsMoves, Typed DEF FitsInv, StateTypeOK
<1>5. CASE BuilderRestarts
  <2>1. restore' \in [StateJobs -> Restores] /\ \A k \in StateJobs : restore'[k] = Idle
    BY <1>5, IdleIsRestore DEF BuilderRestarts
  <2>2. \A k \in StateJobs : FieldsFit(restore[k])'
    BY <2>1 DEF FieldsFit, Idle, Knows
  <2>3. disk' \in {Nothing} \cup Folders
    <3>1. CASE disk # Nothing /\ disk' = [disk EXCEPT !.local = Nothing]
      BY <1>1, <3>1 DEF Folders
    <3>. QED  BY <1>1, <1>5, <3>1 DEF BuilderRestarts
  <2>4. NoSave \in Saves
    BY DEF NoSave, Saves
  <2>. QED  BY <1>5, <2>1, <2>2, <2>3, <2>4 DEF FitsInv, StateTypeOK, BuilderRestarts, Release, Folders, Restores, Saves, PCs
<1>. QED  BY <1>2, <1>3, <1>4, <1>5 DEF Beside

LEMMA FitsBegins == StateInit => FitsInv
<1>1. ASSUME StateInit  PROVE restore \in [StateJobs -> Restores] /\ NoSave \in Saves
                              /\ \A k \in StateJobs : restore[k] = Idle
  BY <1>1, IdleIsRestore DEF StateInit, NoSave, Saves
<1>. QED  BY <1>1, StateAssumption
          DEF StateInit, FitsInv, StateTypeOK, FieldsFit, Knows, Idle, Restores, Saves, PCs

LEMMA FitsKeeps ==
  ASSUME FitsInv, [StateNext]_stateVars
  PROVE  FitsInv'
<1>1. CASE UNCHANGED stateVars
  BY <1>1 DEF stateVars, FitsInv, StateTypeOK, FieldsFit
<1>2. ASSUME NEW j \in StateJobs, StateJobSteps(j) \/ RestoreSteps(j)  PROVE FitsInv'
  BY <1>2, JobFits, AsksFits, FillsFits, MovesFits DEF RestoreSteps
<1>. QED  BY <1>1, <1>2, BesideFits DEF StateNext

LEMMA FitsHolds == StateSpec => []FitsInv
<1>1. FitsInv /\ [StateNext]_stateVars => FitsInv'
  BY FitsKeeps
<1>. QED  BY <1>1, FitsBegins, PTL DEF StateSpec

-----------------------------------------------------------------------------
(* A restore that does not outlive its Build: who is at rest *)

LEMMA IdleIsGood == RestoreGood(Idle) /\ RestoreGood(Idle)'
BY DEF RestoreGood, NoCacheYet, Knows, ReadsManifest, FillsInOrder, OpensBeside, FolderIsWhole, Fills, Idle

\* Without a holder before the engine's run, or beside another one, every restore is at rest.
LEMMA OthersAreIdle ==
  ASSUME RestoresBeside, NEW j \in StateJobs, holder # j \/ phase # "clones" \/ restore[j].pc = "idle"
  PROVE  restore[j] = Idle
<1>1. restore[j].pc = "idle" /\ ReadsManifest(restore[j]) /\ ~Knows(restore[j])
  BY DEF RestoresBeside, RestoreGood, Knows
<1>2. restore[j] = [Idle EXCEPT !.pc = "idle"]
  BY <1>1 DEF ReadsManifest
<1>. QED  BY <1>2 DEF Idle

\* Nor has one got anywhere that has not read the manifest.
LEMMA AskingIsGood ==
  ASSUME NEW step \in {"idle", "looks", "asks"}, step = "asks" => ~hasCache(disk)'
  PROVE  RestoreGood([Idle EXCEPT !.pc = step])'
BY DEF RestoreGood, NoCacheYet, Knows, ReadsManifest, FillsInOrder, OpensBeside, FolderIsWhole, Fills, Idle

\* A step that leaves every restore at rest.
LEMMA RestingKeeps ==
  ASSUME FitsInv', HeldOrFree', \A j \in StateJobs : restore'[j] = Idle
  PROVE  AloneInv'
<1>1. RestoresBeside'
  <2>. SUFFICES ASSUME NEW j \in StateJobs
       PROVE  /\ restore'[j].pc # "idle" => holder' = j /\ phase' = "clones"
              /\ RestoreGood(restore[j])'
    BY DEF RestoresBeside
  <2>1. restore'[j] = Idle
    OBVIOUS
  <2>. QED  BY <2>1, IdleIsGood DEF Idle, RestoreGood, NoCacheYet, Knows, ReadsManifest,
              FillsInOrder, OpensBeside, FolderIsWhole, Fills
<1>. QED  BY <1>1 DEF AloneInv

\* A step of the one restore there is.
LEMMA RestoreKeeps ==
  ASSUME AloneInv, FitsInv', NEW j \in StateJobs, holder = j, phase = "clones", NEW q \in Restores,
         restore'[j] = q, \A k \in StateJobs \ {j} : restore'[k] = Idle,
         RestoreGood(q)', UNCHANGED <<holder, phase>>
  PROVE  AloneInv'
<1>1. RestoresBeside'
  <2>. SUFFICES ASSUME NEW k \in StateJobs
       PROVE  /\ restore'[k].pc # "idle" => holder' = k /\ phase' = "clones"
              /\ RestoreGood(restore[k])'
    BY DEF RestoresBeside
  <2>1. CASE k = j
    BY <2>1 DEF RestoreGood, NoCacheYet, Knows, ReadsManifest, FillsInOrder, OpensBeside, FolderIsWhole,
                Fills, Passed
  <2>2. CASE k # j
    <3>1. restore'[k] = Idle
      BY <2>2
    <3>. QED  BY <3>1, IdleIsGood DEF Idle, RestoreGood, NoCacheYet, Knows, ReadsManifest,
                FillsInOrder, OpensBeside, FolderIsWhole, Fills
  <2>. QED  BY <2>1, <2>2
<1>. QED  BY <1>1 DEF AloneInv, HeldOrFree

-----------------------------------------------------------------------------
(* The job that holds the repository, and a restart *)

LEMMA StartsKeeps ==
  ASSUME AloneInv, FitsInv', NEW j \in StateJobs, StateJobStarts(j)
  PROVE  AloneInv'
<1>1. PICK start \in {"looks", "idle"} : restore' = [restore EXCEPT ![j].pc = start]
  BY DEF StateJobStarts
<1>2. NoJob \notin StateJobs /\ restore \in [StateJobs -> Restores]
  BY Typed DEF AloneInv, FitsInv
<1>3. \A k \in StateJobs : restore[k] = Idle
  BY <1>2, OthersAreIdle DEF AloneInv, StateJobStarts
<1>4. restore'[j] = [Idle EXCEPT !.pc = start] /\ \A k \in StateJobs \ {j} : restore'[k] = Idle
  BY <1>1, <1>2, <1>3
<1>5. RestoresBeside'
  <2>. SUFFICES ASSUME NEW k \in StateJobs
       PROVE  /\ restore'[k].pc # "idle" => holder' = k /\ phase' = "clones"
              /\ RestoreGood(restore[k])'
    BY DEF RestoresBeside
  <2>1. PICK step \in {"idle", "looks"} : restore'[k] = [Idle EXCEPT !.pc = step]
    <3>1. Idle = [Idle EXCEPT !.pc = "idle"]
      BY DEF Idle
    <3>. QED  BY <1>4, <3>1
  <2>2. restore'[k].pc # "idle" => holder' = k /\ phase' = "clones"
    BY <1>4 DEF StateJobStarts, Idle
  <2>3. RestoreGood([Idle EXCEPT !.pc = step])'
    BY AskingIsGood
  <2>. QED  BY <2>1, <2>2, <2>3 DEF RestoreGood, NoCacheYet, Knows, ReadsManifest, FillsInOrder,
              OpensBeside, FolderIsWhole, Fills, Passed
<1>. QED  BY <1>2, <1>5 DEF AloneInv, HeldOrFree, StateJobStarts

\* Past the clones, or once its restore is awaited, the job is alone with the State.
LEMMA JobKeeps ==
  ASSUME ~RestoreMayOutlive, AloneInv, FitsInv', NEW j \in StateJobs, StateJobSteps(j)
  PROVE  AloneInv'
<1>1. CASE StateJobStarts(j)
  BY <1>1, StartsKeeps
<1>2. CASE ~StateJobStarts(j)
  <2>1. /\ holder = j /\ restore' = restore /\ (phase # "clones" \/ restore[j].pc = "idle")
        /\ \/ holder' = holder /\ phase' # "free"
           \/ holder' = NoJob /\ phase' = "free"
    BY <1>2 DEF StateJobSteps, EngineRuns, GivesUp, SaveReads, SaveUploads, SaveMisses, SavePutsManifest,
       SaveKeepsLocal, SaveDeletesStale, SaveMarksRow, SaveFails, Release
  <2>2. \A k \in StateJobs : restore'[k] = Idle
    BY <2>1, OthersAreIdle DEF AloneInv
  <2>3. HeldOrFree'
    BY <2>1, StateAssumption DEF HeldOrFree
  <2>. QED  BY <2>2, <2>3, RestingKeeps
<1>. QED  BY <1>1, <1>2

LEMMA RestartKeeps ==
  ASSUME FitsInv', BuilderRestarts
  PROVE  AloneInv'
BY RestingKeeps DEF BuilderRestarts, Release, HeldOrFree

-----------------------------------------------------------------------------
(* A restore *)

\* Whose restore is under way holds the repository, and no other restore is.
LEMMA RestoringHolds ==
  ASSUME AloneInv, NEW j \in StateJobs, restore[j].pc # "idle"
  PROVE  /\ holder = j /\ phase = "clones" /\ RestoreGood(restore[j])
         /\ restore[j] \in Restores /\ restore \in [StateJobs -> Restores]
         /\ Knows(restore[j]) => restore[j].names \in Files
         /\ \A k \in StateJobs \ {j} : restore[k] = Idle
<1>1. holder = j /\ phase = "clones" /\ RestoreGood(restore[j])
  BY DEF AloneInv, RestoresBeside
<1>2. \A k \in StateJobs \ {j} : restore[k] = Idle
  BY <1>1, OthersAreIdle DEF AloneInv
<1>3. restore[j] \in Restores /\ restore \in [StateJobs -> Restores]
  BY Typed DEF AloneInv, FitsInv
<1>4. Knows(restore[j]) => restore[j].names \in Files
  BY <1>3 DEF AloneInv, FitsInv, FieldsFit, Restores
<1>. QED  BY <1>1, <1>2, <1>3, <1>4

\* Nobody has a file open in what is moved or deleted.
LEMMA NoneIsOpen ==
  ASSUME NEW r \in [StateJobs -> Restores], NEW from, NEW to,
         \A k \in StateJobs : r[k].handle # from
  PROVE  Opened(r, from, to) = r
<1>1. \A k \in StateJobs : [r[k] EXCEPT !.handle = IF @ = from THEN to ELSE @] = r[k]
  <2>. SUFFICES ASSUME NEW k \in StateJobs
       PROVE  [r[k] EXCEPT !.handle = IF @ = from THEN to ELSE @] = r[k]
    OBVIOUS
  <2>1. r[k] \in Restores
    OBVIOUS
  <2>. QED  BY <2>1 DEF Restores
<1>. QED  BY <1>1 DEF Opened

LEMMA RestoreMoves ==
  ASSUME AloneInv, FitsInv', NEW j \in StateJobs, restore[j].pc # "idle", NEW q \in Restores,
         restore' = [restore EXCEPT ![j] = q], RestoreGood(q)', UNCHANGED <<holder, phase>>
  PROVE  AloneInv'
BY RestoringHolds, RestoreKeeps

LEMMA AsksKeeps ==
  ASSUME AloneInv, FitsInv', NEW j \in StateJobs, RestoreLooks(j) \/ RestoreAsks(j) \/ RestoreTouchesRow(j)
  PROVE  AloneInv'
<1>1. restore[j].pc \in {"looks", "asks", "touches"} /\ restore[j].pc # "idle"
  BY DEF RestoreLooks, RestoreAsks, RestoreTouchesRow, At
<1>2. restore[j].pc # "touches" => restore[j] = [Idle EXCEPT !.pc = restore[j].pc]
  BY <1>1, RestoringHolds DEF RestoreGood, ReadsManifest, Knows
<1>3. restore[j].pc = "asks" => ~hasCache(disk)
  BY <1>1, RestoringHolds DEF RestoreGood, NoCacheYet
<1>4. UNCHANGED <<disk, into, stored, manifest, holder, phase>>
  BY DEF RestoreLooks, RestoreAsks, RestoreTouchesRow
<1>5. CASE \E step \in {"idle", "asks"} : /\ step = "asks" => ~hasCache(disk)
                                          /\ restore' = [restore EXCEPT ![j] = [Idle EXCEPT !.pc = step]]
  <2>1. PICK step \in {"idle", "asks"} : /\ step = "asks" => ~hasCache(disk)
                                         /\ restore' = [restore EXCEPT ![j] = [Idle EXCEPT !.pc = step]]
    BY <1>5
  <2>2. PICK q : q = [Idle EXCEPT !.pc = step]
    OBVIOUS
  <2>3. q \in Restores
    BY <2>2, IdleIsRestore DEF Restores, PCs
  <2>4. RestoreGood([Idle EXCEPT !.pc = step])'
    BY <1>4, <2>1, AskingIsGood DEF hasCache
  <2>5. RestoreGood(q)'
    BY <2>2, <2>4
  <2>. QED  BY <1>1, <1>4, <2>1, <2>2, <2>3, <2>5, RestoreMoves
<1>6. CASE RestoreLooks(j)
  <2>1. PICK step \in {"idle", "asks"} : step = IF hasCache(disk) THEN "idle" ELSE "asks"
    OBVIOUS
  <2>2. [restore[j] EXCEPT !.pc = step] = [Idle EXCEPT !.pc = step]
    BY <1>2, <1>6, IdleIsRestore DEF RestoreLooks, At, Restores
  <2>3. restore' = [restore EXCEPT ![j] = [Idle EXCEPT !.pc = step]]
    BY <1>1, <1>6, <2>1, <2>2, RestoringHolds DEF RestoreLooks, Now
  <2>. QED  BY <1>5, <2>1, <2>3
<1>7. CASE RestoreAsks(j) /\ restore' = Now(j, "idle")
  <2>1. [restore[j] EXCEPT !.pc = "idle"] = [Idle EXCEPT !.pc = "idle"]
    BY <1>2, <1>7, IdleIsRestore DEF RestoreAsks, At, Restores
  <2>2. restore' = [restore EXCEPT ![j] = [Idle EXCEPT !.pc = "idle"]]
    BY <1>1, <1>7, <2>1, RestoringHolds DEF Now
  <2>. QED  BY <1>5, <2>2
<1>8. CASE RestoreAsks(j) /\ manifest # Nothing
             /\ restore' = [restore EXCEPT ![j].pc = "prepares", ![j].names = manifest]
  <2>1. PICK q : q = [Idle EXCEPT !.pc = "prepares", !.names = manifest]
    OBVIOUS
  <2>2. restore[j].pc = "asks"
    BY <1>8 DEF RestoreAsks, At
  <2>3. restore' = [restore EXCEPT ![j] = q]
    BY <1>2, <1>8, <2>1, <2>2, RestoringHolds DEF Idle
  <2>4. manifest \in Files /\ q \in Restores
    BY <1>8, <2>1, IdleIsRestore, Typed DEF AloneInv, FitsInv, Restores, PCs
  <2>5. /\ q.pc = "prepares" /\ q.names = manifest /\ q.file = 1 /\ q.done = 0
        /\ q.got = {} /\ q.handle = "none"
    BY <2>1 DEF Idle
  <2>6. NoCacheYet(q)' /\ ReadsManifest(q)' /\ OpensBeside(q)' /\ FolderIsWhole(q)'
    BY <1>3, <1>4, <2>2, <2>5 DEF NoCacheYet, hasCache, ReadsManifest, Knows, OpensBeside, FolderIsWhole, Fills
  <2>7. Passed(q) = {}
    BY <2>4, <2>5, ChunksAre DEF Passed
  <2>8. FillsInOrder(q)'
    BY <2>5, <2>7 DEF FillsInOrder, Passed
  <2>9. RestoreGood(q)'
    BY <2>6, <2>8 DEF RestoreGood
  <2>. QED  BY <1>1, <1>4, <2>3, <2>4, <2>9, RestoreMoves
<1>9. CASE RestoreTouchesRow(j)
  <2>1. restore' = [restore EXCEPT ![j] = [Idle EXCEPT !.pc = "idle"]]
    BY <1>9 DEF RestoreTouchesRow, Idle
  <2>. QED  BY <1>5, <2>1
<1>. QED  BY <1>6, <1>7, <1>8, <1>9 DEF RestoreAsks

LEMMA PreparesKeeps ==
  ASSUME AloneInv, FitsInv', NEW j \in StateJobs, RestorePrepares(j)
  PROVE  AloneInv'
<1>1. PICK r : r = restore[j]
  OBVIOUS
<1>2. r.pc = "prepares" /\ r.pc # "idle" /\ r \in Restores /\ RestoreGood(r)
  BY <1>1, RestoringHolds DEF RestorePrepares, At
<1>3. PICK q : q = [r EXCEPT !.pc = "fills"]
  OBVIOUS
<1>4. /\ q \in Restores /\ q.pc = "fills" /\ q.names = r.names /\ q.file = r.file
      /\ q.done = r.done /\ q.got = r.got /\ q.handle = r.handle
  BY <1>2, <1>3 DEF Restores, PCs
<1>5. restore' = [restore EXCEPT ![j] = q]
  <2>1. Now(j, "fills") = [restore EXCEPT ![j] = q]
    BY <1>1, <1>3, RestoringHolds, <1>2 DEF Now
  <2>2. \A k \in StateJobs : [restore EXCEPT ![j] = q][k].handle # "into"
    BY <1>1, <1>2, <1>4, RestoringHolds DEF RestoreGood, OpensBeside, Idle
  <2>3. [restore EXCEPT ![j] = q] \in [StateJobs -> Restores]
    BY <1>1, <1>2, <1>4, RestoringHolds
  <2>. QED  BY <2>1, <2>2, <2>3, NoneIsOpen DEF RestorePrepares
<1>6. into' = Folder(EmptyFiles, Nothing) /\ UNCHANGED <<disk, holder, phase>>
  BY DEF RestorePrepares
<1>7. NoCacheYet(q)' /\ ReadsManifest(q)' /\ OpensBeside(q)'
  BY <1>2, <1>4, <1>6 DEF RestoreGood, NoCacheYet, hasCache, ReadsManifest, Knows, OpensBeside, FillsInOrder
<1>8. r.file = 1 /\ r.done = 0 /\ r.names \in Files
  BY <1>1, <1>2, RestoringHolds DEF RestoreGood, FillsInOrder, Knows
<1>9. FillsInOrder(q)'
  <2>1. Len(r.names[1]) \in Nat /\ CacheFiles \in Nat \ {0}
    BY <1>8, StateAssumption DEF Files
  <2>2. Passed(q) = {}
    BY <1>4, <1>8, ChunksAre DEF Passed
  <2>. QED  BY <1>4, <1>6, <1>8, <2>1, <2>2 DEF FillsInOrder, Passed, Knows
<1>10. FolderIsWhole(q)'
  BY <1>4, <1>6, <1>8 DEF FolderIsWhole, Fills, Folder, EmptyFiles
<1>11. RestoreGood(q)'
  BY <1>7, <1>9, <1>10 DEF RestoreGood
<1>. QED  BY <1>1, <1>2, <1>4, <1>5, <1>6, <1>11, RestoreMoves

LEMMA GetsKeeps ==
  ASSUME AloneInv, FitsInv', NEW j \in StateJobs, NEW place, RestoreGets(j, place)
  PROVE  AloneInv'
<1>1. PICK r : r = restore[j]
  OBVIOUS
<1>2. r.pc = "fills" /\ r.pc # "idle" /\ r \in Restores /\ RestoreGood(r)
  BY <1>1, RestoringHolds DEF RestoreGets, At
<1>3. PICK q : q = [r EXCEPT !.got = @ \cup {place}]
  OBVIOUS
<1>4. r.names \in Files /\ place \in Places(r.names)
  BY <1>1, <1>2, RestoringHolds DEF Knows, RestoreGets
<1>5. q \in Restores
  <2>1. r.got \cup {place} \in SUBSET ((1 .. CacheFiles) \X Nat)
    BY <1>2, <1>4, ChunksAre DEF Restores
  <2>. QED  BY <1>2, <1>3, <2>1 DEF Restores
<1>6. /\ q.pc = "fills" /\ q.names = r.names /\ q.file = r.file
      /\ q.done = r.done /\ q.got = r.got \cup {place} /\ q.handle = r.handle
  BY <1>2, <1>3 DEF Restores
<1>7. restore' = [restore EXCEPT ![j] = q]
  BY <1>1, <1>3, RestoringHolds, <1>2 DEF RestoreGets
<1>8. UNCHANGED <<disk, into, holder, phase>>
  BY DEF RestoreGets
<1>9. NoCacheYet(q)' /\ ReadsManifest(q)' /\ OpensBeside(q)' /\ FolderIsWhole(q)'
  BY <1>2, <1>4, <1>6, <1>8
     DEF RestoreGood, NoCacheYet, hasCache, ReadsManifest, Knows, OpensBeside, FolderIsWhole, Fills
<1>10. FillsInOrder(q)'
  BY <1>2, <1>6, <1>8 DEF RestoreGood, FillsInOrder, Passed, Knows
<1>11. RestoreGood(q)'
  BY <1>9, <1>10 DEF RestoreGood
<1>. QED  BY <1>1, <1>2, <1>5, <1>7, <1>8, <1>11, RestoreMoves

LEMMA WritesKeeps ==
  ASSUME AloneInv, FitsInv', NEW j \in StateJobs, RestoreWrites(j)
  PROVE  AloneInv'
<1>1. PICK r : r = restore[j]
  OBVIOUS
<1>2. r.pc = "fills" /\ r.pc # "idle" /\ r \in Restores /\ RestoreGood(r)
  BY <1>1, RestoringHolds DEF RestoreWrites
<1>3. PICK handle : handle = IF r.handle = "none" THEN "into" ELSE r.handle
  OBVIOUS
<1>4. handle \in {"into", "gone"}
  BY <1>2, <1>3 DEF RestoreGood, OpensBeside, Restores
<1>5. PICK m \in Files : m = r.names
  BY <1>1, <1>2, RestoringHolds DEF Knows
<1>6. r.file \in 1 .. CacheFiles /\ r.done \in Nat
      /\ r.done < Len(m[r.file]) /\ <<r.file, r.done + 1>> \in r.got
      /\ (r.handle = "none" => into # Nothing)
  BY <1>1, <1>2, <1>5 DEF RestoreWrites, Restores
<1>7. PICK q : q = [r EXCEPT !.done = @ + 1, !.handle = handle]
  OBVIOUS
<1>8. /\ q \in Restores /\ q.pc = "fills" /\ q.names = m /\ q.file = r.file
      /\ q.done = r.done + 1 /\ q.got = r.got /\ q.handle = handle
  BY <1>2, <1>4, <1>5, <1>6, <1>7 DEF Restores, PCs
<1>9. restore' = [restore EXCEPT ![j] = q]
  BY <1>1, <1>2, <1>3, <1>7, RestoringHolds DEF RestoreWrites
<1>10. UNCHANGED <<disk, holder, phase>>
  BY <1>1, <1>3, <1>4 DEF RestoreWrites
<1>11. PICK chunk : chunk = m[r.file][r.done + 1]
  OBVIOUS
<1>12. into' = IF handle = "into" THEN [into EXCEPT !.files[r.file] = Append(@, chunk)] ELSE into
  BY <1>1, <1>3, <1>5, <1>11 DEF RestoreWrites
<1>13. NoCacheYet(q)' /\ ReadsManifest(q)'
  BY <1>2, <1>5, <1>8, <1>10 DEF RestoreGood, NoCacheYet, hasCache, ReadsManifest, Knows
<1>14. FillsInOrder(q)'
  <2>1. \A f \in 1 .. CacheFiles : Len(m[f]) \in Nat
    BY <1>5 DEF Files
  <2>2. q.file <= CacheFiles /\ q.done <= Len(m[q.file])
    BY <1>6, <1>8, <2>1
  <2>3. Passed(q) \subseteq q.got
    <3>. SUFFICES ASSUME NEW place \in Passed(q)  PROVE place \in q.got
      OBVIOUS
    <3>1. place \in Places(m) /\ place[1] \in 1 .. CacheFiles /\ place[2] \in Nat
          /\ place = <<place[1], place[2]>>
          /\ (place[1] < r.file \/ (place[1] = r.file /\ place[2] <= r.done + 1))
      BY <1>5, <1>8, <2>1, ChunksAre DEF Passed
    <3>2. CASE place \in Passed(r)
      BY <1>2, <1>8, <3>2 DEF RestoreGood, FillsInOrder, Knows
    <3>3. CASE place \notin Passed(r)
      <4>1. place[1] = r.file /\ place[2] = r.done + 1
        BY <1>5, <1>6, <3>1, <3>3 DEF Passed
      <4>. QED  BY <1>6, <1>8, <3>1, <4>1
    <3>. QED  BY <3>2, <3>3
  <2>. QED  BY <1>8, <1>10, <2>2, <2>3 DEF FillsInOrder, Passed
<1>15. into \in {Nothing} \cup Folders /\ (into # Nothing => handle = "into") /\ (handle = "into" => into # Nothing)
  BY <1>2, <1>3, <1>4, <1>6, Typed DEF RestoreGood, OpensBeside, AloneInv, FitsInv
<1>16. CASE handle = "into"
  <2>1. PICK g : g = into.files
    OBVIOUS
  <2>2. into \in Folders /\ g \in Files /\ into # Nothing /\ chunk \in Chunks
        /\ g[r.file] \in Seq(Chunks) /\ Len(g[r.file]) = r.done
        /\ DOMAIN g = 1 .. CacheFiles
    <3>1. into \in Folders /\ g \in Files /\ into # Nothing
      BY <1>15, <1>16, <2>1, NothingIsNoFolder DEF Folders
    <3>2. Len(g[r.file]) = r.done
      BY <1>2, <1>6, <2>1, <3>1 DEF RestoreGood, FolderIsWhole, Fills
    <3>3. m[r.file] \in Seq(Chunks) /\ g[r.file] \in Seq(Chunks) /\ DOMAIN g = 1 .. CacheFiles
      BY <1>5, <1>6, <3>1 DEF Files
    <3>4. chunk \in Chunks
      <4>1. Len(m[r.file]) \in Nat
        BY <3>3
      <4>2. r.done + 1 \in 1 .. Len(m[r.file])
        BY <1>6, <4>1
      <4>. QED  BY <1>11, <3>3, <4>2
    <3>. QED  BY <3>1, <3>2, <3>3, <3>4
  <2>3. PICK longer : longer = [g EXCEPT ![r.file] = Append(@, chunk)]
    OBVIOUS
  <2>4. longer \in Files /\ longer[r.file] = Append(g[r.file], chunk)
        /\ \A f \in 1 .. CacheFiles : f # r.file => longer[f] = g[f]
    BY <1>6, <2>2, <2>3 DEF Files
  <2>5. into' \in Folders /\ into'.files = longer
    BY <1>12, <1>16, <2>1, <2>2, <2>3, <2>4 DEF Folders
  <2>6. FolderIsWhole(q)'
    <3>. SUFFICES ASSUME NEW f \in 1 .. CacheFiles
         PROVE  /\ Len(longer[f]) = IF f < q.file THEN Len(m[f])
                                    ELSE IF f = q.file THEN q.done ELSE 0
                /\ \A i \in 1 .. Len(longer[f]) : longer[f][i] = m[f][i]
      BY <1>8, <2>5 DEF FolderIsWhole, Fills
    <3>1. /\ Len(g[f]) = IF f < r.file THEN Len(m[f])
                         ELSE IF f = r.file THEN r.done ELSE 0
          /\ \A i \in 1 .. Len(g[f]) : g[f][i] = m[f][i]
      BY <1>2, <1>5, <2>1, <2>2 DEF RestoreGood, FolderIsWhole, Fills
    <3>2. CASE f # r.file
      BY <1>8, <2>4, <3>1, <3>2
    <3>3. CASE f = r.file
      <4>1. Len(longer[f]) = r.done + 1
        BY <2>2, <2>4, <3>3
      <4>2. \A i \in 1 .. r.done : longer[f][i] = g[f][i]
        BY <2>2, <2>4, <3>3
      <4>3. longer[f][r.done + 1] = chunk
        BY <2>2, <2>4, <3>3
      <4>. QED  BY <1>6, <1>8, <1>11, <2>2, <3>1, <3>3, <4>1, <4>2, <4>3
    <3>. QED  BY <3>2, <3>3
  <2>7. OpensBeside(q)'
    BY <1>8, <1>16, <2>5, NothingIsNoFolder DEF OpensBeside
  <2>8. RestoreGood(q)'
    BY <1>13, <1>14, <2>6, <2>7 DEF RestoreGood
  <2>. QED  BY <1>1, <1>2, <1>8, <1>9, <1>10, <2>8, RestoreMoves
<1>17. CASE handle = "gone"
  <2>1. into = Nothing /\ into' = Nothing
    BY <1>12, <1>15, <1>17
  <2>2. FolderIsWhole(q)' /\ OpensBeside(q)'
    BY <1>8, <1>17, <2>1 DEF FolderIsWhole, OpensBeside
  <2>3. RestoreGood(q)'
    BY <1>13, <1>14, <2>2 DEF RestoreGood
  <2>. QED  BY <1>1, <1>2, <1>8, <1>9, <1>10, <2>3, RestoreMoves
<1>. QED  BY <1>4, <1>16, <1>17

LEMMA ClosesKeeps ==
  ASSUME AloneInv, FitsInv', NEW j \in StateJobs, RestoreClosesFile(j)
  PROVE  AloneInv'
<1>1. PICK r : r = restore[j]
  OBVIOUS
<1>2. r.pc = "fills" /\ r.pc # "idle" /\ r \in Restores /\ RestoreGood(r)
  BY <1>1, RestoringHolds DEF RestoreClosesFile
<1>3. PICK m \in Files : m = r.names
  BY <1>1, <1>2, RestoringHolds DEF Knows
<1>4. r.file \in 1 .. CacheFiles /\ CacheFiles \in Nat /\ r.done = Len(m[r.file])
  BY <1>1, <1>2, <1>3, StateAssumption DEF RestoreClosesFile, Restores
<1>5. PICK q : q = [r EXCEPT !.file = @ + 1, !.done = 0, !.handle = "none",
                             !.pc = IF r.file = CacheFiles THEN "lists" ELSE "fills"]
  OBVIOUS
<1>6. /\ q.pc = IF r.file = CacheFiles THEN "lists" ELSE "fills"
      /\ q.names = m /\ q.file = r.file + 1 /\ q.done = 0 /\ q.got = r.got /\ q.handle = "none"
      /\ q \in Restores
  <2>1. PICK pc \in {"lists", "fills"} : pc = IF r.file = CacheFiles THEN "lists" ELSE "fills"
    OBVIOUS
  <2>2. q = [r EXCEPT !.file = @ + 1, !.done = 0, !.handle = "none", !.pc = pc]
    BY <1>5, <2>1
  <2>3. r.file + 1 \in 1 .. CacheFiles + 1
    BY <1>4
  <2>. QED  BY <1>2, <1>3, <2>1, <2>2, <2>3 DEF Restores, PCs
<1>7. restore' = [restore EXCEPT ![j] = q] /\ UNCHANGED <<disk, into, holder, phase>>
  BY <1>1, <1>5 DEF RestoreClosesFile
<1>8. \A f \in 1 .. CacheFiles : Len(m[f]) \in Nat
  BY <1>3 DEF Files
<1>9. NoCacheYet(q)' /\ ReadsManifest(q)' /\ OpensBeside(q)'
  BY <1>2, <1>3, <1>6, <1>7 DEF RestoreGood, NoCacheYet, hasCache, ReadsManifest, Knows, OpensBeside
<1>10. FillsInOrder(q)'
  <2>1. Passed(q) \subseteq Passed(r)
    BY <1>3, <1>4, <1>6, <1>8, ChunksAre DEF Passed
  <2>2. Passed(q) \subseteq q.got
    BY <1>2, <1>6, <2>1 DEF RestoreGood, FillsInOrder, Knows
  <2>3. q.pc = "fills" => q.file \in 1 .. CacheFiles /\ q.done <= Len(m[q.file])
    BY <1>4, <1>6, <1>8
  <2>. QED  BY <1>4, <1>6, <2>2, <2>3 DEF FillsInOrder, Passed
<1>11. FolderIsWhole(q)'
  <2>. SUFFICES ASSUME into # Nothing, NEW f \in 1 .. CacheFiles
       PROVE  /\ Len(into.files[f]) = IF f < q.file THEN Len(m[f])
                                      ELSE IF f = q.file THEN q.done ELSE 0
              /\ \A i \in 1 .. Len(into.files[f]) : into.files[f][i] = m[f][i]
    BY <1>6, <1>7 DEF FolderIsWhole, Fills
  <2>1. /\ Len(into.files[f]) = IF f < r.file THEN Len(m[f])
                                ELSE IF f = r.file THEN r.done ELSE 0
        /\ \A i \in 1 .. Len(into.files[f]) : into.files[f][i] = m[f][i]
    BY <1>2, <1>3 DEF RestoreGood, FolderIsWhole, Fills
  <2>. QED  BY <1>4, <1>6, <2>1
<1>12. RestoreGood(q)'
  BY <1>9, <1>10, <1>11 DEF RestoreGood
<1>. QED  BY <1>1, <1>2, <1>6, <1>7, <1>12, RestoreMoves

\* The manifest is written into the folder, the root removed, the folder moved.
LEMMA MovesKeeps ==
  ASSUME AloneInv, FitsInv', NEW j \in StateJobs,
         RestoreWritesLocal(j) \/ RestoreRemovesRoot(j) \/ RestoreRenames(j)
  PROVE  AloneInv'
<1>1. PICK r : r = restore[j]
  OBVIOUS
<1>2. /\ r.pc \in {"lists", "removes", "renames"} /\ r.pc # "idle" /\ r \in Restores /\ RestoreGood(r)
      /\ r.names \in Files /\ into \in {Nothing} \cup Folders /\ UNCHANGED <<holder, phase>>
  BY <1>1, RestoringHolds, Typed
     DEF RestoreWritesLocal, RestoreRemovesRoot, RestoreRenames, At, Knows, AloneInv, FitsInv
<1>3. ASSUME NEW pc \in {"removes", "renames", "touches"}
      PROVE  \E q \in Restores :
               /\ q.pc = pc /\ q.names = r.names /\ q.file = r.file /\ q.done = r.done
               /\ q.got = r.got /\ q.handle = "none" /\ Now(j, pc) = [restore EXCEPT ![j] = q]
               /\ Opened(Now(j, pc), "disk", "gone") = Now(j, pc)
               /\ Opened(Now(j, pc), "into", "disk") = Now(j, pc)
  <2>1. PICK q : q = [r EXCEPT !.pc = pc]
    OBVIOUS
  <2>2. /\ q \in Restores /\ q.pc = pc /\ q.names = r.names /\ q.file = r.file /\ q.done = r.done
        /\ q.got = r.got /\ q.handle = r.handle /\ r.handle = "none"
    BY <1>2, <2>1 DEF Restores, PCs, RestoreGood, OpensBeside
  <2>3. Now(j, pc) = [restore EXCEPT ![j] = q]
    BY <1>1, <1>2, <2>1, RestoringHolds DEF Now
  <2>4. PICK moved : moved = Now(j, pc)
    OBVIOUS
  <2>5. moved \in [StateJobs -> Restores] /\ \A k \in StateJobs : moved[k].handle = "none"
    BY <1>1, <1>2, <2>2, <2>3, <2>4, RestoringHolds DEF Idle
  <2>6. Opened(moved, "disk", "gone") = moved /\ Opened(moved, "into", "disk") = moved
    BY <2>5, NoneIsOpen
  <2>. QED  BY <2>2, <2>3, <2>4, <2>6
<1>4. CASE RestoreWritesLocal(j)
  <2>1. PICK q \in Restores :
          /\ q.pc = "removes" /\ q.names = r.names /\ q.file = r.file /\ q.done = r.done
          /\ q.got = r.got /\ q.handle = "none" /\ restore' = [restore EXCEPT ![j] = q]
    BY <1>3, <1>4 DEF RestoreWritesLocal
  <2>2. r.pc = "lists" /\ into' \in Folders /\ into'.files = into.files /\ into'.local = r.names
        /\ into # Nothing /\ disk' = disk
    BY <1>1, <1>2, <1>4 DEF RestoreWritesLocal, At, Folders
  <2>3. RestoreGood(q)'
    BY <1>2, <2>1, <2>2 DEF RestoreGood, NoCacheYet, hasCache, ReadsManifest, Knows, FillsInOrder, Passed,
       OpensBeside, FolderIsWhole, Fills
  <2>. QED  BY <1>1, <1>2, <2>1, <2>3, RestoreMoves
<1>5. CASE RestoreRemovesRoot(j)
  <2>1. PICK q \in Restores :
          /\ q.pc = "renames" /\ q.names = r.names /\ q.file = r.file /\ q.done = r.done
          /\ q.got = r.got /\ q.handle = "none" /\ restore' = [restore EXCEPT ![j] = q]
    BY <1>3, <1>5 DEF RestoreRemovesRoot
  <2>2. r.pc = "removes" /\ disk' = Nothing /\ into' = into
    BY <1>1, <1>5 DEF RestoreRemovesRoot, At
  <2>3. RestoreGood(q)'
    BY <1>2, <2>1, <2>2 DEF RestoreGood, NoCacheYet, hasCache, ReadsManifest, Knows, FillsInOrder, Passed,
       OpensBeside, FolderIsWhole, Fills
  <2>. QED  BY <1>1, <1>2, <2>1, <2>3, RestoreMoves
<1>6. CASE RestoreRenames(j)
  <2>1. PICK q \in Restores :
          /\ q.pc = "touches" /\ q.names = r.names /\ q.file = r.file /\ q.done = r.done
          /\ q.got = r.got /\ q.handle = "none" /\ restore' = [restore EXCEPT ![j] = q]
    BY <1>3, <1>6 DEF RestoreRenames
  <2>2. r.pc = "renames" /\ into' = Nothing
    BY <1>1, <1>6 DEF RestoreRenames, At
  <2>3. RestoreGood(q)'
    BY <1>2, <2>1, <2>2 DEF RestoreGood, NoCacheYet, ReadsManifest, Knows, FillsInOrder, Passed,
       OpensBeside, FolderIsWhole, Fills
  <2>. QED  BY <1>1, <1>2, <2>1, <2>3, RestoreMoves
<1>. QED  BY <1>4, <1>5, <1>6

LEMMA FailsKeeps ==
  ASSUME AloneInv, FitsInv', NEW j \in StateJobs, RestoreFails(j)
  PROVE  AloneInv'
<1>1. restore[j].pc # "idle" /\ UNCHANGED <<holder, phase>>
  BY DEF RestoreFails
<1>2. PICK r : r = [restore EXCEPT ![j] = Idle]
  OBVIOUS
<1>3. r \in [StateJobs -> Restores] /\ \A k \in StateJobs : r[k].handle # "into"
  BY <1>1, <1>2, RestoringHolds, IdleIsRestore DEF Idle
<1>4. restore' = r
  <2>1. Opened(r, "into", "gone") = r
    BY <1>3, NoneIsOpen
  <2>2. restore' = Opened(r, "into", "gone")
    BY <1>2 DEF RestoreFails
  <2>. QED  BY <2>1, <2>2
<1>. QED  BY <1>1, <1>2, <1>4, IdleIsGood, IdleIsRestore, RestoreMoves

LEMMA RestoreStepsKeep ==
  ASSUME AloneInv, FitsInv', NEW j \in StateJobs, RestoreSteps(j)
  PROVE  AloneInv'
BY AsksKeeps, PreparesKeeps, GetsKeeps, WritesKeeps, ClosesKeeps, MovesKeeps, FailsKeeps DEF RestoreSteps

-----------------------------------------------------------------------------
(* Beside *)

LEMMA PruneCacheKeeps ==
  ASSUME AloneInv, FitsInv', PruneCache
  PROVE  AloneInv'
<1>1. \A k \in StateJobs : restore[k] = Idle
  BY OthersAreIdle, StateAssumption DEF PruneCache, AloneInv
<1>2. restore' = restore
  <2>1. restore \in [StateJobs -> Restores] /\ \A k \in StateJobs : restore[k].handle # "disk"
    BY <1>1, Typed DEF AloneInv, FitsInv, Idle
  <2>. QED  BY <2>1, NoneIsOpen DEF PruneCache
<1>. QED  BY <1>1, <1>2, RestingKeeps DEF PruneCache, AloneInv, HeldOrFree

LEMMA PruneRestoringKeeps ==
  ASSUME AloneInv, FitsInv', PruneRestoring
  PROVE  AloneInv'
<1>1. /\ restore \in [StateJobs -> Restores] /\ into' = Nothing /\ UNCHANGED <<disk, holder, phase>>
      /\ restore' = Opened(restore, "into", "gone")
  BY Typed DEF AloneInv, FitsInv, PruneRestoring
<1>2. CASE \A k \in StateJobs : restore[k].handle # "into"
  <2>1. restore' = restore
    BY <1>1, <1>2, NoneIsOpen
  <2>2. ASSUME NEW k \in StateJobs
        PROVE  /\ restore'[k].pc # "idle" => holder' = k /\ phase' = "clones"
               /\ RestoreGood(restore[k])'
    <3>1. RestoreGood(restore[k]) /\ (restore[k].pc # "idle" => holder = k /\ phase = "clones")
      BY DEF AloneInv, RestoresBeside
    <3>. QED  BY <1>1, <1>2, <2>1, <3>1 DEF RestoreGood, NoCacheYet, hasCache, ReadsManifest, Knows,
                FillsInOrder, Passed, OpensBeside, FolderIsWhole, Fills
  <2>. QED  BY <1>1, <2>2 DEF RestoresBeside, AloneInv, HeldOrFree
<1>3. CASE \E j \in StateJobs : restore[j].handle = "into"
  <2>1. PICK j \in StateJobs : restore[j].handle = "into"
    BY <1>3
  <2>2. PICK r : r = restore[j]
    OBVIOUS
  <2>3. r.pc = "fills" /\ restore[j].pc # "idle"
    BY <2>1, <2>2 DEF AloneInv, RestoresBeside, RestoreGood, OpensBeside
  <2>4. r \in Restores /\ RestoreGood(r) /\ \A k \in StateJobs \ {j} : restore[k] = Idle
    BY <2>2, <2>3, RestoringHolds
  <2>5. PICK q : q = [r EXCEPT !.handle = "gone"]
    OBVIOUS
  <2>6. /\ q.pc = "fills" /\ q.names = r.names /\ q.file = r.file /\ q.done = r.done
        /\ q.got = r.got /\ q.handle = "gone" /\ q \in Restores
    BY <2>3, <2>4, <2>5 DEF Restores
  <2>7. restore' = [restore EXCEPT ![j] = q]
    <3>1. \A k \in StateJobs : [restore[k] EXCEPT !.handle = IF @ = "into" THEN "gone" ELSE @]
                                 = IF k = j THEN q ELSE restore[k]
      <4>. SUFFICES ASSUME NEW k \in StateJobs
           PROVE  [restore[k] EXCEPT !.handle = IF @ = "into" THEN "gone" ELSE @]
                                 = IF k = j THEN q ELSE restore[k]
        OBVIOUS
      <4>1. CASE k = j
        BY <2>1, <2>2, <2>5, <4>1
      <4>2. CASE k # j
        <5>1. restore[k] \in Restores /\ restore[k].handle # "into"
          BY <1>1, <2>4, <4>2 DEF Idle
        <5>. QED  BY <4>2, <5>1 DEF Restores
      <4>. QED  BY <4>1, <4>2
    <3>. QED  BY <1>1, <3>1 DEF Opened
  <2>8. RestoreGood(q)'
    BY <1>1, <2>3, <2>4, <2>6 DEF RestoreGood, NoCacheYet, hasCache, ReadsManifest, Knows, FillsInOrder,
       Passed, OpensBeside, FolderIsWhole
  <2>. QED  BY <1>1, <2>3, <2>6, <2>7, <2>8, RestoreMoves
<1>. QED  BY <1>2, <1>3

\* forgetStates, and time, touch neither a restore nor a folder.
LEMMA StandsStill ==
  ASSUME AloneInv, FitsInv', UNCHANGED <<disk, into, holder, phase, restore>>
  PROVE  AloneInv'
BY DEF AloneInv, HeldOrFree, RestoresBeside, RestoreGood, NoCacheYet, hasCache, ReadsManifest, Knows,
   FillsInOrder, Passed, OpensBeside, FolderIsWhole, Fills

LEMMA AloneKeeps ==
  ASSUME ~RestoreMayOutlive, AloneInv, [StateNext]_stateVars
  PROVE  AloneInv'
<1>1. FitsInv'
  BY FitsKeeps DEF AloneInv
<1>2. CASE UNCHANGED stateVars
  BY <1>1, <1>2, StandsStill DEF stateVars
<1>3. ASSUME NEW j \in StateJobs, StateJobSteps(j) \/ RestoreSteps(j)  PROVE AloneInv'
  BY <1>1, <1>3, JobKeeps, RestoreStepsKeep
<1>4. CASE Beside
  <2>1. CASE PruneCache \/ PruneRestoring \/ BuilderRestarts
    BY <1>1, <2>1, PruneCacheKeeps, PruneRestoringKeeps, RestartKeeps
  <2>2. CASE StateAges \/ ForgetLists \/ ForgetDeletesPage \/ ForgetDeletesManifest \/ ForgetDeletesRow \/ ForgetFails
    BY <1>1, <2>2, StandsStill DEF StateAges, ForgetLists, ForgetDeletesPage, ForgetDeletesManifest,
       ForgetDeletesRow, ForgetFails
  <2>. QED  BY <1>4, <2>1, <2>2 DEF Beside
<1>. QED  BY <1>2, <1>3, <1>4 DEF StateNext

LEMMA AloneHolds == ASSUME ~RestoreMayOutlive PROVE StateSpec => []AloneInv
<1>1. StateInit => AloneInv
  <2>. SUFFICES ASSUME StateInit  PROVE AloneInv
    OBVIOUS
  <2>1. \A k \in StateJobs : restore[k] = Idle
    BY DEF StateInit
  <2>2. \A k \in StateJobs : restore[k].pc = "idle" /\ RestoreGood(restore[k])
    BY <2>1, IdleIsGood DEF Idle
  <2>. QED  BY <2>2, FitsBegins DEF StateInit, AloneInv, HeldOrFree, RestoresBeside
<1>2. AloneInv /\ [StateNext]_stateVars => AloneInv'
  BY AloneKeeps
<1>. QED  BY <1>1, <1>2, PTL DEF StateSpec

-----------------------------------------------------------------------------
(* What R2 holds, where States are forgotten in order *)

Stays == \A j \in StateJobs : StillThere(restore[j])

LEMMA IdleNeedsNothing ==
  ASSUME \A j \in StateJobs : restore'[j] = Idle
  PROVE  Stays'
BY DEF Stays, StillThere, Knows, Idle

\* Whose steps these are, forgetStates is not at it, and after the engine's run no restore is.
LEMMA HolderIsAlone ==
  ASSUME StoredInv, NEW j \in StateJobs, holder = j
  PROVE  /\ holder # NoJob /\ phase # "free" /\ forget = "idle"
         /\ phase # "clones" \/ restore[j].pc = "idle" => \A k \in StateJobs : restore[k] = Idle
<1>1. holder # NoJob
  BY StateAssumption
<1>2. phase # "free" /\ forget = "idle"
  BY <1>1 DEF StoredInv, AloneInv, HeldOrFree, ForgetsAlone
<1>3. ASSUME phase # "clones" \/ restore[j].pc = "idle", NEW k \in StateJobs  PROVE restore[k] = Idle
  BY <1>3, OthersAreIdle DEF StoredInv, AloneInv
<1>. QED  BY <1>1, <1>2, <1>3

LEMMA StartsStores ==
  ASSUME ~ForgetBeside, StoredInv, AloneInv', NEW j \in StateJobs, StateJobStarts(j)
  PROVE  StoredInv'
<1>1. PICK start \in {"looks", "idle"} : restore' = [restore EXCEPT ![j].pc = start]
  BY DEF StateJobStarts
<1>2. \A k \in StateJobs : restore[k] = Idle
  BY OthersAreIdle, StateAssumption DEF StoredInv, AloneInv, StateJobStarts
<1>3. restore \in [StateJobs -> Restores]
  BY Typed DEF StoredInv, AloneInv, FitsInv
<1>4. \A k \in StateJobs : restore'[k].pc \in {"looks", "idle"}
  BY <1>1, <1>2, <1>3 DEF Idle
<1>5. Stays'
  BY <1>4 DEF Stays, StillThere, Knows
<1>6. ForgetsAlone' /\ SavesWhole' /\ StateIsStored' /\ LocalIsHeld'
  BY DEF StoredInv, ForgetsAlone, SavesWhole, StateIsStored, LocalIsHeld, StateJobStarts
<1>. QED  BY <1>5, <1>6 DEF StoredInv, Stays

\* The rest of what the job does: no restore is under way, and nothing is forgotten.
LEMMA AloneStores ==
  ASSUME StoredInv, AloneInv', NEW j \in StateJobs, holder = j, phase # "clones" \/ restore[j].pc = "idle",
         UNCHANGED <<restore, forget>>, SavesWhole', StateIsStored', LocalIsHeld'
  PROVE  StoredInv'
<1>1. forget' = "idle" /\ \A k \in StateJobs : restore'[k] = Idle
  BY HolderIsAlone
<1>2. ForgetsAlone' /\ Stays'
  BY <1>1, IdleNeedsNothing DEF ForgetsAlone
<1>. QED  BY <1>2 DEF StoredInv, Stays

LEMMA EndsStores ==
  ASSUME ~RestoreMayOutlive, StoredInv, AloneInv', NEW j \in StateJobs, GivesUp(j) \/ SaveFails(j) \/ SaveMarksRow(j)
  PROVE  StoredInv'
<1>1. /\ holder = j /\ (phase # "clones" \/ restore[j].pc = "idle") /\ phase' = "free"
      /\ UNCHANGED <<disk, stored, missed, manifest, restore, forget>>
      /\ row' = row \/ phase = "marks"
  BY DEF GivesUp, SaveFails, SaveMarksRow, Release
<1>2. SavesWhole' /\ LocalIsHeld'
  BY <1>1 DEF StoredInv, SavesWhole, LocalIsHeld
<1>3. StateIsStored'
  BY <1>1 DEF StoredInv, SavesWhole, StateIsStored
<1>. QED  BY <1>1, <1>2, <1>3, AloneStores

LEMMA JobStores ==
  ASSUME ~RestoreMayOutlive, ~ForgetBeside, StoredInv, AloneInv', NEW j \in StateJobs, StateJobSteps(j)
  PROVE  StoredInv'
<1>1. /\ FitsInv /\ save \in Saves /\ disk \in {Nothing} \cup Folders /\ stored \subseteq Chunks
      /\ SavesWhole /\ StateIsStored /\ LocalIsHeld
  BY Typed DEF StoredInv, AloneInv, FitsInv
<1>2. CASE EngineRuns(j)
  <2>1. PICK files \in Caches : disk' = Folder(files, readLocal(disk))
    BY <1>2 DEF EngineRuns
  <2>2. readLocal(disk') = readLocal(disk)
    <3>1. Folder(files, readLocal(disk)) \in Folders
      BY <1>1, StateAssumption DEF Folders, Folder, readLocal
    <3>. QED  BY <2>1, <3>1, NothingIsNoFolder DEF Folder, readLocal
  <2>3. SavesWhole' /\ StateIsStored' /\ LocalIsHeld'
    BY <1>1, <1>2, <2>2 DEF EngineRuns, SavesWhole, StateIsStored, LocalIsHeld
  <2>. QED  BY <1>2, <2>3, AloneStores DEF EngineRuns
<1>3. CASE SaveReads(j)
  <2>1. save'.before = ChunksOf(readLocal(disk)) /\ save'.left = ChunksOf(save'.names) \ save'.before
    BY <1>3 DEF SaveReads
  <2>2. save'.before \cup (ChunksOf(save'.names) \ save'.left) \subseteq stored \cup missed
    BY <1>1, <2>1 DEF LocalIsHeld
  <2>3. SavesWhole' /\ StateIsStored' /\ LocalIsHeld'
    BY <1>1, <1>3, <2>2 DEF SaveReads, SavesWhole, StateIsStored, LocalIsHeld
  <2>. QED  BY <1>3, <2>3, AloneStores DEF SaveReads
<1>4. ASSUME NEW c \in Chunks, SaveUploads(j, c)  PROVE StoredInv'
  <2>1. /\ stored' = stored \cup {c} /\ save'.before = save.before /\ save'.names = save.names
        /\ save'.left = save.left \ {c}
    BY <1>1, <1>4 DEF SaveUploads, Saves
  <2>2. SavesWhole' /\ StateIsStored' /\ LocalIsHeld'
    BY <1>1, <1>4, <2>1 DEF SaveUploads, SavesWhole, StateIsStored, LocalIsHeld
  <2>. QED  BY <1>4, <2>2, AloneStores DEF SaveUploads
<1>5. CASE SavePutsManifest(j)
  <2>1. ChunksOf(save.names) \subseteq stored \cup missed
    BY <1>1, <1>5 DEF SavePutsManifest, SavesWhole
  <2>2. SavesWhole' /\ StateIsStored' /\ LocalIsHeld'
    BY <1>1, <1>5, <2>1 DEF SavePutsManifest, SavesWhole, StateIsStored, LocalIsHeld
  <2>. QED  BY <1>5, <2>2, AloneStores DEF SavePutsManifest
<1>6. CASE SaveKeepsLocal(j)
  <2>1. disk \in Folders /\ save.names \in Files /\ disk' = [disk EXCEPT !.local = save.names]
    BY <1>1, <1>6 DEF SaveKeepsLocal, FitsInv, Saves
  <2>2. disk' # Nothing /\ disk'.local = save.names
    BY <2>1, NothingIsNoFolder DEF Folders
  <2>3. SavesWhole' /\ StateIsStored' /\ LocalIsHeld'
    BY <1>1, <1>6, <2>2 DEF SaveKeepsLocal, SavesWhole, StateIsStored, LocalIsHeld, readLocal
  <2>. QED  BY <1>6, <2>3, AloneStores DEF SaveKeepsLocal
<1>7. CASE SaveDeletesStale(j)
  <2>1. ChunksOf(save.names) \subseteq stored' \cup missed'
    BY <1>1, <1>7 DEF SaveDeletesStale, SavesWhole
  <2>2. SavesWhole' /\ StateIsStored' /\ LocalIsHeld'
    BY <1>1, <1>7, <2>1 DEF SaveDeletesStale, SavesWhole, StateIsStored, LocalIsHeld, readLocal
  <2>. QED  BY <1>7, <2>2, AloneStores DEF SaveDeletesStale
<1>8. ASSUME NEW c \in Chunks, SaveMisses(j, c)  PROVE StoredInv'
  <2>1. /\ missed' = missed \cup ({c} \ stored) /\ save'.before = save.before /\ save'.names = save.names
        /\ save'.left = save.left \ {c}
    BY <1>1, <1>8 DEF SaveMisses, Saves
  <2>2. SavesWhole' /\ StateIsStored' /\ LocalIsHeld'
    BY <1>1, <1>8, <2>1 DEF SaveMisses, SavesWhole, StateIsStored, LocalIsHeld
  <2>. QED  BY <1>8, <2>2, AloneStores DEF SaveMisses
<1>. QED  BY <1>2, <1>3, <1>4, <1>5, <1>6, <1>7, <1>8, StartsStores, EndsStores DEF StateJobSteps

\* Once every file is closed, all the manifest names was got.
LEMMA AllIsGot ==
  ASSUME StoredInv, NEW j \in StateJobs, restore[j].pc \in {"lists", "removes", "renames", "touches"}
  PROVE  ChunksOf(manifest) \subseteq stored \cup missed
<1> DEFINE r == restore[j]
<1>1. ReadsManifest(r) /\ FillsInOrder(r) /\ Knows(r) /\ StillThere(r) /\ r.names \in Files
  BY RestoringHolds DEF StoredInv, RestoreGood, Knows
<1>2. \A place \in Places(manifest) : place \in r.got
  BY <1>1, ChunksAre, StateAssumption DEF FillsInOrder, Passed, StillThere
<1>3. \A place \in Places(manifest) : manifest[place[1]][place[2]] \in stored
  BY <1>1, <1>2 DEF StillThere
<1>. QED  BY <1>1, <1>3, ChunksAre DEF StillThere

\* What is made, moved or deleted takes nothing from what a restore has read and got.
LEMMA MovesStay ==
  ASSUME restore \in [StateJobs -> Restores], NEW j \in StateJobs, NEW k \in StateJobs,
         RestorePrepares(j) \/ RestoreRemovesRoot(j) \/ RestoreRenames(j) \/ RestoreFails(j)
  PROVE  Knows(restore'[k]) =>
           restore'[k].names = restore[k].names /\ restore'[k].got = restore[k].got /\ Knows(restore[k])
<1> DEFINE Same(old) == /\ old \in [StateJobs -> Restores]
                        /\ Knows(old[k]) => /\ old[k].names = restore[k].names
                                            /\ old[k].got = restore[k].got /\ Knows(restore[k])
<1>1. ASSUME NEW pc \in {"fills", "renames", "touches"}, Knows(restore[j])  PROVE Same(Now(j, pc))
  <2>1. PICK q : q = [restore[j] EXCEPT !.pc = pc]
    OBVIOUS
  <2>2. q \in Restores /\ q.names = restore[j].names /\ q.got = restore[j].got
    BY <2>1 DEF Restores, PCs
  <2>3. Now(j, pc) = [restore EXCEPT ![j] = q]
    BY <2>1 DEF Now
  <2>. QED  BY <1>1, <2>2, <2>3
<1>2. Same([restore EXCEPT ![j] = Idle])
  BY IdleIsRestore DEF Idle, Knows
<1>3. ASSUME NEW old, Same(old), NEW from, NEW to \in {"disk", "gone"}  PROVE Same(Opened(old, from, to))
  BY <1>3, OpenedIs DEF Knows
<1>4. CASE RestorePrepares(j)
  BY <1>1, <1>3, <1>4 DEF RestorePrepares, At, Knows
<1>5. CASE RestoreRemovesRoot(j)
  BY <1>1, <1>3, <1>5 DEF RestoreRemovesRoot, At, Knows
<1>6. CASE RestoreRenames(j)
  BY <1>1, <1>3, <1>6 DEF RestoreRenames, At, Knows
<1>7. CASE RestoreFails(j)
  BY <1>2, <1>3, <1>7 DEF RestoreFails
<1>. QED  BY <1>4, <1>5, <1>6, <1>7

\* A restore writes nothing to R2; what it moves into place is named by the manifest R2 has.
LEMMA RestoreStores ==
  ASSUME StoredInv, AloneInv', NEW j \in StateJobs, RestoreSteps(j)
  PROVE  StoredInv'
<1>1. restore[j].pc # "idle" /\ UNCHANGED <<stored, missed, manifest, holder, phase, save, forget>>
  BY DEF RestoreSteps, RestoreLooks, RestoreAsks, RestorePrepares, RestoreGets, RestoreWrites, RestoreClosesFile,
     RestoreWritesLocal, RestoreRemovesRoot, RestoreRenames, RestoreTouchesRow, RestoreFails, At
<1>2. /\ holder = j /\ phase = "clones" /\ forget = "idle" /\ RestoreGood(restore[j]) /\ restore[j] \in Restores
      /\ restore \in [StateJobs -> Restores] /\ \A k \in StateJobs \ {j} : restore[k] = Idle
  BY <1>1, RestoringHolds, HolderIsAlone DEF StoredInv
<1>3. ForgetsAlone' /\ SavesWhole'
  BY <1>1, <1>2 DEF ForgetsAlone, SavesWhole
<1>4. StateIsStored'
  <2>1. CASE row' = row
    BY <1>1, <2>1 DEF StoredInv, StateIsStored
  <2>2. CASE RestoreTouchesRow(j)
    <3>1. ChunksOf(manifest) \subseteq stored \cup missed
      BY <2>2, AllIsGot DEF RestoreTouchesRow, At
    <3>. QED  BY <1>1, <3>1 DEF StateIsStored
  <2>. QED  BY <2>1, <2>2 DEF RestoreSteps, RestoreLooks, RestoreAsks, RestorePrepares, RestoreGets, RestoreWrites,
            RestoreClosesFile, RestoreWritesLocal, RestoreRemovesRoot, RestoreRenames, RestoreFails
<1>5. LocalIsHeld'
  <2>1. CASE disk' = disk
    BY <1>1, <2>1 DEF StoredInv, LocalIsHeld
  <2>2. CASE RestoreRemovesRoot(j)
    BY <2>2, NoChunks DEF RestoreRemovesRoot, LocalIsHeld, readLocal
  <2>3. CASE RestoreRenames(j)
    <3>1. ChunksOf(manifest) \subseteq stored \cup missed /\ restore[j].pc = "renames" /\ into # Nothing /\ disk' = into
      BY <2>3, AllIsGot DEF RestoreRenames, At
    <3>2. into.local = restore[j].names /\ restore[j].names = manifest
      BY <1>2, <3>1 DEF RestoreGood, FolderIsWhole, Fills, StoredInv, StillThere, Knows
    <3>. QED  BY <1>1, <3>1, <3>2 DEF LocalIsHeld, readLocal
  <2>4. CASE RestoreWrites(j)
    <3>1. disk' = disk
      BY <1>2, <2>4 DEF RestoreWrites, RestoreGood, OpensBeside
    <3>. QED  BY <2>1, <3>1
  <2>. QED  BY <2>1, <2>2, <2>3, <2>4 DEF RestoreSteps, RestoreLooks, RestoreAsks, RestorePrepares, RestoreGets,
            RestoreClosesFile, RestoreWritesLocal, RestoreTouchesRow, RestoreFails
<1>6. ASSUME NEW k \in StateJobs  PROVE StillThere(restore[k])'
  <2>1. CASE ~Knows(restore'[k])
    BY <2>1 DEF StillThere, Knows
  <2>2. CASE restore'[k].names = restore[k].names /\ restore'[k].got = restore[k].got /\ Knows(restore[k])
    BY <1>1, <2>2 DEF StillThere, StoredInv
  <2>3. CASE RestoreAsks(j)
    <3>1. restore[j] = [Idle EXCEPT !.pc = "asks"]
      BY <1>2, <2>3 DEF RestoreAsks, At, RestoreGood, ReadsManifest, Knows
    <3>2. CASE restore' = Now(j, "idle")
      BY <1>2, <2>1, <3>2 DEF Now, Knows, Idle
    <3>3. CASE restore' = [restore EXCEPT ![j].pc = "prepares", ![j].names = manifest]
      <4>1. k = j => restore'[k].names = manifest /\ restore'[k].got = {}
        BY <1>2, <3>1, <3>3 DEF Idle
      <4>2. k # j => restore'[k] = Idle
        BY <1>2, <3>3
      <4>. QED  BY <1>1, <2>1, <4>1, <4>2 DEF StillThere, Knows, Idle
    <3>. QED  BY <2>3, <3>2, <3>3 DEF RestoreAsks
  <2>4. ASSUME NEW place, RestoreGets(j, place)  PROVE StillThere(restore[k])'
    <3>1. k # j => restore'[k] = Idle
      BY <1>2, <2>4 DEF RestoreGets
    <3>2. restore'[j].names = restore[j].names /\ restore'[j].got = restore[j].got \cup {place} /\ Knows(restore[j])
      BY <1>2, <2>4 DEF RestoreGets, Restores, At, Knows
    <3>3. restore[j].names = manifest /\ manifest[place[1]][place[2]] \in stored
      BY <2>4, <3>2 DEF StoredInv, StillThere, RestoreGets
    <3>4. StillThere(restore[j])'
      BY <1>1, <3>2, <3>3 DEF StoredInv, StillThere
    <3>. QED  BY <2>1, <3>1, <3>4 DEF Knows, Idle
  <2>5. CASE RestoreLooks(j) \/ RestoreTouchesRow(j)
    <3>1. restore'[j].pc \in {"idle", "asks"} /\ (k # j => restore'[k] = Idle)
      <4>1. CASE RestoreLooks(j)
        <5>1. PICK step \in {"idle", "asks"} : restore' = [restore EXCEPT ![j].pc = step]
          BY <4>1 DEF RestoreLooks, Now
        <5>2. restore'[j].pc = step /\ (k # j => restore'[k] = restore[k])
          BY <1>2, <5>1 DEF Restores
        <5>. QED  BY <1>2, <5>2
      <4>2. CASE RestoreTouchesRow(j)
        BY <1>2, <4>2 DEF RestoreTouchesRow, Idle
      <4>. QED  BY <2>5, <4>1, <4>2
    <3>. QED  BY <2>1, <3>1 DEF Knows, Idle
  <2>6. CASE RestoreWrites(j) \/ RestoreClosesFile(j) \/ RestoreWritesLocal(j)
    <3>1. /\ restore'[j].names = restore[j].names /\ restore'[j].got = restore[j].got /\ Knows(restore[j])
          /\ k # j => restore'[k] = Idle
      <4>1. CASE RestoreWrites(j)
        BY <1>2, <4>1 DEF RestoreWrites, Knows, Restores
      <4>2. CASE RestoreClosesFile(j)
        BY <1>2, <4>2 DEF RestoreClosesFile, Knows, Restores
      <4>3. CASE RestoreWritesLocal(j)
        BY <1>2, <4>3 DEF RestoreWritesLocal, Now, At, Knows, Restores
      <4>. QED  BY <2>6, <4>1, <4>2, <4>3
    <3>. QED  BY <2>1, <2>2, <3>1 DEF Knows, Idle
  <2>7. CASE RestorePrepares(j) \/ RestoreRemovesRoot(j) \/ RestoreRenames(j) \/ RestoreFails(j)
    BY <1>1, <1>2, <2>1, <2>2, <2>7, MovesStay
  <2>. QED  BY <2>3, <2>4, <2>5, <2>6, <2>7 DEF RestoreSteps
<1>. QED  BY <1>3, <1>4, <1>5, <1>6 DEF StoredInv

LEMMA BesideStores ==
  ASSUME Orderly, StoredInv, AloneInv', Beside
  PROVE  StoredInv'
<1>1. holder = NoJob => \A k \in StateJobs : restore[k] = Idle
  BY OthersAreIdle, StateAssumption DEF StoredInv, AloneInv
<1>2. restore \in [StateJobs -> Restores] /\ disk \in {Nothing} \cup Folders
  BY Typed DEF StoredInv, AloneInv, FitsInv
<1>3. CASE PruneCache
  <2>1. \A k \in StateJobs : restore'[k] = Idle
    <3>1. \A k \in StateJobs : restore[k].handle # "disk"
      BY <1>1, <1>3 DEF PruneCache, Idle
    <3>. QED  BY <1>1, <1>2, <1>3, <3>1, NoneIsOpen DEF PruneCache
  <2>2. ForgetsAlone' /\ SavesWhole' /\ StateIsStored' /\ LocalIsHeld'
    BY <1>3, NoChunks DEF PruneCache, StoredInv, AloneInv, HeldOrFree, ForgetsAlone, SavesWhole, StateIsStored,
       LocalIsHeld, readLocal
  <2>. QED  BY <2>1, <2>2, IdleNeedsNothing DEF StoredInv, Stays
<1>4. CASE PruneRestoring
  <2>1. restore' = Opened(restore, "into", "gone")
        /\ UNCHANGED <<disk, stored, missed, manifest, row, holder, phase, save, forget>>
    BY <1>4 DEF PruneRestoring
  <2>2. \A k \in StateJobs : /\ restore'[k].pc = restore[k].pc /\ restore'[k].names = restore[k].names
                             /\ restore'[k].got = restore[k].got
    BY <1>2, <2>1, OpenedIs
  <2>3. Stays'
    BY <2>1, <2>2 DEF StoredInv, Stays, StillThere, Knows
  <2>. QED  BY <2>1, <2>3 DEF StoredInv, Stays, ForgetsAlone, SavesWhole, StateIsStored, LocalIsHeld
<1>5. CASE StateAges \/ ForgetLists \/ ForgetDeletesPage \/ ForgetDeletesManifest \/ ForgetDeletesRow
  <2>1. holder = NoJob /\ UNCHANGED <<disk, holder, phase, save, restore>>
    BY <1>5 DEF StoredInv, ForgetsAlone, StateAges, ForgetLists, ForgetDeletesPage, ForgetDeletesManifest,
       ForgetDeletesRow, Orderly
  <2>2. Stays'
    BY <1>1, <2>1, IdleNeedsNothing
  <2>3. SavesWhole'
    BY <2>1 DEF StoredInv, AloneInv, HeldOrFree, SavesWhole
  <2>4. ForgetsAlone' /\ StateIsStored' /\ LocalIsHeld'
    <3>1. CASE StateAges \/ ForgetLists
      BY <3>1 DEF StoredInv, ForgetsAlone, StateIsStored, LocalIsHeld, StateAges, ForgetLists, Orderly
    <3>2. CASE ForgetDeletesPage \/ ForgetDeletesManifest \/ ForgetDeletesRow
      BY <3>2, NoChunks DEF StoredInv, ForgetsAlone, StateIsStored, LocalIsHeld, readLocal, ForgetDeletesPage,
         ForgetDeletesManifest, ForgetDeletesRow
    <3>. QED  BY <1>5, <3>1, <3>2
  <2>. QED  BY <2>2, <2>3, <2>4 DEF StoredInv, Stays
<1>6. CASE ForgetFails
  BY <1>6 DEF ForgetFails, StoredInv, StillThere, ForgetsAlone, SavesWhole, StateIsStored, LocalIsHeld
<1>7. CASE BuilderRestarts
  <2>1. \A k \in StateJobs : restore'[k] = Idle
    BY <1>7 DEF BuilderRestarts
  <2>2. ChunksOf(readLocal(disk')) \subseteq stored \cup missed
    <3>1. CASE disk # Nothing /\ disk' = [disk EXCEPT !.local = Nothing]
      <4>1. disk' \in Folders /\ disk'.local = Nothing
        BY <1>2, <3>1 DEF Folders
      <4>. QED  BY <4>1, NoChunks, NothingIsNoFolder DEF readLocal
    <3>. QED  BY <1>7, <3>1 DEF BuilderRestarts, StoredInv, LocalIsHeld
  <2>3. ForgetsAlone' /\ SavesWhole' /\ StateIsStored' /\ LocalIsHeld'
    BY <1>7, <2>2 DEF StoredInv, ForgetsAlone, SavesWhole, StateIsStored, LocalIsHeld, BuilderRestarts, Release
  <2>. QED  BY <2>1, <2>3, IdleNeedsNothing DEF StoredInv, Stays
<1>. QED  BY <1>3, <1>4, <1>5, <1>6, <1>7 DEF Beside

LEMMA StoredKeeps ==
  ASSUME Orderly, StoredInv, [StateNext]_stateVars
  PROVE  StoredInv'
<1>1. AloneInv'
  BY AloneKeeps DEF StoredInv, Orderly
<1>2. CASE UNCHANGED stateVars
  BY <1>1, <1>2 DEF stateVars, StoredInv, StillThere, ForgetsAlone, SavesWhole, StateIsStored, LocalIsHeld
<1>3. ASSUME NEW j \in StateJobs, StateJobSteps(j) \/ RestoreSteps(j)  PROVE StoredInv'
  BY <1>1, <1>3, JobStores, RestoreStores DEF Orderly
<1>. QED  BY <1>1, <1>2, <1>3, BesideStores DEF StateNext

LEMMA StoredHolds == ASSUME Orderly PROVE StateSpec => []StoredInv
<1>1. StateInit /\ AloneInv => StoredInv
  BY NoChunks DEF StateInit, StoredInv, StillThere, Knows, Idle, ForgetsAlone, SavesWhole, StateIsStored, LocalIsHeld,
     readLocal
<1>2. StoredInv /\ [StateNext]_stateVars => StoredInv'
  BY StoredKeeps
<1>3. StateSpec => []AloneInv
  BY AloneHolds DEF Orderly
<1>. QED  BY <1>1, <1>2, <1>3, PTL DEF StateSpec

-----------------------------------------------------------------------------
\* The state is of its type, however restores, saves, prunes, restarts and forgetStates meet.
THEOREM StateTypes == StateSpec => []StateTypeOK
<1>1. FitsInv => StateTypeOK
  BY DEF FitsInv
<1>. QED  BY <1>1, FitsHolds, PTL

\* The folder a restore removes before it moves its own there holds no cache, where a restore
\* does not outlive its Build, whatever is forgotten beside it.
THEOREM NoCacheIsReplaced == ASSUME ~RestoreMayOutlive PROVE StateSpec => []CacheNotReplaced
<1>1. AloneInv => CacheNotReplaced
  BY DEF AloneInv, RestoresBeside, RestoreGood, NoCacheYet, CacheNotReplaced
<1>. QED  BY <1>1, AloneHolds, PTL

\* The folder a restore moves into place is the cache the manifest named, every file in order and to
\* its end, whatever an earlier restore had left there, where a restore does not outlive its Build.
THEOREM WholeIsRestored == ASSUME ~RestoreMayOutlive PROVE StateSpec => RestoredIsWhole
<1>1. ASSUME AloneInv, NEW j \in StateJobs, At(j, "renames"), RestoreRenames(j)
      PROVE  disk'.files = restore[j].names
  <2>1. PICK r : r = restore[j]
    OBVIOUS
  <2>2. r.pc = "renames" /\ RestoreGood(r) /\ into # Nothing /\ disk' = into
    BY <1>1, <2>1, RestoringHolds DEF At, RestoreRenames
  <2>3. PICK m \in Files : m = r.names
    BY <1>1, <2>1, RestoringHolds DEF At, Knows
  <2>4. into.files \in Files /\ r.file = CacheFiles + 1
    BY <1>1, <2>2, Typed DEF RestoreGood, FillsInOrder, AloneInv, FitsInv, Folders
  <2>5. ASSUME NEW f \in 1 .. CacheFiles  PROVE into.files[f] = m[f]
    <3>1. into.files[f] \in Seq(Chunks) /\ m[f] \in Seq(Chunks)
      BY <2>3, <2>4 DEF Files
    <3>2. Len(into.files[f]) = Len(m[f])
      BY <2>2, <2>3, <2>4, StateAssumption DEF RestoreGood, FolderIsWhole, Fills
    <3>3. \A i \in 1 .. Len(into.files[f]) : into.files[f][i] = m[f][i]
      BY <2>2, <2>3 DEF RestoreGood, FolderIsWhole, Fills
    <3>. QED  BY <3>1, <3>2, <3>3
  <2>6. PICK files \in Files : files = into.files
    BY <2>4
  <2>7. files = [f \in 1 .. CacheFiles |-> files[f]] /\ m = [f \in 1 .. CacheFiles |-> m[f]]
    BY <2>3, <2>6 DEF Files
  <2>8. \A f \in 1 .. CacheFiles : files[f] = m[f]
    BY <2>5, <2>6
  <2>9. files = m
    BY <2>7, <2>8, Zenon
  <2>. QED  BY <2>1, <2>2, <2>3, <2>6, <2>9
<1>2. AloneInv /\ [StateNext]_stateVars
        => [\A j \in StateJobs : At(j, "renames") /\ RestoreRenames(j) => disk'.files = restore[j].names]_stateVars
  BY <1>1
<1>. QED  BY <1>2, AloneHolds, PTL DEF StateSpec, RestoredIsWhole

\* What the manifest in R2 names is in R2, through saves that fail at any step, restarts, restores
\* and stale deletes, but for a chunk whose upload failed unnoticed, and for a State that is old,
\* which forgetStates may have got halfway with.
THEOREM ManifestIsStored == ASSUME Orderly PROVE StateSpec => []StateIsStored
<1>1. StoredInv => StateIsStored
  BY DEF StoredInv
<1>. QED  BY <1>1, StoredHolds, PTL

\* What the manifest on disk names is in R2, but for a chunk whose upload failed unnoticed: what
\* saveState does not upload again is there.
THEOREM LocalManifestIsHeld == ASSUME Orderly PROVE StateSpec => []LocalIsHeld
<1>1. StoredInv => LocalIsHeld
  BY DEF StoredInv
<1>. QED  BY <1>1, StoredHolds, PTL
=============================================================================
