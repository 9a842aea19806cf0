------------------------------- MODULE Shares -------------------------------
(***************************************************************************)
(* Shared Reports: a row in Postgres and an object in R2, which only the   *)
(* row's id leads to.  A person registers one, uploads its locked bytes    *)
(* once, and may delete it; the clean-up deletes those that expired and    *)
(* those never uploaded.  Any of these may stop between two awaits.        *)
(*                                                                         *)
(* Sources: apps/site/src/server/shares.ts, packages/server/src/cleanup.ts.*)
(* Abstracted: the tokens' hashes (whoever uploads or deletes has them),   *)
(* the sizes, the limits that may refuse a registration, and the time as   *)
(* three ages.  getShare changes nothing and is left out.                  *)
(***************************************************************************)
EXTENDS FiniteSets

CONSTANTS
  Shares,    \* ids of Shared Reports; randomId gives none twice
  Uploaders  \* requests of the Site that upload

VARIABLES
  share,    \* id -> its row: unmade, there, or gone; age; uploaded
  object,   \* the ids whose object is in R2
  upload,   \* upload -> where it is, and its Shared Report
  deletes,  \* id -> where deleteShare is
  expiry,   \* where expireShares is, and the ids it read
  late      \* history: the ids whose object was put after a deletion had emptied R2

sharesVars == <<share, object, upload, deletes, expiry, late>>

\* Ages: within UPLOAD_WITHIN, after it, and after expiresAt.
Share == [row : {"unmade", "there", "gone"}, age : {"new", "hour", "expired"}, uploaded : BOOLEAN]
NoUpload == [pc |-> "idle"]
UploadState == {NoUpload} \cup [pc : {"read", "put"}, id : Shares]
ExpiryState == [pc : {"idle", "read", "emptied"}, ids : SUBSET Shares]

SharesTypeOK ==
  /\ share \in [Shares -> Share]
  /\ object \subseteq Shares /\ late \subseteq Shares
  /\ upload \in [Uploaders -> UploadState]
  /\ deletes \in [Shares -> {"idle", "read", "emptied"}]
  /\ expiry \in ExpiryState

NoExpiry == [pc |-> "idle", ids |-> {}]

SharesInit ==
  /\ share = [s \in Shares |-> [row |-> "unmade", age |-> "new", uploaded |-> FALSE]]
  /\ object = {} /\ late = {}
  /\ upload = [u \in Uploaders |-> NoUpload]
  /\ deletes = [s \in Shares |-> "idle"]
  /\ expiry = NoExpiry

There(s) == share[s].row = "there"

CreateShare(s) ==
  /\ share[s].row = "unmade"
  /\ share' = [share EXCEPT ![s].row = "there"]
  /\ UNCHANGED <<object, upload, deletes, expiry, late>>

\* An hour goes by, or the hours asked for.
GrowsOld(s) ==
  /\ There(s) /\ share[s].age # "expired"
  /\ \E age \in {"hour", "expired"} \ {share[s].age} : share' = [share EXCEPT ![s].age = age]
  /\ UNCHANGED <<object, upload, deletes, expiry, late>>

-----------------------------------------------------------------------------
(* uploadShare: the row, the object, the row *)

UploadReads(u, s) ==
  /\ upload[u].pc = "idle" /\ There(s) /\ ~share[s].uploaded
  /\ upload' = [upload EXCEPT ![u] = [pc |-> "read", id |-> s]]
  /\ UNCHANGED <<share, object, deletes, expiry, late>>

\* Somebody has emptied R2 of it, and has the row still to delete.
IsEmptied(s) == deletes[s] = "emptied" \/ (expiry.pc = "emptied" /\ s \in expiry.ids)

UploadPuts(u) ==
  LET s == upload[u].id IN
  /\ upload[u].pc = "read"
  /\ object' = object \cup {s}
  /\ late' = IF There(s) /\ ~IsEmptied(s) THEN late ELSE late \cup {s}
  /\ upload' = [upload EXCEPT ![u].pc = "put"]
  /\ UNCHANGED <<share, deletes, expiry>>

\* The update of a row that has gone touches none.
UploadMarks(u) ==
  LET s == upload[u].id IN
  /\ upload[u].pc = "put"
  /\ share' = IF There(s) THEN [share EXCEPT ![s].uploaded = TRUE] ELSE share
  /\ upload' = [upload EXCEPT ![u] = NoUpload]
  /\ UNCHANGED <<object, deletes, expiry, late>>

UploadStops(u) ==
  /\ upload[u].pc # "idle"
  /\ upload' = [upload EXCEPT ![u] = NoUpload]
  /\ UNCHANGED <<share, object, deletes, expiry, late>>

-----------------------------------------------------------------------------
(* deleteShare and expireShares: the row, the object, the row *)

DropRows(ids) ==
  share' = [s \in Shares |-> IF s \in ids /\ There(s) THEN [share[s] EXCEPT !.row = "gone"] ELSE share[s]]

DeleteReads(s) ==
  /\ deletes[s] = "idle" /\ There(s)
  /\ deletes' = [deletes EXCEPT ![s] = "read"]
  /\ UNCHANGED <<share, object, upload, expiry, late>>

DeleteEmpties(s) ==
  /\ deletes[s] = "read"
  /\ object' = object \ {s} /\ late' = late \ {s}
  /\ deletes' = [deletes EXCEPT ![s] = "emptied"]
  /\ UNCHANGED <<share, upload, expiry>>

DeleteDrops(s) ==
  /\ deletes[s] = "emptied"
  /\ DropRows({s})
  /\ deletes' = [deletes EXCEPT ![s] = "idle"]
  /\ UNCHANGED <<object, upload, expiry, late>>

DeleteStops(s) ==
  /\ deletes[s] # "idle"
  /\ deletes' = [deletes EXCEPT ![s] = "idle"]
  /\ UNCHANGED <<share, object, upload, expiry, late>>

IsOver(s) == There(s) /\ (share[s].age = "expired" \/ (~share[s].uploaded /\ share[s].age = "hour"))

ExpiryReads ==
  LET ids == {s \in Shares : IsOver(s)} IN
  /\ expiry.pc = "idle" /\ ids # {}
  /\ expiry' = [pc |-> "read", ids |-> ids]
  /\ UNCHANGED <<share, object, upload, deletes, late>>

\* Mutant: only what is marked uploaded is deleted from R2.
ExpiryEmpties_Uploaded ==
  LET ids == {s \in expiry.ids : share[s].uploaded} IN
  /\ expiry.pc = "read"
  /\ object' = object \ ids /\ late' = late \ ids
  /\ expiry' = [expiry EXCEPT !.pc = "emptied"]
  /\ UNCHANGED <<share, upload, deletes>>

ExpiryEmpties ==
  /\ expiry.pc = "read"
  /\ object' = object \ expiry.ids /\ late' = late \ expiry.ids
  /\ expiry' = [expiry EXCEPT !.pc = "emptied"]
  /\ UNCHANGED <<share, upload, deletes>>

ExpiryDrops ==
  /\ expiry.pc = "emptied"
  /\ DropRows(expiry.ids)
  /\ expiry' = NoExpiry
  /\ UNCHANGED <<object, upload, deletes, late>>

\* The scheduler is stopped, or R2 deletes some of the objects and fails.
ExpiryStops ==
  /\ expiry.pc # "idle"
  /\ \E some \in SUBSET expiry.ids : object' = object \ some /\ late' = late \ some
  /\ expiry' = NoExpiry
  /\ UNCHANGED <<share, upload, deletes>>

SharesNext ==
  \/ \E s \in Shares :
       \/ CreateShare(s) \/ GrowsOld(s)
       \/ DeleteReads(s) \/ DeleteEmpties(s) \/ DeleteDrops(s) \/ DeleteStops(s)
  \/ \E u \in Uploaders :
       \/ \E s \in Shares : UploadReads(u, s)
       \/ UploadPuts(u) \/ UploadMarks(u) \/ UploadStops(u)
  \/ ExpiryReads \/ ExpiryEmpties \/ ExpiryDrops \/ ExpiryStops

SharesSpec == SharesInit /\ [][SharesNext]_sharesVars

-----------------------------------------------------------------------------
(* Only a row leads to an object (there is no list of R2 in the clean-up): *)
(* whatever stops, and whichever of the two deletes at the same time, an   *)
(* object keeps its row.  The one exception is an upload that puts it      *)
(* after a deletion has emptied R2 (shares.ts:39): it stays for ever.      *)
NoObjectIsLeft == \A s \in object \ late : There(s)
=============================================================================
