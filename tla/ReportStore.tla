---------------------------- MODULE ReportStore ----------------------------
(***************************************************************************)
(* What publishing promises the Site of one repository: the pack it serves *)
(* is in R2 from before its row names it until after another is named, or  *)
(* none, but for the time a Report is being removed.                       *)
(*                                                                         *)
(* An abstract specification: Publication implements it (Implements), and  *)
(* Serving builds on it.                                                   *)
(***************************************************************************)
CONSTANTS
  StorePacks,  \* packs
  NoPack       \* none

ASSUME StoreAssumption == NoPack \notin StorePacks

VARIABLES
  served,  \* the pack of the Stored Index the repository points at
  kept,    \* packs in R2
  going    \* whether its Report is being removed

storeVars == <<served, kept, going>>

StoreTypeOK ==
  /\ served \in StorePacks \cup {NoPack}
  /\ kept \subseteq StorePacks
  /\ going \in BOOLEAN

StoreInit == served = NoPack /\ kept = {} /\ going = FALSE

\* Packs are uploaded.
Stores == kept \subseteq kept' /\ kept' \subseteq StorePacks /\ UNCHANGED <<served, going>>

\* The transaction that makes one the Report's.
Publishes == served' \in kept /\ UNCHANGED <<kept, going>>

\* What is served no more, or never was, is deleted.
Discards ==
  /\ kept' \subseteq kept
  /\ served \in kept \ kept' => going
  /\ UNCHANGED <<served, going>>

\* A removal deletes what is served...
Empties == ~going /\ going' = TRUE /\ kept' \subseteq kept /\ UNCHANGED served

\* ... before its row; a rename takes a row away too.
Withdraws == served' = NoPack /\ going' = FALSE /\ UNCHANGED kept

StoreNext == Stores \/ Publishes \/ Discards \/ Empties \/ Withdraws

StoreSpec == StoreInit /\ [][StoreNext]_storeVars

\* The pack the Site is sent to is in R2.
ServedIsKept == served # NoPack /\ ~going => served \in kept
=============================================================================
