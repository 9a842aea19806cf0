---------------------------- MODULE GitHubCache ----------------------------
(***************************************************************************)
(* Answers of GitHub kept in Postgres for a while, for the Site and the    *)
(* Builder at once: a process asks for one key once at a time, reads the   *)
(* kept row, asks GitHub when it is no longer fresh, and writes what came  *)
(* over whatever the row has become.                                       *)
(*                                                                         *)
(* Source: packages/server/src/github-cache.ts.  One key is modelled, as   *)
(* no two share a row.  Abstracted: what GitHub last said a token has left *)
(* is a choice at every ask, since every other key moves it; an ETag is    *)
(* the body it stands for; who joins a flight gets what it gives.          *)
(***************************************************************************)
EXTENDS Naturals

CONSTANTS
  Servers,      \* processes that ask
  Bodies,       \* what GitHub may say of the key
  NotFound,     \* one of them: a status of NEGATIVE_FOR
  NoBody,       \* no answer at all
  Ttl,          \* seconds an answer is kept for
  NegativeFor,  \* seconds for NotFound, if less
  KeptAfter,    \* KEPT_AFTER_EXPIRY
  CacheSeconds, \* bound: seconds
  Longest       \* seconds a request takes at most (GitHub ends its own after ten)

ASSUME CacheAssumption ==
  /\ NotFound \in Bodies /\ NoBody \notin Bodies
  /\ Ttl \in Nat /\ NegativeFor \in Nat /\ KeptAfter \in Nat /\ CacheSeconds \in Nat
  /\ Longest \in Nat

VARIABLES
  time,     \* the second
  github,   \* what GitHub says now
  saidAt,   \* history: body -> the last second GitHub said it, if it does not now
  keptRow,  \* the kept row: its body (NoBody: no row) and until
  flight,   \* process -> its flight of the key
  given     \* process -> what its last flight gave

cacheVars == <<time, github, saidAt, keptRow, flight, given>>

Times == 0 .. CacheSeconds
KeptRow == [body : Bodies \cup {NoBody}, until : 0 .. CacheSeconds + Ttl]
NoRowKept == [body |-> NoBody, until |-> 0]
Flight == [pc : {"none", "reads", "sent", "revalidates", "stores", "passes", "fails"},
           kept : Bodies \cup {NoBody}, at : Times, answer : Bodies \cup {NoBody}]
NoFlight == [pc |-> "none", kept |-> NoBody, at |-> 0, answer |-> NoBody]
NothingGiven == [how |-> "nothing", body |-> NoBody]

CacheTypeOK ==
  /\ time \in Times /\ github \in Bodies /\ saidAt \in [Bodies -> Times]
  /\ keptRow \in KeptRow
  /\ flight \in [Servers -> Flight]
  /\ given \in [Servers -> [how : {"nothing", "fresh", "stale", "failed"}, body : Bodies \cup {NoBody}]]

CacheInit ==
  /\ time = 0 /\ github = NotFound /\ saidAt = [b \in Bodies |-> 0]
  /\ keptRow = NoRowKept
  /\ flight = [p \in Servers |-> NoFlight]
  /\ given = [p \in Servers |-> NothingGiven]

-----------------------------------------------------------------------------
(* One flight (once, settle) *)

Starts(p) ==
  /\ flight[p].pc = "none"
  /\ flight' = [flight EXCEPT ![p].pc = "reads"]
  /\ given' = [given EXCEPT ![p] = NothingGiven]
  /\ UNCHANGED <<time, github, saidAt, keptRow>>

Gives(p, how, body) ==
  /\ given' = [given EXCEPT ![p] = [how |-> how, body |-> body]]
  /\ flight' = [flight EXCEPT ![p] = NoFlight]

\* Mutant: what is kept is given as if it were fresh.
GivesKept_Fresh(p, kept) == Gives(p, IF kept = NoBody THEN "failed" ELSE "fresh", kept)
\* What is kept, if anything is, marked stale.
GivesKept(p, kept) == Gives(p, IF kept = NoBody THEN "failed" ELSE "stale", kept)

IsFresh(r) == r.body # NoBody /\ r.until > time

\* The row is read, and in the same turn the clock and what the token has left.
ReadsFresh(p) ==
  /\ flight[p].pc = "reads" /\ IsFresh(keptRow)
  /\ Gives(p, "fresh", keptRow.body)
  /\ UNCHANGED <<time, github, saidAt, keptRow>>

\* Nothing left, or little left and a row kept.
ReadsLimited(p) ==
  /\ flight[p].pc = "reads" /\ ~IsFresh(keptRow)
  /\ GivesKept(p, keptRow.body)
  /\ UNCHANGED <<time, github, saidAt, keptRow>>

Sends(p) ==
  /\ flight[p].pc = "reads" /\ ~IsFresh(keptRow)
  /\ flight' = [flight EXCEPT ![p] = [pc |-> "sent", kept |-> keptRow.body, at |-> time, answer |-> NoBody]]
  /\ UNCHANGED <<time, github, saidAt, keptRow, given>>

\* GitHub makes its answer: the body, that the kept one is still it, or none (a limit, a
\* failure, a connection lost).  A body is stored unless judge finds it is not to be kept.
GitHubAnswers(p) ==
  /\ flight[p].pc = "sent"
  /\ \/ \E pc \in {"stores", "passes"} :
          flight' = [flight EXCEPT ![p].pc = pc, ![p].answer = github]
     \/ flight[p].kept = github /\ flight' = [flight EXCEPT ![p].pc = "revalidates"]
     \/ flight' = [flight EXCEPT ![p].pc = "fails"]
  /\ UNCHANGED <<time, github, saidAt, keptRow, given>>

KeptFor(body) == IF body = NotFound /\ NegativeFor < Ttl THEN NegativeFor ELSE Ttl

\* A 304: the row, whatever it is by now, is kept on; one that was pruned is not made.
Revalidates(p) ==
  /\ flight[p].pc = "revalidates"
  /\ keptRow' = IF keptRow.body = NoBody THEN keptRow ELSE [keptRow EXCEPT !.until = flight[p].at + Ttl]
  /\ Gives(p, "fresh", flight[p].kept)
  /\ UNCHANGED <<time, github, saidAt>>

StoresAnswer(p) ==
  /\ flight[p].pc = "stores"
  /\ keptRow' = [body |-> flight[p].answer, until |-> flight[p].at + KeptFor(flight[p].answer)]
  /\ Gives(p, "fresh", flight[p].answer)
  /\ UNCHANGED <<time, github, saidAt>>

\* An answer that is not kept goes to those who asked alone.
PassesOn(p) ==
  /\ flight[p].pc = "passes"
  /\ Gives(p, "fresh", flight[p].answer)
  /\ UNCHANGED <<time, github, saidAt, keptRow>>

FallsBack(p) ==
  /\ flight[p].pc = "fails"
  /\ GivesKept(p, flight[p].kept)
  /\ UNCHANGED <<time, github, saidAt, keptRow>>

\* pruneGitHubCache.
Prunes ==
  /\ keptRow.body # NoBody /\ keptRow.until + KeptAfter < time
  /\ keptRow' = NoRowKept
  /\ UNCHANGED <<time, github, saidAt, flight, given>>

-----------------------------------------------------------------------------
(* Around it *)

GitHubChanges ==
  /\ \E b \in Bodies \ {github} : github' = b
  /\ saidAt' = [saidAt EXCEPT ![github] = time]
  /\ UNCHANGED <<time, keptRow, flight, given>>

InTime(p) == flight[p].pc \in {"none", "reads"} \/ time < flight[p].at + Longest

TimePasses ==
  /\ time < CacheSeconds
  /\ \A p \in Servers : InTime(p)
  /\ time' = time + 1
  /\ UNCHANGED <<github, saidAt, keptRow, flight, given>>

CacheNext ==
  \/ \E p \in Servers :
       \/ Starts(p) \/ ReadsFresh(p) \/ ReadsLimited(p) \/ Sends(p) \/ GitHubAnswers(p)
       \/ Revalidates(p) \/ StoresAnswer(p) \/ PassesOn(p) \/ FallsBack(p)
  \/ Prunes \/ GitHubChanges \/ TimePasses

CacheSpec == CacheInit /\ [][CacheNext]_cacheVars

-----------------------------------------------------------------------------
(* An answer that is not marked stale is one GitHub gave not longer ago    *)
(* than answers are kept for, and a request takes: a request that began    *)
(* earlier may write its older answer between the read of the row and the  *)
(* 304's update, which keeps on whatever row there is (github-cache.ts:    *)
(* 150), so the time answers are kept for alone is not the bound.          *)
SaidLately(b) == github = b \/ time <= saidAt[b] + Ttl + Longest

AnswersAreFresh ==
  [][\A p \in Servers : given'[p].how = "fresh" /\ given[p].how # "fresh" => SaidLately(given'[p].body)]_cacheVars
=============================================================================
