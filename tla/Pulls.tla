------------------------------- MODULE Pulls -------------------------------
(***************************************************************************)
(* A repository's pull requests and their reviews, read from GitHub page   *)
(* by page, newest update first, and kept in step by webhooks in between.  *)
(* The first read takes all of them and, cut off, goes on from its cursor; *)
(* a later one stops at what the last one saw.                             *)
(*                                                                         *)
(* Sources: apps/builder/src/pulls.ts, apps/site/src/server/webhooks.ts    *)
(* (keepPull, keepReview), packages/server/src/pulls.ts (foldReview).      *)
(*                                                                         *)
(* GitHub is modelled from how pulls.ts asks it: a list ordered by when    *)
(* each pull request was last updated, and a cursor that is a place in     *)
(* that order.  A pull request is the second of its last update and the    *)
(* reviews of one reviewer who is not its author; the columns copied       *)
(* beside them, and the review decision read after a page, are left out.   *)
(* pg-boss runs one read of a repository at a time (stately).              *)
(***************************************************************************)
EXTENDS Naturals, FiniteSetsExt

CONSTANTS
  Pulls,         \* pull requests, by number
  PageSizes,     \* how many a page may hold: GitHub's answers shrink it
  ReviewsRead,   \* reviews of a pull request that are read
  LastSecond,    \* bound: updates on GitHub, each a second later
  MaxHooks,      \* bound: webhooks under way at once
  SameSecond,    \* whether one second may see two updates
  Gone           \* whether GitHub may say, between two pages, there is no such repository

ASSUME PullsAssumption ==
  /\ Pulls \subseteq Nat /\ IsFiniteSet(Pulls)
  /\ PageSizes \subseteq Nat \ {0} /\ ReviewsRead \in Nat /\ LastSecond \in Nat
  /\ MaxHooks \in Nat
  /\ SameSecond \in BOOLEAN /\ Gone \in BOOLEAN

VARIABLES
  latest,   \* the second of the latest update
  updated,  \* GitHub: pull request -> when it was updated; 0: not there yet
  reviews,  \* GitHub: pull request -> the reviewer's reviews
  hooks,    \* webhooks under way, delivered in any order
  rows,     \* pull_requests: updatedAt; 0: no row
  words,    \* pull_reviews
  heard,    \* history: the reviews that words has been told of
  lateRows, \* history: pull requests whose row an overtaken webhook has set back
  overtaken,\* history: pull requests of which a review was told after a later one
  marks,    \* the repository's pullsAt, pullsCursor, pullsMark and pullsVersion
  read      \* the read under way

githubVars == <<latest, updated, reviews>>
historyVars == <<lateRows, overtaken>>
pullsVars == <<githubVars, hooks, rows, words, heard, historyVars, marks, read>>

Stamps == 0 .. LastSecond
Said == {"approved", "changes_requested", "commented", "dismissed"}
Review == [at : Stamps \ {0}, state : Said]
NoReview == [at |-> 0]
Word == [reviews : Nat, firstAt : Stamps, lastAt : Stamps, state : Said, approvedAt : Stamps]
NoWord == [reviews |-> 0]
Place == [at : Stamps, pull : Pulls]
NoPlace == [at |-> 0]
Node == [pull : Pulls, at : Stamps, reviews : SUBSET Review]

NoRead == [pc |-> "idle"]
Reading ==
  [pc : {"asks", "keeps", "ends"}, whole : BOOLEAN, since : Stamps, after : Place \cup {NoPlace},
   mark : Stamps, newest : Stamps, resumed : BOOLEAN, nodes : SUBSET Node, more : BOOLEAN]

PullsTypeOK ==
  /\ latest \in Stamps /\ updated \in [Pulls -> Stamps] /\ reviews \in [Pulls -> SUBSET Review]
  /\ hooks \subseteq [pull : Pulls, at : Stamps, review : Review \cup {NoReview}]
  /\ rows \in [Pulls -> Stamps] /\ words \in [Pulls -> Word \cup {NoWord}]
  /\ heard \in [Pulls -> SUBSET Review] /\ lateRows \subseteq Pulls /\ overtaken \subseteq Pulls
  /\ marks \in [pullsAt : Stamps, cursor : Place \cup {NoPlace}, mark : Stamps, version : 0 .. 1]
  /\ read \in Reading \cup {NoRead}

PullsInit ==
  /\ latest = 0 /\ updated = [p \in Pulls |-> 0] /\ reviews = [p \in Pulls |-> {}]
  /\ hooks = {} /\ rows = [p \in Pulls |-> 0]
  /\ words = [p \in Pulls |-> NoWord] /\ heard = [p \in Pulls |-> {}]
  /\ lateRows = {} /\ overtaken = {}
  /\ marks = [pullsAt |-> 0, cursor |-> NoPlace, mark |-> 0, version |-> 0]
  /\ read = NoRead

Least(a, b) == IF a < b THEN a ELSE b
Greatest(a, b) == IF a < b THEN b ELSE a

-----------------------------------------------------------------------------
(* What a reviewer's reviews come to *)

Decisive == {"approved", "changes_requested", "dismissed"}

FirstReview(state, at) ==
  [reviews |-> 1, firstAt |-> at, lastAt |-> at, state |-> state,
   approvedAt |-> IF state = "approved" THEN at ELSE 0]

foldReview(seen, state, at) ==
  IF seen = NoWord THEN FirstReview(state, at)
  ELSE [reviews |-> seen.reviews + 1,
        firstAt |-> Least(seen.firstAt, at), lastAt |-> Greatest(seen.lastAt, at),
        state |-> IF state \in Decisive /\ at >= seen.lastAt THEN state
                  ELSE IF seen.state \in Decisive THEN seen.state ELSE state,
        approvedAt |-> IF state # "approved" THEN seen.approvedAt
                       ELSE IF seen.approvedAt = 0 THEN at ELSE Least(seen.approvedAt, at)]

Latest(list) == CHOOSE r \in list : \A s \in list : s.at <= r.at

\* reviewRows: GitHub lists a pull request's reviews in the order submitted, the first
\* ReviewsRead of them.
reviewRow(list) ==
  MapThenFoldSet(LAMBDA r, seen : foldReview(seen, r.state, r.at), NoWord, LAMBDA r : r, Latest, list)

\* keepReview's ON CONFLICT DO UPDATE.
\* Mutant: only a review not older than the last takes the word, be that a comment.
onConflict_Ordered(seen, state, at) ==
  [foldReview(seen, state, at) EXCEPT
     !.state = IF state \in Decisive /\ at >= seen.lastAt THEN state ELSE seen.state]
onConflict(seen, state, at) ==
  [reviews |-> seen.reviews + 1,
   firstAt |-> Least(seen.firstAt, at), lastAt |-> Greatest(seen.lastAt, at),
   state |-> IF state \in Decisive /\ (at >= seen.lastAt \/ seen.state = "commented") THEN state
             ELSE seen.state,
   approvedAt |-> IF state # "approved" THEN seen.approvedAt
                  ELSE IF seen.approvedAt = 0 THEN at ELSE Least(seen.approvedAt, at)]

-----------------------------------------------------------------------------
(* GitHub *)

\* Something happens to a pull request, and a webhook may tell of it: when it was opened,
\* closed or changed, or reviewed; not when a review of it was dismissed.
Updates(p, t) ==
  /\ t \in Stamps \ {0}
  /\ t = latest + 1 \/ (SameSecond /\ t = latest)
  /\ latest' = t /\ updated' = [updated EXCEPT ![p] = t]
  /\ UNCHANGED <<rows, words, heard, historyVars, marks, read>>

IsChanged(p) ==
  /\ \E t \in Stamps : Updates(p, t)
  /\ \E sent \in {{}, {[pull |-> p, at |-> updated'[p], review |-> NoReview]}} :
       hooks' = hooks \cup sent
  /\ Cardinality(hooks') <= MaxHooks
  /\ UNCHANGED reviews

IsReviewed(p, state) ==
  LET review == [at |-> latest', state |-> state] IN
  /\ updated[p] # 0 /\ \A r \in reviews[p] : r.at # latest'
  /\ reviews' = [reviews EXCEPT ![p] = @ \cup {review}]
  /\ \E sent \in {{}, {[pull |-> p, at |-> latest', review |-> review]}} : hooks' = hooks \cup sent
  /\ Cardinality(hooks') <= MaxHooks

IsDismissed(p, r) ==
  /\ r.state \in {"approved", "changes_requested"}
  /\ reviews' = [reviews EXCEPT ![p] = (@ \ {r}) \cup {[r EXCEPT !.state = "dismissed"]}]
  /\ UNCHANGED hooks

GitHubMoves ==
  \E p \in Pulls :
    \/ IsChanged(p)
    \/ /\ \E t \in Stamps : Updates(p, t)
       /\ \/ \E state \in Said \ {"dismissed"} : IsReviewed(p, state)
          \/ \E r \in reviews[p] : IsDismissed(p, r)

-----------------------------------------------------------------------------
(* The webhooks *)

\* Either is lost, or the Site cannot keep it.
HookLost ==
  /\ \E h \in hooks : hooks' = hooks \ {h}
  /\ UNCHANGED <<githubVars, rows, words, heard, historyVars, marks, read>>

keepPull ==
  \E h \in hooks :
    /\ h.review = NoReview
    /\ hooks' = hooks \ {h}
    /\ rows' = [rows EXCEPT ![h.pull] = h.at]
    /\ lateRows' = IF h.at = updated[h.pull] THEN lateRows \ {h.pull} ELSE lateRows \cup {h.pull}
    /\ UNCHANGED <<githubVars, words, heard, overtaken, marks, read>>

keepReview ==
  \E h \in hooks :
    LET p == h.pull
        review == h.review IN
    /\ review # NoReview
    /\ hooks' = hooks \ {h}
    /\ words' = [words EXCEPT ![p] = IF @ = NoWord THEN FirstReview(review.state, review.at)
                                     ELSE onConflict(@, review.state, review.at)]
    /\ heard' = [heard EXCEPT ![p] = @ \cup {review}]
    /\ overtaken' = IF \E r \in heard[p] : review.at < r.at THEN overtaken \cup {p} ELSE overtaken
    /\ UNCHANGED <<githubVars, rows, lateRows, marks, read>>

-----------------------------------------------------------------------------
(* readPulls *)

\* A read not yet whole goes on from its cursor, with the mark of its first page.
ReadStarts ==
  LET whole == marks.version = 0
      after == IF whole THEN marks.cursor ELSE NoPlace IN
  /\ read = NoRead
  /\ read' = [pc |-> "asks", whole |-> whole, since |-> IF whole THEN 0 ELSE marks.pullsAt,
              after |-> after, mark |-> IF after # NoPlace THEN marks.mark ELSE 0, newest |-> 0,
              resumed |-> after # NoPlace, nodes |-> {}, more |-> FALSE]
  /\ UNCHANGED <<githubVars, hooks, rows, words, heard, historyVars, marks>>

\* GitHub's order: newest update first.
Sooner(a, b) == a.at > b.at \/ (a.at = b.at /\ a.pull > b.pull)

Listed(after) ==
  LET all == {[at |-> updated[p], pull |-> p] : p \in {q \in Pulls : updated[q] # 0}} IN
  {a \in all : after = NoPlace \/ Sooner(after, a)}

LastPlace(page) == CHOOSE a \in page : \A b \in page : b = a \/ Sooner(b, a)

FirstReviews(list) == {r \in list : Cardinality({s \in list : s.at <= r.at}) <= ReviewsRead}

\* A page: the first of the list, up to its size.
PageOf(list, size) ==
  {page \in SUBSET list : /\ Cardinality(page) = Least(size, Cardinality(list))
                          /\ \A a \in page, b \in list \ page : Sooner(a, b)}

\* What of it is fresh is kept; its end is where the next one begins.
PageComes(size) ==
  /\ read.pc = "asks"
  /\ \E page \in PageOf(Listed(read.after), size) :
       LET fresh == {a \in page : read.since = 0 \/ a.at > read.since}
           newest == IF read.newest # 0 \/ page = {} THEN read.newest ELSE Max({a.at : a \in page})
           more == fresh = page /\ page # Listed(read.after) IN
       read' = [read EXCEPT
         !.pc = "keeps", !.newest = newest, !.more = more,
         !.mark = IF read.whole /\ @ = 0 THEN newest ELSE @,
         !.after = IF more THEN LastPlace(page) ELSE @,
         !.resumed = FALSE,
         !.nodes = {[pull |-> a.pull, at |-> a.at, reviews |-> FirstReviews(reviews[a.pull])] : a \in fresh}]
  /\ UNCHANGED <<githubVars, hooks, rows, words, heard, historyVars, marks>>

\* GitHub has forgotten the cursor (422): the read begins anew.
PageRestarts ==
  /\ read.pc = "asks" /\ read.resumed
  /\ read' = [read EXCEPT !.after = NoPlace, !.mark = 0]
  /\ UNCHANGED <<githubVars, hooks, rows, words, heard, historyVars, marks>>

\* `repository` is null, as for a token that may not see it: the loop is left as after a
\* last page.
PageIsNull ==
  /\ read.pc = "asks" /\ (Gone \/ read.after = NoPlace)
  /\ read' = [read EXCEPT !.pc = "ends"]
  /\ UNCHANGED <<githubVars, hooks, rows, words, heard, historyVars, marks>>

\* keep: one transaction; a whole read's cursor and mark move with the page.
PageKept ==
  LET kept == {n.pull : n \in read.nodes}
      node(p) == CHOOSE n \in read.nodes : n.pull = p IN
  /\ read.pc = "keeps"
  /\ rows' = [p \in Pulls |-> IF p \in kept THEN node(p).at ELSE rows[p]]
  /\ words' = [p \in Pulls |-> IF p \in kept THEN reviewRow(node(p).reviews) ELSE words[p]]
  /\ heard' = [p \in Pulls |-> IF p \in kept THEN node(p).reviews ELSE heard[p]]
  /\ lateRows' = lateRows \ kept /\ overtaken' = overtaken \ kept
  /\ marks' = IF read.whole /\ read.more THEN [marks EXCEPT !.cursor = read.after, !.mark = read.mark]
              ELSE marks
  /\ read' = [read EXCEPT !.pc = IF read.more THEN "asks" ELSE "ends", !.nodes = {}]
  /\ UNCHANGED <<githubVars, hooks>>

\* Where the next read stops.  A whole read is followed by another at once, unless its
\* time is up; so may any other be.
\* Mutant: the mark is the newest update there is by now.
ReadEnds_Now ==
  /\ read.pc = "ends"
  /\ marks' = [pullsAt |-> latest, cursor |-> NoPlace, mark |-> 0, version |-> 1]
  /\ read' = NoRead
  /\ UNCHANGED <<githubVars, hooks, rows, words, heard, historyVars>>
ReadEnds ==
  LET at == IF read.whole THEN IF read.mark # 0 THEN read.mark ELSE marks.pullsAt
            ELSE IF read.newest # 0 THEN read.newest ELSE read.since IN
  /\ read.pc = "ends"
  /\ marks' = [pullsAt |-> at, cursor |-> NoPlace, mark |-> 0, version |-> 1]
  /\ read' = NoRead
  /\ UNCHANGED <<githubVars, hooks, rows, words, heard, historyVars>>

\* Its time is up, GitHub's or the database's failure is thrown, or the Builder stops.
ReadFails ==
  /\ read # NoRead /\ read' = NoRead
  /\ UNCHANGED <<githubVars, hooks, rows, words, heard, historyVars, marks>>

PullsNext ==
  \/ GitHubMoves
  \/ HookLost \/ keepPull \/ keepReview
  \/ ReadStarts \/ PageRestarts \/ PageIsNull \/ PageKept \/ ReadEnds \/ ReadFails
  \/ \E size \in PageSizes : PageComes(size)

PullsSpec == PullsInit /\ [][PullsNext]_pullsVars

-----------------------------------------------------------------------------
(* Properties *)

\* What the next read will not ask for again is kept as GitHub has it, reviews and all:
\* "a whole read cut off goes on from the page it stopped at, then reads what changed
\* while it ran", whatever webhooks came, were lost or overtook one another in between;
\* but a webhook that a later update has overtaken sets the row back to what it tells.
KeptThrough ==
  \A p \in Pulls : updated[p] # 0 /\ updated[p] <= marks.pullsAt =>
    /\ rows[p] = updated[p] \/ p \in lateRows
    /\ reviews[p] \subseteq heard[p]

Decisions(S) == {r \in S : r.state \in Decisive}
LastOf(S) == {r \in S : \A s \in S : s.at <= r.at}
Approvals(S) == {r \in S : r.state = "approved"}
IsFirst(at, S) == (\E r \in S : r.at = at) /\ \A r \in S : at <= r.at

\* A comment was the reviewer's last, later than any decision.
CommentedSince(S) == \E c \in S : c.state = "commented" /\ \A r \in Decisions(S) : r.at < c.at

\* The word on a reviewer's reviews is their last decision, a comment only if they never
\* decided.  What the code does not promise: a decision told of after a later comment does
\* not replace an earlier one.
Stands(p) ==
  /\ words[p].state \in Decisive <=> Decisions(heard[p]) # {}
  /\ \/ Decisions(heard[p]) = {}
     \/ \E r \in LastOf(Decisions(heard[p])) : words[p].state = r.state
     \/ p \in overtaken /\ CommentedSince(heard[p])

\* However a reviewer's reviews came, by webhook in any order, by a read or both, some of
\* them twice, the row says what they come to: "a reviewer's last word stands over later
\* comments, and their first approval is kept"; none is left out of its count, and its
\* first and last are theirs.
LastWord ==
  \A p \in Pulls : heard[p] # {} =>
    /\ words[p].reviews >= Cardinality(heard[p])
    /\ IsFirst(words[p].firstAt, heard[p])
    /\ \E r \in LastOf(heard[p]) : words[p].lastAt = r.at
    /\ IF Approvals(heard[p]) = {} THEN words[p].approvedAt = 0
       ELSE IsFirst(words[p].approvedAt, Approvals(heard[p]))
    /\ Stands(p)
=============================================================================
