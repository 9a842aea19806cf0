---------------------------- MODULE MCOwnership ----------------------------
(***************************************************************************)
(* Ownership for TLC: one history with a commit that only spaces a line    *)
(* anew, its revert, a rename with an edit, a merge and an edit after it.  *)
(***************************************************************************)
EXTENDS Ownership
CONSTANTS A, B

C == 1 .. 7
la == <<"a", 0>>
la2 == <<"a", 1>>
lb == <<"b", 0>>
lc == <<"c", 0>>
MCLines == {la, la2, lb, lc}
MCSqueezed == [l \in MCLines |-> l[1]]
MCParents == [c \in C |-> <<<<>>, <<1>>, <<2>>, <<1>>, <<3, 4>>, <<5>>, <<4, 3>>>>[c]]
Files2(a, b) == [p \in {A, B} |-> IF p = A THEN a ELSE b]
MCTree == [c \in C |->
  << Files2({la, lb}, NoFile),       \* 1: the root
     Files2({la2, lb}, NoFile),      \* 2: a line spaced anew
     Files2({la, lb}, NoFile),       \* 3: and back
     Files2(NoFile, {la, lb, lc}),   \* 4: moved and edited, beside
     Files2({la, lb}, {la, lb, lc}), \* 5: both merged
     Files2({lb}, {la2, lb, lc}),    \* 6: edited
     Files2(NoFile, {la, lb, lc})    \* 7: merged the other way round
  >>[c]]
MCPassThrough == [s \in {"all", "some"} |-> IF s = "all" THEN {} ELSE {2, 6}]

MCBlamed ==
  LET blamed[s \in DOMAIN MCPassThrough, c \in C, p \in {A, B}, l \in MCLines] ==
        LET n == CameFrom(s, c, p, l) IN
        IF n.commit = c THEN c ELSE blamed[s, n.commit, n.path, n.line]
  IN  [s \in DOMAIN MCPassThrough |-> [c \in C |-> [p \in {A, B} |-> [l \in MCLines |->
        IF MCTree[c][p] # NoFile /\ l \in MCTree[c][p] THEN blamed[s, c, p, l] ELSE NoCommit]]]]
=============================================================================
