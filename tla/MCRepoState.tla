---------------------------- MODULE MCRepoState ----------------------------
(* RepoState for TLC: a cache of two files, in three states that share chunks. *)
EXTENDS RepoState
CONSTANTS job1, job2, ca, cb, cc

MCCaches == {<<<<ca>>, <<cb>>>>, <<<<ca, cb>>, <<cc>>>>}
=============================================================================
