-------------------------- MODULE MCCommitPipeline --------------------------
(* Small instances of CommitPipeline.                                      *)
EXTENDS CommitPipeline, TLC

Put(s) == [op |-> "put", sync |-> s]
Del(s) == [op |-> "del", sync |-> s]
Check(s) == [op |-> "check", sync |-> s]
Empty == [op |-> "empty", sync |-> TRUE]

MixedPlans == {Put(TRUE), Put(FALSE), Check(FALSE)}
PutPlans == {Put(TRUE), Put(FALSE)}
AllPlans == {Put(TRUE), Put(FALSE), Del(TRUE), Check(FALSE), Empty}

Symmetry == Permutations(Writers) \cup Permutations(Admins)
=============================================================================
