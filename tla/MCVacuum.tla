------------------------------ MODULE MCVacuum ------------------------------
(***************************************************************************)
(* Small instances of Vacuum.                                              *)
(***************************************************************************)
EXTENDS Vacuum, TLC

Put(k) == [kind |-> "put", keys |-> {k}]
Del(k) == [kind |-> "del", keys |-> {k}]

PutsAndDels == {Put(k) : k \in Keys} \cup {Del(k) : k \in Keys}

OnlyPuts == {Put(k) : k \in Keys}

PutsAndMark == OnlyPuts \cup {[kind |-> "mark", keys |-> {}]}

KeySymmetry == Permutations(Keys)
=============================================================================
