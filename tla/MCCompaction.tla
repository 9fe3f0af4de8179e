---------------------------- MODULE MCCompaction ----------------------------
(***************************************************************************)
(* Small instances of Compaction.                                          *)
(***************************************************************************)
EXTENDS Compaction, TLC

\* A Put and a Delete of each key, and a range over all.
PutsAndTombstones ==
    [kind : {"put", "del"}, keys : {{k} : k \in Keys}]
      \cup {[kind |-> "range", keys |-> Keys]}

KeySymmetry == Permutations(Keys)
=============================================================================
