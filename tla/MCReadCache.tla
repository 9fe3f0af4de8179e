---------------------------- MODULE MCReadCache ----------------------------
(* ReadCache on small instances: threads and addresses are model values.    *)
EXTENDS ReadCache, TLC

\* Threads run the same code and addresses are interchangeable, so permuting
\* either changes nothing.
Symmetry == Permutations(Readers) \cup Permutations(Dbs)
=============================================================================
