----------------------------- MODULE Compaction -----------------------------
(***************************************************************************)
(* Recovery and the vacuum's choice of what to drop as pure functions of   *)
(* the files, checked against each other over every short history: files   *)
(* are filled one after the other, and between two opens any sealed file   *)
(* may be compacted by what the last open decided.  The order of the steps *)
(* inside a vacuum, and crashes, are in module Vacuum.                     *)
(***************************************************************************)
EXTENDS Recovery

CONSTANTS Writes, Workers, MaxWrites, MaxFiles

VARIABLES
    hist,       \* the writes accepted
    dir,        \* the data files, named in the order they were created
    needed      \* needed_tombstones_ of the last open

vars == <<hist, dir, needed>>

Last == Max(DOMAIN dir)

\* Files go to workers by the rank of their names, which carry a random part
\* and change with each compaction: any assignment, up to naming workers.
Assignments ==
    {worker \in [DOMAIN dir -> Workers] : worker[Last] = Min(Workers)}

\* A write goes to the newest file.
Append1(op) ==
    /\ Len(hist) < MaxWrites
    /\ hist' = Append(hist, [seq |-> Len(hist) + 1, kind |-> op.kind, keys |-> op.keys])
    /\ dir' = [dir EXCEPT ![Last] = @ \cup {Len(hist) + 1}]
    /\ UNCHANGED needed

\* Rotation, of a file that holds something.
Rotate ==
    /\ dir[Last] # {}
    /\ Last < MaxFiles
    /\ dir' = [f \in DOMAIN dir \cup {Last + 1} |-> IF f > Last THEN {} ELSE dir[f]]
    /\ UNCHANGED <<hist, needed>>

\* What an open may compute: either path, any assignment.
Opens == {LoadRanged(hist, dir, worker) : worker \in Assignments}
           \cup {LoadStreams(hist, dir)}

\* An open decides which tombstones the vacuums of its session must keep.
Open(r) ==
    /\ needed' = [horizon |-> r.max_seq, writes |-> r.needed]
    /\ UNCHANGED <<hist, dir>>

\* A vacuum of file f, or the removal of what it leaves empty.
Compact(f) ==
    /\ f # Last
    /\ dir' = [dir EXCEPT ![f] =
         Compacted(hist, @, {Latest(hist, k) : k \in Keys}, needed, Len(hist))]
    /\ UNCHANGED <<hist, needed>>

Init == /\ hist = <<>>
        /\ dir = [f \in {1} |-> {}]
        /\ needed = [horizon |-> 0, writes |-> {}]

Next == \/ \E op \in Writes : Append1(op)
        \/ Rotate
        \/ \E r \in Opens : Open(r)
        \/ \E f \in DOMAIN dir : Compact(f)

Spec == Init /\ [][Next]_vars

\* Both recovery paths, whatever file goes to which worker, rebuild the same
\* key directory: for each key the latest of all the writes accepted, although
\* the files no longer hold the entries that vacuums dropped.
RecoversLatest ==
    \A r \in Opens, k \in Keys : r.kd[k].w = Latest(hist, k)
=============================================================================
