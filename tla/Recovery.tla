------------------------------ MODULE Recovery ------------------------------
(***************************************************************************)
(* What DB::open computes from the data files: the key directory, the      *)
(* tombstones a later vacuum must keep, and the pairs of files that hold   *)
(* the same sequences (db_recovery.cpp); and what a vacuum keeps of a file *)
(* by it (db_vacuum.cpp).                                                  *)
(*                                                                         *)
(* A write is identified by its position in hist, the list of the writes   *)
(* the engine accepted; hist[w] gives its sequence, its kind and the keys  *)
(* it acts on.  A directory dir maps the name of a data file to the set of *)
(* writes the file holds.  Offsets, sizes and bytes are abstracted: a file *)
(* lists its writes in sequence order, and every entry has the same size.  *)
(***************************************************************************)
EXTENDS Integers, FiniteSets, FiniteSetsExt, Sequences

CONSTANT Keys

NoWrite == 0

\* A key the key directory does not hold.
Absent == [w |-> NoWrite, file |-> NoWrite]

Kinds == {"put", "del", "range", "mark"}

Op == [seq : Nat, kind : Kinds, keys : SUBSET Keys]

\* The writes every file of dir holds.
Held(dir) == UNION {dir[f] : f \in DOMAIN dir}

\* The sequences a file spans: FileStats::min_sequence and max_sequence.
MinSeq(hist, ws) == Min({hist[w].seq : w \in ws})

MaxSeq(hist, ws) == Max({0} \cup {hist[w].seq : w \in ws})

\* The write of ws with the highest sequence.
Newest(hist, ws) == CHOOSE w \in ws : \A v \in ws : hist[v].seq <= hist[w].seq

\* EntryType::Put and EntryType::Delete of key k.
PointsOf(hist, ws, k) ==
    {w \in ws : hist[w].kind \in {"put", "del"} /\ k \in hist[w].keys}

RangesOf(hist, ws) == {w \in ws : hist[w].kind = "range"}

\* One entry per file: the file's newest entry for the key (load() of a
\* cursor collapses the rest).
Matches(hist, dir, k) ==
    {[w |-> Newest(hist, PointsOf(hist, dir[f], k)), file |-> f] :
        f \in {g \in DOMAIN dir : PointsOf(hist, dir[g], k) # {}}}

Winner(hist, ms) ==
    CHOOSE m \in ms : \A n \in ms : hist[n.w].seq <= hist[m.w].seq

\* older_put_elsewhere: a Put among ms, older than seq, from another file.
OlderPutElsewhere(hist, ms, seq, file) ==
    \E p \in ms : /\ hist[p.w].kind = "put"
                  /\ hist[p.w].seq < seq
                  /\ p.file # file

\* A range tombstone of dir that deletes key k at sequence seq.
Suppressed(hist, dir, k, seq) ==
    \E r \in RangesOf(hist, Held(dir)) : k \in hist[r].keys /\ seq < hist[r].seq

\* Mutant: range tombstones are not marked.
Mut_MarkNeeded_NoRanges(hist, dir) ==
    UNION {LET ms == Matches(hist, dir, k) IN
             {m.w : m \in {d \in ms :
                 /\ hist[d.w].kind = "del"
                 /\ OlderPutElsewhere(hist, ms, hist[d.w].seq, d.file)}}
           : k \in Keys}

\* recovery_mark_needed, for every key a worker merges.
MarkNeeded(hist, dir) ==
    UNION {LET ms == Matches(hist, dir, k) IN
             {m.w : m \in {d \in ms :
                 /\ hist[d.w].kind = "del"
                 /\ OlderPutElsewhere(hist, ms, hist[d.w].seq, d.file)}}
             \cup
             {r \in RangesOf(hist, Held(dir)) :
                 /\ k \in hist[r].keys
                 /\ \E f \in DOMAIN dir :
                       r \in dir[f] /\ OlderPutElsewhere(hist, ms, hist[r].seq, f)}
           : k \in Keys}

\* recovery_build_sorted: what one worker makes of its own files. offers is
\* its key directory, tombs the newest Delete it met for each key.
BuildSorted(hist, dir) ==
    [offers |-> [k \in Keys |->
        LET ms == Matches(hist, dir, k)
            m == Winner(hist, ms)
        IN  IF ms # {} /\ hist[m.w].kind = "put"
                       /\ ~Suppressed(hist, dir, k, hist[m.w].seq)
            THEN {m} ELSE {}],
     tombs |-> [k \in Keys |->
        {m.w : m \in {d \in Matches(hist, dir, k) : hist[d.w].kind = "del"}}],
     needed |-> MarkNeeded(hist, dir)]

\* recovery_load_streams, the blind key directory's path: every file meets in
\* one merge per key range.
LoadStreams(hist, dir) ==
    LET all == BuildSorted(hist, dir)
    IN  [kd |-> [k \in Keys |-> IF all.offers[k] = {} THEN Absent
                                ELSE CHOOSE m \in all.offers[k] : TRUE],
         needed |-> all.needed,
         max_seq |-> MaxSeq(hist, Held(dir))]

\* recovery_load_ranged, up to the merge: each worker builds its own part.
\* worker assigns every file to one.
Parts(hist, dir, worker) ==
    {BuildSorted(hist, [f \in {g \in DOMAIN dir : worker[g] = i} |-> dir[f]]) :
        i \in {worker[f] : f \in DOMAIN dir}}

\* The merge of one key: offers are the Puts the parts hold for it, tombs the
\* Deletes they met, the newest of which counts.
MergeKey(hist, dir, k, offers, tombs) ==
    LET winner == Winner(hist, offers)
        hides(t, m) == hist[m.w].seq < hist[t].seq
        tomb == {t \in tombs : t = Newest(hist, tombs)}
        ranges == {r \in RangesOf(hist, Held(dir)) : k \in hist[r].keys}
    IN  [kd |-> IF \/ offers = {}
                   \/ \E t \in tomb \cup ranges : hides(t, winner)
                THEN Absent ELSE winner,
         needed |-> {t \in tomb : \E m \in offers : hides(t, m)}
                      \cup {r \in ranges : \E m \in offers :
                               hides(r, m) /\ r \notin dir[m.file]}]

\* recovery_load_ranged: the parts merged key by key.
LoadRanged(hist, dir, worker) ==
    LET parts == Parts(hist, dir, worker)
        merged == [k \in Keys |->
            MergeKey(hist, dir, k, UNION {p.offers[k] : p \in parts},
                     UNION {p.tombs[k] : p \in parts})]
    IN  [kd |-> [k \in Keys |-> merged[k].kd],
         needed |-> UNION ({p.needed : p \in parts}
                             \cup {merged[k].needed : k \in Keys}),
         max_seq |-> MaxSeq(hist, Held(dir))]

\* find_sequence_overlap and SequenceOverlap: two files whose sequences
\* overlap. Which pair is met first depends on file names, whose order within
\* a second is random, and on the merge; any pair is allowed here.
Overlap(hist, dir) ==
    {p \in (DOMAIN dir) \X (DOMAIN dir) :
        /\ p[1] # p[2]
        /\ dir[p[1]] # {} /\ dir[p[2]] # {}
        /\ MinSeq(hist, dir[p[1]]) <= MaxSeq(hist, dir[p[2]])
        /\ MinSeq(hist, dir[p[2]]) <= MaxSeq(hist, dir[p[1]])}

\* NeededTombstones::droppable, by what the last open found: the highest
\* sequence it saw and the tombstones it marked.
Droppable(hist, needed, w) ==
    hist[w].seq <= needed.horizon /\ w \notin needed.writes

\* Mutant: a dead Put is dropped whatever retain_after says.
Mut_Compacted_NoRetention(hist, ws, live, needed, retain) ==
    {w \in ws :
        \/ hist[w].kind = "put" /\ w \in live
        \/ /\ hist[w].kind \in {"del", "range"}
           /\ ~(hist[w].seq <= retain /\ Droppable(hist, needed, w))
        \/ hist[w].kind = "mark"}

\* vacuum_scan_and_copy: what a compacted copy keeps of the writes ws of its
\* source, of which the key directory still points at live.
Compacted(hist, ws, live, needed, retain) ==
    {w \in ws :
        \/ hist[w].kind = "put" /\ (w \in live \/ hist[w].seq > retain)
        \/ /\ hist[w].kind \in {"del", "range"}
           /\ ~(hist[w].seq <= retain /\ Droppable(hist, needed, w))
        \/ hist[w].kind = "mark"}

-----------------------------------------------------------------------------
(***************************************************************************)
(* The reference: what a key reads after the first n writes of hist.       *)
(***************************************************************************)
Touching(hist, k) == {w \in DOMAIN hist : k \in hist[w].keys}

\* The write a read of k returns, NoWrite if the key is absent.
Latest(hist, k) ==
    LET ws == Touching(hist, k)
    IN  IF ws # {} /\ hist[Max(ws)].kind = "put" THEN Max(ws) ELSE NoWrite

=============================================================================
