------------------------------- MODULE Vacuum -------------------------------
(***************************************************************************)
(* Vacuum against concurrent writes, rotation, kills, power cuts and the   *)
(* next open (db_vacuum.cpp, db_recovery.cpp, DB::DB, DB::close).          *)
(*                                                                         *)
(* A commit is one step here: how a write reaches the file and the         *)
(* published state is the subject of CommitPipeline.  What matters below   *)
(* is where its entry is: in which files, on the device or only in the     *)
(* page cache, and under a name that a power cut keeps or loses.           *)
(***************************************************************************)
EXTENDS Recovery, Functions

CONSTANTS
    Writes,         \* what a caller may write: records [kind, keys]
    Retentions,     \* the values of VacuumOptions::retain_after
    Workers,        \* the recovery threads
    MaxWrites, MaxFiles, MaxFaults, MaxCrashes

VARIABLES
    hist,       \* the accepted writes that a crash has not taken
    disk,       \* file name -> the writes it holds, as the page cache has it
    unlinked,   \* removed files whose removal is not durable, with contents
    unplaced,   \* names whose creation is not durable
    dirty,      \* writes in the page cache and not on the device
    mode,       \* "open", "refused" (degraded), "down", "corrupt" (open threw)
    kd,         \* key_dir: key -> [w, file]
    files,      \* EngineState::files, by name
    active,     \* active_file_id
    next_seq, durable_seq,
    needed,     \* needed_tombstones_: [horizon, writes]
    vac,        \* the vacuum in progress
    floor,      \* history: the highest retain_after a vacuum committed with
    faults, crashes

vars == <<hist, disk, unlinked, unplaced, dirty, mode, kd, files, active,
          next_seq, durable_seq, needed, vac, floor, faults, crashes>>

memory == <<kd, files, active, next_seq, durable_seq, needed>>

\* The functions without f, and with f holding ws.
Without(fn, f) == [g \in DOMAIN fn \ {f} |-> fn[g]]

With(fn, f, ws) == [g \in DOMAIN fn \cup {f} |-> IF g = f THEN ws ELSE fn[g]]

NoFiles == [f \in {} |-> {}]

Idle == [pc |-> "idle", src |-> 0, name |-> 0, copy |-> {}, live |-> {},
         decided |-> 0, retain |-> 0]

\* make_data_file_stem(): a name no file has, removed ones included.
Fresh == {f \in 1..MaxFiles : f \notin DOMAIN disk \cup DOMAIN unlinked}

NewName == CHOOSE f \in Fresh : \A g \in Fresh : f <= g

-----------------------------------------------------------------------------
(***************************************************************************)
(* Writes.                                                                 *)
(***************************************************************************)
\* apply_writes on the key directory.
Applied(op, w) ==
    [k \in Keys |-> IF k \notin op.keys THEN kd[k]
                    ELSE IF op.kind = "put" THEN [w |-> w, file |-> active]
                    ELSE Absent]

\* The active file is synced and sealed, and a new one takes its place; the
\* directory sync that makes its name durable makes every other name so.
SealAndRotate ==
    /\ Fresh # {}
    /\ disk' = With([disk EXCEPT ![active] = @ \cup {Len(hist) + 1}], NewName, {})
    /\ files' = files \cup {NewName}
    /\ active' = NewName
    /\ unlinked' = NoFiles
    /\ unplaced' = {}

\* A commit that succeeds: appended, published, synced if asked, and rotated
\* when it fills the file. The commits that fail are CommitPipeline's.
Write(op, sync, rotate) ==
    /\ mode = "open"
    /\ Len(hist) < MaxWrites
    /\ hist' = Append(hist, [seq |-> next_seq, kind |-> op.kind, keys |-> op.keys])
    /\ kd' = Applied(op, Len(hist) + 1)
    /\ next_seq' = next_seq + 1
    /\ IF sync \/ rotate
       THEN dirty' = {} /\ durable_seq' = next_seq
       ELSE dirty' = dirty \cup {Len(hist) + 1} /\ UNCHANGED durable_seq
    /\ IF rotate
       THEN SealAndRotate
       ELSE /\ disk' = [disk EXCEPT ![active] = @ \cup {Len(hist) + 1}]
            /\ UNCHANGED <<files, active, unlinked, unplaced>>
    /\ UNCHANGED <<mode, needed, vac, floor, faults, crashes>>

-----------------------------------------------------------------------------
(***************************************************************************)
(* Vacuum: one call at a time, under vacuum_mu_.                           *)
(***************************************************************************)
Puts(ws) == {w \in ws : hist[w].kind = "put"}

Tombstones(ws) == {w \in ws : hist[w].kind \in {"del", "range"}}

Markers(ws) == {w \in ws : hist[w].kind = "mark"}

\* The Puts of file f the key directory still points at.
Live(f) == {kd[k].w : k \in {j \in Keys : kd[j] # Absent /\ kd[j].file = f}}

\* vacuum() up to its choice of a file: a sealed one with dead Puts and
\* something at or below retain_after. With nothing to keep it is removed
\* without a scan, on the statistics read here.
VacuumSelect(f, retain) ==
    /\ mode = "open"
    /\ vac.pc = "idle"
    /\ f \in files \ {active}
    /\ Puts(disk[f]) \ Live(f) # {}
    /\ MinSeq(hist, disk[f]) <= retain
    /\ vac' = [Idle EXCEPT
         !.pc = IF /\ Live(f) = {} /\ Tombstones(disk[f]) = {}
                   /\ Markers(disk[f]) = {}
                   /\ MaxSeq(hist, disk[f]) <= retain
                THEN "remove" ELSE "compact",
         !.src = f, !.retain = retain]
    /\ UNCHANGED <<hist, disk, unlinked, unplaced, dirty, mode, memory, floor,
                   faults, crashes>>

\* vacuum_compact_file up to the staged copy: snapshot, scan, copy and sync.
\* The source is sealed and the snapshot immutable, so one step.
VacuumScan ==
    /\ vac.pc = "compact"
    /\ LET copy == Compacted(hist, disk[vac.src], Live(vac.src), needed,
                          vac.retain) IN
         vac' = IF copy = disk[vac.src] THEN Idle
                ELSE IF copy = {} THEN [vac EXCEPT !.pc = "remove"]
                ELSE [vac EXCEPT !.pc = "staged", !.copy = copy,
                                 !.live = Live(vac.src),
                                 !.decided = next_seq - 1]
    /\ UNCHANGED <<hist, disk, unlinked, unplaced, dirty, mode, memory, floor,
                   faults, crashes>>

\* renameDataFileExclusive: the copy takes its final name.
VacuumPlace ==
    /\ vac.pc = "staged"
    /\ Fresh # {}
    /\ disk' = With(disk, NewName, vac.copy)
    /\ unplaced' = unplaced \cup {NewName}
    /\ vac' = [vac EXCEPT !.pc = "placed", !.name = NewName]
    /\ UNCHANGED <<hist, unlinked, dirty, mode, memory, floor, faults, crashes>>

\* sync_directory after the rename.
VacuumSyncDirectory ==
    /\ vac.pc = "placed"
    /\ unplaced' = {}
    /\ unlinked' = NoFiles
    /\ vac' = [vac EXCEPT !.pc = "synced"]
    /\ UNCHANGED <<hist, disk, dirty, mode, memory, floor, faults, crashes>>


\* ~CopyCleanup while armed: the copy goes, and its removal is not durable.
\* The removal may fail too, and its error is ignored.
Cleanup(removed) ==
    /\ removed \/ vac.name # 0
    /\ IF vac.name = 0 \/ ~removed
       THEN UNCHANGED <<disk, unlinked, unplaced>>
       ELSE /\ disk' = Without(disk, vac.name)
            /\ unlinked' = With(unlinked, vac.name, vac.copy)
            /\ unplaced' = unplaced \ {vac.name}
    /\ vac' = Idle

Fault(happens) == /\ faults' = IF happens THEN faults + 1 ELSE faults
                  /\ faults' <= MaxFaults

\* A cancel or a failure before the commit.
VacuumAbandon(removed) ==
    /\ vac.pc \in {"staged", "placed", "synced"}
    /\ Fault(~removed)
    /\ Cleanup(removed)
    /\ UNCHANGED <<hist, dirty, mode, memory, floor, crashes>>

\* vacuum_remove_file loads its snapshot before it takes the barrier.
VacuumRemoveSnapshot ==
    /\ vac.pc = "remove"
    /\ vac' = [vac EXCEPT !.pc = "removing", !.decided = next_seq - 1]
    /\ UNCHANGED <<hist, disk, unlinked, unplaced, dirty, mode, memory, floor,
                   faults, crashes>>

\* Mutant: a key that was copied moves to the copy, whatever wrote it since.
Mut_Remapped_ByKey ==
    [k \in Keys |-> IF kd[k] # Absent /\ \E w \in vac.live : k \in hist[w].keys
                    THEN [kd[k] EXCEPT !.file = vac.name] ELSE kd[k]]

\* apply_vacuum: the entries no write changed meanwhile move to the copy.
Remapped ==
    [k \in Keys |-> IF kd[k].w \in vac.live /\ kd[k].w # NoWrite
                    THEN [kd[k] EXCEPT !.file = vac.name] ELSE kd[k]]

\* Mutant: what superseded the dropped entries is not made durable first.
Mut_VacuumCommit_NoSync ==
    /\ vac.pc \in {"synced", "removing"}
    /\ kd' = Remapped
    /\ files' = (files \ {vac.src}) \cup (IF vac.name = 0 THEN {} ELSE {vac.name})
    /\ vac' = [vac EXCEPT !.pc = "unlink"]
    /\ floor' = Max({floor, vac.retain})
    /\ UNCHANGED <<hist, disk, unlinked, unplaced, dirty, mode, active, next_seq,
                   durable_seq, needed, faults, crashes>>

\* vacuum_commit under the write barrier: everything the scan judged by is
\* made durable, then the copy replaces the source (or the source goes).
VacuumCommit ==
    /\ vac.pc \in {"synced", "removing"}
    /\ mode = "open" \/ durable_seq >= vac.decided
    /\ IF durable_seq < vac.decided
       THEN dirty' = {} /\ durable_seq' = next_seq - 1
       ELSE UNCHANGED <<dirty, durable_seq>>
    /\ kd' = Remapped
    /\ files' = (files \ {vac.src}) \cup (IF vac.name = 0 THEN {} ELSE {vac.name})
    /\ vac' = [vac EXCEPT !.pc = "unlink"]
    /\ floor' = Max({floor, vac.retain})
    /\ UNCHANGED <<hist, disk, unlinked, unplaced, mode, active, next_seq, needed,
                   faults, crashes>>

\* The commit throws: the engine refuses writes already, or the fdatasync
\* fails and degrades it. The copy goes and the source stays.
VacuumCommitFails ==
    /\ vac.pc \in {"synced", "removing"}
    /\ durable_seq < vac.decided
    /\ Fault(mode = "open")
    /\ mode' = "refused"
    /\ Cleanup(TRUE)
    /\ UNCHANGED <<hist, dirty, memory, floor, crashes>>

\* vacuum_unlink_old_file; a failure leaves the source beside its copy.
VacuumUnlink(removed) ==
    /\ vac.pc = "unlink"
    /\ Fault(~removed)
    /\ IF removed
       THEN /\ disk' = Without(disk, vac.src)
            /\ unlinked' = With(unlinked, vac.src, disk[vac.src])
       ELSE UNCHANGED <<disk, unlinked>>
    /\ vac' = Idle
    /\ UNCHANGED <<hist, unplaced, dirty, mode, memory, floor, crashes>>

-----------------------------------------------------------------------------
(***************************************************************************)
(* The end of a process, and the next open.                                *)
(***************************************************************************)
Lost == /\ kd' = [k \in Keys |-> Absent]
        /\ files' = {}
        /\ active' = 0
        /\ next_seq' = 1
        /\ durable_seq' = 0
        /\ needed' = [horizon |-> 0, writes |-> {}]
        /\ vac' = Idle

\* Mutant: resume() syncs the file without rewriting it.
Mut_Resume_NoRewrite ==
    /\ mode = "refused"
    /\ Fresh # {}
    /\ disk' = With(disk, NewName, {})
    /\ files' = files \cup {NewName}
    /\ active' = NewName
    /\ unlinked' = NoFiles
    /\ unplaced' = {}
    /\ durable_seq' = next_seq - 1
    /\ mode' = "open"
    /\ UNCHANGED <<hist, dirty, kd, next_seq, needed, vac, floor, faults, crashes>>

\* resume(): the active file is rewritten, synced and sealed. It does not
\* take vacuum_mu_.
Resume ==
    /\ mode = "refused"
    /\ Fresh # {}
    /\ disk' = With(disk, NewName, {})
    /\ files' = files \cup {NewName}
    /\ active' = NewName
    /\ unlinked' = NoFiles
    /\ unplaced' = {}
    /\ dirty' = {}
    /\ durable_seq' = next_seq - 1
    /\ mode' = "open"
    /\ UNCHANGED <<hist, kd, next_seq, needed, vac, floor, faults, crashes>>

\* close(): it waits for the vacuum and, unless refused, syncs the file. A
\* failed sync is rethrown at the end and leaves the file without a hint.
Close(synced) ==
    /\ mode \in {"open", "refused"}
    /\ vac.pc = "idle"
    /\ Fault(mode = "open" /\ ~synced)
    /\ dirty' = IF mode = "open" /\ synced THEN {} ELSE dirty
    /\ mode' = "down"
    /\ Lost
    /\ UNCHANGED <<hist, disk, unlinked, unplaced, floor, crashes>>

\* The process is killed; the page cache stays.
Kill ==
    /\ mode \in {"open", "refused"}
    /\ crashes < MaxCrashes
    /\ crashes' = crashes + 1
    /\ mode' = "down"
    /\ Lost
    /\ UNCHANGED <<hist, disk, unlinked, unplaced, dirty, floor, faults>>

\* A power cut: the writes from first on that were not on the device are
\* gone, removals may be undone and unsynced names may vanish.
PowerCut(first, back, gone) ==
    /\ mode # "corrupt"
    /\ crashes < MaxCrashes
    /\ crashes' = crashes + 1
    /\ hist' = SubSeq(hist, 1, first - 1)
    /\ disk' = [f \in (DOMAIN disk \ gone) \cup back |->
                   (IF f \in back THEN unlinked[f] ELSE disk[f]) \ (first..Len(hist))]
    /\ unlinked' = NoFiles
    /\ unplaced' = {}
    /\ dirty' = {}
    /\ mode' = "down"
    /\ Lost
    /\ UNCHANGED <<floor, faults>>

\* Mutant: an entry of the source that the copy lacks ends the comparison.
Mut_IsCompactionOf_Prefix(copy, source) ==
    /\ disk[copy] \subseteq disk[source]
    /\ \A w \in disk[source] \ disk[copy] : \A x \in disk[copy] : x < w

\* is_compaction_of: every entry of copy is in source.
IsCompactionOf(copy, source) == disk[copy] \subseteq disk[source]

\* recovery_undo_interrupted_vacuum: of two files under the same sequences
\* the copy is deleted, or the open throws. recovery_prepare_files has made
\* the hint-less files durable by then.
UndoInterruptedVacuum(a, b) ==
    /\ mode = "down"
    /\ <<a, b>> \in Overlap(hist, disk)
    /\ dirty' = {}
    /\ \/ /\ IsCompactionOf(a, b)
          /\ disk' = Without(disk, a)
          /\ unlinked' = With(unlinked, a, disk[a])
          /\ unplaced' = unplaced \ {a}
          /\ UNCHANGED mode
       \/ /\ ~IsCompactionOf(a, b) /\ ~IsCompactionOf(b, a)
          /\ mode' = "corrupt"
          /\ UNCHANGED <<disk, unlinked, unplaced>>
    /\ UNCHANGED <<hist, memory, vac, floor, faults, crashes>>

\* DB::DB: recovery over the files found, which computed r, then a new active
\* file whose directory sync makes every name durable.
Open(r) ==
    /\ mode = "down"
    /\ Overlap(hist, disk) = {}
    /\ Fresh # {}
    /\ kd' = r.kd
    /\ needed' = [horizon |-> r.max_seq, writes |-> r.needed]
    /\ next_seq' = r.max_seq + 1
    /\ durable_seq' = r.max_seq
    /\ files' = DOMAIN disk \cup {NewName}
    /\ active' = NewName
    /\ disk' = With(disk, NewName, {})
    /\ unlinked' = NoFiles
    /\ unplaced' = {}
    /\ dirty' = {}
    /\ mode' = "open"
    /\ UNCHANGED <<hist, vac, floor, faults, crashes>>

-----------------------------------------------------------------------------
Init ==
    /\ hist = <<>>
    /\ disk = NoFiles
    /\ unlinked = NoFiles
    /\ unplaced = {}
    /\ dirty = {}
    /\ mode = "down"
    /\ kd = [k \in Keys |-> Absent]
    /\ files = {}
    /\ active = 0
    /\ next_seq = 1
    /\ durable_seq = 0
    /\ needed = [horizon |-> 0, writes |-> {}]
    /\ vac = Idle
    /\ floor = 0
    /\ faults = 0
    /\ crashes = 0

Vacuuming ==
    \/ \E f \in files, r \in Retentions : VacuumSelect(f, r)
    \/ VacuumScan
    \/ VacuumPlace
    \/ VacuumSyncDirectory
    \/ \E removed \in BOOLEAN : VacuumAbandon(removed)
    \/ VacuumRemoveSnapshot
    \/ VacuumCommit
    \/ VacuumCommitFails
    \/ \E removed \in BOOLEAN : VacuumUnlink(removed)

Next ==
    \/ \E op \in Writes, sync, rotate \in BOOLEAN : Write(op, sync, rotate)
    \/ Vacuuming
    \/ Resume
    \/ \E synced \in BOOLEAN : Close(synced)
    \/ Kill
    \/ \E first \in dirty \cup {Len(hist) + 1},
          back \in SUBSET DOMAIN unlinked, gone \in SUBSET unplaced :
            PowerCut(first, back, gone)
    \/ \E a, b \in DOMAIN disk : UndoInterruptedVacuum(a, b)
    \/ \E worker \in [DOMAIN disk -> Workers] : Open(LoadRanged(hist, disk, worker))
    \/ Open(LoadStreams(hist, disk))

Spec == Init /\ [][Next]_vars

-----------------------------------------------------------------------------
Up == mode \in {"open", "refused"}

\* Every variable has its type; the engine's files are on disk, and so is
\* every name whose creation a power cut may lose.
TypeOK ==
    /\ hist \in Seq(Op)
    /\ DOMAIN disk \subseteq 1..MaxFiles /\ Held(disk) \subseteq DOMAIN hist
    /\ DOMAIN unlinked \subseteq 1..MaxFiles
    /\ unplaced \subseteq DOMAIN disk
    /\ dirty \subseteq DOMAIN hist
    /\ mode \in {"open", "refused", "down", "corrupt"}
    /\ kd \in [Keys -> [w : Nat, file : Nat]]
    /\ files \subseteq DOMAIN disk
    /\ active \in 0..MaxFiles
    /\ next_seq \in Nat /\ durable_seq \in Nat /\ floor \in Nat
    /\ needed.horizon \in Nat /\ needed.writes \subseteq DOMAIN hist
    /\ vac.pc \in {"idle", "compact", "staged", "placed", "synced", "remove",
                   "removing", "unlink"}
    /\ faults \in 0..MaxFaults /\ crashes \in 0..MaxCrashes

\* No value is lost and none comes back: on an open engine every key reads
\* the newest write that no crash took, whatever vacuum_commit() replaced,
\* vacuum_unlink_old_file() removed and a power cut undid.
ReadsLatest == Up => \A k \in Keys : kd[k].w = Latest(hist, k)

\* apply_vacuum() moves what it must and nothing else: every entry of the key
\* directory names a file of the state, still on disk, that holds the write.
LocatedOnDisk ==
    \A k \in Keys : kd[k] # Absent =>
        /\ kd[k].file \in files
        /\ kd[k].w \in disk[kd[k].file]

\* Retention: a write above every retain_after used so far, and every change
\* marker, is in some file of the state for changes_since to find.
HistoryKept ==
    Up => \A w \in DOMAIN hist :
            hist[w].seq > floor \/ hist[w].kind = "mark" =>
                \E f \in files : w \in disk[f]

\* durable_seq is honest across vacuum's own sync, resume() and open: nothing
\* at or below it is only in the page cache.
DurableHonest ==
    Up => \A w \in dirty : hist[w].seq > durable_seq

\* recovery_undo_interrupted_vacuum() resolves whatever a killed or failed
\* vacuum left: open never reports a corrupt database.
OpenSucceeds == mode # "corrupt"

\* The next_seq that open derives from the files is above every sequence ever
\* accepted: of two writes no crash took, the later has the higher sequence.
SequencesIncrease ==
    \A i \in 1..Len(hist) - 1 : hist[i].seq < hist[i + 1].seq
=============================================================================
