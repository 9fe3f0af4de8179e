--------------------------- MODULE CommitPipeline ---------------------------
(***************************************************************************)
(* The commit pipeline: bytecaskdb/db_commit.cpp, the degraded-state       *)
(* machinery of db_degraded.cpp and the publication primitives of          *)
(* bytecask.cppm and db_state.cpp.                                         *)
(*                                                                         *)
(* Stage 1 (execute_group, under write_mu_) validates a batch against the  *)
(* prepared head, appends it to the active file and makes the result the   *)
(* new head.  Stage 2 (commit_wait) is run by whichever waiting writer wins*)
(* the flush role: it syncs the file and publishes the head.  Rotation,    *)
(* resume() and the other barriers hold write_mu_ and the flush role.      *)
(*                                                                         *)
(* One write is one committed unit and takes one sequence, and all writes  *)
(* are to one key, so a state of the key directory is a prefix of the log. *)
(* Each writer makes one call.  A step is what happens between two points  *)
(* where another thread can interfere: a critical section of durable_mu_,  *)
(* a load or store of state_, a system call.                               *)
(***************************************************************************)
EXTENDS Naturals, Sequences, FiniteSets

CONSTANTS
  Writers,      \* the threads that call apply_batch(), once each
  Stage1,       \* the thread that runs the current batch under write_mu_
  Admins,       \* the threads that call resume() and the other barriers
  NoOne,        \* no thread
  Plans,        \* the write plans a caller may submit
  Faults,       \* the failures the environment may inject
  MaxFaults, MaxAdmin, MaxCrashes    \* bounds on how many of each happen

Threads == Writers \cup Admins \cup {Stage1}

PlanSet == [op : {"put", "del", "check", "empty"}, sync : BOOLEAN]

FaultSet == {"append",       \* append_entries fails part way
             "append_sync",  \* so does the fdatasync attempted after that
             "sync",         \* any other fdatasync fails
             "alloc",        \* an allocation after the append fails
             "create",       \* the next active file cannot be created
             "limit",        \* no sequence or file id is left for a slot
             "evict"}        \* pages a failed fdatasync left are evicted

ASSUME ThreadsAssumption ==
  /\ Stage1 \notin Writers \cup Admins /\ Writers \cap Admins = {}
  /\ NoOne \notin Threads
ASSUME PlansAssumption == Plans \subseteq PlanSet
ASSUME FaultsAssumption == Faults \subseteq FaultSet
ASSUME BoundsAssumption ==
  MaxFaults \in Nat /\ MaxAdmin \in Nat /\ MaxCrashes \in Nat

VARIABLES
  \* The data files and the device under them.
  log,      \* the committed units in the files, in file order
  torn,     \* whole units a failed append wrote past the logical end
  stable,   \* the length of the prefix of log that is on the device
  hole,     \* a failed fdatasync left pages after stable clean, not written
  gap,      \* 0, or the first record a rewrite found unreadable
  \* The engine.
  head,         \* head_
  state,        \* state_
  write_fault,  \* write_fault_
  flush_error,  \* flush_error_ is set
  write_mu, durable_mu,  \* holder of each mutex
  role,         \* the thread flush_in_flight_ stands for
  \* The threads.
  pc, ret,      \* where each thread is; where it goes after refuse_writes()
  plan, slot,   \* of each writer
  refusing,     \* commit_wait()'s local
  grp,          \* the batch in stage 1
  cap,          \* flush_pending()'s locals head and published
  op,           \* the barrier each admin thread runs
  \* History.
  returned,     \* what each writer's call reported
  seen,         \* next_seq of state_ when each writer's call began
  born,         \* epoch in which each writer's unit was appended
  doomed,       \* writers whose unit a failed flush was to cover
  epoch,        \* resume() publications and restarts so far
  faults, admins, crashes

disk == <<log, torn, stable, hole, gap>>
refusal == <<write_fault, flush_error>>
locks == <<write_mu, durable_mu, role>>
calls == <<plan, slot, refusing, op>>
history == <<returned, seen, born, doomed, epoch>>
budget == <<faults, admins, crashes>>
vars == <<disk, head, state, refusal, locks, pc, ret, calls, grp, cap,
          history, budget>>

EngineState == [next_seq : Nat, durable_seq : Nat, sync_requested_seq : Nat,
                active_file_id : Nat, degraded : BOOLEAN]
Unit == [writer : Writers, seq : Nat, file : Nat]
Slots == [result : {"none", "committed", "empty", "conflict"},
          sequence : Nat, sync_through : Nat, rests_on : Nat,
          err : BOOLEAN]

Groups == [todo : SUBSET Writers, batch : SUBSET Writers, entries : Seq(Unit),
           t : EngineState, durable : Nat, any_sync : BOOLEAN,
           err : {"none", "io", "degraded", "rotation", "other"}]

NoSlot == [result |-> "none", sequence |-> 0, sync_through |-> 0,
           rests_on |-> 0, err |-> FALSE]

(* What open() publishes for n recovered units: all of them are durable,   *)
(* and a fresh active file follows.                                        *)
Opened(n, file) ==
  [next_seq |-> n + 1, durable_seq |-> n, sync_requested_seq |-> 0,
   active_file_id |-> file, degraded |-> FALSE]


NewGroup(B) ==
  [todo |-> B, batch |-> B, entries |-> <<>>, t |-> head,
   durable |-> state.durable_seq, any_sync |-> FALSE, err |-> "none"]

Init ==
  /\ log = <<>> /\ torn = <<>> /\ stable = 0 /\ hole = FALSE /\ gap = 0
  /\ head = Opened(0, 1) /\ state = Opened(0, 1)
  /\ write_fault = FALSE /\ flush_error = FALSE
  /\ write_mu = NoOne /\ durable_mu = NoOne /\ role = NoOne
  /\ pc = [t \in Threads |-> IF t \in Writers THEN "idle" ELSE "free"]
  /\ ret = [t \in Threads |-> "none"]
  /\ plan \in [Writers -> Plans]
  /\ slot = [w \in Writers |-> NoSlot]
  /\ refusing = [w \in Writers |-> FALSE]
  /\ grp = NewGroup({})
  /\ cap = [head |-> head, published |-> state]
  /\ op = [a \in Admins |-> "none"]
  /\ returned = [w \in Writers |-> "none"]
  /\ seen = [w \in Writers |-> 0] /\ born = [w \in Writers |-> 0]
  /\ doomed = {} /\ epoch = 0
  /\ faults = 0 /\ admins = 0 /\ crashes = 0

Max2(a, b) == IF a > b THEN a ELSE b
Goto(t, l) == pc' = [pc EXCEPT ![t] = l]

Fault(f) == f \in Faults /\ faults < MaxFaults /\ faults' = faults + 1
NoFault == UNCHANGED faults

-----------------------------------------------------------------------------
(* refused(): the published state is degraded, or write_fault_ is set.     *)
Refused == state.degraded \/ write_fault

(* The key's presence in the state that holds the first n units.           *)
PresentAt(n) == n \in DOMAIN log /\ plan[log[n].writer].op = "put"

(* fdatasync() of a file, for the units up to n that were written before   *)
(* it: a success after a failure writes nothing (#231).                    *)
SyncOk(file, n) ==
  /\ stable' = IF /\ ~hole /\ n > stable
                  /\ \A i \in stable + 1 .. n : log[i].file = file
               THEN n ELSE stable
  /\ UNCHANGED <<log, torn, hole, gap>>
SyncFails ==
  /\ hole' = (hole \/ stable < Len(log))
  /\ UNCHANGED <<log, torn, stable, gap>>

(* The checked store_state(): a publication that would move back, or owe a *)
(* sync, is refused and the engine degrades.                               *)
StoreChecks(old, new) ==
  /\ new.next_seq >= old.next_seq
  /\ new.active_file_id >= old.active_file_id
  /\ new.durable_seq >= old.durable_seq
  /\ new.sync_requested_seq <= new.durable_seq
StoreState(old, new) ==
  state' = IF StoreChecks(old, new) THEN new
           ELSE [state EXCEPT !.degraded = TRUE]

(* Its notification is for a publication that advances something.          *)
Advances ==
  state'.durable_seq > state.durable_seq \/ state'.next_seq > state.next_seq

(* The waits on durable_cv_: a thread checks its predicate with durable_mu *)
(* held ("..._lock"), and sleeps when it is false; a notifier passes       *)
(* through durable_mu_ after what it changed and before it notifies.       *)
Parked == {"cw_parked", "st_parked", "q_parked"}
Unpark(l) == CASE l = "cw_parked" -> "cw_lock"
               [] l = "st_parked" -> "st_lock"
               [] l = "q_parked" -> "q_lock"
               [] OTHER -> l
NotifyAll(t, l) ==
  /\ durable_mu = NoOne
  /\ pc' = [u \in Threads |-> IF u = t THEN l ELSE Unpark(pc[u])]

-----------------------------------------------------------------------------
(* apply_batch() up to submit(): a refused engine throws at once.          *)
Call(w) ==
  /\ pc[w] = "idle"
  /\ seen' = [seen EXCEPT ![w] = state.next_seq]
  /\ IF Refused
     THEN Goto(w, "done") /\ returned' = [returned EXCEPT ![w] = "degraded"]
     ELSE Goto(w, "queued") /\ UNCHANGED returned
  /\ UNCHANGED <<disk, head, state, refusal, locks, ret, calls, grp, cap, born,
                 doomed, epoch, budget>>

(* execute_slots() takes write_mu_ and execute_group() admits a batch, on  *)
(* the published state and not the head.                                   *)
GroupAdmit(B) ==
  /\ pc[Stage1] = "free" /\ write_mu = NoOne
  /\ B # {} /\ \A w \in B : pc[w] = "queued"
  /\ IF Refused
     THEN /\ pc' = [t \in Threads |-> IF t \in B THEN "done" ELSE pc[t]]
          /\ returned' = [w \in Writers |->
                            IF w \in B THEN "degraded" ELSE returned[w]]
          /\ UNCHANGED <<write_mu, grp>>
     ELSE /\ Goto(Stage1, "phase1")
          /\ write_mu' = Stage1
          /\ grp' = NewGroup(B)
          /\ UNCHANGED returned
  /\ UNCHANGED <<disk, head, state, refusal, durable_mu, role, ret, calls, cap,
                 seen, born, doomed, epoch, budget>>

(* What the transient holds after the slots before this one.               *)
PresentInGroup ==
  IF grp.entries = <<>> THEN PresentAt(head.next_seq - 1)
  ELSE plan[grp.entries[Len(grp.entries)].writer].op = "put"
Conflicts(w) == plan[w].op \in {"del", "check"} /\ ~PresentInGroup
Appends(w) == plan[w].op \in {"put", "del"} /\ ~Conflicts(w)

(* execute_slot(): validate_preconditions, prepare_write, apply_writes.    *)
(* An outcome that appends nothing records the sequence it rests on.       *)
ExecuteSlot(w) ==
  /\ pc[Stage1] = "phase1" /\ w \in grp.todo
  /\ LET latest == grp.t.next_seq - 1
     IN  IF Appends(w)
         THEN /\ grp' = [grp EXCEPT
                    !.todo = @ \ {w},
                    !.t.next_seq = @ + 1,
                    !.entries = Append(@, [writer |-> w,
                                           seq |-> grp.t.next_seq,
                                           file |-> grp.t.active_file_id]),
                    !.any_sync = @ \/ plan[w].sync]
              /\ slot' = [slot EXCEPT ![w].result = "committed",
                                      ![w].sequence = grp.t.next_seq]
         ELSE /\ grp' = [grp EXCEPT !.todo = @ \ {w},
                                    !.any_sync = @ \/ plan[w].sync]
              /\ slot' = [slot EXCEPT
                    ![w].result = IF Conflicts(w) THEN "conflict" ELSE "empty",
                    ![w].rests_on = IF plan[w].op = "empty" THEN 0 ELSE latest]
  /\ NoFault
  /\ UNCHANGED <<disk, head, state, refusal, locks, pc, ret, plan, op, refusing,
                 cap, history, admins, crashes>>

(* A slot that has no sequence or file id left to take fails alone.        *)
ExecuteSlotLimit(w) ==
  /\ pc[Stage1] = "phase1" /\ w \in grp.todo /\ Appends(w)
  /\ Fault("limit")
  /\ grp' = [grp EXCEPT !.todo = @ \ {w}, !.any_sync = @ \/ plan[w].sync]
  /\ slot' = [slot EXCEPT ![w].err = TRUE]
  /\ UNCHANGED <<disk, head, state, refusal, locks, pc, ret, plan, op, refusing,
                 cap, history, admins, crashes>>

(* The sync slots that appended nothing wait for the head's last sequence. *)
HeadLast == grp.t.next_seq - 1
SyncOnly(w) ==
  /\ w \in grp.batch /\ plan[w].sync /\ slot[w].result = "empty"
  /\ HeadLast > grp.durable
NoteSyncOnly ==
  slot' = [w \in Writers |->
             IF SyncOnly(w) THEN [slot[w] EXCEPT !.sync_through = HeadLast]
             ELSE slot[w]]
Mut_NoteSyncRequested_Dropped(t, n) == t

NoteSyncRequested(t, n) ==
  [t EXCEPT !.sync_requested_seq = Max2(@, n)]

(* No slot appended anything: the head may still come to owe a sync.       *)
GroupAppendsNothing ==
  /\ pc[Stage1] = "phase1" /\ grp.todo = {} /\ grp.entries = <<>>
  /\ NoteSyncOnly
  /\ head' = IF \E w \in Writers : SyncOnly(w)
             THEN NoteSyncRequested(grp.t, HeadLast) ELSE head
  /\ Goto(Stage1, "group_done")
  /\ UNCHANGED <<disk, state, refusal, locks, ret, plan, op, refusing, grp, cap,
                 history, budget>>

(* append_entries() succeeds: the units are in the file, past the head.    *)
GroupAppend ==
  /\ pc[Stage1] = "phase1" /\ grp.todo = {} /\ grp.entries # <<>>
  /\ NoteSyncOnly
  /\ log' = log \o grp.entries
  /\ born' = [w \in Writers |->
                IF \E i \in DOMAIN grp.entries : grp.entries[i].writer = w
                THEN epoch ELSE born[w]]
  /\ grp' = IF grp.any_sync
            THEN [grp EXCEPT !.t = NoteSyncRequested(@, HeadLast)] ELSE grp
  /\ Goto(Stage1, "appended")
  /\ UNCHANGED <<torn, stable, hole, gap, head, state, refusal, locks, ret,
                 plan, op, refusing, cap, returned, seen, doomed, epoch, budget>>

Mut_GroupAppendFails_HeadKept ==
  /\ pc[Stage1] = "phase1" /\ grp.todo = {} /\ grp.entries # <<>>
  /\ Fault("append")
  /\ NoteSyncOnly
  /\ head' = grp.t
  /\ grp' = [grp EXCEPT !.err = "io"]
  /\ Goto(Stage1, "append_sync")
  /\ UNCHANGED <<disk, state, refusal, locks, ret, plan, op, refusing, cap,
                 history, admins, crashes>>

(* append_entries() fails part way: chunks it wrote stay in the file, and  *)
(* whole units may lie past the logical end.                               *)
GroupAppendFails ==
  /\ pc[Stage1] = "phase1" /\ grp.todo = {} /\ grp.entries # <<>>
  /\ Fault("append")
  /\ NoteSyncOnly
  /\ \E k \in 0 .. Len(grp.entries) :
       \E m \in k .. Len(grp.entries) :
         /\ k < Len(grp.entries)
         /\ log' = log \o SubSeq(grp.entries, 1, k)
         /\ torn' = SubSeq(grp.entries, k + 1, m)
         /\ born' = [w \in Writers |->
                       IF \E i \in 1 .. m : grp.entries[i].writer = w
                       THEN epoch ELSE born[w]]
  /\ grp' = [grp EXCEPT !.err = "io"]
  /\ Goto(Stage1, "append_sync")
  /\ UNCHANGED <<stable, hole, gap, head, state, refusal, locks, ret, plan, op,
                 refusing, cap, returned, seen, doomed, epoch, admins, crashes>>

Mut_AppendFailedSync_NoQuiesce ==
  /\ pc[Stage1] = "append_sync"
  /\ SyncOk(grp.t.active_file_id, Len(log)) /\ NoFault
  /\ state' = [state EXCEPT !.degraded = TRUE]
  /\ Goto(Stage1, "refuse")
  /\ ret' = [ret EXCEPT ![Stage1] = "group_done"]
  /\ UNCHANGED <<head, refusal, locks, calls, grp, cap, history, admins, crashes>>

(* The handler syncs the file, ignoring the result, then quiesces.         *)
AppendFailedSync ==
  /\ pc[Stage1] = "append_sync"
  /\ \/ SyncOk(grp.t.active_file_id, Len(log)) /\ NoFault
     \/ SyncFails /\ Fault("append_sync")
  /\ Goto(Stage1, "quiesce")
  /\ UNCHANGED <<head, state, refusal, locks, ret, calls, grp, cap, history,
                 admins, crashes>>

(* ... and publishes the degraded state under the role, which it releases  *)
(* before it refuses writes.                                               *)
AppendFailedDegrade ==
  /\ pc[Stage1] = "deg_held"
  /\ \/ state' = [state EXCEPT !.degraded = TRUE] /\ NoFault
     \/ UNCHANGED state /\ Fault("alloc")
  /\ head' = state'
  /\ role' = NoOne
  /\ Goto(Stage1, "exit_notify")
  /\ ret' = [ret EXCEPT ![Stage1] = "refuse"]
  /\ UNCHANGED <<disk, refusal, write_mu, durable_mu, calls, grp, cap, history,
                 admins, crashes>>

-----------------------------------------------------------------------------
(* commit_appended() below the rotation threshold: the batch is the head.  *)
StoreHead ==
  /\ pc[Stage1] = "appended"
  /\ head' = grp.t
  /\ Goto(Stage1, "group_done")
  /\ UNCHANGED <<disk, state, refusal, locks, ret, calls, grp, cap, history,
                 budget>>

(* The batch reached max_file_bytes: flush what precedes it, and hold the  *)
(* flush role.                                                             *)
BeginRotation ==
  /\ pc[Stage1] = "appended"
  /\ Goto(Stage1, "quiesce")
  /\ UNCHANGED <<disk, head, state, refusal, locks, ret, calls, grp, cap,
                 history, budget>>

Mut_CommitThrows_Accepts ==
  /\ pc[Stage1] = "appended"
  /\ Fault("alloc")
  /\ grp' = [grp EXCEPT !.err = "other"]
  /\ Goto(Stage1, "group_done")
  /\ UNCHANGED <<disk, head, state, refusal, locks, ret, calls, cap, history,
                 admins, crashes>>

(* An allocation fails before the head is stored: execute_group() refuses  *)
(* writes without the flush role.                                          *)
CommitThrows ==
  /\ pc[Stage1] = "appended"
  /\ Fault("alloc")
  /\ grp' = [grp EXCEPT !.err = "other"]
  /\ Goto(Stage1, "refuse")
  /\ ret' = [ret EXCEPT ![Stage1] = "group_done"]
  /\ UNCHANGED <<disk, head, state, refusal, locks, calls, cap, history, admins,
                 crashes>>

(* The rotation under the role.  A flush it waited on may have failed.     *)
RotationRefused ==
  /\ pc[Stage1] = "rot_held" /\ Refused /\ durable_mu = NoOne
  /\ grp' = [grp EXCEPT !.err = IF flush_error THEN "io" ELSE "degraded"]
  /\ Goto(Stage1, "role_exit")
  /\ UNCHANGED <<disk, head, state, refusal, locks, ret, calls, cap, history,
                 budget>>

Mut_RotationSync_NoApply ==
  /\ pc[Stage1] = "rot_held" /\ ~Refused
  /\ SyncOk(grp.t.active_file_id, Len(log))
  /\ Goto(Stage1, "rot_prepare")
  /\ UNCHANGED <<head, state, refusal, locks, ret, calls, grp, cap, history,
                 budget>>

(* file.sync() and apply_sync().                                           *)
RotationSync ==
  /\ pc[Stage1] = "rot_held" /\ ~Refused
  /\ SyncOk(grp.t.active_file_id, Len(log))
  /\ grp' = [grp EXCEPT !.t.durable_seq = Max2(@, HeadLast)]
  /\ Goto(Stage1, "rot_prepare")
  /\ UNCHANGED <<head, state, refusal, locks, ret, calls, cap, history, budget>>

RotationSyncFails ==
  /\ pc[Stage1] = "rot_held" /\ ~Refused
  /\ Fault("sync") /\ SyncFails
  /\ Goto(Stage1, "rot_degrade")
  /\ UNCHANGED <<head, state, refusal, locks, ret, calls, grp, cap, history,
                 admins, crashes>>

Mut_RotationFailed_FromHead ==
  /\ pc[Stage1] = "rot_degrade"
  /\ state' = [head EXCEPT !.degraded = TRUE] /\ NoFault
  /\ grp' = [grp EXCEPT !.err = "io"]
  /\ Goto(Stage1, "refuse")
  /\ ret' = [ret EXCEPT ![Stage1] = "role_exit"]
  /\ UNCHANGED <<disk, head, refusal, locks, calls, cap, history, admins,
                 crashes>>

(* degrade_from(published): the batch is thrown and unpublished.           *)
RotationFailed ==
  /\ pc[Stage1] = "rot_degrade"
  /\ \/ state' = [state EXCEPT !.degraded = TRUE] /\ NoFault
     \/ UNCHANGED state /\ Fault("alloc")
  /\ grp' = [grp EXCEPT !.err = "io"]
  /\ Goto(Stage1, "refuse")
  /\ ret' = [ret EXCEPT ![Stage1] = "role_exit"]
  /\ UNCHANGED <<disk, head, refusal, locks, calls, cap, history, admins,
                 crashes>>

(* prepare_rotation() and finish_rotation(): the file is sealed, the next  *)
(* one is active.                                                          *)
Rotate ==
  /\ pc[Stage1] = "rot_prepare"
  /\ grp' = [grp EXCEPT !.t.active_file_id = @ + 1]
  /\ Goto(Stage1, IF grp.any_sync THEN "rot_sync2" ELSE "rot_publish")
  /\ UNCHANGED <<disk, head, state, refusal, locks, ret, calls, cap, history,
                 budget>>

RotateFails ==
  /\ pc[Stage1] = "rot_prepare"
  /\ Fault("create")
  /\ grp' = [grp EXCEPT !.err = "rotation"]
  /\ Goto(Stage1, "rot_seal_failed")
  /\ UNCHANGED <<disk, head, state, refusal, locks, ret, calls, cap, history,
                 admins, crashes>>

(* degrade_transient(t): the write is synced, so it is published degraded, *)
(* and thrown.                                                             *)
RotateDegrade ==
  /\ pc[Stage1] = "rot_seal_failed"
  /\ \/ StoreState(state, [grp.t EXCEPT !.degraded = TRUE]) /\ NoFault
     \/ UNCHANGED state /\ Fault("alloc")
  /\ Goto(Stage1, "refuse")
  /\ ret' = [ret EXCEPT ![Stage1] = "role_exit"]
  /\ UNCHANGED <<disk, head, refusal, locks, calls, grp, cap, history, admins,
                 crashes>>

(* finish_rotation() or the publication throws: the role is released on    *)
(* the way out.                                                            *)
RotateThrows ==
  /\ pc[Stage1] \in {"rot_prepare", "rot_publish"}
  /\ Fault("alloc")
  /\ grp' = [grp EXCEPT !.err = "other"]
  /\ Goto(Stage1, "role_exit")
  /\ UNCHANGED <<disk, head, state, refusal, locks, ret, calls, cap, history,
                 admins, crashes>>

(* The second fdatasync, of the file just sealed.                          *)
RotationSync2 ==
  /\ pc[Stage1] = "rot_sync2"
  /\ \/ SyncOk(grp.t.active_file_id - 1, Len(log)) /\ NoFault
        /\ Goto(Stage1, "rot_publish")
     \/ SyncFails /\ Fault("sync")
        /\ Goto(Stage1, "rot_degrade")
  /\ UNCHANGED <<head, state, refusal, locks, ret, calls, grp, cap, history,
                 admins, crashes>>

RotationPublish ==
  /\ pc[Stage1] = "rot_publish"
  /\ StoreState(state, grp.t)
  /\ Goto(Stage1, "rot_notify")
  /\ UNCHANGED <<disk, head, refusal, locks, ret, calls, grp, cap, history,
                 budget>>

RotationNotify ==
  /\ pc[Stage1] = "rot_notify"
  /\ NotifyAll(Stage1, "role_exit")
  /\ UNCHANGED <<disk, head, state, refusal, locks, ret, calls, grp, cap,
                 history, budget>>

(* ~FlushRole(): the head restarts from the published state, then every    *)
(* waiter is told.  A throw unwinds into execute_group()'s handler.        *)
RoleExit(t) ==
  /\ pc[t] = "role_exit"
  /\ head' = state
  /\ role' = NoOne
  /\ Goto(t, "exit_notify")
  /\ ret' = [ret EXCEPT ![t] = IF t \in Admins THEN "unlock"
                               ELSE IF grp.err = "other" THEN "refuse"
                               ELSE "group_done"]
  /\ UNCHANGED <<disk, state, refusal, write_mu, durable_mu, calls, grp, cap,
                 history, budget>>

ExitNotify(t) ==
  /\ pc[t] = "exit_notify"
  /\ NotifyAll(t, ret[t])
  /\ ret' = [ret EXCEPT ![t] = "group_done"]
  /\ UNCHANGED <<disk, head, state, refusal, locks, calls, grp, cap, history,
                 budget>>

(* execute_slots() returns: write_mu_ is free and the batch's slots go     *)
(* back to their callers, with the batch's error on those without one.     *)
GroupDone ==
  /\ pc[Stage1] = "group_done"
  /\ write_mu' = NoOne
  /\ returned' = [w \in Writers |->
       IF w \notin grp.batch THEN returned[w]
       ELSE IF slot[w].err THEN "limit"
       ELSE IF grp.err # "none" THEN grp.err
       ELSE returned[w]]
  /\ pc' = [t \in Threads |->
       IF t = Stage1 THEN "free"
       ELSE IF t \notin grp.batch THEN pc[t]
       ELSE IF slot[t].err \/ grp.err # "none" THEN "done"
       ELSE IF slot[t].sequence # 0 \/ slot[t].sync_through # 0 THEN "wait"
       ELSE "settle"]
  /\ UNCHANGED <<disk, head, state, refusal, durable_mu, role, ret, calls, grp,
                 cap, seen, born, doomed, epoch, budget>>

-----------------------------------------------------------------------------
(* refuse_writes(): the flag, then the degraded state by compare-and-swap  *)
(* if memory allows, then every waiter is told.                            *)
RefuseWrites(t) ==
  /\ pc[t] = "refuse"
  /\ write_fault' = TRUE
  /\ Goto(t, "refuse_publish")
  /\ UNCHANGED <<disk, head, state, flush_error, locks, ret, calls, grp, cap,
                 history, budget>>

RefusePublish(t) ==
  /\ pc[t] = "refuse_publish"
  /\ \/ state' = [state EXCEPT !.degraded = TRUE] /\ NoFault
     \/ ~state.degraded /\ UNCHANGED state /\ Fault("alloc")
  /\ Goto(t, "refuse_notify")
  /\ UNCHANGED <<disk, head, refusal, locks, ret, calls, grp, cap, history,
                 admins, crashes>>

RefuseNotify(t) ==
  /\ pc[t] = "refuse_notify"
  /\ NotifyAll(t, ret[t])
  /\ UNCHANGED <<disk, head, state, refusal, locks, ret, calls, grp, cap,
                 history, budget>>

-----------------------------------------------------------------------------
(* flush_pending(), by the thread that holds the flush role.               *)
NeedSync == cap.head.sync_requested_seq > cap.published.durable_seq

FlushCapture(t) ==
  /\ pc[t] = "fl_capture"
  /\ cap' = [head |-> head, published |-> state]
  /\ Goto(t, IF Refused THEN "fl_done"
             ELSE IF head.sync_requested_seq > state.durable_seq THEN "fl_sync"
             ELSE IF head.next_seq > state.next_seq THEN "fl_publish"
             ELSE "fl_done")
  /\ UNCHANGED <<disk, head, state, refusal, locks, ret, calls, grp, history,
                 budget>>

FlushSync(t) ==
  /\ pc[t] = "fl_sync"
  /\ SyncOk(cap.head.active_file_id, cap.head.next_seq - 1)
  /\ Goto(t, "fl_publish")
  /\ UNCHANGED <<head, state, refusal, locks, ret, calls, grp, cap, history,
                 budget>>

InFlight(w) == pc[w] \notin {"idle", "queued", "done"}

FlushSyncFails(t) ==
  /\ pc[t] = "fl_sync"
  /\ Fault("sync") /\ SyncFails
  /\ Goto(t, "fl_failed")
  /\ doomed' = doomed \cup {w \in Writers :
                              /\ InFlight(w) /\ slot[w].sequence # 0
                              /\ slot[w].sequence < cap.head.next_seq
                              /\ slot[w].sequence >= cap.published.next_seq}
  /\ UNCHANGED <<head, state, refusal, locks, ret, calls, grp, cap, returned,
                 seen, born, epoch, admins, crashes>>

Mut_Published_Unsynced ==
  [cap.head EXCEPT !.durable_seq = cap.head.next_seq - 1]

(* The head as it stood before the fdatasync, with the durable_seq the     *)
(* fdatasync confirmed.                                                    *)
Published ==
  [cap.head EXCEPT !.durable_seq = IF NeedSync THEN cap.head.next_seq - 1
                                   ELSE cap.published.durable_seq]
FlushPublish(t) ==
  /\ pc[t] = "fl_publish"
  /\ StoreState(cap.published, Published)
  /\ Goto(t, "fl_notify")
  /\ UNCHANGED <<disk, head, refusal, locks, ret, calls, grp, cap, history,
                 budget>>

FlushNotify(t) ==
  /\ pc[t] = "fl_notify"
  /\ NotifyAll(t, "fl_done")
  /\ UNCHANGED <<disk, head, state, refusal, locks, ret, calls, grp, cap,
                 history, budget>>

Mut_FlushFailed_NotRecorded(t) ==
  /\ pc[t] = "fl_failed"
  /\ Goto(t, "fl_degrade")
  /\ UNCHANGED <<disk, head, state, refusal, locks, ret, calls, grp, cap,
                 history, budget>>

(* flush_failed(): the error is recorded first, then writes are refused.   *)
FlushFailed(t) ==
  /\ pc[t] = "fl_failed" /\ durable_mu = NoOne
  /\ flush_error' = TRUE
  /\ Goto(t, "fl_degrade")
  /\ UNCHANGED <<disk, head, state, write_fault, locks, ret, calls, grp, cap,
                 history, budget>>

FlushDegrade(t) ==
  /\ pc[t] = "fl_degrade"
  /\ \/ state' = [cap.published EXCEPT !.degraded = TRUE] /\ NoFault
     \/ UNCHANGED state /\ Fault("alloc")
  /\ Goto(t, "refuse")
  /\ ret' = [ret EXCEPT ![t] = "fl_done"]
  /\ UNCHANGED <<disk, head, refusal, locks, calls, grp, cap, history, admins,
                 crashes>>

(* flush_threw(): publishing needed memory there was none of.              *)
FlushThrows(t) ==
  /\ pc[t] = "fl_publish" /\ durable_mu = NoOne
  /\ Fault("alloc")
  /\ flush_error' = TRUE
  /\ Goto(t, "refuse")
  /\ ret' = [ret EXCEPT ![t] = IF t \in Writers THEN "fl_done"
                               ELSE "threw_done"]
  /\ UNCHANGED <<disk, head, state, write_fault, locks, calls, grp, cap,
                 history, admins, crashes>>

(* finish_flush() ends a writer's flush; a barrier goes on with the role.  *)
FlushDone(t) ==
  /\ pc[t] = "fl_done"
  /\ IF t \in Writers THEN role' = NoOne /\ Goto(t, "fin_notify")
     ELSE /\ UNCHANGED role
          /\ Goto(t, IF t \in Admins THEN "adm_held"
                     ELSE IF grp.err = "none" THEN "rot_held" ELSE "deg_held")
  /\ UNCHANGED <<disk, head, state, refusal, write_mu, durable_mu, ret, calls,
                 grp, cap, history, budget>>

Mut_FinishFlush_Silent(w) ==
  /\ pc[w] = "fin_notify"
  /\ Goto(w, "wait")
  /\ UNCHANGED <<disk, head, state, refusal, locks, ret, calls, grp, cap,
                 history, budget>>

FinishFlush(w) ==
  /\ pc[w] = "fin_notify"
  /\ NotifyAll(w, "wait")
  /\ UNCHANGED <<disk, head, state, refusal, locks, ret, calls, grp, cap,
                 history, budget>>

(* quiesce(): take the role and flush, or sleep until it is free.          *)
Quiesce(t) ==
  /\ pc[t] = "quiesce"
  /\ IF role = NoOne THEN role' = t /\ Goto(t, "fl_capture")
     ELSE UNCHANGED role /\ Goto(t, "q_lock")
  /\ UNCHANGED <<disk, head, state, refusal, write_mu, durable_mu, ret, calls,
                 grp, cap, history, budget>>

(* A flush that threw inside quiesce(): the role is released, and the      *)
(* exception is execute_group()'s or the barrier's.                        *)
QuiesceThrew(t) ==
  /\ pc[t] = "threw_done"
  /\ role' = NoOne
  /\ Goto(t, "exit_notify")
  /\ ret' = [ret EXCEPT ![t] = IF t \in Admins THEN "unlock" ELSE "refuse"]
  /\ grp' = IF t = Stage1 /\ grp.err = "none"
            THEN [grp EXCEPT !.err = "other"] ELSE grp
  /\ UNCHANGED <<disk, head, state, refusal, write_mu, durable_mu, calls, cap,
                 history, budget>>

-----------------------------------------------------------------------------
(* commit_wait().                                                          *)
Target(w) == IF slot[w].sequence # 0 THEN slot[w].sequence
             ELSE slot[w].sync_through
Mut_Covered_Visible(w) == state.next_seq > Target(w)
Mut_Covered_OffByOne(w) == IF plan[w].sync THEN state.durable_seq >= Target(w)
                           ELSE state.next_seq >= Target(w)

Covered(w) == IF plan[w].sync THEN state.durable_seq >= Target(w)
              ELSE state.next_seq > Target(w)

Return(w, what) ==
  /\ Goto(w, "done")
  /\ returned' = [returned EXCEPT ![w] = what]
  /\ UNCHANGED <<disk, head, state, refusal, locks, ret, calls, grp, cap, seen,
                 born, doomed, epoch, budget>>

(* The call's own answer, once its outcome is settled.                     *)
Answer(w) == IF slot[w].result = "conflict" THEN "conflict" ELSE "ok"

CommitCovered(w) ==
  /\ pc[w] = "wait" /\ Covered(w)
  /\ IF slot[w].rests_on = 0
     THEN Return(w, IF state.durable_seq >= Target(w) THEN "durable" ELSE "ok")
     ELSE /\ Goto(w, "settle")
          /\ UNCHANGED <<disk, head, state, refusal, locks, ret, calls, grp,
                         cap, history, budget>>

(* The refusal is read with the state, before flush_error_.                *)
CommitUncovered(w) ==
  /\ pc[w] = "wait" /\ ~Covered(w)
  /\ refusing' = [refusing EXCEPT ![w] = Refused]
  /\ Goto(w, "cw_error")
  /\ UNCHANGED <<disk, head, state, refusal, locks, ret, plan, slot, op, grp,
                 cap, history, budget>>

CommitError(w) ==
  /\ pc[w] = "cw_error" /\ durable_mu = NoOne
  /\ IF flush_error THEN Return(w, "io")
     ELSE IF refusing[w] THEN Return(w, "degraded")
     ELSE /\ Goto(w, "cw_role")
          /\ UNCHANGED <<disk, head, state, refusal, locks, ret, calls, grp,
                         cap, history, budget>>

(* Whoever finds the role free flushes.                                    *)
TakeRole(w) ==
  /\ pc[w] = "cw_role"
  /\ IF role = NoOne THEN role' = w /\ Goto(w, "fl_capture")
     ELSE UNCHANGED role /\ Goto(w, "cw_lock")
  /\ UNCHANGED <<disk, head, state, refusal, write_mu, durable_mu, ret, calls,
                 grp, cap, history, budget>>

(* settle_unappended(): an outcome that appended nothing rests on an entry *)
(* of the head, and is reported once readers can see that entry.           *)
OutcomeNow(w) == IF plan[w].op = "check" \/ plan[w].op = "del"
                 THEN PresentAt(state.next_seq - 1) ELSE TRUE
Mut_Settle_AtOnce(w) ==
  pc[w] = "settle" /\ Return(w, Answer(w))

Settle(w) ==
  /\ pc[w] = "settle"
  /\ IF \/ slot[w].rests_on = 0
        \/ state.next_seq > slot[w].rests_on
        \/ OutcomeNow(w) = (slot[w].result # "conflict")
     THEN Return(w, Answer(w))
     ELSE /\ Goto(w, "st_lock")
          /\ UNCHANGED <<disk, head, state, refusal, locks, ret, calls, grp,
                         cap, history, budget>>

Settled(w) ==
  /\ pc[w] = "st_woken"
  /\ Return(w, IF state.next_seq > slot[w].rests_on THEN Answer(w)
               ELSE "degraded")

(* What each kind of waiter sleeps for, and where it goes when it has it.  *)
CommitPredicate(w) == role = NoOne \/ flush_error \/ Covered(w)
SettlePredicate(w) == state.next_seq > slot[w].rests_on \/ Refused
Awaited(t) == CASE pc[t] \in {"cw_lock", "cw_park", "cw_parked"} ->
                     CommitPredicate(t)
                [] pc[t] \in {"st_lock", "st_park", "st_parked"} ->
                     SettlePredicate(t)
                [] pc[t] \in {"q_lock", "q_park", "q_parked"} -> role = NoOne
                [] OTHER -> FALSE
Waits == {"cw_lock", "st_lock", "q_lock"}
Go(l) == CASE l = "cw_lock" -> "wait" [] l = "st_lock" -> "st_woken"
           [] l = "q_lock" -> "quiesce"
Sleepy(l) == CASE l = "cw_lock" -> "cw_park" [] l = "st_lock" -> "st_park"
               [] l = "q_lock" -> "q_park"
Asleep(l) == CASE l = "cw_park" -> "cw_parked" [] l = "st_park" -> "st_parked"
               [] l = "q_park" -> "q_parked"

(* durable_cv_.wait(lk, predicate): the predicate is tested with the mutex *)
(* held, and the mutex is dropped only as the thread goes to sleep.        *)
CheckPredicate(t) ==
  /\ pc[t] \in Waits /\ durable_mu = NoOne
  /\ IF Awaited(t) THEN Goto(t, Go(pc[t])) /\ UNCHANGED durable_mu
     ELSE Goto(t, Sleepy(pc[t])) /\ durable_mu' = t
  /\ UNCHANGED <<disk, head, state, refusal, write_mu, role, ret, calls, grp,
                 cap, history, budget>>

FallAsleep(t) ==
  /\ pc[t] \in {"cw_park", "st_park", "q_park"}
  /\ durable_mu' = NoOne
  /\ Goto(t, Asleep(pc[t]))
  /\ UNCHANGED <<disk, head, state, refusal, write_mu, role, ret, calls, grp,
                 cap, history, budget>>

-----------------------------------------------------------------------------
(* A barrier: write_mu_, then quiesce().  "sync" stands for the barriers   *)
(* that run sync_active_file(): vacuum's commit, create_manifest() and a   *)
(* leader stepping down.  resume() on a healthy engine returns at once.    *)
BarrierBegin(a, what) ==
  /\ pc[a] = "free" /\ admins < MaxAdmin
  /\ what = "resume" => Refused
  /\ admins' = admins + 1
  /\ op' = [op EXCEPT ![a] = what]
  /\ Goto(a, "adm_lock")
  /\ UNCHANGED <<disk, head, state, refusal, locks, ret, plan, slot, refusing,
                 grp, cap, history, faults, crashes>>

BarrierLock(a) ==
  /\ pc[a] = "adm_lock" /\ write_mu = NoOne
  /\ write_mu' = a
  /\ Goto(a, "quiesce")
  /\ UNCHANGED <<disk, head, state, refusal, durable_mu, role, ret, calls, grp,
                 cap, history, budget>>

Unlock(a) ==
  /\ pc[a] = "unlock"
  /\ write_mu' = NoOne
  /\ Goto(a, "free")
  /\ UNCHANGED <<disk, head, state, refusal, durable_mu, role, ret, calls, grp,
                 cap, history, budget>>

(* sync_active_file() and the publication after it; a refused engine       *)
(* throws.                                                                 *)
BarrierRefused(a) ==
  /\ pc[a] = "adm_held" /\ op[a] = "sync" /\ Refused
  /\ Goto(a, "role_exit")
  /\ UNCHANGED <<disk, head, state, refusal, locks, ret, calls, grp, cap,
                 history, budget>>

BarrierSync(a) ==
  /\ pc[a] = "adm_held" /\ op[a] = "sync" /\ ~Refused
  /\ SyncOk(state.active_file_id, state.next_seq - 1)
  /\ StoreState(state, [state EXCEPT !.durable_seq =
                                       Max2(@, state.next_seq - 1)])
  /\ Goto(a, IF Advances THEN "adm_notify" ELSE "role_exit")
  /\ UNCHANGED <<head, refusal, locks, ret, calls, grp, cap, history, budget>>

BarrierSyncFails(a) ==
  /\ pc[a] = "adm_held" /\ op[a] = "sync" /\ ~Refused
  /\ Fault("sync") /\ SyncFails
  /\ Goto(a, "adm_degrade")
  /\ UNCHANGED <<head, state, refusal, locks, ret, calls, grp, cap, history,
                 admins, crashes>>

BarrierDegrade(a) ==
  /\ pc[a] = "adm_degrade"
  /\ \/ state' = [state EXCEPT !.degraded = TRUE] /\ NoFault
     \/ UNCHANGED state /\ Fault("alloc")
  /\ Goto(a, "refuse")
  /\ ret' = [ret EXCEPT ![a] = "role_exit"]
  /\ UNCHANGED <<disk, head, refusal, locks, calls, grp, cap, history, admins,
                 crashes>>

BarrierNotify(a) ==
  /\ pc[a] = "adm_notify"
  /\ NotifyAll(a, IF op[a] = "resume" THEN "res_clear" ELSE "role_exit")
  /\ UNCHANGED <<disk, head, state, refusal, locks, ret, calls, grp, cap,
                 history, budget>>

Mut_ResumeCheck_ClearsFlag(a) ==
  /\ pc[a] = "adm_held" /\ op[a] = "resume"
  /\ head' = state /\ write_fault' = FALSE
  /\ Goto(a, "res_rewrite")
  /\ UNCHANGED <<disk, state, flush_error, locks, ret, calls, grp, cap, history,
                 budget>>

(* resume(), under the barrier.                                            *)
ResumeCheck(a) ==
  /\ pc[a] = "adm_held" /\ op[a] = "resume"
  /\ IF Refused THEN head' = state /\ Goto(a, "res_rewrite")
     ELSE UNCHANGED head /\ Goto(a, "role_exit")
  /\ UNCHANGED <<disk, state, refusal, locks, ret, calls, grp, cap, history,
                 budget>>

(* rewrite_durably() makes durable what the file still reads as, the scan  *)
(* finds the units up to n, and what follows is cut - unless readers were  *)
(* served some of it, in which case resume() refuses.                      *)
Readable == IF gap = 0 THEN Len(log) ELSE gap - 1
Mut_ResumeRewrite_OffByOne(a) ==
  /\ pc[a] = "res_rewrite" /\ NoFault
  /\ stable' = Readable
  /\ log' = SubSeq(log, 1, Readable - 1)
  /\ torn' = <<>> /\ hole' = FALSE /\ gap' = 0
  /\ Goto(a, "res_publish")
  /\ UNCHANGED <<head, state, refusal, locks, ret, calls, grp, cap, history,
                 admins, crashes>>

ResumeRewrite(a) ==
  /\ pc[a] = "res_rewrite"
  /\ \E n \in stable .. Readable :
       /\ \/ n = Readable /\ NoFault
          \/ n < Readable /\ hole /\ Fault("evict")
       /\ stable' = IF \A i \in stable + 1 .. n :
                         log[i].file = state.active_file_id
                    THEN n ELSE stable
       /\ IF n < state.next_seq - 1
          THEN /\ gap' = n + 1
               /\ Goto(a, "role_exit")
               /\ UNCHANGED <<log, torn, hole>>
          ELSE /\ log' = SubSeq(log, 1, n)
               /\ torn' = <<>> /\ hole' = FALSE /\ gap' = 0
               /\ Goto(a, "res_publish")
  /\ UNCHANGED <<head, state, refusal, locks, ret, calls, grp, cap, history,
                 admins, crashes>>

(* Any I/O step of resume() may throw: the engine stays degraded.          *)
ResumeFails(a) ==
  /\ \/ pc[a] = "res_rewrite" /\ Fault("sync")
     \/ pc[a] = "res_publish" /\ Fault("create")
  /\ Goto(a, "role_exit")
  /\ UNCHANGED <<disk, head, state, refusal, locks, ret, calls, grp, cap,
                 history, admins, crashes>>

(* apply_resume() replays the file, a new file becomes active, everything  *)
(* replayed is durable, and the degraded flag is cleared.                  *)
ResumePublish(a) ==
  /\ pc[a] = "res_publish"
  /\ LET last == IF log = <<>> THEN 0 ELSE log[Len(log)].seq
         next == Max2(state.next_seq, last + 1)
     IN  StoreState(state, [state EXCEPT !.next_seq = next,
                                         !.durable_seq = Max2(@, next - 1),
                                         !.active_file_id = @ + 1,
                                         !.degraded = FALSE])
  /\ epoch' = epoch + 1
  /\ Goto(a, IF Advances THEN "adm_notify" ELSE "res_clear")
  /\ UNCHANGED <<disk, head, refusal, locks, ret, calls, grp, cap, returned,
                 seen, born, doomed, budget>>

ResumeClear(a) ==
  /\ pc[a] = "res_clear" /\ durable_mu = NoOne
  /\ flush_error' = FALSE /\ write_fault' = FALSE
  /\ Goto(a, "role_exit")
  /\ UNCHANGED <<disk, head, state, locks, ret, calls, grp, cap, history,
                 budget>>

-----------------------------------------------------------------------------
(* The process dies, with or without the page cache, and open() recovers:  *)
(* a prefix no shorter than what is on the device, torn units included, is *)
(* rewritten durably and published.                                        *)
Crash ==
  /\ crashes < MaxCrashes
  /\ crashes' = crashes + 1
  /\ \E n \in stable .. (IF gap = 0 THEN Len(log) + Len(torn) ELSE gap - 1) :
       /\ log' = SubSeq(log \o torn, 1, n)
       /\ stable' = n
       /\ state' = Opened(n, head.active_file_id + 1)
       /\ returned' = [w \in Writers |->
            IF InFlight(w) \/ pc[w] = "queued" THEN "crashed"
            ELSE IF returned[w] \in {"ok", "durable"} /\ slot[w].sequence > n
            THEN "lost" ELSE returned[w]]
  /\ torn' = <<>> /\ hole' = FALSE /\ gap' = 0
  /\ head' = state'
  /\ write_fault' = FALSE /\ flush_error' = FALSE
  /\ write_mu' = NoOne /\ durable_mu' = NoOne /\ role' = NoOne
  /\ pc' = [t \in Threads |-> IF t \notin Writers THEN "free"
                              ELSE IF pc[t] = "idle" THEN "idle" ELSE "done"]
  /\ ret' = [t \in Threads |-> "none"]
  /\ grp' = [todo |-> {}, batch |-> {}, entries |-> <<>>, t |-> head',
             durable |-> 0, any_sync |-> FALSE, err |-> "none"]
  /\ cap' = [head |-> head', published |-> state']
  /\ epoch' = epoch + 1
  /\ UNCHANGED <<calls, seen, born, doomed, faults, admins>>

(* Every call has returned.                                                *)
Finished ==
  /\ \A w \in Writers : pc[w] = "done"
  /\ \A t \in Threads \ Writers : pc[t] = "free"
  /\ UNCHANGED vars

-----------------------------------------------------------------------------
FlushStep(t) ==
  \/ FlushCapture(t) \/ FlushSync(t) \/ FlushSyncFails(t) \/ FlushPublish(t)
  \/ FlushNotify(t) \/ FlushFailed(t) \/ FlushDegrade(t) \/ FlushThrows(t)
  \/ FlushDone(t) \/ RefuseWrites(t) \/ RefusePublish(t) \/ RefuseNotify(t)
  \/ CheckPredicate(t) \/ FallAsleep(t)

BarrierStep(t) ==
  \/ FlushStep(t) \/ Quiesce(t) \/ QuiesceThrew(t) \/ RoleExit(t)
  \/ ExitNotify(t)

WriterStep(w) ==
  \/ FlushStep(w) \/ FinishFlush(w) \/ CommitCovered(w) \/ CommitUncovered(w)
  \/ CommitError(w) \/ TakeRole(w) \/ Settle(w) \/ Settled(w)

Stage1Step ==
  \/ \E w \in Writers : ExecuteSlot(w) \/ ExecuteSlotLimit(w)
  \/ GroupAppendsNothing \/ GroupAppend \/ GroupAppendFails
  \/ AppendFailedSync \/ AppendFailedDegrade
  \/ StoreHead \/ BeginRotation \/ CommitThrows
  \/ RotationRefused \/ RotationSync \/ RotationSyncFails \/ RotationFailed
  \/ Rotate \/ RotateFails \/ RotateDegrade \/ RotateThrows
  \/ RotationSync2
  \/ RotationPublish \/ RotationNotify \/ GroupDone
  \/ BarrierStep(Stage1)

AdminStep(a) ==
  \/ BarrierStep(a) \/ BarrierLock(a) \/ Unlock(a)
  \/ BarrierRefused(a) \/ BarrierSync(a) \/ BarrierSyncFails(a)
  \/ BarrierDegrade(a) \/ BarrierNotify(a)
  \/ ResumeCheck(a) \/ ResumeRewrite(a) \/ ResumeFails(a) \/ ResumePublish(a)
  \/ ResumeClear(a)

Admit(w) == \E B \in SUBSET Writers : w \in B /\ GroupAdmit(B)

Next ==
  \/ \E w \in Writers : Call(w) \/ WriterStep(w)
  \/ \E B \in SUBSET Writers : GroupAdmit(B)
  \/ Stage1Step
  \/ \E a \in Admins : AdminStep(a) \/ BarrierBegin(a, "resume")
                       \/ BarrierBegin(a, "sync")
  \/ Crash \/ Finished

Spec == Init /\ [][Next]_vars

(* A thread that can run is scheduled, and the write group runs every slot *)
(* it is given (WriteGroup!SubmitReturns).  Nobody is obliged to call, and *)
(* nothing obliges a fault, a crash or a resume() to happen.               *)
Fairness ==
  /\ \A w \in Writers : WF_vars(WriterStep(w)) /\ WF_vars(Admit(w))
  /\ WF_vars(Stage1Step)
  /\ \A a \in Admins : WF_vars(AdminStep(a))
FairSpec == Spec /\ Fairness

-----------------------------------------------------------------------------
PcValues ==
  {"idle", "queued", "wait", "cw_error", "cw_role", "cw_lock", "cw_park",
   "cw_parked", "settle", "st_lock", "st_park", "st_parked", "st_woken",
   "done", "free", "phase1", "append_sync", "appended", "quiesce", "q_lock",
   "q_park", "q_parked", "deg_held", "rot_held", "rot_degrade", "rot_prepare",
   "rot_sync2", "rot_publish", "rot_notify", "role_exit", "exit_notify",
   "group_done", "refuse", "refuse_publish", "refuse_notify", "fl_capture",
   "fl_sync", "fl_publish", "fl_notify", "fl_failed", "fl_degrade", "fl_done",
   "fin_notify", "threw_done", "adm_lock", "adm_held", "adm_degrade",
   "adm_notify", "res_rewrite", "res_publish", "res_clear", "unlock",
   "rot_seal_failed"}
Results == {"none", "ok", "durable", "conflict", "io", "degraded", "rotation",
            "other", "limit", "crashed", "lost"}

TypeOK ==
  /\ log \in Seq(Unit) /\ torn \in Seq(Unit)
  /\ stable \in 0 .. Len(log) /\ hole \in BOOLEAN /\ gap \in 0 .. Len(log)
  /\ head \in EngineState /\ state \in EngineState
  /\ write_fault \in BOOLEAN /\ flush_error \in BOOLEAN
  /\ write_mu \in Threads \cup {NoOne}
  /\ durable_mu \in Threads \cup {NoOne}
  /\ role \in Threads \cup {NoOne}
  /\ pc \in [Threads -> PcValues] /\ ret \in [Threads -> PcValues \cup {"none"}]
  /\ plan \in [Writers -> Plans] /\ slot \in [Writers -> Slots]
  /\ refusing \in [Writers -> BOOLEAN]
  /\ op \in [Admins -> {"none", "resume", "sync"}]
  /\ grp \in Groups
  /\ cap \in [head : EngineState, published : EngineState]
  /\ returned \in [Writers -> Results]
  /\ seen \in [Writers -> Nat] /\ born \in [Writers -> Nat]
  /\ doomed \in SUBSET Writers /\ epoch \in Nat
  /\ faults \in 0 .. MaxFaults /\ admins \in 0 .. MaxAdmin
  /\ crashes \in 0 .. MaxCrashes

(* durable_seq never runs ahead of the device: every sequence the engine   *)
(* reports durable is on it, through failed fdatasyncs that leave pages    *)
(* clean, rotations, barriers, resume() and restarts.                      *)
DurableSeqHonest == state.durable_seq <= stable

(* A sync=true unit is never visible before it is durable.                 *)
DurableBeforeVisible ==
  \A i \in DOMAIN log :
    i < state.next_seq /\ plan[log[i].writer].sync => i <= stable

(* Acknowledged means kept: a call that returned normally with sync=true   *)
(* left its own unit, and every unit that was visible when it began, on    *)
(* the device - an empty plan included - and no restart takes them away.   *)
SyncCallKept ==
  \A w \in Writers :
    plan[w].sync =>
      /\ returned[w] \in {"ok", "durable"} =>
           /\ slot[w].sequence <= stable /\ seen[w] <= stable + 1
           /\ slot[w].sequence # 0 => log[slot[w].sequence].writer = w
      /\ returned[w] # "lost"

(* So does a sync=false call whose CommitResult said durable; and one that *)
(* did not is visible until a restart.                                     *)
AcknowledgedKept ==
  \A w \in Writers :
    returned[w] \in {"ok", "durable"} /\ slot[w].sequence # 0 =>
      /\ slot[w].sequence < state.next_seq
      /\ slot[w].sequence \in DOMAIN log
      /\ log[slot[w].sequence].writer = w
      /\ returned[w] = "durable" => slot[w].sequence <= stable


(* A thrown write is unseen until resume() or a restart.  The documented   *)
(* exception is one whose rotation failed after its sync.                  *)
Thrown == {"io", "degraded", "other"}
ThrownUnseen ==
  \A i \in DOMAIN log :
    /\ i < state.next_seq /\ returned[log[i].writer] \in Thrown
    => epoch > born[log[i].writer]

(* A write that has thrown, and is unseen, is not published afterwards:    *)
(* only resume() or a restart makes it visible, whatever flush was in      *)
(* flight when it threw.                                                   *)
ThrownStaysUnseen ==
  [][\A i \in DOMAIN log :
       /\ i >= state.next_seq /\ i < state'.next_seq
       /\ returned[log[i].writer] \in Thrown \cup {"rotation"}
       => epoch' > epoch]_vars

(* Readers, and the head, hold only what is in the file.                   *)
HeadInFile == head.next_seq <= Len(log) + 1 /\ state.next_seq <= Len(log) + 1

(* What a failure left in the file past the head is not built on: between  *)
(* two batches, writes are refused until resume() has dealt with it.       *)
OrphansRefused ==
  write_mu = NoOne /\ Len(log) + Len(torn) >= head.next_seq => Refused

(* A writer whose unit a failed flush was to cover gets the flush's error, *)
(* and not DbDegraded, unless a resume() has recovered its unit meanwhile. *)
FlushErrorReported ==
  \A w \in doomed : returned[w] = "degraded" => epoch > born[w]

(* As the comment of flush_failed() has it: none of those writers reports  *)
(* DbDegraded where the contract promises the I/O error.                   *)
FlushErrorAlwaysReported == \A w \in doomed : returned[w] # "degraded"

(* Every publication passes store_state()'s checks.                        *)
PublicationsPass ==
  \A t \in Threads :
    /\ pc[t] = "fl_publish" => StoreChecks(state, Published)
    /\ pc[t] = "rot_publish" => StoreChecks(state, grp.t)

(* Nobody sleeps through a wake-up: a sleeper whose predicate holds has a  *)
(* thread still on its way to notify it.                                   *)
Notifiers == {"rot_notify", "exit_notify", "refuse_notify", "fl_notify",
              "fin_notify", "adm_notify", "refuse", "refuse_publish",
              "fl_degrade"}
NoLostWakeup ==
  \A t \in Threads :
    pc[t] \in Parked /\ Awaited(t) => \E u \in Threads : pc[u] \in Notifiers

(* Refused writes stay refused until resume() clears the refusal or the    *)
(* process restarts - whatever a flush in flight publishes meanwhile.      *)
RefusalHolds ==
  [][Refused => Refused' \/ crashes' > crashes
                \/ \E a \in Admins : pc[a] = "res_clear"]_vars

(* What readers see and what is durable never moves back within a process. *)
PublishedMonotone ==
  [][crashes' = crashes =>
       /\ state'.next_seq >= state.next_seq
       /\ state'.durable_seq >= state.durable_seq]_vars

(* A call that appended nothing reports an outcome that a published state  *)
(* gave, at some point of the log between its call and its return.         *)
OutcomePublished ==
  [][\A w \in Writers :
       /\ pc[w] # "done" /\ returned'[w] \in {"ok", "conflict"}
       /\ slot[w].sequence = 0 /\ plan[w].op \in {"check", "del"}
       => \E n \in seen[w] - 1 .. state.next_seq - 1 :
            PresentAt(n) = (returned'[w] = "ok")]_vars

(* Every call returns, and every barrier ends: nobody waits for ever on a  *)
(* flush that failed or threw, or on a role nobody holds.                  *)
CallReturns ==
  /\ \A w \in Writers : pc[w] # "idle" ~> pc[w] = "done"
  /\ \A a \in Admins : pc[a] # "free" ~> pc[a] = "free"
=============================================================================
