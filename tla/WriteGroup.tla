----------------------------- MODULE WriteGroup -----------------------------
(***************************************************************************)
(* Group commit through one serial section: the WriteGroup class of        *)
(* bytecaskdb/concurrency.cppm.  A writer that finds no batch running runs *)
(* everything queued inline, its own slot included; slots queued behind a  *)
(* running batch are handed over to the committer thread.                  *)
(*                                                                         *)
(* Every critical section of queue_mu_ is one step, and so is every store, *)
(* notify and futex wait on a slot's state word, which is accessed without *)
(* the mutex.  A slot lives on its owner's stack: it is destroyed when     *)
(* submit() returns, and the owner's next submit() is another slot, told   *)
(* apart here by a serial number.                                          *)
(***************************************************************************)
EXTENDS Naturals, Sequences, FiniteSets

CONSTANTS Writers,      \* the threads that call submit()
          Committer,    \* the committer thread
          Syncs,        \* the values of sync each writer may submit with
          MaxSubmits    \* bound: how many submit() calls each writer makes

ASSUME CommitterAssumption == Committer \notin Writers
ASSUME SyncsAssumption == Syncs \in [Writers -> SUBSET BOOLEAN]
ASSUME MaxSubmitsAssumption == MaxSubmits \in [Writers -> Nat]

Actors == Writers \cup {Committer}

\* A queued pointer: whose slot, and which submit() call's.
SlotIds == [owner : Writers, serial : Nat \ {0}]

VARIABLES
  pc,         \* where each thread is
  serial,     \* submit() calls each writer has started (names its slot)
  sync,       \* Slot::sync of each writer's current slot
  err,        \* Slot::err is set
  state,      \* Slot::state: kQueued, kReleasing, kDone
  queue,      \* queue_
  batch,      \* each thread's local batch; while releasing, what is left of it
  running,    \* running_
  hand_over,  \* hand_over_
  more,       \* the committer's local: it keeps the role after releasing
  sleeping,   \* committer_sleeping_
  stop,       \* stop_
  inflight, inflight_sync,
  verdict,    \* history: what the executor decided for the current slot
  returned    \* history: how each writer's last submit() returned

vars == <<pc, serial, sync, err, state, queue, batch, running, hand_over,
          more, sleeping, stop, inflight, inflight_sync, verdict, returned>>
slotVars == <<serial, sync, err, state>>
groupVars == <<queue, running, hand_over, more, sleeping, stop, inflight,
               inflight_sync>>

Init ==
  /\ pc = [a \in Actors |-> IF a = Committer THEN "gate" ELSE "idle"]
  /\ serial = [w \in Writers |-> 0]
  /\ sync = [w \in Writers |-> FALSE]
  /\ err = [w \in Writers |-> FALSE]
  /\ state = [w \in Writers |-> "kDone"]
  /\ queue = <<>>
  /\ batch = [a \in Actors |-> <<>>]
  /\ running = FALSE /\ hand_over = FALSE /\ more = FALSE
  /\ sleeping = FALSE /\ stop = FALSE
  /\ inflight = 0 /\ inflight_sync = 0
  /\ verdict = [w \in Writers |-> "none"]
  /\ returned = [w \in Writers |-> "none"]

Owners(s) == {s[i].owner : i \in DOMAIN s}

(* The queue with w's new slot behind the ones already there.              *)
Mut_Enqueued_Front(w) ==
  <<[owner |-> w, serial |-> serial[w] + 1]>> \o queue
Enqueued(w) == Append(queue, [owner |-> w, serial |-> serial[w] + 1])

-----------------------------------------------------------------------------
(* submit(), up to the unlock of queue_mu_: the slot is reset and queued,  *)
(* and with no batch running the whole queue becomes this thread's batch.  *)
Submit(w) ==
  /\ pc[w] = "idle" /\ serial[w] < MaxSubmits[w] /\ ~stop
  /\ serial' = [serial EXCEPT ![w] = @ + 1]
  /\ \E s \in Syncs[w] :
       /\ sync' = [sync EXCEPT ![w] = s]
       /\ inflight_sync' = inflight_sync + (IF s THEN 1 ELSE 0)
  /\ inflight' = inflight + 1
  /\ err' = [err EXCEPT ![w] = FALSE]
  /\ state' = [state EXCEPT ![w] = "kQueued"]
  /\ verdict' = [verdict EXCEPT ![w] = "none"]
  /\ \/ /\ running
        /\ queue' = Enqueued(w)
        /\ pc' = [pc EXCEPT ![w] = "wait"]
        /\ UNCHANGED <<batch, running>>
     \/ /\ ~running
        /\ running' = TRUE
        /\ batch' = [batch EXCEPT ![w] = Enqueued(w)]
        /\ queue' = <<>>
        /\ pc' = [pc EXCEPT ![w] = "run"]
  /\ UNCHANGED <<hand_over, more, sleeping, stop, returned>>

(* run_batch(): the executor runs the batch with queue_mu_ dropped.  It    *)
(* sets err on the slots it fails; one it throws for fails every slot.     *)
Execute(a) ==
  /\ pc[a] = "run"
  /\ \E failed \in SUBSET Owners(batch[a]) :
       /\ err' = [w \in Writers |-> err[w] \/ w \in failed]
       /\ verdict' = [w \in Writers |->
                        IF w \notin Owners(batch[a]) THEN verdict[w]
                        ELSE IF w \in failed THEN "error" ELSE "ok"]
  /\ pc' = [pc EXCEPT ![a] = "ran"]
  /\ UNCHANGED <<serial, sync, state, batch, returned, groupVars>>

(* run_batch() after the executor: its slots are no longer in flight.      *)
Mut_Settle_KeepsSync(a) ==
  /\ inflight' = inflight - Len(batch[a])
  /\ UNCHANGED inflight_sync
Mut_Settle_Twice(a) ==
  /\ inflight' = inflight - 2 * Len(batch[a])
  /\ inflight_sync' = inflight_sync
                        - Cardinality({w \in Owners(batch[a]) : sync[w]})
Settle(a) ==
  /\ inflight' = inflight - Len(batch[a])
  /\ inflight_sync' = inflight_sync
                        - Cardinality({w \in Owners(batch[a]) : sync[w]})

Others(s, w) == SelectSeq(s, LAMBDA x : x.owner # w)

(* submit() after its batch ran: what was queued meanwhile goes to the     *)
(* committer and running_ stays set.  The wake flag decides the notify.    *)
Mut_HandOver_ClearsRunning ==
  /\ hand_over' = (queue # <<>> \/ hand_over)
  /\ running' = FALSE
HandOver ==
  /\ hand_over' = (queue # <<>> \/ hand_over)
  /\ running' = (queue # <<>>)

Mut_Wake_WhenHandedOver == hand_over /\ sleeping
Wake == queue # <<>> /\ sleeping

FinishInline(w) ==
  /\ pc[w] = "ran" /\ w \in Writers
  /\ Settle(w)
  /\ HandOver
  /\ pc' = [pc EXCEPT ![w] = IF Wake THEN "notify" ELSE "releasing"]
  /\ batch' = [batch EXCEPT ![w] = Others(@, w)]
  /\ UNCHANGED <<slotVars, queue, more, sleeping, stop, verdict, returned>>

(* committer_cv_.notify_one(), after queue_mu_ is dropped.                 *)
NotifyCommitter(w) ==
  /\ pc[w] = "notify"
  /\ pc' = [pc EXCEPT ![w] = "releasing",
                      ![Committer] = IF @ = "asleep" THEN "woken" ELSE @]
  /\ UNCHANGED <<slotVars, batch, verdict, returned, groupVars>>

(* release(): three accesses to each slot's state, in order.               *)
Mut_StoreReleasing_Done(a) ==
  /\ pc[a] = "releasing" /\ batch[a] # <<>>
  /\ state' = [state EXCEPT ![Head(batch[a]).owner] = "kDone"]
  /\ pc' = [pc EXCEPT ![a] = "notifying"]
  /\ UNCHANGED <<serial, sync, err, batch, verdict, returned, groupVars>>
StoreReleasing(a) ==
  /\ pc[a] = "releasing" /\ batch[a] # <<>>
  /\ state' = [state EXCEPT ![Head(batch[a]).owner] = "kReleasing"]
  /\ pc' = [pc EXCEPT ![a] = "notifying"]
  /\ UNCHANGED <<serial, sync, err, batch, verdict, returned, groupVars>>

Mut_NotifyOwner_Skipped(a) ==
  /\ pc[a] = "notifying"
  /\ pc' = [pc EXCEPT ![a] = "finishing"]
  /\ UNCHANGED <<slotVars, batch, verdict, returned, groupVars>>
NotifyOwner(a) ==
  /\ pc[a] = "notifying"
  /\ LET o == Head(batch[a]).owner
     IN  pc' = [pc EXCEPT ![a] = "finishing",
                          ![o] = IF @ = "parked" THEN "wait" ELSE @]
  /\ UNCHANGED <<slotVars, batch, verdict, returned, groupVars>>

StoreDone(a) ==
  /\ pc[a] = "finishing"
  /\ state' = [state EXCEPT ![Head(batch[a]).owner] = "kDone"]
  /\ batch' = [batch EXCEPT ![a] = Tail(@)]
  /\ pc' = [pc EXCEPT ![a] = "releasing"]
  /\ UNCHANGED <<serial, sync, err, verdict, returned, groupVars>>

(* submit() rethrows the slot's error or returns; the slot is gone.        *)
Mut_Leave_NoRethrow(w) ==
  /\ pc' = [pc EXCEPT ![w] = "idle"]
  /\ returned' = [returned EXCEPT ![w] = "ok"]
  /\ UNCHANGED <<slotVars, batch, verdict, groupVars>>
Leave(w) ==
  /\ pc' = [pc EXCEPT ![w] = "idle"]
  /\ returned' = [returned EXCEPT ![w] = IF err[w] THEN "error" ELSE "ok"]
  /\ UNCHANGED <<slotVars, batch, verdict, groupVars>>

ReturnInline(w) ==
  /\ pc[w] = "releasing" /\ batch[w] = <<>>
  /\ Leave(w)

(* wait_released(): leave on kDone, sleep on kQueued, else look again.     *)
ReturnReleased(w) ==
  /\ pc[w] = "wait" /\ state[w] = "kDone"
  /\ Leave(w)

Park(w) ==
  /\ pc[w] = "wait" /\ state[w] = "kQueued"
  /\ pc' = [pc EXCEPT ![w] = "parked"]
  /\ UNCHANGED <<slotVars, batch, verdict, returned, groupVars>>

-----------------------------------------------------------------------------
(* committer_loop().  "gate" is the test of hand_over_ under queue_mu_.    *)
CommitterTake ==
  /\ pc[Committer] = "gate" /\ hand_over
  /\ hand_over' = FALSE
  /\ batch' = [batch EXCEPT ![Committer] = queue]
  /\ queue' = <<>>
  /\ pc' = [pc EXCEPT ![Committer] = "run"]
  /\ UNCHANGED <<slotVars, running, more, sleeping, stop, inflight,
                 inflight_sync, verdict, returned>>

CommitterSleep ==
  /\ pc[Committer] = "gate" /\ ~hand_over /\ ~stop
  /\ sleeping' = TRUE
  /\ pc' = [pc EXCEPT ![Committer] = "asleep"]
  /\ UNCHANGED <<slotVars, batch, queue, running, hand_over, more, stop,
                 inflight, inflight_sync, verdict, returned>>

(* A condition variable may wake its waiter without a notify.              *)
CommitterSpuriousWake ==
  /\ pc[Committer] = "asleep"
  /\ pc' = [pc EXCEPT ![Committer] = "woken"]
  /\ UNCHANGED <<slotVars, batch, verdict, returned, groupVars>>

CommitterWake ==
  /\ pc[Committer] = "woken"
  /\ sleeping' = FALSE
  /\ pc' = [pc EXCEPT ![Committer] = "gate"]
  /\ UNCHANGED <<slotVars, batch, queue, running, hand_over, more, stop,
                 inflight, inflight_sync, verdict, returned>>

CommitterExit ==
  /\ pc[Committer] = "gate" /\ ~hand_over /\ stop
  /\ pc' = [pc EXCEPT ![Committer] = "exited"]
  /\ UNCHANGED <<slotVars, batch, verdict, returned, groupVars>>

(* After its batch ran: running_ is cleared with the queue empty; with more *)
(* queued the committer keeps the role.  It releases first either way.      *)
FinishCommitter ==
  /\ pc[Committer] = "ran"
  /\ Settle(Committer)
  /\ more' = (queue # <<>>)
  /\ running' = more'
  /\ pc' = [pc EXCEPT ![Committer] = "releasing"]
  /\ UNCHANGED <<slotVars, batch, queue, hand_over, sleeping, stop, verdict,
                 returned>>

CommitterNext ==
  /\ pc[Committer] = "releasing" /\ batch[Committer] = <<>>
  /\ IF more
     THEN /\ batch' = [batch EXCEPT ![Committer] = queue]
          /\ queue' = <<>>
          /\ pc' = [pc EXCEPT ![Committer] = "run"]
     ELSE /\ pc' = [pc EXCEPT ![Committer] = "gate"]
          /\ UNCHANGED <<batch, queue>>
  /\ UNCHANGED <<slotVars, running, hand_over, more, sleeping, stop, inflight,
                 inflight_sync, verdict, returned>>

(* ~WriteGroup(): its caller guarantees that no submit() is in flight.     *)
Mut_Destroy_NoNotify ==
  /\ ~stop /\ \A w \in Writers : pc[w] = "idle"
  /\ stop' = TRUE
  /\ UNCHANGED <<slotVars, pc, batch, queue, running, hand_over, more,
                 sleeping, inflight, inflight_sync, verdict, returned>>
Destroy ==
  /\ ~stop /\ \A w \in Writers : pc[w] = "idle"
  /\ stop' = TRUE
  /\ pc' = [pc EXCEPT ![Committer] = IF @ = "asleep" THEN "woken" ELSE @]
  /\ UNCHANGED <<slotVars, batch, queue, running, hand_over, more, sleeping,
                 inflight, inflight_sync, verdict, returned>>

(* committer_.join() has returned; nothing is left to do.                  *)
Joined == pc[Committer] = "exited" /\ UNCHANGED vars

-----------------------------------------------------------------------------
ReleaseStep(a) == StoreReleasing(a) \/ NotifyOwner(a) \/ StoreDone(a)

WriterStep(w) ==
  \/ Execute(w) \/ FinishInline(w) \/ NotifyCommitter(w) \/ ReleaseStep(w)
  \/ ReturnInline(w) \/ ReturnReleased(w) \/ Park(w)

CommitterStep ==
  \/ CommitterTake \/ CommitterSleep \/ CommitterWake \/ CommitterExit
  \/ Execute(Committer) \/ FinishCommitter \/ ReleaseStep(Committer)
  \/ CommitterNext

Next ==
  \/ \E w \in Writers : Submit(w) \/ WriterStep(w)
  \/ CommitterStep \/ CommitterSpuriousWake \/ Destroy \/ Joined

Spec == Init /\ [][Next]_vars

(* Every thread is scheduled: a step it can take is eventually taken.      *)
(* Callers are not obliged to submit, nor a waiter to wake spuriously.     *)
Fairness ==
  /\ \A w \in Writers : WF_vars(WriterStep(w))
  /\ WF_vars(CommitterStep)
FairSpec == Spec /\ Fairness

-----------------------------------------------------------------------------
PcValues == {"idle", "wait", "parked", "run", "ran", "notify", "releasing",
             "notifying", "finishing", "gate", "asleep", "woken", "exited"}

TypeOK ==
  /\ pc \in [Actors -> PcValues]
  /\ serial \in [Writers -> Nat]
  /\ sync \in [Writers -> BOOLEAN]
  /\ err \in [Writers -> BOOLEAN]
  /\ state \in [Writers -> {"kQueued", "kReleasing", "kDone"}]
  /\ queue \in Seq(SlotIds)
  /\ batch \in [Actors -> Seq(SlotIds)]
  /\ running \in BOOLEAN /\ hand_over \in BOOLEAN /\ more \in BOOLEAN
  /\ sleeping \in BOOLEAN /\ stop \in BOOLEAN
  /\ inflight \in Nat /\ inflight_sync \in Nat
  /\ verdict \in [Writers -> {"none", "ok", "error"}]
  /\ returned \in [Writers -> {"none", "ok", "error"}]

Running(a) == pc[a] \in {"run", "ran"}

(* The executor is never entered by two threads, and running_ is set while *)
(* it runs: what execute_slots' caller relies on for one batch at a time.  *)
OneBatchAtATime ==
  /\ \A a, b \in Actors : Running(a) /\ Running(b) => a = b
  /\ (\E a \in Actors : Running(a)) => running

(* The hand-over invariant: a non-empty queue has a thread that will take  *)
(* it - a batch is running, or the committer has been handed the queue and *)
(* is awake, or is about to be woken.                                      *)
QueueServed ==
  queue # <<>> =>
    \/ \E a \in Actors : Running(a)
    \/ pc[Committer] \in {"releasing", "notifying", "finishing"} /\ more
    \/ hand_over /\ (\/ pc[Committer] # "asleep"
                     \/ \E w \in Writers : pc[w] = "notify")

(* Every slot a thread still holds, queued, run or being released, is      *)
(* alive: its owner is still inside the submit() call it belongs to.       *)
Held == {queue[i] : i \in DOMAIN queue}
          \cup UNION {{batch[a][i] : i \in DOMAIN batch[a]} : a \in Actors}

SlotAliveWhileHeld ==
  \A x \in Held : pc[x.owner] # "idle" /\ serial[x.owner] = x.serial

(* submit() returns only after the executor ran its slot, and reports what *)
(* the executor decided for that slot and not for another one.             *)
ReturnsItsVerdict ==
  \A w \in Writers :
    pc[w] = "idle" /\ serial[w] > 0 =>
      verdict[w] # "none" /\ returned[w] = verdict[w]

(* busy() and sync_busy(), which the flusher reads without queue_mu_,      *)
(* count exactly the slots submitted and not executed: they reach zero     *)
(* again, so a settling flush is not held by slots that already ran.       *)
Unsettled == {w \in Writers :
                \/ \E i \in DOMAIN queue : queue[i].owner = w
                \/ \E a \in Actors : Running(a) /\ w \in Owners(batch[a])}

InflightCounts ==
  /\ inflight = Cardinality(Unsettled)
  /\ inflight_sync = Cardinality({w \in Unsettled : sync[w]})

(* The write group implements the serial executor: one batch at a time,    *)
(* oldest writes first, nobody overtaken, each caller given the verdict on *)
(* its own write - whichever thread ran the batch, however the hand-over,  *)
(* the release of the slots and the next batch interleave.                 *)
OwnerSeq(s) == [i \in DOMAIN s |-> s[i].owner]

Serial == INSTANCE SerialExecutor WITH
  Clients <- Writers,
  waiting <- OwnerSeq(queue),
  active <- IF \E a \in Actors : pc[a] = "run"
            THEN OwnerSeq(batch[CHOOSE a \in Actors : pc[a] = "run"])
            ELSE <<>>,
  status <- [w \in Writers |-> IF pc[w] = "idle" THEN "idle"
                               ELSE IF verdict[w] = "none" THEN "waiting"
                               ELSE verdict[w]],
  outcome <- returned

ImplementsSerialExecutor == Serial!Spec

(* Every submit() returns: no slot is left in the queue, and no owner      *)
(* sleeps through its release.                                             *)
SubmitReturns == \A w \in Writers : pc[w] # "idle" ~> pc[w] = "idle"

(* The destructor's join() ends: the committer does not sleep through stop_.*)
DestroyEnds == stop ~> pc[Committer] = "exited"

=============================================================================
