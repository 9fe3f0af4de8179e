-------------------------- MODULE WriteGroupProofs --------------------------
(***************************************************************************)
(* The serial section of WriteGroup for any number of writers and submits. *)
(*                                                                         *)
(* running_ is a baton: while it is set exactly one of three parties owns  *)
(* it - a thread inside run_batch(), the hand-over flag, or the committer  *)
(* between two batches it keeps the role for.  Neither OneBatchAtATime nor *)
(* QueueServed is inductive without saying who.                            *)
(***************************************************************************)
EXTENDS WriteGroup, TLAPS

(* The committer is releasing one batch and will run the next.             *)
Keeps == pc[Committer] \in {"releasing", "notifying", "finishing"} /\ more

(* Only the committer is at the committer's points, and only writers are   *)
(* at theirs.                                                              *)
Places ==
  /\ pc \in [Actors -> PcValues]
  /\ pc[Committer] \notin {"idle", "wait", "parked", "notify"}
  /\ \A w \in Writers : pc[w] \notin {"gate", "asleep", "woken", "exited"}

Baton ==
  /\ \A a, b \in Actors : Running(a) /\ Running(b) => a = b
  /\ \A a \in Actors : Running(a) => running /\ ~hand_over /\ ~Keeps
  /\ hand_over => running /\ ~Keeps
  /\ Keeps => running
  /\ running => hand_over \/ Keeps \/ \E a \in Actors : Running(a)

Served ==
  /\ queue # <<>> => running
  /\ pc[Committer] = "asleep" => sleeping
  /\ hand_over /\ pc[Committer] = "asleep"
       => \E w \in Writers : pc[w] = "notify"

Types ==
  /\ running \in BOOLEAN /\ hand_over \in BOOLEAN /\ more \in BOOLEAN
  /\ sleeping \in BOOLEAN /\ stop \in BOOLEAN

IInv == Types /\ Places /\ Baton /\ Served

LEMMA InitIInv == Init => IInv
<1> SUFFICES ASSUME Init PROVE IInv
  OBVIOUS
<1> USE CommitterAssumption DEF Init, Keeps, Running, Actors, PcValues
<1>1. Types
  BY DEF Types
<1>2. Places
  BY DEF Places
<1>3. Baton
  BY DEF Baton
<1>4. Served
  BY DEF Served
<1>5. QED
  BY <1>1, <1>2, <1>3, <1>4 DEF IInv

LEMMA IInvImplies == IInv => OneBatchAtATime /\ QueueServed
  BY CommitterAssumption DEF IInv, Types, Places, Baton, Served, Keeps, Running,
     Actors, OneBatchAtATime, QueueServed

LEMMA NextIInv == IInv /\ [Next]_vars => IInv'
<1> SUFFICES ASSUME IInv, [Next]_vars PROVE IInv'
  OBVIOUS
<1> USE CommitterAssumption
<1> USE DEF IInv, Types, Places, Baton, Served, Keeps, Running, Actors, PcValues,
            slotVars, groupVars
<1>1. ASSUME NEW w \in Writers, Submit(w) PROVE IInv'
  <2>1. CASE running
    <3>1. queue' = Enqueued(w) /\ pc' = [pc EXCEPT ![w] = "wait"]
          /\ UNCHANGED <<running, hand_over, more, sleeping, stop>>
      BY <1>1, <2>1 DEF Submit
    <3>2. QED
      BY <2>1, <3>1, <1>1 DEF Submit
  <2>2. CASE ~running
    <3>1. queue' = <<>> /\ pc' = [pc EXCEPT ![w] = "run"] /\ running' = TRUE
          /\ UNCHANGED <<hand_over, more, sleeping, stop>>
      BY <1>1, <2>2 DEF Submit
    <3>2. QED
      BY <2>2, <3>1, <1>1 DEF Submit
  <2>3. QED
    BY <2>1, <2>2
<1>2. ASSUME NEW a \in Actors, Execute(a) PROVE IInv'
  BY <1>2 DEF Execute
<1>3. ASSUME NEW w \in Writers, FinishInline(w) PROVE IInv'
  BY <1>3 DEF FinishInline, Settle, HandOver, Wake
<1>4. ASSUME NEW w \in Writers, NotifyCommitter(w) PROVE IInv'
  BY <1>4 DEF NotifyCommitter
<1>5. ASSUME NEW a \in Actors, ReleaseStep(a) PROVE IInv'
  BY <1>5 DEF ReleaseStep, StoreReleasing, NotifyOwner, StoreDone
<1>6. ASSUME NEW w \in Writers, ReturnInline(w) \/ ReturnReleased(w) PROVE IInv'
  BY <1>6 DEF ReturnInline, ReturnReleased, Leave
<1>7. ASSUME NEW w \in Writers, Park(w) PROVE IInv'
  BY <1>7 DEF Park
<1>8. CASE CommitterTake
  <2>1. pc' = [pc EXCEPT ![Committer] = "run"] /\ queue' = <<>>
        /\ hand_over' = FALSE /\ UNCHANGED <<running, more, sleeping, stop>>
    BY <1>8 DEF CommitterTake
  <2>2. hand_over /\ pc[Committer] = "gate"
    BY <1>8 DEF CommitterTake
  <2>3. QED
    BY <2>1, <2>2
<1>9. CASE CommitterSleep
  BY <1>9 DEF CommitterSleep
<1>10. CASE CommitterSpuriousWake \/ CommitterWake \/ CommitterExit
  <2>1. CASE CommitterSpuriousWake
    BY <2>1 DEF CommitterSpuriousWake
  <2>2. CASE CommitterWake
    BY <2>2 DEF CommitterWake
  <2>3. CASE CommitterExit
    BY <2>3 DEF CommitterExit
  <2>4. QED
    BY <1>10, <2>1, <2>2, <2>3
<1>11. CASE FinishCommitter
  BY <1>11 DEF FinishCommitter, Settle
<1>12. CASE CommitterNext
  BY <1>12 DEF CommitterNext
<1>13. CASE Destroy
  BY <1>13 DEF Destroy
<1>14. CASE Joined \/ UNCHANGED vars
  BY <1>14 DEF Joined, vars
<1>15. QED
  BY <1>1, <1>2, <1>3, <1>4, <1>5, <1>6, <1>7, <1>8, <1>9, <1>10, <1>11,
     <1>12, <1>13, <1>14 DEF Next, WriterStep, CommitterStep

(* The executor is entered by one thread at a time, and a non-empty queue  *)
(* always has a thread that will take it, for any number of writers: the   *)
(* hand-over of submit() and committer_loop() neither overlaps two batches *)
(* nor loses a queued slot.                                                *)
THEOREM SerialSection == Spec => [](OneBatchAtATime /\ QueueServed)
<1>1. Spec => []IInv
  BY InitIInv, NextIInv, PTL DEF Spec
<1>2. QED
  BY <1>1, IInvImplies, PTL
=============================================================================
