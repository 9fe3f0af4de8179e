--------------------------- MODULE SerialExecutor ---------------------------
(***************************************************************************)
(* What WriteGroup promises its callers (the class comment of              *)
(* bytecaskdb/concurrency.cppm): every write passes through the executor,  *)
(* one batch at a time, in the order the writes arrived, and each caller   *)
(* gets the executor's verdict on its own write.  No threads, no committer,*)
(* no slot protocol.                                                       *)
(***************************************************************************)
EXTENDS Naturals, Sequences

CONSTANT Clients

VARIABLES
  waiting,   \* clients whose write has not been started, oldest first
  active,    \* clients whose writes the executor is running, oldest first
  status,    \* of each client's write: none, waiting, ok, error
  outcome    \* what each client's last call reported

vars == <<waiting, active, status, outcome>>

Verdicts == {"ok", "error"}

Init ==
  /\ waiting = <<>> /\ active = <<>>
  /\ status = [c \in Clients |-> "idle"]
  /\ outcome = [c \in Clients |-> "none"]

(* A batch is the oldest n waiting writes; no other batch is active.       *)
StartFrom(line) ==
  /\ active = <<>>
  /\ \E n \in 1 .. Len(line) :
       /\ active' = SubSeq(line, 1, n)
       /\ waiting' = SubSeq(line, n + 1, Len(line))

(* A write arrives, and may start a batch at once.                         *)
Arrive(c) ==
  /\ status[c] = "idle"
  /\ status' = [status EXCEPT ![c] = "waiting"]
  /\ \/ waiting' = Append(waiting, c) /\ UNCHANGED active
     \/ StartFrom(Append(waiting, c))
  /\ UNCHANGED outcome

Start == StartFrom(waiting) /\ UNCHANGED <<status, outcome>>

(* The executor ends, with a verdict on every write of the batch.          *)
Complete ==
  /\ active # <<>>
  /\ \E v \in [Clients -> Verdicts] :
       status' = [c \in Clients |->
                    IF \E i \in DOMAIN active : active[i] = c
                    THEN v[c] ELSE status[c]]
  /\ active' = <<>>
  /\ UNCHANGED <<waiting, outcome>>

Return(c) ==
  /\ status[c] \in Verdicts
  /\ outcome' = [outcome EXCEPT ![c] = status[c]]
  /\ status' = [status EXCEPT ![c] = "idle"]
  /\ UNCHANGED <<waiting, active>>

Next == Start \/ Complete \/ \E c \in Clients : Arrive(c) \/ Return(c)

Spec == Init /\ [][Next]_vars
=============================================================================
