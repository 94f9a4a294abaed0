-------------------------- MODULE SubmissionContract --------------------------
(***************************************************************************)
(* What the execution owner promises to whoever holds a GpuSubmission or a  *)
(* GpuReadback (api/execution.rs), without saying how: acceptance is one    *)
(* irrevocable step, physical order is identity order, a handle becomes     *)
(* terminal once, and shutdown closes with the last open handle.            *)
(***************************************************************************)
EXTENDS Naturals

CONSTANTS MaxSubmission, MaxGeneration, ReadbackId

SubmissionId == 1 .. MaxSubmission

VARIABLES
  generation,          \* device generation, 0 once the owner is dropped
  phase,               \* "Running" | "ShuttingDown" | "Closed" | "Gone"
  status,              \* submission -> what its handle says
  readbacks,           \* submission -> readback -> what its handle says
  queueing,            \* the submission whose commands are being queued
  tail                 \* submission of the last queued command buffer

vars == <<generation, phase, status, readbacks, queueing, tail>>

NoStatus    == [s \in SubmissionId |-> "None"]
NoReadbacks == [s \in SubmissionId |-> [b \in ReadbackId |-> "None"]]

(* A handle that may still change                                            *)
Live(states, answers) ==
  \E s \in SubmissionId :
    states[s] = "Accepted" \/ \E b \in ReadbackId : answers[s][b] = "Pending"

(* Shutdown closes with the step that leaves no handle live                  *)
Advance(from) ==
  phase' = IF from = "ShuttingDown" /\ ~Live(status', readbacks')
           THEN "Closed" ELSE from

Init ==
  /\ generation = 1 /\ phase = "Running"
  /\ status = NoStatus /\ readbacks = NoReadbacks
  /\ queueing = {} /\ tail = 0

(* All handles of a submission are born together, with the next identity     *)
Accept(s, bs) ==
  /\ phase = "Running"
  /\ queueing = {}
  /\ \A t \in SubmissionId : status[t] # "None" => t < s
  /\ status' = [status EXCEPT ![s] = "Accepted"]
  /\ readbacks' = [readbacks EXCEPT ![s] =
       [b \in ReadbackId |-> IF b \in bs THEN "Pending" ELSE "None"]]
  /\ queueing' = {s}
  /\ UNCHANGED <<generation, phase, tail>>

Queue(s) ==
  /\ s \in queueing
  /\ tail' = s
  /\ UNCHANGED <<generation, phase, status, readbacks, queueing>>

EndQueueing(s) ==
  /\ s \in queueing
  /\ tail = s
  /\ queueing' = {}
  /\ UNCHANGED <<generation, phase, status, readbacks, tail>>

Complete(s) ==
  /\ status[s] = "Accepted"
  /\ s \notin queueing
  /\ status' = [status EXCEPT ![s] = "Completed"]
  /\ UNCHANGED <<generation, readbacks, queueing, tail>>
  /\ Advance(phase)

(* A readback answers before, with or after its submission                   *)
Answer(s, b) ==
  /\ readbacks[s][b] = "Pending"
  /\ s \notin queueing
  /\ \E answer \in {"Ready", "Failed"} :
       readbacks' = [readbacks EXCEPT ![s][b] = answer]
  /\ UNCHANGED <<generation, status, queueing, tail>>
  /\ Advance(phase)

Failed(state) == IF state \in {"Accepted", "Pending"} THEN "Failed" ELSE state

(* Whatever is still open of a submission fails together                     *)
Fail(s) ==
  /\ status' = [status EXCEPT ![s] = Failed(@)]
  /\ readbacks' =
       [readbacks EXCEPT ![s] = [b \in ReadbackId |-> Failed(@[b])]]
  /\ queueing' = queueing \ {s}
  /\ UNCHANGED <<generation, tail>>
  /\ Advance(phase)

BeginShutdown ==
  /\ phase = "Running"
  /\ UNCHANGED <<generation, status, readbacks, queueing, tail>>
  /\ Advance("ShuttingDown")

(* The next device generation starts with its own identities                 *)
ReplaceGeneration ==
  /\ generation \in 1 .. MaxGeneration - 1
  /\ ~Live(status, readbacks)
  /\ generation' = generation + 1
  /\ phase' = "Running"
  /\ status' = NoStatus /\ readbacks' = NoReadbacks
  /\ queueing' = {} /\ tail' = 0

(* Handles outlive their owner, and are terminal then                        *)
Drop ==
  /\ phase # "Gone"
  /\ queueing = {}
  /\ generation' = 0 /\ phase' = "Gone"
  /\ status' = [s \in SubmissionId |-> Failed(status[s])]
  /\ readbacks' = [s \in SubmissionId |->
       [b \in ReadbackId |-> Failed(readbacks[s][b])]]
  /\ tail' = 0
  /\ UNCHANGED queueing

Next ==
  \/ \E s \in SubmissionId : \E bs \in SUBSET ReadbackId : Accept(s, bs)
  \/ \E s \in SubmissionId :
       Queue(s) \/ EndQueueing(s) \/ Complete(s) \/ Fail(s)
  \/ \E s \in SubmissionId, b \in ReadbackId : Answer(s, b)
  \/ BeginShutdown \/ ReplaceGeneration \/ Drop

Spec == Init /\ [][Next]_vars

-----------------------------------------------------------------------------
(* Properties *)

(* Type invariant.                                                            *)
TypeOK ==
  /\ generation \in Nat
  /\ phase \in {"Running", "ShuttingDown", "Closed", "Gone"}
  /\ status \in [SubmissionId -> {"None", "Accepted", "Completed", "Failed"}]
  /\ readbacks \in
       [SubmissionId -> [ReadbackId -> {"None", "Pending", "Ready", "Failed"}]]
  /\ queueing \in SUBSET SubmissionId
  /\ tail \in SubmissionId \cup {0}

(* Success is never reported of work that is still being queued: what is     *)
(* being queued is accepted and the newest of all, and there is one at most. *)
QueueingIsNewest ==
  /\ queueing # {} => phase \notin {"Closed", "Gone"}
  /\ \A s \in queueing :
       /\ status[s] = "Accepted"
       /\ tail <= s
       /\ \A t \in SubmissionId : status[t] # "None" => t <= s
  /\ tail # 0 => status[tail] # "None"

(* A closed or dropped owner left no handle to wait for, and one that still   *)
(* shuts down waits for a handle somebody holds.                              *)
ShutdownIsExact ==
  /\ phase = "ShuttingDown" => Live(status, readbacks)
  /\ phase \in {"Closed", "Gone"} => ~Live(status, readbacks)

(* Terminal handles are final whatever arrives late: a completion after a     *)
(* failure, a mapping after a sweep, a fault after success.                   *)
TerminalIsFinal ==
  [][generation' \in {generation, 0} =>
       \A s \in SubmissionId :
         /\ status[s] \in {"Completed", "Failed"} => status'[s] = status[s]
         /\ \A b \in ReadbackId :
              readbacks[s][b] \in {"Ready", "Failed"} =>
                readbacks'[s][b] = readbacks[s][b]]_vars

(* Physical order is identity order: command buffers reach the queue by       *)
(* ascending submission, and a submission's are not interleaved.              *)
QueueFollowsIdentity ==
  [][generation' = generation => tail' >= tail]_vars
=============================================================================
