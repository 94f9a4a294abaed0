---------------------- MODULE SubmissionContract_proofs ----------------------
(* The promises of the execution owner follow from the steps of its contract, *)
(* for any number of submissions, readbacks and generations.                  *)
EXTENDS SubmissionContract, TLAPS

(* A readback has no answer before its submission is accepted.                *)
BornTogether ==
  \A s \in SubmissionId : \A b \in ReadbackId :
    status[s] = "None" => readbacks[s][b] = "None"

(* Inductive invariant.  That nothing is queued under a closed owner needs    *)
(* ShutdownIsExact, which itself needs that what is queued is accepted.       *)
IInv ==
  /\ TypeOK
  /\ QueueingIsNewest
  /\ ShutdownIsExact
  /\ BornTogether
  /\ phase = "Gone" <=> generation = 0

LEMMA InitIInv == Init => IInv
BY DEF Init, IInv, TypeOK, QueueingIsNewest, ShutdownIsExact, BornTogether, Live, NoStatus, NoReadbacks

(* What a failing handle becomes                                              *)
LEMMA FailedTypes ==
  /\ \A x \in {"None", "Accepted", "Completed", "Failed"} :
       /\ Failed(x) \in {"None", "Completed", "Failed"}
       /\ Failed(x) = "None" <=> x = "None"
  /\ \A x \in {"None", "Pending", "Ready", "Failed"} :
       Failed(x) \in {"None", "Ready", "Failed"}
BY DEF Failed

(* The two last conjuncts, which no other action disturbs.                     *)
LEMMA BornStep ==
  ASSUME IInv, [Next]_vars
  PROVE  BornTogether' /\ (phase = "Gone" <=> generation = 0)'
<1> USE DEF IInv, TypeOK
<1>1. ASSUME NEW s \in SubmissionId, NEW bs \in SUBSET ReadbackId, Accept(s, bs)
      PROVE  BornTogether'
  BY <1>1 DEF Accept, BornTogether
<1>2. ASSUME NEW s \in SubmissionId, NEW b \in ReadbackId, Answer(s, b)
      PROVE  BornTogether'
  BY <1>2 DEF Answer, BornTogether
<1>3. ASSUME NEW s \in SubmissionId, Fail(s) PROVE BornTogether'
  BY <1>3 DEF Fail, Failed, BornTogether
<1>4. CASE Drop
  BY <1>4 DEF Drop, Failed, BornTogether
<1>5. CASE ReplaceGeneration
  BY <1>5 DEF ReplaceGeneration, NoReadbacks, BornTogether
<1>6. BornTogether'
  BY <1>1, <1>2, <1>3, <1>4, <1>5
  DEF Next, vars, BornTogether, Queue, EndQueueing, Complete, BeginShutdown
<1>7. (phase = "Gone" <=> generation = 0)'
  BY DEF Next, vars, Accept, Queue, EndQueueing, Complete, Answer, Fail, BeginShutdown,
         ReplaceGeneration, Drop, Advance
<1> QED BY <1>6, <1>7

LEMMA StepIInv == IInv /\ [Next]_vars => IInv'
<1> SUFFICES ASSUME IInv, [Next]_vars PROVE IInv'
  OBVIOUS
<1> USE DEF IInv, TypeOK
<1>a. BornTogether' /\ (phase = "Gone" <=> generation = 0)'
  BY BornStep
<1>1. ASSUME NEW s \in SubmissionId, NEW bs \in SUBSET ReadbackId, Accept(s, bs)
      PROVE  IInv'
  <2> USE <1>1 DEF Accept
  <2>1. TypeOK'
    OBVIOUS
  <2>2. QueueingIsNewest'
    BY DEF QueueingIsNewest, SubmissionId
  <2>3. ShutdownIsExact'
    BY DEF ShutdownIsExact
  <2> QED BY <2>1, <2>2, <2>3, <1>a
<1>2. ASSUME NEW s \in SubmissionId, Queue(s) PROVE IInv'
  <2> USE <1>2 DEF Queue
  <2>1. TypeOK'
    OBVIOUS
  <2>2. QueueingIsNewest'
    BY DEF QueueingIsNewest, SubmissionId
  <2>3. ShutdownIsExact'
    BY DEF ShutdownIsExact, Live
  <2> QED BY <2>1, <2>2, <2>3, <1>a
<1>3. ASSUME NEW s \in SubmissionId, EndQueueing(s) PROVE IInv'
  BY <1>3, <1>a DEF EndQueueing, QueueingIsNewest, ShutdownIsExact, Live
<1>4. ASSUME NEW s \in SubmissionId, Complete(s) PROVE IInv'
  <2> USE <1>4 DEF Complete, Advance
  <2>1. TypeOK'
    OBVIOUS
  <2>2. phase \in {"Running", "ShuttingDown"}
    BY DEF ShutdownIsExact, Live
  <2>3. QueueingIsNewest'
    BY <2>2 DEF QueueingIsNewest, Live
  <2>4. ShutdownIsExact'
    BY <2>2 DEF ShutdownIsExact
  <2> QED BY <2>1, <2>3, <2>4, <1>a
<1>5. ASSUME NEW s \in SubmissionId, NEW b \in ReadbackId, Answer(s, b)
      PROVE  IInv'
  <2> USE <1>5 DEF Answer, Advance
  <2>1. TypeOK'
    OBVIOUS
  <2>2. phase \in {"Running", "ShuttingDown"}
    BY DEF ShutdownIsExact, Live
  <2>3. QueueingIsNewest'
    BY <2>2 DEF QueueingIsNewest, Live
  <2>4. ShutdownIsExact'
    BY <2>2 DEF ShutdownIsExact
  <2> QED BY <2>1, <2>3, <2>4, <1>a
<1>6. ASSUME NEW s \in SubmissionId, Fail(s) PROVE IInv'
  <2> USE <1>6 DEF Fail, Advance
  <2>1. /\ status' \in [SubmissionId -> {"None", "Accepted", "Completed", "Failed"}]
        /\ readbacks' \in
             [SubmissionId -> [ReadbackId -> {"None", "Pending", "Ready", "Failed"}]]
    BY FailedTypes
  <2>2. TypeOK'
    BY <2>1
  <2>3. /\ \A t \in SubmissionId : status'[t] # "None" <=> status[t] # "None"
        /\ \A t \in queueing' : status'[t] = "Accepted"
    BY FailedTypes DEF QueueingIsNewest
  <2>4. Live(status', readbacks') => Live(status, readbacks)
    BY FailedTypes DEF Live
  <2>5. QueueingIsNewest'
    BY <2>3 DEF QueueingIsNewest, Live
  <2>6. ShutdownIsExact'
    BY <2>4 DEF ShutdownIsExact
  <2> QED BY <2>2, <2>5, <2>6, <1>a
<1>7. CASE BeginShutdown
  <2> USE <1>7 DEF BeginShutdown, Advance
  <2>1. TypeOK'
    OBVIOUS
  <2>2. QueueingIsNewest'
    BY DEF QueueingIsNewest, Live
  <2>3. ShutdownIsExact'
    BY DEF ShutdownIsExact
  <2> QED BY <2>1, <2>2, <2>3, <1>a
<1>8. CASE ReplaceGeneration
  BY <1>8, <1>a DEF ReplaceGeneration, NoStatus, NoReadbacks, QueueingIsNewest, ShutdownIsExact
<1>9. CASE Drop
  <2> USE <1>9 DEF Drop
  <2>1. TypeOK'
    BY FailedTypes
  <2>2. QueueingIsNewest'
    BY DEF QueueingIsNewest
  <2>3. ~Live(status', readbacks')
    BY FailedTypes DEF Live
  <2>4. ShutdownIsExact'
    BY <2>3 DEF ShutdownIsExact
  <2> QED BY <2>1, <2>2, <2>4, <1>a
<1>10. CASE UNCHANGED vars
  BY <1>10, <1>a DEF vars, QueueingIsNewest, ShutdownIsExact, Live
<1> QED
  BY <1>1, <1>2, <1>3, <1>4, <1>5, <1>6, <1>7, <1>8, <1>9, <1>10 DEF Next

(* The inductive invariant of the contract holds of every behaviour           *)
THEOREM InductiveInvariant == Spec => []IInv
BY InitIInv, StepIInv, PTL DEF Spec

(* Handles always carry one of their four statuses.                           *)
THEOREM TypeCorrect == Spec => []TypeOK
<1>1. IInv => TypeOK
  BY DEF IInv
<1> QED BY <1>1, InductiveInvariant, PTL

(* What is being queued is accepted and the newest submission.                *)
THEOREM NothingSucceedsWhileQueued == Spec => []QueueingIsNewest
<1>1. IInv => QueueingIsNewest
  BY DEF IInv
<1> QED BY <1>1, InductiveInvariant, PTL

(* Shutdown is over exactly when no handle is live.                           *)
THEOREM ShutdownWaitsForHandles == Spec => []ShutdownIsExact
<1>1. IInv => ShutdownIsExact
  BY DEF IInv
<1> QED BY <1>1, InductiveInvariant, PTL

(* No late answer changes a terminal handle.                                  *)
THEOREM HandlesStayTerminal == Spec => TerminalIsFinal
<1>1. IInv /\ [Next]_vars =>
        [generation' \in {generation, 0} =>
           \A s \in SubmissionId :
             /\ status[s] \in {"Completed", "Failed"} => status'[s] = status[s]
             /\ \A b \in ReadbackId :
                  readbacks[s][b] \in {"Ready", "Failed"} =>
                    readbacks'[s][b] = readbacks[s][b]]_vars
  <2> SUFFICES ASSUME IInv, Next, generation' \in {generation, 0},
                      NEW s \in SubmissionId
               PROVE  /\ status[s] \in {"Completed", "Failed"} => status'[s] = status[s]
                      /\ \A b \in ReadbackId :
                           readbacks[s][b] \in {"Ready", "Failed"} =>
                             readbacks'[s][b] = readbacks[s][b]
    OBVIOUS
  <2> USE DEF IInv, TypeOK
  <2> DEFINE Kept == /\ status[s] \in {"Completed", "Failed"} => status'[s] = status[s]
                     /\ \A b \in ReadbackId :
                          readbacks[s][b] \in {"Ready", "Failed"} =>
                            readbacks'[s][b] = readbacks[s][b]
  <2>1. ASSUME NEW t \in SubmissionId, NEW bs \in SUBSET ReadbackId, Accept(t, bs)
        PROVE  Kept
    <3>1. status[t] = "None" /\ \A b \in ReadbackId : readbacks[t][b] = "None"
      BY <2>1 DEF Accept, SubmissionId, BornTogether
    <3> QED BY <2>1, <3>1 DEF Accept
  <2>2. ASSUME NEW t \in SubmissionId, NEW b \in ReadbackId, Answer(t, b) PROVE Kept
    BY <2>2 DEF Answer
  <2>3. ASSUME NEW t \in SubmissionId, Fail(t) PROVE Kept
    BY <2>3 DEF Fail, Failed
  <2>4. CASE Drop
    BY <2>4 DEF Drop, Failed
  <2>5. CASE ReplaceGeneration
    BY <2>5 DEF ReplaceGeneration
  <2>6. ASSUME NEW t \in SubmissionId, Queue(t) \/ EndQueueing(t) \/ Complete(t) PROVE Kept
    BY <2>6 DEF Queue, EndQueueing, Complete
  <2>7. CASE BeginShutdown
    BY <2>7 DEF BeginShutdown
  <2> QED
    BY <2>1, <2>2, <2>3, <2>4, <2>5, <2>6, <2>7 DEF Next
<1> QED BY <1>1, InductiveInvariant, PTL DEF Spec, TerminalIsFinal

(* Physical order is identity order.                                          *)
THEOREM QueueIsOrdered == Spec => QueueFollowsIdentity
<1>1. IInv /\ [Next]_vars => [generation' = generation => tail' >= tail]_vars
  <2> SUFFICES ASSUME IInv, Next, generation' = generation PROVE tail' >= tail
    OBVIOUS
  <2> USE DEF IInv, TypeOK, SubmissionId
  <2>1. CASE ReplaceGeneration
    BY <2>1 DEF ReplaceGeneration
  <2>2. CASE Drop
    BY <2>2 DEF Drop
  <2>3. CASE \E s \in SubmissionId : Queue(s)
    BY <2>3 DEF Queue, QueueingIsNewest
  <2> QED
    BY <2>1, <2>2, <2>3
    DEF Next, Accept, EndQueueing, Complete, Fail, Answer, BeginShutdown
<1> QED BY <1>1, InductiveInvariant, PTL DEF Spec, QueueFollowsIdentity
=============================================================================
