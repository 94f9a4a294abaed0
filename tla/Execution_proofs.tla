--------------------------- MODULE Execution_proofs ---------------------------
(***************************************************************************)
(* The execution owner implements the retained-state authority and honours   *)
(* the contract of its handles, for any callers, resources, works, readbacks, *)
(* policies and sizes of the identity spaces.                                *)
(***************************************************************************)
EXTENDS Execution, FiniteFolds

Event == [submission : SubmissionId, of : ReadbackId \cup {"done"}, mapped : BOOLEAN]
Statuses == {"None", "Accepted", "Completed", "Failed"}
Answers == {"None", "Pending", "Ready", "Failed"}

(* The types the proofs rely on: those of TypeOK but for sums of bytes.       *)
Shaped ==
  /\ generation \in 0 .. MaxGeneration
  /\ DOMAIN graph = Client
  /\ status \in [SubmissionId -> Statuses]
  /\ DOMAIN transition = SubmissionId
  /\ lifecycle \in {"Running", "ShuttingDown", "Closed"}
  /\ slot \in [TicketId -> {"absent", "reserved", "ready"}]
  /\ nextPrepared \in 0 .. MaxTicket
  /\ nextSubmission \in 0 .. MaxSubmission
  /\ caller \in [Client -> CallerState]
  /\ polling \in {"idle", "draining", "redraining", "sweeping"}
  /\ inFlight \in SUBSET SubmissionId
  /\ seeds \in [SubmissionId -> SUBSET Seeded]
  /\ readbacks \in [SubmissionId -> [ReadbackId -> Answers]]
  /\ pendingReadbacks \in Nat
  /\ callbacks \subseteq SubmissionId \X (ReadbackId \cup {"done"})
  /\ events \in Seq(Event)
  /\ queueTail \in 0 .. MaxSubmission

Inside == {"admitting", "encoding", "queueing", "queued", "marked"}
Owning == {"encoding", "queueing", "queued", "marked"}

(* submission_order is held by the one caller inside submit_prepared or by    *)
(* the thread inside progress                                                *)
Interval ==
  /\ order \in {"free", "progress"} \cup Client
  /\ polling # "idle" <=> order = "progress"
  /\ \A c \in Client : caller[c].pc \in Inside <=> order = c
  /\ order # "free" => generation # 0

(* What a caller has in hand at each point                                   *)
Equipped(c) ==
  LET s == caller[c].submission
  IN /\ caller[c].pc \in {"reserved", "prepared", "admitting"} => graph[c] # NoGraph
     /\ caller[c].pc \in Owning => s \in SubmissionId /\ status[s] = "Accepted"
     /\ caller[c].pc \in {"queueing", "queued", "marked"} =>
          caller[c].segment \in DOMAIN transition[s].work.segments
     /\ caller[c].pc \in {"queued", "marked"} => queueTail = s

(* Graphs hold works of the caller's choice, and a plan transfers contents     *)
(* that its graph counted on                                                 *)
Planned ==
  /\ \A c \in Client : graph[c] # NoGraph => graph[c].work \in Work
  /\ \A s \in SubmissionId : status[s] = "Accepted" =>
       transition[s].work \in Work /\ seeds[s] \subseteq R!Materialized(transition[s])

(* The readbacks somebody waits for                                          *)
Waiting == {p \in SubmissionId \X ReadbackId : readbacks[p[1]][p[2]] = "Pending"}

(* Records and counters follow the handles                                   *)
Recorded ==
  /\ RecordsMatchHandles
  /\ pendingReadbacks = Cardinality(Waiting)
  /\ \A s \in SubmissionId :
       /\ status[s] = "None" => \A b \in ReadbackId : readbacks[s][b] = "None"
       /\ status[s] # "None" /\ generation # 0 =>
            nextSubmission = 0 \/ s < nextSubmission

(* Shutdown has released the tickets and waits for records only               *)
Draining ==
  /\ lifecycle # "Running" => \A t \in TicketId : slot[t] = "absent"
  /\ lifecycle = "ShuttingDown" => inFlight # {}
  /\ lifecycle = "Closed" => inFlight = {}

IInv ==
  /\ Shaped /\ Interval /\ Planned /\ Recorded /\ Draining
  /\ \A c \in Client : Equipped(c)

(* A caller that holds a ticket of this owner                                *)
Holding == {"reserved", "prepared", "admitting"}
Current(c) == caller[c].pc \in Holding /\ caller[c].generation = generation

(* Tickets are issued in order, and only handles of an earlier generation lose *)
(* their owner while they live                                               *)
Ticketed ==
  /\ \A c \in Client :
       /\ IF caller[c].pc \in Holding
          THEN caller[c].ticket \in TicketId /\ caller[c].generation # 0
          ELSE caller[c].ticket = 0 /\ caller[c].generation = 0
       /\ caller[c].pc \in {"reserved", "admitting"} => Current(c)
       /\ generation # 0 => caller[c].generation <= generation
       /\ Current(c) => nextPrepared = 0 \/ caller[c].ticket < nextPrepared
       /\ Current(c) /\ lifecycle = "Running" =>
            slot[caller[c].ticket] # "absent"
  /\ \A c, d \in Client :
       Current(c) /\ Current(d) /\ caller[c].ticket = caller[d].ticket => c = d
  /\ \A t \in TicketId :
       slot[t] # "absent" => \E c \in Client : Current(c) /\ caller[c].ticket = t

(* The transfers of s are still to be queued                                 *)
Transfers(c) == \/ caller[c].pc = "encoding"
                \/ caller[c].pc = "queueing" /\ caller[c].segment = 1
Transferring(s) == \E c \in Client : caller[c].submission = s /\ Transfers(c)

(* Content counted as transferred is in the storage, and each accepted plan   *)
(* transfers what is not                                                     *)
Seeding ==
  /\ DOMAIN content = Seeded
  /\ \A r \in Seeded : content[r] # "Unmaterialized" => r \in filled
  /\ \A s \in SubmissionId : status[s] = "Accepted" =>
       /\ R!Materialized(transition[s]) \subseteq filled \cup seeds[s]
       /\ seeds[s] \subseteq filled \/ Transferring(s)

-----------------------------------------------------------------------------
(* Callers *)

Pc == {"idle", "reserved", "prepared", "admitting", "encoding", "queueing",
       "queued", "marked"}

(* The fields of a caller                                                    *)
LEMMA CallerFields ==
  /\ Idle \in CallerState
  /\ \A x \in CallerState :
       /\ x.pc \in Pc /\ x.ticket \in 0 .. MaxTicket
       /\ x.generation \in 0 .. MaxGeneration
       /\ x.submission \in 0 .. MaxSubmission /\ x.segment \in Nat
BY IdentityAssumption, PolicyAssumption DEF Idle, CallerState, Pc

(* A step of one caller leaves the others where they are                      *)
LEMMA CallerGoes ==
  ASSUME caller \in [Client -> CallerState], NEW c \in Client, NEW pc \in Pc,
         Goto(c, pc)
  PROVE  /\ caller' \in [Client -> CallerState]
         /\ caller'[c] = [caller[c] EXCEPT !.pc = pc]
         /\ caller'[c].pc = pc
         /\ caller'[c].submission = caller[c].submission
         /\ caller'[c].segment = caller[c].segment
         /\ caller'[c].ticket = caller[c].ticket
         /\ caller'[c].generation = caller[c].generation
         /\ \A d \in Client : d # c => caller'[d] = caller[d]
BY DEF Goto, CallerState, Pc

(* A caller goes on to queue segment n                                       *)
LEMMA CallerAdvances ==
  ASSUME caller \in [Client -> CallerState], NEW c \in Client, NEW n \in Nat,
         caller' = [caller EXCEPT ![c].pc = "queueing", ![c].segment = n]
  PROVE  /\ caller' \in [Client -> CallerState]
         /\ caller'[c].pc = "queueing"
         /\ caller'[c].submission = caller[c].submission
         /\ caller'[c].segment = n
         /\ caller'[c].ticket = caller[c].ticket
         /\ caller'[c].generation = caller[c].generation
         /\ \A d \in Client : d # c => caller'[d] = caller[d]
BY DEF CallerState

(* A caller returns from its call with nothing in hand                       *)
LEMMA CallerRests ==
  ASSUME caller \in [Client -> CallerState], NEW c \in Client,
         caller' = [caller EXCEPT ![c] = Idle]
  PROVE  /\ caller' \in [Client -> CallerState]
         /\ caller'[c] = Idle /\ Idle.pc = "idle" /\ Idle.generation = 0
         /\ \A d \in Client : d # c => caller'[d] = caller[d]
BY CallerFields DEF Idle

(* A caller is given ticket t of generation g                                *)
LEMMA CallerStarts ==
  ASSUME caller \in [Client -> CallerState], NEW c \in Client,
         NEW t \in 0 .. MaxTicket, NEW g \in 0 .. MaxGeneration,
         caller' = [caller EXCEPT ![c] =
           [Idle EXCEPT !.pc = "reserved", !.ticket = t, !.generation = g]]
  PROVE  /\ caller' \in [Client -> CallerState]
         /\ caller'[c].pc = "reserved" /\ caller'[c].ticket = t
         /\ caller'[c].generation = g
         /\ \A d \in Client : d # c => caller'[d] = caller[d]
<1> DEFINE x == [Idle EXCEPT !.pc = "reserved", !.ticket = t, !.generation = g]
<1>1. /\ [Idle EXCEPT !.pc = "reserved"] \in CallerState
      /\ [Idle EXCEPT !.pc = "reserved"].pc = "reserved"
  BY CallerFields DEF Idle, CallerState
<1>2. x \in CallerState
  BY <1>1 DEF CallerState
<1>3. x.pc = "reserved" /\ x.ticket = t /\ x.generation = g
  BY DEF Idle
<1> HIDE DEF x
<1>4. caller' = [caller EXCEPT ![c] = x]
  BY DEF x
<1> QED BY <1>2, <1>3, <1>4

(* A caller is given submission s                                            *)
LEMMA CallerSubmits ==
  ASSUME caller \in [Client -> CallerState], NEW c \in Client,
         NEW s \in SubmissionId,
         caller' = [caller EXCEPT ![c] =
           [Idle EXCEPT !.pc = "encoding", !.submission = s]]
  PROVE  /\ caller' \in [Client -> CallerState]
         /\ caller'[c].pc = "encoding" /\ caller'[c].submission = s
         /\ caller'[c].ticket = 0 /\ caller'[c].generation = 0
         /\ \A d \in Client : d # c => caller'[d] = caller[d]
<1> DEFINE x == [Idle EXCEPT !.pc = "encoding", !.submission = s]
<1>1. [Idle EXCEPT !.pc = "encoding"] \in CallerState
  BY CallerFields DEF CallerState
<1>5. s \in 0 .. MaxSubmission
  BY DEF SubmissionId
<1>4. x \in CallerState
  BY <1>1, <1>5 DEF CallerState
<1>2. x.pc = "encoding" /\ x.submission = s /\ x.ticket = 0 /\ x.generation = 0
  BY DEF Idle
<1> HIDE DEF x
<1>3. caller' = [caller EXCEPT ![c] = x]
  BY DEF x
<1> QED BY <1>4, <1>2, <1>3

-----------------------------------------------------------------------------
(* Terminal effects *)

(* What a terminal effect leaves of the handles and records; s is the only    *)
(* submission whose handles it changes.                                      *)
Ended(s) ==
  /\ UNCHANGED <<generation, graph>>
  /\ DOMAIN transition' = SubmissionId
  /\ status' \in [SubmissionId -> Statuses]
  /\ readbacks' \in [SubmissionId -> [ReadbackId -> Answers]]
  /\ seeds' \in [SubmissionId -> SUBSET Seeded]
  /\ \A t \in SubmissionId :
       /\ status'[t] = "Accepted" =>
            /\ status[t] = "Accepted"
            /\ transition'[t] = transition[t] /\ seeds'[t] = seeds[t]
       /\ status'[t] = "None" <=> status[t] = "None"
       /\ \A b \in ReadbackId :
            /\ readbacks'[t][b] = "None" <=> readbacks[t][b] = "None"
            /\ readbacks'[t][b] = "Pending" => readbacks[t][b] = "Pending"
       /\ t # s => status'[t] = status[t] /\ readbacks'[t] = readbacks[t]
  /\ pendingReadbacks' \in Nat /\ pendingReadbacks' = Cardinality(Waiting')

(* The record of s goes when nothing of it is open                           *)
LEMMA Cleans ==
  ASSUME Shaped, Recorded, Draining, NEW s \in SubmissionId, Ended(s),
         Cleanup(s), slot' = slot
  PROVE  /\ inFlight' \in SUBSET SubmissionId
         /\ RecordsMatchHandles'
         /\ lifecycle' \in {"Running", "ShuttingDown", "Closed"}
         /\ Draining'
<1>1. inFlight' \in SUBSET SubmissionId /\ inFlight' \subseteq inFlight
  BY DEF Shaped, Cleanup
<1>2. RecordsMatchHandles'
  <2>1. SUFFICES ASSUME NEW t \in SubmissionId
                 PROVE  t \in inFlight' <=>
                        status'[t] = "Accepted" \/ Outstanding(t)' # {}
    BY <1>1 DEF RecordsMatchHandles, accepted
  <2>2. t \in inFlight <=> status[t] = "Accepted" \/ Outstanding(t) # {}
    BY DEF Recorded, RecordsMatchHandles, accepted
  <2>3. CASE t = s
    <3>1. Outstanding(s)' = {} <=> \A b \in ReadbackId : readbacks'[s][b] # "Pending"
      BY DEF Outstanding
    <3>2. s \in inFlight' <=>
            s \in inFlight /\ (status'[s] = "Accepted" \/ Outstanding(s)' # {})
      <4>1. inFlight' = IF status'[s] # "Accepted" /\ Outstanding(s)' = {}
                        THEN inFlight \ {s} ELSE inFlight
        BY <3>1 DEF Cleanup
      <4> QED BY <4>1
    <3>3. status'[s] = "Accepted" \/ Outstanding(s)' # {} =>
            status[s] = "Accepted" \/ Outstanding(s) # {}
      BY DEF Ended, Outstanding
    <3> QED BY <2>2, <2>3, <3>2, <3>3
  <2>4. CASE t # s
    <3>1. t \in inFlight' <=> t \in inFlight
      BY <2>4 DEF Cleanup
    <3>2. status'[t] = status[t] /\ Outstanding(t)' = Outstanding(t)
      BY <2>4 DEF Ended, Outstanding
    <3> QED BY <2>2, <3>1, <3>2
  <2> QED BY <2>3, <2>4
<1>3. lifecycle' = Advance(lifecycle, slot, inFlight')
  BY DEF Cleanup
<1>4. /\ lifecycle' \in {"Running", "ShuttingDown", "Closed"}
      /\ Draining'
  BY <1>1, <1>3 DEF Shaped, Draining, Advance
<1> QED BY <1>1, <1>2, <1>4

(* Readbacks are waited for by finitely many                                  *)
LEMMA WaitingIsFinite ==
  /\ IsFiniteSet(Waiting)
  /\ \A s \in SubmissionId : IsFiniteSet(Outstanding(s))
<1>1. IsFiniteSet(SubmissionId)
  BY FS_Interval, IdentityAssumption DEF SubmissionId
<1>2. IsFiniteSet(SubmissionId \X ReadbackId)
  BY <1>1, FS_Product, IdentityAssumption
<1> QED BY <1>2, FS_Subset, IdentityAssumption DEF Waiting, Outstanding

(* Failing a submission fails what is still open of it, and nothing else     *)
LEMMA FailEnds ==
  ASSUME Shaped, Recorded, Draining, NEW s \in SubmissionId,
         FailSubmission(s), slot' = slot
  PROVE  /\ Ended(s)
         /\ status'[s] # "Accepted" /\ Outstanding(s)' = {}
         /\ (status[s] = "Accepted" => status'[s] = "Failed")
         /\ (status[s] # "Accepted" => status'[s] = status[s])
         /\ \A b \in ReadbackId : readbacks'[s][b] =
              IF readbacks[s][b] = "Pending" THEN "Failed" ELSE readbacks[s][b]
         /\ inFlight' \in SUBSET SubmissionId
         /\ RecordsMatchHandles' /\ Draining'
         /\ lifecycle' \in {"Running", "ShuttingDown", "Closed"}
<1>1. /\ UNCHANGED <<generation, graph>>
      /\ DOMAIN transition' = SubmissionId
      /\ status' \in [SubmissionId -> Statuses]
      /\ seeds' \in [SubmissionId -> SUBSET Seeded]
      /\ status'[s] # "Accepted"
      /\ (status[s] = "Accepted" => status'[s] = "Failed")
      /\ (status[s] # "Accepted" => status'[s] = status[s])
      /\ \A t \in SubmissionId : t # s =>
           /\ status'[t] = status[t] /\ transition'[t] = transition[t]
           /\ seeds'[t] = seeds[t]
  <2>1. CASE status[s] = "Accepted"
    <3>1. R!Fail(s) /\ ReleaseUpload(s)
      BY <2>1 DEF FailSubmission
    <3> QED BY <2>1, <3>1 DEF R!Fail, R!Release, ReleaseUpload, Shaped, Statuses
  <2>2. CASE status[s] # "Accepted"
    BY <2>2 DEF FailSubmission, retainedVars, Shaped
  <2> QED BY <2>1, <2>2
<1>2. readbacks' = [readbacks EXCEPT ![s] =
        [b \in ReadbackId |-> IF readbacks[s][b] = "Pending" THEN "Failed"
                               ELSE readbacks[s][b]]]
  BY DEF FailSubmission
<1>3. /\ readbacks' \in [SubmissionId -> [ReadbackId -> Answers]]
      /\ \A t \in SubmissionId : t # s => readbacks'[t] = readbacks[t]
      /\ \A b \in ReadbackId : readbacks'[s][b] =
           IF readbacks[s][b] = "Pending" THEN "Failed" ELSE readbacks[s][b]
  BY <1>2 DEF Shaped, Answers
<1>4. Outstanding(s)' = {}
  BY <1>3 DEF Outstanding
<1>5. pendingReadbacks' = Cardinality(Waiting')
  <2>1. Waiting' = Waiting \ ({s} \X Outstanding(s))
    BY <1>3 DEF Waiting, Outstanding
  <2>2. {s} \X Outstanding(s) \subseteq Waiting
    BY DEF Waiting, Outstanding
  <2>3. IsFiniteSet({s}) /\ Cardinality({s}) = 1
    BY FS_Singleton
  <2>4. /\ IsFiniteSet(Waiting) /\ IsFiniteSet(Outstanding(s))
        /\ Cardinality(Waiting) \in Nat /\ Cardinality(Outstanding(s)) \in Nat
    BY WaitingIsFinite, FS_CardinalityType
  <2>5. /\ IsFiniteSet({s} \X Outstanding(s))
        /\ Cardinality({s} \X Outstanding(s)) = 1 * Cardinality(Outstanding(s))
    BY <2>3, <2>4, FS_Product
  <2>6. Cardinality({s} \X Outstanding(s)) <= Cardinality(Waiting)
    BY <2>2, <2>4, FS_Subset
  <2>7. Waiting \cap ({s} \X Outstanding(s)) = {s} \X Outstanding(s)
    BY <2>2
  <2>8. Cardinality(Waiting') =
          Cardinality(Waiting) - Cardinality({s} \X Outstanding(s))
    <3>1. Cardinality(Waiting \ ({s} \X Outstanding(s))) =
            Cardinality(Waiting) - Cardinality(Waiting \cap ({s} \X Outstanding(s)))
      BY <2>4, FS_Difference
    <3> QED BY <2>1, <2>7, <3>1
  <2>9. pendingReadbacks' = Minus(pendingReadbacks, Cardinality(Outstanding(s)))
    BY DEF FailSubmission
  <2> QED BY <2>4, <2>5, <2>6, <2>8, <2>9 DEF Minus, Recorded
<1>6. pendingReadbacks' \in Nat
  <2>1. IsFiniteSet(Waiting')
    <3>1. Waiting' \subseteq Waiting
      BY <1>3 DEF Waiting
    <3> QED BY <3>1, WaitingIsFinite, FS_Subset
  <2> QED BY <1>5, <2>1, FS_CardinalityType
<1>7. Ended(s)
  <2>1. ASSUME NEW t \in SubmissionId
        PROVE  /\ status'[t] = "Accepted" =>
                    /\ status[t] = "Accepted"
                    /\ transition'[t] = transition[t] /\ seeds'[t] = seeds[t]
               /\ status'[t] = "None" <=> status[t] = "None"
               /\ \A b \in ReadbackId :
                    /\ readbacks'[t][b] = "None" <=> readbacks[t][b] = "None"
                    /\ readbacks'[t][b] = "Pending" => readbacks[t][b] = "Pending"
               /\ t # s => status'[t] = status[t] /\ readbacks'[t] = readbacks[t]
    <3>1. CASE t = s
      BY <1>1, <1>3, <3>1
    <3>2. CASE t # s
      BY <1>1, <1>3, <3>2
    <3> QED BY <3>1, <3>2
  <2> QED BY <1>1, <1>3, <1>5, <1>6, <2>1 DEF Ended
<1>8. Cleanup(s)
  BY DEF FailSubmission
<1> QED BY <1>1, <1>3, <1>4, <1>7, <1>8, Cleans

(* An event that comes too late changes nothing                              *)
LEMMA RestEnds ==
  ASSUME Shaped, Recorded, Draining, NEW s \in SubmissionId,
         UNCHANGED <<retainedVars, recordVars, lifecycle>>, slot' = slot
  PROVE  /\ Ended(s) /\ readbacks' = readbacks /\ status' = status
         /\ inFlight' \in SUBSET SubmissionId
         /\ RecordsMatchHandles' /\ Draining'
         /\ lifecycle' \in {"Running", "ShuttingDown", "Closed"}
<1>1. /\ UNCHANGED <<generation, graph, status, transition>>
      /\ UNCHANGED <<inFlight, seeds, readbacks, pendingReadbacks, lifecycle>>
  BY DEF retainedVars, recordVars
<1>2. Waiting' = Waiting /\ RecordsMatchHandles'
  BY <1>1 DEF Waiting, Recorded, RecordsMatchHandles, accepted, Outstanding
<1> QED BY <1>1, <1>2 DEF Ended, Shaped, Recorded, Draining

(* A completion leaves its readbacks to their own callbacks                  *)
LEMMA CompleteEnds ==
  ASSUME Shaped, Recorded, Draining, NEW s \in SubmissionId,
         CompleteSubmission(s), slot' = slot
  PROVE  /\ Ended(s) /\ readbacks' = readbacks
         /\ \/ status[s] = "Accepted" /\ status' = [status EXCEPT ![s] = "Completed"]
            \/ UNCHANGED <<retainedVars, recordVars, lifecycle>>
         /\ inFlight' \in SUBSET SubmissionId
         /\ RecordsMatchHandles' /\ Draining'
         /\ lifecycle' \in {"Running", "ShuttingDown", "Closed"}
<1>1. CASE s \in inFlight /\ status[s] = "Accepted"
  <2>1. /\ R!Settle(s) /\ ReleaseUpload(s) /\ Cleanup(s)
        /\ UNCHANGED <<readbacks, readbackBytes, pendingReadbacks>>
    BY <1>1 DEF CompleteSubmission
  <2>2. /\ UNCHANGED <<generation, graph>>
        /\ DOMAIN transition' = SubmissionId
        /\ status' = [status EXCEPT ![s] = "Completed"]
        /\ status' \in [SubmissionId -> Statuses]
        /\ seeds' \in [SubmissionId -> SUBSET Seeded]
        /\ \A t \in SubmissionId : t # s =>
             /\ status'[t] = status[t] /\ transition'[t] = transition[t]
             /\ seeds'[t] = seeds[t]
        /\ status'[s] = "Completed"
    BY <2>1 DEF R!Settle, R!Release, ReleaseUpload, Shaped, Statuses
  <2>3. Waiting' = Waiting
    BY <2>1 DEF Waiting
  <2>4. Ended(s)
    BY <1>1, <2>1, <2>2, <2>3 DEF Ended, Shaped, Recorded
  <2> QED BY <1>1, <2>1, <2>2, <2>4, Cleans
<1>2. CASE ~(s \in inFlight /\ status[s] = "Accepted")
  <2>1. UNCHANGED <<retainedVars, recordVars, lifecycle>>
    BY <1>2 DEF CompleteSubmission
  <2> QED BY <2>1, RestEnds
<1> QED BY <1>1, <1>2

(* A mapping answers one readback that was waited for                        *)
LEMMA AnswerEnds ==
  ASSUME Shaped, Recorded, Draining, NEW s \in SubmissionId,
         NEW b \in ReadbackId, NEW mapped \in BOOLEAN,
         CompleteReadback(s, b, mapped), slot' = slot
  PROVE  /\ Ended(s) /\ status' = status
         /\ \/ /\ readbacks[s][b] = "Pending"
               /\ \E answer \in {"Ready", "Failed"} :
                    readbacks' = [readbacks EXCEPT ![s][b] = answer]
            \/ UNCHANGED <<retainedVars, recordVars, lifecycle>>
         /\ inFlight' \in SUBSET SubmissionId
         /\ RecordsMatchHandles' /\ Draining'
         /\ lifecycle' \in {"Running", "ShuttingDown", "Closed"}
<1>1. CASE s \in inFlight /\ readbacks[s][b] = "Pending"
  <2>1. PICK answer \in {"Ready", "Failed"} :
             readbacks' = [readbacks EXCEPT ![s][b] = answer]
    BY <1>1 DEF CompleteReadback
  <2>2. /\ UNCHANGED <<retainedVars, seeds, held, uploadBytes, content>>
        /\ pendingReadbacks' = Minus(pendingReadbacks, 1)
        /\ Cleanup(s)
    BY <1>1 DEF CompleteReadback
  <2>3. /\ readbacks' \in [SubmissionId -> [ReadbackId -> Answers]]
        /\ \A t \in SubmissionId : t # s => readbacks'[t] = readbacks[t]
        /\ \A d \in ReadbackId :
             readbacks'[s][d] = IF d = b THEN answer ELSE readbacks[s][d]
    BY <2>1 DEF Shaped, Answers
  <2>4. Waiting' = Waiting \ {<<s, b>>}
    BY <2>3 DEF Waiting
  <2>5. /\ IsFiniteSet(Waiting) /\ <<s, b>> \in Waiting
        /\ Cardinality(Waiting) \in Nat
    BY <1>1, WaitingIsFinite, FS_CardinalityType DEF Waiting
  <2>6. /\ IsFiniteSet(Waiting \ {<<s, b>>})
        /\ Cardinality(Waiting \ {<<s, b>>}) = Cardinality(Waiting) - 1
    BY <2>5, FS_RemoveElement
  <2>7. Cardinality(Waiting \ {<<s, b>>}) \in Nat
    BY <2>6, FS_CardinalityType
  <2>8. /\ pendingReadbacks' = Cardinality(Waiting')
        /\ pendingReadbacks' \in Nat
    BY <2>2, <2>4, <2>5, <2>6, <2>7 DEF Minus, Recorded
  <2>9. Ended(s)
    <3>1. /\ UNCHANGED <<generation, graph, status, transition, seeds>>
      BY <2>2 DEF retainedVars
    <3>2. ASSUME NEW t \in SubmissionId, NEW d \in ReadbackId
          PROVE  /\ readbacks'[t][d] = "None" <=> readbacks[t][d] = "None"
                 /\ readbacks'[t][d] = "Pending" => readbacks[t][d] = "Pending"
      <4>1. CASE t = s
        BY <1>1, <2>3, <4>1
      <4>2. CASE t # s
        BY <2>3, <4>2
      <4> QED BY <4>1, <4>2
    <3> QED BY <2>3, <2>8, <3>1, <3>2 DEF Ended, Shaped
  <2> QED BY <1>1, <2>1, <2>2, <2>9, Cleans DEF retainedVars
<1>2. CASE ~(s \in inFlight /\ readbacks[s][b] = "Pending")
  <2>1. UNCHANGED <<retainedVars, recordVars, lifecycle>>
    BY <1>2 DEF CompleteReadback
  <2> QED BY <2>1, RestEnds DEF retainedVars
<1> QED BY <1>1, <1>2

(* An event names a submission and one of its readbacks or its completion     *)
LEMMA Delivers ==
  ASSUME Shaped, Recorded, Draining, DrainEvent
  PROVE  \E s \in SubmissionId :
           \/ CompleteSubmission(s)
           \/ \E b \in ReadbackId, mapped \in BOOLEAN : CompleteReadback(s, b, mapped)
<1>1. events \in Seq(Event) /\ events # <<>>
  BY DEF Shaped, DrainEvent
<1>2. PICK e \in Event : e = Head(events)
  BY <1>1
<1>3. IF e.of = "done" THEN CompleteSubmission(e.submission)
      ELSE CompleteReadback(e.submission, e.of, e.mapped)
  BY <1>2 DEF DrainEvent
<1>4. /\ e.submission \in SubmissionId /\ e.mapped \in BOOLEAN
      /\ e.of # "done" => e.of \in ReadbackId
  BY DEF Event
<1> QED BY <1>3, <1>4

(* The steps that end something of a submission                              *)
Ending(s) ==
  \/ FailSubmission(s) \/ CompleteSubmission(s)
  \/ \E b \in ReadbackId, mapped \in BOOLEAN : CompleteReadback(s, b, mapped)

(* Every terminal effect keeps records, handles and shutdown in agreement    *)
LEMMA Ends ==
  ASSUME Shaped, Recorded, Draining, NEW s \in SubmissionId, Ending(s),
         slot' = slot
  PROVE  /\ Ended(s)
         /\ inFlight' \in SUBSET SubmissionId
         /\ RecordsMatchHandles' /\ Draining'
         /\ lifecycle' \in {"Running", "ShuttingDown", "Closed"}
<1>1. CASE FailSubmission(s)
  BY <1>1, FailEnds
<1>2. CASE CompleteSubmission(s)
  BY <1>2, CompleteEnds
<1>3. ASSUME NEW b \in ReadbackId, NEW mapped \in BOOLEAN,
             CompleteReadback(s, b, mapped)
      PROVE  /\ Ended(s)
             /\ inFlight' \in SUBSET SubmissionId
             /\ RecordsMatchHandles' /\ Draining'
             /\ lifecycle' \in {"Running", "ShuttingDown", "Closed"}
  BY <1>3, AnswerEnds
<1> QED BY <1>1, <1>2, <1>3 DEF Ending

(* The steps of a caller or of progress that end something                   *)
LEMMA EndingSteps ==
  ASSUME IInv
  PROVE  /\ \A c \in Client : EncodeFails(c) \/ SegmentFails(c) =>
              /\ caller[c].pc \in Owning /\ caller[c].submission \in SubmissionId
              /\ FailOwn(c)
         /\ DrainEvent \/ Sweep => \E s \in SubmissionId : Ending(s)
<1>1. ASSUME NEW c \in Client, EncodeFails(c) \/ SegmentFails(c)
      PROVE  /\ caller[c].pc \in Owning /\ caller[c].submission \in SubmissionId
             /\ FailOwn(c)
  BY <1>1 DEF EncodeFails, SegmentFails, At, Owning, IInv, Equipped
<1>2. ASSUME DrainEvent PROVE \E s \in SubmissionId : Ending(s)
  BY <1>2, Delivers DEF Ending, IInv
<1>3. ASSUME Sweep PROVE \E s \in SubmissionId : Ending(s)
  <2>1. inFlight \in SUBSET SubmissionId /\ inFlight # {} /\ FailSubmission(Min(inFlight))
    BY <1>3 DEF Sweep, IInv, Shaped
  <2>2. Min(inFlight) \in SubmissionId
    <3>1. inFlight \in SUBSET Nat
      BY <2>1 DEF SubmissionId
    <3>2. Min(inFlight) \in inFlight
      BY <2>1, <3>1, LeastIsMin
    <3> QED BY <2>1, <3>2
  <2> QED BY <2>1, <2>2 DEF Ending
<1> QED BY <1>1, <1>2, <1>3

-----------------------------------------------------------------------------
(* Shape *)

(* Callers move as their steps say                                           *)
LEMMA CallersKeepShape ==
  ASSUME IInv, Next
  PROVE  caller' \in [Client -> CallerState]
<1> USE DEF Pc
<1>0. /\ caller \in [Client -> CallerState] /\ generation \in 0 .. MaxGeneration
      /\ nextPrepared \in 0 .. MaxTicket /\ nextSubmission \in 0 .. MaxSubmission
  BY DEF IInv, Shaped
<1>1. ASSUME NEW c \in Client, CallerStep(c)
      PROVE  caller' \in [Client -> CallerState]
  <2>1. CASE \/ \E w \in Work, known \in SUBSET Retained : PrepareGraph(c, w, known)
             \/ DropGraph(c)
    BY <1>0, <2>1 DEF PrepareGraph, DropGraph
  <2>2. CASE ReservePrepared(c)
    BY <1>0, <2>2, CallerStarts DEF ReservePrepared
  <2>3. CASE AbandonPreparation(c) \/ DropPrepared(c)
    BY <1>0, <2>3, CallerRests DEF AbandonPreparation, DropPrepared
  <2>4. CASE CommitPrepared(c)
    BY <1>0, <2>4, CallerGoes DEF CommitPrepared
  <2>5. CASE BeginSubmit(c) \/ RejectAcceptance(c)
    BY <1>0, <2>5, CallerGoes DEF BeginSubmit, RejectAcceptance
  <2>6. CASE Accept(c)
    <3>1. nextSubmission \in SubmissionId
      BY <1>0, <2>6 DEF Accept, Admitted, SubmissionId
    <3> QED BY <1>0, <2>6, <3>1, CallerSubmits DEF Accept
  <2>7. CASE Encode(c)
    BY <1>0, <2>7, CallerAdvances DEF Encode
  <2>8. CASE EncodeFails(c) \/ SegmentFails(c)
    BY <1>0, <2>8, CallerRests, EndingSteps DEF FailOwn
  <2>9. CASE QueueSegment(c) \/ MarkSegment(c)
    BY <1>0, <2>9, CallerGoes DEF QueueSegment, MarkSegment
  <2>10. CASE NextSegment(c)
    <3>1. caller[c].segment + 1 \in Nat
      BY <1>0, CallerFields
    <3>2. caller' = [caller EXCEPT ![c].pc = "queueing",
                                   ![c].segment = caller[c].segment + 1]
      BY <1>0, <2>10 DEF NextSegment
    <3> QED BY <1>0, <3>1, <3>2, CallerAdvances
  <2>11. CASE EndSubmit(c)
    BY <1>0, <2>11, CallerRests DEF EndSubmit
  <2> QED BY <1>1, <2>1, <2>2, <2>3, <2>4, <2>5, <2>6, <2>7, <2>8, <2>9, <2>10, <2>11
          DEF CallerStep, SubmitStep
<1>2. CASE BeginProgress \/ ProgressStep
  BY <1>0, <1>2 DEF BeginProgress, ProgressStep, DrainEvent, Poll, BeginSweep,
                    Sweep, EndProgress
<1>3. CASE DeviceCalls \/ DeviceFault \/ \E r \in Evictable : Evict(r)
  BY <1>0, <1>3 DEF DeviceCalls, FireCallback, DeviceFault, Evict
<1>4. CASE BeginShutdown \/ ReplaceGeneration \/ DropContext
  BY <1>0, <1>4 DEF BeginShutdown, ReplaceGeneration, DropContext, FreshOwner
<1> QED BY <1>1, <1>2, <1>3, <1>4 DEF Next

(* A plan has a first segment and a last one                                 *)
LEMMA PlanSegments ==
  ASSUME NEW w \in Work
  PROVE  \E k \in Nat \ {0} :
           DOMAIN w.segments = 1 .. k /\ Len(w.segments) = k
<1>1. w.segments \in Seq(SegmentOf(w)) /\ w.segments # <<>>
  BY PlanAssumption
<1>2. Len(w.segments) # 0
  BY <1>1
<1> QED BY <1>1, <1>2

(* A segment writes and reads back what its plan may                         *)
LEMMA PlanWrites ==
  ASSUME NEW w \in Work, NEW i \in DOMAIN w.segments
  PROVE  /\ w.segments[i].writes \subseteq w.explicit
         /\ w.segments[i].readbacks \subseteq ReadbackId
<1>1. w.segments \in Seq(SegmentOf(w))
  BY PlanAssumption
<1>2. w.segments[i] \in SegmentOf(w)
  BY <1>1
<1> QED BY <1>2 DEF SegmentOf

(* A plan has finitely many readbacks                                        *)
LEMMA PlanAnswers ==
  ASSUME NEW w \in Work
  PROVE  /\ PlanReadbacks(w) \subseteq ReadbackId
         /\ IsFiniteSet(PlanReadbacks(w)) /\ Cardinality(PlanReadbacks(w)) \in Nat
<1>1. PlanReadbacks(w) \subseteq ReadbackId
  BY PlanWrites DEF PlanReadbacks
<1> QED BY <1>1, IdentityAssumption, FS_Subset, FS_CardinalityType

(* Acceptance in terms of the new submission                                 *)
LEMMA Accepts ==
  ASSUME IInv, NEW c \in Client, Accept(c)
  PROVE  LET s == nextSubmission
             g == graph[c]
         IN /\ s \in SubmissionId /\ status[s] = "None"
            /\ generation # 0 /\ lifecycle = "Running"
            /\ order = c /\ polling = "idle"
            /\ caller[c].pc = "admitting" /\ caller[c].ticket \in TicketId
            /\ g # NoGraph /\ g.work \in Work
            /\ status' = [status EXCEPT ![s] = "Accepted"]
            /\ transition' = [transition EXCEPT ![s] = g]
            /\ seeds' = [seeds EXCEPT ![s] = EffectiveSeeds(g)]
            /\ EffectiveSeeds(g) \subseteq Seeded
            /\ readbacks' = [readbacks EXCEPT ![s] = [b \in ReadbackId |->
                 IF b \in PlanReadbacks(g.work) THEN "Pending" ELSE "None"]]
            /\ inFlight' = inFlight \cup {s}
            /\ pendingReadbacks' \in Nat
            /\ pendingReadbacks' = Cardinality(Waiting')
            /\ nextSubmission' \in 0 .. MaxSubmission
            /\ nextSubmission' = 0 \/ nextSubmission' = s + 1
<1> DEFINE s == nextSubmission
           g == graph[c]
<1>1. /\ s \in SubmissionId /\ generation # 0 /\ lifecycle = "Running"
      /\ order = c /\ polling = "idle" /\ caller[c].pc = "admitting"
      /\ g # NoGraph /\ caller[c].ticket # 0 /\ caller[c].ticket \in 0 .. MaxTicket
  BY CallerFields, IdentityAssumption
     DEF Accept, At, Admitted, Ready, IInv, Shaped, Interval, Equipped, Inside,
         SubmissionId
<1>2. status[s] = "None" /\ \A b \in ReadbackId : readbacks[s][b] = "None"
  BY <1>1 DEF IInv, Recorded, SubmissionId
<1>3. g.work \in Work
  BY <1>1 DEF IInv, Planned
<1>4. /\ status' = [status EXCEPT ![s] = "Accepted"]
      /\ transition' = [transition EXCEPT ![s] = g]
      /\ seeds' = [seeds EXCEPT ![s] = EffectiveSeeds(g)]
      /\ readbacks' = [readbacks EXCEPT ![s] = [b \in ReadbackId |->
           IF b \in PlanReadbacks(g.work) THEN "Pending" ELSE "None"]]
      /\ inFlight' = inFlight \cup {s}
      /\ pendingReadbacks' = pendingReadbacks + Cardinality(PlanReadbacks(g.work))
      /\ nextSubmission' = Successor(s, MaxSubmission)
  BY DEF Accept, R!Reserve
<1>5. EffectiveSeeds(g) \subseteq Seeded
  BY <1>3, IdentityAssumption DEF EffectiveSeeds, R!Materialized, Seeded
<1>6. /\ nextSubmission' \in 0 .. MaxSubmission
      /\ nextSubmission' = 0 \/ nextSubmission' = s + 1
  BY <1>1, <1>4, IdentityAssumption DEF Successor, SubmissionId
<1>7. pendingReadbacks' \in Nat /\ pendingReadbacks' = Cardinality(Waiting')
  <2>1. \A t \in SubmissionId : t # s => readbacks'[t] = readbacks[t]
    BY <1>4 DEF IInv, Shaped
  <2>2. \A b \in ReadbackId : readbacks'[s][b] =
          IF b \in PlanReadbacks(g.work) THEN "Pending" ELSE "None"
    BY <1>1, <1>4 DEF IInv, Shaped
  <2>3. /\ PlanReadbacks(g.work) \subseteq ReadbackId
        /\ IsFiniteSet(PlanReadbacks(g.work))
        /\ Cardinality(PlanReadbacks(g.work)) \in Nat
    BY <1>3, PlanAnswers
  <2>4. Waiting' = Waiting \cup ({s} \X PlanReadbacks(g.work))
    BY <1>1, <1>2, <2>1, <2>2, <2>3 DEF Waiting
  <2>5. Waiting \cap ({s} \X PlanReadbacks(g.work)) = {}
    BY <1>2, <2>3 DEF Waiting
  <2>6. IsFiniteSet(Waiting) /\ Cardinality(Waiting) \in Nat
    BY WaitingIsFinite, FS_CardinalityType
  <2>7. IsFiniteSet({s}) /\ Cardinality({s}) = 1
    BY FS_Singleton
  <2>8. /\ IsFiniteSet({s} \X PlanReadbacks(g.work))
        /\ Cardinality({s} \X PlanReadbacks(g.work)) =
             1 * Cardinality(PlanReadbacks(g.work))
    BY <2>3, <2>7, FS_Product
  <2>9. Cardinality(Waiting \cup ({s} \X PlanReadbacks(g.work))) =
          Cardinality(Waiting) + Cardinality({s} \X PlanReadbacks(g.work))
            - Cardinality(Waiting \cap ({s} \X PlanReadbacks(g.work)))
    BY <2>6, <2>8, FS_Union
  <2>10. Cardinality(Waiting \cap ({s} \X PlanReadbacks(g.work))) = 0
    BY <2>5, FS_EmptySet
  <2> HIDE DEF s, g
  <2>11. pendingReadbacks = Cardinality(Waiting)
    BY DEF IInv, Recorded
  <2> QED BY <1>4, <2>3, <2>4, <2>6, <2>8, <2>9, <2>10, <2>11
<1>8. caller[c].ticket \in TicketId
  BY <1>1, PolicyAssumption DEF TicketId
<1> QED BY <1>1, <1>2, <1>3, <1>4, <1>5, <1>6, <1>7, <1>8

(* Every step keeps the types                                                *)
LEMMA ShapedStep ==
  ASSUME IInv, Next
  PROVE  Shaped'
<1>0. Shaped /\ Recorded /\ Draining
  BY DEF IInv
<1>1. caller' \in [Client -> CallerState]
  BY CallersKeepShape
<1>2. ASSUME NEW c \in Client, CallerStep(c)
      PROVE  Shaped'
  <2>1. ASSUME NEW w \in Work, NEW known \in SUBSET Retained, PrepareGraph(c, w, known)
        PROVE  Shaped'
    BY <1>0, <1>1, <2>1
       DEF PrepareGraph, R!PrepareGraph, Shaped, ticketVars, recordVars, queueVars
  <2>2. CASE DropGraph(c)
    BY <1>0, <1>1, <2>2
       DEF DropGraph, R!DropGraph, Shaped, ticketVars, recordVars, queueVars
  <2>3. CASE ReservePrepared(c)
    <3>1. slot' \in [TicketId -> {"absent", "reserved", "ready"}]
      BY <1>0, <2>3 DEF ReservePrepared, Shaped
    <3>2. nextPrepared' \in 0 .. MaxTicket
      <4>1. nextPrepared \in 0 .. MaxTicket /\ MaxTicket \in Nat
        BY <1>0, PolicyAssumption DEF Shaped
      <4> QED BY <2>3, <4>1 DEF ReservePrepared, Successor
    <3> QED BY <1>0, <1>1, <2>3, <3>1, <3>2
               DEF ReservePrepared, Shaped, retainedVars, recordVars, queueVars
  <2>4. CASE CommitPrepared(c) \/ AbandonPreparation(c) \/ DropPrepared(c)
    <3>1. slot' \in [TicketId -> {"absent", "reserved", "ready"}]
      BY <1>0, <2>4 DEF CommitPrepared, AbandonPreparation, DropPrepared, Shaped
    <3>2. UNCHANGED <<retainedVars, lifecycle, nextPrepared, nextSubmission,
                      polling, recordVars, queueVars, events>>
      BY <2>4 DEF CommitPrepared, AbandonPreparation, DropPrepared
    <3> QED BY <1>0, <1>1, <3>1, <3>2 DEF Shaped, retainedVars, recordVars, queueVars
  <2>5. CASE \/ BeginSubmit(c) \/ Encode(c) \/ NextSegment(c) \/ EndSubmit(c)
    <3>1. UNCHANGED <<retainedVars, lifecycle, ticketVars, nextSubmission,
                      polling, recordVars, queueVars, events>>
      BY <2>5 DEF BeginSubmit, Encode, NextSegment, EndSubmit
    <3> QED BY <1>0, <1>1, <3>1
               DEF Shaped, retainedVars, ticketVars, recordVars, queueVars
  <2>6. CASE RejectAcceptance(c)
    <3>1. nextSubmission' \in 0 .. MaxSubmission
      BY <1>0, <2>6, IdentityAssumption
         DEF RejectAcceptance, Successor, Admitted, Shaped
    <3> QED BY <1>0, <1>1, <2>6, <3>1
               DEF RejectAcceptance, Shaped, retainedVars, ticketVars, recordVars,
                   queueVars
  <2>7. CASE Accept(c)
    <3>1. UNCHANGED <<generation, graph, lifecycle, nextPrepared, polling,
                      callbacks, events, queueTail>>
      BY <2>7 DEF Accept, R!Reserve, queueVars
    <3>2. slot' \in [TicketId -> {"absent", "reserved", "ready"}]
      BY <1>0, <2>7 DEF Accept, Shaped
    <3>3. /\ status' \in [SubmissionId -> Statuses] /\ DOMAIN transition' = SubmissionId
          /\ seeds' \in [SubmissionId -> SUBSET Seeded]
          /\ readbacks' \in [SubmissionId -> [ReadbackId -> Answers]]
          /\ inFlight' \in SUBSET SubmissionId
      <4>1. /\ status' = [status EXCEPT ![nextSubmission] = "Accepted"]
            /\ transition' = [transition EXCEPT ![nextSubmission] = graph[c]]
            /\ seeds' = [seeds EXCEPT ![nextSubmission] = EffectiveSeeds(graph[c])]
            /\ EffectiveSeeds(graph[c]) \subseteq Seeded
            /\ readbacks' = [readbacks EXCEPT ![nextSubmission] =
                 [b \in ReadbackId |->
                   IF b \in PlanReadbacks(graph[c].work) THEN "Pending" ELSE "None"]]
            /\ inFlight' = inFlight \cup {nextSubmission}
            /\ nextSubmission \in SubmissionId
        BY <2>7, Accepts
      <4> QED BY <1>0, <4>1 DEF Shaped, Statuses, Answers
    <3>4. pendingReadbacks' \in Nat /\ nextSubmission' \in 0 .. MaxSubmission
      BY <2>7, Accepts
    <3> QED BY <1>0, <1>1, <3>1, <3>2, <3>3, <3>4 DEF Shaped
  <2>8. CASE EncodeFails(c) \/ SegmentFails(c)
    <3>1. PICK s \in SubmissionId : s = caller[c].submission /\ FailOwn(c)
      BY <2>8, EndingSteps
    <3>2. /\ Ending(s)
          /\ UNCHANGED <<ticketVars, nextSubmission, polling, queueVars, events>>
      BY <3>1 DEF FailOwn, Ending
    <3>3. slot' = slot
      BY <3>2 DEF ticketVars
    <3> QED BY <1>0, <1>1, <3>2, <3>3, Ends DEF Ended, Shaped, ticketVars, queueVars
  <2>9. CASE QueueSegment(c)
    <3> DEFINE s == caller[c].submission
               i == caller[c].segment
    <3>1. /\ s \in SubmissionId /\ transition[s].work \in Work
          /\ i \in DOMAIN transition[s].work.segments
      BY <2>9 DEF QueueSegment, At, IInv, Equipped, Planned, Owning
    <3>2. transition[s].work.segments[i].readbacks \subseteq ReadbackId
      BY <3>1, PlanWrites
    <3>3. callbacks' \subseteq SubmissionId \X (ReadbackId \cup {"done"})
      BY <1>0, <2>9, <3>1, <3>2 DEF QueueSegment, Shaped
    <3>4. queueTail' \in 0 .. MaxSubmission
      BY <2>9, <3>1 DEF QueueSegment, SubmissionId
    <3> HIDE DEF s, i
    <3> QED BY <1>0, <1>1, <2>9, <3>3, <3>4
               DEF QueueSegment, Shaped, retainedVars, ticketVars, recordVars
  <2>10. CASE MarkSegment(c)
    <3>1. UNCHANGED <<generation, graph, status, transition>>
      BY <2>10 DEF MarkSegment, R!Mark, retainedVars
    <3> QED BY <1>0, <1>1, <2>10, <3>1
               DEF MarkSegment, Shaped, ticketVars, recordVars, queueVars
  <2> QED BY <1>2, <2>1, <2>2, <2>3, <2>4, <2>5, <2>6, <2>7, <2>8, <2>9, <2>10
          DEF CallerStep, SubmitStep
<1>3. CASE BeginProgress \/ Poll \/ BeginSweep \/ EndProgress \/ DeviceFault
  <2>1. UNCHANGED <<retainedVars, lifecycle, ticketVars, nextSubmission,
                    recordVars, queueVars, events>>
    BY <1>3 DEF BeginProgress, Poll, BeginSweep, EndProgress, DeviceFault
  <2>2. polling' \in {"idle", "draining", "redraining", "sweeping"}
    BY <1>0, <1>3 DEF BeginProgress, Poll, BeginSweep, EndProgress, DeviceFault, Shaped
  <2> QED BY <1>0, <1>1, <2>1, <2>2
             DEF Shaped, retainedVars, ticketVars, recordVars, queueVars
<1>4. CASE DrainEvent \/ Sweep
  <2>1. PICK s \in SubmissionId : Ending(s)
    BY <1>4, EndingSteps
  <2>2. UNCHANGED <<ticketVars, nextSubmission, polling, queueVars>>
    BY <1>4 DEF DrainEvent, Sweep
  <2>3. events' \in Seq(Event)
    <3>1. events \in Seq(Event)
      BY <1>0 DEF Shaped
    <3>2. ASSUME DrainEvent PROVE events # <<>> /\ events' = Tail(events)
      BY <3>2 DEF DrainEvent
    <3>3. ASSUME Sweep PROVE events' = events
      BY <3>3 DEF Sweep
    <3> QED BY <1>4, <3>1, <3>2, <3>3
  <2>4. slot' = slot
    BY <2>2 DEF ticketVars
  <2> QED BY <1>0, <1>1, <2>1, <2>2, <2>3, <2>4, Ends
             DEF Ended, Shaped, ticketVars, queueVars
<1>5. ASSUME NEW cb \in callbacks, NEW mapped \in BOOLEAN, FireCallback(cb, mapped)
      PROVE  Shaped'
  <2>1. cb \in SubmissionId \X (ReadbackId \cup {"done"})
    BY <1>0 DEF Shaped
  <2>2. [submission |-> cb[1], of |-> cb[2], mapped |-> mapped] \in Event
    BY <2>1 DEF Event
  <2>3. events' \in Seq(Event)
    BY <1>0, <1>5, <2>2 DEF FireCallback, Shaped
  <2>4. callbacks' \subseteq SubmissionId \X (ReadbackId \cup {"done"})
    BY <1>0, <1>5 DEF FireCallback, Shaped
  <2> QED BY <1>0, <1>1, <1>5, <2>3, <2>4
             DEF FireCallback, Shaped, retainedVars, ticketVars, recordVars
<1>6. ASSUME NEW r \in Evictable, Evict(r)
      PROVE  Shaped'
  BY <1>0, <1>1, <1>6 DEF Evict, Shaped, retainedVars, ticketVars, recordVars
<1>7. CASE BeginShutdown
  <2>1. slot' \in [TicketId -> {"absent", "reserved", "ready"}]
    BY <1>0, <1>7 DEF BeginShutdown, Shaped
  <2>2. lifecycle' \in {"Running", "ShuttingDown", "Closed"}
    BY <1>0, <1>7 DEF BeginShutdown, Shaped, Advance
  <2> QED BY <1>0, <1>1, <1>7, <2>1, <2>2
             DEF BeginShutdown, Shaped, retainedVars, recordVars, queueVars
<1>8. CASE ReplaceGeneration \/ DropContext
  <2>1. FreshOwner /\ graph' = graph
    BY <1>8 DEF ReplaceGeneration, DropContext, R!InstallGeneration, R!DropOwner
  <2>2. /\ generation' \in 0 .. MaxGeneration
        /\ status' \in [SubmissionId -> Statuses] /\ DOMAIN transition' = SubmissionId
        /\ readbacks' \in [SubmissionId -> [ReadbackId -> Answers]]
    <3>1. CASE ReplaceGeneration
      BY <1>0, <3>1, IdentityAssumption
         DEF ReplaceGeneration, R!InstallGeneration, Shaped, Statuses, Answers,
             R!SubmissionId, SubmissionId
    <3>2. CASE DropContext
      BY <1>0, <3>2, IdentityAssumption
         DEF DropContext, R!DropOwner, Shaped, Statuses, Answers,
             R!SubmissionId, SubmissionId
    <3> QED BY <1>8, <3>1, <3>2
  <2>3. 1 \in 0 .. MaxTicket /\ 1 \in 0 .. MaxSubmission
    BY IdentityAssumption, PolicyAssumption
  <2>4. /\ graph' = graph /\ polling' = polling /\ lifecycle' = "Running"
        /\ slot' = [t \in TicketId |-> "absent"]
        /\ nextPrepared' = 1 /\ nextSubmission' = 1 /\ inFlight' = {}
        /\ seeds' = [s \in SubmissionId |-> {}] /\ pendingReadbacks' = 0
        /\ callbacks' = {} /\ events' = <<>> /\ queueTail' = 0
    BY <2>1 DEF FreshOwner
  <2>5. events' \in Seq(Event) /\ queueTail' \in 0 .. MaxSubmission
    BY <2>4, IdentityAssumption
  <2> QED BY <1>0, <1>1, <2>2, <2>3, <2>4, <2>5 DEF Shaped
<1> QED BY <1>2, <1>3, <1>4, <1>5, <1>6, <1>7, <1>8 DEF Next, ProgressStep, DeviceCalls

-----------------------------------------------------------------------------
(* The submission interval *)

(* A caller outside the interval moves and stays outside                     *)
LEMMA MovesOutside ==
  ASSUME IInv, NEW c \in Client,
         UNCHANGED <<generation, status, transition, order, polling, queueTail>>,
         \A d \in Client : d # c => caller'[d] = caller[d] /\ graph'[d] = graph[d],
         caller[c].pc \notin Inside, caller'[c].pc \notin Inside,
         caller'[c].pc \in {"reserved", "prepared"} => graph'[c] # NoGraph
  PROVE  Interval' /\ \A d \in Client : Equipped(d)'
<1>1. Interval'
  BY DEF IInv, Interval
<1>2. Equipped(c)'
  BY DEF Equipped, Inside, Owning
<1>3. ASSUME NEW d \in Client, d # c PROVE Equipped(d)'
  <2>1. Equipped(d)
    BY DEF IInv
  <2> QED BY <1>3, <2>1 DEF Equipped
<1> QED BY <1>1, <1>2, <1>3

(* The caller inside the interval moves: it leaves, or it is equipped for what *)
(* it does next                                                              *)
LEMMA MovesInside ==
  ASSUME IInv, NEW c \in Client,
         UNCHANGED <<generation, graph, polling>>,
         \A d \in Client : d # c => caller'[d] = caller[d],
         caller[c].pc \in Inside,
         \/ order' = order /\ caller'[c].pc \in Inside
         \/ order' = "free" /\ caller'[c].pc \in {"idle", "prepared"},
         Equipped(c)'
  PROVE  Interval' /\ \A d \in Client : Equipped(d)'
<1>1. /\ order = c /\ polling = "idle" /\ generation # 0
      /\ c \notin {"free", "progress"}
      /\ \A d \in Client : d # c => caller[d].pc \notin Inside
  BY IdentityAssumption DEF IInv, Interval
<1>2. Interval'
  BY <1>1, IdentityAssumption DEF Interval, Inside
<1>3. ASSUME NEW d \in Client, d # c PROVE Equipped(d)'
  <2>1. Equipped(d)
    BY DEF IInv
  <2> QED BY <1>1, <1>3, <2>1 DEF Equipped, Inside, Owning
<1> QED BY <1>2, <1>3

(* Nobody is inside while progress runs                                      *)
LEMMA ProgressAlone ==
  ASSUME IInv, polling # "idle"
  PROVE  order = "progress" /\ \A d \in Client : caller[d].pc \notin Inside
BY IdentityAssumption DEF IInv, Interval

(* A caller's step keeps the interval and what callers have in hand          *)
LEMMA CallerKeepsInterval ==
  ASSUME IInv, NEW c \in Client, CallerStep(c)
  PROVE  Interval' /\ \A d \in Client : Equipped(d)'
<1> USE DEF Pc
<1>0. /\ caller \in [Client -> CallerState] /\ DOMAIN graph = Client
      /\ generation \in 0 .. MaxGeneration /\ nextPrepared \in 0 .. MaxTicket
      /\ status \in [SubmissionId -> Statuses] /\ DOMAIN transition = SubmissionId
      /\ Equipped(c)
  BY DEF IInv, Shaped
<1>1. ASSUME NEW w \in Work, NEW known \in SUBSET Retained, PrepareGraph(c, w, known)
      PROVE  Interval' /\ \A d \in Client : Equipped(d)'
  <2>1. /\ caller' = caller /\ generation # 0 /\ graph[c] = NoGraph
        /\ \A d \in Client : d # c => graph'[d] = graph[d]
        /\ UNCHANGED <<generation, status, transition, order, polling, queueTail>>
    BY <1>0, <1>1 DEF PrepareGraph, R!PrepareGraph, queueVars
  <2>2. ASSUME NEW d \in Client, d # c PROVE Equipped(d)'
    <3>1. Equipped(d)
      BY DEF IInv
    <3> QED BY <2>1, <2>2, <3>1 DEF Equipped
  <2>3. Equipped(c)'
    BY <1>0, <2>1 DEF Equipped
  <2> QED BY <2>1, <2>2, <2>3 DEF IInv, Interval
<1>2. CASE DropGraph(c)
  <2>1. /\ caller' = caller /\ caller[c].pc = "idle"
        /\ \A d \in Client : d # c => graph'[d] = graph[d]
        /\ UNCHANGED <<generation, status, transition, order, polling, queueTail>>
    BY <1>0, <1>2 DEF DropGraph, R!DropGraph, At, queueVars
  <2> QED BY <2>1, MovesOutside DEF Inside
<1>3. CASE ReservePrepared(c)
  <2>1. /\ caller[c].pc = "idle" /\ graph' = graph /\ graph[c] # NoGraph
        /\ UNCHANGED <<generation, status, transition, order, polling, queueTail>>
    BY <1>3 DEF ReservePrepared, At, retainedVars, queueVars
  <2>2. /\ caller'[c].pc = "reserved"
        /\ \A d \in Client : d # c => caller'[d] = caller[d]
    BY <1>0, <1>3, CallerStarts DEF ReservePrepared
  <2> QED BY <2>1, <2>2, MovesOutside DEF Inside
<1>4. CASE CommitPrepared(c)
  <2>1. /\ caller[c].pc = "reserved" /\ graph' = graph
        /\ UNCHANGED <<generation, status, transition, order, polling, queueTail>>
    BY <1>4 DEF CommitPrepared, At, retainedVars, queueVars
  <2>2. /\ caller'[c].pc = "prepared"
        /\ \A d \in Client : d # c => caller'[d] = caller[d]
    BY <1>0, <1>4, CallerGoes DEF CommitPrepared
  <2> QED BY <1>0, <2>1, <2>2, MovesOutside DEF Inside, Equipped
<1>5. CASE AbandonPreparation(c) \/ DropPrepared(c)
  <2>1. /\ caller[c].pc \in {"reserved", "prepared"} /\ graph' = graph
        /\ UNCHANGED <<generation, status, transition, order, polling, queueTail>>
    BY <1>5 DEF AbandonPreparation, DropPrepared, At, retainedVars, queueVars
  <2>2. /\ caller'[c].pc = "idle"
        /\ \A d \in Client : d # c => caller'[d] = caller[d]
    BY <1>0, <1>5, CallerRests DEF AbandonPreparation, DropPrepared
  <2> QED BY <2>1, <2>2, MovesOutside DEF Inside
<1>6. CASE BeginSubmit(c)
  <2>1. /\ caller[c].pc = "prepared" /\ generation # 0
        /\ order = "free" /\ order' = c
        /\ UNCHANGED <<generation, graph, status, transition, polling, queueTail>>
    BY <1>6 DEF BeginSubmit, At, Acquire, retainedVars, queueVars
  <2>2. /\ caller'[c].pc = "admitting"
        /\ \A d \in Client : d # c => caller'[d] = caller[d]
    BY <1>0, <1>6, CallerGoes DEF BeginSubmit
  <2>3. Interval'
    BY <2>1, <2>2, IdentityAssumption DEF IInv, Interval, Inside
  <2>4. Equipped(c)'
    BY <1>0, <2>1, <2>2 DEF Equipped, Owning
  <2>5. ASSUME NEW d \in Client, d # c PROVE Equipped(d)'
    <3>1. Equipped(d)
      BY DEF IInv
    <3> QED BY <2>1, <2>2, <2>5, <3>1 DEF Equipped
  <2> QED BY <2>3, <2>4, <2>5
<1>7. CASE Accept(c)
  <2>1. /\ caller[c].pc = "admitting" /\ nextSubmission \in SubmissionId
        /\ status' = [status EXCEPT ![nextSubmission] = "Accepted"]
    BY <1>7, Accepts
  <2>2. /\ UNCHANGED <<generation, graph, polling, order>>
        /\ caller' = [caller EXCEPT ![c] =
             [Idle EXCEPT !.pc = "encoding", !.submission = nextSubmission]]
    BY <1>7 DEF Accept, R!Reserve
  <2>3. /\ caller'[c].pc = "encoding" /\ caller'[c].submission = nextSubmission
        /\ \A d \in Client : d # c => caller'[d] = caller[d]
    BY <1>0, <2>1, <2>2, CallerSubmits
  <2>4. status'[nextSubmission] = "Accepted"
    BY <1>0, <2>1
  <2>5. Equipped(c)'
    BY <2>1, <2>3, <2>4 DEF Equipped, Owning
  <2> QED BY <2>1, <2>2, <2>3, <2>5, MovesInside DEF Inside
<1>8. CASE RejectAcceptance(c)
  <2>1. /\ caller[c].pc = "admitting" /\ order' = "free"
        /\ UNCHANGED <<generation, graph, polling>>
    BY <1>8 DEF RejectAcceptance, At, retainedVars
  <2>2. /\ caller'[c].pc = "prepared"
        /\ \A d \in Client : d # c => caller'[d] = caller[d]
    BY <1>0, <1>8, CallerGoes DEF RejectAcceptance
  <2>3. Equipped(c)'
    BY <1>0, <2>1, <2>2 DEF Equipped, Owning
  <2> QED BY <2>1, <2>2, <2>3, MovesInside DEF Inside
<1>9. CASE Encode(c)
  <2>1. /\ caller[c].pc = "encoding"
        /\ UNCHANGED <<generation, graph, status, transition, polling, order>>
    BY <1>9 DEF Encode, At, retainedVars
  <2>2. /\ caller'[c].pc = "queueing" /\ caller'[c].segment = 1
        /\ caller'[c].submission = caller[c].submission
        /\ \A d \in Client : d # c => caller'[d] = caller[d]
    BY <1>0, <1>9, CallerAdvances DEF Encode
  <2>3. 1 \in DOMAIN transition[caller[c].submission].work.segments
    <3>1. transition[caller[c].submission].work \in Work
      BY <1>0, <2>1 DEF IInv, Planned, Equipped, Owning
    <3> QED BY <3>1, PlanSegments
  <2>4. Equipped(c)'
    BY <1>0, <2>1, <2>2, <2>3 DEF Equipped, Owning
  <2> QED BY <2>1, <2>2, <2>4, MovesInside DEF Inside
<1>10. CASE EncodeFails(c) \/ SegmentFails(c)
  <2>1. /\ caller[c].pc \in Owning /\ caller[c].submission \in SubmissionId
        /\ FailOwn(c)
    BY <1>10, EndingSteps
  <2>2. /\ order' = "free" /\ caller' = [caller EXCEPT ![c] = Idle]
        /\ UNCHANGED <<slot, polling>> /\ FailSubmission(caller[c].submission)
    BY <2>1 DEF FailOwn, ticketVars
  <2>3. UNCHANGED <<generation, graph>>
    BY <2>1, <2>2, FailEnds DEF Ended, IInv
  <2>4. /\ caller'[c].pc = "idle"
        /\ \A d \in Client : d # c => caller'[d] = caller[d]
    BY <1>0, <2>2, CallerRests
  <2>5. Equipped(c)'
    BY <2>4 DEF Equipped, Owning
  <2> QED BY <2>1, <2>2, <2>3, <2>4, <2>5, MovesInside DEF Inside, Owning
<1>11. CASE QueueSegment(c)
  <2>1. /\ caller[c].pc = "queueing" /\ queueTail' = caller[c].submission
        /\ UNCHANGED <<generation, graph, status, transition, polling, order>>
    BY <1>11 DEF QueueSegment, At, retainedVars
  <2>2. /\ caller'[c].pc = "queued" /\ caller'[c].segment = caller[c].segment
        /\ caller'[c].submission = caller[c].submission
        /\ \A d \in Client : d # c => caller'[d] = caller[d]
    BY <1>0, <1>11, CallerGoes DEF QueueSegment
  <2>3. Equipped(c)'
    BY <1>0, <2>1, <2>2 DEF Equipped, Owning
  <2> QED BY <2>1, <2>2, <2>3, MovesInside DEF Inside
<1>12. CASE MarkSegment(c)
  <2>1. /\ caller[c].pc = "queued" /\ queueTail' = queueTail
        /\ UNCHANGED <<generation, graph, status, transition, polling, order>>
    BY <1>12 DEF MarkSegment, At, retainedVars, queueVars, R!Mark
  <2>2. /\ caller'[c].pc = "marked" /\ caller'[c].segment = caller[c].segment
        /\ caller'[c].submission = caller[c].submission
        /\ \A d \in Client : d # c => caller'[d] = caller[d]
    BY <1>0, <1>12, CallerGoes DEF MarkSegment
  <2>3. Equipped(c)'
    BY <1>0, <2>1, <2>2 DEF Equipped, Owning
  <2> QED BY <2>1, <2>2, <2>3, MovesInside DEF Inside
<1>13. CASE NextSegment(c)
  <2> DEFINE s == caller[c].submission
             n == caller[c].segment
  <2>1. /\ caller[c].pc = "marked" /\ ~LastSegment(c) /\ queueTail' = queueTail
        /\ UNCHANGED <<generation, graph, status, transition, polling, order>>
        /\ caller' = [caller EXCEPT ![c].pc = "queueing", ![c].segment = n + 1]
    BY <1>0, <1>13 DEF NextSegment, At, retainedVars, queueVars
  <2>2. n \in Nat
    BY <1>0, CallerFields
  <2>8. PICK m \in Nat : m = n + 1
    BY <2>2
  <2>9. caller' = [caller EXCEPT ![c].pc = "queueing", ![c].segment = m]
    BY <2>1, <2>8
  <2>3. /\ caller'[c].pc = "queueing" /\ caller'[c].segment = n + 1
        /\ caller'[c].submission = s
        /\ \A d \in Client : d # c => caller'[d] = caller[d]
    BY <1>0, <2>8, <2>9, CallerAdvances
  <2>4. /\ s \in SubmissionId /\ status[s] = "Accepted"
        /\ n \in DOMAIN transition[s].work.segments
    BY <1>0, <2>1 DEF Equipped, Owning
  <2>5. transition[s].work \in Work
    BY <2>4 DEF IInv, Planned
  <2>6. n + 1 \in DOMAIN transition[s].work.segments
    <3>1. PICK k \in Nat : /\ DOMAIN transition[s].work.segments = 1 .. k
                           /\ Len(transition[s].work.segments) = k
      BY <2>5, PlanSegments
    <3> QED BY <2>1, <2>2, <2>4, <3>1 DEF LastSegment
  <2>7. Equipped(c)'
    BY <2>1, <2>3, <2>4, <2>6 DEF Equipped, Owning
  <2> QED BY <2>1, <2>3, <2>7, MovesInside DEF Inside
<1>14. CASE EndSubmit(c)
  <2>1. /\ caller[c].pc = "marked" /\ order' = "free"
        /\ UNCHANGED <<generation, graph, polling>>
    BY <1>14 DEF EndSubmit, At, retainedVars
  <2>2. /\ caller'[c].pc = "idle"
        /\ \A d \in Client : d # c => caller'[d] = caller[d]
    BY <1>0, <1>14, CallerRests DEF EndSubmit
  <2>3. Equipped(c)'
    BY <2>2 DEF Equipped, Owning
  <2> QED BY <2>1, <2>2, <2>3, MovesInside DEF Inside
<1> QED BY <1>1, <1>2, <1>3, <1>4, <1>5, <1>6, <1>7, <1>8, <1>9, <1>10, <1>11,
           <1>12, <1>13, <1>14 DEF CallerStep, SubmitStep

(* So does every other step                                                  *)
LEMMA IntervalStep ==
  ASSUME IInv, Next
  PROVE  Interval' /\ \A d \in Client : Equipped(d)'
<1>1. ASSUME NEW c \in Client, CallerStep(c)
      PROVE  Interval' /\ \A d \in Client : Equipped(d)'
  BY <1>1, CallerKeepsInterval
<1>2. CASE BeginProgress
  <2>1. /\ UNCHANGED <<generation, graph, status, transition, caller, queueTail>>
        /\ order = "free" /\ order' = "progress" /\ polling' = "draining"
        /\ generation # 0
    BY <1>2 DEF BeginProgress, Acquire, retainedVars, queueVars
  <2>2. Interval'
    BY <2>1, IdentityAssumption DEF IInv, Interval
  <2> QED BY <2>1, <2>2 DEF IInv, Equipped
<1>3. CASE Poll \/ BeginSweep \/ EndProgress
  <2>1. /\ UNCHANGED <<generation, graph, status, transition, caller, queueTail>>
        /\ polling # "idle"
        /\ \/ order' = order /\ polling' # "idle"
           \/ order' = "free" /\ polling' = "idle"
    BY <1>3 DEF Poll, BeginSweep, EndProgress, retainedVars, queueVars
  <2>2. Interval'
    BY <2>1, ProgressAlone, IdentityAssumption DEF IInv, Interval
  <2> QED BY <2>1, <2>2 DEF IInv, Equipped
<1>4. CASE DrainEvent \/ Sweep
  <2>1. PICK s \in SubmissionId : Ending(s)
    BY <1>4, EndingSteps
  <2>2. UNCHANGED <<slot, caller, order, polling, queueTail>> /\ polling # "idle"
    BY <1>4 DEF DrainEvent, Sweep, ticketVars, queueVars
  <2>3. UNCHANGED <<generation, graph>>
    BY <2>1, <2>2, Ends DEF Ended, IInv
  <2> QED BY <2>2, <2>3, ProgressAlone DEF IInv, Interval, Equipped, Inside, Owning
<1>5. CASE DeviceCalls \/ DeviceFault \/ (\E r \in Evictable : Evict(r)) \/ BeginShutdown
  <2>1. UNCHANGED <<retainedVars, caller, order, polling, queueTail>>
    BY <1>5 DEF DeviceCalls, FireCallback, DeviceFault, Evict, BeginShutdown, queueVars
  <2> QED BY <2>1 DEF IInv, Interval, Equipped, retainedVars
<1>6. CASE ReplaceGeneration \/ DropContext
  <2>1. /\ Unborrowed /\ UNCHANGED <<graph, caller, order, polling>>
    BY <1>6 DEF ReplaceGeneration, DropContext, FreshOwner, R!InstallGeneration,
                R!DropOwner
  <2>2. /\ polling = "idle"
        /\ \A d \in Client : caller[d].pc \in {"idle", "prepared"}
    BY <2>1 DEF Unborrowed
  <2>3. order = "free"
    BY <2>2 DEF IInv, Interval, Inside
  <2> QED BY <2>1, <2>2, <2>3 DEF IInv, Interval, Equipped, Inside, Owning
<1> QED BY <1>1, <1>2, <1>3, <1>4, <1>5, <1>6 DEF Next, ProgressStep

-----------------------------------------------------------------------------
(* Plans, records and shutdown *)

(* Steps that touch no handle, no record and no plan                         *)
Quiet ==
  /\ UNCHANGED <<generation, status, inFlight, seeds, readbacks, pendingReadbacks>>
  /\ \A s \in SubmissionId : transition'[s] = transition[s]

(* A quiet step keeps plans and records in agreement                         *)
LEMMA QuietKeepsBooks ==
  ASSUME IInv, Quiet,
         \A c \in Client : graph'[c] # NoGraph => graph'[c].work \in Work,
         \/ nextSubmission' = nextSubmission
         \/ nextSubmission' = 0
         \/ nextSubmission # 0 /\ nextSubmission' = nextSubmission + 1
  PROVE  Planned' /\ Recorded'
<1>1. Planned'
  BY DEF IInv, Planned, Quiet, R!Materialized
<1>2. RecordsMatchHandles' /\ Waiting' = Waiting
  BY DEF IInv, Recorded, RecordsMatchHandles, accepted, Outstanding, Waiting, Quiet
<1>3. nextSubmission \in 0 .. MaxSubmission
  BY DEF IInv, Shaped
<1>4. ASSUME NEW s \in SubmissionId, status'[s] # "None", generation' # 0
      PROVE  nextSubmission' = 0 \/ s < nextSubmission'
  BY <1>3, <1>4 DEF IInv, Recorded, Quiet, SubmissionId
<1>5. ASSUME NEW s \in SubmissionId, status'[s] = "None"
      PROVE  \A b \in ReadbackId : readbacks'[s][b] = "None"
  BY <1>5 DEF IInv, Recorded, Quiet
<1> QED BY <1>1, <1>2, <1>4, <1>5 DEF IInv, Recorded, Quiet

(* So does a terminal effect                                                 *)
LEMMA EndingKeepsBooks ==
  ASSUME IInv, NEW s \in SubmissionId, Ending(s),
         UNCHANGED <<slot, nextSubmission>>
  PROVE  Planned' /\ Recorded' /\ Draining'
<1>1. Ended(s) /\ RecordsMatchHandles' /\ Draining'
  BY Ends DEF IInv
<1>2. Planned'
  BY <1>1 DEF IInv, Planned, Ended, R!Materialized
<1>3. ASSUME NEW t \in SubmissionId, status'[t] # "None", generation' # 0
      PROVE  nextSubmission' = 0 \/ t < nextSubmission'
  BY <1>1, <1>3 DEF IInv, Recorded, Ended
<1>4. ASSUME NEW t \in SubmissionId, status'[t] = "None"
      PROVE  \A b \in ReadbackId : readbacks'[t][b] = "None"
  BY <1>1, <1>4 DEF IInv, Recorded, Ended
<1> QED BY <1>1, <1>2, <1>3, <1>4 DEF Recorded, Ended

(* Every step keeps plans, records and shutdown in agreement                 *)
LEMMA BooksStep ==
  ASSUME IInv, Next
  PROVE  Planned' /\ Recorded' /\ Draining'
<1>0. /\ Shaped /\ Planned /\ Recorded /\ Draining
      /\ DOMAIN graph = Client
  BY DEF IInv, Shaped
<1>1. ASSUME NEW c \in Client, Accept(c) PROVE Planned' /\ Recorded' /\ Draining'
  <2> DEFINE s == nextSubmission
             g == graph[c]
  <2>1. /\ s \in SubmissionId /\ status[s] = "None"
        /\ generation # 0 /\ lifecycle = "Running"
        /\ g.work \in Work
        /\ status' = [status EXCEPT ![s] = "Accepted"]
        /\ transition' = [transition EXCEPT ![s] = g]
        /\ seeds' = [seeds EXCEPT ![s] = EffectiveSeeds(g)]
        /\ readbacks' = [readbacks EXCEPT ![s] = [b \in ReadbackId |->
             IF b \in PlanReadbacks(g.work) THEN "Pending" ELSE "None"]]
        /\ inFlight' = inFlight \cup {s}
        /\ pendingReadbacks' = Cardinality(Waiting')
        /\ nextSubmission' = 0 \/ nextSubmission' = s + 1
    BY <1>1, Accepts
  <2>2. UNCHANGED <<generation, graph, lifecycle>>
    BY <1>1 DEF Accept, R!Reserve
  <2>3. /\ status'[s] = "Accepted" /\ transition'[s] = g
        /\ seeds'[s] = EffectiveSeeds(g)
        /\ \A t \in SubmissionId : t # s =>
             /\ status'[t] = status[t] /\ transition'[t] = transition[t]
             /\ seeds'[t] = seeds[t] /\ readbacks'[t] = readbacks[t]
    BY <1>0, <2>1 DEF Shaped
  <2>4. Planned'
    <3>1. EffectiveSeeds(g) \subseteq R!Materialized(g)
      BY DEF EffectiveSeeds
    <3>2. ASSUME NEW t \in SubmissionId, status'[t] = "Accepted"
          PROVE  /\ transition'[t].work \in Work
                 /\ seeds'[t] \subseteq R!Materialized(transition'[t])
      <4>1. CASE t = s
        BY <2>1, <2>3, <3>1, <4>1
      <4>2. CASE t # s
        BY <1>0, <2>3, <3>2, <4>2 DEF Planned
      <4> QED BY <4>1, <4>2
    <3>3. \A t \in SubmissionId : status'[t] = "Accepted" =>
            /\ transition'[t].work \in Work
            /\ seeds'[t] \subseteq R!Materialized(transition[t])'
      BY <3>2 DEF R!Materialized
    <3> QED BY <1>0, <2>2, <3>3 DEF Planned, R!Materialized
  <2>5. RecordsMatchHandles'
    <3>1. ASSUME NEW t \in SubmissionId, t # s
          PROVE  t \in inFlight' <=> status'[t] = "Accepted" \/ Outstanding(t)' # {}
      BY <1>0, <2>1, <2>3, <3>1
         DEF Recorded, RecordsMatchHandles, accepted, Outstanding
    <3>2. s \in inFlight'
      BY <2>1
    <3>3. inFlight' \subseteq SubmissionId
      BY <1>0, <2>1 DEF Shaped
    <3> QED BY <2>3, <3>1, <3>2, <3>3 DEF RecordsMatchHandles, accepted
  <2>6. ASSUME NEW t \in SubmissionId, status'[t] = "None"
        PROVE  \A b \in ReadbackId : readbacks'[t][b] = "None"
    BY <1>0, <2>3, <2>6 DEF Recorded
  <2>7. ASSUME NEW t \in SubmissionId, status'[t] # "None"
        PROVE  nextSubmission' = 0 \/ t < nextSubmission'
    BY <1>0, <2>1, <2>3, <2>7 DEF Recorded, SubmissionId
  <2>8. Draining'
    BY <2>1, <2>2 DEF Draining
  <2> QED BY <2>1, <2>4, <2>5, <2>6, <2>7, <2>8 DEF Recorded
<1>2. ASSUME NEW c \in Client, EncodeFails(c) \/ SegmentFails(c)
      PROVE  Planned' /\ Recorded' /\ Draining'
  <2>1. caller[c].submission \in SubmissionId /\ FailOwn(c)
    BY <1>2, EndingSteps
  <2>2. Ending(caller[c].submission) /\ UNCHANGED <<slot, nextSubmission>>
    BY <2>1 DEF FailOwn, Ending, ticketVars
  <2> QED BY <2>1, <2>2, EndingKeepsBooks
<1>3. CASE DrainEvent \/ Sweep
  <2>1. PICK s \in SubmissionId : Ending(s)
    BY <1>3, EndingSteps
  <2>2. UNCHANGED <<slot, nextSubmission>>
    BY <1>3 DEF DrainEvent, Sweep, ticketVars
  <2> QED BY <2>1, <2>2, EndingKeepsBooks
<1>4. ASSUME NEW c \in Client, RejectAcceptance(c)
      PROVE  Planned' /\ Recorded' /\ Draining'
  <2>1. /\ Quiet /\ graph' = graph /\ UNCHANGED <<slot, lifecycle>>
    BY <1>4 DEF RejectAcceptance, Quiet, retainedVars, recordVars, ticketVars
  <2>2. nextSubmission \in 0 .. MaxSubmission
    BY <1>0 DEF Shaped
  <2>3. \/ nextSubmission' = nextSubmission
        \/ nextSubmission' = 0
        \/ nextSubmission # 0 /\ nextSubmission' = nextSubmission + 1
    BY <1>4, <2>2 DEF RejectAcceptance, Admitted, Successor
  <2> QED BY <1>0, <2>1, <2>3, QuietKeepsBooks DEF Planned, Draining, Quiet
<1>5. ASSUME NEW c \in Client,
             \/ \E w \in Work, known \in SUBSET Retained : PrepareGraph(c, w, known)
             \/ DropGraph(c)
      PROVE  Planned' /\ Recorded' /\ Draining'
  <2>1. /\ UNCHANGED <<generation, status, transition, recordVars, nextSubmission,
                       slot, lifecycle>>
    BY <1>5 DEF PrepareGraph, DropGraph, R!PrepareGraph, R!DropGraph, ticketVars
  <2>2. \A d \in Client : graph'[d] # NoGraph => graph'[d].work \in Work
    <3>1. ASSUME NEW w \in Work, NEW known \in SUBSET Retained,
                 PrepareGraph(c, w, known)
          PROVE  \A d \in Client : graph'[d] # NoGraph => graph'[d].work \in Work
      <4>1. graph' = [graph EXCEPT ![c] = R!Derive(w, known)]
        BY <3>1 DEF PrepareGraph, R!PrepareGraph
      <4>2. R!Derive(w, known).work = w
        BY DEF R!Derive
      <4> QED BY <1>0, <4>1, <4>2 DEF Planned
    <3>2. CASE DropGraph(c)
      BY <1>0, <3>2 DEF DropGraph, R!DropGraph, Planned
    <3> QED BY <1>5, <3>1, <3>2
  <2> QED BY <1>0, <2>1, <2>2, QuietKeepsBooks DEF Draining, Quiet, recordVars
<1>6. ASSUME NEW c \in Client,
             \/ ReservePrepared(c) \/ CommitPrepared(c) \/ AbandonPreparation(c)
             \/ DropPrepared(c)
      PROVE  Planned' /\ Recorded' /\ Draining'
  <2>1. /\ UNCHANGED <<retainedVars, recordVars, nextSubmission, lifecycle>>
    BY <1>6 DEF ReservePrepared, CommitPrepared, AbandonPreparation, DropPrepared
  <2>2. Quiet /\ graph' = graph /\ UNCHANGED <<nextSubmission, lifecycle, inFlight>>
    BY <2>1 DEF Quiet, retainedVars, recordVars
  <2>3. lifecycle # "Running" => \A t \in TicketId : slot'[t] = "absent"
    <3>1. CASE ReservePrepared(c)
      BY <3>1 DEF ReservePrepared
    <3>2. CASE CommitPrepared(c)
      BY <3>2 DEF CommitPrepared
    <3>3. CASE AbandonPreparation(c) \/ DropPrepared(c)
      BY <1>0, <3>3 DEF AbandonPreparation, DropPrepared, Draining, Shaped
    <3> QED BY <1>6, <3>1, <3>2, <3>3
  <2> QED BY <1>0, <2>2, <2>3, QuietKeepsBooks DEF Planned, Draining
<1>7. ASSUME NEW c \in Client,
             \/ BeginSubmit(c) \/ Encode(c) \/ QueueSegment(c) \/ MarkSegment(c)
             \/ NextSegment(c) \/ EndSubmit(c)
      PROVE  Planned' /\ Recorded' /\ Draining'
  <2>1. UNCHANGED <<generation, status, transition, graph, recordVars,
                    nextSubmission, slot, lifecycle>>
    BY <1>7 DEF BeginSubmit, Encode, QueueSegment, MarkSegment, NextSegment,
                EndSubmit, retainedVars, ticketVars, R!Mark
  <2>2. Quiet /\ UNCHANGED <<graph, nextSubmission, lifecycle, inFlight, slot>>
    BY <2>1 DEF Quiet, recordVars
  <2> QED BY <1>0, <2>2, QuietKeepsBooks DEF Planned, Draining
<1>8. CASE \/ BeginProgress \/ Poll \/ BeginSweep \/ EndProgress
           \/ DeviceCalls \/ DeviceFault \/ \E r \in Evictable : Evict(r)
  <2>1. UNCHANGED <<retainedVars, recordVars, nextSubmission, ticketVars, lifecycle>>
    BY <1>8 DEF BeginProgress, Poll, BeginSweep, EndProgress, DeviceCalls,
                FireCallback, DeviceFault, Evict
  <2>2. Quiet /\ UNCHANGED <<graph, nextSubmission, lifecycle, inFlight, slot>>
    BY <2>1 DEF Quiet, retainedVars, recordVars, ticketVars
  <2> QED BY <1>0, <2>2, QuietKeepsBooks DEF Planned, Draining
<1>9. CASE BeginShutdown
  <2>1. Quiet /\ UNCHANGED <<graph, nextSubmission, inFlight>>
    BY <1>9 DEF BeginShutdown, Quiet, retainedVars, recordVars
  <2>2. /\ slot' = IF lifecycle = "Running"
                   THEN [t \in TicketId |-> "absent"] ELSE slot
        /\ lifecycle' = Advance(IF lifecycle = "Running" THEN "ShuttingDown"
                                ELSE lifecycle, slot', inFlight)
    BY <1>9 DEF BeginShutdown
  <2>3. \A t \in TicketId : slot'[t] = "absent"
    BY <1>0, <2>2 DEF Draining
  <2>4. Draining'
    BY <1>0, <2>1, <2>2, <2>3 DEF Draining, Advance, Shaped
  <2> QED BY <1>0, <2>1, <2>4, QuietKeepsBooks DEF Planned
<1>10. CASE ReplaceGeneration \/ DropContext
  <2>1. /\ graph' = graph /\ inFlight' = {} /\ lifecycle' = "Running"
        /\ pendingReadbacks' = 0
    BY <1>10 DEF ReplaceGeneration, DropContext, R!InstallGeneration,
                 R!DropOwner, FreshOwner
  <2>2. /\ \A s \in SubmissionId :
             /\ status'[s] # "Accepted"
             /\ \A b \in ReadbackId : readbacks'[s][b] # "Pending"
             /\ status'[s] = "None" =>
                  \A b \in ReadbackId : readbacks'[s][b] = "None"
        /\ generation' = 0 \/ \A s \in SubmissionId : status'[s] = "None"
    <3>1. CASE ReplaceGeneration
      BY <3>1 DEF ReplaceGeneration, R!InstallGeneration, R!SubmissionId, SubmissionId
    <3>2. CASE DropContext
      <4>1. /\ generation' = 0
            /\ \A s \in SubmissionId : status'[s] =
                 IF status[s] = "Accepted" THEN "Failed" ELSE status[s]
            /\ \A s \in SubmissionId, b \in ReadbackId : readbacks'[s][b] =
                 IF s \in inFlight /\ readbacks[s][b] = "Pending" THEN "Failed"
                 ELSE readbacks[s][b]
        BY <3>2 DEF DropContext, R!DropOwner, R!SubmissionId, SubmissionId
      <4>2. ASSUME NEW s \in SubmissionId, NEW b \in ReadbackId,
                   readbacks[s][b] = "Pending"
            PROVE  s \in inFlight
        BY <1>0, <4>2 DEF Recorded, RecordsMatchHandles, Outstanding
      <4> QED BY <1>0, <4>1, <4>2 DEF Recorded
    <3> QED BY <1>10, <3>1, <3>2
  <2>3. Waiting' = {}
    BY <2>2 DEF Waiting
  <2>4. pendingReadbacks' = Cardinality(Waiting')
    BY <2>1, <2>3, FS_EmptySet
  <2>5. RecordsMatchHandles'
    BY <2>1, <2>2 DEF RecordsMatchHandles, accepted, Outstanding
  <2>6. Planned'
    BY <1>0, <2>1, <2>2 DEF Planned
  <2> QED BY <2>1, <2>2, <2>4, <2>5, <2>6 DEF Recorded, Draining
<1> QED BY <1>1, <1>2, <1>3, <1>4, <1>5, <1>6, <1>7, <1>8, <1>9, <1>10
        DEF Next, CallerStep, SubmitStep, ProgressStep

-----------------------------------------------------------------------------
(* The invariant *)

(* The invariant holds of a fresh owner                                      *)
LEMMA InitIInv == Init => IInv
<1> SUFFICES ASSUME Init PROVE IInv
  OBVIOUS
<1>1. Shaped
  <2>1. 1 \in 0 .. MaxTicket /\ 1 \in 0 .. MaxSubmission /\ 1 \in 0 .. MaxGeneration
    BY IdentityAssumption, PolicyAssumption
  <2>2. /\ caller = [c \in Client |-> Idle] /\ events = <<>> /\ queueTail = 0
    BY DEF Init
  <2>3. caller \in [Client -> CallerState] /\ events \in Seq(Event)
        /\ queueTail \in 0 .. MaxSubmission
    BY <2>2, CallerFields, IdentityAssumption
  <2> QED BY <2>1, <2>3 DEF Init, R!Init, Shaped, Statuses, Answers,
                            R!SubmissionId, SubmissionId
<1>2. /\ order = "free" /\ polling = "idle" /\ lifecycle = "Running"
      /\ \A c \in Client : caller[c].pc = "idle" /\ graph[c] = NoGraph
      /\ \A s \in SubmissionId : /\ status[s] = "None"
                                 /\ \A b \in ReadbackId : readbacks[s][b] = "None"
      /\ inFlight = {} /\ pendingReadbacks = 0
  BY DEF Init, R!Init, Idle, R!SubmissionId, SubmissionId
<1>3. Interval /\ Planned /\ Draining /\ \A c \in Client : Equipped(c)
  BY <1>2, IdentityAssumption
     DEF Interval, Planned, Draining, Equipped, Inside, Owning
<1>4. Waiting = {} /\ Cardinality({}) = 0
  BY <1>2, FS_EmptySet DEF Waiting
<1>5. Recorded
  BY <1>2, <1>4 DEF Recorded, RecordsMatchHandles, accepted, Outstanding
<1> QED BY <1>1, <1>3, <1>5 DEF IInv

(* The invariant is inductive                                                *)
LEMMA NextIInv == IInv /\ [Next]_vars => IInv'
<1> SUFFICES ASSUME IInv, [Next]_vars PROVE IInv'
  OBVIOUS
<1>1. CASE Next
  BY <1>1, ShapedStep, IntervalStep, BooksStep DEF IInv
<1>2. CASE UNCHANGED vars
  <2>1. UNCHANGED <<generation, graph, status, transition, lifecycle, slot,
                    nextPrepared, nextSubmission, order, caller, polling,
                    inFlight, seeds, readbacks, pendingReadbacks, callbacks,
                    queueTail, events>>
    BY <1>2 DEF vars, retainedVars, ticketVars, recordVars, queueVars
  <2>2. Shaped' /\ Interval' /\ Draining' /\ \A c \in Client : Equipped(c)'
    BY <2>1 DEF IInv, Shaped, Interval, Draining, Equipped
  <2>3. Quiet
    BY <2>1 DEF Quiet
  <2> QED BY <2>1, <2>2, <2>3, QuietKeepsBooks DEF IInv, Planned
<1> QED BY <1>1, <1>2

(* The types, the interval and who is in it, what a caller has in hand, plans, *)
(* records and shutdown agree in every state the owner of execution.rs can     *)
(* reach: the strengthening the other theorems rest on.                       *)
THEOREM Invariance == Spec => []IInv
BY InitIInv, NextIInv, PTL DEF Spec

(* Records live exactly as long as some handle can still change, whatever     *)
(* completion, mapping, failure or sweep ends which part of a submission:     *)
(* execution.rs removes a record under the same lock as its last open status. *)
THEOREM RecordsFollowHandles == Spec => []RecordsMatchHandles
<1>1. IInv => RecordsMatchHandles
  BY DEF IInv, Recorded
<1> QED BY <1>1, Invariance, PTL

-----------------------------------------------------------------------------
(* The retained-state authority *)

(* A failure is a failure of the authority, or nothing to it                 *)
LEMMA AuthorityFails ==
  ASSUME NEW s \in SubmissionId, FailSubmission(s)
  PROVE  R!Next \/ UNCHANGED R!vars
<1>1. CASE status[s] = "Accepted"
  BY <1>1 DEF FailSubmission, R!FailAfterAcceptance, R!Next, R!SubmissionId,
              SubmissionId
<1>2. CASE status[s] # "Accepted"
  BY <1>2 DEF FailSubmission, retainedVars, R!vars
<1> QED BY <1>1, <1>2

(* A completion is a completion of the authority, or nothing to it           *)
LEMMA AuthorityCompletes ==
  ASSUME NEW s \in SubmissionId, CompleteSubmission(s)
  PROVE  R!Next \/ UNCHANGED R!vars
<1>1. CASE s \in inFlight /\ status[s] = "Accepted"
  BY <1>1 DEF CompleteSubmission, R!Complete, R!Next, R!SubmissionId, SubmissionId
<1>2. CASE ~(s \in inFlight /\ status[s] = "Accepted")
  BY <1>2 DEF CompleteSubmission, retainedVars, R!vars
<1> QED BY <1>1, <1>2

(* What a segment reports are writes its graph may queue                     *)
LEMMA AuthorityMarks ==
  ASSUME IInv, NEW c \in Client, MarkSegment(c)
  PROVE  R!Next \/ UNCHANGED R!vars
<1> DEFINE s == caller[c].submission
           i == caller[c].segment
           written == ReportedWrites(s, i)
<1>1. /\ s \in SubmissionId /\ status[s] = "Accepted"
      /\ i \in DOMAIN transition[s].work.segments
      /\ transition[s].work \in Work
      /\ seeds[s] \subseteq R!Materialized(transition[s])
  BY DEF MarkSegment, At, IInv, Equipped, Planned, Owning
<1>2. IF written # {} /\ s \in inFlight /\ status[s] = "Accepted"
      THEN R!Mark(s, written) ELSE UNCHANGED retainedVars
  BY DEF MarkSegment
<1>3. CASE R!Mark(s, written) /\ written # {}
  <2>1. /\ transition[s].work.segments[i].writes \subseteq transition[s].work.explicit
        /\ transition[s].work.explicit \subseteq transition[s].work.uses
    BY <1>1, PlanWrites, IdentityAssumption
  <2>2. written \subseteq R!QueuedWrites(transition[s])
    BY <1>1, <2>1 DEF ReportedWrites, SegmentWrites, R!QueuedWrites,
                      R!Participants, R!Materialized
  <2>3. written \in SUBSET Retained
    BY DEF ReportedWrites
  <2> HIDE DEF written
  <2>4. R!MarkMayExecute(s, written)
    BY <1>1, <1>3, <2>2 DEF R!MarkMayExecute
  <2> QED BY <1>1, <2>3, <2>4 DEF R!Next, R!SubmissionId, SubmissionId
<1>4. CASE UNCHANGED retainedVars
  BY <1>4 DEF retainedVars, R!vars
<1> QED BY <1>2, <1>3, <1>4

(* Every step is one of the authority or leaves it alone                     *)
LEMMA AuthorityStep == IInv /\ [Next]_vars => [R!Next]_(R!vars)
<1> SUFFICES ASSUME IInv, [Next]_vars PROVE R!Next \/ UNCHANGED R!vars
  OBVIOUS
<1>1. ASSUME NEW c \in Client,
             \/ \E w \in Work, known \in SUBSET Retained : PrepareGraph(c, w, known)
             \/ DropGraph(c)
      PROVE  R!Next
  BY <1>1 DEF PrepareGraph, DropGraph, R!Next
<1>2. ASSUME NEW c \in Client, Accept(c) PROVE R!Next
  <2>1. /\ nextSubmission \in SubmissionId /\ nextSubmission # 0
        /\ generation # 0 /\ graph[c] # NoGraph
    BY <1>2, Accepts DEF Accept, Admitted
  <2>2. \A t \in R!SubmissionId : status[t] # "None" => t < nextSubmission
    BY <2>1 DEF IInv, Recorded, R!SubmissionId, SubmissionId
  <2>3. R!Accept(nextSubmission, c)
    BY <1>2, <2>1, <2>2 DEF Accept, R!Accept
  <2> QED BY <2>1, <2>3 DEF R!Next, R!SubmissionId, SubmissionId
<1>3. ASSUME NEW c \in Client, EncodeFails(c) \/ SegmentFails(c)
      PROVE  R!Next \/ UNCHANGED R!vars
  BY <1>3, EndingSteps, AuthorityFails DEF FailOwn
<1>4. ASSUME NEW c \in Client, MarkSegment(c)
      PROVE  R!Next \/ UNCHANGED R!vars
  BY <1>4, AuthorityMarks
<1>5. CASE DrainEvent \/ Sweep
  <2>1. PICK s \in SubmissionId : Ending(s)
    BY <1>5, EndingSteps
  <2>2. ASSUME NEW b \in ReadbackId, NEW mapped \in BOOLEAN,
               CompleteReadback(s, b, mapped)
        PROVE  UNCHANGED R!vars
    BY <2>2 DEF CompleteReadback, retainedVars, R!vars
  <2> QED BY <2>1, <2>2, AuthorityFails, AuthorityCompletes DEF Ending
<1>6. CASE ReplaceGeneration
  <2>1. R!open = {}
    BY <1>6 DEF ReplaceGeneration, Quiescent, R!open, R!SubmissionId, SubmissionId,
                IInv, Recorded, RecordsMatchHandles, accepted
  <2> QED BY <1>6, <2>1 DEF ReplaceGeneration, R!ReplaceGeneration, R!Next
<1>7. CASE DropContext
  BY <1>7 DEF DropContext, R!Next
<1>8. ASSUME NEW c \in Client,
             \/ ReservePrepared(c) \/ CommitPrepared(c) \/ AbandonPreparation(c)
             \/ DropPrepared(c) \/ BeginSubmit(c) \/ RejectAcceptance(c)
             \/ Encode(c) \/ QueueSegment(c) \/ NextSegment(c) \/ EndSubmit(c)
      PROVE  UNCHANGED R!vars
  BY <1>8 DEF ReservePrepared, CommitPrepared, AbandonPreparation, DropPrepared,
              BeginSubmit, RejectAcceptance, Encode, QueueSegment, NextSegment,
              EndSubmit, retainedVars, R!vars
<1>9. CASE \/ BeginProgress \/ Poll \/ BeginSweep \/ EndProgress
           \/ DeviceCalls \/ DeviceFault \/ (\E r \in Evictable : Evict(r))
           \/ BeginShutdown \/ UNCHANGED vars
  BY <1>9 DEF BeginProgress, Poll, BeginSweep, EndProgress, DeviceCalls,
              FireCallback, DeviceFault, Evict, BeginShutdown, vars, retainedVars,
              R!vars
<1> QED BY <1>1, <1>2, <1>3, <1>4, <1>5, <1>6, <1>7, <1>8, <1>9
        DEF Next, CallerStep, SubmitStep, ProgressStep

(* The execution owner drives retained_continuity.rs only as its rules allow:  *)
(* each acceptance takes the next identity, only writes a plan may queue are   *)
(* marked, each accepted submission ends once, and a generation is replaced    *)
(* when none is accepted.                                                     *)
THEOREM AuthorityRefined == Spec => RetainedAuthority
<1>1. Init => R!Init
  BY DEF Init
<1>2. IInv /\ [Next]_vars => [R!Next]_(R!vars)
  BY AuthorityStep
<1> QED BY <1>1, <1>2, Invariance, PTL DEF Spec, RetainedAuthority, R!Spec

-----------------------------------------------------------------------------
(* The contract of the handles *)

Phase == IF generation = 0 THEN "Gone" ELSE lifecycle

(* The one caller inside the interval is the only one that may be queueing     *)
LEMMA QueueingOf ==
  ASSUME NEW k, NEW holder,
         \A c \in Client : k[c].pc \in Inside <=> holder = c
  PROVE  LET q == {k[c].submission : c \in {d \in Client :
                     k[d].pc \in {"encoding", "queueing", "queued", "marked"}}}
         IN /\ holder \notin Client => q = {}
            /\ holder \in Client =>
                 q = IF k[holder].pc \in Owning THEN {k[holder].submission} ELSE {}
BY DEF Inside, Owning

(* The submission a caller inside the interval is queueing                   *)
LEMMA QueueingIs ==
  ASSUME Interval
  PROVE  /\ order \notin Client => Queueing = {}
         /\ order \in Client =>
              Queueing = IF caller[order].pc \in Owning
                         THEN {caller[order].submission} ELSE {}
BY QueueingOf DEF Interval, Queueing

(* The same in the next state                                                *)
LEMMA QueueingBecomes ==
  ASSUME Interval'
  PROVE  /\ order' \notin Client => Queueing' = {}
         /\ order' \in Client =>
              Queueing' = IF caller'[order'].pc \in Owning
                          THEN {caller'[order'].submission} ELSE {}
<1>1. \A c \in Client : caller'[c].pc \in Inside <=> order' = c
  BY DEF Interval
<1> QED BY <1>1, QueueingOf DEF Queueing

(* A record is a live handle                                                 *)
LEMMA LiveIsStillRecorded ==
  ASSUME Shaped', RecordsMatchHandles'
  PROVE  Contract!Live(status', readbacks') <=> inFlight' # {}
BY DEF Shaped, RecordsMatchHandles, accepted, Outstanding, Contract!Live,
       Contract!SubmissionId, SubmissionId

(* Shutdown closes with the last record                                      *)
LEMMA Closes ==
  ASSUME IInv, IInv', generation # 0, UNCHANGED <<generation, slot>>,
         \/ lifecycle' = Advance(lifecycle, slot, inFlight')
         \/ UNCHANGED <<lifecycle, inFlight>>
  PROVE  Contract!Advance(Phase)
<1>1. Contract!Live(status', readbacks') <=> inFlight' # {}
  BY LiveIsStillRecorded DEF IInv, Recorded
<1>2. /\ lifecycle \in {"Running", "ShuttingDown", "Closed"}
      /\ lifecycle = "ShuttingDown" =>
           inFlight # {} /\ \A t \in TicketId : slot[t] = "absent"
  BY DEF IInv, Shaped, Draining
<1>3. lifecycle' = IF lifecycle = "ShuttingDown" /\ inFlight' = {}
                   THEN "Closed" ELSE lifecycle
  BY <1>2 DEF Advance
<1> QED BY <1>1, <1>3 DEF Contract!Advance, Phase

(* A failure is what the contract says a handle may see                      *)
LEMMA ContractFails ==
  ASSUME IInv, IInv', NEW s \in SubmissionId, FailSubmission(s),
         UNCHANGED <<slot, queueTail>>, generation # 0, Queueing' = Queueing \ {s}
  PROVE  Contract!Fail(s)
<1>1. Shaped /\ Recorded /\ Draining
  BY DEF IInv
<1>2. /\ generation' = generation
      /\ status' \in [SubmissionId -> Statuses]
      /\ \A t \in SubmissionId : t # s => status'[t] = status[t]
      /\ status'[s] = IF status[s] = "Accepted" THEN "Failed" ELSE status[s]
  BY <1>1, FailEnds DEF Ended
<1>3. status' = [status EXCEPT ![s] = Contract!Failed(@)]
  BY <1>1, <1>2 DEF Contract!Failed, Shaped, Statuses
<1>4. readbacks' =
        [readbacks EXCEPT ![s] = [b \in ReadbackId |-> Contract!Failed(@[b])]]
  <2>1. readbacks' = [readbacks EXCEPT ![s] =
          [b \in ReadbackId |-> IF readbacks[s][b] = "Pending" THEN "Failed"
                                ELSE readbacks[s][b]]]
    BY DEF FailSubmission
  <2>2. \A b \in ReadbackId : Contract!Failed(readbacks[s][b]) =
          IF readbacks[s][b] = "Pending" THEN "Failed" ELSE readbacks[s][b]
    BY <1>1 DEF Contract!Failed, Shaped, Answers
  <2> QED BY <1>1, <2>1, <2>2 DEF Shaped
<1>5. Contract!Advance(Phase)
  BY <1>2, Closes DEF FailSubmission, Cleanup
<1> QED BY <1>2, <1>3, <1>4, <1>5 DEF Contract!Fail, Phase

(* So is every terminal effect                                               *)
LEMMA ContractEnds ==
  ASSUME IInv, IInv', NEW s \in SubmissionId, Ending(s),
         UNCHANGED <<slot, queueTail>>, generation # 0,
         Queueing = {}, Queueing' = {}
  PROVE  Contract!Next \/ UNCHANGED Contract!vars
<1>0. Shaped /\ Recorded /\ Draining
  BY DEF IInv
<1>1. CASE FailSubmission(s)
  BY <1>1, ContractFails DEF Contract!Next, Contract!SubmissionId, SubmissionId
<1>2. ASSUME UNCHANGED <<retainedVars, recordVars, lifecycle>>
      PROVE  UNCHANGED Contract!vars
  BY <1>2 DEF retainedVars, recordVars, Contract!vars
<1>3. CASE CompleteSubmission(s)
  <2>1. CASE s \in inFlight /\ status[s] = "Accepted"
    <3>1. R!Settle(s) /\ UNCHANGED readbacks /\ Cleanup(s)
      BY <1>3, <2>1 DEF CompleteSubmission
    <3>2. /\ status' = [status EXCEPT ![s] = "Completed"]
          /\ generation' = generation
      BY <3>1 DEF R!Settle
    <3>3. Contract!Advance(Phase)
      BY <3>1, <3>2, Closes DEF Cleanup
    <3>4. Contract!Complete(s)
      BY <2>1, <3>1, <3>2, <3>3 DEF Contract!Complete, Phase
    <3> QED BY <3>4 DEF Contract!Next, Contract!SubmissionId, SubmissionId
  <2>2. CASE ~(s \in inFlight /\ status[s] = "Accepted")
    BY <1>2, <1>3, <2>2 DEF CompleteSubmission
  <2> QED BY <2>1, <2>2
<1>4. ASSUME NEW b \in ReadbackId, NEW mapped \in BOOLEAN,
             CompleteReadback(s, b, mapped)
      PROVE  Contract!Next \/ UNCHANGED Contract!vars
  <2>1. CASE s \in inFlight /\ readbacks[s][b] = "Pending"
    <3>1. /\ UNCHANGED <<generation, status>> /\ Cleanup(s)
          /\ \E answer \in {"Ready", "Failed"} :
               readbacks' = [readbacks EXCEPT ![s][b] = answer]
      BY <1>4, <2>1 DEF CompleteReadback, retainedVars
    <3>2. Contract!Advance(Phase)
      BY <3>1, Closes DEF Cleanup
    <3>3. Contract!Answer(s, b)
      BY <2>1, <3>1, <3>2 DEF Contract!Answer, Phase
    <3> QED BY <3>3 DEF Contract!Next, Contract!SubmissionId, SubmissionId
  <2>2. CASE ~(s \in inFlight /\ readbacks[s][b] = "Pending")
    BY <1>2, <1>4, <2>2 DEF CompleteReadback
  <2> QED BY <2>1, <2>2
<1> QED BY <1>1, <1>3, <1>4 DEF Ending

(* Steps that a holder of handles does not see                               *)
LEMMA ContractStutters ==
  ASSUME UNCHANGED <<generation, lifecycle, status, readbacks, queueTail>>,
         Queueing' = Queueing
  PROVE  UNCHANGED Contract!vars
BY DEF Contract!vars

(* Every step of a caller is one of the contract or does not show            *)
LEMMA ContractCaller ==
  ASSUME IInv, IInv', NEW c \in Client, CallerStep(c)
  PROVE  Contract!Next \/ UNCHANGED Contract!vars
<1> USE DEF Pc
<1>0. /\ Shaped /\ Interval /\ Interval' /\ Recorded /\ Draining
      /\ caller \in [Client -> CallerState] /\ Equipped(c)
      /\ generation \in 0 .. MaxGeneration /\ nextPrepared \in 0 .. MaxTicket
  BY DEF IInv, Shaped
<1>1. ASSUME \/ \E w \in Work, known \in SUBSET Retained : PrepareGraph(c, w, known)
             \/ DropGraph(c)
      PROVE  UNCHANGED Contract!vars
  <2>1. UNCHANGED <<generation, lifecycle, status, readbacks, queueTail, caller>>
    BY <1>1 DEF PrepareGraph, DropGraph, R!PrepareGraph, R!DropGraph, recordVars,
                queueVars
  <2>2. Queueing' = Queueing
    BY <2>1 DEF Queueing
  <2> QED BY <2>1, <2>2, ContractStutters
<1>2. ASSUME \/ ReservePrepared(c) \/ CommitPrepared(c) \/ AbandonPreparation(c)
             \/ DropPrepared(c) \/ BeginSubmit(c) \/ RejectAcceptance(c)
      PROVE  UNCHANGED Contract!vars
  <2>1. UNCHANGED <<generation, lifecycle, status, readbacks, queueTail>>
    BY <1>2 DEF ReservePrepared, CommitPrepared, AbandonPreparation, DropPrepared,
                BeginSubmit, RejectAcceptance, retainedVars, recordVars, queueVars
  <2>2. /\ caller[c].pc \notin Owning /\ caller'[c].pc \notin Owning
        /\ \A d \in Client : d # c => caller'[d] = caller[d]
    <3>1. CASE ReservePrepared(c)
      BY <1>0, <3>1, CallerStarts DEF ReservePrepared, At, Owning
    <3>2. CASE CommitPrepared(c)
      BY <1>0, <3>2, CallerGoes DEF CommitPrepared, At, Owning
    <3>3. CASE AbandonPreparation(c) \/ DropPrepared(c)
      BY <1>0, <3>3, CallerRests DEF AbandonPreparation, DropPrepared, At, Owning
    <3>4. CASE BeginSubmit(c) \/ RejectAcceptance(c)
      BY <1>0, <3>4, CallerGoes DEF BeginSubmit, RejectAcceptance, At, Owning
    <3> QED BY <1>2, <3>1, <3>2, <3>3, <3>4
  <2>3. Queueing' = Queueing
    BY <2>2 DEF Queueing, Owning
  <2> QED BY <2>1, <2>3, ContractStutters
<1>3. ASSUME Accept(c) PROVE Contract!Next
  <2> DEFINE s == nextSubmission
             bs == PlanReadbacks(graph[c].work)
  <2>1. /\ s \in SubmissionId /\ generation # 0 /\ lifecycle = "Running"
        /\ order = c /\ caller[c].pc = "admitting" /\ graph[c].work \in Work
        /\ status' = [status EXCEPT ![s] = "Accepted"]
        /\ readbacks' = [readbacks EXCEPT ![s] =
             [b \in ReadbackId |-> IF b \in bs THEN "Pending" ELSE "None"]]
    BY <1>3, Accepts
  <2>2. /\ UNCHANGED <<generation, lifecycle, queueTail>> /\ order' = order
        /\ caller' = [caller EXCEPT ![c] =
             [Idle EXCEPT !.pc = "encoding", !.submission = s]]
    BY <1>3 DEF Accept, R!Reserve, queueVars
  <2>3. caller'[c].pc = "encoding" /\ caller'[c].submission = s
    BY <1>0, <2>1, <2>2, CallerSubmits
  <2>4. Queueing = {} /\ Queueing' = {s}
    BY <1>0, <2>1, <2>2, <2>3, QueueingIs, QueueingBecomes DEF Owning
  <2>5. \A t \in SubmissionId : status[t] # "None" => t < s
    BY <1>0, <2>1 DEF Recorded, SubmissionId
  <2>6. bs \in SUBSET ReadbackId
    BY <2>1, PlanAnswers
  <2>7. Contract!Accept(s, bs)
    BY <2>1, <2>2, <2>4, <2>5 DEF Contract!Accept, Contract!SubmissionId,
                                  SubmissionId
  <2> HIDE DEF s, bs
  <2> QED BY <2>1, <2>6, <2>7 DEF Contract!Next, Contract!SubmissionId, SubmissionId
<1>4. ASSUME Encode(c) \/ MarkSegment(c) \/ NextSegment(c)
      PROVE  UNCHANGED Contract!vars
  <2>1. UNCHANGED <<generation, lifecycle, status, readbacks, queueTail>>
    BY <1>4 DEF Encode, MarkSegment, NextSegment, R!Mark, retainedVars, recordVars,
                queueVars
  <2>2. /\ caller[c].pc \in Owning /\ caller'[c].pc \in Owning
        /\ caller'[c].submission = caller[c].submission
        /\ \A d \in Client : d # c => caller'[d] = caller[d]
    <3>1. CASE Encode(c)
      BY <1>0, <3>1, CallerAdvances DEF Encode, At, Owning
    <3>2. CASE MarkSegment(c)
      BY <1>0, <3>2, CallerGoes DEF MarkSegment, At, Owning
    <3>3. CASE NextSegment(c)
      <4>1. PICK m \in Nat : m = caller[c].segment + 1
        BY <1>0, CallerFields
      <4>2. /\ caller' = [caller EXCEPT ![c].pc = "queueing", ![c].segment = m]
            /\ caller[c].pc = "marked"
        BY <1>0, <3>3, <4>1 DEF NextSegment, At
      <4> QED BY <1>0, <4>2, CallerAdvances DEF Owning
    <3> QED BY <1>4, <3>1, <3>2, <3>3
  <2>3. Queueing' = Queueing
    BY <2>2 DEF Queueing, Owning
  <2> QED BY <2>1, <2>3, ContractStutters
<1>5. ASSUME QueueSegment(c) PROVE Contract!Next
  <2> DEFINE s == caller[c].submission
  <2>1. /\ UNCHANGED <<generation, lifecycle, status, readbacks, order>>
        /\ queueTail' = s /\ caller[c].pc = "queueing" /\ Goto(c, "queued")
    BY <1>5 DEF QueueSegment, At, retainedVars, recordVars
  <2>2. /\ caller'[c].pc = "queued" /\ caller'[c].submission = s
        /\ \A d \in Client : d # c => caller'[d] = caller[d]
    BY <1>0, <2>1, CallerGoes
  <2>3. Queueing' = Queueing /\ s \in Queueing
    BY <2>1, <2>2 DEF Queueing
  <2>4. s \in SubmissionId
    BY <1>0, <2>1 DEF Equipped, Owning
  <2>5. Contract!Queue(s)
    BY <2>1, <2>3 DEF Contract!Queue
  <2> HIDE DEF s
  <2> QED BY <2>4, <2>5 DEF Contract!Next, Contract!SubmissionId, SubmissionId
<1>6. ASSUME EncodeFails(c) \/ SegmentFails(c) PROVE Contract!Next
  <2> DEFINE s == caller[c].submission
  <2>1. caller[c].pc \in Owning /\ s \in SubmissionId /\ FailOwn(c)
    BY <1>6, EndingSteps
  <2>2. /\ FailSubmission(s) /\ order' = "free" /\ UNCHANGED <<slot, queueTail>>
    BY <2>1 DEF FailOwn, ticketVars, queueVars
  <2>3. order = c /\ generation # 0
    BY <1>0, <2>1, IdentityAssumption DEF Interval, Inside, Owning
  <2>4. Queueing = {s} /\ Queueing' = {}
    BY <1>0, <2>1, <2>2, <2>3, QueueingIs, QueueingBecomes, IdentityAssumption
  <2> HIDE DEF s
  <2>5. Contract!Fail(s)
    BY <2>1, <2>2, <2>3, <2>4, ContractFails
  <2> QED BY <2>1, <2>5 DEF Contract!Next, Contract!SubmissionId, SubmissionId
<1>7. ASSUME EndSubmit(c) PROVE Contract!Next
  <2> DEFINE s == caller[c].submission
  <2>1. /\ UNCHANGED <<generation, lifecycle, status, readbacks, queueTail>>
        /\ caller[c].pc = "marked" /\ order' = "free"
    BY <1>7 DEF EndSubmit, At, retainedVars, recordVars, queueVars
  <2>2. s \in SubmissionId /\ queueTail = s
    BY <1>0, <2>1 DEF Equipped, Owning
  <2>3. order = c
    BY <1>0, <2>1 DEF Interval, Inside
  <2>4. Queueing = {s} /\ Queueing' = {}
    BY <1>0, <2>1, <2>3, QueueingIs, QueueingBecomes, IdentityAssumption DEF Owning
  <2>5. Contract!EndQueueing(s)
    BY <2>1, <2>2, <2>4 DEF Contract!EndQueueing
  <2> HIDE DEF s
  <2> QED BY <2>2, <2>5 DEF Contract!Next, Contract!SubmissionId, SubmissionId
<1> QED BY <1>1, <1>2, <1>3, <1>4, <1>5, <1>6, <1>7 DEF CallerStep, SubmitStep

(* Shutdown waits for the last handle, the next generation for all of them    *)
LEMMA ContractOwner ==
  ASSUME IInv, IInv', BeginShutdown \/ ReplaceGeneration \/ DropContext
  PROVE  Contract!Next \/ UNCHANGED Contract!vars
<1>0. Shaped /\ Interval /\ Interval' /\ Recorded /\ Draining
  BY DEF IInv
<1>1. CASE BeginShutdown
  <2>1. /\ UNCHANGED <<generation, status, readbacks, queueTail, caller, inFlight>>
        /\ generation # 0
        /\ lifecycle' = Advance(IF lifecycle = "Running" THEN "ShuttingDown"
                                ELSE lifecycle, slot', inFlight)
        /\ slot' = IF lifecycle = "Running"
                   THEN [t \in TicketId |-> "absent"] ELSE slot
    BY <1>1 DEF BeginShutdown, retainedVars, recordVars, queueVars
  <2>2. Queueing' = Queueing
    BY <2>1 DEF Queueing
  <2>3. CASE lifecycle = "Running"
    <3>1. Contract!Live(status', readbacks') <=> inFlight' # {}
      BY LiveIsStillRecorded DEF IInv, Recorded
    <3>2. lifecycle' = IF inFlight' = {} THEN "Closed" ELSE "ShuttingDown"
      BY <2>1, <2>3 DEF Advance
    <3>3. Contract!BeginShutdown
      BY <2>1, <2>2, <2>3, <3>1, <3>2 DEF Contract!BeginShutdown, Contract!Advance
    <3> QED BY <3>3 DEF Contract!Next
  <2>4. CASE lifecycle # "Running"
    <3>1. lifecycle' = lifecycle
      BY <1>0, <2>1, <2>4 DEF Advance, Draining, Shaped
    <3> QED BY <2>1, <2>2, <3>1, ContractStutters
  <2> QED BY <2>3, <2>4
<1>2. ASSUME ReplaceGeneration \/ DropContext
      PROVE  Queueing = {} /\ Queueing' = {}
  <2>1. Unborrowed /\ caller' = caller
    BY <1>2 DEF ReplaceGeneration, DropContext, FreshOwner
  <2> QED BY <2>1 DEF Unborrowed, Queueing
<1>3. CASE ReplaceGeneration
  <2>1. /\ generation \in 1 .. MaxGeneration - 1 /\ generation' = generation + 1
        /\ lifecycle' = "Running" /\ queueTail' = 0
        /\ status' = [s \in SubmissionId |-> "None"]
        /\ readbacks' = [s \in SubmissionId |-> [b \in ReadbackId |-> "None"]]
    BY <1>3 DEF ReplaceGeneration, R!InstallGeneration, FreshOwner,
                R!SubmissionId, SubmissionId
  <2>2. /\ \A s \in inFlight : status[s] # "Accepted"
        /\ pendingReadbacks = 0
    BY <1>3 DEF ReplaceGeneration, Quiescent
  <2>3. Waiting = {}
    BY <1>0, <2>2, WaitingIsFinite, FS_EmptySet DEF Recorded
  <2>4. ~Contract!Live(status, readbacks)
    <3>1. \A s \in SubmissionId : status[s] # "Accepted"
      BY <1>0, <2>2 DEF Recorded, RecordsMatchHandles, accepted
    <3>2. ASSUME NEW s \in SubmissionId, NEW b \in ReadbackId
          PROVE  readbacks[s][b] # "Pending"
      <4>1. <<s, b>> \notin Waiting
        BY <2>3
      <4> QED BY <4>1 DEF Waiting
    <3> QED BY <3>1, <3>2 DEF Contract!Live, Contract!SubmissionId, SubmissionId
  <2>5. generation' # 0
    BY <2>1
  <2>6. Contract!ReplaceGeneration
    BY <1>2, <1>3, <2>1, <2>4, <2>5
       DEF Contract!ReplaceGeneration, Contract!NoStatus, Contract!NoReadbacks,
           Contract!SubmissionId, SubmissionId
  <2> QED BY <2>6 DEF Contract!Next
<1>4. CASE DropContext
  <2>1. /\ generation # 0 /\ generation' = 0 /\ queueTail' = 0
        /\ status' = [s \in SubmissionId |->
             IF status[s] = "Accepted" THEN "Failed" ELSE status[s]]
        /\ readbacks' = [s \in SubmissionId |-> [b \in ReadbackId |->
             IF s \in inFlight /\ readbacks[s][b] = "Pending" THEN "Failed"
             ELSE readbacks[s][b]]]
    BY <1>4 DEF DropContext, R!DropOwner, FreshOwner, R!SubmissionId, SubmissionId
  <2>2. status' = [s \in SubmissionId |-> Contract!Failed(status[s])]
    BY <1>0, <2>1 DEF Contract!Failed, Shaped, Statuses
  <2>3. ASSUME NEW s \in SubmissionId, NEW b \in ReadbackId
        PROVE  Contract!Failed(readbacks[s][b]) =
                 IF s \in inFlight /\ readbacks[s][b] = "Pending" THEN "Failed"
                 ELSE readbacks[s][b]
    <3>1. readbacks[s][b] = "Pending" => s \in inFlight
      BY <1>0 DEF Recorded, RecordsMatchHandles, Outstanding
    <3>2. readbacks[s][b] # "Accepted"
      BY <1>0 DEF Shaped, Answers
    <3> QED BY <3>1, <3>2 DEF Contract!Failed
  <2>4. readbacks' = [s \in SubmissionId |->
          [b \in ReadbackId |-> Contract!Failed(readbacks[s][b])]]
    BY <2>1, <2>3
  <2>5. Contract!Drop
    BY <1>0, <1>2, <1>4, <2>1, <2>2, <2>4
       DEF Contract!Drop, Contract!SubmissionId, SubmissionId, Shaped
  <2> QED BY <2>5 DEF Contract!Next
<1> QED BY <1>1, <1>3, <1>4

(* So is every step of the owner                                             *)
LEMMA ContractStep ==
  IInv /\ IInv' /\ [Next]_vars => [Contract!Next]_(Contract!vars)
<1> SUFFICES ASSUME IInv, IInv', [Next]_vars
             PROVE  Contract!Next \/ UNCHANGED Contract!vars
  OBVIOUS
<1>1. ASSUME NEW c \in Client, CallerStep(c)
      PROVE  Contract!Next \/ UNCHANGED Contract!vars
  BY <1>1, ContractCaller
<1>2. CASE DrainEvent \/ Sweep
  <2>1. PICK s \in SubmissionId : Ending(s)
    BY <1>2, EndingSteps
  <2>2. UNCHANGED <<slot, queueTail, order>> /\ polling # "idle"
    BY <1>2 DEF DrainEvent, Sweep, ticketVars, queueVars
  <2>3. order = "progress" /\ generation # 0
    BY <2>2 DEF IInv, Interval
  <2>4. Queueing = {} /\ Queueing' = {}
    BY <2>2, <2>3, QueueingIs, QueueingBecomes, IdentityAssumption DEF IInv
  <2> QED BY <2>1, <2>2, <2>3, <2>4, ContractEnds
<1>3. CASE \/ BeginProgress \/ Poll \/ BeginSweep \/ EndProgress
           \/ DeviceCalls \/ DeviceFault \/ (\E r \in Evictable : Evict(r))
           \/ UNCHANGED vars
  <2>1. UNCHANGED <<generation, lifecycle, status, readbacks, queueTail, caller>>
    BY <1>3 DEF BeginProgress, Poll, BeginSweep, EndProgress, DeviceCalls,
                FireCallback, DeviceFault, Evict, vars, retainedVars, recordVars,
                queueVars
  <2>2. Queueing' = Queueing
    BY <2>1 DEF Queueing
  <2> QED BY <2>1, <2>2, ContractStutters
<1>4. CASE BeginShutdown \/ ReplaceGeneration \/ DropContext
  BY <1>4, ContractOwner
<1> QED BY <1>1, <1>2, <1>3, <1>4 DEF Next, ProgressStep

(* Every step of execution.rs is one the contract of its handles allows: one   *)
(* irrevocable acceptance, physical order in identity order, terminal states   *)
(* that are final, and a shutdown that closes with the last live handle.       *)
THEOREM ContractHonoured == Spec => HonoursContract
<1>1. Init => Contract!Init
  <2> SUFFICES ASSUME Init PROVE Contract!Init
    OBVIOUS
  <2>1. /\ generation = 1 /\ lifecycle = "Running" /\ queueTail = 0
        /\ status = [s \in SubmissionId |-> "None"]
        /\ readbacks = [s \in SubmissionId |-> [b \in ReadbackId |-> "None"]]
        /\ \A c \in Client : caller[c].pc = "idle"
    BY DEF Init, R!Init, Idle, R!SubmissionId, SubmissionId
  <2>2. Queueing = {}
    BY <2>1 DEF Queueing
  <2> QED BY <2>1, <2>2 DEF Contract!Init, Contract!NoStatus, Contract!NoReadbacks,
                            Contract!SubmissionId, SubmissionId
<1>2. IInv /\ IInv' /\ [Next]_vars => [Contract!Next]_(Contract!vars)
  BY ContractStep
<1> QED BY <1>1, <1>2, Invariance, PTL DEF Spec, HonoursContract, Contract!Spec

-----------------------------------------------------------------------------
(* Tickets *)

(* A caller goes on with its ticket, or without                              *)
LEMMA TicketKept ==
  ASSUME Shaped, Ticketed, NEW c \in Client,
         UNCHANGED <<generation, nextPrepared>>,
         lifecycle' = "Running" => lifecycle = "Running",
         \A t \in TicketId : slot'[t] = "absent" <=> slot[t] = "absent",
         \A d \in Client : d # c => caller'[d] = caller[d],
         caller'[c].ticket = caller[c].ticket,
         caller'[c].generation = caller[c].generation,
         caller'[c].pc \in Holding <=> caller[c].pc \in Holding,
         caller'[c].pc \in {"reserved", "admitting"} => Current(c)
  PROVE  Ticketed'
<1>1. \A d \in Client : /\ caller'[d].ticket = caller[d].ticket
                        /\ caller'[d].generation = caller[d].generation
                        /\ caller'[d].pc \in Holding <=> caller[d].pc \in Holding
  OBVIOUS
<1>2. \A d \in Client : Current(d)' <=> Current(d)
  BY <1>1 DEF Current
<1>3. ASSUME NEW d \in Client
      PROVE  /\ IF caller'[d].pc \in Holding
                THEN caller'[d].ticket \in TicketId /\ caller'[d].generation # 0
                ELSE caller'[d].ticket = 0 /\ caller'[d].generation = 0
             /\ caller'[d].pc \in {"reserved", "admitting"} => Current(d)'
             /\ generation' # 0 => caller'[d].generation <= generation'
             /\ Current(d)' => nextPrepared' = 0 \/ caller'[d].ticket < nextPrepared'
             /\ Current(d)' /\ lifecycle' = "Running" =>
                  slot'[caller'[d].ticket] # "absent"
  <2>1. caller'[d].pc \in {"reserved", "admitting"} => Current(d)'
    BY <1>2 DEF Ticketed
  <2>2. Current(d)' => caller[d].ticket \in TicketId
    BY <1>2 DEF Ticketed, Current
  <2> QED BY <1>1, <1>2, <2>1, <2>2 DEF Ticketed
<1>4. \A d, e \in Client :
        Current(d)' /\ Current(e)' /\ caller'[d].ticket = caller'[e].ticket => d = e
  BY <1>1, <1>2 DEF Ticketed
<1>5. \A t \in TicketId : slot'[t] # "absent" =>
        \E d \in Client : Current(d)' /\ caller'[d].ticket = t
  BY <1>1, <1>2 DEF Ticketed
<1> QED BY <1>3, <1>4, <1>5 DEF Ticketed

(* A caller gives its ticket up; one of an earlier owner is none of this one's *)
LEMMA TicketLeft ==
  ASSUME Shaped, Ticketed, NEW c \in Client,
         UNCHANGED <<generation, nextPrepared, lifecycle>>,
         \A d \in Client : d # c => caller'[d] = caller[d],
         caller[c].pc \in Holding,
         caller'[c].ticket = 0, caller'[c].generation = 0,
         caller'[c].pc \notin Holding,
         slot' = IF Current(c) THEN [slot EXCEPT ![caller[c].ticket] = "absent"]
                 ELSE slot
  PROVE  Ticketed'
<1>1. \A d \in Client : d # c => (Current(d)' <=> Current(d))
  BY DEF Current
<1>2. ~Current(c)' /\ caller[c].ticket \in TicketId
  BY DEF Current, Ticketed
<1>3. \A t \in TicketId : slot'[t] =
        IF Current(c) /\ t = caller[c].ticket THEN "absent" ELSE slot[t]
  BY <1>2 DEF Shaped
<1>4. ASSUME NEW d \in Client
      PROVE  /\ IF caller'[d].pc \in Holding
                THEN caller'[d].ticket \in TicketId /\ caller'[d].generation # 0
                ELSE caller'[d].ticket = 0 /\ caller'[d].generation = 0
             /\ caller'[d].pc \in {"reserved", "admitting"} => Current(d)'
             /\ generation' # 0 => caller'[d].generation <= generation'
             /\ Current(d)' => nextPrepared' = 0 \/ caller'[d].ticket < nextPrepared'
             /\ Current(d)' /\ lifecycle' = "Running" =>
                  slot'[caller'[d].ticket] # "absent"
  <2>1. CASE d = c
    <3>1. generation' # 0 => 0 <= generation'
      BY DEF Shaped
    <3> QED BY <1>2, <2>1, <3>1 DEF Holding
  <2>2. CASE d # c
    <3>1. Current(d)' => /\ caller[d].ticket \in TicketId
                         /\ Current(c) => caller[d].ticket # caller[c].ticket
      BY <1>1, <2>2 DEF Ticketed, Current
    <3>2. Current(d)' /\ lifecycle' = "Running" => slot'[caller[d].ticket] # "absent"
      BY <1>1, <1>3, <2>2, <3>1 DEF Ticketed
    <3> QED BY <1>1, <2>2, <3>2 DEF Ticketed
  <2> QED BY <2>1, <2>2
<1>5. \A d, e \in Client :
        Current(d)' /\ Current(e)' /\ caller'[d].ticket = caller'[e].ticket => d = e
  BY <1>1, <1>2 DEF Ticketed
<1>6. ASSUME NEW t \in TicketId, slot'[t] # "absent"
      PROVE  \E d \in Client : Current(d)' /\ caller'[d].ticket = t
  <2>1. slot[t] # "absent" /\ ~(Current(c) /\ t = caller[c].ticket)
    BY <1>3, <1>6
  <2>2. PICK d \in Client : Current(d) /\ caller[d].ticket = t
    BY <2>1 DEF Ticketed
  <2> QED BY <1>1, <2>1, <2>2
<1> QED BY <1>4, <1>5, <1>6 DEF Ticketed

(* A new ticket is nobody's                                                  *)
LEMMA TicketTaken ==
  ASSUME IInv, Ticketed, NEW c \in Client, ReservePrepared(c)
  PROVE  Ticketed'
<1>0. /\ Shaped /\ caller \in [Client -> CallerState]
      /\ nextPrepared \in 0 .. MaxTicket /\ generation \in 0 .. MaxGeneration
  BY DEF IInv, Shaped
<1>1. /\ generation # 0 /\ caller[c].pc = "idle" /\ nextPrepared # 0
      /\ nextPrepared' = Successor(nextPrepared, MaxTicket)
      /\ slot' = [slot EXCEPT ![nextPrepared] = "reserved"]
      /\ generation' = generation /\ lifecycle' = lifecycle
  BY DEF ReservePrepared, At, retainedVars
<1>2. /\ caller'[c].pc = "reserved" /\ caller'[c].ticket = nextPrepared
      /\ caller'[c].generation = generation
      /\ \A d \in Client : d # c => caller'[d] = caller[d]
  BY <1>0, CallerStarts DEF ReservePrepared
<1>3. nextPrepared \in TicketId
  BY <1>0, <1>1, PolicyAssumption DEF TicketId
<1>4. nextPrepared' = 0 \/ nextPrepared' = nextPrepared + 1
  BY <1>1 DEF Successor
<1>5. \A t \in TicketId : slot'[t] = IF t = nextPrepared THEN "reserved" ELSE slot[t]
  BY <1>0, <1>1, <1>3 DEF Shaped
<1>6. Current(c)' /\ \A d \in Client : d # c => (Current(d)' <=> Current(d))
  BY <1>1, <1>2 DEF Current, Holding
<1>7. \A d \in Client : Current(d) =>
        caller[d].ticket \in TicketId /\ caller[d].ticket < nextPrepared
  BY <1>1 DEF Ticketed, Current
<1>8. ASSUME NEW d \in Client
      PROVE  /\ IF caller'[d].pc \in Holding
                THEN caller'[d].ticket \in TicketId /\ caller'[d].generation # 0
                ELSE caller'[d].ticket = 0 /\ caller'[d].generation = 0
             /\ caller'[d].pc \in {"reserved", "admitting"} => Current(d)'
             /\ generation' # 0 => caller'[d].generation <= generation'
             /\ Current(d)' => nextPrepared' = 0 \/ caller'[d].ticket < nextPrepared'
             /\ Current(d)' /\ lifecycle' = "Running" =>
                  slot'[caller'[d].ticket] # "absent"
  <2>1. CASE d = c
    BY <1>0, <1>1, <1>2, <1>3, <1>4, <1>5, <1>6, <2>1 DEF Holding
  <2>2. CASE d # c
    <3>1. Current(d)' => nextPrepared' = 0 \/ caller[d].ticket < nextPrepared'
      <4>1. ASSUME Current(d)' PROVE nextPrepared' = 0 \/ caller[d].ticket < nextPrepared'
        <5>1. caller[d].ticket \in Nat /\ caller[d].ticket < nextPrepared
          BY <1>6, <1>7, <2>2, <4>1 DEF TicketId
        <5> QED BY <1>0, <1>4, <5>1
      <4> QED BY <4>1
    <3>2. Current(d)' /\ lifecycle' = "Running" => slot'[caller[d].ticket] # "absent"
      <4>1. ASSUME Current(d)', lifecycle' = "Running"
            PROVE  slot'[caller[d].ticket] # "absent"
        <5>1. caller[d].ticket \in TicketId /\ slot[caller[d].ticket] # "absent"
          BY <1>1, <1>6, <1>7, <2>2, <4>1 DEF Ticketed
        <5> QED BY <1>5, <5>1
      <4> QED BY <4>1
    <3> QED BY <1>1, <1>2, <1>6, <2>2, <3>1, <3>2 DEF Ticketed
  <2> QED BY <2>1, <2>2
<1>9. \A d, e \in Client :
        Current(d)' /\ Current(e)' /\ caller'[d].ticket = caller'[e].ticket => d = e
  <2>1. SUFFICES ASSUME NEW d \in Client, NEW e \in Client, Current(d)', Current(e)',
                        caller'[d].ticket = caller'[e].ticket
                 PROVE  d = e
    OBVIOUS
  <2>2. CASE d # c /\ e # c
    BY <1>2, <1>6, <2>1, <2>2 DEF Ticketed
  <2>3. \A q \in Client : q # c /\ Current(q)' => caller'[q].ticket # nextPrepared
    BY <1>0, <1>2, <1>6, <1>7 DEF TicketId
  <2> QED BY <1>2, <2>1, <2>2, <2>3
<1>10. ASSUME NEW t \in TicketId, slot'[t] # "absent"
       PROVE  \E d \in Client : Current(d)' /\ caller'[d].ticket = t
  <2>1. CASE t = nextPrepared
    BY <1>2, <1>6, <2>1
  <2>2. CASE t # nextPrepared
    <3>1. slot[t] # "absent"
      BY <1>5, <1>10, <2>2
    <3>2. PICK d \in Client : Current(d) /\ caller[d].ticket = t
      BY <3>1 DEF Ticketed
    <3>3. d # c
      BY <1>1, <3>2 DEF Current, Holding
    <3> QED BY <1>2, <1>6, <3>2, <3>3
  <2> QED BY <2>1, <2>2
<1> QED BY <1>8, <1>9, <1>10 DEF Ticketed

(* What ends something of a submission can only close the owner              *)
LEMMA EndingCloses ==
  ASSUME NEW s \in SubmissionId, Ending(s)
  PROVE  lifecycle' \in {lifecycle, "Closed"}
<1>1. ASSUME Cleanup(s) PROVE lifecycle' \in {lifecycle, "Closed"}
  BY <1>1 DEF Cleanup, Advance
<1>2. CASE FailSubmission(s)
  BY <1>1, <1>2 DEF FailSubmission
<1>3. CASE CompleteSubmission(s)
  BY <1>1, <1>3 DEF CompleteSubmission
<1>4. ASSUME NEW b \in ReadbackId, NEW mapped \in BOOLEAN,
             CompleteReadback(s, b, mapped)
      PROVE  lifecycle' \in {lifecycle, "Closed"}
  BY <1>1, <1>4 DEF CompleteReadback
<1> QED BY <1>2, <1>3, <1>4 DEF Ending

(* Every step keeps the tickets with their callers                           *)
LEMMA TicketStep ==
  ASSUME IInv, Ticketed, Next
  PROVE  Ticketed'
<1> USE DEF Pc
<1>0. /\ Shaped /\ Interval /\ caller \in [Client -> CallerState]
      /\ slot \in [TicketId -> {"absent", "reserved", "ready"}]
  BY DEF IInv, Shaped
<1>1. ASSUME NEW c \in Client, CallerStep(c) PROVE Ticketed'
  <2>1. CASE \/ \E w \in Work, known \in SUBSET Retained : PrepareGraph(c, w, known)
             \/ DropGraph(c)
    <3>1. UNCHANGED <<generation, nextPrepared, lifecycle, slot, caller>>
      BY <2>1 DEF PrepareGraph, DropGraph, R!PrepareGraph, R!DropGraph, ticketVars
    <3> QED BY <3>1 DEF Ticketed, Current
  <2>2. CASE ReservePrepared(c)
    BY <2>2, TicketTaken
  <2>3. CASE CommitPrepared(c)
    <3>1. /\ UNCHANGED <<generation, nextPrepared, lifecycle>>
          /\ caller[c].pc = "reserved" /\ slot[caller[c].ticket] = "reserved"
          /\ slot' = [slot EXCEPT ![caller[c].ticket] = "ready"]
          /\ Goto(c, "prepared")
      BY <2>3 DEF CommitPrepared, At, retainedVars
    <3>2. \A t \in TicketId : slot'[t] = "absent" <=> slot[t] = "absent"
      BY <1>0, <3>1
    <3> QED BY <1>0, <3>1, <3>2, CallerGoes, TicketKept DEF Holding
  <2>4. CASE AbandonPreparation(c)
    <3>1. /\ UNCHANGED <<generation, nextPrepared, lifecycle>>
          /\ caller[c].pc = "reserved"
          /\ slot' = [slot EXCEPT ![caller[c].ticket] = "absent"]
          /\ caller' = [caller EXCEPT ![c] = Idle]
      BY <2>4 DEF AbandonPreparation, At, retainedVars
    <3>2. Current(c)
      BY <3>1 DEF Ticketed
    <3>3. Idle.ticket = 0 /\ Idle.pc \notin Holding
      BY DEF Idle, Holding
    <3> QED BY <1>0, <3>1, <3>2, <3>3, CallerRests, TicketLeft DEF Holding
  <2>5. CASE DropPrepared(c)
    <3>1. /\ UNCHANGED <<generation, nextPrepared, lifecycle>>
          /\ caller[c].pc = "prepared"
          /\ slot' = IF caller[c].generation = generation
                     THEN [slot EXCEPT ![caller[c].ticket] = "absent"] ELSE slot
          /\ caller' = [caller EXCEPT ![c] = Idle]
      BY <2>5 DEF DropPrepared, At, retainedVars
    <3>2. Current(c) <=> caller[c].generation = generation
      BY <3>1 DEF Current, Holding
    <3>3. Idle.ticket = 0 /\ Idle.pc \notin Holding
      BY DEF Idle, Holding
    <3> QED BY <1>0, <3>1, <3>2, <3>3, CallerRests, TicketLeft DEF Holding
  <2>6. CASE BeginSubmit(c)
    <3>1. /\ UNCHANGED <<generation, nextPrepared, lifecycle, slot>>
          /\ caller[c].pc = "prepared" /\ caller[c].generation = generation
          /\ Goto(c, "admitting")
      BY <2>6 DEF BeginSubmit, Ready, At, retainedVars, ticketVars
    <3> QED BY <1>0, <3>1, CallerGoes, TicketKept DEF Holding, Current
  <2>7. CASE RejectAcceptance(c)
    <3>1. /\ UNCHANGED <<generation, nextPrepared, lifecycle, slot>>
          /\ caller[c].pc = "admitting" /\ Goto(c, "prepared")
      BY <2>7 DEF RejectAcceptance, At, retainedVars, ticketVars
    <3> QED BY <1>0, <3>1, CallerGoes, TicketKept DEF Holding
  <2>8. CASE Accept(c)
    <3>1. /\ UNCHANGED <<generation, nextPrepared, lifecycle>>
          /\ slot' = [slot EXCEPT ![caller[c].ticket] = "absent"]
          /\ caller' = [caller EXCEPT ![c] =
               [Idle EXCEPT !.pc = "encoding", !.submission = nextSubmission]]
      BY <2>8 DEF Accept, R!Reserve
    <3>2. caller[c].pc = "admitting" /\ nextSubmission \in SubmissionId
      BY <2>8, Accepts
    <3>3. Current(c)
      BY <3>2 DEF Ticketed
    <3> QED BY <1>0, <3>1, <3>2, <3>3, CallerSubmits, TicketLeft DEF Holding
  <2>9. CASE Encode(c)
    <3>1. /\ UNCHANGED <<generation, nextPrepared, lifecycle, slot>>
          /\ caller[c].pc = "encoding"
          /\ caller' = [caller EXCEPT ![c].pc = "queueing", ![c].segment = 1]
      BY <2>9 DEF Encode, At, retainedVars, ticketVars
    <3> QED BY <1>0, <3>1, CallerAdvances, TicketKept DEF Holding
  <2>10. CASE QueueSegment(c) \/ MarkSegment(c)
    <3>1. /\ UNCHANGED <<generation, nextPrepared, lifecycle, slot>>
          /\ caller[c].pc \in {"queueing", "queued"}
          /\ Goto(c, "queued") \/ Goto(c, "marked")
      BY <2>10 DEF QueueSegment, MarkSegment, At, retainedVars, ticketVars, R!Mark
    <3> QED BY <1>0, <3>1, CallerGoes, TicketKept DEF Holding
  <2>11. CASE NextSegment(c)
    <3>1. PICK m \in Nat : m = caller[c].segment + 1
      BY <1>0, CallerFields
    <3>2. /\ UNCHANGED <<generation, nextPrepared, lifecycle, slot>>
          /\ caller[c].pc = "marked"
          /\ caller' = [caller EXCEPT ![c].pc = "queueing", ![c].segment = m]
      BY <1>0, <2>11, <3>1 DEF NextSegment, At, retainedVars, ticketVars
    <3> QED BY <1>0, <3>2, CallerAdvances, TicketKept DEF Holding
  <2>12. CASE EncodeFails(c) \/ SegmentFails(c) \/ EndSubmit(c)
    <3>1. /\ caller[c].pc \in Owning
          /\ UNCHANGED <<generation, nextPrepared, slot>>
          /\ lifecycle' = "Running" => lifecycle = "Running"
          /\ caller' = [caller EXCEPT ![c] = Idle]
      <4>1. CASE EncodeFails(c) \/ SegmentFails(c)
        <5>1. /\ caller[c].pc \in Owning /\ caller[c].submission \in SubmissionId
              /\ FailOwn(c)
          BY <4>1, EndingSteps
        <5>2. /\ Ending(caller[c].submission)
              /\ UNCHANGED <<slot, nextPrepared>>
              /\ caller' = [caller EXCEPT ![c] = Idle]
          BY <5>1 DEF FailOwn, Ending, ticketVars
        <5>3. Ended(caller[c].submission)
          BY <5>1, <5>2, Ends DEF IInv
        <5>4. generation' = generation
          BY <5>3 DEF Ended
        <5>5. lifecycle' \in {lifecycle, "Closed"}
          BY <5>1, <5>2, EndingCloses
        <5> QED BY <5>1, <5>2, <5>4, <5>5
      <4>2. CASE EndSubmit(c)
        BY <4>2 DEF EndSubmit, At, Owning, retainedVars, ticketVars
      <4> QED BY <2>12, <4>1, <4>2
    <3>2. caller[c].ticket = 0 /\ caller[c].generation = 0 /\ caller[c].pc \notin Holding
      BY <3>1 DEF Ticketed, Owning, Holding
    <3>3. Idle.ticket = 0 /\ Idle.generation = 0 /\ Idle.pc = "idle"
      BY DEF Idle
    <3> QED BY <1>0, <3>1, <3>2, <3>3, CallerRests, TicketKept DEF Holding
  <2> QED BY <1>1, <2>1, <2>2, <2>3, <2>4, <2>5, <2>6, <2>7, <2>8, <2>9, <2>10, <2>11,
             <2>12 DEF CallerStep, SubmitStep
<1>2. CASE DrainEvent \/ Sweep
  <2>1. PICK s \in SubmissionId : Ending(s)
    BY <1>2, EndingSteps
  <2>2. UNCHANGED <<slot, nextPrepared, caller>>
    BY <1>2 DEF DrainEvent, Sweep, ticketVars
  <2>3. lifecycle' \in {lifecycle, "Closed"}
    BY <2>1, EndingCloses
  <2>4. generation' = generation
    BY <2>1, <2>2, Ends DEF IInv, Ended
  <2>5. lifecycle' = "Running" => lifecycle = "Running"
    BY <2>3
  <2> QED BY <2>2, <2>4, <2>5 DEF Ticketed, Current
<1>3. CASE \/ BeginProgress \/ Poll \/ BeginSweep \/ EndProgress
           \/ DeviceCalls \/ DeviceFault \/ \E r \in Evictable : Evict(r)
  <2>1. UNCHANGED <<generation, nextPrepared, lifecycle, slot, caller>>
    BY <1>3 DEF BeginProgress, Poll, BeginSweep, EndProgress, DeviceCalls,
                FireCallback, DeviceFault, Evict, retainedVars, ticketVars
  <2> QED BY <2>1 DEF Ticketed, Current
<1>4. CASE BeginShutdown
  <2>1. /\ UNCHANGED <<generation, nextPrepared, caller>>
        /\ slot' = IF lifecycle = "Running"
                   THEN [t \in TicketId |-> "absent"] ELSE slot
        /\ lifecycle' # "Running"
    BY <1>0, <1>4 DEF BeginShutdown, Advance, retainedVars
  <2>2. \A t \in TicketId : slot'[t] # "absent" => slot[t] # "absent"
    BY <2>1
  <2> QED BY <2>1, <2>2 DEF Ticketed, Current
<1>5. CASE ReplaceGeneration \/ DropContext
  <2>1. /\ Unborrowed /\ caller' = caller
        /\ slot' = [t \in TicketId |-> "absent"]
    BY <1>5 DEF ReplaceGeneration, DropContext, FreshOwner
  <2>2. /\ generation' \in Nat
        /\ generation' = 0 \/ (generation # 0 /\ generation' > generation)
    <3>1. CASE ReplaceGeneration
      <4>1. generation \in 1 .. MaxGeneration - 1 /\ generation' = generation + 1
        BY <3>1 DEF ReplaceGeneration, R!InstallGeneration
      <4>2. MaxGeneration \in Nat
        BY IdentityAssumption
      <4> QED BY <4>1, <4>2
    <3>2. CASE DropContext
      <4>1. generation' = 0
        BY <3>2 DEF DropContext, R!DropOwner
      <4> QED BY <4>1
    <3> QED BY <1>5, <3>1, <3>2
  <2>3. \A d \in Client : ~Current(d)'
    <3>1. ASSUME NEW d \in Client, Current(d)' PROVE FALSE
      <4>1. /\ caller[d].pc \in Holding /\ caller[d].generation = generation'
            /\ caller[d].generation # 0
        BY <2>1, <3>1 DEF Current, Ticketed
      <4>2. generation # 0 => caller[d].generation <= generation
        BY DEF Ticketed
      <4> QED BY <1>0, <2>2, <4>1, <4>2 DEF Shaped
    <3> QED BY <3>1
  <2>4. ASSUME NEW d \in Client
        PROVE  /\ caller[d].pc \notin {"reserved", "admitting"}
               /\ generation' # 0 => caller[d].generation <= generation'
    <3>1. caller[d].generation \in Nat
      BY <1>0, CallerFields
    <3> QED BY <1>0, <2>1, <2>2, <3>1 DEF Unborrowed, Ticketed, Shaped
  <2> QED BY <2>1, <2>3, <2>4 DEF Ticketed
<1> QED BY <1>1, <1>2, <1>3, <1>4, <1>5 DEF Next, ProgressStep

(* A ticket of this owner is with one caller, and numbers come in order: what  *)
(* a handle of an earlier owner drops is never a live slot.                    *)
THEOREM TicketInvariance == Spec => []Ticketed
<1>1. Init => Ticketed
  BY DEF Init, R!Init, Ticketed, Current, Holding, Idle, TicketId
<1>2. IInv /\ Ticketed /\ [Next]_vars => Ticketed'
  <2> SUFFICES ASSUME IInv, Ticketed, [Next]_vars PROVE Ticketed'
    OBVIOUS
  <2>1. CASE Next
    BY <2>1, TicketStep
  <2>2. CASE UNCHANGED vars
    <3>1. UNCHANGED <<generation, nextPrepared, lifecycle, slot, caller>>
      BY <2>2 DEF vars, retainedVars, ticketVars
    <3> QED BY <3>1 DEF Ticketed, Current
  <2> QED BY <2>1, <2>2
<1> QED BY <1>1, <1>2, Invariance, PTL DEF Spec

(* A live slot belongs to exactly one caller of this generation, and until     *)
(* shutdown nobody takes it away: not another caller, not the drop of a handle *)
(* whose ticket has the same number in an earlier owner.                       *)
THEOREM TicketsExclusive == Spec => []TicketsAreExclusive
<1>1. Shaped /\ Ticketed => TicketsAreExclusive
  <2> SUFFICES ASSUME Shaped, Ticketed PROVE TicketsAreExclusive
    OBVIOUS
  <2>1. ASSUME NEW t \in TicketId, slot[t] # "absent"
        PROVE  Cardinality({c \in Client : caller[c].ticket = t
                                          /\ caller[c].generation = generation}) = 1
    <3>1. PICK c \in Client : Current(c) /\ caller[c].ticket = t
      BY <2>1 DEF Ticketed
    <3>2. ASSUME NEW d \in Client, caller[d].ticket = t,
                 caller[d].generation = generation
          PROVE  d = c
      <4>1. t # 0
        BY DEF TicketId
      <4>2. Current(d)
        BY <3>2, <4>1 DEF Ticketed, Current
      <4> QED BY <3>1, <3>2, <4>2 DEF Ticketed
    <3>3. {d \in Client : caller[d].ticket = t
                          /\ caller[d].generation = generation} = {c}
      BY <3>1, <3>2 DEF Current
    <3> QED BY <3>3, FS_Singleton
  <2>2. ASSUME lifecycle = "Running", NEW c \in Client,
               caller[c].generation = generation,
               caller[c].pc \in {"reserved", "prepared", "admitting"}
        PROVE  slot[caller[c].ticket] # "absent"
    BY <2>2 DEF Ticketed, Current, Holding
  <2> QED BY <2>1, <2>2 DEF TicketsAreExclusive
<1>2. IInv => Shaped
  BY DEF IInv
<1> QED BY <1>1, <1>2, Invariance, TicketInvariance, PTL
-----------------------------------------------------------------------------
(* Initial contents *)

(* What accepts nothing, empties no storage and leaves transfers under way    *)
(* alone, or queues them, keeps the contents where they are                  *)
LEMMA SeedsStay ==
  ASSUME Seeding, content' = content, filled \subseteq filled',
         \A s \in SubmissionId : status'[s] = "Accepted" =>
           /\ status[s] = "Accepted"
           /\ transition'[s] = transition[s] /\ seeds'[s] = seeds[s]
           /\ Transferring(s) => seeds[s] \subseteq filled' \/ Transferring(s)'
  PROVE  Seeding'
<1>1. \A r \in Seeded : content'[r] # "Unmaterialized" => r \in filled'
  BY DEF Seeding
<1>2. ASSUME NEW s \in SubmissionId, status'[s] = "Accepted"
      PROVE  /\ R!Materialized(transition'[s]) \subseteq filled' \cup seeds'[s]
             /\ seeds'[s] \subseteq filled' \/ Transferring(s)'
  <2>1. /\ R!Materialized(transition[s]) \subseteq filled \cup seeds[s]
        /\ seeds[s] \subseteq filled \/ Transferring(s)
        /\ transition'[s] = transition[s] /\ seeds'[s] = seeds[s]
        /\ Transferring(s) => seeds[s] \subseteq filled' \/ Transferring(s)'
    BY <1>2 DEF Seeding
  <2>2. R!Materialized(transition'[s]) = R!Materialized(transition[s])
    BY <2>1
  <2> QED BY <2>1, <2>2
<1> QED BY <1>1, <1>2 DEF Seeding

(* A caller that goes on with its transfers, or has none                      *)
LEMMA TransfersGoOn ==
  ASSUME NEW c \in Client, \A d \in Client : d # c => caller'[d] = caller[d],
         Transfers(c) => Transfers(c)' /\ caller'[c].submission = caller[c].submission
  PROVE  \A s \in SubmissionId : Transferring(s) => Transferring(s)'
BY DEF Transferring, Transfers

(* Nobody else transfers while one is inside the interval                     *)
LEMMA TransferAlone ==
  ASSUME IInv
  PROVE  /\ \A c, d \in Client :
              caller[c].pc \in Owning /\ Transfers(d) => c = d
         /\ polling # "idle" => \A d \in Client : ~Transfers(d)
<1>1. \A d \in Client : Transfers(d) => order = d
  BY DEF IInv, Interval, Transfers, Inside
<1> QED BY <1>1, IdentityAssumption DEF IInv, Interval, Inside, Owning

(* An acceptance transfers what is in no storage yet                         *)
LEMMA AcceptSeeds ==
  ASSUME IInv, Seeding, NEW c \in Client, Accept(c)
  PROVE  Seeding'
<1> DEFINE g == graph[c]
<1>0. PICK s \in SubmissionId : s = nextSubmission
  BY Accepts
<1>1. /\ status[s] = "None" /\ caller[c].pc = "admitting"
      /\ status' = [status EXCEPT ![s] = "Accepted"]
      /\ transition' = [transition EXCEPT ![s] = g]
      /\ seeds' = [seeds EXCEPT ![s] = EffectiveSeeds(g)]
      /\ g.work \in Work
  BY <1>0, Accepts
<1>2. /\ caller \in [Client -> CallerState] /\ DOMAIN transition = SubmissionId
      /\ status \in [SubmissionId -> Statuses]
      /\ seeds \in [SubmissionId -> SUBSET Seeded]
  BY DEF IInv, Shaped
<1>3. /\ content' = content /\ filled' = filled
      /\ caller' = [caller EXCEPT ![c] =
           [Idle EXCEPT !.pc = "encoding", !.submission = s]]
  BY <1>0 DEF Accept, queueVars
<1> HIDE DEF g
<1>4. /\ caller'[c].pc = "encoding" /\ caller'[c].submission = s
      /\ \A d \in Client : d # c => caller'[d] = caller[d]
  BY <1>1, <1>2, <1>3, CallerSubmits
<1>5. \A t \in SubmissionId : Transferring(t) => Transferring(t)'
  BY <1>1, <1>4, TransfersGoOn DEF Transfers
<1>6. Transferring(s)'
  BY <1>4 DEF Transferring, Transfers
<1>7. ASSUME NEW t \in SubmissionId, status'[t] = "Accepted"
      PROVE  /\ R!Materialized(transition'[t]) \subseteq filled' \cup seeds'[t]
             /\ seeds'[t] \subseteq filled' \/ Transferring(t)'
  <2>1. CASE t = s
    <3>1. transition'[t] = g /\ seeds'[t] = EffectiveSeeds(g)
      BY <1>1, <1>2, <2>1
    <3>2. R!Materialized(g) \subseteq filled \cup EffectiveSeeds(g)
      <4>1. ASSUME NEW r \in R!Materialized(g)
            PROVE  content[r] # "Unmaterialized" => r \in filled
        <5>1. r \in Seeded
          BY <1>1, IdentityAssumption DEF R!Materialized, Seeded
        <5> QED BY <5>1 DEF Seeding
      <4> QED BY <4>1 DEF EffectiveSeeds
    <3>3. R!Materialized(transition'[t]) = R!Materialized(g)
      BY <3>1
    <3>4. R!Materialized(transition'[t]) \subseteq filled' \cup seeds'[t]
      BY <1>3, <3>1, <3>2, <3>3
    <3> QED BY <1>6, <2>1, <3>4
  <2>2. CASE t # s
    <3>1. /\ status[t] = "Accepted" /\ transition'[t] = transition[t]
          /\ seeds'[t] = seeds[t]
      BY <1>1, <1>2, <1>7, <2>2
    <3>2. R!Materialized(transition'[t]) = R!Materialized(transition[t])
      BY <3>1
    <3> QED BY <1>3, <1>5, <3>1, <3>2 DEF Seeding
  <2> QED BY <2>1, <2>2
<1> QED BY <1>3, <1>7 DEF Seeding

(* The first segment takes the transfers along                               *)
LEMMA QueueSeeds ==
  ASSUME IInv, Seeding, NEW c \in Client, QueueSegment(c)
  PROVE  Seeding'
<1>1. /\ caller[c].pc = "queueing" /\ content' = content
      /\ UNCHANGED <<status, transition, seeds>>
      /\ filled' = filled \cup
           IF caller[c].segment = 1 THEN seeds[caller[c].submission] ELSE {}
  BY DEF QueueSegment, At, retainedVars, recordVars
<1>2. ASSUME NEW s \in SubmissionId, Transferring(s) PROVE seeds[s] \subseteq filled'
  <2>1. PICK d \in Client : caller[d].submission = s /\ Transfers(d)
    BY <1>2 DEF Transferring
  <2>2. d = c
    BY <1>1, <2>1, TransferAlone DEF Owning
  <2> QED BY <1>1, <2>1, <2>2 DEF Transfers
<1> QED BY <1>1, <1>2, SeedsStay

(* What is marked as queued is on the queue                                  *)
LEMMA MarkSeeds ==
  ASSUME IInv, Seeding, NEW c \in Client, MarkSegment(c)
  PROVE  Seeding'
<1> DEFINE s == caller[c].submission
           first == IF caller[c].segment = 1 THEN seeds[s] ELSE {}
<1>1. /\ caller[c].pc = "queued" /\ UNCHANGED <<status, transition, seeds, filled>>
      /\ content' = [r \in Seeded |->
           IF r \in first /\ content[r] = "Unmaterialized"
           THEN "Queued" ELSE content[r]]
  BY DEF MarkSegment, At, R!Mark, retainedVars, recordVars, queueVars
<1>2. s \in SubmissionId /\ status[s] = "Accepted"
  BY <1>1 DEF IInv, Equipped, Owning
<1>3. \A t \in SubmissionId : ~Transferring(t)
  <2>1. \A d \in Client : ~Transfers(d)
    BY <1>1, TransferAlone DEF Owning, Transfers
  <2> QED BY <2>1 DEF Transferring
<1>4. first \subseteq filled
  BY <1>2, <1>3 DEF Seeding
<1>5. \A r \in Seeded : content'[r] # "Unmaterialized" => r \in filled'
  BY <1>1, <1>4 DEF Seeding
<1>6. ASSUME NEW t \in SubmissionId, status'[t] = "Accepted"
      PROVE  /\ R!Materialized(transition'[t]) \subseteq filled' \cup seeds'[t]
             /\ seeds'[t] \subseteq filled' \/ Transferring(t)'
  <2>1. R!Materialized(transition'[t]) = R!Materialized(transition[t])
    BY <1>1
  <2> QED BY <1>1, <1>3, <1>6, <2>1 DEF Seeding
<1> QED BY <1>1, <1>5, <1>6 DEF Seeding

(* A terminal effect changes contents only to Completed, for a plan whose     *)
(* transfers are on the queue                                                *)
LEMMA EndSeeds ==
  ASSUME IInv, Seeding, NEW s \in SubmissionId, Ending(s), slot' = slot,
         filled' = filled,
         \/ content' = content
         \/ CompleteSubmission(s) /\ \A t \in SubmissionId : ~Transferring(t),
         \A t \in SubmissionId :
           status'[t] = "Accepted" /\ Transferring(t) => Transferring(t)'
  PROVE  Seeding'
<1>1. Ended(s)
  BY Ends DEF IInv
<1>2. \A t \in SubmissionId : status'[t] = "Accepted" =>
        /\ status[t] = "Accepted"
        /\ transition'[t] = transition[t] /\ seeds'[t] = seeds[t]
        /\ Transferring(t) => seeds[t] \subseteq filled' \/ Transferring(t)'
  BY <1>1 DEF Ended
<1>3. CASE content' = content
  BY <1>2, <1>3, SeedsStay
<1>4. CASE content' # content
  <2>1. /\ status[s] = "Accepted"
        /\ content' = [r \in Seeded |->
             IF r \in seeds[s] THEN "Completed" ELSE content[r]]
    BY <1>4 DEF CompleteSubmission
  <2>2. \A t \in SubmissionId : ~Transferring(t)
    BY <1>4
  <2>3. seeds[s] \subseteq filled
    BY <2>1, <2>2 DEF Seeding
  <2>4. \A r \in Seeded : content'[r] # "Unmaterialized" => r \in filled'
    BY <2>1, <2>3 DEF Seeding
  <2>5. ASSUME NEW t \in SubmissionId, status'[t] = "Accepted"
        PROVE  /\ R!Materialized(transition'[t]) \subseteq filled' \cup seeds'[t]
               /\ seeds'[t] \subseteq filled' \/ Transferring(t)'
    <3>1. /\ status[t] = "Accepted" /\ transition'[t] = transition[t]
          /\ seeds'[t] = seeds[t]
      BY <1>2, <2>5
    <3>2. R!Materialized(transition'[t]) = R!Materialized(transition[t])
      BY <3>1
    <3> QED BY <2>2, <3>1, <3>2 DEF Seeding
  <2> QED BY <2>1, <2>4, <2>5 DEF Seeding
<1> QED BY <1>3, <1>4

(* What an accepted plan uses stays realized                                 *)
LEMMA PinnedUses ==
  ASSUME NEW s \in inFlight, status[s] = "Accepted"
  PROVE  transition[s].work.uses \subseteq Pinned
BY DEF Pinned

(* Collecting a realization forgets no content an accepted plan relies on    *)
LEMMA EvictSeeds ==
  ASSUME IInv, Seeding, NEW r \in Evictable, Evict(r)
  PROVE  Seeding'
<1>1. /\ r \notin Pinned /\ UNCHANGED <<status, transition, seeds, caller>>
      /\ content' = [q \in Seeded |-> IF q = r THEN "Unmaterialized" ELSE content[q]]
      /\ filled' = filled \ {r}
  BY DEF Evict, retainedVars, recordVars
<1>2. \A q \in Seeded : content'[q] # "Unmaterialized" => q \in filled'
  BY <1>1 DEF Seeding
<1>3. ASSUME NEW s \in SubmissionId, status'[s] = "Accepted"
      PROVE  /\ R!Materialized(transition'[s]) \subseteq filled' \cup seeds'[s]
             /\ seeds'[s] \subseteq filled' \/ Transferring(s)'
  <2>1. status[s] = "Accepted"
    BY <1>1, <1>3
  <2>2. s \in inFlight
    BY <2>1 DEF IInv, Recorded, RecordsMatchHandles, accepted
  <2>3. r \notin transition[s].work.uses
    <3>1. transition[s].work.uses \subseteq Pinned
      BY <2>1, <2>2, PinnedUses
    <3>2. r \notin Pinned
      BY <1>1
    <3> QED BY <3>1, <3>2
  <2>4. /\ r \notin R!Materialized(transition[s])
        /\ seeds[s] \subseteq R!Materialized(transition[s])
    BY <2>1, <2>3 DEF IInv, Planned, R!Materialized
  <2>5. Transferring(s)' = Transferring(s)
    BY <1>1 DEF Transferring, Transfers
  <2>6. R!Materialized(transition'[s]) = R!Materialized(transition[s])
    BY <1>1
  <2> QED BY <1>1, <2>1, <2>4, <2>5, <2>6 DEF Seeding
<1> QED BY <1>1, <1>2, <1>3 DEF Seeding

(* Every step keeps contents ahead of their use                              *)
LEMMA SeedingStep ==
  ASSUME IInv, Seeding, Next
  PROVE  Seeding'
<1> USE DEF Pc
<1>0. Shaped /\ caller \in [Client -> CallerState]
  BY DEF IInv, Shaped
<1>1. ASSUME NEW c \in Client, CallerStep(c) PROVE Seeding'
  <2>1. CASE \/ \E w \in Work, known \in SUBSET Retained : PrepareGraph(c, w, known)
             \/ DropGraph(c)
    <3>1. UNCHANGED <<status, transition, seeds, content, filled, caller>>
      BY <2>1 DEF PrepareGraph, DropGraph, R!PrepareGraph, R!DropGraph,
                  recordVars, queueVars
    <3> QED BY <3>1, SeedsStay DEF Transferring, Transfers
  <2>2. CASE \/ ReservePrepared(c) \/ CommitPrepared(c) \/ AbandonPreparation(c)
             \/ DropPrepared(c) \/ BeginSubmit(c) \/ RejectAcceptance(c)
    <3>1. /\ UNCHANGED <<status, transition, seeds, content, filled>>
          /\ caller[c].pc \in {"idle", "reserved", "prepared", "admitting"}
          /\ \A d \in Client : d # c => caller'[d] = caller[d]
      BY <1>0, <2>2 DEF ReservePrepared, CommitPrepared, AbandonPreparation,
           DropPrepared, BeginSubmit, RejectAcceptance, At, Goto, retainedVars,
           recordVars, queueVars
    <3>2. ~Transfers(c)
      BY <3>1 DEF Transfers
    <3> QED BY <3>1, <3>2, TransfersGoOn, SeedsStay
  <2>3. CASE Accept(c)
    BY <2>3, AcceptSeeds
  <2>4. CASE Encode(c)
    <3>1. /\ UNCHANGED <<status, transition, seeds, content, filled>>
          /\ caller' = [caller EXCEPT ![c].pc = "queueing", ![c].segment = 1]
      BY <2>4 DEF Encode, retainedVars, recordVars, queueVars
    <3>2. /\ caller'[c].pc = "queueing" /\ caller'[c].segment = 1
          /\ caller'[c].submission = caller[c].submission
          /\ \A d \in Client : d # c => caller'[d] = caller[d]
      BY <1>0, <3>1, CallerAdvances
    <3>3. Transfers(c)'
      BY <3>2 DEF Transfers
    <3> QED BY <3>1, <3>2, <3>3, TransfersGoOn, SeedsStay
  <2>5. CASE QueueSegment(c)
    BY <2>5, QueueSeeds
  <2>6. CASE MarkSegment(c)
    BY <2>6, MarkSeeds
  <2>7. CASE NextSegment(c) \/ EndSubmit(c)
    <3>1. /\ UNCHANGED <<status, transition, seeds, content, filled>>
          /\ caller[c].pc = "marked"
          /\ \A d \in Client : d # c => caller'[d] = caller[d]
      BY <1>0, <2>7 DEF NextSegment, EndSubmit, At, retainedVars, recordVars, queueVars
    <3>2. ~Transfers(c)
      BY <3>1 DEF Transfers
    <3> QED BY <3>1, <3>2, TransfersGoOn, SeedsStay
  <2>8. CASE EncodeFails(c) \/ SegmentFails(c)
    <3> DEFINE s == caller[c].submission
    <3>1. caller[c].pc \in Owning /\ s \in SubmissionId /\ FailOwn(c)
      BY <2>8, EndingSteps
    <3>2. /\ FailSubmission(s) /\ slot' = slot /\ filled' = filled
          /\ content' = content /\ caller' = [caller EXCEPT ![c] = Idle]
      BY <3>1 DEF FailOwn, ticketVars, queueVars
    <3> HIDE DEF s
    <3>3. status'[s] # "Accepted"
      BY <3>1, <3>2, FailEnds DEF IInv
    <3>4. ASSUME NEW t \in SubmissionId, status'[t] = "Accepted"
          PROVE  ~Transferring(t)
      <4>1. ASSUME NEW d \in Client, caller[d].submission = t, Transfers(d)
            PROVE  FALSE
        BY <3>1, <3>3, <3>4, <4>1, TransferAlone DEF s
      <4> QED BY <4>1 DEF Transferring
    <3> QED BY <3>1, <3>2, <3>4, EndSeeds DEF Ending
  <2> QED BY <1>1, <2>1, <2>2, <2>3, <2>4, <2>5, <2>6, <2>7, <2>8
       DEF CallerStep, SubmitStep
<1>2. CASE DrainEvent \/ Sweep
  <2>1. polling # "idle"
    BY <1>2 DEF DrainEvent, Sweep
  <2>2. \A t \in SubmissionId : ~Transferring(t)
    BY <2>1, TransferAlone DEF Transferring
  <2>3. PICK s \in SubmissionId : Ending(s)
    BY <1>2, EndingSteps
  <2>4. CASE Sweep
    <3>1. /\ Min(inFlight) \in SubmissionId /\ FailSubmission(Min(inFlight))
          /\ slot' = slot /\ filled' = filled /\ content' = content
      <4>1. inFlight \in SUBSET Nat /\ inFlight # {} /\ inFlight \subseteq SubmissionId
        BY <1>0, <2>4, IdentityAssumption DEF Sweep, Shaped, SubmissionId
      <4>2. Min(inFlight) \in inFlight
        BY <4>1, LeastIsMin
      <4> QED BY <2>4, <4>1, <4>2 DEF Sweep, ticketVars, queueVars
    <3> QED BY <2>2, <3>1, EndSeeds DEF Ending
  <2>5. CASE DrainEvent
    <3>1. PICK t \in SubmissionId :
            \/ CompleteSubmission(t)
            \/ \E b \in ReadbackId, mapped \in BOOLEAN : CompleteReadback(t, b, mapped)
      BY <2>5, Delivers DEF IInv
    <3>2. slot' = slot /\ filled' = filled
      BY <2>5 DEF DrainEvent, ticketVars, queueVars
    <3>3. CompleteSubmission(t) \/ content' = content
      BY <3>1 DEF CompleteReadback
    <3> QED BY <2>2, <3>1, <3>2, <3>3, EndSeeds DEF Ending
  <2> QED BY <1>2, <2>4, <2>5
<1>3. CASE \/ BeginProgress \/ Poll \/ BeginSweep \/ EndProgress
           \/ DeviceCalls \/ DeviceFault \/ BeginShutdown
  <2>1. UNCHANGED <<status, transition, seeds, content, filled, caller>>
    BY <1>3 DEF BeginProgress, Poll, BeginSweep, EndProgress, DeviceCalls,
                FireCallback, DeviceFault, BeginShutdown, retainedVars,
                recordVars, queueVars
  <2> QED BY <2>1, SeedsStay DEF Transferring, Transfers
<1>4. ASSUME NEW r \in Evictable, Evict(r) PROVE Seeding'
  BY <1>4, EvictSeeds
<1>5. CASE ReplaceGeneration \/ DropContext
  <2>1. content' = [r \in Seeded |-> "Unmaterialized"]
    BY <1>5 DEF ReplaceGeneration, DropContext, FreshOwner
  <2>2. \A s \in SubmissionId : status'[s] # "Accepted"
    <3>1. CASE ReplaceGeneration
      BY <3>1 DEF ReplaceGeneration, R!InstallGeneration, R!SubmissionId,
                  SubmissionId
    <3>2. CASE DropContext
      BY <3>2 DEF DropContext, R!DropOwner, R!SubmissionId, SubmissionId
    <3> QED BY <1>5, <3>1, <3>2
  <2> QED BY <2>1, <2>2 DEF Seeding
<1> QED BY <1>1, <1>2, <1>3, <1>4, <1>5 DEF Next, ProgressStep

(* Prepared contents are in the storage, or on their way to it ahead of every *)
(* command that relies on them, whatever is accepted, failed or evicted.      *)
THEOREM SeedingInvariance == Spec => []Seeding
<1>1. Init => Seeding
  <2>1. Init => /\ content = [r \in Seeded |-> "Unmaterialized"]
                /\ status = [s \in SubmissionId |-> "None"]
    BY DEF Init, R!Init, R!SubmissionId, SubmissionId
  <2> QED BY <2>1 DEF Seeding
<1>2. IInv /\ Seeding /\ [Next]_vars => Seeding'
  <2> SUFFICES ASSUME IInv, Seeding, [Next]_vars PROVE Seeding'
    OBVIOUS
  <2>1. CASE Next
    BY <2>1, SeedingStep
  <2>2. CASE UNCHANGED vars
    <3>1. UNCHANGED <<status, transition, seeds, content, filled, caller>>
      BY <2>2 DEF vars, retainedVars, recordVars, queueVars
    <3> QED BY <3>1, SeedsStay DEF Transferring, Transfers
  <2> QED BY <2>1, <2>2
<1> QED BY <1>1, <1>2, Invariance, PTL DEF Spec

(* A plan that was told its contents are prepared already finds them in the   *)
(* storage of today: queued before its commands, or transferred with them.    *)
THEOREM ContentsBeforeUse == Spec => []SeededBeforeUse
<1>1. Seeding => SeededBeforeUse
  <2> SUFFICES ASSUME Seeding, NEW s \in accepted
               PROVE  \/ R!Materialized(transition[s]) \subseteq filled
                      \/ Transferring(s)
    BY DEF SeededBeforeUse, Transferring, Transfers
  <2> QED BY DEF Seeding, accepted
<1> QED BY <1>1, SeedingInvariance, PTL

-----------------------------------------------------------------------------
(* Budgets *)

(* What is charged is what records hold and handles wait for; only an         *)
(* accepted submission holds upload bytes.                                   *)
Charged ==
  /\ held \in [SubmissionId -> Nat]
  /\ \A s \in SubmissionId : status[s] # "Accepted" => held[s] = 0
  /\ uploadBytes = SumFunctionOnSet(held, SubmissionId)
  /\ readbackBytes = SumFunctionOnSet(OutstandingBytes, SubmissionId)
  /\ pendingReadbacks = SumFunctionOnSet(OutstandingCount, SubmissionId)
  /\ uploadBytes <= MaxUpload
  /\ readbackBytes <= MaxReadback
  /\ pendingReadbacks <= MaxPendingReadbacks
  /\ Cardinality(accepted) <= MaxInFlight

(* There are finitely many submissions                                       *)
LEMMA SubmissionsAreFinite == IsFiniteSet(SubmissionId)
BY FS_Interval, IdentityAssumption DEF SubmissionId

(* Readbacks have a size                                                     *)
LEMMA BytesAreNumbers ==
  ASSUME NEW bs \in SUBSET ReadbackId
  PROVE  Bytes(bs) \in Nat
<1>1. IsFiniteSet(bs) /\ Sizes(ReadbackSize, bs)
  BY FS_Subset, IdentityAssumption, PolicyAssumption DEF Sizes
<1> QED BY <1>1, SumType DEF Bytes

(* What is waited for of a submission can be counted                         *)
Countable ==
  /\ \A s \in SubmissionId :
       /\ IsFiniteSet(Outstanding(s))
       /\ Bytes(Outstanding(s)) \in Nat /\ Cardinality(Outstanding(s)) \in Nat
  /\ Sizes(OutstandingBytes, SubmissionId) /\ Sizes(OutstandingCount, SubmissionId)

(* always, every readback being of a finite set                               *)
LEMMA OutstandingIsCountable == Countable
<1>1. ASSUME NEW s \in SubmissionId
      PROVE  /\ IsFiniteSet(Outstanding(s))
             /\ Bytes(Outstanding(s)) \in Nat /\ Cardinality(Outstanding(s)) \in Nat
  <2>1. Outstanding(s) \in SUBSET ReadbackId
    BY DEF Outstanding
  <2>2. IsFiniteSet(Outstanding(s))
    BY WaitingIsFinite
  <2> QED BY <2>1, <2>2, BytesAreNumbers, FS_CardinalityType
<1> QED BY <1>1 DEF OutstandingBytes, OutstandingCount, Sizes, Countable

(* and after any step                                                        *)
LEMMA OutstandingStaysCountable == Countable'
BY OutstandingIsCountable, PTL

(* A step that touches one submission changes the sums by what it changes    *)
LEMMA Recharges ==
  ASSUME Charged, NEW s \in SubmissionId, held' \in [SubmissionId -> Nat],
         \A t \in SubmissionId :
           t # s => held'[t] = held[t] /\ readbacks'[t] = readbacks[t]
  PROVE  /\ held[s] \in Nat /\ held'[s] \in Nat
         /\ uploadBytes \in Nat /\ readbackBytes \in Nat /\ pendingReadbacks \in Nat
         /\ held[s] <= uploadBytes
         /\ SumFunctionOnSet(held', SubmissionId) = (uploadBytes - held[s]) + held'[s]
         /\ Bytes(Outstanding(s)) <= readbackBytes
         /\ SumFunctionOnSet(OutstandingBytes', SubmissionId) =
              (readbackBytes - Bytes(Outstanding(s))) + Bytes(Outstanding(s)')
         /\ Cardinality(Outstanding(s)) <= pendingReadbacks
         /\ SumFunctionOnSet(OutstandingCount', SubmissionId) =
              (pendingReadbacks - Cardinality(Outstanding(s)))
                + Cardinality(Outstanding(s)')
<1>1. IsFiniteSet(SubmissionId)
  BY SubmissionsAreFinite
<1>2. /\ SumFunctionOnSet(held, SubmissionId) \in Nat
      /\ held[s] \in Nat /\ held'[s] \in Nat
      /\ held[s] <= SumFunctionOnSet(held, SubmissionId)
      /\ SumFunctionOnSet(held', SubmissionId) =
           (SumFunctionOnSet(held, SubmissionId) - held[s]) + held'[s]
  <2>1. Sizes(held, SubmissionId) /\ Sizes(held', SubmissionId)
    BY DEF Charged, Sizes
  <2> QED BY <1>1, <2>1, SumChanges
<1>3. ASSUME NEW t \in SubmissionId, t # s
      PROVE  /\ OutstandingBytes'[t] = OutstandingBytes[t]
             /\ OutstandingCount'[t] = OutstandingCount[t]
  <2>1. Outstanding(t)' = Outstanding(t)
    BY <1>3 DEF Outstanding
  <2> QED BY <2>1 DEF OutstandingBytes, OutstandingCount
<1>4. /\ SumFunctionOnSet(OutstandingBytes, SubmissionId) \in Nat
      /\ OutstandingBytes[s] <= SumFunctionOnSet(OutstandingBytes, SubmissionId)
      /\ SumFunctionOnSet(OutstandingBytes', SubmissionId) =
           (SumFunctionOnSet(OutstandingBytes, SubmissionId) - OutstandingBytes[s])
             + OutstandingBytes'[s]
  BY <1>1, <1>3, OutstandingIsCountable, OutstandingStaysCountable, SumChanges
     DEF Countable
<1>5. /\ SumFunctionOnSet(OutstandingCount, SubmissionId) \in Nat
      /\ OutstandingCount[s] <= SumFunctionOnSet(OutstandingCount, SubmissionId)
      /\ SumFunctionOnSet(OutstandingCount', SubmissionId) =
           (SumFunctionOnSet(OutstandingCount, SubmissionId) - OutstandingCount[s])
             + OutstandingCount'[s]
  BY <1>1, <1>3, OutstandingIsCountable, OutstandingStaysCountable, SumChanges
     DEF Countable
<1>6. /\ OutstandingBytes[s] = Bytes(Outstanding(s))
      /\ OutstandingBytes'[s] = Bytes(Outstanding(s)')
      /\ OutstandingCount[s] = Cardinality(Outstanding(s))
      /\ OutstandingCount'[s] = Cardinality(Outstanding(s)')
  BY DEF OutstandingBytes, OutstandingCount
<1> QED BY <1>2, <1>4, <1>5, <1>6 DEF Charged

(* One submission fewer, or none more, is accepted                           *)
LEMMA FewerAccepted ==
  ASSUME Charged, \A t \in SubmissionId : status'[t] = "Accepted" => status[t] = "Accepted"
  PROVE  Cardinality(accepted') <= MaxInFlight
<1>1. accepted' \subseteq accepted /\ accepted \subseteq SubmissionId
  BY DEF accepted
<1>2. IsFiniteSet(accepted)
  BY <1>1, SubmissionsAreFinite, FS_Subset
<1>3. /\ Cardinality(accepted') <= Cardinality(accepted)
      /\ Cardinality(accepted') \in Nat /\ Cardinality(accepted) \in Nat
  BY <1>1, <1>2, FS_Subset, FS_CardinalityType
<1> QED BY <1>3, PolicyAssumption DEF Charged

(* A step that charges and frees nothing                                     *)
LEMMA ChargesStay ==
  ASSUME Charged,
         UNCHANGED <<held, readbacks, uploadBytes, readbackBytes, pendingReadbacks>>,
         \A t \in SubmissionId : status'[t] = status[t]
  PROVE  Charged'
<1>1. OutstandingBytes' = OutstandingBytes /\ OutstandingCount' = OutstandingCount
  BY DEF OutstandingBytes, OutstandingCount, Outstanding
<1>2. Cardinality(accepted') <= MaxInFlight
  BY FewerAccepted
<1> QED BY <1>1, <1>2 DEF Charged

(* The bytes of a submission that ends are freed, whatever else ends          *)
LEMMA FreesUpload ==
  ASSUME Charged, NEW s \in SubmissionId, status[s] = "Accepted", ReleaseUpload(s)
  PROVE  /\ held' \in [SubmissionId -> Nat] /\ held'[s] = 0
         /\ \A t \in SubmissionId : t # s => held'[t] = held[t]
         /\ uploadBytes' = Minus(uploadBytes, held[s])
BY DEF ReleaseUpload, Charged

(* A failure frees what the submission still holds and what is waited for     *)
LEMMA FailCharges ==
  ASSUME IInv, Charged, NEW s \in SubmissionId, FailSubmission(s), slot' = slot
  PROVE  Charged'
<1>0. Shaped /\ Recorded /\ Draining
  BY DEF IInv
<1>1. /\ Ended(s) /\ Outstanding(s)' = {} /\ status'[s] # "Accepted"
  BY <1>0, FailEnds
<1>2. /\ held' \in [SubmissionId -> Nat] /\ held'[s] = 0
      /\ \A t \in SubmissionId : t # s => held'[t] = held[t]
      /\ uploadBytes' = Minus(uploadBytes, held[s])
  <2>1. CASE status[s] = "Accepted"
    BY <2>1, FreesUpload DEF FailSubmission
  <2>2. CASE status[s] # "Accepted"
    <3>1. UNCHANGED <<uploadBytes, held>> /\ held[s] = 0
      BY <2>2 DEF FailSubmission, Charged
    <3>2. uploadBytes \in Nat
      BY SubmissionsAreFinite, SumType DEF Charged, Sizes
    <3> QED BY <3>1, <3>2 DEF Charged, Minus
  <2> QED BY <2>1, <2>2
<1>3. /\ readbackBytes' = Minus(readbackBytes, Bytes(Outstanding(s)))
      /\ pendingReadbacks' = Minus(pendingReadbacks, Cardinality(Outstanding(s)))
  BY DEF FailSubmission
<1>4. \A t \in SubmissionId : t # s => held'[t] = held[t] /\ readbacks'[t] = readbacks[t]
  BY <1>1, <1>2 DEF Ended
<1>5. Bytes(Outstanding(s)') = 0 /\ Cardinality(Outstanding(s)') = 0
  BY <1>1, SumOfNone, FS_EmptySet DEF Bytes
<1>6. \A t \in SubmissionId : status'[t] # "Accepted" => held'[t] = 0
  <2>1. ASSUME NEW t \in SubmissionId, status'[t] # "Accepted", t # s
        PROVE  held'[t] = 0
    BY <1>1, <1>2, <2>1 DEF Ended, Charged
  <2> QED BY <1>2, <2>1
<1>7. Cardinality(accepted') <= MaxInFlight
  BY <1>1, FewerAccepted DEF Ended
<1>8. /\ uploadBytes' = SumFunctionOnSet(held', SubmissionId)
      /\ uploadBytes' <= MaxUpload
  <2>1. /\ held[s] \in Nat /\ uploadBytes \in Nat /\ held[s] <= uploadBytes
        /\ SumFunctionOnSet(held', SubmissionId) = (uploadBytes - held[s]) + held'[s]
    BY <1>2, <1>4, Recharges
  <2> QED BY <1>2, <2>1, PolicyAssumption DEF Minus, Charged
<1>9. /\ readbackBytes' = SumFunctionOnSet(OutstandingBytes', SubmissionId)
      /\ readbackBytes' <= MaxReadback
  <2>1. /\ readbackBytes \in Nat /\ Bytes(Outstanding(s)) <= readbackBytes
        /\ SumFunctionOnSet(OutstandingBytes', SubmissionId) =
             (readbackBytes - Bytes(Outstanding(s))) + Bytes(Outstanding(s)')
    BY <1>2, <1>4, Recharges
  <2>2. Bytes(Outstanding(s)) \in Nat
    BY OutstandingIsCountable DEF Countable
  <2> QED BY <1>3, <1>5, <2>1, <2>2, PolicyAssumption DEF Minus, Charged
<1>10. /\ pendingReadbacks' = SumFunctionOnSet(OutstandingCount', SubmissionId)
       /\ pendingReadbacks' <= MaxPendingReadbacks
  <2>1. /\ pendingReadbacks \in Nat /\ Cardinality(Outstanding(s)) <= pendingReadbacks
        /\ SumFunctionOnSet(OutstandingCount', SubmissionId) =
             (pendingReadbacks - Cardinality(Outstanding(s))) + Cardinality(Outstanding(s)')
    BY <1>2, <1>4, Recharges
  <2>2. Cardinality(Outstanding(s)) \in Nat
    BY OutstandingIsCountable DEF Countable
  <2> QED BY <1>3, <1>5, <2>1, <2>2, PolicyAssumption DEF Minus, Charged
<1> QED BY <1>2, <1>6, <1>7, <1>8, <1>9, <1>10 DEF Charged

(* A completion frees the bytes held and no readback                         *)
LEMMA CompleteCharges ==
  ASSUME IInv, Charged, NEW s \in SubmissionId, CompleteSubmission(s), slot' = slot
  PROVE  Charged'
<1>0. Shaped /\ Recorded /\ Draining
  BY DEF IInv
<1>1. CASE s \in inFlight /\ status[s] = "Accepted"
  <2>1. /\ ReleaseUpload(s)
        /\ UNCHANGED <<readbacks, readbackBytes, pendingReadbacks>>
    BY <1>1 DEF CompleteSubmission
  <2>2. /\ held' \in [SubmissionId -> Nat] /\ held'[s] = 0
        /\ \A t \in SubmissionId : t # s => held'[t] = held[t]
        /\ uploadBytes' = Minus(uploadBytes, held[s])
    BY <1>1, <2>1, FreesUpload
  <2>3. Ended(s)
    BY <1>0, CompleteEnds
  <2>4. OutstandingBytes' = OutstandingBytes /\ OutstandingCount' = OutstandingCount
    BY <2>1 DEF OutstandingBytes, OutstandingCount, Outstanding
  <2>5. \A t \in SubmissionId : status'[t] # "Accepted" => held'[t] = 0
    <3>1. ASSUME NEW t \in SubmissionId, status'[t] # "Accepted", t # s
          PROVE  held'[t] = 0
      BY <2>2, <2>3, <3>1 DEF Ended, Charged
    <3> QED BY <2>2, <3>1
  <2>6. Cardinality(accepted') <= MaxInFlight
    BY <2>3, FewerAccepted DEF Ended
  <2>7. /\ uploadBytes' = SumFunctionOnSet(held', SubmissionId)
        /\ uploadBytes' <= MaxUpload
    <3>1. /\ held[s] \in Nat /\ uploadBytes \in Nat /\ held[s] <= uploadBytes
          /\ SumFunctionOnSet(held', SubmissionId) = (uploadBytes - held[s]) + held'[s]
      BY <2>1, <2>2, Recharges
    <3> QED BY <2>2, <3>1, PolicyAssumption DEF Minus, Charged
  <2> QED BY <2>1, <2>2, <2>4, <2>5, <2>6, <2>7 DEF Charged
<1>2. CASE ~(s \in inFlight /\ status[s] = "Accepted")
  <2>1. UNCHANGED <<retainedVars, recordVars>>
    BY <1>2 DEF CompleteSubmission
  <2> QED BY <2>1, ChargesStay DEF retainedVars, recordVars
<1> QED BY <1>1, <1>2

(* An answer frees its own bytes, once                                       *)
LEMMA AnswerCharges ==
  ASSUME IInv, Charged, NEW s \in SubmissionId, NEW b \in ReadbackId,
         NEW mapped \in BOOLEAN, CompleteReadback(s, b, mapped), slot' = slot
  PROVE  Charged'
<1>0. Shaped /\ Recorded /\ Draining
  BY DEF IInv
<1>1. CASE s \in inFlight /\ readbacks[s][b] = "Pending"
  <2>1. PICK answer \in {"Ready", "Failed"} :
             readbacks' = [readbacks EXCEPT ![s][b] = answer]
    BY <1>1 DEF CompleteReadback
  <2>2. /\ readbackBytes' = Minus(readbackBytes, ReadbackSize[b])
        /\ pendingReadbacks' = Minus(pendingReadbacks, 1)
        /\ UNCHANGED <<retainedVars, held, uploadBytes>>
    BY <1>1 DEF CompleteReadback
  <2>3. b \in Outstanding(s) /\ Outstanding(s)' = Outstanding(s) \ {b}
    BY <1>0, <1>1, <2>1 DEF Outstanding, Shaped
  <2>4. /\ IsFiniteSet(Outstanding(s)) /\ IsFiniteSet(Outstanding(s)')
        /\ Bytes(Outstanding(s)) \in Nat /\ Cardinality(Outstanding(s)) \in Nat
        /\ Bytes(Outstanding(s)') \in Nat /\ Cardinality(Outstanding(s)') \in Nat
    BY OutstandingIsCountable, OutstandingStaysCountable DEF Countable
  <2>5. Bytes(Outstanding(s)) = ReadbackSize[b] + Bytes(Outstanding(s)')
    <3>1. Sizes(ReadbackSize, Outstanding(s))
      BY PolicyAssumption DEF Sizes, Outstanding
    <3>2. SumFunctionOnSet(ReadbackSize, Outstanding(s)) =
            ReadbackSize[b] + SumFunctionOnSet(ReadbackSize, Outstanding(s) \ {b})
      BY <2>3, <2>4, <3>1, SumSplits
    <3> QED BY <2>3, <3>2 DEF Bytes
  <2>6. Cardinality(Outstanding(s)) = 1 + Cardinality(Outstanding(s)')
    <3>1. Cardinality(Outstanding(s) \ {b}) = Cardinality(Outstanding(s)) - 1
      BY <2>3, <2>4, FS_RemoveElement
    <3> QED BY <2>3, <2>4, <3>1
  <2>7. held' \in [SubmissionId -> Nat]
    BY <2>2 DEF Charged
  <2>8. \A t \in SubmissionId : t # s => held'[t] = held[t] /\ readbacks'[t] = readbacks[t]
    BY <2>1, <2>2
  <2>9. ReadbackSize[b] \in Nat
    BY PolicyAssumption
  <2>10. /\ readbackBytes' = SumFunctionOnSet(OutstandingBytes', SubmissionId)
         /\ readbackBytes' <= MaxReadback
    <3>1. /\ readbackBytes \in Nat /\ Bytes(Outstanding(s)) <= readbackBytes
          /\ SumFunctionOnSet(OutstandingBytes', SubmissionId) =
               (readbackBytes - Bytes(Outstanding(s))) + Bytes(Outstanding(s)')
      BY <2>7, <2>8, Recharges
    <3> QED BY <2>2, <2>4, <2>5, <2>9, <3>1, PolicyAssumption DEF Minus, Charged
  <2>11. /\ pendingReadbacks' = SumFunctionOnSet(OutstandingCount', SubmissionId)
         /\ pendingReadbacks' <= MaxPendingReadbacks
    <3>1. /\ pendingReadbacks \in Nat /\ Cardinality(Outstanding(s)) <= pendingReadbacks
          /\ SumFunctionOnSet(OutstandingCount', SubmissionId) =
               (pendingReadbacks - Cardinality(Outstanding(s))) + Cardinality(Outstanding(s)')
      BY <2>7, <2>8, Recharges
    <3> QED BY <2>2, <2>4, <2>6, <3>1, PolicyAssumption DEF Minus, Charged
  <2>12. status' = status
    BY <2>2 DEF retainedVars
  <2>13. Cardinality(accepted') <= MaxInFlight
    BY <2>12, FewerAccepted
  <2> QED BY <2>2, <2>7, <2>10, <2>11, <2>12, <2>13 DEF Charged
<1>2. CASE ~(s \in inFlight /\ readbacks[s][b] = "Pending")
  <2>1. UNCHANGED <<retainedVars, recordVars>>
    BY <1>2 DEF CompleteReadback
  <2> QED BY <2>1, ChargesStay DEF retainedVars, recordVars
<1> QED BY <1>1, <1>2

(* What a plan brings to the budgets                                         *)
LEMMA PlanCharges ==
  ASSUME NEW g, g.work \in Work
  PROVE  /\ EffectiveUpload(g) \in Nat
         /\ Bytes(PlanReadbacks(g.work)) \in Nat
         /\ Cardinality(PlanReadbacks(g.work)) \in Nat
<1>1. EffectiveSeeds(g) \subseteq g.work.uses /\ EffectiveSeeds(g) \subseteq Seeded
  BY IdentityAssumption DEF EffectiveSeeds, R!Materialized, Seeded
<1>2. IsFiniteSet(EffectiveSeeds(g))
  BY <1>1, FS_Subset, PlanAssumption
<1>3. Sizes(SeedBytes, EffectiveSeeds(g))
  BY <1>1, PolicyAssumption DEF Sizes
<1>4. SumFunctionOnSet(SeedBytes, EffectiveSeeds(g)) \in Nat
  BY <1>2, <1>3, SumType
<1>5. EffectiveUpload(g) \in Nat
  BY <1>4, PlanAssumption DEF EffectiveUpload
<1> QED BY <1>5, PlanAnswers, BytesAreNumbers

(* Acceptance charges the new submission and stays within the policy          *)
LEMMA NewCharges ==
  ASSUME IInv, Charged, NEW s \in SubmissionId, NEW n \in Nat,
         NEW bs \in SUBSET ReadbackId, status[s] = "None",
         status' = [status EXCEPT ![s] = "Accepted"],
         readbacks' = [readbacks EXCEPT ![s] = [b \in ReadbackId |->
           IF b \in bs THEN "Pending" ELSE "None"]],
         held' = [held EXCEPT ![s] = n],
         uploadBytes' = uploadBytes + n,
         readbackBytes' = readbackBytes + Bytes(bs),
         pendingReadbacks' = pendingReadbacks + Cardinality(bs),
         uploadBytes + n <= MaxUpload,
         readbackBytes + Bytes(bs) <= MaxReadback,
         pendingReadbacks + Cardinality(bs) <= MaxPendingReadbacks,
         Cardinality({t \in inFlight : status[t] = "Accepted"}) < MaxInFlight
  PROVE  Charged'
<1>1. Outstanding(s) = {} /\ Outstanding(s)' = bs
  BY DEF IInv, Shaped, Recorded, Outstanding
<1>2. Bytes(Outstanding(s)) = 0 /\ Cardinality(Outstanding(s)) = 0 /\ held[s] = 0
  BY <1>1, SumOfNone, FS_EmptySet DEF Bytes, Charged
<1>3. /\ held' \in [SubmissionId -> Nat] /\ held'[s] = n
      /\ \A t \in SubmissionId : t # s => held'[t] = held[t] /\ readbacks'[t] = readbacks[t]
  BY DEF Charged, IInv, Shaped
<1>4. uploadBytes' = SumFunctionOnSet(held', SubmissionId)
  <2>1. /\ uploadBytes \in Nat
        /\ SumFunctionOnSet(held', SubmissionId) = (uploadBytes - held[s]) + held'[s]
    BY <1>3, Recharges
  <2> QED BY <1>2, <1>3, <2>1
<1>5. readbackBytes' = SumFunctionOnSet(OutstandingBytes', SubmissionId)
  <2>1. /\ readbackBytes \in Nat
        /\ SumFunctionOnSet(OutstandingBytes', SubmissionId) =
             (readbackBytes - Bytes(Outstanding(s))) + Bytes(Outstanding(s)')
    BY <1>3, Recharges
  <2>2. Bytes(bs) \in Nat
    BY BytesAreNumbers
  <2> QED BY <1>1, <1>2, <2>1, <2>2
<1>6. pendingReadbacks' = SumFunctionOnSet(OutstandingCount', SubmissionId)
  <2>1. /\ pendingReadbacks \in Nat
        /\ SumFunctionOnSet(OutstandingCount', SubmissionId) =
             (pendingReadbacks - Cardinality(Outstanding(s)))
               + Cardinality(Outstanding(s)')
    BY <1>3, Recharges
  <2>2. Cardinality(Outstanding(s)') \in Nat
    BY OutstandingStaysCountable DEF Countable
  <2> QED BY <1>1, <1>2, <2>1, <2>2
<1>7. Cardinality(accepted') <= MaxInFlight
  <2>1. accepted = {t \in inFlight : status[t] = "Accepted"}
    BY DEF IInv, Shaped, Recorded, RecordsMatchHandles, accepted
  <2>2. accepted' = accepted \cup {s} /\ s \notin accepted
    BY DEF accepted, IInv, Shaped
  <2>3. IsFiniteSet(accepted)
    BY SubmissionsAreFinite, FS_Subset DEF accepted
  <2>4. Cardinality(accepted \cup {s}) = Cardinality(accepted) + 1
    BY <2>2, <2>3, FS_AddElement
  <2>5. Cardinality(accepted) \in Nat
    BY <2>3, FS_CardinalityType
  <2>6. Cardinality(accepted) < MaxInFlight
    BY <2>1
  <2> QED BY <2>2, <2>4, <2>5, <2>6, PolicyAssumption
<1>8. \A t \in SubmissionId : status'[t] # "Accepted" => held'[t] = 0
  BY <1>3 DEF Charged, IInv, Shaped
<1> QED BY <1>3, <1>4, <1>5, <1>6, <1>7, <1>8 DEF Charged

(* An acceptance charges what it admits                                       *)
LEMMA AcceptCharges ==
  ASSUME IInv, Charged, NEW c \in Client, Accept(c)
  PROVE  Charged'
<1>1. PICK s : s = nextSubmission
  OBVIOUS
<1>2. PICK g : g = graph[c]
  OBVIOUS
<1>3. PICK n : n = EffectiveUpload(g)
  OBVIOUS
<1>4. PICK bs : bs = PlanReadbacks(g.work)
  OBVIOUS
<1>5. /\ s \in SubmissionId /\ status[s] = "None" /\ g.work \in Work
      /\ status' = [status EXCEPT ![s] = "Accepted"]
      /\ readbacks' = [readbacks EXCEPT ![s] = [b \in ReadbackId |->
           IF b \in bs THEN "Pending" ELSE "None"]]
  BY <1>1, <1>2, <1>4, Accepts
<1>6. /\ held' = [held EXCEPT ![s] = n]
      /\ uploadBytes' = uploadBytes + n
      /\ readbackBytes' = readbackBytes + Bytes(bs)
      /\ pendingReadbacks' = pendingReadbacks + Cardinality(bs)
      /\ uploadBytes + n <= MaxUpload
      /\ readbackBytes + Bytes(bs) <= MaxReadback
      /\ pendingReadbacks + Cardinality(bs) <= MaxPendingReadbacks
      /\ Cardinality({t \in inFlight : status[t] = "Accepted"}) < MaxInFlight
  BY <1>1, <1>2, <1>3, <1>4 DEF Accept, Admitted
<1>7. n \in Nat /\ bs \in SUBSET ReadbackId
  BY <1>3, <1>4, <1>5, PlanCharges, PlanAnswers
<1> QED BY <1>5, <1>6, <1>7, NewCharges

(* An owner without submissions owes nothing                                 *)
Unburdened ==
  /\ held = [s \in SubmissionId |-> 0]
  /\ uploadBytes = 0 /\ readbackBytes = 0 /\ pendingReadbacks = 0
  /\ \A s \in SubmissionId : Outstanding(s) = {} /\ status[s] # "Accepted"

(* and so its budgets are exact                                              *)
LEMMA NothingOwed == Unburdened => Charged
<1> SUFFICES ASSUME Unburdened PROVE Charged
  OBVIOUS
<1> USE DEF Unburdened
<1>1. /\ \A s \in SubmissionId : OutstandingBytes[s] = 0 /\ OutstandingCount[s] = 0
      /\ accepted = {}
  BY SumOfNone, FS_EmptySet DEF OutstandingBytes, OutstandingCount, Bytes, accepted
<1>2. ASSUME NEW h, \A s \in SubmissionId : h[s] = 0
      PROVE  SumFunctionOnSet(h, SubmissionId) = 0
  <2>1. SumFunctionOnSet(h, {}) = SumFunctionOnSet(h, SubmissionId)
    BY <1>2, SubmissionsAreFinite, SumIgnoresZeros DEF Sizes
  <2> QED BY <2>1, SumOfNone
<1>3. /\ SumFunctionOnSet(held, SubmissionId) = 0
      /\ SumFunctionOnSet(OutstandingBytes, SubmissionId) = 0
      /\ SumFunctionOnSet(OutstandingCount, SubmissionId) = 0
  BY <1>1, <1>2
<1>4. Cardinality(accepted) = 0
  BY <1>1, FS_EmptySet
<1>5. \A s \in SubmissionId : held[s] = 0
  OBVIOUS
<1>6. held \in [SubmissionId -> Nat]
  OBVIOUS
<1> QED BY <1>3, <1>4, <1>5, <1>6, PolicyAssumption DEF Charged

(* Every step keeps the charges exact                                        *)
LEMMA ChargedStep ==
  ASSUME IInv, Charged, Next
  PROVE  Charged'
<1>1. ASSUME NEW s \in SubmissionId, Ending(s), slot' = slot PROVE Charged'
  BY <1>1, FailCharges, CompleteCharges, AnswerCharges DEF Ending
<1>2. ASSUME NEW c \in Client, CallerStep(c) PROVE Charged'
  <2>1. CASE Accept(c)
    BY <2>1, AcceptCharges
  <2>2. CASE EncodeFails(c) \/ SegmentFails(c)
    <3>1. /\ caller[c].submission \in SubmissionId
          /\ FailSubmission(caller[c].submission) /\ slot' = slot
      BY <2>2, EndingSteps DEF FailOwn, ticketVars
    <3> QED BY <3>1, FailCharges
  <2>3. CASE MarkSegment(c)
    <3>1. UNCHANGED <<recordVars, status>>
      BY <2>3 DEF MarkSegment, R!Mark, retainedVars
    <3> QED BY <3>1, ChargesStay DEF recordVars
  <2>4. CASE \/ \E w \in Work, known \in SUBSET Retained : PrepareGraph(c, w, known)
             \/ DropGraph(c)
    <3>1. UNCHANGED <<recordVars, status>>
      BY <2>4 DEF PrepareGraph, DropGraph, R!PrepareGraph, R!DropGraph
    <3> QED BY <3>1, ChargesStay DEF recordVars
  <2>5. CASE \/ ReservePrepared(c) \/ CommitPrepared(c) \/ AbandonPreparation(c)
             \/ DropPrepared(c) \/ BeginSubmit(c) \/ RejectAcceptance(c)
             \/ Encode(c) \/ QueueSegment(c) \/ NextSegment(c) \/ EndSubmit(c)
    <3>1. UNCHANGED <<recordVars, status>>
      BY <2>5 DEF ReservePrepared, CommitPrepared, AbandonPreparation, DropPrepared,
                  BeginSubmit, RejectAcceptance, Encode, QueueSegment, NextSegment,
                  EndSubmit, retainedVars
    <3> QED BY <3>1, ChargesStay DEF recordVars
  <2> QED BY <1>2, <2>1, <2>2, <2>3, <2>4, <2>5 DEF CallerStep, SubmitStep
<1>3. CASE DrainEvent \/ Sweep
  <2>1. PICK s \in SubmissionId : Ending(s)
    BY <1>3, EndingSteps
  <2>2. slot' = slot
    BY <1>3 DEF DrainEvent, Sweep, ticketVars
  <2> QED BY <1>1, <2>1, <2>2
<1>4. CASE \/ BeginProgress \/ Poll \/ BeginSweep \/ EndProgress
           \/ DeviceCalls \/ DeviceFault \/ BeginShutdown
           \/ \E r \in Evictable : Evict(r)
  <2>1. UNCHANGED <<recordVars, status>>
    BY <1>4 DEF BeginProgress, Poll, BeginSweep, EndProgress, DeviceCalls,
                FireCallback, DeviceFault, BeginShutdown, Evict, retainedVars
  <2> QED BY <2>1, ChargesStay DEF recordVars
<1>5. CASE ReplaceGeneration \/ DropContext
  <2>1. /\ held' = [s \in SubmissionId |-> 0]
        /\ uploadBytes' = 0 /\ readbackBytes' = 0 /\ pendingReadbacks' = 0
    BY <1>5 DEF ReplaceGeneration, DropContext, FreshOwner
  <2>2. /\ \A s \in SubmissionId, b \in ReadbackId : readbacks'[s][b] # "Pending"
        /\ \A s \in SubmissionId : status'[s] # "Accepted"
    <3>1. CASE ReplaceGeneration
      BY <3>1 DEF ReplaceGeneration, R!InstallGeneration, R!SubmissionId, SubmissionId
    <3>2. CASE DropContext
      <4>1. ASSUME NEW s \in SubmissionId, NEW b \in ReadbackId
            PROVE  readbacks'[s][b] # "Pending"
        <5>1. readbacks[s][b] = "Pending" => s \in inFlight
          BY DEF IInv, Recorded, RecordsMatchHandles, Outstanding
        <5> QED BY <3>2, <5>1 DEF DropContext
      <4> QED BY <3>2, <4>1 DEF DropContext, R!DropOwner, R!SubmissionId, SubmissionId
    <3> QED BY <1>5, <3>1, <3>2
  <2>3. \A s \in SubmissionId : Outstanding(s)' = {}
    BY <2>2 DEF Outstanding
  <2>4. Unburdened' => Charged'
    BY NothingOwed, PTL
  <2> QED BY <2>1, <2>2, <2>3, <2>4 DEF Unburdened
<1> QED BY <1>2, <1>3, <1>4, <1>5 DEF Next, ProgressStep

(* What is charged is exactly what records hold and handles wait for         *)
THEOREM ChargedInvariance == Spec => []Charged
<1>1. Init => Charged
  <2>1. Init => Unburdened
    BY DEF Init, R!Init, R!SubmissionId, SubmissionId, Outstanding, Unburdened
  <2> QED BY <2>1, NothingOwed
<1>2. IInv /\ Charged /\ [Next]_vars => Charged'
  <2> SUFFICES ASSUME IInv, Charged, [Next]_vars PROVE Charged'
    OBVIOUS
  <2>1. CASE Next
    BY <2>1, ChargedStep
  <2>2. CASE UNCHANGED vars
    <3>1. UNCHANGED <<recordVars, status>>
      BY <2>2 DEF vars, retainedVars
    <3> QED BY <3>1, ChargesStay DEF recordVars
  <2> QED BY <2>1, <2>2
<1> QED BY <1>1, <1>2, Invariance, PTL DEF Spec

(* The budgets of an owner are the sums over its records, neither above the   *)
(* policy nor charged twice, whichever of completion, mapping, failure and    *)
(* shutdown ends which part of a submission first.                           *)
THEOREM BudgetsExact == Spec => []BudgetsAreExact
<1>1. IInv /\ Charged => BudgetsAreExact
  <2> SUFFICES ASSUME IInv, Charged PROVE BudgetsAreExact
    OBVIOUS
  <2>1. inFlight \in SUBSET SubmissionId
    BY DEF IInv, Shaped
  <2>2. ASSUME NEW s \in SubmissionId \ inFlight
        PROVE  held[s] = 0 /\ OutstandingBytes[s] = 0 /\ OutstandingCount[s] = 0
    <3>1. status[s] # "Accepted" /\ Outstanding(s) = {}
      BY DEF IInv, Recorded, RecordsMatchHandles, accepted
    <3> QED BY <3>1, SumOfNone, FS_EmptySet
            DEF Charged, OutstandingBytes, OutstandingCount, Bytes
  <2>3. Sizes(held, SubmissionId)
    BY DEF Charged, Sizes
  <2>4. /\ SumFunctionOnSet(held, inFlight) = SumFunctionOnSet(held, SubmissionId)
        /\ SumFunctionOnSet(OutstandingBytes, inFlight) =
             SumFunctionOnSet(OutstandingBytes, SubmissionId)
        /\ SumFunctionOnSet(OutstandingCount, inFlight) =
             SumFunctionOnSet(OutstandingCount, SubmissionId)
    BY <2>1, <2>2, <2>3, SubmissionsAreFinite, OutstandingIsCountable, SumIgnoresZeros
       DEF Countable
  <2> QED BY <2>4 DEF BudgetsAreExact, Charged
<1> QED BY <1>1, Invariance, ChargedInvariance, PTL

-----------------------------------------------------------------------------
(* What holds of the authority holds of the owner that implements it          *)

RP == INSTANCE RetainedContinuity_proofs

(* The authority that was proved about is the authority of this owner         *)
LEMMA SameStart == R!Init <=> RP!Init
BY DEF R!Init, RP!Init, R!NoRecord, RP!NoRecord, R!SubmissionId, RP!SubmissionId,
       R!Unestablished, RP!Unestablished

(* and moves by the same steps                                                *)
LEMMA SameSteps == [R!Next]_(R!vars) <=> [RP!Next]_(RP!vars)
<1> USE DEF R!SubmissionId, RP!SubmissionId, R!Participants, RP!Participants,
     R!NoRecord, RP!NoRecord, R!Unestablished, RP!Unestablished,
     R!Unknown, RP!Unknown, R!Established, RP!Established,
     R!known, RP!known, R!open, RP!open, R!Due, RP!Due,
     R!Materialized, RP!Materialized, R!ContentCoverage, RP!ContentCoverage,
     R!FailureSafe, RP!FailureSafe, R!Fresh, RP!Fresh,
     R!MatchesBefore, RP!MatchesBefore, R!FailedMatches, RP!FailedMatches
<1>1. ASSUME NEW c, NEW w, NEW known
      PROVE  R!PrepareGraph(c, w, known) <=> RP!PrepareGraph(c, w, known)
  BY DEF R!PrepareGraph, RP!PrepareGraph, R!ReadsInitialized, RP!ReadsInitialized,
         R!Derive, RP!Derive, R!DescriptorCoverage, RP!DescriptorCoverage
<1>2. ASSUME NEW c, NEW s PROVE R!Accept(s, c) <=> RP!Accept(s, c)
  BY DEF R!Accept, RP!Accept, R!Reserve, RP!Reserve, R!Admissible, RP!Admissible,
         R!Unreserved, RP!Unreserved, R!ObligationMet, RP!ObligationMet,
         R!CanReconstruct, RP!CanReconstruct, R!LifecycleCurrent, RP!LifecycleCurrent,
         R!CoverageCurrent, RP!CoverageCurrent
<1>3. ASSUME NEW s, NEW written
      PROVE  R!MarkMayExecute(s, written) <=> RP!MarkMayExecute(s, written)
  BY DEF R!MarkMayExecute, RP!MarkMayExecute, R!Mark, RP!Mark,
         R!QueuedWrites, RP!QueuedWrites, R!MarkedRecord, RP!MarkedRecord,
         R!MarkedMatches, RP!MarkedMatches
<1>4. ASSUME NEW s PROVE R!Complete(s) <=> RP!Complete(s)
  BY DEF R!Complete, RP!Complete, R!Settle, RP!Settle, R!Release, RP!Release,
         R!CompletedRecord, RP!CompletedRecord, R!CompletedOpaque, RP!CompletedOpaque,
         R!CompletedMatches, RP!CompletedMatches, R!Final, RP!Final
<1>5. ASSUME NEW s PROVE R!FailAfterAcceptance(s) <=> RP!FailAfterAcceptance(s)
  BY DEF R!FailAfterAcceptance, RP!FailAfterAcceptance, R!Fail, RP!Fail,
         R!Release, RP!Release, R!FailedRecord, RP!FailedRecord,
         R!FailedObligation, RP!FailedObligation
<1>6. /\ R!ReplaceGeneration <=> RP!ReplaceGeneration
      /\ R!DropOwner <=> RP!DropOwner
      /\ \A c \in Client : R!DropGraph(c) <=> RP!DropGraph(c)
  BY DEF R!ReplaceGeneration, RP!ReplaceGeneration, R!InstallGeneration,
         RP!InstallGeneration, R!Inherited, RP!Inherited, R!DropOwner, RP!DropOwner,
         R!DropGraph, RP!DropGraph
<1>7. R!Next <=> RP!Next
  BY <1>1, <1>2, <1>3, <1>4, <1>5, <1>6, Zenon DEF R!Next, RP!Next
<1> QED BY <1>7 DEF R!vars, RP!vars

(* The execution owner inherits every invariant of the authority: exclusive   *)
(* transition ownership, pending marks, obligations beside unknown contents    *)
(* and accepted work that still meets its obligations.                       *)
AuthorityHolds ==
  /\ R!TypeOK
  /\ R!ExclusiveAuthority /\ R!PendingWhileQueued
  /\ R!UnknownNeedsReconstruction /\ R!AcceptedWorkMeetsObligations
  /\ R!EntryStateStillCurrent /\ R!EstablishedByCompleted

(* What was proved of its state is stated of the state the owner keeps        *)
LEMMA SameState == RP!IInv => AuthorityHolds
BY DEF AuthorityHolds, RP!IInv,
   R!TypeOK, RP!TypeOK, R!Graph, RP!Graph, R!CoverageMap, RP!CoverageMap,
   R!Record, RP!Record, R!Opaque, RP!Opaque, R!Obligation, RP!Obligation,
   R!Unestablished, RP!Unestablished, R!Unknown, RP!Unknown,
   R!Established, RP!Established, R!SubmissionId, RP!SubmissionId,
   R!open, RP!open, R!Participants, RP!Participants,
   R!ExclusiveAuthority, RP!ExclusiveAuthority,
   R!PendingWhileQueued, RP!PendingWhileQueued,
   R!UnknownNeedsReconstruction, RP!UnknownNeedsReconstruction,
   R!AcceptedWorkMeetsObligations, RP!AcceptedWorkMeetsObligations,
   R!EntryStateStillCurrent, RP!EntryStateStillCurrent,
   R!EstablishedByCompleted, RP!EstablishedByCompleted

(* The authority's own inductive invariant holds of the owner                *)
LEMMA AuthorityInvariance == Spec => []RP!IInv
<1>1. RP!Spec => []RP!IInv
  BY RP!Invariance, AuthorityAssumption
     DEF R!CoverageMap, RP!CoverageMap, R!Graph, RP!Graph
<1>2. R!Spec => RP!Spec
  BY SameStart, SameSteps, PTL DEF R!Spec, RP!Spec
<1> QED BY <1>1, <1>2, AuthorityRefined, PTL DEF RetainedAuthority

(* Every invariant of the authority is one of the execution owner             *)
THEOREM AuthorityInherited == Spec => []AuthorityHolds
BY AuthorityInvariance, SameState, PTL

(* and every action property: obligations end by reconstruction, contents are *)
(* never forgotten, coverage grows by completion only.                        *)
AuthorityActs ==
  /\ R!ObligationsEndByReconstruction
  /\ R!ContentsNeverForgotten
  /\ R!CoverageGrowsByCompletion

(* What the authority promises of its steps holds of every step of the owner   *)
(* (retained.rs as execution.rs drives it).                                  *)
THEOREM AuthorityActionsInherited == Spec => AuthorityActs
<1>1. /\ RP!Spec => RP!ObligationsEndByReconstruction
      /\ RP!Spec => RP!ContentsNeverForgotten
      /\ RP!Spec => RP!CoverageGrowsByCompletion
  BY RP!ObligationsAreHonoured, RP!ContentsAreRemembered, RP!CoverageGrows,
     AuthorityAssumption
     DEF R!CoverageMap, RP!CoverageMap, R!Graph, RP!Graph
<1>2. R!Spec => RP!Spec
  BY SameStart, SameSteps, PTL DEF R!Spec, RP!Spec
<1>3. [RP!DischargesOnlyTargets]_(RP!vars) => [R!DischargesOnlyTargets]_(R!vars)
  BY DEF RP!DischargesOnlyTargets, R!DischargesOnlyTargets, R!vars, RP!vars,
         R!open, RP!open, R!SubmissionId, RP!SubmissionId
<1>4. [RP!GrowsOnCompletion]_(RP!vars) => [R!GrowsOnCompletion]_(R!vars)
  BY DEF RP!GrowsOnCompletion, R!GrowsOnCompletion, R!vars, RP!vars,
         R!open, RP!open, R!SubmissionId, RP!SubmissionId,
         R!KnownCoverage, RP!KnownCoverage, R!DescriptorCoverage,
         RP!DescriptorCoverage, R!Participants, RP!Participants
<1>5. UNCHANGED RP!vars <=> UNCHANGED R!vars
  BY DEF R!vars, RP!vars
<1> QED BY <1>1, <1>2, <1>3, <1>4, <1>5, AuthorityRefined, PTL
     DEF RetainedAuthority, AuthorityActs, R!ObligationsEndByReconstruction,
         RP!ObligationsEndByReconstruction, R!ContentsNeverForgotten,
         RP!ContentsNeverForgotten, R!CoverageGrowsByCompletion,
         RP!CoverageGrowsByCompletion

-----------------------------------------------------------------------------
(* Types *)

(* The types that records, handles and counters do not settle                *)
StorageTyped ==
  /\ fault \in BOOLEAN
  /\ content \in [Seeded -> {"Unmaterialized", "Queued", "Completed"}]
  /\ filled \in SUBSET Seeded
  /\ lastWriter \in [Resource -> 0 .. MaxSubmission]

(* Steps of the device and the cache keep storage in its types               *)
LEMMA StorageStep ==
  ASSUME IInv, StorageTyped, Next
  PROVE  StorageTyped'
<1>1. ASSUME NEW c \in Client, CallerStep(c) PROVE StorageTyped'
  <2>1. CASE QueueSegment(c)
    <3>1. PICK s \in SubmissionId : s = caller[c].submission
      BY <2>1 DEF QueueSegment, At, IInv, Equipped, Owning
    <3>2. PICK i : i = caller[c].segment
      OBVIOUS
    <3>3. /\ UNCHANGED <<fault, content>>
          /\ lastWriter' = [r \in Resource |->
               IF r \in SegmentWrites(s, i) THEN s ELSE lastWriter[r]]
          /\ filled' = filled \cup IF i = 1 THEN seeds[s] ELSE {}
      BY <2>1, <3>1, <3>2 DEF QueueSegment
    <3>4. seeds[s] \in SUBSET Seeded /\ s \in 0 .. MaxSubmission
      BY DEF IInv, Shaped, SubmissionId
    <3>5. lastWriter' \in [Resource -> 0 .. MaxSubmission]
      BY <3>3, <3>4 DEF StorageTyped
    <3> QED BY <3>3, <3>4, <3>5 DEF StorageTyped
  <2>2. CASE MarkSegment(c)
    BY <2>2 DEF MarkSegment, StorageTyped, queueVars
  <2>3. CASE EncodeFails(c) \/ SegmentFails(c)
    <3>1. UNCHANGED <<queueVars, fault, content>>
      BY <2>3 DEF EncodeFails, SegmentFails, FailOwn
    <3> QED BY <3>1 DEF StorageTyped, queueVars
  <2>4. CASE \/ \E w \in Work, known \in SUBSET Retained : PrepareGraph(c, w, known)
             \/ DropGraph(c) \/ ReservePrepared(c) \/ CommitPrepared(c)
             \/ AbandonPreparation(c) \/ DropPrepared(c) \/ BeginSubmit(c)
             \/ Accept(c) \/ RejectAcceptance(c) \/ Encode(c)
             \/ NextSegment(c) \/ EndSubmit(c)
    <3>1. UNCHANGED <<queueVars, fault, content>>
      BY <2>4 DEF PrepareGraph, DropGraph, ReservePrepared, CommitPrepared,
                  AbandonPreparation, DropPrepared, BeginSubmit, Accept,
                  RejectAcceptance, Encode, NextSegment, EndSubmit
    <3> QED BY <3>1 DEF StorageTyped, queueVars
  <2> QED BY <1>1, <2>1, <2>2, <2>3, <2>4 DEF CallerStep, SubmitStep
<1>2. CASE DrainEvent
  <2>1. PICK s \in SubmissionId :
          \/ CompleteSubmission(s)
          \/ \E b \in ReadbackId, mapped \in BOOLEAN : CompleteReadback(s, b, mapped)
    BY <1>2, Delivers DEF IInv
  <2>2. UNCHANGED <<queueVars, fault>>
    BY <1>2 DEF DrainEvent
  <2>3. content' \in [Seeded -> {"Unmaterialized", "Queued", "Completed"}]
    BY <2>1 DEF CompleteSubmission, CompleteReadback, StorageTyped
  <2> QED BY <2>2, <2>3 DEF StorageTyped, queueVars
<1>3. CASE \/ BeginProgress \/ Poll \/ BeginSweep \/ Sweep \/ EndProgress
           \/ DeviceCalls \/ DeviceFault \/ BeginShutdown
  <2>1. UNCHANGED <<filled, lastWriter, content>> /\ fault' \in {fault, TRUE}
    BY <1>3 DEF BeginProgress, Poll, BeginSweep, Sweep, EndProgress, DeviceCalls,
                FireCallback, DeviceFault, BeginShutdown, queueVars
  <2> QED BY <2>1 DEF StorageTyped
<1>4. ASSUME NEW q \in Evictable, Evict(q) PROVE StorageTyped'
  <2>1. 0 \in 0 .. MaxSubmission
    BY IdentityAssumption
  <2> QED BY <1>4, <2>1 DEF Evict, StorageTyped
<1>5. CASE ReplaceGeneration \/ DropContext
  <2>1. /\ fault' = FALSE /\ filled' = {}
        /\ content' = [r \in Seeded |-> "Unmaterialized"]
        /\ lastWriter' = [r \in Resource |-> 0]
    BY <1>5 DEF ReplaceGeneration, DropContext, FreshOwner
  <2>2. 0 \in 0 .. MaxSubmission
    BY IdentityAssumption
  <2>3. lastWriter' \in [Resource -> 0 .. MaxSubmission]
    BY <2>1, <2>2
  <2> QED BY <2>1, <2>3 DEF StorageTyped
<1> QED BY <1>1, <1>2, <1>3, <1>4, <1>5 DEF Next, ProgressStep

(* Every state of the execution owner is well typed.                         *)
THEOREM TypeCorrect == Spec => []TypeOK
<1>1. Init => StorageTyped
  <2>1. 0 \in 0 .. MaxSubmission
    BY IdentityAssumption
  <2>2. Init => /\ fault = FALSE /\ filled = {}
                /\ content = [r \in Seeded |-> "Unmaterialized"]
                /\ lastWriter = [r \in Resource |-> 0]
    BY DEF Init
  <2>3. Init => lastWriter \in [Resource -> 0 .. MaxSubmission]
    BY <2>1, <2>2
  <2> QED BY <2>2, <2>3 DEF StorageTyped
<1>2. IInv /\ StorageTyped /\ [Next]_vars => StorageTyped'
  <2>1. ASSUME StorageTyped, UNCHANGED vars PROVE StorageTyped'
    BY <2>1 DEF vars, queueVars, StorageTyped
  <2> QED BY <2>1, StorageStep
<1>3. Spec => []StorageTyped
  BY <1>1, <1>2, Invariance, PTL DEF Spec
<1>4. IInv /\ Charged /\ AuthorityHolds /\ StorageTyped => TypeOK
  <2> SUFFICES ASSUME IInv, Charged, AuthorityHolds, StorageTyped PROVE TypeOK
    OBVIOUS
  <2>1. {uploadBytes, readbackBytes, pendingReadbacks} \subseteq Nat
    BY SubmissionsAreFinite, OutstandingIsCountable, SumType
       DEF Charged, Countable, Sizes
  <2>2. /\ R!TypeOK /\ order \in {"free", "progress"} \cup Client
        /\ held \in [SubmissionId -> Nat]
    BY DEF AuthorityHolds, IInv, Interval, Charged
  <2> QED BY <2>1, <2>2 DEF TypeOK, StorageTyped, IInv, Shaped, Event, Answers
<1> QED BY <1>3, <1>4, Invariance, ChargedInvariance, AuthorityInherited, PTL
-----------------------------------------------------------------------------
(* What callers are told of retained content *)

(* No retained resource loses its storage to the cache, and every explicit    *)
(* target of a reconstruction is written by some command.  Neither is checked *)
(* by the code; without either, the runs find a stale "Established".          *)
RetainedIsKept == Evictable \cap Retained = {}
TargetsAreWritten ==
  \A w \in Work : \A r \in w.target \cap w.explicit :
    \E i \in DOMAIN w.segments : r \in w.segments[i].writes

(* The completion callback of s is registered, or its event is waiting        *)
Answered(s) ==
  \/ <<s, "done">> \in callbacks
  \/ \E i \in DOMAIN events : events[i].submission = s /\ events[i].of = "done"

AllMarked(s) ==
  \A i \in DOMAIN transition[s].work.segments : ReportedWrites(s, i) \subseteq submitted[s]

(* A caller marks its segments one after the other, each behind its writes    *)
Marking(c) ==
  LET s == caller[c].submission
  IN /\ \A j \in DOMAIN transition[s].work.segments :
          \/ caller[c].pc = "marked" /\ j <= caller[c].segment
          \/ caller[c].pc \in {"queueing", "queued"} /\ j < caller[c].segment
          => ReportedWrites(s, j) \subseteq submitted[s]
     /\ caller[c].pc = "queued" =>
          \A r \in ReportedWrites(s, caller[c].segment) : lastWriter[r] = s

Finishing(c, s) ==
  caller[c].submission = s /\ caller[c].pc = "queued" /\ LastSegment(c)

(* The device answers for a submission once every one of its writes was       *)
(* queued; all but those of the segment at hand are marked                    *)
Answerable(s) ==
  /\ status[s] # "None"
  /\ status[s] = "Accepted" => AllMarked(s) \/ \E c \in Client : Finishing(c, s)

(* Marked writes are the last ones, and a target is going to be written       *)
Writing(s) ==
  /\ submitted[s] \subseteq R!Participants(transition[s])
  /\ \A r \in submitted[s] : lastWriter[r] = s
  /\ \A r \in transition[s].work.target :
       \/ r \in seeds[s]
       \/ \E i \in DOMAIN transition[s].work.segments :
            r \in transition[s].work.segments[i].writes

Provenance ==
  /\ \A c \in Client : caller[c].pc \in {"queueing", "queued", "marked"} => Marking(c)
  /\ \A s \in SubmissionId : Answered(s) => Answerable(s)
  /\ \A s \in SubmissionId : status[s] = "Accepted" => Writing(s)
  /\ \A r \in Seeded \cap Retained : content[r] # "Unmaterialized" => records[r].present
  /\ EstablishedByLastWriter

(* Established names one submission and is not Unknown                       *)
LEMMA EstablishedNames ==
  \A s, t : /\ R!Established(s) = R!Established(t) => s = t
            /\ R!Established(s) # R!Unknown
            /\ R!Established(s) # R!Unestablished
BY DEF R!Established, R!Unknown, R!Unestablished

(* Only one caller is inside submit_prepared                                 *)
LEMMA InsideAlone ==
  ASSUME IInv
  PROVE  /\ \A c, d \in Client :
              caller[c].pc \in Inside /\ caller[d].pc \in Inside => c = d
         /\ polling # "idle" => \A d \in Client : caller[d].pc \notin Inside
<1>1. \A c \in Client : caller[c].pc \in Inside <=> order = c
  BY DEF IInv, Interval
<1> QED BY <1>1, ProgressAlone

(* What a segment writes of retained content is its plan's                   *)
LEMMA SegmentWritesUsed ==
  ASSUME IInv, NEW s \in SubmissionId, status[s] = "Accepted",
         NEW i \in DOMAIN transition[s].work.segments
  PROVE  /\ ReportedWrites(s, i) \subseteq R!Participants(transition[s])
         /\ ReportedWrites(s, i) \subseteq Retained
<1>1. transition[s].work \in Work /\ seeds[s] \subseteq R!Materialized(transition[s])
  BY DEF IInv, Planned
<1>2. transition[s].work.segments[i].writes \subseteq transition[s].work.uses
  BY <1>1, PlanWrites, IdentityAssumption
<1>3. seeds[s] \subseteq transition[s].work.uses
  BY <1>1 DEF R!Materialized
<1> QED BY <1>2, <1>3 DEF ReportedWrites, SegmentWrites, R!Participants

(* Steps that queue, mark and end nothing                                    *)
LEMMA ProvenanceRests ==
  ASSUME Provenance,
         UNCHANGED <<status, transition, submitted, records, seeds, content, lastWriter>>,
         \A s \in SubmissionId : Answered(s)' => Answered(s),
         \A c \in Client :
           caller'[c].pc \in {"queueing", "queued", "marked"} \/ caller[c].pc = "queued"
             => caller'[c] = caller[c]
  PROVE  Provenance'
<1>1. ASSUME NEW c \in Client, caller'[c].pc \in {"queueing", "queued", "marked"}
      PROVE  Marking(c)'
  <2>1. caller'[c] = caller[c] /\ Marking(c)
    BY <1>1 DEF Provenance
  <2> QED BY <2>1 DEF Marking, ReportedWrites, SegmentWrites
<1>2. ASSUME NEW s \in SubmissionId, Answered(s)' PROVE Answerable(s)'
  <2>1. Answerable(s)
    BY <1>2 DEF Provenance
  <2>2. AllMarked(s) => AllMarked(s)'
    BY DEF AllMarked, ReportedWrites, SegmentWrites
  <2>3. \A c \in Client : Finishing(c, s) => Finishing(c, s)'
    BY DEF Finishing, LastSegment
  <2> QED BY <2>1, <2>2, <2>3 DEF Answerable
<1>3. ASSUME NEW s \in SubmissionId, status'[s] = "Accepted" PROVE Writing(s)'
  BY <1>3 DEF Provenance, Writing, R!Participants
<1>4. ASSUME NEW r \in Retained, NEW s \in SubmissionId,
             R!Snapshot(r)' = R!Established(s)
      PROVE  lastWriter'[r] = s \/ Unmarked(r)'
  <2>1. R!Snapshot(r) = R!Established(s)
    BY <1>4 DEF R!Snapshot
  <2>2. Unmarked(r) => Unmarked(r)'
    BY DEF Unmarked, At, SegmentWrites
  <2> QED BY <2>1, <2>2 DEF Provenance, EstablishedByLastWriter
<1>5. EstablishedByLastWriter'
  BY <1>4 DEF EstablishedByLastWriter, R!Established
<1> QED BY <1>1, <1>2, <1>3, <1>5 DEF Provenance

(* A plan's writes are those of its segments                                 *)
LEMMA WritesReported ==
  ASSUME IInv, NEW s \in SubmissionId, status[s] = "Accepted", Writing(s), AllMarked(s),
         NEW r \in transition[s].work.target, r \in Retained
  PROVE  r \in submitted[s]
<1>1. PICK k \in Nat \ {0} : DOMAIN transition[s].work.segments = 1 .. k
  BY PlanSegments DEF IInv, Planned
<1>2. PICK i \in DOMAIN transition[s].work.segments : r \in SegmentWrites(s, i)
  <2>1. CASE r \in seeds[s]
    <3>1. 1 \in DOMAIN transition[s].work.segments
      BY <1>1
    <3>2. r \in SegmentWrites(s, 1)
      BY <2>1 DEF SegmentWrites
    <3> QED BY <3>1, <3>2
  <2>2. CASE r \notin seeds[s]
    BY <2>2 DEF Writing, SegmentWrites
  <2> QED BY <2>1, <2>2
<1> QED BY <1>2 DEF AllMarked, ReportedWrites

(* A segment goes on the queue                                               *)
LEMMA ProvenanceQueues ==
  ASSUME IInv, AuthorityHolds, Provenance, NEW c \in Client, QueueSegment(c)
  PROVE  Provenance'
<1>1. PICK s \in SubmissionId : s = caller[c].submission /\ status[s] = "Accepted"
  BY DEF QueueSegment, At, IInv, Equipped, Owning
<1>2. PICK i \in DOMAIN transition[s].work.segments : i = caller[c].segment
  BY <1>1 DEF QueueSegment, At, IInv, Equipped
<1>3. /\ caller[c].pc = "queueing" /\ caller' = [caller EXCEPT ![c].pc = "queued"]
      /\ callbacks' = callbacks
           \cup {<<s, b>> : b \in transition[s].work.segments[i].readbacks}
           \cup (IF LastSegment(c) THEN {<<s, "done">>} ELSE {})
      /\ lastWriter' = [r \in Resource |->
           IF r \in SegmentWrites(s, i) THEN s ELSE lastWriter[r]]
      /\ UNCHANGED <<status, transition, submitted, records, seeds, content, events>>
  BY <1>1, <1>2 DEF QueueSegment, At, Goto, retainedVars, recordVars
<1>4. /\ caller'[c].pc = "queued" /\ caller'[c].submission = s
      /\ caller'[c].segment = i
      /\ \A d \in Client : d # c => caller'[d] = caller[d]
  BY <1>1, <1>2, <1>3, CallerGoes DEF IInv, Shaped, Pc
<1>5. \A d \in Client : d # c => caller[d].pc \notin Inside
  BY <1>3, InsideAlone DEF Inside
<1>6. /\ \A d \in Client : caller[d].pc # "queued"
      /\ \A d \in Client :
           caller'[d].pc \in {"queueing", "queued", "marked"} => d = c
  BY <1>3, <1>4, <1>5 DEF Inside
<1>7. \A t \in SubmissionId : \A j :
        /\ ReportedWrites(t, j)' = ReportedWrites(t, j)
        /\ SegmentWrites(t, j)' = SegmentWrites(t, j)
  BY <1>3 DEF ReportedWrites, SegmentWrites
<1>8. \A r \in Retained : r \in SegmentWrites(s, i) => lastWriter'[r] = s
  BY <1>3, IdentityAssumption
<1>9. \A r \in Retained : r \notin SegmentWrites(s, i) => lastWriter'[r] = lastWriter[r]
  BY <1>3, IdentityAssumption
<1>10. Marking(c)'
  <2>1. Marking(c)
    BY <1>3 DEF Provenance
  <2> QED BY <1>1, <1>2, <1>3, <1>4, <1>7, <1>8, <2>1 DEF Marking, ReportedWrites
<1>11. ASSUME NEW t \in SubmissionId, Answered(t)' PROVE Answerable(t)'
  <2>1. AllMarked(t) => AllMarked(t)'
    BY <1>3, <1>7 DEF AllMarked
  <2>2. CASE Answered(t)
    <3>1. \A d \in Client : ~Finishing(d, t)
      BY <1>6 DEF Finishing
    <3>2. Answerable(t)
      BY <2>2 DEF Provenance
    <3> QED BY <1>3, <2>1, <3>1, <3>2 DEF Answerable
  <2>3. CASE ~Answered(t)
    <3>1. <<t, "done">> \in callbacks' /\ <<t, "done">> \notin callbacks
      BY <1>3, <1>11, <2>3 DEF Answered
    <3>2. "done" \notin transition[s].work.segments[i].readbacks
      BY <1>1, PlanWrites, IdentityAssumption DEF IInv, Planned
    <3>3. LastSegment(c) /\ t = s
      BY <1>3, <3>1, <3>2
    <3>4. Finishing(c, t)'
      BY <1>1, <1>2, <1>3, <1>4, <3>3 DEF Finishing, LastSegment
    <3> QED BY <1>1, <1>3, <3>3, <3>4 DEF Answerable
  <2> QED BY <2>2, <2>3
<1>12. ASSUME NEW t \in SubmissionId, status'[t] = "Accepted" PROVE Writing(t)'
  <2>1. Writing(t) /\ status[t] = "Accepted"
    BY <1>3, <1>12 DEF Provenance
  <2>2. R!Participants(transition[t])' = R!Participants(transition[t])
    BY <1>3 DEF R!Participants
  <2>3. ASSUME NEW r \in submitted[t] PROVE lastWriter'[r] = t
    <3>1. r \in Retained /\ lastWriter[r] = t /\ r \in R!Participants(transition[t])
      BY <2>1 DEF Writing, R!Participants
    <3>2. CASE r \in SegmentWrites(s, i)
      <4>1. r \in R!Participants(transition[s])
        BY <1>1, <3>1, <3>2, SegmentWritesUsed DEF ReportedWrites
      <4>2. t = s
        BY <1>1, <2>1, <3>1, <4>1
           DEF AuthorityHolds, R!ExclusiveAuthority, R!open, R!SubmissionId, SubmissionId
      <4> QED BY <1>8, <3>1, <3>2, <4>2
    <3> QED BY <1>9, <3>1, <3>2
  <2> QED BY <1>3, <2>1, <2>2, <2>3 DEF Writing
<1>13. ASSUME NEW r \in Retained, NEW t \in SubmissionId,
              R!Snapshot(r)' = R!Established(t)
       PROVE  lastWriter'[r] = t \/ Unmarked(r)'
  <2>1. R!Snapshot(r) = R!Established(t)
    BY <1>3, <1>13 DEF R!Snapshot, R!Unknown, R!Established
  <2>2. lastWriter[r] = t
    BY <1>6, <2>1 DEF Provenance, EstablishedByLastWriter, Unmarked, At
  <2>3. r \in SegmentWrites(s, i) => Unmarked(r)'
    BY <1>4, <1>7 DEF Unmarked, At
  <2> QED BY <1>9, <2>2, <2>3
<1>14. \A r \in Seeded \cap Retained :
         content'[r] # "Unmaterialized" => records'[r].present
  BY <1>3 DEF Provenance
<1>15. EstablishedByLastWriter'
  BY <1>13 DEF EstablishedByLastWriter, R!Established
<1> QED BY <1>6, <1>10, <1>11, <1>12, <1>14, <1>15 DEF Provenance

(* and is marked                                                             *)
LEMMA ProvenanceMarks ==
  ASSUME IInv, AuthorityHolds, Provenance, NEW c \in Client, MarkSegment(c)
  PROVE  Provenance'
<1>1. PICK s \in SubmissionId : s = caller[c].submission /\ status[s] = "Accepted"
  BY DEF MarkSegment, At, IInv, Equipped, Owning
<1>2. PICK i \in DOMAIN transition[s].work.segments : i = caller[c].segment
  BY <1>1 DEF MarkSegment, At, IInv, Equipped
<1>3. s \in inFlight
  BY <1>1 DEF IInv, Recorded, RecordsMatchHandles, accepted
<1>4. PICK written : written = ReportedWrites(s, i)
  OBVIOUS
<1>5. /\ caller[c].pc = "queued" /\ caller' = [caller EXCEPT ![c].pc = "marked"]
      /\ content' = [r \in Seeded |->
           IF r \in (IF i = 1 THEN seeds[s] ELSE {}) /\ content[r] = "Unmaterialized"
           THEN "Queued" ELSE content[r]]
      /\ UNCHANGED <<status, transition, seeds, events, callbacks, lastWriter>>
      /\ IF written # {} THEN R!Mark(s, written) ELSE UNCHANGED <<submitted, records>>
  BY <1>1, <1>2, <1>3, <1>4
     DEF MarkSegment, At, Goto, retainedVars, recordVars, queueVars, R!Mark
<1>6. /\ submitted \in [SubmissionId -> SUBSET Retained]
      /\ DOMAIN records = Retained
  BY DEF AuthorityHolds, R!TypeOK, R!SubmissionId, SubmissionId
<1>7. /\ submitted'[s] = submitted[s] \cup written
      /\ \A t \in SubmissionId : t # s => submitted'[t] = submitted[t]
  BY <1>5, <1>6 DEF R!Mark
<1>8. /\ \A r \in Retained : r \notin written => records'[r] = records[r]
      /\ \A r \in Retained : r \in written =>
           records'[r].present /\ records'[r].pending
  BY <1>5 DEF R!Mark, R!MarkedRecord
<1>9. /\ caller'[c].pc = "marked" /\ caller'[c].submission = s
      /\ caller'[c].segment = i
      /\ \A d \in Client : d # c => caller'[d] = caller[d]
  BY <1>1, <1>2, <1>5, CallerGoes DEF IInv, Shaped, Pc
<1>10. \A d \in Client : d # c => caller[d].pc \notin Inside
  BY <1>5, InsideAlone DEF Inside
<1>11. /\ \A d \in Client : caller[d].pc = "queued" => d = c
       /\ \A d \in Client :
            caller'[d].pc \in {"queueing", "queued", "marked"} => d = c
  BY <1>9, <1>10 DEF Inside
<1>12. \A t \in SubmissionId : \A j :
         /\ ReportedWrites(t, j)' = ReportedWrites(t, j)
         /\ SegmentWrites(t, j)' = SegmentWrites(t, j)
  BY <1>5 DEF ReportedWrites, SegmentWrites
<1>13. Marking(c)
  BY <1>5 DEF Provenance
<1>14. \A r \in written : lastWriter[r] = s
  BY <1>1, <1>2, <1>4, <1>5, <1>13 DEF Marking
<1>15. PICK k \in Nat \ {0} : /\ DOMAIN transition[s].work.segments = 1 .. k
                             /\ Len(transition[s].work.segments) = k
  BY <1>1, PlanSegments DEF IInv, Planned
<1>16. \A j \in DOMAIN transition[s].work.segments :
         j <= i => ReportedWrites(s, j) \subseteq submitted'[s]
  <2>1. \A j \in 1 .. k : j < i => ReportedWrites(s, j) \subseteq submitted[s]
    BY <1>1, <1>2, <1>5, <1>13, <1>15 DEF Marking
  <2>2. \A j \in 1 .. k : j <= i => j < i \/ j = i
    BY <1>2, <1>15
  <2> QED BY <1>4, <1>7, <1>15, <2>1, <2>2
<1>17. Marking(c)'
  BY <1>5, <1>9, <1>12, <1>16 DEF Marking
<1>18. ASSUME NEW t \in SubmissionId, Answered(t)' PROVE Answerable(t)'
  <2>1. Answerable(t)
    BY <1>5, <1>18 DEF Provenance, Answered
  <2>2. AllMarked(t) => AllMarked(t)'
    BY <1>5, <1>7, <1>12 DEF AllMarked
  <2>3. ASSUME NEW d \in Client, Finishing(d, t) PROVE AllMarked(t)'
    <3>1. d = c /\ t = s /\ i = k
      BY <1>1, <1>2, <1>11, <1>15, <2>3 DEF Finishing, LastSegment
    <3>2. \A j \in 1 .. k : j <= i
      BY <3>1
    <3> QED BY <1>5, <1>12, <1>15, <1>16, <3>1, <3>2 DEF AllMarked
  <2> QED BY <1>5, <2>1, <2>2, <2>3 DEF Answerable
<1>19. ASSUME NEW t \in SubmissionId, status'[t] = "Accepted" PROVE Writing(t)'
  <2>1. Writing(t) /\ status[t] = "Accepted"
    BY <1>5, <1>19 DEF Provenance
  <2>2. R!Participants(transition[t])' = R!Participants(transition[t])
    BY <1>5 DEF R!Participants
  <2>3. written \subseteq R!Participants(transition[s])
    BY <1>1, <1>4, SegmentWritesUsed
  <2>4. /\ submitted'[t] \subseteq R!Participants(transition[t])
        /\ \A r \in submitted'[t] : lastWriter[r] = t
    BY <1>7, <1>14, <2>1, <2>3 DEF Writing
  <2> QED BY <1>5, <2>1, <2>2, <2>4 DEF Writing
<1>20. ASSUME NEW r \in Seeded \cap Retained, content'[r] # "Unmaterialized"
       PROVE  records'[r].present
  <2>1. CASE r \in written
    BY <1>8, <2>1
  <2>2. CASE r \notin written
    <3>1. ~(i = 1 /\ r \in seeds[s])
      BY <1>4, <2>2 DEF ReportedWrites, SegmentWrites
    <3>2. content'[r] = content[r]
      BY <1>5, <3>1
    <3> QED BY <1>8, <1>20, <2>2, <3>2 DEF Provenance
  <2> QED BY <2>1, <2>2
<1>21. ASSUME NEW r \in Retained, NEW t \in SubmissionId,
              R!Snapshot(r)' = R!Established(t)
       PROVE  lastWriter'[r] = t \/ Unmarked(r)'
  <2>1. r \notin written
    BY <1>8, <1>21, EstablishedNames DEF R!Snapshot
  <2>2. R!Snapshot(r) = R!Established(t)
    BY <1>8, <1>21, <2>1 DEF R!Snapshot
  <2>3. ~Unmarked(r)
    BY <1>1, <1>2, <1>4, <1>11, <2>1 DEF Unmarked, At, ReportedWrites
  <2> QED BY <1>5, <2>2, <2>3 DEF Provenance, EstablishedByLastWriter
<1>22. EstablishedByLastWriter'
  BY <1>21 DEF EstablishedByLastWriter, R!Established
<1> QED BY <1>11, <1>17, <1>18, <1>19, <1>20, <1>22 DEF Provenance

(* An accepted plan brings what its targets need                             *)
LEMMA ProvenanceAccepts ==
  ASSUME TargetsAreWritten, IInv, AuthorityHolds, Provenance,
         NEW c \in Client, Accept(c)
  PROVE  Provenance'
<1> DEFINE g == graph[c]
<1>0. PICK s \in SubmissionId : s = nextSubmission
  BY Accepts
<1>1. /\ status[s] = "None" /\ caller[c].pc = "admitting"
      /\ status' = [status EXCEPT ![s] = "Accepted"]
      /\ transition' = [transition EXCEPT ![s] = g]
      /\ seeds' = [seeds EXCEPT ![s] = EffectiveSeeds(g)]
      /\ g.work \in Work
  BY <1>0, Accepts
<1>2. /\ caller \in [Client -> CallerState] /\ DOMAIN transition = SubmissionId
      /\ status \in [SubmissionId -> Statuses]
      /\ seeds \in [SubmissionId -> SUBSET Seeded]
  BY DEF IInv, Shaped
<1>3. /\ UNCHANGED <<submitted, records, content, lastWriter, callbacks, events>>
      /\ R!Admissible(g)
  BY <1>0 DEF Accept, R!Reserve, queueVars
<1> HIDE DEF g
<1>4. /\ caller'[c].pc = "encoding" /\ caller'[c].submission = s
      /\ \A d \in Client : d # c => caller'[d] = caller[d]
  <2>1. caller \in [Client -> CallerState]
    BY <1>2
  <2>2. caller' = [caller EXCEPT ![c] =
          [Idle EXCEPT !.pc = "encoding", !.submission = s]]
    BY <1>0 DEF Accept
  <2> QED BY <2>1, <2>2, CallerSubmits
<1>5. \A d \in Client : d # c => caller[d].pc \notin Inside
  BY <1>1, InsideAlone DEF Inside
<1>6. /\ \A d \in Client : caller'[d].pc \notin {"queueing", "queued", "marked"}
      /\ \A d \in Client : caller[d].pc # "queued"
  BY <1>1, <1>4, <1>5 DEF Inside
<1>7. \A t \in SubmissionId : t # s =>
        /\ status'[t] = status[t] /\ transition'[t] = transition[t]
        /\ seeds'[t] = seeds[t]
  BY <1>1, <1>2
<1>8. /\ status'[s] = "Accepted" /\ transition'[s] = g /\ seeds'[s] = EffectiveSeeds(g)
  BY <1>1, <1>2
<1>9. ASSUME NEW t \in SubmissionId, Answered(t)' PROVE Answerable(t)'
  <2>1. Answerable(t)
    BY <1>3, <1>9 DEF Provenance, Answered
  <2>2. t # s /\ \A d \in Client : ~Finishing(d, t)
    BY <1>1, <1>6, <2>1 DEF Answerable, Finishing
  <2>3. AllMarked(t) => AllMarked(t)'
    BY <1>3, <1>7, <2>2 DEF AllMarked, ReportedWrites, SegmentWrites
  <2> QED BY <1>7, <2>1, <2>2, <2>3 DEF Answerable
<1>10. ASSUME NEW r \in g.work.target
       PROVE  \/ r \in EffectiveSeeds(g)
              \/ \E i \in DOMAIN g.work.segments : r \in g.work.segments[i].writes
  <2>1. r \in R!Participants(g)
    BY <1>1, AuthorityAssumption DEF R!WorkAssumption, R!Participants
  <2>2. R!CanReconstruct(g, r) /\ R!LifecycleCurrent(g, r)
    BY <1>3, <1>10, <2>1 DEF R!Admissible, R!ObligationMet
  <2>3. CASE r \in g.work.explicit
    BY <1>1, <1>10, <2>3 DEF TargetsAreWritten
  <2>4. CASE r \in R!Fresh(g)
    <3>1. /\ Initialization[r] = "Prepared" /\ r \notin g.consumed
          /\ r \in g.work.uses /\ r \in Retained
      BY <1>10, <2>4 DEF R!Fresh, R!Participants
    <3>2. r \in Seeded /\ ~records[r].present
      BY <2>2, <3>1, IdentityAssumption DEF Seeded, R!LifecycleCurrent
    <3>3. content[r] = "Unmaterialized"
      BY <3>1, <3>2 DEF Provenance
    <3> QED BY <3>1, <3>3 DEF EffectiveSeeds, R!Materialized
  <2> QED BY <2>2, <2>3, <2>4 DEF R!CanReconstruct
<1>11. ASSUME NEW t \in SubmissionId, status'[t] = "Accepted" PROVE Writing(t)'
  <2>1. CASE t = s
    <3>1. submitted[s] = {}
      BY <1>1 DEF AuthorityHolds, R!TypeOK, R!open, R!SubmissionId, SubmissionId
    <3> QED BY <1>3, <1>8, <1>10, <2>1, <3>1 DEF Writing
  <2>2. CASE t # s
    <3>1. status[t] = "Accepted" /\ Writing(t)
      BY <1>7, <1>11, <2>2 DEF Provenance
    <3>2. R!Participants(transition'[t]) = R!Participants(transition[t])
      BY <1>7, <2>2
    <3> QED BY <1>3, <1>7, <2>2, <3>1, <3>2 DEF Writing
  <2> QED BY <2>1, <2>2
<1>12. ASSUME NEW r \in Retained, NEW t \in SubmissionId,
              R!Snapshot(r)' = R!Established(t)
       PROVE  lastWriter'[r] = t
  <2>1. R!Snapshot(r) = R!Established(t)
    BY <1>3, <1>12 DEF R!Snapshot, R!Unknown, R!Established
  <2> QED BY <1>3, <1>6, <2>1 DEF Provenance, EstablishedByLastWriter, Unmarked, At
<1>13. EstablishedByLastWriter'
  BY <1>12 DEF EstablishedByLastWriter, R!Established
<1>14. \A r \in Seeded \cap Retained :
         content'[r] # "Unmaterialized" => records'[r].present
  BY <1>3 DEF Provenance
<1> QED BY <1>6, <1>9, <1>11, <1>13, <1>14 DEF Provenance

(* What an ending leaves of the transitions and of what they queued          *)
LEMMA EndLeaves ==
  ASSUME IInv, AuthorityHolds, NEW s \in SubmissionId, Ending(s), slot' = slot
  PROVE  /\ \A t \in SubmissionId : status'[t] = "Accepted" =>
              /\ status[t] = "Accepted" /\ transition'[t] = transition[t]
              /\ seeds'[t] = seeds[t] /\ submitted'[t] = submitted[t]
         /\ \A t \in SubmissionId : status'[t] = "None" <=> status[t] = "None"
         /\ \A r \in Retained : records[r].present => records'[r].present
<1>1. Ended(s)
  BY Ends DEF IInv
<1>2. submitted \in [SubmissionId -> SUBSET Retained] /\ status \in [SubmissionId -> Statuses]
  BY DEF AuthorityHolds, R!TypeOK, R!SubmissionId, SubmissionId, IInv, Shaped
<1>3. \/ UNCHANGED <<submitted, records, status>>
      \/ R!Fail(s) \/ R!Settle(s)
  BY DEF Ending, FailSubmission, CompleteSubmission, CompleteReadback, retainedVars
<1>4. CASE UNCHANGED <<submitted, records, status>>
  BY <1>1, <1>4 DEF Ended
<1>5. CASE R!Fail(s) \/ R!Settle(s)
  <2>1. status'[s] # "Accepted" /\ submitted' = [submitted EXCEPT ![s] = {}]
    BY <1>2, <1>5 DEF R!Fail, R!Settle, R!Release
  <2>2. \A r \in Retained : records[r].present => records'[r].present
    BY <1>5 DEF R!Fail, R!Settle, R!FailedRecord, R!CompletedRecord
  <2> QED BY <1>1, <1>2, <2>1, <2>2 DEF Ended
<1> QED BY <1>3, <1>4, <1>5

(* While nobody is between a queue.submit and its mark, an ending keeps what  *)
(* callers are told                                                          *)
LEMMA ProvenanceEnds ==
  ASSUME IInv, AuthorityHolds, Provenance, NEW s \in SubmissionId, Ending(s),
         slot' = slot, lastWriter' = lastWriter,
         \A t \in SubmissionId : Answered(t)' => Answered(t),
         \A d \in Client : caller[d].pc # "queued",
         \A d \in Client : caller'[d].pc \notin {"queueing", "queued", "marked"},
         \A r \in Seeded \cap Retained :
           content'[r] # "Unmaterialized" => content[r] # "Unmaterialized" \/ records'[r].present,
         \A r \in Retained, t \in SubmissionId :
           R!Snapshot(r)' = R!Established(t) =>
             R!Snapshot(r) = R!Established(t) \/ lastWriter[r] = t
  PROVE  Provenance'
<1>1. /\ \A t \in SubmissionId : status'[t] = "Accepted" =>
           /\ status[t] = "Accepted" /\ transition'[t] = transition[t]
           /\ seeds'[t] = seeds[t] /\ submitted'[t] = submitted[t]
      /\ \A t \in SubmissionId : status'[t] = "None" <=> status[t] = "None"
      /\ \A r \in Retained : records[r].present => records'[r].present
  BY EndLeaves
<1>2. ASSUME NEW t \in SubmissionId, Answered(t)' PROVE Answerable(t)'
  <2>1. Answerable(t) /\ \A d \in Client : ~Finishing(d, t)
    BY <1>2 DEF Provenance, Finishing
  <2>2. ASSUME status'[t] = "Accepted" PROVE AllMarked(t)'
    <3>1. AllMarked(t)
      BY <1>1, <2>1, <2>2 DEF Answerable
    <3> QED BY <1>1, <2>2, <3>1 DEF AllMarked, ReportedWrites, SegmentWrites
  <2> QED BY <1>1, <2>1, <2>2 DEF Answerable
<1>3. ASSUME NEW t \in SubmissionId, status'[t] = "Accepted" PROVE Writing(t)'
  <2>1. Writing(t)
    BY <1>1, <1>3 DEF Provenance
  <2>2. R!Participants(transition'[t]) = R!Participants(transition[t])
    BY <1>1, <1>3
  <2> QED BY <1>1, <1>3, <2>1, <2>2 DEF Writing
<1>4. \A r \in Seeded \cap Retained :
        content'[r] # "Unmaterialized" => records'[r].present
  BY <1>1 DEF Provenance
<1>5. ASSUME NEW r \in Retained, NEW t \in SubmissionId,
             R!Snapshot(r)' = R!Established(t)
      PROVE  lastWriter'[r] = t
  BY <1>5 DEF Provenance, EstablishedByLastWriter, Unmarked, At
<1>6. EstablishedByLastWriter'
  BY <1>5 DEF EstablishedByLastWriter, R!Established
<1> QED BY <1>2, <1>3, <1>4, <1>6 DEF Provenance

(* A failure tells nobody more than before                                   *)
LEMMA FailureTells ==
  ASSUME IInv, AuthorityHolds, NEW s \in SubmissionId, FailSubmission(s),
         NEW r \in Retained, NEW t \in SubmissionId,
         R!Snapshot(r)' = R!Established(t)
  PROVE  R!Snapshot(r) = R!Established(t)
<1>1. CASE R!Fail(s)
  <2>1. records' = [q \in Retained |->
          IF q \in submitted[s] THEN R!FailedRecord(transition[s], q) ELSE records[q]]
    BY <1>1 DEF R!Fail
  <2>2. r \notin submitted[s]
    BY <2>1, EstablishedNames DEF R!Snapshot, R!FailedRecord
  <2> QED BY <2>1, <2>2 DEF R!Snapshot, R!Unknown, R!Established
<1>2. CASE records' = records
  BY <1>2 DEF R!Snapshot, R!Unknown, R!Established
<1> QED BY <1>1, <1>2 DEF FailSubmission, retainedVars

(* A completion tells of the writes it was the last to queue                 *)
LEMMA CompletionTells ==
  ASSUME IInv, AuthorityHolds, Provenance, NEW s \in SubmissionId, CompleteSubmission(s),
         status[s] = "Accepted" => AllMarked(s),
         NEW r \in Retained, NEW t \in SubmissionId,
         R!Snapshot(r)' = R!Established(t)
  PROVE  R!Snapshot(r) = R!Established(t) \/ lastWriter[r] = t
<1>1. CASE records' = records
  BY <1>1 DEF R!Snapshot, R!Unknown, R!Established
<1>2. CASE records' # records
  <2>1. status[s] = "Accepted" /\ R!Settle(s)
    BY <1>2 DEF CompleteSubmission, retainedVars
  <2>2. /\ records' = [q \in Retained |->
             IF q \in R!Participants(transition[s])
             THEN R!CompletedRecord(s, transition[s], q) ELSE records[q]]
        /\ Writing(s) /\ AllMarked(s)
    BY <2>1 DEF R!Settle, Provenance
  <2>3. CASE r \notin R!Participants(transition[s])
    BY <2>2, <2>3 DEF R!Snapshot, R!Unknown, R!Established
  <2>4. CASE r \in R!Participants(transition[s])
    <3>1. /\ ~records'[r].pending
          /\ records'[r].opaque = R!CompletedOpaque(s, transition[s], r)
      BY <2>2, <2>4 DEF R!CompletedRecord
    <3>2. R!CompletedOpaque(s, transition[s], r) = R!Established(t)
      BY <3>1 DEF R!Snapshot, R!Established
    <3>3. CASE r \in transition[s].work.target
      <4>1. r \in submitted[s]
        BY <2>1, <2>2, <3>3, WritesReported
      <4> QED BY <2>2, <3>2, <3>3, <4>1, EstablishedNames DEF R!CompletedOpaque, Writing
    <3>4. CASE r \in submitted[s]
      <4>1. \/ R!CompletedOpaque(s, transition[s], r) = R!Established(s)
            \/ R!CompletedOpaque(s, transition[s], r) = R!Unknown
        BY <3>4 DEF R!CompletedOpaque
      <4>2. t = s
        BY <3>2, <4>1, EstablishedNames
      <4> QED BY <2>2, <3>4, <4>2 DEF Writing
    <3>5. CASE r \notin transition[s].work.target \cup submitted[s]
      <4>1. records[r].opaque = R!Established(t)
        BY <3>2, <3>5 DEF R!CompletedOpaque
      <4>2. ~records[r].pending
        <5> SUFFICES ASSUME records[r].pending PROVE FALSE
          OBVIOUS
        <5>1. PICK p \in SubmissionId : status[p] = "Accepted" /\ r \in submitted[p]
          BY DEF AuthorityHolds, R!PendingWhileQueued, R!open, R!SubmissionId, SubmissionId
        <5>2. r \in R!Participants(transition[p]) /\ p # s
          BY <3>5, <5>1 DEF Provenance, Writing
        <5> QED BY <2>1, <2>4, <5>1, <5>2
                DEF AuthorityHolds, R!ExclusiveAuthority, R!open, R!SubmissionId, SubmissionId
      <4> QED BY <4>1, <4>2 DEF R!Snapshot
    <3> QED BY <3>3, <3>4, <3>5
  <2> QED BY <2>3, <2>4
<1> QED BY <1>1, <1>2

(* The cache collects no retained content                                    *)
LEMMA ProvenanceEvicts ==
  ASSUME RetainedIsKept, IInv, AuthorityHolds, Provenance,
         NEW q \in Evictable, Evict(q)
  PROVE  Provenance'
<1>1. /\ UNCHANGED <<status, transition, submitted, records, seeds, caller,
                     callbacks, events>>
      /\ content' = [r \in Seeded |-> IF r = q THEN "Unmaterialized" ELSE content[r]]
      /\ lastWriter' = [lastWriter EXCEPT ![q] = 0]
  BY DEF Evict, retainedVars, recordVars
<1>2. \A r \in Retained : lastWriter'[r] = lastWriter[r]
  BY <1>1 DEF RetainedIsKept
<1>3. \A s \in SubmissionId : submitted[s] \subseteq Retained
  BY DEF AuthorityHolds, R!TypeOK, R!SubmissionId, SubmissionId
<1>4. \A s \in SubmissionId : \A j : ReportedWrites(s, j)' = ReportedWrites(s, j)
  BY <1>1 DEF ReportedWrites, SegmentWrites
<1>5. ASSUME NEW c \in Client, caller'[c].pc \in {"queueing", "queued", "marked"}
      PROVE  Marking(c)'
  <2>1. Marking(c)
    BY <1>1, <1>5 DEF Provenance
  <2>2. caller[c].submission \in SubmissionId
    BY <1>1, <1>5 DEF IInv, Equipped, Owning
  <2>3. ReportedWrites(caller[c].submission, caller[c].segment) \subseteq Retained
    BY DEF ReportedWrites
  <2> QED BY <1>1, <1>2, <1>4, <2>1, <2>2, <2>3 DEF Marking
<1>6. ASSUME NEW s \in SubmissionId, Answered(s)' PROVE Answerable(s)'
  <2>1. Answerable(s)
    BY <1>1, <1>6 DEF Provenance, Answered
  <2>2. AllMarked(s) => AllMarked(s)'
    BY <1>1, <1>4 DEF AllMarked
  <2>3. \A c \in Client : Finishing(c, s) => Finishing(c, s)'
    BY <1>1 DEF Finishing, LastSegment
  <2> QED BY <1>1, <2>1, <2>2, <2>3 DEF Answerable
<1>7. ASSUME NEW s \in SubmissionId, status'[s] = "Accepted" PROVE Writing(s)'
  BY <1>1, <1>2, <1>3, <1>7 DEF Provenance, Writing, R!Participants
<1>8. ASSUME NEW r \in Retained, NEW t \in SubmissionId,
             R!Snapshot(r)' = R!Established(t)
      PROVE  lastWriter'[r] = t \/ Unmarked(r)'
  <2>1. R!Snapshot(r) = R!Established(t)
    BY <1>1, <1>8 DEF R!Snapshot, R!Unknown, R!Established
  <2>2. Unmarked(r) => Unmarked(r)'
    <3>1. UNCHANGED <<transition, seeds, caller>>
      BY <1>1
    <3> QED BY <3>1 DEF Unmarked, At, SegmentWrites
  <2> QED BY <1>2, <2>1, <2>2 DEF Provenance, EstablishedByLastWriter
<1>9. EstablishedByLastWriter'
  BY <1>8 DEF EstablishedByLastWriter, R!Established
<1>10. \A r \in Seeded \cap Retained :
         content'[r] # "Unmaterialized" => records'[r].present
  BY <1>1 DEF Provenance
<1> QED BY <1>5, <1>6, <1>7, <1>9, <1>10 DEF Provenance

(* A new owner has told nobody anything                                      *)
NewOwner ==
  /\ \A s \in SubmissionId : status[s] # "Accepted"
  /\ records = [r \in Retained |-> R!NoRecord]
  /\ content = [r \in Seeded |-> "Unmaterialized"]
  /\ callbacks = {} /\ events = <<>>
  /\ \A c \in Client : caller[c].pc \in {"idle", "prepared"}

(* An owner that accepted nothing is told nothing                             *)
LEMMA NothingTold == NewOwner => Provenance
<1> SUFFICES ASSUME NewOwner PROVE Provenance
  OBVIOUS
<1> USE DEF NewOwner
<1>1. \A s \in SubmissionId : ~Answered(s)
  BY DEF Answered
<1>2. EstablishedByLastWriter
  BY EstablishedNames DEF EstablishedByLastWriter, R!Snapshot, R!NoRecord
<1> QED BY <1>1, <1>2 DEF Provenance

(* The next segment: all earlier ones are marked                             *)
LEMMA ProvenanceAdvances ==
  ASSUME IInv, Provenance, NEW c \in Client, Encode(c) \/ NextSegment(c)
  PROVE  Provenance'
<1> USE DEF Pc
<1>1. /\ caller[c].pc \in {"encoding", "marked"}
      /\ UNCHANGED <<status, transition, submitted, records, seeds, content,
                     lastWriter, callbacks, events>>
  BY DEF Encode, NextSegment, At, retainedVars, recordVars, queueVars
<1>2. PICK s \in SubmissionId : s = caller[c].submission /\ status[s] = "Accepted"
  BY <1>1 DEF IInv, Equipped, Owning
<1>3. PICK k \in Nat \ {0} : DOMAIN transition[s].work.segments = 1 .. k
  BY <1>2, PlanSegments DEF IInv, Planned
<1>4. /\ caller \in [Client -> CallerState] /\ caller[c].segment \in Nat
  BY CallerFields DEF IInv, Shaped
<1>5. PICK n \in Nat :
        /\ caller' = [caller EXCEPT ![c].pc = "queueing", ![c].segment = n]
        /\ \A j \in 1 .. k : j < n => caller[c].pc = "marked" /\ j <= caller[c].segment
  <2>1. CASE Encode(c)
    <3>1. \A j \in 1 .. k : ~(j < 1)
      BY <1>3
    <3> QED BY <2>1, <3>1 DEF Encode
  <2>2. CASE NextSegment(c)
    <3>1. \A j \in 1 .. k : j < caller[c].segment + 1 => j <= caller[c].segment
      BY <1>4
    <3>2. caller[c].segment + 1 \in Nat /\ caller[c].pc = "marked"
      BY <1>4, <2>2 DEF NextSegment, At
    <3>3. caller' = [caller EXCEPT ![c].pc = "queueing",
                                   ![c].segment = caller[c].segment + 1]
      BY <1>4, <2>2 DEF NextSegment
    <3> QED BY <3>1, <3>2, <3>3
  <2> QED BY <2>1, <2>2
<1>6. /\ caller'[c].pc = "queueing" /\ caller'[c].segment = n
      /\ caller'[c].submission = s
      /\ \A d \in Client : d # c => caller'[d] = caller[d]
  <2>1. /\ caller \in [Client -> CallerState]
        /\ caller' = [caller EXCEPT ![c].pc = "queueing", ![c].segment = n]
    BY <1>4, <1>5
  <2>2. /\ caller'[c].pc = "queueing" /\ caller'[c].segment = n
        /\ caller'[c].submission = caller[c].submission
        /\ \A d \in Client : d # c => caller'[d] = caller[d]
    BY <2>1, CallerAdvances
  <2> QED BY <1>2, <2>2
<1>7. \A d \in Client : d # c => caller[d].pc \notin Inside
  BY <1>1, InsideAlone DEF Inside
<1>8. /\ \A d \in Client : caller[d].pc # "queued"
      /\ \A d \in Client :
           caller'[d].pc \in {"queueing", "queued", "marked"} => d = c
  BY <1>1, <1>6, <1>7 DEF Inside
<1>9. \A t \in SubmissionId : \A j :
        /\ ReportedWrites(t, j)' = ReportedWrites(t, j)
        /\ SegmentWrites(t, j)' = SegmentWrites(t, j)
  BY <1>1 DEF ReportedWrites, SegmentWrites
<1>10. Marking(c)'
  <2>1. \A j \in 1 .. k : j < n => ReportedWrites(s, j) \subseteq submitted[s]
    <3>1. caller[c].pc = "marked" => Marking(c)
      BY DEF Provenance
    <3> QED BY <1>2, <1>3, <1>5, <3>1 DEF Marking
  <2> QED BY <1>1, <1>3, <1>6, <1>9, <2>1 DEF Marking
<1>11. ASSUME NEW t \in SubmissionId, Answered(t)' PROVE Answerable(t)'
  <2>1. Answerable(t) /\ \A d \in Client : ~Finishing(d, t)
    BY <1>1, <1>8, <1>11 DEF Provenance, Answered, Finishing
  <2>2. AllMarked(t) => AllMarked(t)'
    BY <1>1, <1>9 DEF AllMarked
  <2> QED BY <1>1, <2>1, <2>2 DEF Answerable
<1>12. ASSUME NEW t \in SubmissionId, status'[t] = "Accepted" PROVE Writing(t)'
  BY <1>1, <1>12 DEF Provenance, Writing, R!Participants
<1>13. ASSUME NEW r \in Retained, NEW t \in SubmissionId,
              R!Snapshot(r)' = R!Established(t)
       PROVE  lastWriter'[r] = t
  <2>1. R!Snapshot(r) = R!Established(t)
    BY <1>1, <1>13 DEF R!Snapshot, R!Unknown, R!Established
  <2> QED BY <1>1, <1>8, <2>1 DEF Provenance, EstablishedByLastWriter, Unmarked, At
<1>14. EstablishedByLastWriter'
  BY <1>13 DEF EstablishedByLastWriter, R!Established
<1>15. \A r \in Seeded \cap Retained :
         content'[r] # "Unmaterialized" => records'[r].present
  BY <1>1 DEF Provenance
<1> QED BY <1>8, <1>10, <1>11, <1>12, <1>14, <1>15 DEF Provenance

(* An event is taken once, and a call becomes one event                      *)
LEMMA FewerEvents ==
  ASSUME IInv, DrainEvent \/ Sweep
  PROVE  /\ UNCHANGED <<slot, caller, lastWriter, callbacks>>
         /\ polling # "idle"
         /\ \A t \in SubmissionId : Answered(t)' => Answered(t)
<1>1. UNCHANGED <<slot, caller, lastWriter, callbacks>> /\ polling # "idle"
  BY DEF DrainEvent, Sweep, ticketVars, queueVars
<1>2. CASE Sweep
  BY <1>1, <1>2 DEF Sweep, Answered
<1>3. CASE DrainEvent
  <2>1. events' = Tail(events) /\ events # <<>> /\ events \in Seq(Event)
    BY <1>3 DEF DrainEvent, IInv, Shaped
  <2>2. \A i \in DOMAIN events' :
          \E j \in DOMAIN events : events'[i] = events[j]
    <3>1. ASSUME NEW i \in DOMAIN events'
          PROVE  i + 1 \in DOMAIN events /\ events'[i] = events[i + 1]
      BY <2>1, <3>1
    <3> QED BY <3>1
  <2> QED BY <1>1, <2>2 DEF Answered
<1> QED BY <1>1, <1>2, <1>3

(* A device callback tells of a completion, it never answers for a submission *)
LEMMA CallsAnswer ==
  ASSUME IInv, DeviceCalls, NEW s \in SubmissionId, Answered(s)'
  PROVE  Answered(s)
<1>1. PICK cb \in callbacks, mapped \in BOOLEAN : FireCallback(cb, mapped)
  BY DEF DeviceCalls
<1> DEFINE e == [submission |-> cb[1], of |-> cb[2], mapped |-> mapped]
<1>2. /\ callbacks' \subseteq callbacks /\ events' = Append(events, e)
      /\ events \in Seq(Event)
      /\ cb = <<cb[1], cb[2]>>
  BY <1>1 DEF FireCallback, IInv, Shaped
<1>3. CASE <<s, "done">> \in callbacks'
  BY <1>2, <1>3 DEF Answered
<1>4. ASSUME NEW i \in DOMAIN events', events'[i].submission = s, events'[i].of = "done"
      PROVE  Answered(s)
  <2>1. \/ i \in DOMAIN events /\ events'[i] = events[i]
        \/ events'[i] = e
    <3>1. e \in Event
      BY <1>2 DEF IInv, Shaped, Event
    <3> HIDE DEF e
    <3> QED BY <1>2, <1>4, <3>1
  <2>2. CASE events'[i] = e
    <3>1. e.submission = cb[1] /\ e.of = cb[2]
      OBVIOUS
    <3> HIDE DEF e
    <3>2. cb = <<s, "done">>
      BY <1>2, <1>4, <2>2, <3>1
    <3> QED BY <3>2 DEF Answered
  <2> QED BY <1>4, <2>1, <2>2 DEF Answered
<1> QED BY <1>3, <1>4 DEF Answered

(* Draining an event completes what it is about                               *)
LEMMA EventsAnswer ==
  ASSUME IInv, DrainEvent
  PROVE  \E s \in SubmissionId :
           \/ CompleteSubmission(s) /\ Answered(s)
           \/ \E b \in ReadbackId, mapped \in BOOLEAN : CompleteReadback(s, b, mapped)
<1>1. /\ events # <<>> /\ events \in Seq(Event)
      /\ IF Head(events).of = "done" THEN CompleteSubmission(Head(events).submission)
         ELSE CompleteReadback(Head(events).submission, Head(events).of,
                               Head(events).mapped)
  BY DEF DrainEvent, IInv, Shaped
<1>2. PICK e \in Event : e = Head(events) /\ 1 \in DOMAIN events /\ e = events[1]
  BY <1>1
<1>3. /\ e.submission \in SubmissionId /\ e.mapped \in BOOLEAN
      /\ e.of # "done" => e.of \in ReadbackId
  BY DEF Event
<1>4. CASE e.of = "done"
  <2>1. CompleteSubmission(e.submission)
    BY <1>1, <1>2, <1>4
  <2>2. Answered(e.submission)
    BY <1>2, <1>4 DEF Answered
  <2> QED BY <1>3, <2>1, <2>2
<1>5. CASE e.of # "done"
  <2>1. CompleteReadback(e.submission, e.of, e.mapped)
    BY <1>1, <1>2, <1>5
  <2> QED BY <1>3, <1>5, <2>1
<1> QED BY <1>4, <1>5

(* The fault sweep fails one submission at a time                             *)
LEMMA SweepFails ==
  ASSUME IInv, Sweep
  PROVE  \E s \in SubmissionId : FailSubmission(s)
<1>1. inFlight \in SUBSET SubmissionId /\ inFlight # {} /\ FailSubmission(Min(inFlight))
  BY DEF Sweep, IInv, Shaped
<1>2. inFlight \in SUBSET Nat
  BY <1>1 DEF SubmissionId
<1>3. Min(inFlight) \in inFlight
  BY <1>1, <1>2, LeastIsMin
<1> QED BY <1>1, <1>3

(* Every step keeps what callers are told in agreement with the storage       *)
LEMMA ProvenanceStep ==
  ASSUME RetainedIsKept, TargetsAreWritten, IInv, AuthorityHolds, Provenance, Next
  PROVE  Provenance'
<1> USE DEF Pc
<1>0. caller \in [Client -> CallerState]
  BY DEF IInv, Shaped
<1>1. ASSUME NEW c \in Client, CallerStep(c) PROVE Provenance'
  <2>1. CASE \/ \E w \in Work, known \in SUBSET Retained : PrepareGraph(c, w, known)
             \/ DropGraph(c)
    <3>1. UNCHANGED <<status, transition, submitted, records, seeds, content,
                      lastWriter, caller, callbacks, events>>
      BY <2>1 DEF PrepareGraph, DropGraph, R!PrepareGraph, R!DropGraph,
                  recordVars, queueVars
    <3> QED BY <3>1, ProvenanceRests DEF Answered
  <2>2. CASE \/ ReservePrepared(c) \/ CommitPrepared(c) \/ AbandonPreparation(c)
             \/ DropPrepared(c) \/ BeginSubmit(c) \/ RejectAcceptance(c)
             \/ EndSubmit(c)
    <3>1. /\ UNCHANGED <<status, transition, submitted, records, seeds, content,
                         lastWriter, callbacks, events>>
          /\ caller[c].pc # "queued"
          /\ caller'[c].pc \notin {"queueing", "queued", "marked"}
          /\ \A d \in Client : d # c => caller'[d] = caller[d]
      <4>1. /\ UNCHANGED <<status, transition, submitted, records, seeds,
                           content, lastWriter, callbacks, events>>
            /\ caller[c].pc # "queued"
        BY <2>2 DEF ReservePrepared, CommitPrepared, AbandonPreparation,
             DropPrepared, BeginSubmit, RejectAcceptance, EndSubmit, At,
             retainedVars, recordVars, queueVars
      <4>2. ASSUME NEW x, caller' = [caller EXCEPT ![c] = x],
                   x.pc \notin {"queueing", "queued", "marked"}
            PROVE  /\ caller'[c].pc \notin {"queueing", "queued", "marked"}
                   /\ \A d \in Client : d # c => caller'[d] = caller[d]
        BY <1>0, <4>2
      <4>3. CASE ReservePrepared(c)
        <5>1. PICK x : /\ x = [Idle EXCEPT !.pc = "reserved", !.ticket = nextPrepared,
                                           !.generation = generation]
                       /\ caller' = [caller EXCEPT ![c] = x]
          BY <4>3 DEF ReservePrepared
        <5>2. x.pc = "reserved"
          BY <5>1 DEF Idle
        <5> QED BY <4>1, <4>2, <5>1, <5>2
      <4>4. CASE AbandonPreparation(c) \/ DropPrepared(c) \/ EndSubmit(c)
        <5>1. caller' = [caller EXCEPT ![c] = Idle] /\ Idle.pc = "idle"
          BY <4>4 DEF AbandonPreparation, DropPrepared, EndSubmit, Idle
        <5> QED BY <4>1, <4>2, <5>1
      <4>5. ASSUME NEW pc \in Pc \ {"queueing", "queued", "marked"}, Goto(c, pc)
            PROVE  /\ caller'[c].pc \notin {"queueing", "queued", "marked"}
                   /\ \A d \in Client : d # c => caller'[d] = caller[d]
        BY <1>0, <4>5, CallerGoes
      <4>6. CASE CommitPrepared(c) \/ BeginSubmit(c) \/ RejectAcceptance(c)
        <5>1. Goto(c, "prepared") \/ Goto(c, "admitting")
          BY <4>6 DEF CommitPrepared, BeginSubmit, RejectAcceptance
        <5> QED BY <4>1, <4>5, <5>1
      <4> QED BY <2>2, <4>1, <4>3, <4>4, <4>6
    <3> QED BY <3>1, ProvenanceRests DEF Answered
  <2>3. CASE Accept(c)
    BY <2>3, ProvenanceAccepts
  <2>4. CASE Encode(c) \/ NextSegment(c)
    BY <2>4, ProvenanceAdvances
  <2>5. CASE QueueSegment(c)
    BY <2>5, ProvenanceQueues
  <2>6. CASE MarkSegment(c)
    BY <2>6, ProvenanceMarks
  <2>7. CASE EncodeFails(c) \/ SegmentFails(c)
    <3>1. PICK s \in SubmissionId : s = caller[c].submission /\ FailSubmission(s)
      BY <2>7, EndingSteps DEF FailOwn
    <3>2. /\ UNCHANGED <<slot, lastWriter, callbacks, events, content>>
          /\ caller' = [caller EXCEPT ![c] = Idle]
          /\ caller[c].pc \in {"encoding", "marked"}
      BY <2>7 DEF EncodeFails, SegmentFails, FailOwn, At, ticketVars, queueVars
    <3>3. /\ caller'[c].pc = "idle"
          /\ \A d \in Client : d # c => caller'[d] = caller[d]
      BY <1>0, <3>2, CallerRests
    <3>4. \A d \in Client : d # c => caller[d].pc \notin Inside
      BY <3>2, InsideAlone DEF Inside
    <3>5. /\ \A d \in Client : caller[d].pc # "queued"
          /\ \A d \in Client : caller'[d].pc \notin {"queueing", "queued", "marked"}
      BY <3>2, <3>3, <3>4 DEF Inside
    <3>6. \A t \in SubmissionId : Answered(t)' => Answered(t)
      BY <3>2 DEF Answered
    <3>7. \A r \in Retained, t \in SubmissionId :
            R!Snapshot(r)' = R!Established(t) => R!Snapshot(r) = R!Established(t)
      BY <3>1, FailureTells
    <3> QED BY <3>1, <3>2, <3>5, <3>6, <3>7, ProvenanceEnds DEF Ending
  <2> QED BY <1>1, <2>1, <2>2, <2>3, <2>4, <2>5, <2>6, <2>7 DEF CallerStep, SubmitStep
<1>2. CASE DrainEvent \/ Sweep
  <2>1. /\ UNCHANGED <<slot, caller, lastWriter, callbacks>>
        /\ polling # "idle"
        /\ \A t \in SubmissionId : Answered(t)' => Answered(t)
    BY <1>2, FewerEvents
  <2>2. \A d \in Client : caller[d].pc \notin Inside
    BY <2>1, InsideAlone
  <2>3. /\ \A d \in Client : caller[d].pc # "queued"
        /\ \A d \in Client : caller'[d].pc \notin {"queueing", "queued", "marked"}
    BY <2>1, <2>2 DEF Inside
  <2>4. CASE Sweep
    <3>1. PICK s \in SubmissionId : FailSubmission(s)
      BY <2>4, SweepFails
    <3>2. content' = content
      BY <2>4 DEF Sweep
    <3>3. \A r \in Retained, t \in SubmissionId :
            R!Snapshot(r)' = R!Established(t) => R!Snapshot(r) = R!Established(t)
      BY <3>1, FailureTells
    <3> QED BY <2>1, <2>3, <3>1, <3>2, <3>3, ProvenanceEnds DEF Ending
  <2>5. ASSUME NEW s \in SubmissionId, CompleteSubmission(s), Answered(s)
        PROVE  Provenance'
    <3>1. status[s] = "Accepted" => AllMarked(s)
      BY <2>3, <2>5 DEF Provenance, Answerable, Finishing
    <3>2. \A r \in Retained, t \in SubmissionId :
            R!Snapshot(r)' = R!Established(t) =>
              R!Snapshot(r) = R!Established(t) \/ lastWriter[r] = t
      BY <2>5, <3>1, CompletionTells
    <3>3. \A r \in Seeded \cap Retained :
            content'[r] # "Unmaterialized" =>
              content[r] # "Unmaterialized" \/ records'[r].present
      <4>1. CASE content' = content
        BY <4>1
      <4>2. CASE content' # content
        <5>1. status[s] = "Accepted" /\ R!Settle(s)
              /\ content' = [r \in Seeded |->
                   IF r \in seeds[s] THEN "Completed" ELSE content[r]]
          BY <2>5, <4>2 DEF CompleteSubmission
        <5>2. seeds[s] \cap Retained \subseteq R!Participants(transition[s])
          BY <5>1 DEF IInv, Planned, R!Materialized, R!Participants
        <5>3. \A r \in seeds[s] \cap Retained : records'[r].present
          BY <5>1, <5>2 DEF R!Settle, R!CompletedRecord
        <5> QED BY <5>1, <5>3
      <4> QED BY <4>1, <4>2
    <3> QED BY <2>1, <2>3, <2>5, <3>2, <3>3, ProvenanceEnds DEF Ending
  <2>6. ASSUME NEW s \in SubmissionId, NEW b \in ReadbackId, NEW mapped \in BOOLEAN,
               CompleteReadback(s, b, mapped)
        PROVE  Provenance'
    <3>1. UNCHANGED <<records, content>>
      BY <2>6 DEF CompleteReadback, retainedVars
    <3>2. \A r \in Retained, t \in SubmissionId :
            R!Snapshot(r)' = R!Established(t) => R!Snapshot(r) = R!Established(t)
      BY <3>1 DEF R!Snapshot, R!Unknown, R!Established
    <3> QED BY <2>1, <2>3, <2>6, <3>1, <3>2, ProvenanceEnds DEF Ending
  <2> QED BY <1>2, <2>4, <2>5, <2>6, EventsAnswer
<1>3. CASE \/ BeginProgress \/ Poll \/ BeginSweep \/ EndProgress
           \/ DeviceFault \/ BeginShutdown
  <2>1. UNCHANGED <<status, transition, submitted, records, seeds, content,
                    lastWriter, caller, callbacks, events>>
    BY <1>3 DEF BeginProgress, Poll, BeginSweep, EndProgress, DeviceFault,
                BeginShutdown, retainedVars, recordVars, queueVars
  <2> QED BY <2>1, ProvenanceRests DEF Answered
<1>4. CASE DeviceCalls
  <2>1. UNCHANGED <<status, transition, submitted, records, seeds, content,
                    lastWriter, caller>>
    BY <1>4 DEF DeviceCalls, FireCallback, retainedVars, recordVars
  <2>2. \A s \in SubmissionId : Answered(s)' => Answered(s)
    BY <1>4, CallsAnswer
  <2> QED BY <2>1, <2>2, ProvenanceRests
<1>5. ASSUME NEW q \in Evictable, Evict(q) PROVE Provenance'
  BY <1>5, ProvenanceEvicts
<1>6. CASE ReplaceGeneration \/ DropContext
  <2>1. /\ \A s \in SubmissionId : status'[s] # "Accepted"
        /\ records' = [r \in Retained |-> R!NoRecord]
    <3>1. CASE ReplaceGeneration
      BY <3>1 DEF ReplaceGeneration, R!InstallGeneration, R!SubmissionId,
                  SubmissionId
    <3>2. CASE DropContext
      BY <3>2 DEF DropContext, R!DropOwner, R!SubmissionId, SubmissionId
    <3> QED BY <1>6, <3>1, <3>2
  <2>2. /\ content' = [r \in Seeded |-> "Unmaterialized"]
        /\ callbacks' = {} /\ events' = <<>> /\ caller' = caller
        /\ \A c \in Client : caller[c].pc \in {"idle", "prepared"}
    BY <1>6 DEF ReplaceGeneration, DropContext, FreshOwner, Unborrowed
  <2>3. NewOwner'
    BY <2>1, <2>2 DEF NewOwner, R!NoRecord, R!Unestablished
  <2> QED BY <2>3, NothingTold, PTL
<1> QED BY <1>1, <1>2, <1>3, <1>4, <1>5, <1>6 DEF Next, ProgressStep

(* What a caller is told of retained content is what the storage holds,      *)
(* whenever no retained resource is left to the cache and reconstructions     *)
(* write their targets: eviction and hollow reconstruction are the only ways  *)
(* to a stale "Established".                                                  *)
THEOREM EstablishedIsCurrent ==
  ASSUME RetainedIsKept, TargetsAreWritten
  PROVE  Spec => []EstablishedByLastWriter
<1>1. Init => Provenance
  <2>1. Init => NewOwner
    BY DEF Init, R!Init, NewOwner, Idle, R!SubmissionId, SubmissionId
  <2> QED BY <2>1, NothingTold
<1>2. IInv /\ AuthorityHolds /\ Provenance /\ [Next]_vars => Provenance'
  <2>1. ASSUME Provenance, UNCHANGED vars PROVE Provenance'
    <3>1. UNCHANGED <<status, transition, submitted, records, seeds, content,
                      lastWriter, caller, callbacks, events>>
      BY <2>1 DEF vars, retainedVars, recordVars, queueVars
    <3> QED BY <2>1, <3>1, ProvenanceRests DEF Answered
  <2> QED BY <2>1, ProvenanceStep
<1>3. Provenance => EstablishedByLastWriter
  BY DEF Provenance
<1> QED BY <1>1, <1>2, <1>3, Invariance, AuthorityInherited, PTL DEF Spec
=============================================================================
