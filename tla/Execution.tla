------------------------------ MODULE Execution ------------------------------
(***************************************************************************)
(* The execution owner of one GPU context (backend/wgpu/execution.rs): the  *)
(* life of a prepared submission from its reservation to its terminal       *)
(* observation.                                                             *)
(*                                                                          *)
(* Callers run on threads of their own.  "inner" is a short mutex: one      *)
(* critical section is one step.  "submission_order" is held by a caller    *)
(* over a whole submit_prepared and by a thread over a whole progress, and  *)
(* is the variable order.  The device runs beside them: it calls back in    *)
(* any order once a command buffer is queued, and it may fail at any time.  *)
(*                                                                          *)
(* The retained-state authority is RetainedContinuity; its variables are    *)
(* variables here, and its specification is one of the properties.          *)
(***************************************************************************)
EXTENDS Naturals, Sequences, FiniteSets, FiniteSetsExt

CONSTANTS
  Client, Resource, Region, Retained, Initialization, Reconstruction, Work,
  NoGraph, MaxSubmission, MaxGeneration,
  ReadbackId,          \* the readbacks of a plan
  ReadbackSize,        \* readback -> staging bytes
  SeedBytes,           \* prepared resource -> staging bytes of its content
  Evictable,           \* resources whose realization the cache may collect
  MaxTicket,           \* size of the prepared-submission identity space
  MaxPrepared, MaxInFlight, MaxUpload, MaxReadback, MaxPendingReadbacks

SubmissionId == 1 .. MaxSubmission
TicketId     == 1 .. MaxTicket
Seeded       == {r \in Resource : Initialization[r] = "Prepared"}

(* A plan uses finitely many resources and encodes into segments, one ending *)
(* at each Present and a last one; "writes" are the resources its commands   *)
(* really write.                                                             *)
SegmentOf(w) == [writes : SUBSET w.explicit, readbacks : SUBSET ReadbackId,
                 present : BOOLEAN]

ASSUME PlanAssumption ==
  \A w \in Work :
    /\ IsFiniteSet(w.uses) /\ w.upload \in Nat
    /\ w.segments \in Seq(SegmentOf(w)) \ {<<>>}

(* Identities start at 1; a readback is one of finitely many.                *)
ASSUME IdentityAssumption ==
  /\ {MaxSubmission, MaxGeneration} \subseteq Nat \ {0}
  /\ Retained \subseteq Resource
  /\ \A w \in Work : w.uses \subseteq Resource /\ w.explicit \subseteq w.uses
  /\ Client \cap {"free", "progress"} = {}
  /\ IsFiniteSet(ReadbackId) /\ "done" \notin ReadbackId

ASSUME PolicyAssumption ==
  /\ ReadbackSize \in [ReadbackId -> Nat]
  /\ SeedBytes \in [Seeded -> Nat]
  /\ Evictable \subseteq Resource
  /\ {MaxTicket, MaxPrepared, MaxInFlight} \subseteq Nat \ {0}
  /\ {MaxUpload, MaxReadback, MaxPendingReadbacks} \subseteq Nat

VARIABLES
  generation, graph, status, transition, submitted, records, obligations,
  reserved,              \* the retained-state authority
  lifecycle,             \* "Running" | "ShuttingDown" | "Closed"
  slot,                  \* ticket -> "absent" | "reserved" | "ready"
  nextPrepared,          \* next ticket, 0 once they are exhausted
  nextSubmission,        \* next submission identity, 0 once exhausted
  order,                 \* holder of submission_order
  caller,                \* client -> where its thread is
  polling,               \* where the thread inside progress is
  inFlight,              \* submissions with a record
  seeds,                 \* submission -> initial contents its plan transfers
  held,                  \* submission -> upload bytes of its record
  readbacks,             \* submission -> readback -> status
  uploadBytes, readbackBytes, pendingReadbacks,
  callbacks,             \* registered on the queue and not yet called
  events,                \* ExecutionEvent queue
  fault,                 \* a terminal device fault is recorded
  content,               \* seeded resource -> InitialContentMaterialization
  filled,                \* seeded storage whose content is really on the queue
  lastWriter,            \* resource -> last submission queued to write it
  queueTail              \* submission of the last queued command buffer

R == INSTANCE RetainedContinuity

(* Works, graphs and descriptors are those of the authority                  *)
ASSUME AuthorityAssumption ==
  R!DescriptorAssumption /\ R!WorkAssumption /\ R!NoGraphAssumption

retainedVars == <<generation, graph, status, transition, submitted, records,
                  obligations, reserved>>
ticketVars   == <<slot, nextPrepared>>
recordVars   == <<inFlight, seeds, held, readbacks, uploadBytes, readbackBytes,
                  pendingReadbacks>>
queueVars    == <<callbacks, filled, lastWriter, queueTail>>

vars == <<retainedVars, lifecycle, ticketVars, nextSubmission, order, caller,
          polling, recordVars, queueVars, events, fault, content>>

-----------------------------------------------------------------------------
(* Helpers *)

Idle == [pc |-> "idle", ticket |-> 0, generation |-> 0, submission |-> 0,
         segment |-> 0]

Minus(a, b) == IF a > b THEN a - b ELSE 0     \* saturating_sub

(* Fault: the identity space is not closed when it runs out *)
SuccessorUnchecked(id, last) == id + 1

(* allocate_nonzero *)
Successor(id, last) == IF id = last THEN 0 ELSE id + 1

At(c, pc) == caller[c].pc = pc
Goto(c, pc) == caller' = [caller EXCEPT ![c].pc = pc]

Outstanding(s) == {b \in ReadbackId : readbacks[s][b] = "Pending"}
Bytes(bs) == SumFunctionOnSet(ReadbackSize, bs)
PlanReadbacks(w) == UNION {w.segments[i].readbacks : i \in DOMAIN w.segments}
Presents(w) == \E i \in DOMAIN w.segments : w.segments[i].present

(* Fault: submissions share the interval, excluding only progress *)
AcquireShared(holder) ==
  /\ order # "progress"
  /\ holder = "progress" =>
       \A c \in Client : caller[c].pc \in {"idle", "reserved", "prepared"}
  /\ order' = holder

(* submission_order.lock(), held over a submit_prepared or a progress *)
Acquire(holder) == order = "free" /\ order' = holder

(* The caller holds a published plan of this owner *)
Ready(c) ==
  /\ caller[c].generation = generation
  /\ caller[c].ticket # 0
  /\ slot[caller[c].ticket] = "ready"

(* effective_for_acceptance: only contents nobody transferred yet *)
EffectiveSeeds(g) ==
  {r \in R!Materialized(g) : content[r] = "Unmaterialized"}
EffectiveUpload(g) ==
  g.work.upload + SumFunctionOnSet(SeedBytes, EffectiveSeeds(g))

SegmentWrites(s, i) ==
  transition[s].work.segments[i].writes \cup IF i = 1 THEN seeds[s] ELSE {}

(* Fault: only the last segment's retained writes are reported *)
ReportedWritesAtEnd(s, i) ==
  IF i = Len(transition[s].work.segments)
  THEN SegmentWrites(s, i) \cap Retained ELSE {}

(* retained_writes of the segment *)
ReportedWrites(s, i) == SegmentWrites(s, i) \cap Retained

LastSegment(c) ==
  caller[c].segment = Len(transition[caller[c].submission].work.segments)

(* Fault: records are not waited for *)
AdvanceOverRecords(phase, slots, records_) ==
  IF phase = "ShuttingDown" /\ \A t \in TicketId : slots[t] = "absent"
  THEN "Closed" ELSE phase

(* advance_shutdown_if_drained *)
Advance(phase, slots, records_) ==
  IF /\ phase = "ShuttingDown"
     /\ \A t \in TicketId : slots[t] = "absent"
     /\ records_ = {}
  THEN "Closed" ELSE phase

-----------------------------------------------------------------------------
(* Terminal effects on one submission, each under the inner mutex *)

(* Faults: a terminal submission is removed under its pending readbacks; a    *)
(* removed record does not advance the shutdown.                              *)
CleanupSubmission(s) ==
  /\ inFlight' = IF status'[s] # "Accepted" THEN inFlight \ {s} ELSE inFlight
  /\ lifecycle' = Advance(lifecycle, slot, inFlight')
CleanupOnly(s) ==
  /\ inFlight' = IF /\ status'[s] # "Accepted"
                    /\ \A b \in ReadbackId : readbacks'[s][b] # "Pending"
                 THEN inFlight \ {s} ELSE inFlight
  /\ UNCHANGED lifecycle

(* cleanup_submission_if_terminal and advance_shutdown_if_drained; the        *)
(* handles keep the statuses of a removed record.                             *)
Cleanup(s) ==
  /\ inFlight' = IF /\ status'[s] # "Accepted"
                    /\ \A b \in ReadbackId : readbacks'[s][b] # "Pending"
                 THEN inFlight \ {s} ELSE inFlight
  /\ lifecycle' = Advance(lifecycle, slot, inFlight')

(* Fault: the released bytes stay charged to the record *)
ReleaseUploadUnsettled(s) ==
  /\ uploadBytes' = Minus(uploadBytes, held[s])
  /\ seeds' = [seeds EXCEPT ![s] = {}]
  /\ UNCHANGED held

ReleaseUpload(s) ==
  /\ uploadBytes' = Minus(uploadBytes, held[s])
  /\ held' = [held EXCEPT ![s] = 0]
  /\ seeds' = [seeds EXCEPT ![s] = {}]

CompleteSubmission(s) ==
  IF s \in inFlight /\ status[s] = "Accepted"
  THEN /\ R!Settle(s)
       /\ content' = [r \in Seeded |->
            IF r \in seeds[s] THEN "Completed" ELSE content[r]]
       /\ ReleaseUpload(s)
       /\ UNCHANGED <<readbacks, readbackBytes, pendingReadbacks>>
       /\ Cleanup(s)
  ELSE UNCHANGED <<retainedVars, recordVars, content, lifecycle>>

CompleteReadback(s, b, mapped) ==
  IF s \in inFlight /\ readbacks[s][b] = "Pending"
  THEN /\ readbacks' = [readbacks EXCEPT ![s][b] =
            IF mapped THEN "Ready" ELSE "Failed"]
       /\ readbackBytes' = Minus(readbackBytes, ReadbackSize[b])
       /\ pendingReadbacks' = Minus(pendingReadbacks, 1)
       /\ UNCHANGED <<retainedVars, seeds, held, uploadBytes, content>>
       /\ Cleanup(s)
  ELSE UNCHANGED <<retainedVars, recordVars, content, lifecycle>>

(* Faults: readbacks that are ready fail too; readbacks are left to their     *)
(* callbacks.                                                                 *)
FailSubmissionWithReady(s) ==
  /\ IF status[s] = "Accepted"
     THEN R!Fail(s) /\ ReleaseUpload(s)
     ELSE UNCHANGED <<retainedVars, uploadBytes, held, seeds>>
  /\ readbacks' = [readbacks EXCEPT ![s] =
       [b \in ReadbackId |-> IF @[b] = "None" THEN "None" ELSE "Failed"]]
  /\ readbackBytes' = Minus(readbackBytes, Bytes(Outstanding(s)))
  /\ pendingReadbacks' = Minus(pendingReadbacks, Cardinality(Outstanding(s)))
  /\ Cleanup(s)
FailSubmissionOnly(s) ==
  /\ IF status[s] = "Accepted"
     THEN R!Fail(s) /\ ReleaseUpload(s)
     ELSE UNCHANGED <<retainedVars, uploadBytes, held, seeds>>
  /\ UNCHANGED <<readbacks, readbackBytes, pendingReadbacks>>
  /\ Cleanup(s)

FailSubmission(s) ==
  /\ IF status[s] = "Accepted"
     THEN R!Fail(s) /\ ReleaseUpload(s)
     ELSE UNCHANGED <<retainedVars, uploadBytes, held, seeds>>
  /\ readbacks' = [readbacks EXCEPT ![s] =
       [b \in ReadbackId |-> IF @[b] = "Pending" THEN "Failed" ELSE @[b]]]
  /\ readbackBytes' = Minus(readbackBytes, Bytes(Outstanding(s)))
  /\ pendingReadbacks' = Minus(pendingReadbacks, Cardinality(Outstanding(s)))
  /\ Cleanup(s)

-----------------------------------------------------------------------------
(* Preparation *)

Init ==
  /\ R!Init
  /\ lifecycle = "Running"
  /\ slot = [t \in TicketId |-> "absent"]
  /\ nextPrepared = 1
  /\ nextSubmission = 1
  /\ order = "free"
  /\ caller = [c \in Client |-> Idle]
  /\ polling = "idle"
  /\ inFlight = {}
  /\ seeds = [s \in SubmissionId |-> {}]
  /\ held = [s \in SubmissionId |-> 0]
  /\ readbacks = [s \in SubmissionId |-> [b \in ReadbackId |-> "None"]]
  /\ uploadBytes = 0 /\ readbackBytes = 0 /\ pendingReadbacks = 0
  /\ callbacks = {}
  /\ events = <<>>
  /\ fault = FALSE
  /\ content = [r \in Seeded |-> "Unmaterialized"]
  /\ filled = {}
  /\ lastWriter = [r \in Resource |-> 0]
  /\ queueTail = 0

PrepareGraph(c, w, known) ==
  /\ R!PrepareGraph(c, w, known)
  /\ UNCHANGED <<lifecycle, ticketVars, nextSubmission, order, caller, polling,
                 recordVars, queueVars, events, fault, content>>

DropGraph(c) ==
  /\ At(c, "idle")
  /\ R!DropGraph(c)
  /\ UNCHANGED <<lifecycle, ticketVars, nextSubmission, order, caller, polling,
                 recordVars, queueVars, events, fault, content>>

(* prepare_submission up to reserve_prepared *)
ReservePrepared(c) ==
  /\ generation # 0
  /\ At(c, "idle")
  /\ graph[c] # NoGraph
  /\ ~fault
  /\ lifecycle = "Running"
  /\ Cardinality({t \in TicketId : slot[t] # "absent"}) < MaxPrepared
  /\ nextPrepared # 0
  /\ nextPrepared' = Successor(nextPrepared, MaxTicket)
  /\ slot' = [slot EXCEPT ![nextPrepared] = "reserved"]
  /\ caller' = [caller EXCEPT ![c] =
       [Idle EXCEPT !.pc = "reserved", !.ticket = nextPrepared,
                    !.generation = generation]]
  /\ UNCHANGED <<retainedVars, lifecycle, nextSubmission, order, polling,
                 recordVars, queueVars, events, fault, content>>

(* validate_plan_policy and commit_prepared *)
CommitPrepared(c) ==
  /\ At(c, "reserved")
  /\ graph[c].work.upload <= MaxUpload
  /\ Bytes(PlanReadbacks(graph[c].work)) <= MaxReadback
  /\ Cardinality(PlanReadbacks(graph[c].work)) <= MaxPendingReadbacks
  /\ lifecycle = "Running"
  /\ slot[caller[c].ticket] = "reserved"
  /\ slot' = [slot EXCEPT ![caller[c].ticket] = "ready"]
  /\ Goto(c, "prepared")
  /\ UNCHANGED <<retainedVars, lifecycle, nextPrepared, nextSubmission, order,
                 polling, recordVars, queueVars, events, fault, content>>

(* Planning failed, was refused or was cancelled: the reservation drops *)
AbandonPreparation(c) ==
  /\ At(c, "reserved")
  /\ slot' = [slot EXCEPT ![caller[c].ticket] = "absent"]
  /\ caller' = [caller EXCEPT ![c] = Idle]
  /\ UNCHANGED <<retainedVars, lifecycle, nextPrepared, nextSubmission, order,
                 polling, recordVars, queueVars, events, fault, content>>

(* Fault: a handle releases its number in whatever owner there is            *)
DropPreparedOfAnyOwner(c) ==
  /\ At(c, "prepared")
  /\ slot' = [slot EXCEPT ![caller[c].ticket] = "absent"]
  /\ caller' = [caller EXCEPT ![c] = Idle]
  /\ UNCHANGED <<retainedVars, lifecycle, nextPrepared, nextSubmission, order,
                 polling, recordVars, queueVars, events, fault, content>>

(* Drop of an armed GpuPreparedSubmission; one of an earlier owner is inert *)
DropPrepared(c) ==
  /\ At(c, "prepared")
  /\ slot' = IF caller[c].generation = generation
             THEN [slot EXCEPT ![caller[c].ticket] = "absent"] ELSE slot
  /\ caller' = [caller EXCEPT ![c] = Idle]
  /\ UNCHANGED <<retainedVars, lifecycle, nextPrepared, nextSubmission, order,
                 polling, recordVars, queueVars, events, fault, content>>

-----------------------------------------------------------------------------
(* submit_prepared, inside the submission_order interval.  A rejection before *)
(* the interval, or by its first checks, leaves everything as it was.         *)

BeginSubmit(c) ==
  /\ generation # 0
  /\ At(c, "prepared")
  /\ ~fault
  /\ lifecycle = "Running"
  /\ Ready(c)
  /\ Acquire(c)
  /\ Goto(c, "admitting")
  /\ UNCHANGED <<retainedVars, lifecycle, ticketVars, nextSubmission, polling,
                 recordVars, queueVars, events, fault, content>>

(* accept_prepared up to the allocation of the identity *)
Admitted(c) ==
  /\ lifecycle = "Running"
  /\ Ready(c)
  /\ Cardinality({s \in inFlight : status[s] = "Accepted"}) < MaxInFlight
  /\ uploadBytes + EffectiveUpload(graph[c]) <= MaxUpload
  /\ readbackBytes + Bytes(PlanReadbacks(graph[c].work)) <= MaxReadback
  /\ pendingReadbacks + Cardinality(PlanReadbacks(graph[c].work))
       <= MaxPendingReadbacks
  /\ nextSubmission # 0

(* Irreversible acceptance: the ticket is consumed, the budgets are charged,  *)
(* the participants reserved and the record inserted in one critical section. *)
Accept(c) ==
  LET s == nextSubmission
      g == graph[c]
  IN /\ At(c, "admitting")
     /\ Admitted(c)
     /\ R!Admissible(g)
     /\ R!Reserve(s, g)
     /\ slot' = [slot EXCEPT ![caller[c].ticket] = "absent"]
     /\ nextSubmission' = Successor(s, MaxSubmission)
     /\ inFlight' = inFlight \cup {s}
     /\ seeds' = [seeds EXCEPT ![s] = EffectiveSeeds(g)]
     /\ held' = [held EXCEPT ![s] = EffectiveUpload(g)]
     /\ uploadBytes' = uploadBytes + EffectiveUpload(g)
     /\ readbacks' = [readbacks EXCEPT ![s] = [b \in ReadbackId |->
          IF b \in PlanReadbacks(g.work) THEN "Pending" ELSE "None"]]
     /\ readbackBytes' = readbackBytes + Bytes(PlanReadbacks(g.work))
     /\ pendingReadbacks' =
          pendingReadbacks + Cardinality(PlanReadbacks(g.work))
     /\ caller' = [caller EXCEPT ![c] =
          [Idle EXCEPT !.pc = "encoding", !.submission = s]]
     /\ UNCHANGED <<lifecycle, nextPrepared, order, polling, queueVars, events,
                    fault, content>>

(* Every refusal reinserts the plan; one by the retained state burns the      *)
(* identity.  A fault or a surface lease refuses before any of this.          *)
RejectAcceptance(c) ==
  /\ At(c, "admitting")
  /\ \/ /\ ~Admitted(c) \/ fault \/ Presents(graph[c].work)
        /\ UNCHANGED nextSubmission
     \/ /\ Admitted(c)
        /\ ~R!Admissible(graph[c])
        /\ nextSubmission' = Successor(nextSubmission, MaxSubmission)
  /\ order' = "free"
  /\ Goto(c, "prepared")
  /\ UNCHANGED <<retainedVars, lifecycle, ticketVars, polling, recordVars,
                 queueVars, events, fault, content>>

(* encode_submit_and_register up to the first queue.submit *)
Encode(c) ==
  /\ At(c, "encoding")
  /\ ~fault
  /\ caller' = [caller EXCEPT ![c].pc = "queueing", ![c].segment = 1]
  /\ UNCHANGED <<retainedVars, lifecycle, ticketVars, nextSubmission, order,
                 polling, recordVars, queueVars, events, fault, content>>

(* Fault: the error is returned and the submission forgotten *)
FailOwnSilently(c) ==
  /\ order' = "free"
  /\ caller' = [caller EXCEPT ![c] = Idle]
  /\ UNCHANGED <<retainedVars, lifecycle, ticketVars, nextSubmission, polling,
                 recordVars, queueVars, events, fault, content>>

(* submit_prepared fails the accepted submission itself *)
FailOwn(c) ==
  /\ FailSubmission(caller[c].submission)
  /\ order' = "free"
  /\ caller' = [caller EXCEPT ![c] = Idle]
  /\ UNCHANGED <<ticketVars, nextSubmission, polling, queueVars, events, fault,
                 content>>

EncodeFails(c) == At(c, "encoding") /\ FailOwn(c)

(* Callbacks are registered on the command buffer, which is then submitted *)
QueueSegment(c) ==
  LET s == caller[c].submission
      i == caller[c].segment
  IN /\ At(c, "queueing")
     /\ callbacks' = callbacks
          \cup {<<s, b>> : b \in transition[s].work.segments[i].readbacks}
          \cup (IF LastSegment(c) THEN {<<s, "done">>} ELSE {})
     /\ lastWriter' = [r \in Resource |->
          IF r \in SegmentWrites(s, i) THEN s ELSE lastWriter[r]]
     /\ filled' = filled \cup IF i = 1 THEN seeds[s] ELSE {}
     /\ queueTail' = s
     /\ Goto(c, "queued")
     /\ UNCHANGED <<retainedVars, lifecycle, ticketVars, nextSubmission, order,
                    polling, recordVars, events, fault, content>>

(* mark_segment_may_execute, then mark_initial_content_queued after the first *)
(* segment.  A content found already queued is an internal device fault.      *)
MarkSegment(c) ==
  LET s == caller[c].submission
      i == caller[c].segment
      written == ReportedWrites(s, i)
      first == IF i = 1 THEN seeds[s] ELSE {}
  IN /\ At(c, "queued")
     /\ IF written # {} /\ s \in inFlight /\ status[s] = "Accepted"
        THEN R!Mark(s, written) ELSE UNCHANGED retainedVars
     /\ content' = [r \in Seeded |->
          IF r \in first /\ content[r] = "Unmaterialized"
          THEN "Queued" ELSE content[r]]
     /\ fault' = (fault \/ \E r \in first : content[r] = "Queued")
     /\ Goto(c, "marked")
     /\ UNCHANGED <<lifecycle, ticketVars, nextSubmission, order, polling,
                    recordVars, queueVars, events>>

(* Present may fail, and a fault ends the sequence, with segments queued *)
SegmentFails(c) ==
  LET s == caller[c].submission
  IN /\ At(c, "marked")
     /\ fault \/ transition[s].work.segments[caller[c].segment].present
     /\ FailOwn(c)

NextSegment(c) ==
  /\ At(c, "marked")
  /\ ~fault
  /\ ~LastSegment(c)
  /\ caller' = [caller EXCEPT ![c].pc = "queueing", ![c].segment = @ + 1]
  /\ UNCHANGED <<retainedVars, lifecycle, ticketVars, nextSubmission, order,
                 polling, recordVars, queueVars, events, fault, content>>

EndSubmit(c) ==
  /\ At(c, "marked")
  /\ ~fault
  /\ LastSegment(c)
  /\ order' = "free"
  /\ caller' = [caller EXCEPT ![c] = Idle]
  /\ UNCHANGED <<retainedVars, lifecycle, ticketVars, nextSubmission, polling,
                 recordVars, queueVars, events, fault, content>>

-----------------------------------------------------------------------------
(* progress, inside the submission_order interval                             *)

(* Fault: progress does not wait for a submission in the interval *)
BeginProgressUnserialized ==
  /\ generation # 0
  /\ polling = "idle"
  /\ polling' = "draining"
  /\ UNCHANGED <<retainedVars, lifecycle, ticketVars, nextSubmission, order,
                 caller, recordVars, queueVars, events, fault, content>>

BeginProgress ==
  /\ generation # 0
  /\ Acquire("progress")
  /\ polling' = "draining"
  /\ UNCHANGED <<retainedVars, lifecycle, ticketVars, nextSubmission, caller,
                 recordVars, queueVars, events, fault, content>>

(* drain_events takes one event at a time.  complete_readback_mapping reads   *)
(* the record and writes it back in two critical sections; whatever changes a *)
(* record in flight holds submission_order, so they are one step.             *)
DrainEvent ==
  /\ polling \in {"draining", "redraining"}
  /\ events # <<>>
  /\ LET e == Head(events)
     IN IF e.of = "done" THEN CompleteSubmission(e.submission)
        ELSE CompleteReadback(e.submission, e.of, e.mapped)
  /\ events' = Tail(events)
  /\ UNCHANGED <<ticketVars, nextSubmission, order, caller, polling, queueVars,
                 fault>>

(* A failing poll is itself recorded as a device fault *)
Poll ==
  /\ polling = "draining"
  /\ events = <<>>
  /\ fault' \in {fault, TRUE}
  /\ polling' = "redraining"
  /\ UNCHANGED <<retainedVars, lifecycle, ticketVars, nextSubmission, order,
                 caller, recordVars, queueVars, events, content>>

(* fail_active_for_fault, one submission at a time in identity order *)
BeginSweep ==
  /\ polling = "redraining"
  /\ events = <<>>
  /\ fault
  /\ polling' = "sweeping"
  /\ UNCHANGED <<retainedVars, lifecycle, ticketVars, nextSubmission, order,
                 caller, recordVars, queueVars, events, fault, content>>

Sweep ==
  /\ polling = "sweeping"
  /\ inFlight # {}
  /\ FailSubmission(Min(inFlight))
  /\ UNCHANGED <<ticketVars, nextSubmission, order, caller, polling, queueVars,
                 events, fault, content>>

EndProgress ==
  /\ \/ polling = "redraining" /\ events = <<>> /\ ~fault
     \/ polling = "sweeping" /\ inFlight = {}
  /\ order' = "free"
  /\ polling' = "idle"
  /\ UNCHANGED <<retainedVars, lifecycle, ticketVars, nextSubmission, caller,
                 recordVars, queueVars, events, fault, content>>

-----------------------------------------------------------------------------
(* The device and the realization cache *)

FireCallback(cb, mapped) ==
  /\ cb \in callbacks
  /\ cb[2] = "done" => mapped       \* only a mapping can report an error
  /\ callbacks' = callbacks \ {cb}
  /\ events' = Append(events,
       [submission |-> cb[1], of |-> cb[2], mapped |-> mapped])
  /\ UNCHANGED <<retainedVars, lifecycle, ticketVars, nextSubmission, order,
                 caller, polling, recordVars, filled, lastWriter, queueTail,
                 fault, content>>

DeviceFault ==
  /\ generation # 0
  /\ ~fault
  /\ fault' = TRUE
  /\ UNCHANGED <<retainedVars, lifecycle, ticketVars, nextSubmission, order,
                 caller, polling, recordVars, queueVars, events, content>>

(* Published plans and records in flight keep their realizations alive *)
Pinned ==
  (UNION {graph[c].work.uses : c \in {d \in Client : Ready(d)}})
    \cup (UNION {transition[s].work.uses :
                  s \in {t \in inFlight : status[t] = "Accepted"}})

(* Fault: prepared content is remembered per descriptor, not per realization  *)
EvictKeepingContent(r) ==
  /\ r \in Evictable \ Pinned
  /\ lastWriter[r] # 0
  /\ filled' = filled \ {r}
  /\ lastWriter' = [lastWriter EXCEPT ![r] = 0]
  /\ UNCHANGED <<retainedVars, lifecycle, ticketVars, nextSubmission, order,
                 caller, polling, recordVars, callbacks, queueTail, events,
                 fault, content>>

(* Collecting an unpinned realization under record pressure; the next use     *)
(* realizes fresh storage.                                                    *)
Evict(r) ==
  /\ r \in Evictable \ Pinned
  /\ lastWriter[r] # 0
  /\ content' = [q \in Seeded |-> IF q = r THEN "Unmaterialized" ELSE content[q]]
  /\ filled' = filled \ {r}
  /\ lastWriter' = [lastWriter EXCEPT ![r] = 0]
  /\ UNCHANGED <<retainedVars, lifecycle, ticketVars, nextSubmission, order,
                 caller, polling, recordVars, callbacks, queueTail, events,
                 fault>>

-----------------------------------------------------------------------------
(* The owner's own life *)

(* begin_shutdown; a repeated call only re-examines whether all is drained *)
BeginShutdown ==
  LET phase == IF lifecycle = "Running" THEN "ShuttingDown" ELSE lifecycle
  IN /\ generation # 0
     /\ slot' = IF lifecycle = "Running"
                THEN [t \in TicketId |-> "absent"] ELSE slot
     /\ lifecycle' = Advance(phase, slot', inFlight)
     /\ UNCHANGED <<retainedVars, nextPrepared, nextSubmission, order, caller,
                    polling, recordVars, queueVars, events, fault, content>>

(* No thread is inside a method of the context *)
Unborrowed ==
  /\ \A c \in Client : caller[c].pc \in {"idle", "prepared"}
  /\ polling = "idle"

(* A fresh WgpuExecutionState over fresh physical storage *)
FreshOwner ==
  /\ lifecycle' = "Running"
  /\ slot' = [t \in TicketId |-> "absent"]
  /\ nextPrepared' = 1
  /\ nextSubmission' = 1
  /\ inFlight' = {}
  /\ seeds' = [s \in SubmissionId |-> {}]
  /\ held' = [s \in SubmissionId |-> 0]
  /\ uploadBytes' = 0 /\ readbackBytes' = 0 /\ pendingReadbacks' = 0
  /\ callbacks' = {}
  /\ events' = <<>>
  /\ fault' = FALSE
  /\ content' = [r \in Seeded |-> "Unmaterialized"]
  /\ filled' = {}
  /\ lastWriter' = [r \in Resource |-> 0]
  /\ queueTail' = 0
  /\ UNCHANGED <<order, caller, polling>>

(* Fault: only readback observation is waited for *)
QuiescentReadbacks == pendingReadbacks = 0

(* generation_replacement_is_quiescent *)
Quiescent ==
  /\ \A s \in inFlight : status[s] # "Accepted"
  /\ pendingReadbacks = 0

(* replace_device_generation, once progress reports the owner quiescent *)
ReplaceGeneration ==
  /\ generation \in 1 .. MaxGeneration - 1
  /\ Unborrowed
  /\ Quiescent
  /\ R!InstallGeneration
  /\ readbacks' = [s \in SubmissionId |-> [b \in ReadbackId |-> "None"]]
  /\ FreshOwner

(* Drop of WgpuExecutionState terminates what callers still hold *)
DropContext ==
  /\ Unborrowed
  /\ R!DropOwner
  /\ readbacks' = [s \in SubmissionId |-> [b \in ReadbackId |->
       IF s \in inFlight /\ readbacks[s][b] = "Pending" THEN "Failed"
       ELSE readbacks[s][b]]]
  /\ FreshOwner

-----------------------------------------------------------------------------
SubmitStep(c) ==
  \/ Accept(c) \/ RejectAcceptance(c)
  \/ Encode(c) \/ EncodeFails(c)
  \/ QueueSegment(c) \/ MarkSegment(c)
  \/ SegmentFails(c) \/ NextSegment(c) \/ EndSubmit(c)

CallerStep(c) ==
  \/ \E w \in Work, known \in SUBSET Retained : PrepareGraph(c, w, known)
  \/ DropGraph(c)
  \/ ReservePrepared(c) \/ CommitPrepared(c) \/ AbandonPreparation(c)
  \/ DropPrepared(c)
  \/ BeginSubmit(c) \/ SubmitStep(c)

ProgressStep == DrainEvent \/ Poll \/ BeginSweep \/ Sweep \/ EndProgress

DeviceCalls == \E cb \in callbacks, mapped \in BOOLEAN : FireCallback(cb, mapped)

Next ==
  \/ \E c \in Client : CallerStep(c)
  \/ BeginProgress \/ ProgressStep
  \/ DeviceCalls \/ DeviceFault
  \/ \E r \in Evictable : Evict(r)
  \/ BeginShutdown \/ ReplaceGeneration \/ DropContext

Spec == Init /\ [][Next]_vars

(* A thread inside submit_prepared or progress runs on; progress is called    *)
(* again and again and its wait for the mutex ends; a healthy device answers  *)
(* what was queued.  Nothing obliges callers to prepare, submit or shut down. *)
Fairness ==
  /\ \A c \in Client : WF_vars(SubmitStep(c))
  /\ SF_vars(BeginProgress)
  /\ WF_vars(ProgressStep)
  /\ WF_vars(~fault /\ DeviceCalls)

FairSpec == Spec /\ Fairness

-----------------------------------------------------------------------------
(* Properties *)

CallerState ==
  [pc : {"idle", "reserved", "prepared", "admitting", "encoding", "queueing",
         "queued", "marked"},
   ticket : 0 .. MaxTicket, generation : 0 .. MaxGeneration,
   submission : 0 .. MaxSubmission, segment : Nat]

(* Type invariant.                                                            *)
TypeOK ==
  /\ R!TypeOK
  /\ lifecycle \in {"Running", "ShuttingDown", "Closed"}
  /\ slot \in [TicketId -> {"absent", "reserved", "ready"}]
  /\ nextPrepared \in 0 .. MaxTicket
  /\ nextSubmission \in 0 .. MaxSubmission
  /\ order \in {"free", "progress"} \cup Client
  /\ caller \in [Client -> CallerState]
  /\ polling \in {"idle", "draining", "redraining", "sweeping"}
  /\ inFlight \in SUBSET SubmissionId
  /\ seeds \in [SubmissionId -> SUBSET Seeded]
  /\ held \in [SubmissionId -> Nat]
  /\ readbacks \in
       [SubmissionId -> [ReadbackId -> {"None", "Pending", "Ready", "Failed"}]]
  /\ {uploadBytes, readbackBytes, pendingReadbacks} \subseteq Nat
  /\ callbacks \subseteq SubmissionId \X (ReadbackId \cup {"done"})
  /\ events \in Seq([submission : SubmissionId, of : ReadbackId \cup {"done"},
                     mapped : BOOLEAN])
  /\ fault \in BOOLEAN
  /\ content \in [Seeded -> {"Unmaterialized", "Queued", "Completed"}]
  /\ filled \in SUBSET Seeded
  /\ lastWriter \in [Resource -> 0 .. MaxSubmission]
  /\ queueTail \in 0 .. MaxSubmission

accepted == {s \in SubmissionId : status[s] = "Accepted"}
OutstandingBytes == [s \in SubmissionId |-> Bytes(Outstanding(s))]
OutstandingCount == [s \in SubmissionId |-> Cardinality(Outstanding(s))]

(* Nothing charged at acceptance is lost or returned twice, whichever of      *)
(* completion, mapping, failure and device fault terminates which part first, *)
(* and the sums never exceed the policy although the seed demand of a plan is *)
(* only known at acceptance.                                                  *)
BudgetsAreExact ==
  /\ uploadBytes = SumFunctionOnSet(held, inFlight)
  /\ readbackBytes = SumFunctionOnSet(OutstandingBytes, inFlight)
  /\ pendingReadbacks = SumFunctionOnSet(OutstandingCount, inFlight)
  /\ uploadBytes <= MaxUpload
  /\ readbackBytes <= MaxReadback
  /\ pendingReadbacks <= MaxPendingReadbacks
  /\ Cardinality(accepted) <= MaxInFlight

(* A record lives exactly as long as some handle can still change: removed    *)
(* too early a readback would hang, never removed shutdown would.             *)
RecordsMatchHandles ==
  inFlight = accepted \cup {s \in SubmissionId : Outstanding(s) # {}}

(* A live slot belongs to one caller, and until shutdown nobody takes it from *)
(* a caller that has not submitted or given it up: not another caller, not a   *)
(* handle of an earlier generation whose ticket has the same number.           *)
TicketsAreExclusive ==
  /\ \A t \in TicketId :
       slot[t] # "absent" =>
         Cardinality({c \in Client : caller[c].ticket = t
                                    /\ caller[c].generation = generation}) = 1
  /\ lifecycle = "Running" =>
       \A c \in Client :
         /\ caller[c].generation = generation
         /\ caller[c].pc \in {"reserved", "prepared", "admitting"}
         => slot[caller[c].ticket] # "absent"

(* Once commands that rely on prepared content are queued, the content was    *)
(* queued before them or with them, into the storage that exists now.         *)
SeededBeforeUse ==
  \A s \in accepted :
    \/ R!Materialized(transition[s]) \subseteq filled
    \/ \E c \in Client : /\ caller[c].submission = s
                         /\ \/ caller[c].pc = "encoding"
                            \/ caller[c].pc = "queueing" /\ caller[c].segment = 1

(* A write of r is on the queue and its mark is still to come                 *)
Unmarked(r) ==
  \E c \in Client : /\ At(c, "queued")
                    /\ r \in SegmentWrites(caller[c].submission,
                                          caller[c].segment)

(* What a caller is told of retained content is what the storage holds: the   *)
(* submission it names is the last one queued to write it.  Except between    *)
(* queue.submit and the mark.                                                 *)
EstablishedByLastWriter ==
  \A r \in Retained, s \in SubmissionId :
    R!Snapshot(r) = R!Established(s) => lastWriter[r] = s \/ Unmarked(r)

(* The same without the exception, as api/execution.rs:153 puts it.           *)
SnapshotAdmitsQueuedWrites ==
  \A r \in Retained, s \in SubmissionId :
    R!Snapshot(r) = R!Established(s) => lastWriter[r] = s

(* The submission whose commands some caller is queueing                      *)
Queueing ==
  {caller[c].submission : c \in {d \in Client :
     caller[d].pc \in {"encoding", "queueing", "queued", "marked"}}}

Contract == INSTANCE SubmissionContract WITH
  phase <- IF generation = 0 THEN "Gone" ELSE lifecycle,
  queueing <- Queueing,
  tail <- queueTail

(* Every step of the execution owner is one its handles were promised, or      *)
(* does not show: terminal statuses are final and come with nothing still      *)
(* being queued, physical order is identity order, shutdown closes exactly     *)
(* when the last handle is terminal.                                           *)
HonoursContract == Contract!Spec

(* The execution owner drives the retained-state authority by its rules.      *)
RetainedAuthority == R!Spec

(* An accepted submission reaches a terminal status.                          *)
AcceptedTerminates ==
  \A s \in SubmissionId : status[s] = "Accepted" ~> status[s] # "Accepted"

(* So does each of its readbacks, also when their submission failed.          *)
ReadbacksTerminate ==
  \A s \in SubmissionId, b \in ReadbackId :
    readbacks[s][b] = "Pending" ~> readbacks[s][b] # "Pending"
=============================================================================
