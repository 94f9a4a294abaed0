------------------------- MODULE RetainedContinuity -------------------------
(***************************************************************************)
(* The retained-state authority of one GPU context owner                    *)
(* (backend/wgpu/execution/retained_continuity.rs).                         *)
(*                                                                          *)
(* For every retained logical resource it remembers which regions hold      *)
(* initialized data, which submission established the current content, and  *)
(* whether that content has to be reconstructed before ordinary use.        *)
(* Accepted submissions own their participants exclusively until they       *)
(* terminate.  Work graphs are prepared long before they are accepted,      *)
(* against the continuity of that earlier moment.                           *)
(*                                                                          *)
(* Coverage is a set of regions.  A logical identity keeps one descriptor.  *)
(***************************************************************************)
EXTENDS Naturals

CONSTANTS
  Client,          \* caller threads, each preparing at most one graph at a time
  Resource,        \* logical storage identities
  Region,          \* the parts of a resource coverage tells apart
  Retained,        \* the resources whose lifetime is Retained
  Initialization,  \* resource -> "Uninitialized" | "Zeroed" | "Prepared"
  Reconstruction,  \* resource -> "SourceBacked" | "External" | "NonReconstructable"
  Work,            \* the authored work graphs callers may prepare
  NoGraph,         \* "no graph", unequal to every graph
  MaxSubmission,   \* size of the submission identity space
  MaxGeneration    \* size of the device generation space

SubmissionId == 1 .. MaxSubmission
CoverageMap  == [Resource -> SUBSET Region]

ASSUME DescriptorAssumption ==
  /\ Retained \subseteq Resource
  /\ Initialization \in [Resource -> {"Uninitialized", "Zeroed", "Prepared"}]
  /\ Reconstruction \in
       [Resource -> {"SourceBacked", "External", "NonReconstructable"}]
  /\ MaxSubmission \in Nat
  /\ MaxGeneration \in Nat \ {0}

(* needs   : coverage its reads require at entry                            *)
(* gain    : coverage its operations guarantee when they complete           *)
(* discard : coverage a discarding attachment gives up                      *)
ASSUME WorkAssumption ==
  \A w \in Work :
    /\ w.uses \subseteq Resource        \* accessed by some operation
    /\ w.explicit \subseteq w.uses      \* accessed by a writing access
    /\ w.target \subseteq w.uses \cap Retained  \* designated for reconstruction
    /\ {w.needs, w.gain, w.discard} \subseteq CoverageMap

(***************************************************************************)
(* Prepared graphs.  "consumed" are the resources whose retained record was *)
(* given to graph preparation, "entry" the coverage it assumed at entry.    *)
(***************************************************************************)
Graph == [work : Work, consumed : SUBSET Resource, entry : CoverageMap]

ASSUME NoGraphAssumption == NoGraph \notin Graph

Unestablished  == [kind |-> "Unestablished", by |-> 0]
Unknown        == [kind |-> "Unknown", by |-> 0]
Established(s) == [kind |-> "Established", by |-> s]
Opaque == {Unestablished, Unknown} \cup {Established(s) : s \in SubmissionId}

Record == [present : BOOLEAN, coverage : SUBSET Region, opaque : Opaque,
           pending : BOOLEAN, matches : BOOLEAN]
NoRecord == [present |-> FALSE, coverage |-> {}, opaque |-> Unestablished,
             pending |-> FALSE, matches |-> FALSE]

(* "descriptor": the descriptor's initial state still equals the lost       *)
(* contents; "replay": only explicit work can bring them back.              *)
Obligation == {"none", "descriptor", "replay"}
Due(matches) == IF matches THEN "descriptor" ELSE "replay"

VARIABLES
  generation,   \* device generation of the owner, 0 once it is dropped
  graph,        \* client -> the graph it holds
  status,       \* submission -> "None" | "Accepted" | "Completed" | "Failed"
  transition,   \* submission -> its graph while it is not terminal
  submitted,    \* submission -> retained writes handed to the queue
  records,      \* resource -> RetainedContinuityRecord
  obligations,  \* resource -> reconstruction_required
  reserved      \* resources owned by a non-terminal accepted submission

vars == <<generation, graph, status, transition, submitted, records,
          obligations, reserved>>

open == {s \in SubmissionId : status[s] = "Accepted"}
known == {r \in Retained : records[r].present}

-----------------------------------------------------------------------------
(* What a graph says about one of its resources *)

Participants(g) == g.work.uses \cap Retained

DescriptorCoverage(r) == IF Initialization[r] = "Zeroed" THEN Region ELSE {}

Derive(w, seeds) ==
  [work |-> w,
   consumed |-> seeds \cap w.uses,
   entry |-> [r \in Resource |-> IF r \in seeds THEN records[r].coverage
                                 ELSE DescriptorCoverage(r)]]

(* Prepared bytes are a candidate transfer unless a retained seed stands in *)
Materialized(g) ==
  {r \in g.work.uses : Initialization[r] = "Prepared" /\ r \notin g.consumed}

ContentCoverage(g, r) ==
  g.entry[r] \cup IF r \in Materialized(g) THEN Region ELSE {}

Final(g, r) ==
  (ContentCoverage(g, r) \ g.work.discard[r]) \cup g.work.gain[r]

FailureSafe(g, r) == g.entry[r] \ g.work.discard[r]

ReadsInitialized(g) ==
  \A r \in g.work.uses : g.work.needs[r] \subseteq ContentCoverage(g, r)

(* fresh_descriptor_initial_state *)
Fresh(g) ==
  {r \in Participants(g) \ g.consumed :
     \/ Initialization[r] = "Zeroed" /\ r \notin g.work.target
     \/ Initialization[r] = "Prepared"}

-----------------------------------------------------------------------------
(* Acceptance: validate_and_reserve *)

CanReconstruct(g, r) ==
  /\ obligations[r] # "none"
  /\ \/ /\ Reconstruction[r] = "External"
        /\ r \in g.work.explicit
     \/ /\ Reconstruction[r] = "SourceBacked"
        /\ \/ r \in g.work.explicit
           \/ obligations[r] = "descriptor" /\ r \in Fresh(g)

ObligationMet(g, r) ==
  IF r \in g.work.target THEN CanReconstruct(g, r) ELSE obligations[r] = "none"

LifecycleCurrent(g, r) == records[r].present <=> r \in g.consumed

(* Fault: only the coverage the graph relied on is compared *)
CoverageSufficient(g, r) ==
  r \in g.consumed => g.entry[r] \subseteq records[r].coverage

CoverageCurrent(g, r) ==
  r \in g.consumed => /\ g.entry[r] \subseteq records[r].coverage
                      /\ records[r].coverage \subseteq g.entry[r]

Unreserved(g) == Participants(g) \cap reserved = {}

(* Fault: in-flight participation is not checked *)
AdmissibleUnderOwner(g) ==
  \A r \in Participants(g) :
    ObligationMet(g, r) /\ LifecycleCurrent(g, r) /\ CoverageCurrent(g, r)

Admissible(g) ==
  /\ Unreserved(g)
  /\ \A r \in Participants(g) :
       ObligationMet(g, r) /\ LifecycleCurrent(g, r) /\ CoverageCurrent(g, r)

(* The retained writes execution may report for a graph *)
QueuedWrites(g) == Participants(g) \cap (g.work.explicit \cup Materialized(g))

(* What the record already says, or what the descriptor alone promises *)
MatchesBefore(g, r) ==
  IF records[r].present THEN records[r].matches ELSE r \in Fresh(g)

-----------------------------------------------------------------------------
(* The record written at each point of an accepted submission's life *)

MarkedMatches(g, r) == r \notin g.work.explicit /\ MatchesBefore(g, r)

MarkedRecord(g, r) ==
  [present  |-> TRUE,
   coverage |-> FailureSafe(g, r),
   opaque   |-> records[r].opaque,
   pending  |-> TRUE,
   matches  |-> MarkedMatches(g, r)]

CompletedOpaque(s, g, r) ==
  IF r \in g.work.target \/ (r \in submitted[s] /\ records[r].opaque # Unknown)
  THEN Established(s) ELSE records[r].opaque

CompletedMatches(g, r) ==
  /\ r \notin g.work.explicit
  /\ IF r \in g.work.target
     THEN obligations[r] = "descriptor" /\ r \in Fresh(g)
     ELSE MatchesBefore(g, r)

CompletedRecord(s, g, r) ==
  [present  |-> TRUE,
   coverage |-> Final(g, r),
   opaque   |-> CompletedOpaque(s, g, r),
   pending  |-> FALSE,
   matches  |-> CompletedMatches(g, r)]

FailedMatches(g, r) == r \in g.work.target /\ obligations[r] = "descriptor"

(* Faults: the pending mark survives the failure; the final coverage, not the *)
(* failure-safe one, is kept.                                                 *)
FailedRecordPending(g, r) ==
  [MarkedRecord(g, r) EXCEPT !.opaque = Unknown]
FailedRecordFinal(g, r) ==
  [MarkedRecord(g, r) EXCEPT !.opaque = Unknown, !.pending = FALSE,
                             !.coverage = Final(g, r)]

FailedRecord(g, r) ==
  [present  |-> TRUE,
   coverage |-> FailureSafe(g, r),
   opaque   |-> Unknown,
   pending  |-> FALSE,
   matches  |-> FailedMatches(g, r)]

(* Faults: only a failed reconstruction is owed again; one that failed before *)
(* it wrote is discharged.                                                    *)
FailedObligationOfTarget(s, r) ==
  IF r \in submitted[s] \cap transition[s].work.target
  THEN Due(FailedMatches(transition[s], r)) ELSE obligations[r]

FailedObligationDischarged(s, r) ==
  IF r \in submitted[s] THEN Due(FailedMatches(transition[s], r))
  ELSE IF r \in transition[s].work.target THEN "none" ELSE obligations[r]

(* A failure owes the reconstruction of every content it may have written *)
FailedObligation(s, r) ==
  IF r \in submitted[s] THEN Due(FailedMatches(transition[s], r))
  ELSE obligations[r]

(* Fault: the contents of current records are not handed on *)
InheritedObligations == obligations

(* install_reconstruction_obligations of reconstruction_seed *)
Inherited ==
  [r \in Retained |->
     IF obligations[r] = "none" /\ records[r].present
     THEN Due(records[r].matches) ELSE obligations[r]]

(* Faults: only written participants are released; the submitted writes are *)
(* left behind.                                                             *)
ReleaseWritten(s) ==
  /\ reserved' = reserved \ submitted[s]
  /\ transition' = [transition EXCEPT ![s] = NoGraph]
  /\ submitted' = [submitted EXCEPT ![s] = {}]
ReleaseKeepingWrites(s) ==
  /\ reserved' = reserved \ Participants(transition[s])
  /\ transition' = [transition EXCEPT ![s] = NoGraph]
  /\ UNCHANGED submitted

(* release: the terminal submission gives up its participants *)
Release(s) ==
  /\ reserved' = reserved \ Participants(transition[s])
  /\ transition' = [transition EXCEPT ![s] = NoGraph]
  /\ submitted' = [submitted EXCEPT ![s] = {}]

-----------------------------------------------------------------------------
(* Actions *)

Init ==
  /\ generation = 1
  /\ graph = [c \in Client |-> NoGraph]
  /\ status = [s \in SubmissionId |-> "None"]
  /\ transition = [s \in SubmissionId |-> NoGraph]
  /\ submitted = [s \in SubmissionId |-> {}]
  /\ records = [r \in Retained |-> NoRecord]
  /\ obligations = [r \in Retained |-> "none"]
  /\ reserved = {}

(* prepare_work_graph seeds the graph with every current record, the        *)
(* context-free GpuPreparedWorkGraph::prepare with none; reconstruction     *)
(* targets exist only on the first path.                                    *)
PrepareGraph(c, w, seeds) ==
  /\ generation # 0
  /\ graph[c] = NoGraph
  /\ seeds = known \/ (seeds = {} /\ w.target = {})
  /\ ReadsInitialized(Derive(w, seeds))
  /\ graph' = [graph EXCEPT ![c] = Derive(w, seeds)]
  /\ UNCHANGED <<generation, status, transition, submitted, records,
                 obligations, reserved>>

DropGraph(c) ==
  /\ graph[c] # NoGraph
  /\ graph' = [graph EXCEPT ![c] = NoGraph]
  /\ UNCHANGED <<generation, status, transition, submitted, records,
                 obligations, reserved>>

(* validate_and_reserve inside accept_prepared.  A graph is Clone: the      *)
(* caller may submit it again.                                              *)
Reserve(s, g) ==
  /\ status' = [status EXCEPT ![s] = "Accepted"]
  /\ transition' = [transition EXCEPT ![s] = g]
  /\ reserved' = reserved \cup Participants(g)
  /\ UNCHANGED <<generation, graph, submitted, records, obligations>>

Accept(s, c) ==
  /\ generation # 0
  /\ graph[c] # NoGraph
  /\ \A t \in SubmissionId : status[t] # "None" => t < s
  /\ Admissible(graph[c])
  /\ Reserve(s, graph[c])

(* mark_may_execute: these retained writes are on the queue *)
Mark(s, written) ==
  /\ submitted' = [submitted EXCEPT ![s] = @ \cup written]
  /\ records' = [r \in Retained |->
       IF r \in written THEN MarkedRecord(transition[s], r) ELSE records[r]]
  /\ UNCHANGED <<generation, graph, status, transition, obligations, reserved>>

MarkMayExecute(s, written) ==
  /\ status[s] = "Accepted"
  /\ written # {}
  /\ written \subseteq QueuedWrites(transition[s])
  /\ Mark(s, written)

Settle(s) ==
  /\ status' = [status EXCEPT ![s] = "Completed"]
  /\ records' = [r \in Retained |->
       IF r \in Participants(transition[s])
       THEN CompletedRecord(s, transition[s], r) ELSE records[r]]
  /\ obligations' = [r \in Retained |->
       IF r \in transition[s].work.target THEN "none" ELSE obligations[r]]
  /\ Release(s)
  /\ UNCHANGED <<generation, graph>>

Complete(s) == status[s] = "Accepted" /\ Settle(s)

Fail(s) ==
  /\ status' = [status EXCEPT ![s] = "Failed"]
  /\ records' = [r \in Retained |->
       IF r \in submitted[s] THEN FailedRecord(transition[s], r)
       ELSE records[r]]
  /\ obligations' = [r \in Retained |-> FailedObligation(s, r)]
  /\ Release(s)
  /\ UNCHANGED <<generation, graph>>

FailAfterAcceptance(s) == status[s] = "Accepted" /\ Fail(s)

(* Fault: the retained records follow into the next generation *)
InstallKeepingRecords ==
  /\ generation' = generation + 1
  /\ status' = [s \in SubmissionId |-> "None"]
  /\ obligations' = Inherited
  /\ UNCHANGED <<graph, transition, submitted, records, reserved>>

InstallGeneration ==
  /\ generation' = generation + 1
  /\ status' = [s \in SubmissionId |-> "None"]
  /\ records' = [r \in Retained |-> NoRecord]
  /\ obligations' = Inherited
  /\ UNCHANGED <<graph, transition, submitted, reserved>>

(* replace_device_generation installs a new owner, with its own submission  *)
(* identities, once the old one is quiescent.  Work graphs name no          *)
(* generation and survive.                                                  *)
ReplaceGeneration ==
  /\ generation \in 1 .. MaxGeneration - 1
  /\ open = {}
  /\ InstallGeneration

(* Drop of the owner fails what is still accepted; its state goes with it *)
DropOwner ==
  /\ generation # 0
  /\ generation' = 0
  /\ status' = [s \in SubmissionId |->
       IF status[s] = "Accepted" THEN "Failed" ELSE status[s]]
  /\ transition' = [s \in SubmissionId |-> NoGraph]
  /\ submitted' = [s \in SubmissionId |-> {}]
  /\ records' = [r \in Retained |-> NoRecord]
  /\ obligations' = [r \in Retained |-> "none"]
  /\ reserved' = {}
  /\ UNCHANGED graph

Next ==
  \/ \E c \in Client, w \in Work, seeds \in SUBSET Retained :
       PrepareGraph(c, w, seeds)
  \/ \E c \in Client : DropGraph(c)
  \/ \E s \in SubmissionId, c \in Client : Accept(s, c)
  \/ \E s \in SubmissionId, written \in SUBSET Retained :
       MarkMayExecute(s, written)
  \/ \E s \in SubmissionId : Complete(s)
  \/ \E s \in SubmissionId : FailAfterAcceptance(s)
  \/ ReplaceGeneration
  \/ DropOwner

Spec == Init /\ [][Next]_vars

(* retained_resource_continuity, what a caller is told *)
Snapshot(r) == IF records[r].pending THEN Unknown ELSE records[r].opaque

-----------------------------------------------------------------------------
(* Properties *)

(* Type invariant; a submission carries a transition while it is accepted.  *)
TypeOK ==
  /\ generation \in 0 .. MaxGeneration
  /\ graph \in [Client -> Graph \cup {NoGraph}]
  /\ status \in [SubmissionId -> {"None", "Accepted", "Completed", "Failed"}]
  /\ transition \in [SubmissionId -> Graph \cup {NoGraph}]
  /\ submitted \in [SubmissionId -> SUBSET Retained]
  /\ records \in [Retained -> Record]
  /\ obligations \in [Retained -> Obligation]
  /\ reserved \in SUBSET Retained
  /\ \A s \in SubmissionId : transition[s] = NoGraph <=> s \notin open
  /\ \A s \in SubmissionId : s \notin open => submitted[s] = {}
  /\ generation = 0 => open = {}

(* Transition authority is exclusive and neither leaks nor is released      *)
(* early: what is reserved is exactly what the accepted submissions use,    *)
(* and no two of them share a resource, whichever of them ends first.       *)
ExclusiveAuthority ==
  /\ reserved = UNION {Participants(transition[s]) : s \in open}
  /\ \A s, t \in open :
       s # t => Participants(transition[s]) \cap Participants(transition[t]) = {}

(* A record admits that a write may be executing exactly while an accepted  *)
(* submission has queued a write of that resource.                          *)
PendingWhileQueued ==
  \A r \in Retained :
    records[r].pending <=> \E s \in open : r \in submitted[s]

(* Indeterminate content is never usable as ordinary input: a reconstruction*)
(* obligation stands beside every Unknown record.                           *)
UnknownNeedsReconstruction ==
  \A r \in Retained : records[r].opaque = Unknown => obligations[r] # "none"

(* No accepted submission runs over contents that were lost before it or    *)
(* lost while it was in flight, except the one that reconstructs them.      *)
AcceptedWorkMeetsObligations ==
  \A s \in open : \A r \in Participants(transition[s]) :
    r \in transition[s].work.target <=> obligations[r] # "none"

(* Graphs are derived from a snapshot that may be arbitrarily old.  Until   *)
(* an accepted submission queues its own write of a resource, the lifecycle *)
(* and coverage its graph was checked against are the current ones.         *)
EntryStateStillCurrent ==
  \A s \in open : \A r \in Participants(transition[s]) \ submitted[s] :
    IF r \in transition[s].consumed
    THEN records[r].present /\ records[r].coverage = transition[s].entry[r]
    ELSE ~records[r].present

(* Content is only ever attributed to a submission that completed, in the   *)
(* present device generation.                                               *)
EstablishedByCompleted ==
  \A r \in Retained, s \in SubmissionId :
    records[r].opaque = Established(s) => status[s] = "Completed"

DischargesOnlyTargets ==
  \A r \in Retained :
    obligations[r] # "none" /\ obligations'[r] = "none" =>
      \/ generation' = 0
      \/ \E s \in open : /\ status'[s] = "Completed"
                         /\ r \in transition[s].work.target

(* A reconstruction obligation ends only when a submission that designated  *)
(* the resource as its target completes (or with the owner).                *)
ObligationsEndByReconstruction == [][DischargesOnlyTargets]_vars

(* Contents once accounted for stay accounted for, as a record or as an     *)
(* obligation, through failures and device generations.                     *)
ContentsNeverForgotten ==
  [][\A r \in Retained :
       records[r].present \/ obligations[r] # "none" =>
         \/ generation' = 0
         \/ records'[r].present
         \/ obligations'[r] # "none"]_vars

KnownCoverage(r) ==
  IF records[r].present THEN records[r].coverage ELSE DescriptorCoverage(r)

GrowsOnCompletion ==
  generation' = generation =>
    \A r \in Retained :
      \/ KnownCoverage(r)' \subseteq KnownCoverage(r)
      \/ \E s \in open : status'[s] = "Completed" /\ r \in Participants(transition[s])

(* Within a generation initialized coverage grows only by a completion of   *)
(* work that uses the resource; queueing or failing can only lose some.     *)
CoverageGrowsByCompletion == [][GrowsOnCompletion]_vars
=============================================================================
