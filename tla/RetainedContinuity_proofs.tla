---------------------- MODULE RetainedContinuity_proofs ----------------------
(* Safety of the retained-state authority for every set of clients,           *)
(* resources, regions and works, and every size of the identity spaces.       *)
EXTENDS RetainedContinuity, TLAPS

(* Accepted submissions report writes of their own participants only.         *)
SubmittedParticipates ==
  \A s \in open : submitted[s] \subseteq Participants(transition[s])

(* The inductive invariant.  Exclusive authority carries the rest: what one   *)
(* submission does to records and obligations stays within its participants,  *)
(* so what was true of another's participants at acceptance remains true.     *)
IInv ==
  /\ TypeOK
  /\ ExclusiveAuthority
  /\ SubmittedParticipates
  /\ PendingWhileQueued
  /\ UnknownNeedsReconstruction
  /\ AcceptedWorkMeetsObligations
  /\ EntryStateStillCurrent
  /\ EstablishedByCompleted

-----------------------------------------------------------------------------
(* Types of graphs and records *)

LEMMA GraphFacts ==
  ASSUME NEW g \in Graph
  PROVE  /\ g.work \in Work
         /\ g.consumed \subseteq Resource
         /\ g.entry \in CoverageMap
         /\ g.work.uses \subseteq Resource
         /\ g.work.explicit \subseteq g.work.uses
         /\ g.work.target \subseteq g.work.uses \cap Retained
         /\ g.work.gain \in CoverageMap
         /\ g.work.discard \in CoverageMap
         /\ Participants(g) \subseteq Retained
         /\ g.work.target \subseteq Participants(g)
BY WorkAssumption DEF Graph, Participants

LEMMA OpaqueFacts ==
  /\ Unestablished \in Opaque
  /\ Unknown \in Opaque
  /\ Unestablished # Unknown
  /\ \A s \in SubmissionId :
       /\ Established(s) \in Opaque
       /\ Established(s) # Unknown
       /\ Established(s) # Unestablished
  /\ \A s, t \in SubmissionId : Established(s) = Established(t) => s = t
BY DEF Opaque, Unestablished, Unknown, Established

LEMMA CoverageTypes ==
  ASSUME NEW g \in Graph, NEW r \in Retained
  PROVE  /\ FailureSafe(g, r) \in SUBSET Region
         /\ Final(g, r) \in SUBSET Region
<1>1. r \in Resource
  BY DescriptorAssumption
<1>2. /\ g.entry[r] \subseteq Region
      /\ g.work.gain[r] \subseteq Region
  BY <1>1, GraphFacts DEF CoverageMap
<1> QED
  BY <1>2 DEF FailureSafe, Final, ContentCoverage

LEMMA RecordTypes ==
  ASSUME TypeOK, NEW g \in Graph, NEW r \in Retained, NEW s \in SubmissionId
  PROVE  /\ MarkedRecord(g, r) \in Record
         /\ CompletedRecord(s, g, r) \in Record
         /\ FailedRecord(g, r) \in Record
<1>1. records[r] \in Record
  BY DEF TypeOK
<1>2. records[r].opaque \in Opaque
  BY <1>1 DEF Record
<1>3. CompletedOpaque(s, g, r) \in Opaque
  BY <1>2, OpaqueFacts DEF CompletedOpaque
<1>4. MarkedMatches(g, r) \in BOOLEAN
  BY DEF MarkedMatches
<1>5. CompletedMatches(g, r) \in BOOLEAN
  BY DEF CompletedMatches
<1>6. FailedMatches(g, r) \in BOOLEAN
  BY DEF FailedMatches
<1>7. MarkedRecord(g, r) \in Record
  BY <1>2, <1>4, CoverageTypes DEF MarkedRecord, Record
<1>8. CompletedRecord(s, g, r) \in Record
  BY <1>3, <1>5, CoverageTypes DEF CompletedRecord, Record
<1>9. FailedRecord(g, r) \in Record
  BY <1>6, OpaqueFacts, CoverageTypes DEF FailedRecord, Record
<1> QED
  BY <1>7, <1>8, <1>9

(* The fields the invariants speak of.                                        *)
LEMMA MarkedFields ==
  ASSUME NEW g, NEW r
  PROVE  /\ MarkedRecord(g, r).present = TRUE
         /\ MarkedRecord(g, r).opaque = records[r].opaque
         /\ MarkedRecord(g, r).pending = TRUE
BY DEF MarkedRecord

LEMMA CompletedFields ==
  ASSUME NEW s, NEW g, NEW r
  PROVE  /\ CompletedRecord(s, g, r).present = TRUE
         /\ CompletedRecord(s, g, r).opaque = CompletedOpaque(s, g, r)
         /\ CompletedRecord(s, g, r).pending = FALSE
BY DEF CompletedRecord

LEMMA FailedFields ==
  ASSUME NEW g, NEW r
  PROVE  /\ FailedRecord(g, r).present = TRUE
         /\ FailedRecord(g, r).opaque = Unknown
         /\ FailedRecord(g, r).pending = FALSE
BY DEF FailedRecord

LEMMA NoRecordType == NoRecord \in Record
BY OpaqueFacts DEF NoRecord, Record

(* Every accepted submission has a graph, and nothing in it is shared.        *)
LEMMA OpenFacts ==
  ASSUME TypeOK, ExclusiveAuthority, NEW s \in open
  PROVE  /\ s \in SubmissionId
         /\ transition[s] \in Graph
         /\ Participants(transition[s]) \subseteq reserved
         /\ transition[s].work.target \subseteq Participants(transition[s])
<1>1. s \in SubmissionId /\ transition[s] # NoGraph
  BY DEF TypeOK, open
<1>2. transition[s] \in Graph
  BY <1>1 DEF TypeOK
<1> QED
  BY <1>1, <1>2, GraphFacts DEF ExclusiveAuthority

-----------------------------------------------------------------------------
(* The inductive step, action by action *)

LEMMA InitInv == Init => IInv
<1> SUFFICES ASSUME Init PROVE IInv
  OBVIOUS
<1> USE DEF Init
<1>1. open = {}
  BY DEF open
<1>2. TypeOK
  BY <1>1, NoRecordType, DescriptorAssumption DEF TypeOK, Obligation
<1>3. ExclusiveAuthority /\ SubmittedParticipates
  BY <1>1 DEF ExclusiveAuthority, SubmittedParticipates
<1>4. PendingWhileQueued
  BY <1>1 DEF PendingWhileQueued, NoRecord
<1>5. UnknownNeedsReconstruction
  BY OpaqueFacts DEF UnknownNeedsReconstruction, NoRecord
<1>6. AcceptedWorkMeetsObligations /\ EntryStateStillCurrent
  BY <1>1 DEF AcceptedWorkMeetsObligations, EntryStateStillCurrent
<1>7. EstablishedByCompleted
  BY OpaqueFacts DEF EstablishedByCompleted, NoRecord
<1> QED
  BY <1>2, <1>3, <1>4, <1>5, <1>6, <1>7 DEF IInv

(* Callers prepare and drop graphs without touching the owner's state.        *)
LEMMA GraphStepInv ==
  ASSUME IInv, graph' \in [Client -> Graph \cup {NoGraph}],
         UNCHANGED <<generation, status, transition, submitted, records,
                     obligations, reserved>>
  PROVE  IInv'
BY DEF IInv, TypeOK, ExclusiveAuthority, SubmittedParticipates,
       PendingWhileQueued, UnknownNeedsReconstruction,
       AcceptedWorkMeetsObligations, EntryStateStillCurrent,
       EstablishedByCompleted, open

LEMMA DeriveType ==
  ASSUME TypeOK, NEW w \in Work, NEW seeds \in SUBSET Retained
  PROVE  Derive(w, seeds) \in Graph
<1>1. \A r \in Resource :
        (IF r \in seeds THEN records[r].coverage ELSE DescriptorCoverage(r))
          \in SUBSET Region
  BY DEF TypeOK, Record, DescriptorCoverage
<1>2. seeds \cap w.uses \in SUBSET Resource
  BY WorkAssumption
<1> QED
  BY <1>1, <1>2 DEF Derive, Graph, CoverageMap

LEMMA PrepareGraphInv ==
  ASSUME IInv, NEW c \in Client, NEW w \in Work, NEW seeds \in SUBSET Retained,
         PrepareGraph(c, w, seeds)
  PROVE  IInv'
BY DeriveType, GraphStepInv DEF PrepareGraph, IInv, TypeOK

LEMMA DropGraphInv ==
  ASSUME IInv, NEW c \in Client, DropGraph(c)
  PROVE  IInv'
BY GraphStepInv DEF DropGraph, IInv, TypeOK

(* Admission puts a fresh submission beside the others, over participants     *)
(* nobody owns.                                                               *)
LEMMA AcceptInv ==
  ASSUME IInv, NEW s \in SubmissionId, NEW c \in Client, Accept(s, c)
  PROVE  IInv'
<1> DEFINE g == graph[c]
<1>1. g \in Graph
  BY DEF IInv, TypeOK, Accept, Reserve
<1>2. /\ status[s] = "None"
      /\ s \notin open
  BY DEF Accept, Reserve, open, SubmissionId
<1>3. /\ open' = open \cup {s}
      /\ transition'[s] = g
      /\ \A t \in open : t # s /\ transition'[t] = transition[t]
      /\ submitted[s] = {}
  BY <1>2 DEF Accept, Reserve, open, IInv, TypeOK
<1>4. g # NoGraph
  BY DEF Accept, Reserve
<1>5. \A t \in open : Participants(transition[t]) \cap Participants(g) = {}
  BY OpenFacts DEF IInv, Accept, Reserve, Admissible, Unreserved
<1>6. TypeOK'
  <2>1. /\ generation' \in 0 .. MaxGeneration
        /\ graph' \in [Client -> Graph \cup {NoGraph}]
        /\ status' \in [SubmissionId -> {"None", "Accepted", "Completed", "Failed"}]
        /\ transition' \in [SubmissionId -> Graph \cup {NoGraph}]
        /\ submitted' \in [SubmissionId -> SUBSET Retained]
        /\ records' \in [Retained -> Record]
        /\ obligations' \in [Retained -> Obligation]
    BY <1>1 DEF Accept, Reserve, IInv, TypeOK
  <2>2. reserved' \in SUBSET Retained
    BY <1>1, GraphFacts DEF Accept, Reserve, IInv, TypeOK
  <2>3. \A t \in SubmissionId : transition'[t] = NoGraph <=> t \notin open'
    BY <1>3, <1>4 DEF Accept, Reserve, IInv, TypeOK
  <2>4. \A t \in SubmissionId : t \notin open' => submitted'[t] = {}
    BY <1>3 DEF Accept, Reserve, IInv, TypeOK
  <2>5. generation' = 0 => open' = {}
    BY DEF Accept, Reserve
  <2> QED
    BY <2>1, <2>2, <2>3, <2>4, <2>5 DEF TypeOK
<1>7. ExclusiveAuthority'
  <2>1. reserved' = UNION {Participants(transition'[t]) : t \in open'}
    BY <1>3 DEF IInv, ExclusiveAuthority, Accept, Reserve
  <2>2. \A t, u \in open' : t # u =>
          Participants(transition'[t]) \cap Participants(transition'[u]) = {}
    BY <1>3, <1>5 DEF IInv, ExclusiveAuthority
  <2> QED
    BY <2>1, <2>2 DEF ExclusiveAuthority, Participants
<1>8. SubmittedParticipates'
  BY <1>3 DEF IInv, SubmittedParticipates, Accept, Reserve, Participants
<1>9. PendingWhileQueued'
  BY <1>3 DEF IInv, PendingWhileQueued, Accept, Reserve
<1>10. UnknownNeedsReconstruction'
  BY DEF IInv, UnknownNeedsReconstruction, Accept, Reserve
<1>11. AcceptedWorkMeetsObligations'
  <2>1. \A r \in Participants(g) :
          r \in g.work.target <=> obligations[r] # "none"
    BY DEF Accept, Reserve, Admissible, ObligationMet, CanReconstruct
  <2> QED
    BY <1>3, <2>1
    DEF IInv, AcceptedWorkMeetsObligations, Accept, Reserve, Participants
<1>12. EntryStateStillCurrent'
  <2>1. \A r \in Participants(g) :
          IF r \in g.consumed
          THEN records[r].present /\ records[r].coverage = g.entry[r]
          ELSE ~records[r].present
    BY DEF Accept, Reserve, Admissible, LifecycleCurrent, CoverageCurrent
  <2> QED
    BY <1>3, <2>1 DEF IInv, EntryStateStillCurrent, Accept, Reserve, Participants
<1>13. EstablishedByCompleted'
  BY <1>2 DEF IInv, TypeOK, EstablishedByCompleted, Accept, Reserve
<1> QED
  BY <1>6, <1>7, <1>8, <1>9, <1>10, <1>11, <1>12, <1>13 DEF IInv

(* A queued write changes records of its own participants only, and keeps     *)
(* what is known of their content.                                            *)
LEMMA MarkMayExecuteInv ==
  ASSUME IInv, NEW s \in SubmissionId, NEW written \in SUBSET Retained,
         MarkMayExecute(s, written)
  PROVE  IInv'
<1> DEFINE g == transition[s]
<1>1. s \in open /\ g \in Graph
  BY OpenFacts DEF MarkMayExecute, Mark, IInv, open
<1>2. written \subseteq Participants(g)
  BY DEF MarkMayExecute, Mark, QueuedWrites
<1>3. open' = open
  BY DEF MarkMayExecute, Mark, open
<1>4. /\ submitted'[s] = submitted[s] \cup written
      /\ \A t \in open : t # s => submitted'[t] = submitted[t]
  BY <1>1 DEF MarkMayExecute, Mark, IInv, TypeOK, open
<1>5. \A r \in Retained :
        /\ r \in written => /\ records'[r].opaque = records[r].opaque
                            /\ records'[r].pending = TRUE
        /\ r \notin written => records'[r] = records[r]
  <2> HIDE DEF g
  <2> TAKE r \in Retained
  <2>1. r \in written => records'[r] = MarkedRecord(g, r)
    BY DEF MarkMayExecute, Mark, g
  <2>2. r \notin written => records'[r] = records[r]
    BY DEF MarkMayExecute, Mark
  <2> QED
    BY <2>1, <2>2, MarkedFields
<1>6. \A t \in open : t # s => Participants(transition[t]) \cap written = {}
  BY <1>1, <1>2 DEF IInv, ExclusiveAuthority
<1>7. TypeOK'
  <2>1. records' \in [Retained -> Record]
    BY <1>1, RecordTypes DEF MarkMayExecute, Mark, IInv, TypeOK
  <2>2. submitted' \in [SubmissionId -> SUBSET Retained]
    BY DEF MarkMayExecute, Mark, IInv, TypeOK
  <2>3. \A t \in SubmissionId : t \notin open' => submitted'[t] = {}
    BY <1>1, <1>3 DEF MarkMayExecute, Mark, IInv, TypeOK
  <2> QED
    BY <1>3, <2>1, <2>2, <2>3 DEF MarkMayExecute, Mark, IInv, TypeOK
<1>8. ExclusiveAuthority'
  BY <1>3 DEF IInv, ExclusiveAuthority, MarkMayExecute, Mark, Participants
<1>9. SubmittedParticipates'
  BY <1>1, <1>2, <1>3, <1>4
  DEF IInv, SubmittedParticipates, MarkMayExecute, Mark, Participants
<1>10. PendingWhileQueued'
  <2> SUFFICES ASSUME NEW r \in Retained
               PROVE  records'[r].pending <=> \E t \in open' : r \in submitted'[t]
    BY DEF PendingWhileQueued
  <2>1. CASE r \in written
    BY <1>1, <1>3, <1>4, <1>5, <2>1
  <2>2. CASE r \notin written
    BY <1>1, <1>3, <1>4, <1>5, <2>2 DEF IInv, PendingWhileQueued
  <2> QED
    BY <2>1, <2>2
<1>11. \A r \in Retained : records'[r].opaque = records[r].opaque
  BY <1>5
<1>12. UnknownNeedsReconstruction'
  BY <1>11 DEF IInv, UnknownNeedsReconstruction, MarkMayExecute, Mark
<1>13. AcceptedWorkMeetsObligations'
  BY <1>3
  DEF IInv, AcceptedWorkMeetsObligations, MarkMayExecute, Mark, Participants
<1>14. EntryStateStillCurrent'
  <2> SUFFICES ASSUME NEW t \in open,
                      NEW r \in Participants(transition[t]) \ submitted'[t]
               PROVE  IF r \in transition[t].consumed
                      THEN /\ records'[r].present
                           /\ records'[r].coverage = transition[t].entry[r]
                      ELSE ~records'[r].present
    BY <1>3 DEF EntryStateStillCurrent, MarkMayExecute, Mark, Participants
  <2>1. r \notin written /\ r \notin submitted[t]
    BY <1>4, <1>6
  <2>2. r \in Retained
    BY DEF Participants
  <2> QED
    BY <1>5, <2>1, <2>2 DEF IInv, EntryStateStillCurrent
<1>15. EstablishedByCompleted'
  BY <1>11 DEF IInv, EstablishedByCompleted, MarkMayExecute, Mark
<1> QED
  BY <1>7, <1>8, <1>9, <1>10, <1>12, <1>13, <1>14, <1>15 DEF IInv

(* A terminal submission leaves the others exactly their participants.        *)
LEMMA ReleaseFacts ==
  ASSUME TypeOK, ExclusiveAuthority, NEW s \in open, Release(s),
         NEW outcome \in {"Completed", "Failed"},
         status' = [status EXCEPT ![s] = outcome]
  PROVE  /\ open' = open \ {s}
         /\ status'[s] = outcome
         /\ \A t \in open' : /\ t \in open
                             /\ transition'[t] = transition[t]
                             /\ submitted'[t] = submitted[t]
                             /\ Participants(transition[t])
                                  \cap Participants(transition[s]) = {}
         /\ transition' \in [SubmissionId -> Graph \cup {NoGraph}]
         /\ submitted' \in [SubmissionId -> SUBSET Retained]
         /\ \A t \in SubmissionId : transition'[t] = NoGraph <=> t \notin open'
         /\ \A t \in SubmissionId : t \notin open' => submitted'[t] = {}
         /\ ExclusiveAuthority'
<1>1. s \in SubmissionId
  BY DEF open
<1>2. open' = open \ {s} /\ status'[s] = outcome
  BY <1>1 DEF open, TypeOK
<1>3. \A t \in open' : /\ t \in open
                       /\ transition'[t] = transition[t]
                       /\ submitted'[t] = submitted[t]
                       /\ Participants(transition[t])
                            \cap Participants(transition[s]) = {}
  BY <1>2 DEF Release, TypeOK, ExclusiveAuthority, open
<1>4. /\ transition' \in [SubmissionId -> Graph \cup {NoGraph}]
      /\ submitted' \in [SubmissionId -> SUBSET Retained]
  BY DEF Release, TypeOK
<1>5. \A t \in SubmissionId : transition'[t] = NoGraph <=> t \notin open'
  BY <1>2 DEF Release, TypeOK
<1>6. \A t \in SubmissionId : t \notin open' => submitted'[t] = {}
  BY <1>2 DEF Release, TypeOK
<1>7. reserved' = UNION {Participants(transition[t]) : t \in open'}
  BY <1>2, <1>3 DEF Release, ExclusiveAuthority
<1>8. UNION {Participants(transition[t]) : t \in open'}
        = UNION {Participants(transition'[t]) : t \in open'}
  BY <1>3
<1>9. ExclusiveAuthority'
  BY <1>3, <1>7, <1>8 DEF ExclusiveAuthority, Participants
<1> QED
  BY <1>2, <1>3, <1>4, <1>5, <1>6, <1>9

(* Completion settles the participants: their records are authoritative again *)
(* and the reconstructed targets are no longer owed.                          *)
LEMMA CompleteInv ==
  ASSUME IInv, NEW s \in SubmissionId, Complete(s)
  PROVE  IInv'
<1> USE DEF IInv
<1>1. s \in open /\ transition[s] \in Graph
  BY OpenFacts DEF Complete, Settle, open
<1>2. /\ open' = open \ {s}
      /\ status'[s] = "Completed"
      /\ \A t \in open' : /\ t \in open
                          /\ transition'[t] = transition[t]
                          /\ submitted'[t] = submitted[t]
                          /\ Participants(transition[t])
                               \cap Participants(transition[s]) = {}
  BY <1>1, ReleaseFacts DEF Complete, Settle
<1>3. \A r \in Retained :
        r \in Participants(transition[s]) =>
          /\ records'[r] = CompletedRecord(s, transition[s], r)
          /\ records'[r].pending = FALSE
          /\ records'[r].opaque = CompletedOpaque(s, transition[s], r)
  <2> TAKE r \in Retained
  <2> HAVE r \in Participants(transition[s])
  <2> DEFINE g == transition[s]
  <2> HIDE DEF g
  <2>1. records'[r] = CompletedRecord(s, g, r)
    BY DEF Complete, Settle, g
  <2>2. /\ records'[r].pending = FALSE
        /\ records'[r].opaque = CompletedOpaque(s, g, r)
    BY <2>1, CompletedFields
  <2> QED
    BY <2>1, <2>2 DEF g
<1>4. \A r \in Retained :
        r \notin Participants(transition[s]) => /\ records'[r] = records[r]
                                                /\ obligations'[r] = obligations[r]
  BY <1>1, OpenFacts DEF Complete, Settle
<1>5. \A t \in open' : \A r \in Participants(transition[t]) :
        /\ r \in Retained
        /\ records'[r] = records[r]
        /\ obligations'[r] = obligations[r]
  BY <1>2, <1>4 DEF Participants
<1>6. TypeOK'
  <2>1. records' \in [Retained -> Record]
    BY <1>1, RecordTypes DEF Complete, Settle, TypeOK
  <2>2. obligations' \in [Retained -> Obligation]
    BY DEF Complete, Settle, TypeOK, Obligation
  <2>3. reserved' \in SUBSET Retained
    BY DEF Complete, Settle, Release, TypeOK
  <2>4. status' \in [SubmissionId -> {"None", "Accepted", "Completed", "Failed"}]
    BY DEF Complete, Settle, TypeOK
  <2>5. /\ transition' \in [SubmissionId -> Graph \cup {NoGraph}]
        /\ submitted' \in [SubmissionId -> SUBSET Retained]
        /\ \A t \in SubmissionId : transition'[t] = NoGraph <=> t \notin open'
        /\ \A t \in SubmissionId : t \notin open' => submitted'[t] = {}
    BY <1>1, ReleaseFacts DEF Complete, Settle
  <2>6. generation' = 0 => open' = {}
    BY <1>2 DEF Complete, Settle, TypeOK
  <2> QED
    BY <2>1, <2>2, <2>3, <2>4, <2>5, <2>6 DEF Complete, Settle, TypeOK
<1>7. ExclusiveAuthority'
  BY <1>1, ReleaseFacts DEF Complete, Settle
<1>8. SubmittedParticipates'
  BY <1>2 DEF SubmittedParticipates, Participants
<1>9. PendingWhileQueued'
  <2> SUFFICES ASSUME NEW r \in Retained
               PROVE  records'[r].pending <=> \E t \in open' : r \in submitted'[t]
    BY DEF PendingWhileQueued
  <2>1. CASE r \in Participants(transition[s])
    BY <1>2, <1>3, <2>1 DEF SubmittedParticipates
  <2>2. CASE r \notin Participants(transition[s])
    <3>1. r \notin submitted[s]
      BY <1>1, <2>2 DEF SubmittedParticipates
    <3> QED
      BY <1>2, <1>4, <2>2, <3>1 DEF PendingWhileQueued
  <2> QED
    BY <2>1, <2>2
<1>10. UnknownNeedsReconstruction'
  <2> SUFFICES ASSUME NEW r \in Retained, records'[r].opaque = Unknown
               PROVE  obligations'[r] # "none"
    BY DEF UnknownNeedsReconstruction
  <2>1. CASE r \in Participants(transition[s])
    <3>1. /\ r \notin transition[s].work.target
          /\ records[r].opaque = Unknown
      BY <1>1, <1>3, <2>1, OpaqueFacts DEF CompletedOpaque, open
    <3>2. obligations'[r] = obligations[r]
      BY <3>1 DEF Complete, Settle
    <3> QED
      BY <3>1, <3>2 DEF UnknownNeedsReconstruction
  <2>2. CASE r \notin Participants(transition[s])
    BY <1>4, <2>2 DEF UnknownNeedsReconstruction
  <2> QED
    BY <2>1, <2>2
<1>11. AcceptedWorkMeetsObligations'
  BY <1>2, <1>5 DEF AcceptedWorkMeetsObligations, Participants
<1>12. EntryStateStillCurrent'
  BY <1>2, <1>5 DEF EntryStateStillCurrent, Participants
<1>13. EstablishedByCompleted'
  <2> SUFFICES ASSUME NEW r \in Retained, NEW t \in SubmissionId,
                      records'[r].opaque = Established(t)
               PROVE  status'[t] = "Completed"
    BY DEF EstablishedByCompleted
  <2>1. \A u \in SubmissionId : status[u] = "Completed" => status'[u] = "Completed"
    BY DEF Complete, Settle, TypeOK
  <2>2. t = s \/ records[r].opaque = Established(t)
    <3>1. CASE r \in Participants(transition[s])
      BY <1>3, <3>1, OpaqueFacts DEF CompletedOpaque
    <3>2. CASE r \notin Participants(transition[s])
      BY <1>4, <3>2
    <3> QED
      BY <3>1, <3>2
  <2> QED
    BY <1>2, <2>1, <2>2 DEF EstablishedByCompleted
<1> QED
  BY <1>6, <1>7, <1>8, <1>9, <1>10, <1>11, <1>12, <1>13

(* Failure makes the queued writes indeterminate and owed; what was not       *)
(* queued is as before.                                                       *)
LEMMA FailAfterAcceptanceInv ==
  ASSUME IInv, NEW s \in SubmissionId, FailAfterAcceptance(s)
  PROVE  IInv'
<1> USE DEF IInv
<1>1. /\ s \in open
      /\ transition[s] \in Graph
      /\ submitted[s] \subseteq Participants(transition[s])
  BY OpenFacts DEF FailAfterAcceptance, Fail, open, SubmittedParticipates
<1>2. /\ open' = open \ {s}
      /\ \A t \in open' : /\ t \in open
                          /\ transition'[t] = transition[t]
                          /\ submitted'[t] = submitted[t]
                          /\ Participants(transition[t])
                               \cap Participants(transition[s]) = {}
  BY <1>1, ReleaseFacts DEF FailAfterAcceptance, Fail
<1>3. \A r \in Retained :
        r \in submitted[s] => /\ records'[r].pending = FALSE
                              /\ records'[r].opaque = Unknown
                              /\ obligations'[r] # "none"
  <2> TAKE r \in Retained
  <2> HAVE r \in submitted[s]
  <2> DEFINE g == transition[s]
  <2> HIDE DEF g
  <2>1. records'[r] = FailedRecord(g, r)
    BY DEF FailAfterAcceptance, Fail, g
  <2>2. obligations'[r] # "none"
    BY DEF FailAfterAcceptance, Fail, FailedObligation, Due
  <2> QED
    BY <2>1, <2>2, FailedFields
<1>4. \A r \in Retained :
        r \notin submitted[s] => /\ records'[r] = records[r]
                                 /\ obligations'[r] = obligations[r]
  BY DEF FailAfterAcceptance, Fail, FailedObligation
<1>5. \A t \in open' : \A r \in Participants(transition[t]) :
        /\ r \in Retained
        /\ records'[r] = records[r]
        /\ obligations'[r] = obligations[r]
  BY <1>1, <1>2, <1>4 DEF Participants
<1>6. TypeOK'
  <2>1. records' \in [Retained -> Record]
    BY <1>1, RecordTypes DEF FailAfterAcceptance, Fail, TypeOK
  <2>2. obligations' \in [Retained -> Obligation]
    BY DEF FailAfterAcceptance, Fail, FailedObligation, Due, TypeOK, Obligation
  <2>3. reserved' \in SUBSET Retained
    BY DEF FailAfterAcceptance, Fail, Release, TypeOK
  <2>4. status' \in [SubmissionId -> {"None", "Accepted", "Completed", "Failed"}]
    BY DEF FailAfterAcceptance, Fail, TypeOK
  <2>5. /\ transition' \in [SubmissionId -> Graph \cup {NoGraph}]
        /\ submitted' \in [SubmissionId -> SUBSET Retained]
        /\ \A t \in SubmissionId : transition'[t] = NoGraph <=> t \notin open'
        /\ \A t \in SubmissionId : t \notin open' => submitted'[t] = {}
    BY <1>1, ReleaseFacts DEF FailAfterAcceptance, Fail
  <2>6. generation' = 0 => open' = {}
    BY <1>2 DEF FailAfterAcceptance, Fail, TypeOK
  <2> QED
    BY <2>1, <2>2, <2>3, <2>4, <2>5, <2>6 DEF FailAfterAcceptance, Fail, TypeOK
<1>7. ExclusiveAuthority'
  BY <1>1, ReleaseFacts DEF FailAfterAcceptance, Fail
<1>8. SubmittedParticipates'
  BY <1>2 DEF SubmittedParticipates, Participants
<1>9. PendingWhileQueued'
  <2> SUFFICES ASSUME NEW r \in Retained
               PROVE  records'[r].pending <=> \E t \in open' : r \in submitted'[t]
    BY DEF PendingWhileQueued
  <2>1. CASE r \in submitted[s]
    BY <1>1, <1>2, <1>3, <2>1 DEF SubmittedParticipates
  <2>2. CASE r \notin submitted[s]
    BY <1>2, <1>4, <2>2 DEF PendingWhileQueued
  <2> QED
    BY <2>1, <2>2
<1>10. UnknownNeedsReconstruction'
  BY <1>3, <1>4 DEF UnknownNeedsReconstruction
<1>11. AcceptedWorkMeetsObligations'
  BY <1>2, <1>5 DEF AcceptedWorkMeetsObligations, Participants
<1>12. EntryStateStillCurrent'
  BY <1>2, <1>5 DEF EntryStateStillCurrent, Participants
<1>13. EstablishedByCompleted'
  <2>1. \A t \in SubmissionId : status[t] = "Completed" => status'[t] = "Completed"
    BY DEF FailAfterAcceptance, Fail, TypeOK
  <2> QED
    BY <1>3, <1>4, <2>1, OpaqueFacts DEF EstablishedByCompleted
<1> QED
  BY <1>6, <1>7, <1>8, <1>9, <1>10, <1>11, <1>12, <1>13

(* A new generation starts with no record and nothing in flight.              *)
LEMMA ReplaceGenerationInv ==
  ASSUME IInv, ReplaceGeneration
  PROVE  IInv'
<1> USE DEF IInv
<1>1. open' = {} /\ open = {}
  BY DEF ReplaceGeneration, InstallGeneration, open
<1>2. TypeOK'
  <2>1. generation' \in 0 .. MaxGeneration
    BY DescriptorAssumption DEF ReplaceGeneration, InstallGeneration
  <2>2. obligations' \in [Retained -> Obligation]
    BY DEF ReplaceGeneration, InstallGeneration, Inherited, Due, TypeOK, Obligation
  <2>3. records' \in [Retained -> Record]
    BY NoRecordType DEF ReplaceGeneration, InstallGeneration
  <2> QED
    BY <1>1, <2>1, <2>2, <2>3 DEF ReplaceGeneration, InstallGeneration, TypeOK
<1>3. ExclusiveAuthority' /\ SubmittedParticipates'
  BY <1>1
  DEF ReplaceGeneration, InstallGeneration, ExclusiveAuthority, SubmittedParticipates
<1>4. PendingWhileQueued' /\ UnknownNeedsReconstruction'
  BY <1>1, OpaqueFacts
  DEF ReplaceGeneration, InstallGeneration, NoRecord, PendingWhileQueued, UnknownNeedsReconstruction
<1>5. AcceptedWorkMeetsObligations' /\ EntryStateStillCurrent'
  BY <1>1 DEF AcceptedWorkMeetsObligations, EntryStateStillCurrent
<1>6. EstablishedByCompleted'
  BY OpaqueFacts DEF ReplaceGeneration, InstallGeneration, NoRecord, EstablishedByCompleted
<1> QED
  BY <1>2, <1>3, <1>4, <1>5, <1>6

LEMMA DropOwnerInv ==
  ASSUME IInv, DropOwner
  PROVE  IInv'
<1> USE DEF IInv
<1>1. open' = {}
  BY DEF DropOwner, open, TypeOK
<1>2. TypeOK'
  <2>1. records' \in [Retained -> Record]
    BY NoRecordType DEF DropOwner
  <2>2. status' \in [SubmissionId -> {"None", "Accepted", "Completed", "Failed"}]
    BY DEF DropOwner, TypeOK
  <2> QED
    BY <1>1, <2>1, <2>2, DescriptorAssumption DEF DropOwner, TypeOK, Obligation
<1>3. ExclusiveAuthority' /\ SubmittedParticipates'
  BY <1>1 DEF DropOwner, ExclusiveAuthority, SubmittedParticipates
<1>4. PendingWhileQueued' /\ UnknownNeedsReconstruction'
  BY <1>1, OpaqueFacts
  DEF DropOwner, NoRecord, PendingWhileQueued, UnknownNeedsReconstruction
<1>5. AcceptedWorkMeetsObligations' /\ EntryStateStillCurrent'
  BY <1>1 DEF AcceptedWorkMeetsObligations, EntryStateStillCurrent
<1>6. EstablishedByCompleted'
  BY OpaqueFacts DEF DropOwner, NoRecord, EstablishedByCompleted
<1> QED
  BY <1>2, <1>3, <1>4, <1>5, <1>6

LEMMA NextInv == IInv /\ [Next]_vars => IInv'
<1> SUFFICES ASSUME IInv, [Next]_vars PROVE IInv'
  OBVIOUS
<1>1. ASSUME NEW c \in Client, NEW w \in Work, NEW seeds \in SUBSET Retained,
             PrepareGraph(c, w, seeds)
      PROVE  IInv'
  BY <1>1, PrepareGraphInv
<1>2. ASSUME NEW c \in Client, DropGraph(c) PROVE IInv'
  BY <1>2, DropGraphInv
<1>3. ASSUME NEW s \in SubmissionId, NEW c \in Client, Accept(s, c) PROVE IInv'
  BY <1>3, AcceptInv
<1>4. ASSUME NEW s \in SubmissionId, NEW written \in SUBSET Retained,
             MarkMayExecute(s, written)
      PROVE  IInv'
  BY <1>4, MarkMayExecuteInv
<1>5. ASSUME NEW s \in SubmissionId, Complete(s) PROVE IInv'
  BY <1>5, CompleteInv
<1>6. ASSUME NEW s \in SubmissionId, FailAfterAcceptance(s) PROVE IInv'
  BY <1>6, FailAfterAcceptanceInv
<1>7. CASE ReplaceGeneration
  BY <1>7, ReplaceGenerationInv
<1>8. CASE DropOwner
  BY <1>8, DropOwnerInv
<1>9. CASE UNCHANGED vars
  <2>1. graph' \in [Client -> Graph \cup {NoGraph}]
    BY <1>9 DEF vars, IInv, TypeOK
  <2> QED
    BY <1>9, <2>1, GraphStepInv DEF vars
<1> QED
  BY <1>1, <1>2, <1>3, <1>4, <1>5, <1>6, <1>7, <1>8, <1>9 DEF Next

-----------------------------------------------------------------------------
(* Theorems *)

(* The inductive invariant holds throughout: at every moment the records,     *)
(* obligations and reservations agree with the accepted submissions.          *)
THEOREM Invariance == Spec => []IInv
BY InitInv, NextInv, PTL DEF Spec

(* The state stays within its types (retained_continuity.rs:168-176).         *)
THEOREM TypeCorrect == Spec => []TypeOK
BY Invariance, PTL DEF IInv

(* However submissions are accepted, completed and failed, reservations are   *)
(* exactly the disjoint participants of those in flight                       *)
(* (validate_and_reserve, release).                                           *)
THEOREM AuthorityIsExclusive == Spec => []ExclusiveAuthority
BY Invariance, PTL DEF IInv

(* A pending mark stands for a queued write of a live submission.             *)
THEOREM PendingIsOwned == Spec => []PendingWhileQueued
BY Invariance, PTL DEF IInv

(* Content of unknown state is owed a reconstruction                          *)
(* (fail_after_acceptance, complete).                                         *)
THEOREM UnknownIsOwed == Spec => []UnknownNeedsReconstruction
BY Invariance, PTL DEF IInv

(* Accepted work never comes to depend on contents that were lost.            *)
THEOREM AcceptedWorkIsCurrent == Spec => []AcceptedWorkMeetsObligations
BY Invariance, PTL DEF IInv

(* What graph preparation assumed still holds until the submission itself     *)
(* queues a write.                                                            *)
THEOREM EntryStateIsCurrent == Spec => []EntryStateStillCurrent
BY Invariance, PTL DEF IInv

(* Established content names a completed submission of this generation.       *)
THEOREM EstablishedMeansCompleted == Spec => []EstablishedByCompleted
BY Invariance, PTL DEF IInv

(* Obligations end only by a completed reconstruction.                        *)
THEOREM ObligationsAreHonoured == Spec => ObligationsEndByReconstruction
<1>1. IInv /\ [Next]_vars => [DischargesOnlyTargets]_vars
  <2> SUFFICES ASSUME IInv, [Next]_vars, NEW r \in Retained,
                      obligations[r] # "none", obligations'[r] = "none"
               PROVE  \/ generation' = 0
                      \/ \E s \in open : /\ status'[s] = "Completed"
                                         /\ r \in transition[s].work.target
    BY DEF DischargesOnlyTargets
  <2>1. ASSUME NEW s \in SubmissionId, Complete(s)
        PROVE  \E t \in open : /\ status'[t] = "Completed"
                               /\ r \in transition[t].work.target
    BY <2>1 DEF Complete, Settle, open, IInv, TypeOK
  <2>2. ASSUME NEW s \in SubmissionId, FailAfterAcceptance(s) PROVE FALSE
    BY <2>2 DEF FailAfterAcceptance, Fail, FailedObligation, Due
  <2>3. CASE ReplaceGeneration
    BY <2>3 DEF ReplaceGeneration, InstallGeneration, Inherited
  <2>4. CASE DropOwner
    BY <2>4 DEF DropOwner
  <2>5. CASE UNCHANGED obligations
    BY <2>5
  <2> QED
    BY <2>1, <2>2, <2>3, <2>4, <2>5
    DEF Next, vars, PrepareGraph, DropGraph, Accept, Reserve, MarkMayExecute, Mark
<1> QED
  BY <1>1, Invariance, PTL DEF Spec, ObligationsEndByReconstruction

(* Contents once accounted for are never forgotten while the owner lives.     *)
THEOREM ContentsAreRemembered == Spec => ContentsNeverForgotten
<1>1. IInv /\ [Next]_vars =>
        [\A r \in Retained :
           records[r].present \/ obligations[r] # "none" =>
             \/ generation' = 0
             \/ records'[r].present
             \/ obligations'[r] # "none"]_vars
  <2> SUFFICES ASSUME IInv, [Next]_vars, NEW r \in Retained,
                      records[r].present \/ obligations[r] # "none"
               PROVE  \/ generation' = 0
                      \/ records'[r].present
                      \/ obligations'[r] # "none"
    OBVIOUS
  <2>1. ASSUME NEW s \in SubmissionId, NEW written \in SUBSET Retained,
               MarkMayExecute(s, written)
        PROVE  records'[r].present \/ obligations'[r] # "none"
    <3> DEFINE g == transition[s]
    <3> HIDE DEF g
    <3>1. records'[r] = MarkedRecord(g, r) \/ records'[r] = records[r]
      BY <2>1 DEF MarkMayExecute, Mark, g
    <3>2. obligations' = obligations
      BY <2>1 DEF MarkMayExecute, Mark
    <3> QED
      BY <3>1, <3>2, MarkedFields
  <2>2. ASSUME NEW s \in SubmissionId, Complete(s)
        PROVE  records'[r].present \/ obligations'[r] # "none"
    <3> DEFINE g == transition[s]
    <3> HIDE DEF g
    <3>1. CASE r \in Participants(g)
      <4>1. records'[r] = CompletedRecord(s, g, r)
        BY <2>2, <3>1 DEF Complete, Settle, g
      <4> QED
        BY <4>1, CompletedFields
    <3>2. CASE r \notin Participants(g)
      <4>1. s \in open
        BY <2>2 DEF Complete, Settle, open
      <4>2. r \notin g.work.target
        BY <3>2, <4>1, OpenFacts DEF IInv, g
      <4> QED
        BY <2>2, <3>2, <4>2 DEF Complete, Settle, g
    <3> QED
      BY <3>1, <3>2
  <2>3. ASSUME NEW s \in SubmissionId, FailAfterAcceptance(s)
        PROVE  records'[r].present \/ obligations'[r] # "none"
    BY <2>3 DEF FailAfterAcceptance, Fail, FailedObligation, Due
  <2>4. CASE ReplaceGeneration
    BY <2>4 DEF ReplaceGeneration, InstallGeneration, Inherited, Due
  <2>5. CASE DropOwner
    BY <2>5 DEF DropOwner
  <2>6. CASE UNCHANGED <<records, obligations>>
    BY <2>6
  <2> QED
    BY <2>1, <2>2, <2>3, <2>4, <2>5, <2>6
    DEF Next, vars, PrepareGraph, DropGraph, Accept, Reserve
<1> QED
  BY <1>1, Invariance, PTL DEF Spec, ContentsNeverForgotten

-----------------------------------------------------------------------------
(* Coverage: what a graph assumes of a resource it was given no record of is  *)
(* what the descriptor says, and a queued write leaves the failure-safe part  *)
(* of what its graph assumed.                                                 *)
DescriptorEntry(g) ==
  \A r \in Retained : r \in g.work.uses \ g.consumed => g.entry[r] = DescriptorCoverage(r)

CoverageInv ==
  /\ \A c \in Client : graph[c] # NoGraph => DescriptorEntry(graph[c])
  /\ \A s \in open : DescriptorEntry(transition[s])
  /\ \A s \in open : \A r \in submitted[s] :
       records[r].present /\ records[r].coverage = FailureSafe(transition[s], r)

LEMMA DerivedEntry ==
  ASSUME NEW w \in Work, NEW seeds \in SUBSET Retained
  PROVE  DescriptorEntry(Derive(w, seeds))
BY DescriptorAssumption DEF DescriptorEntry, Derive

LEMMA CoverageInit == Init => CoverageInv
BY DEF Init, CoverageInv, open

LEMMA CoverageNext == IInv /\ CoverageInv /\ [Next]_vars => CoverageInv'
<1> SUFFICES ASSUME IInv, CoverageInv, [Next]_vars PROVE CoverageInv'
  OBVIOUS
<1>1. ASSUME NEW c \in Client, NEW w \in Work, NEW seeds \in SUBSET Retained,
             PrepareGraph(c, w, seeds)
      PROVE  CoverageInv'
  <2>1. \A d \in Client : graph'[d] # NoGraph => DescriptorEntry(graph'[d])
    BY <1>1, DerivedEntry DEF PrepareGraph, CoverageInv, IInv, TypeOK
  <2>2. UNCHANGED <<status, transition, submitted, records>>
    BY <1>1 DEF PrepareGraph
  <2> QED
    BY <2>1, <2>2 DEF CoverageInv, open, FailureSafe, DescriptorEntry, DescriptorCoverage
<1>2. ASSUME NEW c \in Client, DropGraph(c) PROVE CoverageInv'
  <2>1. \A d \in Client : graph'[d] # NoGraph => DescriptorEntry(graph'[d])
    BY <1>2 DEF DropGraph, CoverageInv, IInv, TypeOK
  <2>2. UNCHANGED <<status, transition, submitted, records>>
    BY <1>2 DEF DropGraph
  <2> QED
    BY <2>1, <2>2 DEF CoverageInv, open, FailureSafe, DescriptorEntry, DescriptorCoverage
<1>3. ASSUME NEW s \in SubmissionId, NEW c \in Client, Accept(s, c) PROVE CoverageInv'
  <2>1. /\ s \notin open
        /\ submitted[s] = {}
        /\ open' = open \cup {s}
        /\ transition'[s] = graph[c]
        /\ \A t \in open : transition'[t] = transition[t]
        /\ UNCHANGED <<graph, submitted, records>>
    BY <1>3 DEF Accept, Reserve, open, IInv, TypeOK, SubmissionId
  <2>2. DescriptorEntry(graph[c])
    BY <1>3 DEF Accept, CoverageInv
  <2>3. \A t \in open' : DescriptorEntry(transition'[t])
    BY <2>1, <2>2 DEF CoverageInv
  <2>4. \A t \in open' : \A r \in submitted'[t] :
          records'[r].present /\ records'[r].coverage = FailureSafe(transition'[t], r)
    BY <2>1 DEF CoverageInv
  <2> QED
    BY <2>1, <2>3, <2>4 DEF CoverageInv, FailureSafe, DescriptorEntry, DescriptorCoverage
<1>4. ASSUME NEW s \in SubmissionId, NEW written \in SUBSET Retained,
             MarkMayExecute(s, written)
      PROVE  CoverageInv'
  <2>1. /\ s \in open
        /\ open' = open
        /\ submitted'[s] = submitted[s] \cup written
        /\ \A t \in open : t # s => submitted'[t] = submitted[t]
        /\ UNCHANGED <<graph, transition>>
    BY <1>4 DEF MarkMayExecute, Mark, open, IInv, TypeOK
  <2>2. \A t \in open : t # s => submitted[t] \cap written = {}
    <3>1. written \subseteq Participants(transition[s])
      BY <1>4 DEF MarkMayExecute, QueuedWrites
    <3> QED
      BY <2>1, <3>1 DEF IInv, ExclusiveAuthority, SubmittedParticipates
  <2>3. /\ \A r \in written : records'[r].present /\ records'[r].coverage = FailureSafe(transition[s], r)
        /\ \A r \in Retained \ written : records'[r] = records[r]
    BY <1>4 DEF MarkMayExecute, Mark, MarkedRecord
  <2>4. \A t \in open : submitted[t] \subseteq Retained
    BY DEF IInv, TypeOK, open
  <2>5. \A t \in open' : \A r \in submitted'[t] :
          records'[r].present /\ records'[r].coverage = FailureSafe(transition[t], r)
    <3> TAKE t \in open'
    <3> TAKE r \in submitted'[t]
    <3>1. CASE r \in written
      <4>1. t = s
        BY <2>1, <2>2, <3>1
      <4>2. records'[r].present /\ records'[r].coverage = FailureSafe(transition[s], r)
        BY <2>3, <3>1
      <4> QED
        BY <4>1, <4>2
    <3>2. CASE r \notin written
      <4>1. r \in submitted[t] /\ records'[r] = records[r]
        BY <2>1, <2>3, <2>4, <3>2
      <4> QED
        BY <2>1, <4>1 DEF CoverageInv
    <3> QED
      BY <3>1, <3>2
  <2> QED
    BY <2>1, <2>5 DEF CoverageInv, FailureSafe, DescriptorEntry, DescriptorCoverage
<1>5. ASSUME NEW s \in SubmissionId, Complete(s) \/ FailAfterAcceptance(s) PROVE CoverageInv'
  <2>1. /\ s \in open
        /\ open' = open \ {s}
        /\ \A t \in open' : transition'[t] = transition[t] /\ submitted'[t] = submitted[t]
        /\ graph' = graph
    BY <1>5 DEF Complete, Settle, FailAfterAcceptance, Fail, Release, open, IInv, TypeOK
  <2>2. \A r \in Retained : r \notin Participants(transition[s]) => records'[r] = records[r]
    BY <1>5, <2>1 DEF Complete, Settle, FailAfterAcceptance, Fail, IInv, SubmittedParticipates
  <2>3. \A t \in open' : submitted[t] \subseteq Retained \ Participants(transition[s])
    BY <2>1 DEF IInv, TypeOK, ExclusiveAuthority, SubmittedParticipates, open
  <2>4. \A t \in open' : \A r \in submitted'[t] :
          records'[r].present /\ records'[r].coverage = FailureSafe(transition'[t], r)
    BY <2>1, <2>2, <2>3 DEF CoverageInv
  <2>5. \A t \in open' : DescriptorEntry(transition'[t])
    BY <2>1 DEF CoverageInv
  <2> QED
    BY <2>1, <2>4, <2>5 DEF CoverageInv, FailureSafe, DescriptorEntry, DescriptorCoverage
<1>6. CASE ReplaceGeneration \/ DropOwner
  <2>1. open' = {} /\ graph' = graph
    BY <1>6 DEF ReplaceGeneration, InstallGeneration, DropOwner, open, IInv, TypeOK
  <2> QED
    BY <2>1 DEF CoverageInv, DescriptorEntry, DescriptorCoverage
<1>7. CASE UNCHANGED vars
  BY <1>7 DEF vars, CoverageInv, open, FailureSafe, DescriptorEntry, DescriptorCoverage
<1> QED
  BY <1>1, <1>2, <1>3, <1>4, <1>5, <1>6, <1>7 DEF Next

(* Before its first write of a resource a submission's graph is as the record *)
(* says (EntryStateStillCurrent); after it, the record is failure-safe        *)
(* already, so that marking and failing only ever lose coverage.              *)
LEMMA WritesOnlyLose ==
  ASSUME IInv, CoverageInv, NEW s \in open, NEW r \in Participants(transition[s])
  PROVE  FailureSafe(transition[s], r) \subseteq KnownCoverage(r)
<1> DEFINE g == transition[s]
<1>1. g \in Graph /\ r \in Retained
  BY OpenFacts, GraphFacts DEF IInv
<1>2. CASE r \in submitted[s]
  BY <1>2 DEF CoverageInv, KnownCoverage
<1>3. CASE r \notin submitted[s] /\ r \in g.consumed
  BY <1>3 DEF IInv, EntryStateStillCurrent, KnownCoverage, FailureSafe
<1>4. CASE r \notin submitted[s] /\ r \notin g.consumed
  <2>1. ~records[r].present
    BY <1>4 DEF IInv, EntryStateStillCurrent
  <2>2. g.entry[r] = DescriptorCoverage(r)
    BY <1>1, <1>4 DEF CoverageInv, DescriptorEntry, Participants
  <2> QED
    BY <2>1, <2>2 DEF KnownCoverage, FailureSafe
<1> QED
  BY <1>2, <1>3, <1>4

(* Initialized coverage grows only when work that uses the resource completes *)
(* (mark_may_execute, fail_after_acceptance, complete).                       *)
THEOREM CoverageGrows == Spec => CoverageGrowsByCompletion
<1>1. IInv /\ CoverageInv /\ [Next]_vars => [GrowsOnCompletion]_vars
  <2> SUFFICES ASSUME IInv, CoverageInv, [Next]_vars, generation' = generation, NEW r \in Retained
               PROVE  \/ KnownCoverage(r)' \subseteq KnownCoverage(r)
                      \/ \E s \in open : status'[s] = "Completed" /\ r \in Participants(transition[s])
    BY DEF GrowsOnCompletion
  <2>1. ASSUME NEW s \in SubmissionId, NEW written \in SUBSET Retained, MarkMayExecute(s, written)
        PROVE  KnownCoverage(r)' \subseteq KnownCoverage(r)
    <3>1. s \in open /\ written \subseteq Participants(transition[s])
      BY <2>1 DEF MarkMayExecute, QueuedWrites, open
    <3>2. CASE r \in written
      <4>1. records'[r].present /\ records'[r].coverage = FailureSafe(transition[s], r)
        BY <2>1, <3>2 DEF MarkMayExecute, Mark, MarkedRecord
      <4> QED
        BY <3>1, <3>2, <4>1, WritesOnlyLose DEF KnownCoverage
    <3>3. CASE r \notin written
      BY <2>1, <3>3 DEF MarkMayExecute, Mark, KnownCoverage, DescriptorCoverage
    <3> QED
      BY <3>2, <3>3
  <2>2. ASSUME NEW s \in SubmissionId, FailAfterAcceptance(s)
        PROVE  KnownCoverage(r)' \subseteq KnownCoverage(r)
    <3>1. s \in open /\ submitted[s] \subseteq Participants(transition[s])
      BY <2>2 DEF FailAfterAcceptance, open, IInv, SubmittedParticipates
    <3>2. CASE r \in submitted[s]
      <4>1. records'[r].present /\ records'[r].coverage = FailureSafe(transition[s], r)
        BY <2>2, <3>2 DEF FailAfterAcceptance, Fail, FailedRecord
      <4> QED
        BY <3>1, <3>2, <4>1, WritesOnlyLose DEF KnownCoverage
    <3>3. CASE r \notin submitted[s]
      BY <2>2, <3>3 DEF FailAfterAcceptance, Fail, KnownCoverage, DescriptorCoverage
    <3> QED
      BY <3>2, <3>3
  <2>3. ASSUME NEW s \in SubmissionId, Complete(s)
        PROVE  \/ KnownCoverage(r)' \subseteq KnownCoverage(r)
               \/ \E t \in open : status'[t] = "Completed" /\ r \in Participants(transition[t])
    <3>1. s \in open /\ status'[s] = "Completed"
      BY <2>3 DEF Complete, Settle, open, IInv, TypeOK
    <3>2. CASE r \notin Participants(transition[s])
      BY <2>3, <3>2 DEF Complete, Settle, KnownCoverage, DescriptorCoverage
    <3> QED
      BY <3>1, <3>2
  <2>4. CASE ReplaceGeneration
    BY <2>4 DEF ReplaceGeneration, InstallGeneration, IInv, TypeOK
  <2>5. CASE DropOwner
    BY <2>5 DEF DropOwner
  <2>6. CASE UNCHANGED records
    BY <2>6 DEF KnownCoverage, DescriptorCoverage
  <2> QED
    BY <2>1, <2>2, <2>3, <2>4, <2>5, <2>6 DEF Next, vars, PrepareGraph, DropGraph, Accept, Reserve
<1> QED
  BY <1>1, Invariance, CoverageInit, CoverageNext, PTL DEF Spec, CoverageGrowsByCompletion
=============================================================================
