------------------------------- MODULE Health -------------------------------
(***************************************************************************)
(* What a device remembers of its faults (backend/wgpu/health.rs).  Evidence  *)
(* of every class arrives from callbacks and error scopes in any order; one   *)
(* fault is reported, the rest is told after it in a text of bounded length.   *)
(*                                                                          *)
(* A text is a sequence of marks: a character <<i, c>> of the detail of the    *)
(* i-th evidence, and one mark for each label and separator put in between.   *)
(***************************************************************************)
EXTENDS Naturals, Sequences

CONSTANTS
  MaxText,     \* MAX_BACKEND_EVIDENCE_CHARS
  TextLength,  \* the lengths of the details tried
  MaxFaults    \* bound on the evidence observed

ASSUME TextAssumption == MaxText \in Nat \ {0} /\ TextLength \subseteq Nat

VARIABLES
  fault,      \* [class, detail]: the fault reported; class "none" while healthy
  secondary,  \* the text of the other evidence, empty for None
  evidence    \* every [class, length] observed, in order

healthVars == <<fault, secondary, evidence>>

Class == {"Validation", "OutOfMemory", "Lost"}

(* fault_precedence                                                           *)
Severity(class) ==
  CASE class = "none" -> 0 [] class = "Validation" -> 1
    [] class = "OutOfMemory" -> 2 [] class = "Lost" -> 3

Text(i, length) == [c \in 1 .. length |-> <<i, c>>]
LowerPrecedence == << <<"lower-precedence">> >>
Additional      == << <<"additional">> >>
Separator       == << <<";">> >>

Bounded(text) == SubSeq(text, 1, IF Len(text) <= MaxText THEN Len(text) ELSE MaxText)

Continued(existing, next) == IF existing = <<>> THEN next ELSE existing \o Separator \o next

(* append_secondary: a labelled observation is never empty.                     *)
AppendSecondary(existing, next) == Bounded(Continued(existing, next))

HealthInit == fault = [class |-> "none", detail |-> <<>>] /\ secondary = <<>> /\ evidence = <<>>

(* A fault: evidence of the class already reported takes its place.             *)
MarkFaultNewest(class, length) ==
  LET incoming == [class |-> class, detail |-> Bounded(Text(Len(evidence) + 1, length))]
  IN /\ evidence' = Append(evidence, [class |-> class, length |-> length])
     /\ \/ fault.class = "none" /\ fault' = incoming /\ secondary' = <<>>
        \/ /\ fault.class # "none" /\ Severity(class) >= Severity(fault.class)
           /\ fault' = incoming
           /\ secondary' = AppendSecondary(secondary, LowerPrecedence \o fault.detail)
        \/ /\ fault.class # "none" /\ Severity(class) < Severity(fault.class)
           /\ secondary' = AppendSecondary(secondary, LowerPrecedence \o incoming.detail)
           /\ UNCHANGED fault

(* mark_fault, from mark_uncaptured, mark_lost and mark_scoped_internal: the       *)
(* first evidence is the fault, a worse one takes its place and pushes it among   *)
(* the others, and what is no worse goes among them itself.                      *)
MarkFault(class, length) ==
  LET incoming == [class |-> class, detail |-> Bounded(Text(Len(evidence) + 1, length))]
  IN /\ evidence' = Append(evidence, [class |-> class, length |-> length])
     /\ \/ fault.class = "none" /\ fault' = incoming /\ secondary' = <<>>
        \/ /\ fault.class # "none" /\ Severity(class) > Severity(fault.class)
           /\ fault' = incoming
           /\ secondary' = AppendSecondary(secondary, LowerPrecedence \o fault.detail)
        \/ /\ fault.class # "none" /\ Severity(class) <= Severity(fault.class)
           /\ secondary' = AppendSecondary(secondary,
                (IF class = fault.class THEN Additional ELSE LowerPrecedence) \o incoming.detail)
           /\ UNCHANGED fault

HealthNext ==
  Len(evidence) < MaxFaults /\ \E class \in Class, length \in TextLength : MarkFault(class, length)

HealthSpec == HealthInit /\ [][HealthNext]_healthVars

Evidence == [class : Class, length : TextLength]
TextMark == (Nat \X Nat) \cup {<<"lower-precedence">>, <<"additional">>, <<";">>}

HealthTypeOK ==
  /\ evidence \in Seq(Evidence)
  /\ fault \in [class : Class \cup {"none"}, detail : Seq(TextMark)]
  /\ secondary \in Seq(TextMark)

(***************************************************************************)
(* What the evidence amounts to, told from its order alone and at full        *)
(* length.                                                                   *)
(***************************************************************************)
Worst(seen, n, i) ==
  \A j \in 1 .. n : \/ Severity(seen[j].class) < Severity(seen[i].class)
                    \/ Severity(seen[j].class) = Severity(seen[i].class) /\ i <= j

WorstOf(seen, n) == CHOOSE i \in 1 .. n : Worst(seen, n, i)

(* Of each evidence and the worst before it, one is set aside: by a word of the   *)
(* same class, or as the lesser of the two.                                     *)
Aside(seen, n) == IF WorstOf(seen, n) = n THEN WorstOf(seen, n - 1) ELSE n

Observation(seen, n) ==
  LET i == Aside(seen, n)
  IN (IF seen[i].class = seen[WorstOf(seen, n)].class THEN Additional ELSE LowerPrecedence)
       \o Text(i, seen[i].length)

Story(seen) ==
  LET told[n \in 0 .. Len(seen)] ==
        IF n <= 1 THEN <<>> ELSE Continued(told[n - 1], Observation(seen, n))
  IN told[Len(seen)]

(* Whatever order the evidence came in: the fault reported is of the worst class   *)
(* seen and the first of that class, so that one device gives every owner the     *)
(* same answer until something worse is known.  The secondary detail is the       *)
(* beginning of the story of all the rest, each labelled and in the order it was   *)
(* set aside: what does not fit in MAX_BACKEND_EVIDENCE_CHARS is lost at its end   *)
(* and nowhere else, so that later evidence never displaces what is already told  *)
(* (WgpuDeviceHealth::mark_fault, append_secondary, bounded).                    *)
WorstFaultIsReported ==
  evidence # <<>> =>
    LET worst == WorstOf(evidence, Len(evidence))
    IN /\ fault = [class |-> evidence[worst].class, detail |-> Bounded(Text(worst, evidence[worst].length))]
       /\ secondary = Bounded(Story(evidence))
=============================================================================
