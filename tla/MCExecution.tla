---------------------------- MODULE MCExecution ----------------------------
(* Small instances of the execution owner.  Each configuration chooses its   *)
(* works, resources and bounds among these definitions.                      *)
EXTENDS Execution, TLC

CONSTANTS c1, c2, buffer, palette, all, b1, b2

OneClient == {c1}
TwoClients == {c1, c2}
Symmetry == Permutations(TwoClients)

(* "buffer" is retained content only work produces; "palette" is transient    *)
(* and comes with prepared bytes.                                             *)
Both == {buffer, palette}
JustBuffer == {buffer}
JustPalette == {palette}
OneRegion == {all}
BothInitialization ==
  [r \in Resource |-> IF r = palette THEN "Prepared" ELSE "Uninitialized"]
BothReconstruction ==
  [r \in Resource |-> IF r = palette THEN "NonReconstructable" ELSE "SourceBacked"]
Nothing == {}
TwoReadbacks == {b1, b2}
OneReadback == {b1}
NoBytes == <<>>
ReadbackBytes == (b1 :> 1) @@ (b2 :> 2)
ReadbackByte == b1 :> 1
SeedOfPalette == palette :> 1

-----------------------------------------------------------------------------
(* Works *)

Only(q) == [r \in Resource |-> IF r = q THEN {all} ELSE {}]
Nowhere == [r \in Resource |-> {}]
InBuffer == Only(buffer)
InPalette == Only(palette)

Segment(writes, back, present) ==
  [writes |-> writes, readbacks |-> back, present |-> present]

(* Draw the buffer from the palette, present, then overwrite it again.        *)
Draw ==
  [uses |-> Both, explicit |-> {buffer}, target |-> {},
   needs |-> InPalette, gain |-> InBuffer, discard |-> Nowhere, upload |-> 0,
   segments |-> <<Segment({buffer}, {}, TRUE), Segment({buffer}, {}, FALSE)>>]

(* Replay the buffer's content after it was lost.                             *)
Rebuild ==
  [uses |-> {buffer}, explicit |-> {buffer}, target |-> {buffer},
   needs |-> Nowhere, gain |-> InBuffer, discard |-> Nowhere, upload |-> 0,
   segments |-> <<Segment({buffer}, {}, FALSE)>>]

DrawAndRebuild == {Draw, Rebuild}
JustDraw == {Draw}

(* A reconstruction whose only writer is a dispatch of no workgroups.         *)
Hollow ==
  [uses |-> {buffer}, explicit |-> {buffer}, target |-> {buffer},
   needs |-> Nowhere, gain |-> Nowhere, discard |-> Nowhere, upload |-> 0,
   segments |-> <<Segment({}, {}, FALSE)>>]

DrawAndHollow == {Draw, Hollow}

(* Read the palette back while presenting, then a second readback.            *)
Capture ==
  [uses |-> {palette}, explicit |-> {}, target |-> {}, needs |-> InPalette,
   gain |-> Nowhere, discard |-> Nowhere, upload |-> 0,
   segments |-> <<Segment({}, {b1}, TRUE), Segment({}, {b2}, FALSE)>>]

(* Upload beside it.                                                          *)
Stream ==
  [uses |-> {palette}, explicit |-> {}, target |-> {}, needs |-> InPalette,
   gain |-> Nowhere, discard |-> Nowhere, upload |-> 2,
   segments |-> <<Segment({}, {}, FALSE)>>]

CaptureAndStream == {Capture, Stream}

(* Read the palette back once, then present.                                  *)
Shot == [Capture EXCEPT !.segments =
           <<Segment({}, {b1}, TRUE), Segment({}, {}, FALSE)>>]
JustShot == {Shot}
=============================================================================
