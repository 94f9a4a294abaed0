------------------------ MODULE MCRetainedContinuity ------------------------
(* A small instance of the retained-state authority: a buffer whose content  *)
(* only work can produce, and an image whose descriptor can rebuild it.      *)
EXTENDS RetainedContinuity, TLC

CONSTANTS c1, c2, buffer, image, lo, hi

MCClient == {c1, c2}
MCResource == {buffer, image}
MCRegion == {lo, hi}
MCInitialization == (buffer :> "Uninitialized") @@ (image :> "Prepared")
MCReconstruction == (buffer :> "External") @@ (image :> "SourceBacked")

None == [r \in MCResource |-> {}]
Only(r, regions) == [None EXCEPT ![r] = regions]

(* Authored work: fill one half, draw the rest over a discarded half, read   *)
(* both, and the two ways of reconstructing.                                 *)
Fill == [uses |-> {buffer}, explicit |-> {buffer}, target |-> {},
         needs |-> None, gain |-> Only(buffer, {lo}), discard |-> None]
Redraw == [uses |-> {buffer, image}, explicit |-> {buffer}, target |-> {},
           needs |-> Only(image, {lo, hi}), gain |-> Only(buffer, {hi}),
           discard |-> Only(buffer, {lo})]
Sample == [uses |-> {buffer, image}, explicit |-> {}, target |-> {},
           needs |-> Only(buffer, {lo}), gain |-> None, discard |-> None]
Rebuild == [uses |-> {buffer}, explicit |-> {buffer}, target |-> {buffer},
            needs |-> None, gain |-> Only(buffer, {lo, hi}), discard |-> None]
Restore == [uses |-> {image}, explicit |-> {}, target |-> {image},
            needs |-> None, gain |-> None, discard |-> None]

MCWork == {Fill, Redraw, Sample, Rebuild, Restore}

Symmetry == Permutations(MCClient)
=============================================================================
