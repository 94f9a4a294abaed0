------------------------------ MODULE MCSurface ------------------------------
(* Two threads share one window surface.                                       *)
EXTENDS Surface, TLC

CONSTANTS t1, t2, window, small, large

Threads == {t1, t2}
Windows == {window}
Configurations == {small, large}
SmallOrLarge == window :> {small, large}
OneSize == {small}
SmallOnly == window :> {small}
Symmetry == Permutations(Threads)
=============================================================================
