--------------------------- MODULE MCNewCardEmoji ---------------------------
(* Instances of NewCardEmoji for TLC: hours are counted in units of 72.  *)
EXTENDS NewCardEmoji, TLC

Symmetry == Permutations(Posts) \cup Permutations(Processors)
=============================================================================
