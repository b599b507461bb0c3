----------------------------- MODULE MCStrategies -----------------------------
(* A small instance of Strategies for TLC. *)
EXTENDS Strategies

\* A market order fills in full or not at all; a hedge ratio may round to nothing.
AllOrNothing(n) == {0, n}
RoundedRatios == {-1, 0, 1}
===============================================================================
