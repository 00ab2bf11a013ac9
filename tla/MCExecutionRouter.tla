------------------------- MODULE MCExecutionRouter -------------------------
EXTENDS ExecutionRouter, TLC

\* No action tells one signal from another.
SignalSymmetry == Permutations(Signals)
=============================================================================
