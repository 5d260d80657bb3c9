------------------------ MODULE MCPropagationBatch -------------------------
EXTENDS PropagationBatch

\* Everything that cannot make a task count twice.
SafeFaults == FaultKinds \ Overcounting

\* Lost workers, double counting and lost keys, but no lost decrement.
RecoveredFaults ==
  {"softLimit", "softAfterCount", "crash", "crashAfterCount", "expiry"}

=============================================================================
