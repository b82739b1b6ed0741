------------------------- MODULE MCExecutionSession -------------------------
\* A session small enough for TLC.  The worklist holds a unit of several encode
\* tasks, units of one, and a last one of none (a unit that only removes files);
\* three workers, so that two units beside the head can fail while it commits.
EXTENDS ExecutionSession

MCNumUnits == 5
MCTasks == <<1, 2, 1, 1, 0>>
MCWindow == 3
=============================================================================
