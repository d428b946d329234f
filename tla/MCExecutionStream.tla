------------------------- MODULE MCExecutionStream --------------------------
\* Instances of ExecutionStream for TLC; the values are in the configurations.
EXTENDS ExecutionStream
=============================================================================
