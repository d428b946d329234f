---------------------------- MODULE MCExecution -----------------------------
\* Instances of ExecutionRegistry for TLC; the values are in the configurations.
EXTENDS ExecutionRegistry
=============================================================================
