----------------------------- MODULE MCExecutor -----------------------------
EXTENDS Executor
=============================================================================
