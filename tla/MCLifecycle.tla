----------------------------- MODULE MCLifecycle -----------------------------
EXTENDS Lifecycle
=============================================================================
