----------------------------- MODULE MCTimers -----------------------------
EXTENDS Timers
=============================================================================
