----------------------------- MODULE MCIoPool -----------------------------
EXTENDS IoPool
=============================================================================
