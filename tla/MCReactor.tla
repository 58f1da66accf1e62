------------------------------ MODULE MCReactor ------------------------------
EXTENDS Reactor
=============================================================================
