------------------------------ MODULE MCChannel ------------------------------
EXTENDS ChannelRefinement
=============================================================================
