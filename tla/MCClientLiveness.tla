-------------------------- MODULE MCClientLiveness --------------------------
EXTENDS ClientLiveness
=============================================================================
