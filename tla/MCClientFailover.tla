-------------------------- MODULE MCClientFailover --------------------------
EXTENDS ClientFailover
=============================================================================
