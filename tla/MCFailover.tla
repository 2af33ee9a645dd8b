----------------------------- MODULE MCFailover -----------------------------
EXTENDS DetectorRefinement
=============================================================================
