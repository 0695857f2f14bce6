--------------------------- MODULE MCLocalSnapshot ---------------------------
EXTENDS LocalSnapshot
=============================================================================
