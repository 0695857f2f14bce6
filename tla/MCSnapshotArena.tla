--------------------------- MODULE MCSnapshotArena ---------------------------
EXTENDS SnapshotArena
=============================================================================
