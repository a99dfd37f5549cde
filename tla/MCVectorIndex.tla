---------------------------- MODULE MCVectorIndex ----------------------------
EXTENDS VectorIndex
=============================================================================
