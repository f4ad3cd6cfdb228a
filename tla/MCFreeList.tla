----------------------------- MODULE MCFreeList ------------------------------
EXTENDS FreeList
=============================================================================
