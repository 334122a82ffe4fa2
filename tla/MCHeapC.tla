------------------------------ MODULE MCHeapC ------------------------------
EXTENDS HeapC
=============================================================================
