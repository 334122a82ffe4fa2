----------------------------- MODULE MCHeapRust -----------------------------
EXTENDS HeapRust
=============================================================================
