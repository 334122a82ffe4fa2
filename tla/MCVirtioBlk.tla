---------------------------- MODULE MCVirtioBlk ----------------------------
EXTENDS VirtioBlk
=============================================================================
