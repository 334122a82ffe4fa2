--------------------------- MODULE MCBootRecovery ---------------------------
EXTENDS BootRecovery
=============================================================================
