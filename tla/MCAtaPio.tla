------------------------------ MODULE MCAtaPio ------------------------------
EXTENDS AtaPio
=============================================================================
