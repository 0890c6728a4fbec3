--------------------------- MODULE MCRepoDeletion ---------------------------
EXTENDS RepoDeletion
==============================================================================
