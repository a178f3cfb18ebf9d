--------------------------- MODULE MCKeyContexts ---------------------------
EXTENDS KeyContexts
=============================================================================
