--------------------------- MODULE MCEmailTokens ---------------------------
EXTENDS EmailTokens
CONSTANTS c1, c2
=============================================================================
