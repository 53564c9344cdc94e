--------------------------- MODULE MCDrizzleBuffer ---------------------------
EXTENDS DrizzleBuffer
=============================================================================
