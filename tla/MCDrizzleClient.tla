-------------------------- MODULE MCDrizzleClient --------------------------
EXTENDS DrizzlePackets
=============================================================================
