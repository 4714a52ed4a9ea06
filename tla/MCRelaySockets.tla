---------------------------- MODULE MCRelaySockets ----------------------------
EXTENDS RelaySockets
=============================================================================
