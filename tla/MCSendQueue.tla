---------------------------- MODULE MCSendQueue ----------------------------
EXTENDS SendQueue
=============================================================================
