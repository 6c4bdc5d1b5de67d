-------------------------- MODULE MCClientSession --------------------------
EXTENDS ClientSession
=============================================================================
