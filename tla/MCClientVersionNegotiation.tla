--------------------- MODULE MCClientVersionNegotiation ---------------------
EXTENDS ClientVersionNegotiation
=============================================================================
