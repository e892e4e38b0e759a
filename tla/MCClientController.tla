------------------------- MODULE MCClientController -------------------------
\* Instances of ClientController for TLC.
EXTENDS ClientController
=============================================================================
