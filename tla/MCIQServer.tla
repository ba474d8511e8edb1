----------------------------- MODULE MCIQServer -----------------------------
\* IQServer with an address for every client.
EXTENDS IQServer

MCAddress == [c \in Conns |-> c]
=============================================================================
