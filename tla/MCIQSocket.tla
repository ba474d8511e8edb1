----------------------------- MODULE MCIQSocket -----------------------------
\* IQSocket with an address for every client.
EXTENDS IQSocket

MCAddress == [c \in Conns |-> c]
=============================================================================
