------------------------------ MODULE MCModelCalls ------------------------------
\* A call of a run and a search on the server's loop, and a chat.
EXTENDS ModelCalls

CONSTANTS r, s, t, server, w1, w2

MCLoopOf == [c \in Call |-> server]
=============================================================================
