------------------------------- MODULE MCHub -------------------------------
EXTENDS Hub

CONSTANTS a1, a2, u

\* Two connections of one user: one is matched, the other joins by itself.
MCConn == {a1, a2}
MCUser == {u}
MCUserOf == [c \in MCConn |-> u]
MCSends == [c \in MCConn |-> IF c = a1 THEN {"match"} ELSE {"join", "leave", "move"}]
=============================================================================
