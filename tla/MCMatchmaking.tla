--------------------------- MODULE MCMatchmaking ---------------------------
EXTENDS Matchmaking

CONSTANTS c1, c2, c3, r1, r2

MCClient == {c1, c2, c3}
=============================================================================
