----------------------------- MODULE MCManager -----------------------------
EXTENDS Manager

CONSTANTS r1, r2

MCRoom == {r1, r2}
=============================================================================
