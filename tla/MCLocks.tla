------------------------------ MODULE MCLocks ------------------------------
EXTENDS Locks

CONSTANTS r1, r2, hub, c1, c2, l1

MCRoom == {r1, r2}
=============================================================================
