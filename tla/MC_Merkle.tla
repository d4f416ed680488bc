------------------------------ MODULE MC_Merkle ------------------------------
EXTENDS Merkle

CONSTANTS D1, D2

MC_Items == {D1, D2}
=============================================================================
