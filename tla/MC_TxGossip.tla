----------------------------- MODULE MC_TxGossip -----------------------------
(* Two worker threads.  The generator builds A1 and A2; the peer knows P1, *)
(* correctly signed, and P2, whose signature fails.                        *)
EXTENDS TxGossip

CONSTANTS W1, W2, A1, A2, P1, P2
=============================================================================
