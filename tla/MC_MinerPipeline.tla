------------------------- MODULE MC_MinerPipeline -------------------------
(* Node 0, which holds the ICO, with its miner, miner worker and generator; *)
(* peers that may send two empty blocks (a longer fork than one mined      *)
(* block) and push two transactions: one spending an output its signer does  *)
(* not own, and one spending an output of the generator's first          *)
(* transaction.                                                          *)
EXTENDS MinerPipeline

CONSTANTS G, Zero, K0, K1, K2, Addr0, Addr1, Addr2, T, M1, M2, R1, R2

MC_AddressOf == (K0 :> Addr0) @@ (K1 :> Addr1) @@ (K2 :> Addr2)

\* The generator's first transaction: the ICO split between the peers.
TxGen == Signed(<<ICO>>, PassCheck(100, <<Addr1, Addr2>>), K0)

MC_RemoteBlocks ==
    (R1 :> [parent |-> G, difficulty |-> T, powOk |-> TRUE, content |-> <<>>])
    @@ (R2 :> [parent |-> R1, difficulty |-> T, powOk |-> TRUE,
               content |-> <<>>])

MC_PeerTxs ==
    { Signed(<<ICO>>, <<[recipient_addr |-> Addr1, value |-> 100]>>, K1),
      Signed(<<<<TxGen, 0>>>>, <<[recipient_addr |-> Addr0, value |-> 33]>>,
             K1) }

\* u32 arithmetic: 2^32 in the code, 2^16 here (TLC's integers are 32-bit
\* signed); every value of the run stays far below it.
MC_U32 == 2^16

MC_InitialState == NewState(K0)

MC_PeerAddrs == <<Addr1, Addr2>>

\* Any owned entry may come first in HashMap iteration.
MC_FirstAny(owned) == owned

\* A peer pays this node a zero-valued and a 33-valued output, spending the
\* first output of the generator's first transaction.
TxZero == Signed(<<<<TxGen, 0>>>>, <<[recipient_addr |-> Addr0, value |-> 0],
                                     [recipient_addr |-> Addr0, value |-> 33]>>,
                 K1)

MC_PeerTxsZero == {TxZero}

\* A HashMap order that yields the zero-valued entry before the other.
MC_FirstZero(owned) ==
    IF <<TxZero, 0>> \in owned THEN {<<TxZero, 0>>} ELSE owned

MC_NoRemoteBlocks == <<>>

\* Two blocks found: enough for the second to be mined on a stale tip.
MC_MinedHashes == <<M1, M2>>
=============================================================================
