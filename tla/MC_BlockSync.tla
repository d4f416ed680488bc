--------------------------- MODULE MC_BlockSync ---------------------------
(* One peer holding two forks off genesis and two blocks every node must   *)
(* reject.  Branch b: b1 spends the ICO (as the generator would), b2        *)
(* spends b1's first output.  Branch c: c1 spends the ICO otherwise, so c2, *)
(* which carries b1's transaction, double-spends on that branch.  e1 meets *)
(* only an easier difficulty than its parent's.  The peer announces b2      *)
(* alone (so b1 arrives as an orphan's parent), c1 with c2, e1, and x1,    *)
(* whose transaction pays out more than the ICO it spends.  The second      *)
(* universe adds d1, whose transaction lists the ICO outpoint twice; the   *)
(* third v1, whose two outputs sum to U32 + 100 and so to 100 in u32.      *)
(* U32 is 2^16 here rather than 2^32, which TLC's integers cannot hold;    *)
(* every other value stays far below it.                                   *)
EXTENDS BlockSync

CONSTANTS G, B1, B2, C1, C2, E1, X1, D1, V1, Zero, K0, K1, K2, Addr0, Addr1, Addr2,
          T, Easy, W1, W2

MC_AddressOf == (K0 :> Addr0) @@ (K1 :> Addr1) @@ (K2 :> Addr2)

TxB1 == Signed(<<ICO>>, PassCheck(100, <<Addr1, Addr2>>), K0)
TxB2 == Signed(<<<<TxB1, 0>>>>, PassCheck(33, <<Addr0, Addr2>>), K1)
TxC1 == Signed(<<ICO>>, <<[recipient_addr |-> Addr2, value |-> 100]>>, K0)
TxX1 == Signed(<<ICO>>, <<[recipient_addr |-> Addr0, value |-> 101]>>, K0)
TxD1 == Signed(<<ICO, ICO>>, <<[recipient_addr |-> Addr0, value |-> 200]>>, K0)

MC_U32 == 2^16

TxV1 == Signed(<<ICO>>, <<[recipient_addr |-> Addr1, value |-> MC_U32 - 1],
                          [recipient_addr |-> Addr2, value |-> 101]>>, K0)

MC_Parent == (G :> Zero) @@ (B1 :> G) @@ (B2 :> B1) @@ (C1 :> G)
                @@ (C2 :> C1) @@ (E1 :> G) @@ (X1 :> G) @@ (D1 :> G)
                @@ (V1 :> G)
MC_Difficulty == [b \in DOMAIN MC_Parent |-> IF b = E1 THEN Easy ELSE T]
MC_PowOk == [b \in DOMAIN MC_Parent |-> b # G]
MC_Content == (G :> <<>>) @@ (B1 :> <<TxB1>>) @@ (B2 :> <<TxB2>>)
                @@ (C1 :> <<TxC1>>) @@ (C2 :> <<TxB1>>) @@ (E1 :> <<>>)
                @@ (X1 :> <<TxX1>>) @@ (D1 :> <<TxD1>>)
                @@ (V1 :> <<TxV1>>)
MC_InitialState == NewState(K0)
MC_PeerBlocks == {B1, B2, C1, C2, E1, X1}
MC_Announcements == {<<B2>>, <<C1, C2>>, <<E1>>, <<X1>>}
MC_PeerBlocksOvercount == {B1, D1, V1}
MC_AnnouncementsOvercount == {<<B1>>, <<D1>>, <<V1>>}
=============================================================================
