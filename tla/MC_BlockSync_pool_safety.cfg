CONSTANTS
    G = G   B1 = B1   B2 = B2   C1 = C1   C2 = C2   E1 = E1   X1 = X1   D1 = D1   V1 = V1   Zero = Zero
    K0 = K0   K1 = K1   K2 = K2   Addr0 = Addr0   Addr1 = Addr1   Addr2 = Addr2
    T = T   Easy = Easy   W1 = W1   W2 = W2
    Workers = {W1, W2}
    Genesis <- G
    NoHash <- Zero
    ZeroHash <- Zero
    U32 <- MC_U32
    Parent <- MC_Parent
    Difficulty <- MC_Difficulty
    PowOk <- MC_PowOk
    Content <- MC_Content
    AddressOf <- MC_AddressOf
    InitialState <- MC_InitialState
    PeerBlocks <- MC_PeerBlocks
    Announcements <- MC_Announcements
SPECIFICATION Spec
INVARIANTS
    StateIndexCoversChain
    ValueConserved
PROPERTIES
    ImplementsValidChain
CHECK_DEADLOCK FALSE
