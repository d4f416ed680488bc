CONSTANTS
    G = G
    Zero = Zero
    K0 = K0
    K1 = K1
    K2 = K2
    Addr0 = Addr0
    Addr1 = Addr1
    Addr2 = Addr2
    T = T
    M1 = M1
    M2 = M2
    R1 = R1
    R2 = R2
    Genesis <- G
    NoHash <- Zero
    ZeroHash <- Zero
    U32 <- MC_U32
    AddressOf <- MC_AddressOf
    NodeKey <- K0
    PeerAddrs <- MC_PeerAddrs
    MinedHashes <- MC_MinedHashes
    Difficulty <- T
    RemoteBlocks <- MC_NoRemoteBlocks
    PeerTxs <- MC_PeerTxsZero
    InitialState <- MC_InitialState
    BlockSize = 2
    FirstOf <- MC_FirstZero
SPECIFICATION LiveSpec
PROPERTY
    GeneratorSpendsOwned
CHECK_DEADLOCK FALSE
