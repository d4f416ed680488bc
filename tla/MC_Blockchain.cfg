CONSTANTS
    G = G
    H1 = H1
    H2 = H2
    H3 = H3
    H4 = H4
    H5 = H5
    Zero = Zero
    Genesis <- G
    NoHash <- Zero
    Hashes = {G, H1, H2, H3, H4, H5}
SPECIFICATION Spec
INVARIANTS
    TypeOK
    TipIsHighest
    LongestChainIsPath
