CONSTANTS
    D1 = D1
    D2 = D2
    Zero = Zero
    Items <- MC_Items
    MaxLeaves = 8
SPECIFICATION Spec
INVARIANTS
    TypeOK
    RootMatchesSpec
    ProofRoundTrip
    RootCommitsToLeaves
\* MerkleTree::new returns: the loop's final state has no successor.
CHECK_DEADLOCK FALSE
