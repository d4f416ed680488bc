----------------------------- MODULE Blockchain -----------------------------
(***************************************************************************)
(* The blockchain store of src/blockchain/mod.rs: a map from block hash to *)
(* (block, height) and the hash of the tip.  Of a stored block the store   *)
(* only reads its parent, so an entry is [parent, height].                 *)
(***************************************************************************)
EXTENDS Naturals, Sequences, SequencesExt

CONSTANTS
    Genesis,    \* hash of the fixed genesis block
    NoHash,     \* the all-zeros hash, parent field of the genesis block
    Hashes      \* the block hashes that can occur

VARIABLES
    blocks,     \* HashMap<H256, (Block, u32)>: hash |-> [parent, height]
    tip         \* hash of the last block of the longest chain

vars == <<blocks, tip>>

Entry(p, h) == [parent |-> p, height |-> h]

\* Faulty variants of New, Insert and Walk, each a plausible slip in the
\* code, that the properties below are required to detect.
NewZeroTip ==
    /\ blocks = (Genesis :> Entry(NoHash, 0))
    /\ tip = NoHash

InsertAgainstParent(b, p) ==
    /\ p \in DOMAIN blocks
    /\ LET height == blocks[p].height + 1
       IN  /\ blocks' = (b :> Entry(p, height)) @@ blocks
           /\ tip' = IF height > blocks[p].height THEN b ELSE tip

InsertTieMoves(b, p) ==
    /\ p \in DOMAIN blocks
    /\ LET height == blocks[p].height + 1
       IN  /\ blocks' = (b :> Entry(p, height)) @@ blocks
           /\ tip' = IF height >= blocks[tip].height THEN b ELSE tip

RECURSIVE WalkShort(_, _)
WalkShort(next, height) ==
    IF height > 1 THEN <<next>> \o WalkShort(blocks[next].parent, height - 1)
                  ELSE <<>>

\* Blockchain::new(): only the genesis block, at height 0, is stored.
New ==
    /\ blocks = (Genesis :> Entry(NoHash, 0))
    /\ tip = Genesis

\* Blockchain::insert(block), block b with header parent p: the height is
\* the parent's plus one; the entry is (over)written; the tip moves only to
\* a strictly higher block.  The unwrap on the parent's entry makes a
\* stored parent a precondition.
Insert(b, p) ==
    /\ p \in DOMAIN blocks
    /\ LET height == blocks[p].height + 1
       IN  /\ blocks' = (b :> Entry(p, height)) @@ blocks
           /\ tip' = IF height > blocks[tip].height THEN b ELSE tip

\* The loop of all_blocks_in_longest_chain after the tip has been pushed:
\* push next_hash and step to its parent while height >= 1.
RECURSIVE Walk(_, _)
Walk(next, height) ==
    IF height >= 1 THEN <<next>> \o Walk(blocks[next].parent, height - 1)
                   ELSE <<>>

\* Blockchain::all_blocks_in_longest_chain(), genesis first.
AllBlocksInLongestChain ==
    Reverse(<<tip>> \o Walk(blocks[tip].parent, blocks[tip].height))

Init == New

\* Any block over any stored parent, as the insert1000 test does; a hash
\* fixes its header, so a stored hash is only ever re-inserted with the
\* same parent.
Next ==
    \E b \in Hashes \ {Genesis}, p \in DOMAIN blocks :
        /\ b \in DOMAIN blocks => blocks[b].parent = p
        /\ Insert(b, p)

Spec == Init /\ [][Next]_vars

-----------------------------------------------------------------------------

TypeOK ==
    /\ DOMAIN blocks \subseteq Hashes
    /\ blocks \in [DOMAIN blocks -> [parent : Hashes \cup {NoHash}, height : Nat]]
    /\ tip \in DOMAIN blocks

\* The tip is a stored block and no stored block is higher (insert's strict
\* comparison against the current tip's height).
TipIsHighest ==
    \A b \in DOMAIN blocks : blocks[b].height <= blocks[tip].height

\* all_blocks_in_longest_chain walks from the tip to the genesis block: it
\* starts at genesis, ends at the tip, has height(tip)+1 entries and every
\* entry is the parent of the next one.
LongestChainIsPath ==
    LET c == AllBlocksInLongestChain
    IN  /\ c[1] = Genesis
        /\ c[Len(c)] = tip
        /\ Len(c) = blocks[tip].height + 1
        /\ \A i \in 1..Len(c) - 1 : blocks[c[i + 1]].parent = c[i]

=============================================================================
