------------------------------ MODULE ApiRead ------------------------------
(***************************************************************************)
(* The read endpoints of the HTTP API (src/api/mod.rs) that walk the chain *)
(* step by step, each get() under its own acquisition of the store's lock, *)
(* while the gossip workers of BlockSync insert blocks and write the state  *)
(* index:                                                                  *)
(*   /blockchain/state?block=N    the state index entry of the block at    *)
(*                                height N below the tip;                  *)
(*   /blockchain/longest-chain-tx the contents of the blocks from genesis  *)
(*                                to the tip.                              *)
(*   /blockchain/longest-chain    all_blocks_in_longest_chain under one    *)
(*                                lock.                                    *)
(* The answer is the value the code serialises; the JSON text is not     *)
(* modelled.                                                               *)
(***************************************************************************)
EXTENDS BlockSync

CONSTANTS
    MaxIndex        \* the largest block number a request names

VARIABLES
    aPc,            \* "idle", "tip", "entry", "walk", "done" or "panicked"
    aKind,          \* "state", "chainTx" or "chain"
    aN,             \* block_index, the request's block number
    aTip,           \* the tip read at the start
    aBlock,         \* block: the block the walk holds
    aHash,          \* next_hash
    aHeight,        \* height
    aOut            \* the answer: a State, or the list of block contents

apiVars == <<aPc, aKind, aN, aTip, aBlock, aHash, aHeight, aOut>>

\* A request on a new thread: the endpoint and, for the state endpoint, a
\* block number that parses as a u32.  A request with a missing or
\* unparsable number, and the endpoints that read nothing of the store
\* (/network/ping, longest-chain-tx-count, an unknown path), answer
\* without touching shared state and are left out.  Request threads share
\* nothing, so one request, starting at any point of the gossip run, shows
\* every interleaving of a reader with the writers.
ApiRequest ==
    /\ aPc = "idle"
    /\ \/ aKind' = "state" /\ aN' \in 0 .. MaxIndex
       \/ aKind' \in {"chainTx", "chain"} /\ aN' = 0
    /\ aPc' = "tip"
    /\ UNCHANGED <<aTip, aBlock, aHash, aHeight, aOut>>

\* /blockchain/longest-chain: all_blocks_in_longest_chain() under one
\* acquisition of the store's lock.
ApiLongestChain ==
    /\ aPc = "tip"
    /\ aKind = "chain"
    /\ aTip' = tip
    /\ aOut' = Store!AllBlocksInLongestChain
    /\ aPc' = "done"
    /\ UNCHANGED <<aKind, aN, aBlock, aHash, aHeight>>

\* let tip = blockchain.lock().unwrap().tip();
ApiReadTip ==
    /\ aPc = "tip"
    /\ aKind \in {"state", "chainTx"}
    /\ aTip' = tip
    /\ aPc' = "entry"
    /\ UNCHANGED <<aKind, aN, aBlock, aHash, aHeight, aOut>>

\* The state endpoint: blocks.get(&tip).unwrap().clone() under a second
\* lock gives the block and its height; next_hash starts at the tip.
StateEntry ==
    /\ aPc = "entry"
    /\ aKind = "state"
    /\ aBlock' = aTip
    /\ aHeight' = blocks[aTip].height
    /\ aHash' = aTip
    /\ aPc' = "walk"
    /\ UNCHANGED <<aKind, aN, aTip, aOut>>

\* The chain endpoint: the same get, then the tip's transactions are
\* pushed and next_hash is its parent.
ChainTxEntry ==
    /\ aPc = "entry"
    /\ aKind = "chainTx"
    /\ aBlock' = aTip
    /\ aHeight' = blocks[aTip].height
    /\ aHash' = Parent[aTip]
    /\ aOut' = << Content[aTip] >>
    /\ aPc' = "walk"
    /\ UNCHANGED <<aKind, aN, aTip>>

\* The state endpoint's loop condition with >= for >.
WalkOnGe == aHeight >= aN

\* The state endpoint's loop condition: while height > block_index.
WalkOn == aHeight > aN

\* get().unwrap() of a hash the store lacks panics the request thread.
Panic ==
    /\ aPc' = "panicked"
    /\ UNCHANGED <<aBlock, aHash, aOut, aHeight>>

\* One iteration of the state endpoint's loop, under its own lock:
\* next_hash = block.head.parent, block = get(&next_hash).unwrap().
StateWalkStep ==
    /\ aPc = "walk"
    /\ aKind = "state"
    /\ WalkOn
    /\ LET h == Parent[aBlock]
       IN  IF h \in DOMAIN blocks
           THEN /\ aBlock' = h
                /\ aHash' = h
                /\ aHeight' = aHeight - 1
                /\ UNCHANGED <<aPc, aOut>>
           ELSE Panic
    /\ UNCHANGED <<aKind, aN, aTip>>

\* One iteration of the chain endpoint's loop (while height >= 1), under
\* its own lock: get(&next_hash).unwrap(), push its transactions, move
\* next_hash to its parent.
ChainTxWalkStep ==
    /\ aPc = "walk"
    /\ aKind = "chainTx"
    /\ aHeight >= 1
    /\ IF aHash \in DOMAIN blocks
       THEN /\ aBlock' = aHash
            /\ aHash' = Parent[aHash]
            /\ aOut' = Append(aOut, Content[aHash])
            /\ aHeight' = aHeight - 1
            /\ UNCHANGED aPc
       ELSE Panic
    /\ UNCHANGED <<aKind, aN, aTip>>

\* After the state endpoint's loop: block_state.get(&next_hash).unwrap()
\* under the state index's lock.
StateDone ==
    /\ aPc = "walk"
    /\ aKind = "state"
    /\ ~WalkOn
    /\ IF aHash \in DOMAIN blockState
       THEN /\ aOut' = blockState[aHash]
            /\ aPc' = "done"
       ELSE /\ aPc' = "panicked"
            /\ UNCHANGED aOut
    /\ UNCHANGED <<aKind, aN, aTip, aBlock, aHash, aHeight>>

\* After the chain endpoint's loop: hashes_string.reverse().
ChainTxDone ==
    /\ aPc = "walk"
    /\ aKind = "chainTx"
    /\ aHeight < 1
    /\ aOut' = Reverse(aOut)
    /\ aPc' = "done"
    /\ UNCHANGED <<aKind, aN, aTip, aBlock, aHash, aHeight>>

ApiStep ==
    \/ ApiRequest \/ ApiLongestChain \/ ApiReadTip
    \/ StateEntry \/ StateWalkStep \/ StateDone
    \/ ChainTxEntry \/ ChainTxWalkStep \/ ChainTxDone

ApiInit ==
    /\ Init
    /\ aPc = "idle"
    /\ aKind = "state"
    /\ aN = 0
    /\ aTip = Genesis
    /\ aBlock = Genesis
    /\ aHash = Genesis
    /\ aHeight = 0
    /\ aOut = << >>

ApiNext ==
    \/ Next /\ UNCHANGED apiVars
    \/ ApiStep /\ UNCHANGED vars

ApiSpec == ApiInit /\ [][ApiNext]_<<vars, apiVars>>

\* The gossip pool's fairness (BlockSync's Fairness); a request thread may
\* stop anywhere, as an HTTP client may never send another request.
ApiFairSpec == ApiSpec /\ Fairness

-----------------------------------------------------------------------------

\* The blocks from genesis to b, following Parent.
RECURSIVE ChainTo(_)
ChainTo(b) == IF b = Genesis THEN << Genesis >> ELSE ChainTo(Parent[b]) \o << b >>

\* No read endpoint panics, though the workers insert blocks and write the
\* state index between the reader's lock acquisitions: every block the walk
\* reaches is stored, and every stored block has its state index entry.
ApiNeverPanics == aPc # "panicked"

\* A finished request answers for the chain of the tip it read, however
\* far the tip has moved since: the state endpoint gives the state of that
\* chain's block at height N (the tip's own when N is above it), as the
\* blocks' transactions define it; the chain-tx endpoint lists the contents
\* of that chain's blocks, and the longest-chain endpoint its hashes,
\* genesis first.
ApiAnswersMatchTipRead ==
    aPc = "done" =>
        LET c == ChainTo(aTip)
        IN  CASE aKind = "state" ->
                    aOut = StateAt(c[IF aN < Len(c) THEN aN + 1 ELSE Len(c)])
              [] aKind = "chainTx" -> aOut = [i \in 1 .. Len(c) |-> Content[c[i]]]
              [] aKind = "chain" -> aOut = c
=============================================================================
