----------------------------- MODULE ValidChain -----------------------------
(***************************************************************************)
(* What the node promises of its blockchain store and its per-block state  *)
(* index (spec sections 3 and 4.6-4.7): a block joins the store only when  *)
(* its parent is stored, its hash meets its header difficulty, that        *)
(* difficulty equals the parent's, and its transactions are valid in order *)
(* against the parent's state; the state recorded for it is the parent's   *)
(* after those transactions.  Both block-accepting paths of the code (the  *)
(* gossip worker and the miner worker) are checked to implement it.        *)
(***************************************************************************)
EXTENDS Ledger

CONSTANTS
    Genesis, NoHash, Hashes,
    InitialState    \* the state main.rs records for the genesis block

VARIABLES
    blocks, tip,    \* the blockchain store
    stateOf,        \* the per-block state index
    blockData       \* hash |-> [parent, difficulty, powOk, content] of every
                    \* block that exists anywhere; an input this spec reads
                    \* and never constrains

Store == INSTANCE Blockchain

\* Accepting b: the checks of the Blocks handler and check_tx_state, then
\* Blockchain::insert and the state index entry for b.
Accept(b) ==
    LET d == blockData[b]
        r == CheckTxState(stateOf[d.parent], d.content)
    IN  /\ d.parent \in DOMAIN blocks
        /\ d.powOk
        /\ d.difficulty = blockData[d.parent].difficulty
        /\ r.valid
        /\ stateOf' = (b :> r.state) @@ stateOf
        /\ Store!Insert(b, d.parent)

Init ==
    /\ Store!New
    /\ stateOf = (Genesis :> InitialState)

Next == \E b \in DOMAIN blockData \ {Genesis} : Accept(b)

Spec == Init /\ [][Next]_<<blocks, tip, stateOf>>
=============================================================================
