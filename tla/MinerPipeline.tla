---------------------------- MODULE MinerPipeline ----------------------------
(***************************************************************************)
(* The block-producing side of one node: the miner thread                 *)
(* (src/miner/mod.rs), the miner worker thread that validates and stores  *)
(* what the miner finds (src/miner/worker.rs), the transaction generator  *)
(* thread (src/generator/tx_generator.rs), the mempool they share, and the *)
(* Transactions handler of the gossip worker (src/network/worker.rs) that *)
(* lets a peer push transactions into the mempool.                         *)
(*                                                                         *)
(* Blocks from peers reach the store through the gossip worker; BlockSync  *)
(* shows that path implements ValidChain, so here a peer block is accepted *)
(* in one step with exactly ValidChain's checks.                            *)
(*                                                                         *)
(* Each thread's step ends where it releases the locks it took: a failed  *)
(* proof-of-work attempt changes nothing and is not a step.  The           *)
(* NewBlockHashes and NewTransactionHashes broadcasts are sends to peers   *)
(* and change no state of this node; they are left out.                  *)
(***************************************************************************)
EXTENDS Ledger, FiniteSetsExt

CONSTANTS
    Genesis, NoHash,
    NodeKey,        \* this node's key pair (public_key_gen(index))
    PeerAddrs,      \* <<a, b>>: the generator's peer_addrs
    MinedHashes,    \* the hashes of the blocks the miner finds, in order;
                    \* its length bounds the number of blocks mined
    Difficulty,     \* the difficulty the miner writes in every header
    RemoteBlocks,   \* hash |-> [parent, difficulty, powOk, content] of the
                    \* blocks peers may send
    PeerTxs,        \* signed transactions a peer may push (Transactions)
    InitialState,   \* the genesis entry of the state index (main.rs)
    BlockSize,      \* block_size of the miner's batch (50 in the code)
    FirstOf(_)      \* the entries of a set of owned outpoints that HashMap
                    \* iteration can yield first

VARIABLES
    blocks, tip,    \* the shared blockchain store
    blockState,     \* the shared state index HashMap<H256, State>
    mempool,        \* Mempool.trans: the set of pooled signed transactions
    minerState,     \* the miner's OperatingState
    batch,          \* the miner's transaction / to_remove vectors
    minedData,      \* header and content of every block the miner found
    chan,           \* finished_block_chan: hashes sent, not yet received
    sentLog,        \* every hash sent on finished_block_chan, in order
    mwPc,           \* miner worker: "idle", or "insert" after the state write
    mwBlock,        \* miner worker: the block between the two steps
    genState,       \* the generator's OperatingState
    prevTip,        \* the generator's prev_tip
    genUtxo,        \* the generator's local copy of the state at prev_tip
    generated       \* every transaction the generator has built

storeVars == <<blocks, tip, blockState>>
minerVars == <<minerState, batch, minedData, chan, sentLog>>
mwVars    == <<mwPc, mwBlock>>
genVars   == <<genState, prevTip, genUtxo, generated>>
vars == <<storeVars, mempool, minerVars, mwVars, genVars>>

\* Every block hash that can occur.
BlockHashes == {Genesis} \cup DOMAIN RemoteBlocks \cup ToSet(MinedHashes)

Store == INSTANCE Blockchain WITH Hashes <- BlockHashes

GenesisData ==
    [parent |-> NoHash, difficulty |-> Difficulty, powOk |-> TRUE,
     content |-> <<>>]

\* Header and content of every block that exists so far.
BlockData == (Genesis :> GenesisData) @@ minedData @@ RemoteBlocks

MyAddr == AddressOf[NodeKey]

-----------------------------------------------------------------------------
(* Control signals from the API (/miner/start, /tx-generator/start): the   *)
(* Start signal as the paused loops react to it.  Start to a running loop  *)
(* changes nothing; Exit is sent by no code (the miner's Handle::exit has  *)
(* no caller, the generator has none) and Update is a no-op.              *)

MinerStart ==
    /\ minerState = "Paused"
    /\ minerState' = "Run"
    /\ UNCHANGED <<storeVars, mempool, batch, minedData, chan, sentLog,
                   mwVars, genVars>>

GenStart ==
    /\ genState = "Paused"
    /\ genState' = "Run"
    /\ UNCHANGED <<storeVars, mempool, minerVars, mwVars, prevTip, genUtxo,
                   generated>>

-----------------------------------------------------------------------------
(* The miner thread, Context::miner_loop.                                  *)

\* A faulty variant of the drain, a plausible slip in the code, that the
\* properties below are required to detect: the block_size break is lost.
MinerDrainNoLimit ==
    /\ minerState = "Run"
    /\ batch = <<>>
    /\ mempool # {}
    /\ \E order \in SetToSeqs(mempool) : batch' = order
    /\ UNCHANGED <<storeVars, mempool, minerState, minedData, chan, sentLog,
                   mwVars, genVars>>

\* With to_remove empty, the loop copies up to block_size transactions of
\* the mempool, in HashMap iteration order, into its batch; they stay in
\* the mempool while it mines.
MinerDrain ==
    /\ minerState = "Run"
    /\ batch = <<>>
    /\ mempool # {}
    /\ \E s \in kSubset(Min({BlockSize, Cardinality(mempool)}), mempool) :
          \E order \in SetToSeqs(s) : batch' = order
    /\ UNCHANGED <<storeVars, mempool, minerState, minedData, chan, sentLog,
                   mwVars, genVars>>

\* An iteration whose nonce meets the difficulty: the header's parent is
\* the store's tip read now, the block is sent on finished_block_chan, the
\* batch is removed from the mempool and cleared.  An iteration that finds
\* the batch empty while the mempool is not drains first (MinerDrain).
MinerFound ==
    /\ minerState = "Run"
    /\ batch # <<>> \/ mempool = {}
    /\ Len(sentLog) < Len(MinedHashes)
    /\ LET h == MinedHashes[Len(sentLog) + 1]
       IN  /\ minedData' = (h :> [parent |-> tip, difficulty |-> Difficulty,
                                  powOk |-> TRUE, content |-> batch])
                           @@ minedData
           /\ chan' = Append(chan, h)
           /\ sentLog' = Append(sentLog, h)
    /\ mempool' = mempool \ ToSet(batch)
    /\ batch' = <<>>
    /\ UNCHANGED <<storeVars, minerState, mwVars, genVars>>

-----------------------------------------------------------------------------
(* The miner worker thread, Worker::worker_loop of src/miner/worker.rs.    *)

\* The state of the store's current tip, in place of the parent's.
BaseStateAtTip(d) == blockState[tip]

\* check_tx_state's starting state: block_state.get(parent_hash).unwrap().
BaseState(d) == blockState[d.parent]

\* A faulty variant of the first step, a plausible slip in the code, that
\* the properties below are required to detect: the result of
\* check_tx_state is ignored and the block is inserted either way.
MinerWorkerValidateIgnoreResult ==
    /\ mwPc = "idle"
    /\ chan # <<>>
    /\ LET h == Head(chan)
           d == minedData[h]
           r == CheckTxState(blockState[d.parent], d.content)
       IN  /\ blockState' = IF r.valid THEN (h :> r.state) @@ blockState
                                       ELSE blockState
           /\ mwPc' = "insert"
           /\ mwBlock' = h
    /\ chan' = Tail(chan)
    /\ UNCHANGED <<blocks, tip, mempool, minerState, batch, minedData,
                   sentLog, genVars>>

\* Receive the next finished block and run check_tx_state against its
\* parent's state, which on success writes the block's state into the
\* state index; an invalid block is dropped.
MinerWorkerValidate ==
    /\ mwPc = "idle"
    /\ chan # <<>>
    /\ LET h == Head(chan)
           d == minedData[h]
           r == CheckTxState(BaseState(d), d.content)
       IN  IF r.valid
           THEN /\ blockState' = (h :> r.state) @@ blockState
                /\ mwPc' = "insert"
                /\ mwBlock' = h
           ELSE UNCHANGED <<blockState, mwPc, mwBlock>>
    /\ chan' = Tail(chan)
    /\ UNCHANGED <<blocks, tip, mempool, minerState, batch, minedData,
                   sentLog, genVars>>

\* Blockchain::insert under the store's lock, then NewBlockHashes.
MinerWorkerInsert ==
    /\ mwPc = "insert"
    /\ Store!Insert(mwBlock, minedData[mwBlock].parent)
    /\ mwPc' = "idle"
    /\ mwBlock' = NoHash
    /\ UNCHANGED <<blockState, mempool, minerVars, genVars>>

-----------------------------------------------------------------------------
(* The generator thread, GeneLoop::generator_loop.                         *)

\* The faulty output split of the commented-out line of Output::pass_check
\* (v1 = rand % balance), a plausible change that the properties below are
\* required to detect.
GenStepRandomSplit ==
    /\ genState = "Run"
    /\ LET snap  == IF tip = prevTip THEN genUtxo ELSE blockState[tip]
           owned == {op \in DOMAIN snap : snap[op].recipient_addr = MyAddr}
       IN  /\ prevTip' = tip
           /\ \/ /\ owned = {} \/ \E op \in FirstOf(owned) : snap[op].value = 0
                 /\ genUtxo' = snap
                 /\ UNCHANGED <<mempool, generated>>
              \/ \E op \in FirstOf(owned), v1 \in {3, 4} :
                   LET balance == snap[op].value
                       tx == Signed(<<op>>,
                               <<[recipient_addr |-> PeerAddrs[1], value |-> v1],
                                 [recipient_addr |-> PeerAddrs[2],
                                  value |-> balance - v1]>>, NodeKey)
                   IN  /\ balance > v1
                       /\ mempool' = mempool \cup {tx}
                       /\ genUtxo' = UpdateState(snap, tx)
                       /\ generated' = generated \cup {tx}
    /\ UNCHANGED <<storeVars, minerVars, mwVars, genState>>

\* One iteration: read the tip; on a new tip replace the local state by
\* the state index entry of the tip.  get_tx_balance takes the first entry
\* in HashMap order owned by this node and breaks; when there is none, or
\* the value of that first one is 0, nothing happens.
\* Otherwise the transaction pass_check builds is signed, inserted into the
\* mempool if absent, announced in NewTransactionHashes, and applied to the
\* local state.
GenStep ==
    /\ genState = "Run"
    /\ LET snap  == IF tip = prevTip THEN genUtxo ELSE blockState[tip]
           owned == {op \in DOMAIN snap : snap[op].recipient_addr = MyAddr}
       IN  /\ prevTip' = tip
           /\ \/ /\ owned = {} \/ \E op \in FirstOf(owned) : snap[op].value = 0
                 /\ genUtxo' = snap
                 /\ UNCHANGED <<mempool, generated>>
              \/ \E op \in FirstOf(owned) :
                   LET balance == snap[op].value
                       tx == Signed(<<op>>, PassCheck(balance, PeerAddrs),
                                    NodeKey)
                   IN  /\ balance # 0
                       /\ mempool' = mempool \cup {tx}
                       /\ genUtxo' = UpdateState(snap, tx)
                       /\ generated' = generated \cup {tx}
    /\ UNCHANGED <<storeVars, minerVars, mwVars, genState>>

-----------------------------------------------------------------------------
(* Peers, through the gossip worker.                                       *)

\* The Transactions handler for a message carrying st: a transaction whose
\* signature verifies is inserted if new and re-announced; no check against
\* any state is made.
RecvTransactions(st) ==
    /\ mempool' = IF st.sigOk THEN mempool \cup {st} ELSE mempool
    /\ UNCHANGED <<storeVars, minerVars, mwVars, genVars>>

\* A peer's block accepted by the Blocks handler, with the checks
\* BlockSync shows that handler makes: new, proof of work, parent stored,
\* difficulty equal to the parent's, transactions valid; the state index
\* entry is written, the block inserted and announced.
RecvBlock(b) ==
    LET d == RemoteBlocks[b]
        r == CheckTxState(blockState[d.parent], d.content)
    IN  /\ b \notin DOMAIN blocks
        /\ d.powOk
        /\ d.parent \in DOMAIN blocks
        /\ d.difficulty = BlockData[d.parent].difficulty
        /\ r.valid
        /\ blockState' = (b :> r.state) @@ blockState
        /\ Store!Insert(b, d.parent)
        /\ UNCHANGED <<mempool, minerVars, mwVars, genVars>>

-----------------------------------------------------------------------------

\* main.rs: the store holds genesis, the state index maps it to the ICO
\* state, both threads start paused; the generator's prev_tip and local
\* state are read when its thread starts, before any block is mined.
Init ==
    /\ Store!New
    /\ blockState = (Genesis :> InitialState)
    /\ mempool = {}
    /\ minerState = "Paused"
    /\ batch = <<>>
    /\ minedData = <<>>
    /\ chan = <<>>
    /\ sentLog = <<>>
    /\ mwPc = "idle"
    /\ mwBlock = NoHash
    /\ genState = "Paused"
    /\ prevTip = Genesis
    /\ genUtxo = InitialState
    /\ generated = {}

Next ==
    \/ MinerStart \/ GenStart
    \/ MinerDrain \/ MinerFound
    \/ MinerWorkerValidate \/ MinerWorkerInsert
    \/ GenStep
    \/ \E st \in PeerTxs : RecvTransactions(st)
    \/ \E b \in DOMAIN RemoteBlocks : RecvBlock(b)

Spec == Init /\ [][Next]_vars

\* The miner worker loops on recv() forever and is never parked while
\* finished_block_chan holds a block.
WorkerFairSpec ==
    Spec /\ WF_vars(MinerWorkerValidate) /\ WF_vars(MinerWorkerInsert)

\* The miner, miner worker and generator threads loop forever; a found
\* nonce comes eventually.  The API's Start and the peers are not forced.
LiveSpec ==
    /\ WorkerFairSpec
    /\ WF_vars(MinerDrain) /\ WF_vars(MinerFound)
    /\ WF_vars(GenStep)

-----------------------------------------------------------------------------
(* Properties.                                                             *)

TypeOK ==
    /\ Store!TypeOK
    /\ DOMAIN blockState \subseteq BlockHashes
    /\ mempool \subseteq generated \cup PeerTxs
    /\ minerState \in {"Paused", "Run"}
    /\ genState \in {"Paused", "Run"}
    /\ Len(batch) <= BlockSize
    /\ ToSet(batch) \subseteq generated \cup PeerTxs
    /\ DOMAIN minedData = ToSet(sentLog)
    /\ sentLog = SubSeq(MinedHashes, 1, Len(sentLog))
    /\ ToSet(chan) \subseteq ToSet(sentLog)
    /\ mwPc \in {"idle", "insert"}
    /\ (mwPc = "insert") = (mwBlock # NoHash)
    /\ prevTip \in DOMAIN blocks

\* The state index has an entry for every stored block, so the generator's
\* get(&tip).unwrap() on a new tip and check_tx_state's unwrap on a stored
\* parent never fail: the miner worker writes the state before it inserts,
\* and an invalid block is dropped before it reaches the store.
StateIndexCoversChain ==
    DOMAIN blocks \subseteq DOMAIN blockState

\* The miner, the miner worker and the peers' blocks together change the
\* store and the state index only as ValidChain allows, though the miner
\* may build on a tip that is stale by the time its block is validated.
Valid == INSTANCE ValidChain WITH
    Hashes <- BlockHashes,
    blockData <- BlockData,
    stateOf <- [b \in DOMAIN blocks |->
                   IF b \in DOMAIN blockState THEN blockState[b]
                                              ELSE InitialState]

ImplementsValidChain == Valid!Spec

\* The generator never builds two different transactions spending the same
\* output.  It rebuilds a transaction whenever a new tip shows its input
\* unspent (a reorganisation, or a block that did not include it); only
\* because pass_check splits a balance deterministically and the signature
\* is deterministic is the rebuilt transaction the same one, so the mempool
\* never holds two conflicting spends that would invalidate a block.
GeneratedConflictFree ==
    \A t1, t2 \in generated :
        t1 # t2 => ToSet(t1.transaction.input) \cap ToSet(t2.transaction.input) = {}

\* A block the miner found is valid against the state of the parent it
\* names, a state that never changes once written.
ValidAtParent(h) ==
    LET d == minedData[h]
    IN  /\ d.parent \in DOMAIN blockState
        /\ CheckTxState(blockState[d.parent], d.content).valid

\* Every block the miner finds that is valid against its parent's state is
\* eventually stored, however far the tip has moved, by peers' blocks or
\* the miner's own, before the miner worker takes it off
\* finished_block_chan: check_tx_state starts from the parent's entry of
\* the state index, not from the tip's.
FoundBlocksStored ==
    \A h \in ToSet(MinedHashes) :
        (h \in DOMAIN minedData /\ ValidAtParent(h)) ~> h \in DOMAIN blocks

\* The outputs this node can come to own: the ICO and the peers' outputs.
OwnableOutpoints == {ICO} \cup {<<t, i>> : t \in PeerTxs, i \in 0 .. 2}

\* Spec 4.8: spending the first owned entry "ensures progress": once the
\* running generator's local state holds an output of this node with a
\* non-zero value, the generator eventually spends it.
GeneratorSpendsOwned ==
    \A op \in OwnableOutpoints :
        (/\ genState = "Run"
         /\ op \in DOMAIN genUtxo
         /\ genUtxo[op].recipient_addr = MyAddr
         /\ genUtxo[op].value > 0)
        ~> op \notin DOMAIN genUtxo

\* Every block the miner sends extends the one it sent before (spec section
\* 8, scenario 5, and the miner_three_block test): the parent of each
\* block on finished_block_chan is the hash of the previous one.
MinedBlocksExtendPrevious ==
    \A i \in 2..Len(sentLog) : minedData[sentLog[i]].parent = sentLog[i - 1]
=============================================================================
