# TLA+ models of the Bitcoin-Client node

These modules model the Rust node under `src/src/` with TLA+ and check it with TLC.
Every definition is translated from the source. `PROJECT.json` maps each one to the
lines it models.

## The system

A node is one process with several threads. They share three structures, each
behind its own `Arc<Mutex<_>>`:

| structure | code | holds |
|---|---|---|
| blockchain store | `blockchain/mod.rs` | `HashMap<H256,(Block,u32)>` and the tip hash |
| state index | `main.rs`, `network/worker.rs`, `miner/worker.rs` | `HashMap<H256,State>`: the UTXO set after each accepted block |
| mempool | `types/transaction.rs` | `HashMap<H256,SignedTransaction>` |

The threads:

- **Gossip workers** (`network/worker.rs`). A pool of `p2p_workers` threads (4 by
  default) takes peer messages off one bounded channel. Each thread has its own
  `OrphanBuffer`.
  - `NewBlockHashes` requests the unknown blocks.
  - `GetBlocks` answers only when it has every requested block.
  - `Blocks` checks each block in turn: proof of work, duplicate, parent known,
    difficulty equal to the parent's, and `check_tx_state`. An accepted block goes
    into the state index, then into the store. Orphans are buffered and their
    parent is requested. After each accepted block, a cascade adopts the buffered
    children of every newly accepted block.
  - `Transactions` puts correctly signed transactions into the mempool.
- **Miner** (`miner/mod.rs`). When its batch is empty, it copies up to 50 mempool
  transactions into it. Its header's parent is the tip read at that moment. When
  the nonce meets the difficulty, it sends the block to the miner worker and
  removes the batch from the mempool.
- **Miner worker** (`miner/worker.rs`). Runs `check_tx_state` against the parent's
  state, then inserts the block and announces it.
- **Transaction generator** (`generator/tx_generator.rs`). Keeps a local copy of
  the state at the tip it last saw and refreshes it when the tip changes. It spends
  the first output it owns, splitting it with `Output::pass_check`. It puts the
  signed transaction into the mempool and applies it to its local copy.
- **HTTP API** (`api/mod.rs`). Starts the miner and the generator, and reads the
  chain. Each request runs on its own thread. The state and longest-chain-tx
  endpoints walk from the tip to the parents, taking the store's lock anew for
  every block.

## Modules

| module | models | state / actions |
|---|---|---|
| `Blockchain` | the store | `blocks` (hash ↦ [parent, height]), `tip`; `New`, `Insert(b,p)`, `AllBlocksInLongestChain` (via `Walk`) |
| `Ledger` | UTXO `State`, `check_tx_state`, `pass_check` | pure operators: `NewState`, `TxValid`, `UpdateState`, `CheckTxState` (RECURSIVE), `PassCheck` |
| `ValidChain` | what both block-accepting paths promise | `Accept(b)`: parent stored, PoW, equal difficulty, valid transactions; the state is the parent's after them |
| `BlockSync` | the gossip worker pool's block messages, with a peer | shared store, state index and FIFO inbox. Per worker: `pc`, the message's remaining blocks, `new_blocks`, the cascade index `n` and the orphan buffer. Actions `RecvNewBlockHashes`, `RecvBlocks`, `CheckBlock`, `Validate`, `InsertBlock`, `Unorphan`, `CascadeNext`, `CascadeDone`, `FinishBlocks`. The peer's actions are `PeerAnnounce` and `PeerServe` (its `GetBlocks` handler) |
| `TxGossip` | the pool's transaction messages, with the generator, the miner's removal and a peer | `mempool`, FIFO inbox, per worker `pc`, `msg`, index `k`, reply `acc`. `Receive` (NewTransactionHashes is handled and dropped in it), `GetHas`, `GetFetch`, `GetMissing`, `GetReply`, `TxCheck`, `TxInsert`, `TxDone`; `GenInsert`, `MinerRemove`; the peer's `PeerAnnounce`, `PeerRequest`, `PeerPush` |
| `Merkle` | `MerkleTree::new`, `root`, `proof`, `verify` | the build loop's `tree`, `level`, `index`, `nextLevel`: `NewEmpty`, `NewLeaves`, `OuterStep`, `PairStep`, `LevelDone`; `Root`, `Proof`/`ProofFrom`, `FoldProof`/`Verify` as RECURSIVE operators, against `SpecRoot` of spec §4.1 |
| `ApiRead` | the state, longest-chain-tx and longest-chain endpoints, composed with `BlockSync` | one request thread: `aTip`, `aBlock`, `aHash` (`next_hash`), `aHeight`, `aOut`. `ApiRequest`; `ApiLongestChain` (one lock); `ApiReadTip`; `StateEntry`, `StateWalkStep`, `StateDone` and `ChainTxEntry`, `ChainTxWalkStep`, `ChainTxDone`, each one lock acquisition of its endpoint's handler. `ApiNext` interleaves them with `BlockSync`'s `Next` |
| `MinerPipeline` | miner, miner worker, generator, mempool, `Transactions` handler | `MinerStart`, `MinerDrain`, `MinerFound`, `MinerWorkerValidate`, `MinerWorkerInsert`, `GenStart`, `GenStep`, `RecvTransactions`. Peer blocks go through `RecvBlock`, which takes `ValidChain`'s checks in one step |

Each action ends where the code releases the locks it took. A `Blocks` message is
split at every separate lock acquisition: the checks, `check_tx_state` (which
writes the state index), the insert, and each cascade step. The miner worker
validates and inserts in two steps. A failed nonce changes nothing, so it is not
modelled as a step.

Data is abstracted as follows:
- A block is its hash, a model value. The header fields the node reads (parent,
  difficulty, PoW ≤ difficulty, content) are constants of the MC module, or the
  variable `minedData` for mined blocks.
- A signed transaction is a record: inputs, outputs, the signer's key, and `sigOk`
  for whether the Ed25519 check passes.
- A transaction's hash is the record itself. Signatures are deterministic, so equal
  content gives an equal hash.

`MinerPipeline` takes the peers' blocks with `ValidChain`'s checks in one step.
That is sound because `BlockSync` checks the gossip path against that same spec.

## Runs

| run | cfg | expect | shows |
|---|---|---|---|
| blockchain | `MC_Blockchain.cfg` | pass | Inserting six blocks in any order, over any stored parent: the tip is always of maximal height. `all_blocks_in_longest_chain` is a genesis-to-tip parent path. |
| blocksync | `MC_ApiRead.cfg` | pass | One worker, a peer announcing blocks in any order, plus blocks that are bad in three ways (PoW, difficulty, overspend), and an HTTP request thread reading at any point. Under fairness, every acceptable announced block is eventually stored (the orphan cascade is complete). The reader never panics, and its answer is the state at height N, the contents, or the hashes of the chain of the tip it read. Whenever the worker is idle, no buffered orphan's parent is stored: the cascade removes every orphan of a block it accepts. |
| blocksync_pool_safety | `MC_BlockSync_pool_safety.cfg` | pass | Two workers interleaving their checks, `check_tx_state` and insert on the shared store: the store refines `ValidChain`, no stored block lacks its state entry, and value is conserved. (The one-worker run does not repeat these: one worker's store is a special case.) |
| blocksync_pool | `MC_BlockSync_pool.cfg` | violation | With two workers, a block parked in one worker's orphan buffer is never adopted after the other worker accepts its parent. |
| blocksync_overcount | `MC_BlockSync_overcount.cfg` | violation | A block creating value is accepted. D1 lists the ICO twice as input; V1's outputs U32−1 and 101 wrap to 100. TLC's trace takes D1; without D1 it takes V1. |
| pipeline | `MC_MinerPipeline.cfg` | pass | Miner, miner worker, generator, peer transactions (one spending an output its signer does not own, one spending the generator's output) and a longer peer fork together refine `ValidChain`. The generator never builds two different spends of one output. Under the miner worker's fairness, every found block that is valid against its parent's state is eventually stored, however far the tip moved before the worker took it. |
| pipeline_stale_tip | `MC_MinerPipeline_stale.cfg` | violation | The miner sends a second block with the same parent as the first, before the miner worker has stored the first. |
| pipeline_generator_stall | `MC_MinerPipeline_stall.cfg` | violation | Under `LiveSpec`, a zero-valued first owned output is never spent, so the generator makes no further transaction. |
| merkle | `MC_Merkle.cfg` | pass | For every slice of up to 8 leaves over 2 items, the build loop's index stays even and in bounds, the root is spec §4.1's, and every leaf's proof verifies. Two slices share a root exactly when their fully padded leaf sequences are equal: at each level with an odd count above one, the last subtree is repeated (`merkle.rs:56`). So [a..e] shares its root with the 6, 7 and 8-leaf slices that repeat e, and [a..f] with [a..f,e,f]. |
| txgossip | `MC_TxGossip.cfg` | pass | Two workers, the generator, the miner's removal and a peer: a GetTransactions reply has all requested transactions or none. The run also explores two workers both finding one pushed transaction new and both inserting and announcing it, which is harmless: the insert is idempotent and receivers drop a known hash. |
| txgossip_panic | `MC_TxGossip_panic.cfg` | violation | The miner removes a requested transaction between `contains_key` and `get().unwrap()`, and the worker panics. |
| txgossip_no_request | `MC_TxGossip_norequest.cfg` | violation | A transaction a peer announces never reaches the mempool, because `NewTransactionHashes` drops the list it builds. |

Each property of a passing run has a mutant in `PROJECT.json`: a plausible bug in
the mapped code that TLC must catch. Examples:
- the state written under the parent's key;
- the difficulty check dropped;
- the balance check dropped;
- the un-orphan cascade stopping one block early;
- the cascade's GetBlocks request dropped;
- the `block_size` limit dropped;
- the miner worker validating against the tip's state;
- the random output split of the commented-out line in `Output::pass_check`.

### Findings

1. **Orphans stranded across workers** (`network/worker.rs:125`). Each worker
   thread keeps its own orphan buffer. When another worker accepts the parent, the
   orphan is never adopted. The spec says an orphan waits "until its parent is
   accepted".
2. **Duplicate inputs create value** (`network/worker.rs:94`, and likewise
   `miner/worker.rs:78`). `sum_input` adds each listed input, so one output listed
   twice counts twice.
3. **The miner builds on a stale tip** (`miner/mod.rs:203`). The parent is
   `blockchain.tip()`, and only the miner worker advances the tip. Spec §8
   scenario 5 and the `miner_three_block` test require each mined block to extend
   the previous one. That test runs without a miner worker, so it cannot pass.
4. **u32 sums mint value** (`network/worker.rs:102`). `sum_output` wraps in a
   release build, so outputs summing past 2^32 pass the balance check. A debug
   build panics and kills the worker thread instead. There is no `Cargo.toml` to
   say which build is used.
5. **GetTransactions panics** (`network/worker.rs:394`). The mempool lock is
   taken once for `contains_key` and again for `get().unwrap()`, and the miner
   can remove the transaction in between.
6. **Announced transactions are never requested** (`network/worker.rs:376`).
   `NewTransactionHashes` builds the list of unknown hashes and drops it.
7. **The generator stalls** (`generator/tx_generator.rs:156`). `get_tx_balance`
   stops at the first owned output even when its value is 0. `pass_check` then
   fails forever, although spec §4.8 says the generator "ensures progress".

## Bounds and why they suffice

- `MC_Blockchain`: five blocks besides genesis (2,961 states). That covers every
  tree shape with forks of equal height, a longer fork overtaking, and re-inserts.
- `MC_BlockSync`: the peer has a chain of two blocks (B1←B2), a second chain
  (C1←C2), a block with the wrong difficulty (E1) and an overspend (X1).
  Announcements include `<<B2>>` alone (an orphan whose parent comes later) and
  `<<C1,C2>>` (parent and child in one message, or the child first).
  - The real transactions (B1 spends the ICO, B2 spends B1's output) make state
    chaining matter.
  - One worker gives 10,480 states; two workers give 82,304.
- `MC_MinerPipeline`: two mined blocks (`MinedHashes`), which is enough for the
  second one to be built on a stale tip.
  - Two empty peer blocks (R1←R2) can overtake a mined block, so the generator
    sees a reorganisation and rebuilds its transaction.
  - Two peer transactions; `BlockSize = 2`, so a batch can hold the node's
    transaction together with a peer's, in either order.
  - 197,532 states, about 2 minutes with the refinement and liveness checks.
- Integers: `U32` is 2^16 in the MC modules, because TLC's integers cannot hold
  2^32. Every other value stays far below it, so the wrap happens exactly where
  2^32 would make it happen.
- `MC_Merkle`: every slice of 0–8 leaves over 2 items (511 slices). That covers
  the empty tree, a single leaf, odd levels at every depth up to three (3, 5, 6
  and 7 leaves) and every collision class they make. Two items suffice because
  the collisions come from positions, not from values.
- `MC_TxGossip`: two workers, two generator transactions, two peer transactions
  (one badly signed), and at most 2 peer messages.
- `MC_ApiRead`: one request of any of the three endpoints, with `block` in 0..1, starting at
  any point of the one-worker `MC_BlockSync` run. The universe has tips at
  heights 0, 1 and 2, so N falls below, at and above the tip's height. Request
  threads share nothing, so one request covers every reader interleaving.

## Fairness

`BlockSync` assumes weak fairness of each worker's steps and of receiving from a
non-empty channel. The threads loop forever, and a thread blocked on `recv` wakes
when a message is queued. It also assumes weak fairness of the peer serving a
request: the peer's `GetBlocks` handler answers whenever it has the blocks, and
TCP delivers the reply. The peer's announcements are not forced.

`ApiFairSpec` keeps that fairness when the reader is composed in. It assumes no
fairness for the request thread, because a client may never send a request.

`TxGossip` assumes weak fairness of each worker, which loops on `recv`.

`MinerPipeline`'s `Spec` is safety only. `WorkerFairSpec` adds weak fairness of
the miner worker's two steps: its thread loops on `recv()` and is never parked
while `finished_block_chan` holds a block. `LiveSpec` also adds weak fairness of
the miner's drain and found steps and of the generator loop. Each is an infinite
loop that the code never parks while it has work. The `pipeline` run uses the
weaker `WorkerFairSpec`, because `FoundBlocksStored` needs only the miner
worker's fairness.

## Not modelled

- **The network server and peer code** (`network/server.rs`, `peer.rs`,
  `message.rs`). They are not in the repository. A message is delivered whole and
  in order.
- **Ping/Pong.** It changes no node state.
- **The miner's `Exit` and `Update`.** No caller sends `Exit`, and `Update` does
  nothing. The generator's `Exit` has no sender either.
- **The HTTP API's I/O.** The start endpoints are `MinerStart` and `GenStart`.
  A missing or unparsable parameter answers without sending the signal.
  `/network/ping`, `longest-chain-tx-count` (unimplemented) and unknown paths
  change no state of the node. The server loop, URL parsing and the JSON text are
  I/O.
- **Hashing and Ed25519.** They are injective constructors and flags. The Merkle
  root is computed but never checked by any node. Because of the padding,
  [a,b,c] and [a,b,c,c] have the same root, and [a..e] the same as
  [a..e,e,e,e]. `RootCommitsToLeaves` states exactly which slices collide.
- **Content not bound to a block's hash** (`network/worker.rs:178`). `Block::hash`
  hashes only the header, and no node checks `merkle_root` against the content.
  So a peer can send a valid header with other transactions. The model gives
  each hash one content. On one node with two workers, both can pass the
  duplicate check with different versions before either inserts, and the stored
  block can then carry the other version's state entry. Two nodes can also keep
  different contents under one hash. All of this needs a Byzantine peer, which
  spec §1 lists as a non-goal.
- **A mined transaction re-entering the mempool** (`network/worker.rs:430`).
  `Transactions` asks only the mempool whether a transaction is new, as spec §4.7
  says. A transaction that was mined and removed is taken in again when a peer
  pushes it. `tx_exist_check` (`miner/mod.rs:236`), which would have excluded it,
  is called only from commented-out code. `TxGossip` reaches this state, and no
  property forbids it, because neither the code nor the spec has that rule.
- **Duplicated or repeated peer replies.** A fault model in which the peer
  answers a `GetBlocks` twice was built and checked. With the reader and the
  refinement check, it takes well beyond the five-minute bound, so it was
  removed. The orphan buffer and `Unorphan` have no duplicate check, so a
  repeated orphan would be kept twice.
- **Transaction loss on a rejected mined block** (`miner/mod.rs:214`). The
  miner removes its batch from the mempool before the miner worker validates
  the block. When the block is rejected, its transactions are gone. Spec §4.5 step 5
  prescribes this removal, so a property that no transaction is lost would fail
  by design. The project keeps its runs for questions whose answer is in doubt.
- **The empty block after a late transaction** (`miner/mod.rs:176`).
  `MinerFound` requires a non-empty batch or an empty mempool. The code drains
  once, and if a transaction arrives after the drain while the batch is empty,
  it still mines and sends an empty block. The model leaves out that empty
  block. No property depends on it: an empty block on a valid parent is always
  valid, and the transaction stays in the mempool for the next batch.

## Further work

1. A two-node composition: each node's pipeline plus gossip, with lost and
   duplicated messages. It would check that the tips converge under fairness,
   and it is where the unchecked Merkle root would show as divergence.
2. The bounded inbound channel (`main.rs:120`). Its sender is the network
   server, which is not in the repository. The model's inbox is bounded only by
   the peer's message budget.
