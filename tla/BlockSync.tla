------------------------------ MODULE BlockSync ------------------------------
(***************************************************************************)
(* The block side of the gossip worker pool, src/network/worker.rs: a pool *)
(* of worker threads taking messages from one peer off the shared inbound  *)
(* channel, each with its own orphan buffer, all writing the shared       *)
(* blockchain store and per-block state index.  The peer announces blocks *)
(* (NewBlockHashes) and answers the GetBlocks requests the workers write  *)
(* to it with the same GetBlocks handler.                                  *)
(*                                                                         *)
(* The Blocks handler is split at the points where it releases the locks:  *)
(* the checks on a block, check_tx_state (which writes the state index),   *)
(* the insert into the store, and the steps of the un-orphan cascade.     *)
(***************************************************************************)
EXTENDS Ledger

CONSTANTS
    Workers,        \* the p2p worker threads of the pool
    Genesis, NoHash, Parent,
    Difficulty,     \* Difficulty[b]: header.difficulty of block b
    PowOk,          \* PowOk[b]: b.hash() <= b.head.difficulty
    Content,        \* Content[b]: the signed transactions of block b
    InitialState,   \* the genesis entry of the state index (main.rs)
    PeerBlocks,     \* the blocks stored at the peer
    Announcements   \* the NewBlockHashes payloads the peer may send

VARIABLES
    blocks, tip,    \* the shared blockchain store
    blockState,     \* the shared state index HashMap<H256, State>
    inbox,          \* the inbound message channel (FIFO, shared by the pool)
    requests,       \* GetBlocks payloads written to the peer, not yet served
    announced,      \* Announcements the peer has sent
    broadcast,      \* hashes this node has broadcast in NewBlockHashes
    pc,             \* per worker: where it is in its loop
    msg,            \* per worker: the blocks of the Blocks message still to do
    cur,            \* per worker: the block being validated or inserted
    newBlocks,      \* per worker: new_blocks of the current Blocks message
    n,              \* per worker: cascade position in newBlocks (1-based)
    orphans         \* per worker: its OrphanBuffer

storeVars  == <<blocks, tip, blockState>>
netVars    == <<inbox, requests, announced, broadcast>>
workerVars == <<pc, msg, cur, newBlocks, n, orphans>>
vars == <<storeVars, netVars, workerVars>>

Store == INSTANCE Blockchain WITH Hashes <- DOMAIN Parent

NoBlock == NoHash

NewBlockHashesMsg(hs) == [type |-> "NewBlockHashes", hashes |-> hs]
BlocksMsg(bs)         == [type |-> "Blocks", blocks |-> bs]

Stored(h) == h \in DOMAIN blocks

-----------------------------------------------------------------------------
(* The peer.                                                               *)

\* The peer's miner or gossip worker broadcasts NewBlockHashes.
PeerAnnounce(a) ==
    /\ a \notin announced
    /\ announced' = announced \cup {a}
    /\ inbox' = Append(inbox, NewBlockHashesMsg(a))
    /\ UNCHANGED <<storeVars, requests, broadcast, workerVars>>

\* The GetBlocks handler run by the peer over its own store: reply
\* Blocks(all) if it has every requested block, otherwise no reply.
PeerServe(r) ==
    /\ r \in requests
    /\ requests' = requests \ {r}
    /\ inbox' = IF ToSet(r) \subseteq PeerBlocks
                THEN Append(inbox, BlocksMsg(r)) ELSE inbox
    /\ UNCHANGED <<storeVars, announced, broadcast, workerVars>>

-----------------------------------------------------------------------------
(* A worker thread of Worker::worker_loop.                                 *)

\* Faulty variants of the worker's steps, each a plausible slip in the
\* code, that the properties below are required to detect.
RecvBlocksKeepN(w) ==
    /\ pc[w] = "idle"
    /\ inbox # <<>>
    /\ Head(inbox).type = "Blocks"
    /\ inbox' = Tail(inbox)
    /\ msg' = [msg EXCEPT ![w] = Head(inbox).blocks]
    /\ newBlocks' = [newBlocks EXCEPT ![w] = <<>>]
    /\ pc' = [pc EXCEPT ![w] = "check"]
    /\ UNCHANGED <<storeVars, requests, announced, broadcast, cur, orphans, n>>

\* The state index entry written for b with its parent's key.
RecordStateParent(b, s) == blockState' = (Parent[b] :> s) @@ blockState

\* check_tx_state's last write: block_state.insert(*block_hash, state).
RecordState(b, s) == blockState' = (b :> s) @@ blockState

\* The difficulty check left out.
DifficultyIgnored(b) == TRUE

\* The block's difficulty equals that of its stored parent.
DifficultyOk(b) == Difficulty[b] = Difficulty[Parent[b]]

\* The orphan's GetBlocks for its parent left out.
RequestParentDropped(b) == UNCHANGED requests

\* peer.write(Message::GetBlocks(vec![parent_hash])) for an orphan b.
RequestParent(b) == requests' = requests \cup {<<Parent[b]>>}

\* NewBlockHashes: request the hashes the store does not have.
RecvNewBlockHashes(w) ==
    /\ pc[w] = "idle"
    /\ inbox # <<>>
    /\ Head(inbox).type = "NewBlockHashes"
    /\ LET missing == SelectSeq(Head(inbox).hashes, LAMBDA h : ~Stored(h))
       IN  requests' = IF missing # <<>> THEN requests \cup {missing}
                                          ELSE requests
    /\ inbox' = Tail(inbox)
    /\ UNCHANGED <<storeVars, announced, broadcast, workerVars>>

\* Blocks: start on the list with an empty new_blocks and n = 0.
RecvBlocks(w) ==
    /\ pc[w] = "idle"
    /\ inbox # <<>>
    /\ Head(inbox).type = "Blocks"
    /\ inbox' = Tail(inbox)
    /\ msg' = [msg EXCEPT ![w] = Head(inbox).blocks]
    /\ newBlocks' = [newBlocks EXCEPT ![w] = <<>>]
    /\ n' = [n EXCEPT ![w] = 1]
    /\ pc' = [pc EXCEPT ![w] = "check"]
    /\ UNCHANGED <<storeVars, requests, announced, broadcast, cur, orphans>>

\* The checks on the next block: a block failing its proof of work or
\* already stored is skipped; one whose parent is stored goes on to
\* validation; any other is pushed on the orphan buffer and its parent is
\* requested from the peer.
CheckBlock(w) ==
    /\ pc[w] = "check"
    /\ msg[w] # <<>>
    /\ LET b == Head(msg[w]) IN
       \/ /\ ~PowOk[b] \/ Stored(b)
          /\ msg' = [msg EXCEPT ![w] = Tail(@)]
          /\ UNCHANGED <<requests, pc, cur, orphans>>
       \/ /\ PowOk[b] /\ ~Stored(b) /\ Stored(Parent[b])
          /\ cur' = [cur EXCEPT ![w] = b]
          /\ pc' = [pc EXCEPT ![w] = "validate"]
          /\ UNCHANGED <<requests, msg, orphans>>
       \/ /\ PowOk[b] /\ ~Stored(b) /\ ~Stored(Parent[b])
          /\ orphans' = [orphans EXCEPT ![w] = Append(@, b)]
          /\ RequestParent(b)
          /\ msg' = [msg EXCEPT ![w] = Tail(@)]
          /\ UNCHANGED <<pc, cur>>
    /\ UNCHANGED <<storeVars, inbox, announced, broadcast, newBlocks, n>>

\* The difficulty coherence check against the parent and check_tx_state,
\* which on success writes the block's state into the state index.  The
\* parent is the stored parent of a received block or, in the cascade,
\* new_blocks[n]; either way it is Parent[cur].
Validate(w) ==
    /\ pc[w] = "validate"
    /\ LET b == cur[w]
           r == CheckTxState(blockState[Parent[b]], Content[b])
       IN  IF DifficultyOk(b) /\ r.valid
           THEN /\ RecordState(b, r.state)
                /\ pc' = [pc EXCEPT ![w] = "insert"]
           ELSE /\ pc' = [pc EXCEPT ![w] = "cascade"]
                /\ UNCHANGED blockState
    /\ UNCHANGED <<blocks, tip, netVars, msg, cur, newBlocks, n, orphans>>

\* Blockchain::insert under the store's lock, then new_blocks.push.
InsertBlock(w) ==
    /\ pc[w] = "insert"
    /\ Store!Insert(cur[w], Parent[cur[w]])
    /\ newBlocks' = [newBlocks EXCEPT ![w] = Append(@, cur[w])]
    /\ pc' = [pc EXCEPT ![w] = "cascade"]
    /\ UNCHANGED <<blockState, netVars, msg, cur, n, orphans>>

\* The cascade: the first orphan whose parent is new_blocks[n] is removed
\* from the buffer and validated; with none left, n moves on; when n has
\* passed the end of new_blocks, the received block is done.
Unorphan(w) ==
    /\ pc[w] = "cascade"
    /\ n[w] <= Len(newBlocks[w])
    /\ LET i == SelectInSeq(orphans[w],
                            LAMBDA o : Parent[o] = newBlocks[w][n[w]])
       IN  /\ i # 0
           /\ cur' = [cur EXCEPT ![w] = orphans[w][i]]
           /\ orphans' = [orphans EXCEPT ![w] = RemoveAt(@, i)]
    /\ pc' = [pc EXCEPT ![w] = "validate"]
    /\ UNCHANGED <<storeVars, netVars, msg, newBlocks, n>>

CascadeNext(w) ==
    /\ pc[w] = "cascade"
    /\ n[w] <= Len(newBlocks[w])
    /\ \A i \in 1..Len(orphans[w]) : Parent[orphans[w][i]] # newBlocks[w][n[w]]
    /\ n' = [n EXCEPT ![w] = @ + 1]
    /\ UNCHANGED <<storeVars, netVars, pc, msg, cur, newBlocks, orphans>>

\* CascadeDone without its guard: the loop over new_blocks is left early.
CascadeDoneEarly(w) ==
    /\ pc[w] = "cascade"
    /\ msg' = [msg EXCEPT ![w] = Tail(@)]
    /\ pc' = [pc EXCEPT ![w] = "check"]
    /\ UNCHANGED <<storeVars, netVars, cur, newBlocks, n, orphans>>

CascadeDone(w) ==
    /\ pc[w] = "cascade"
    /\ n[w] > Len(newBlocks[w])
    /\ msg' = [msg EXCEPT ![w] = Tail(@)]
    /\ pc' = [pc EXCEPT ![w] = "check"]
    /\ UNCHANGED <<storeVars, netVars, cur, newBlocks, n, orphans>>

\* After the list: broadcast NewBlockHashes(new_blocks) if it is not empty.
FinishBlocks(w) ==
    /\ pc[w] = "check"
    /\ msg[w] = <<>>
    /\ broadcast' = broadcast \cup ToSet(newBlocks[w])
    /\ pc' = [pc EXCEPT ![w] = "idle"]
    /\ UNCHANGED <<storeVars, inbox, requests, announced, msg, cur,
                   newBlocks, n, orphans>>

-----------------------------------------------------------------------------

Init ==
    /\ Store!New
    /\ blockState = (Genesis :> InitialState)
    /\ inbox = <<>>
    /\ requests = {}
    /\ announced = {}
    /\ broadcast = {}
    /\ pc = [w \in Workers |-> "idle"]
    /\ msg = [w \in Workers |-> <<>>]
    /\ cur = [w \in Workers |-> NoBlock]
    /\ newBlocks = [w \in Workers |-> <<>>]
    /\ n = [w \in Workers |-> 1]
    /\ orphans = [w \in Workers |-> <<>>]

WorkerStep(w) ==
    \/ CheckBlock(w) \/ Validate(w) \/ InsertBlock(w)
    \/ Unorphan(w) \/ CascadeNext(w) \/ CascadeDone(w) \/ FinishBlocks(w)

Receive == \E w \in Workers : RecvNewBlockHashes(w) \/ RecvBlocks(w)

Next ==
    \/ \E a \in Announcements : PeerAnnounce(a)
    \/ \E r \in requests : PeerServe(r)
    \/ Receive
    \/ \E w \in Workers : WorkerStep(w)

\* Every thread that can run eventually does; an idle thread blocked on the
\* channel takes a queued message; the peer's TCP connection and its
\* workers eventually deliver a reply to every request.  The peer's own
\* announcements are not forced.
Fairness ==
    /\ \A w \in Workers : WF_vars(WorkerStep(w))
    /\ WF_vars(Receive)
    /\ WF_vars(\E r \in requests : PeerServe(r))

Spec == Init /\ [][Next]_vars /\ Fairness

-----------------------------------------------------------------------------

\* The state every block would have on its own branch.
RECURSIVE StateAt(_)
StateAt(b) ==
    IF b = Genesis THEN InitialState
    ELSE CheckTxState(StateAt(Parent[b]), Content[b]).state

\* A block every honest node accepts: its whole branch meets the checks.
RECURSIVE Acceptable(_)
Acceptable(b) ==
    \/ b = Genesis
    \/ /\ PowOk[b]
       /\ Difficulty[b] = Difficulty[Parent[b]]
       /\ Acceptable(Parent[b])
       /\ CheckTxState(StateAt(Parent[b]), Content[b]).valid

AnnouncedHashes == UNION {ToSet(a) : a \in announced}

TypeOK ==
    /\ DOMAIN blocks \subseteq DOMAIN Parent
    /\ tip \in DOMAIN blocks
    /\ pc \in [Workers -> {"idle", "check", "validate", "insert", "cascade"}]
    /\ \A w \in Workers : n[w] \in 1..Len(newBlocks[w]) + 1
    /\ cur \in [Workers -> DOMAIN Parent \cup {NoBlock}]
    /\ \A w \in Workers : ToSet(orphans[w]) \subseteq PeerBlocks
    /\ requests \subseteq Seq(DOMAIN Parent)
    /\ broadcast \subseteq DOMAIN Parent

\* The state index has an entry for every stored block: check_tx_state
\* writes it before Blockchain::insert, so no thread that finds a block in
\* the store (as a parent, or as the tip the generator reads) can unwrap a
\* missing state.
StateIndexCoversChain ==
    DOMAIN blocks \subseteq DOMAIN blockState

\* No accepted block holds more value than the ICO: transactions only move
\* value (inputs must cover outputs, any surplus is burned), so the state
\* of every stored block totals at most the genesis state's 100.
ValueConserved ==
    \A b \in DOMAIN blocks \cap DOMAIN blockState :
        Total(blockState[b]) <= Total(InitialState)

\* The pool of workers, through every interleaving and cascade, changes the
\* store and the state index only as ValidChain allows: each accepted block
\* meets its difficulty, matches its parent's difficulty and carries valid
\* transactions, and its state is its parent's after them.
\* The header and content of every block, as ValidChain reads them.
BlockData ==
    [b \in DOMAIN Parent |-> [parent |-> Parent[b], difficulty |-> Difficulty[b],
                              powOk |-> PowOk[b], content |-> Content[b]]]

Valid == INSTANCE ValidChain WITH
    Hashes <- DOMAIN Parent,
    blockData <- BlockData,
    stateOf <- [b \in DOMAIN blocks |->
                   IF b \in DOMAIN blockState THEN blockState[b]
                                              ELSE InitialState]

ImplementsValidChain == Valid!Spec

\* The orphan buffer only holds blocks still waiting for their parent:
\* whenever a worker is back at the top of its loop, no block in its
\* buffer has a stored parent, because the cascade run after every accepted
\* block removes each orphan of it, whether the orphan is then accepted or
\* rejected.  (With one worker; finding 1 is that a second worker breaks it.)
OrphansAwaitParent ==
    \A w \in Workers : pc[w] = "idle" =>
        \A o \in ToSet(orphans[w]) : ~Stored(Parent[o])

\* Every block the peer announces and every honest node accepts is
\* eventually in the store: an orphan is deferred until its parent is
\* accepted, then adopted.
AnnouncedBlocksStored ==
    \A b \in {x \in PeerBlocks : Acceptable(x)} :
        b \in AnnouncedHashes ~> Stored(b)
=============================================================================
