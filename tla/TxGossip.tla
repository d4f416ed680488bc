------------------------------ MODULE TxGossip ------------------------------
(***************************************************************************)
(* The transaction side of the gossip worker pool (src/network/worker.rs): *)
(* the NewTransactionHashes, GetTransactions and Transactions handlers of  *)
(* p2p_workers threads taking peer messages off the one inbound channel    *)
(* (main.rs), racing on the shared mempool with the generator's insert and *)
(* the miner's removal of a mined batch (miner/mod.rs).                    *)
(*                                                                         *)
(* Each mempool.lock() is its own step: GetTransactions locks once for     *)
(* contains_key and again for get, and Transactions once for contains_key  *)
(* and again for insert.  A transaction's hash is the transaction.         *)
(*                                                                         *)
(* The peer is not this code: a node running this code never sends         *)
(* GetTransactions, and so never Transactions.  It is modelled from spec   *)
(* section 4.7, which lets a peer announce, request what it was told of,   *)
(* and push transactions.                                                  *)
(***************************************************************************)
EXTENDS Naturals, Sequences, SequencesExt

CONSTANTS
    Workers,        \* the p2p worker threads
    OwnTxs,         \* transactions this node's generator builds
    PeerTxs,        \* transactions the peer may announce or push
    BadSig,         \* those of PeerTxs whose signature does not verify
    MaxPeerMsgs     \* bound on the messages the peer sends

VARIABLES
    mempool,        \* Mempool.trans, as the set of pooled transactions
    inbox,          \* msg_chan: the peer's messages, in order
    toPeer,         \* every message this node wrote or broadcast, in order
    peerLog,        \* every message the peer has sent, in order
    genBuilt,       \* the transactions the generator has built so far
    pc,             \* worker |-> "idle", "getHas", "getFetch", "txCheck",
                    \*           "txInsert" or "panicked"
    msg,            \* worker |-> the message being handled
    k,              \* worker |-> index of the next hash or transaction
    acc             \* worker |-> trans (GetTransactions) or new_trans

vars == <<mempool, inbox, toPeer, peerLog, genBuilt, pc, msg, k, acc>>

Txs == OwnTxs \cup PeerTxs

NoMsg == [kind |-> "none", items |-> << >>]

\* Message records: kind and the hashes or transactions carried.
Msg(kind, items) == [kind |-> kind, items |-> items]

\* Every sequence of one or two distinct transactions of a set.
Lists(S) ==
    {<<t>> : t \in S} \cup ({<<t, u>> : t, u \in S} \ {<<t, t>> : t \in S})

Idle(w) ==
    /\ pc' = [pc EXCEPT ![w] = "idle"]
    /\ msg' = [msg EXCEPT ![w] = NoMsg]
    /\ k' = [k EXCEPT ![w] = 1]
    /\ acc' = [acc EXCEPT ![w] = << >>]

Init ==
    /\ mempool = {}
    /\ inbox = << >>
    /\ toPeer = << >>
    /\ peerLog = << >>
    /\ genBuilt = {}
    /\ pc = [w \in Workers |-> "idle"]
    /\ msg = [w \in Workers |-> NoMsg]
    /\ k = [w \in Workers |-> 1]
    /\ acc = [w \in Workers |-> << >>]

-----------------------------------------------------------------------------
(* The worker loop: receive, then the handler for the message's kind.      *)

\* A worker blocked on msg_chan.recv() takes the next message.  The
\* NewTransactionHashes handler is this one step: it builds the list of
\* hashes (every hash: the mempool check is commented out) and drops it.
Receive(w) ==
    /\ pc[w] = "idle"
    /\ inbox # << >>
    /\ inbox' = Tail(inbox)
    /\ LET m == Head(inbox)
       IN  IF m.kind = "NewTransactionHashes"
           THEN UNCHANGED <<pc, msg, k, acc>>
           ELSE /\ pc' = [pc EXCEPT ![w] = IF m.kind = "GetTransactions"
                                           THEN "getHas" ELSE "txCheck"]
                /\ msg' = [msg EXCEPT ![w] = m]
                /\ k' = [k EXCEPT ![w] = 1]
                /\ acc' = [acc EXCEPT ![w] = << >>]
    /\ UNCHANGED <<mempool, toPeer, peerLog, genBuilt>>

\* GetTransactions past its last hash: has_trans still holds and the
\* collected transactions are written to the peer.
GetReply(w) ==
    /\ pc[w] = "getHas"
    /\ k[w] > Len(msg[w].items)
    /\ toPeer' = Append(toPeer, Msg("Transactions", acc[w]))
    /\ Idle(w)
    /\ UNCHANGED <<mempool, inbox, peerLog, genBuilt>>

\* contains_key(hash) under the lock finds it: the lock is released.
GetHas(w) ==
    /\ pc[w] = "getHas"
    /\ k[w] <= Len(msg[w].items)
    /\ msg[w].items[k[w]] \in mempool
    /\ pc' = [pc EXCEPT ![w] = "getFetch"]
    /\ UNCHANGED <<mempool, inbox, toPeer, peerLog, genBuilt, msg, k, acc>>

\* A faulty variant of GetMissing, a plausible slip in the code, that the
\* properties below are required to detect: a missing hash is skipped
\* (continue) instead of ending the handler (break).
GetMissingContinue(w) ==
    /\ pc[w] = "getHas"
    /\ k[w] <= Len(msg[w].items)
    /\ msg[w].items[k[w]] \notin mempool
    /\ k' = [k EXCEPT ![w] = @ + 1]
    /\ UNCHANGED <<mempool, inbox, toPeer, peerLog, genBuilt, pc, msg, acc>>

\* contains_key fails: has_trans = false, break, and nothing is written.
GetMissing(w) ==
    /\ pc[w] = "getHas"
    /\ k[w] <= Len(msg[w].items)
    /\ msg[w].items[k[w]] \notin mempool
    /\ Idle(w)
    /\ UNCHANGED <<mempool, inbox, toPeer, peerLog, genBuilt>>

\* The lock is taken again for get(hash).unwrap().clone(): the hash is
\* pushed, or, when it left the mempool in between, unwrap() panics and the
\* worker thread is gone.
GetFetch(w) ==
    /\ pc[w] = "getFetch"
    /\ LET h == msg[w].items[k[w]]
       IN  IF h \in mempool
           THEN /\ acc' = [acc EXCEPT ![w] = Append(@, h)]
                /\ k' = [k EXCEPT ![w] = @ + 1]
                /\ pc' = [pc EXCEPT ![w] = "getHas"]
                /\ UNCHANGED msg
           ELSE /\ pc' = [pc EXCEPT ![w] = "panicked"]
                /\ UNCHANGED <<msg, k, acc>>
    /\ UNCHANGED <<mempool, inbox, toPeer, peerLog, genBuilt>>

\* Transactions past its last transaction: NewTransactionHashes(new_trans)
\* is broadcast iff new_trans is not empty.
TxDone(w) ==
    /\ pc[w] = "txCheck"
    /\ k[w] > Len(msg[w].items)
    /\ toPeer' = IF acc[w] # << >>
                 THEN Append(toPeer, Msg("NewTransactionHashes", acc[w]))
                 ELSE toPeer
    /\ Idle(w)
    /\ UNCHANGED <<mempool, inbox, peerLog, genBuilt>>

\* The next transaction: one whose signature fails is skipped; otherwise
\* contains_key is asked under the lock, and a pooled one is skipped.
TxCheck(w) ==
    /\ pc[w] = "txCheck"
    /\ k[w] <= Len(msg[w].items)
    /\ LET t == msg[w].items[k[w]]
       IN  IF t \notin BadSig /\ t \notin mempool
           THEN /\ pc' = [pc EXCEPT ![w] = "txInsert"]
                /\ UNCHANGED k
           ELSE /\ k' = [k EXCEPT ![w] = @ + 1]
                /\ UNCHANGED pc
    /\ UNCHANGED <<mempool, inbox, toPeer, peerLog, genBuilt, msg, acc>>

\* The hash is pushed on new_trans, and the lock is taken again to insert.
TxInsert(w) ==
    /\ pc[w] = "txInsert"
    /\ LET t == msg[w].items[k[w]]
       IN  /\ acc' = [acc EXCEPT ![w] = Append(@, t)]
           /\ mempool' = mempool \cup {t}
    /\ k' = [k EXCEPT ![w] = @ + 1]
    /\ pc' = [pc EXCEPT ![w] = "txCheck"]
    /\ UNCHANGED <<inbox, toPeer, peerLog, genBuilt, msg>>

-----------------------------------------------------------------------------
(* The node's other mempool users.                                        *)

\* The generator's iteration that built t: inserted if contains_key finds
\* it absent, then announced with NewTransactionHashes([hash]).  The
\* generator builds each transaction once here; the rebuild after a tip
\* change is GenStep of MinerPipeline.
GenInsert(t) ==
    /\ t \notin genBuilt
    /\ genBuilt' = genBuilt \cup {t}
    /\ mempool' = mempool \cup {t}
    /\ toPeer' = Append(toPeer, Msg("NewTransactionHashes", << t >>))
    /\ UNCHANGED <<inbox, peerLog, pc, msg, k, acc>>

\* One iteration of the miner's removal loop after it found a block: a
\* transaction of its batch is removed from the mempool.  Which pooled
\* transactions were batched is MinerDrain of MinerPipeline.
MinerRemove(t) ==
    /\ t \in mempool
    /\ mempool' = mempool \ {t}
    /\ UNCHANGED <<inbox, toPeer, peerLog, genBuilt, pc, msg, k, acc>>

-----------------------------------------------------------------------------
(* The peer, as spec section 4.7 lets it behave.                            *)

\* Hashes this node has announced to the peer.
Announced == UNION {ToSet(toPeer[i].items) :
                       i \in {j \in 1 .. Len(toPeer) :
                                 toPeer[j].kind = "NewTransactionHashes"}}

PeerSend(m) ==
    /\ Len(peerLog) < MaxPeerMsgs
    /\ inbox' = Append(inbox, m)
    /\ peerLog' = Append(peerLog, m)
    /\ UNCHANGED <<mempool, toPeer, genBuilt, pc, msg, k, acc>>

PeerAnnounce == \E hs \in Lists(PeerTxs) : PeerSend(Msg("NewTransactionHashes", hs))

PeerRequest == \E hs \in Lists(Announced) : PeerSend(Msg("GetTransactions", hs))

PeerPush == \E ts \in Lists(Txs) : PeerSend(Msg("Transactions", ts))

-----------------------------------------------------------------------------

WorkerStep(w) ==
    \/ Receive(w)
    \/ GetReply(w) \/ GetHas(w) \/ GetMissing(w) \/ GetFetch(w)
    \/ TxDone(w) \/ TxCheck(w) \/ TxInsert(w)

Next ==
    \/ \E w \in Workers : WorkerStep(w)
    \/ \E t \in OwnTxs : GenInsert(t)
    \/ \E t \in Txs : MinerRemove(t)
    \/ PeerAnnounce \/ PeerRequest \/ PeerPush

\* The worker threads loop forever, and one blocked in recv wakes when a
\* message is queued; the peer, the generator and the miner are not forced.
Spec == Init /\ [][Next]_vars /\ \A w \in Workers : WF_vars(WorkerStep(w))

-----------------------------------------------------------------------------
(* Properties.                                                             *)

\* GetTransactions answers all or nothing (spec 4.7): every Transactions
\* message this node writes lists exactly the transactions of a
\* GetTransactions the peer sent, in its order, though the miner removes
\* transactions while the request is being served.
RepliesAllOrNothing ==
    \A i \in 1 .. Len(toPeer) :
        toPeer[i].kind = "Transactions" =>
            \E j \in 1 .. Len(peerLog) :
                /\ peerLog[j].kind = "GetTransactions"
                /\ peerLog[j].items = toPeer[i].items

\* A GetTransactions request never crashes the worker serving it: spec 4.7
\* says a request naming a transaction the mempool lacks gets no reply.
NoWorkerPanics == \A w \in Workers : pc[w] # "panicked"

\* A correctly signed transaction a peer announces eventually reaches the
\* mempool (spec 4.7: implementers SHOULD request unknown hashes).
AnnouncedTxsArrive ==
    \A t \in PeerTxs \ BadSig :
        (\E i \in 1 .. Len(peerLog) :
            peerLog[i].kind = "NewTransactionHashes" /\ t \in ToSet(peerLog[i].items))
        ~> t \in mempool

=============================================================================
