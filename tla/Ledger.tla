------------------------------- MODULE Ledger -------------------------------
(***************************************************************************)
(* The UTXO ledger of src/types/transaction.rs and the block validation   *)
(* check_tx_state shared by src/network/worker.rs and src/miner/worker.rs. *)
(*                                                                         *)
(* A SignedTransaction is a record: its transaction (input and output      *)
(* sequences), the signer's public key pk, and sigOk, whether the carried  *)
(* signature verifies under pk over the transaction's bytes (the Ed25519   *)
(* check of transaction::verify).  A transaction's hash is the record      *)
(* itself: distinct records have distinct hashes.  An outpoint is          *)
(* <<tx-hash, index>>; a State maps outpoints to [value, recipient_addr].  *)
(***************************************************************************)
EXTENDS Naturals, Sequences, SequencesExt

CONSTANTS
    AddressOf,  \* Address::from_public_key_bytes, public key |-> address
    ZeroHash,   \* the all-zeros H256 of the ICO outpoint
    U32         \* the modulus of u32 arithmetic: 2^32 in the code; a run
                \* may scale it down, TLC's integers being 32-bit signed

\* The ICO outpoint (all-zeros, 0) of State::new.
ICO == <<ZeroHash, 0>>

\* State::new(key0): one ICO output of 100 to the address of key0.
NewState(key0) == (ICO :> [value |-> 100, recipient_addr |-> AddressOf[key0]])

\* A signed transaction built from inputs and outputs by the key's owner.
Signed(inputs, outputs, key) ==
    [transaction |-> [input |-> inputs, output |-> outputs],
     pk |-> key, sigOk |-> TRUE]

\* sum_input: the values of the referenced outputs, one term per input in
\* the order they are listed; sum_output: the outputs' values.  Both are
\* u32 sums, which wrap modulo 2^32 in a release build (overflow checks
\* off).
SumInput(state, st) ==
    FoldLeft(LAMBDA acc, op : (acc + state[op].value) % U32, 0,
             st.transaction.input)

SumOutput(st) ==
    FoldLeft(LAMBDA acc, out : (acc + out.value) % U32, 0, st.transaction.output)

\* A faulty variant of TxValid, a plausible slip in the code, that the
\* value-conservation property is required to detect: no balance check.
TxValidNoSum(state, st) ==
    /\ st.sigOk
    /\ \A k \in 1..Len(st.transaction.input) :
          /\ st.transaction.input[k] \in DOMAIN state
          /\ state[st.transaction.input[k]].recipient_addr = AddressOf[st.pk]

\* The checks of one signed transaction in check_tx_state: the signature
\* verifies, every input is in the running state and owned by the signer's
\* address, and inputs cover outputs (sum_input < sum_output rejects).
TxValid(state, st) ==
    /\ st.sigOk
    /\ \A k \in 1..Len(st.transaction.input) :
          /\ st.transaction.input[k] \in DOMAIN state
          /\ state[st.transaction.input[k]].recipient_addr = AddressOf[st.pk]
    /\ ~(SumInput(state, st) < SumOutput(st))

\* The state update of check_tx_state (and of the generator's local copy):
\* remove every spent input, insert output k as (st.hash(), k as u8).
UpdateState(state, st) ==
    LET outs  == st.transaction.output
        spent == ToSet(st.transaction.input)
        new   == {<<st, k - 1>> : k \in 1..Len(outs)}
    IN  [op \in (DOMAIN state \ spent) \cup new |->
            IF op \in new THEN outs[op[2] + 1] ELSE state[op]]

\* check_tx_state(parent_state, txs): the transactions in order against a
\* running copy of the parent's state; the first failing one rejects the
\* block.  valid = FALSE leaves the state index untouched.
RECURSIVE CheckTxState(_, _)
CheckTxState(state, txs) ==
    IF txs = <<>> THEN [valid |-> TRUE, state |-> state]
    ELSE IF TxValid(state, Head(txs))
         THEN CheckTxState(UpdateState(state, Head(txs)), Tail(txs))
         ELSE [valid |-> FALSE, state |-> state]

\* Output::pass_check(balance, peer_addrs): three parts v1, v2, v3, or the
\* whole balance to the first peer when any part is zero.
PassCheck(balance, peerAddrs) ==
    LET v1 == balance \div 3
        v2 == (balance - v1) \div 2
        v3 == balance - v1 - v2
    IN  IF v1 = 0 \/ v2 = 0 \/ v3 = 0
        THEN <<[recipient_addr |-> peerAddrs[1], value |-> balance]>>
        ELSE <<[recipient_addr |-> peerAddrs[1], value |-> v1],
               [recipient_addr |-> peerAddrs[2], value |-> v2],
               [recipient_addr |-> peerAddrs[2], value |-> v3]>>

\* The total value held by a state.
Total(state) == MapThenSumSet(LAMBDA op : state[op].value, DOMAIN state)
=============================================================================
