------------------------- MODULE Transactions -------------------------
(***************************************************************************)
(* The pure rules of the ledger: UTXO sets, regular transactions, the      *)
(* coinbase, blocks and the replay of a chain (transaction/, mining/ and   *)
(* blockchain/validation.py, blockchain/chainstate.py).                    *)
(*                                                                         *)
(* Data.  A txid is SHA-256 over the signed transaction, so it names its   *)
(* content.  A regular transaction carries its txid as a field and         *)
(* TxidNamesContent assumes there are no collisions; the txid of a         *)
(* coinbase is built from what it commits to (timestamp, recipient and     *)
(* amount), because two coinbases with the same three values DO collide    *)
(* and the code has to reject the second.  A block hash is likewise the    *)
(* tuple of what the header commits to.                                    *)
(*   well_formed : the version, type and format checks on a transaction    *)
(*   verified    : the signature of an input verifies under its key        *)
(*   address     : the address of that public key                         *)
(*   header_ok   : version, difficulty, nonce range, declared Merkle root  *)
(*                 and proof of work of a block                            *)
(***************************************************************************)
EXTENDS Integers, Sequences, SequencesExt

CONSTANTS
    Addresses,              \* the well-formed addresses
    Transactions,           \* the regular transactions that may be seen
    MAX_FUTURE_BLOCK_TIME   \* two hours in the code

\* The reward of a block before fees, and the txid-less result of a check.
BLOCK_SUBSIDY == 50

NoFee == -1

TxidOf(txs) == [i \in DOMAIN txs |-> txs[i].txid]

ASSUME TxidNamesContent ==
    \A s, t \in Transactions : s.txid = t.txid => s = t

\* A regular transaction has inputs, and no hash collides with a coinbase's.
ASSUME TxidNotCoinbase ==
    \A t \in Transactions : t.txid[1] # "coinbase"

\* What the type checks of Transaction, TxInput and TxOutput guarantee.
ASSUME TransactionShape ==
    \A t \in Transactions :
        /\ t.inputs \in Seq(ToSet(t.inputs))
        /\ t.outputs \in Seq(ToSet(t.outputs))
        /\ \A i \in DOMAIN t.outputs : t.outputs[i].amount \in Int
        /\ t.size \in Nat \ {0}

ASSUME FutureAssumption == MAX_FUTURE_BLOCK_TIME \in Nat

-----------------------------------------------------------------------------
(* UTXO sets: functions from outpoints <<txid, index>> to outputs.  Output   *)
(* indices start at 0, as in the code.                                       *)

EmptyUTXOSet == [o \in {} |-> <<>>]

Spent(tx) == {tx.inputs[i].outpoint : i \in DOMAIN tx.inputs}

Outpoints(tx) == {<<tx.txid, i - 1>> : i \in DOMAIN tx.outputs}

AddOutputs(tx, utxos) ==
    [o \in DOMAIN utxos \cup Outpoints(tx) |->
        IF o \in Outpoints(tx) THEN tx.outputs[o[2] + 1] ELSE utxos[o]]

\* The exceptions apply_valid_transaction raises before it changes anything.
Applicable(tx, utxos) ==
    /\ \A i, j \in DOMAIN tx.inputs :
          tx.inputs[i].outpoint = tx.inputs[j].outpoint => i = j
    /\ Spent(tx) \subseteq DOMAIN utxos
    /\ Outpoints(tx) \cap DOMAIN utxos = {}

\* Mutant: the outputs spent are not removed.
ApplyTransactionKeepsInputs(tx, utxos) == AddOutputs(tx, utxos)

ApplyTransaction(tx, utxos) ==
    AddOutputs(tx, [o \in DOMAIN utxos \ Spent(tx) |-> utxos[o]])

Total(utxos) == SumFunction([o \in DOMAIN utxos |-> utxos[o].amount])

-----------------------------------------------------------------------------
(* Regular transactions.                                                     *)

IsValidOutput(out) == out.amount > 0 /\ out.recipient \in Addresses

OutputTotal(tx) ==
    SumFunction([i \in DOMAIN tx.outputs |-> tx.outputs[i].amount])

InputTotal(tx, utxos) ==
    SumFunction([i \in DOMAIN tx.inputs |-> utxos[tx.inputs[i].outpoint].amount])

\* Every rule of a regular transaction except that it may not overspend.
Authorised(tx, utxos) ==
    /\ tx.well_formed
    /\ tx.inputs # <<>>
    /\ tx.outputs # <<>>
    /\ \A i \in DOMAIN tx.outputs : IsValidOutput(tx.outputs[i])
    /\ \A i, j \in DOMAIN tx.inputs :
          tx.inputs[i].outpoint = tx.inputs[j].outpoint => i = j
    /\ \A i \in DOMAIN tx.inputs :
          LET in == tx.inputs[i]
          IN  /\ in.outpoint \in DOMAIN utxos
              /\ IsValidOutput(utxos[in.outpoint])
              /\ in.address = utxos[in.outpoint].recipient
              /\ in.verified

\* The fee, or NoFee when the transaction is invalid against this UTXO set.
ValidatedFee(tx, utxos) ==
    IF Authorised(tx, utxos) /\ InputTotal(tx, utxos) >= OutputTotal(tx)
    THEN InputTotal(tx, utxos) - OutputTotal(tx)
    ELSE NoFee

\* One round of the loop of apply_transactions; a failed batch stays failed.
ApplyNext(batch, tx) ==
    IF /\ batch.ok
       /\ ValidatedFee(tx, batch.utxos) # NoFee
       /\ tx.txid \notin batch.seen
       /\ Applicable(tx, batch.utxos)
    THEN [ok |-> TRUE,
          utxos |-> ApplyTransaction(tx, batch.utxos),
          seen |-> batch.seen \cup {tx.txid},
          fees |-> batch.fees + ValidatedFee(tx, batch.utxos)]
    ELSE [batch EXCEPT !.ok = FALSE]

ApplyTransactions(txs, state) ==
    FoldLeft(ApplyNext,
             [ok |-> TRUE, utxos |-> state.utxos, seen |-> state.seen,
              fees |-> 0],
             txs)

-----------------------------------------------------------------------------
(* The coinbase.                                                             *)

CreateCoinbase(address, timestamp, amount) ==
    [txid |-> <<"coinbase", timestamp, address, amount>>,
     inputs |-> <<>>,
     outputs |-> <<[amount |-> amount, recipient |-> address]>>,
     timestamp |-> timestamp,
     well_formed |-> TRUE]

ValidateCoinbaseStructure(tx, block_timestamp) ==
    /\ tx.inputs = <<>>
    /\ tx.well_formed
    /\ tx.timestamp = block_timestamp
    /\ Len(tx.outputs) = 1
    /\ IsValidOutput(tx.outputs[1])

ValidateCoinbase(tx, block_timestamp, total_fees) ==
    /\ ValidateCoinbaseStructure(tx, block_timestamp)
    /\ tx.outputs[1].amount <= BLOCK_SUBSIDY + total_fees

-----------------------------------------------------------------------------
(* Blocks.                                                                   *)

GENESIS ==
    [previous_block_hash |-> <<>>, timestamp |-> 0, transactions |-> <<>>,
     header_ok |-> TRUE]

BlockHash(block) ==
    <<block.previous_block_hash, block.timestamp, TxidOf(block.transactions),
      block.header_ok>>

EmptyState == [utxos |-> EmptyUTXOSet, seen |-> {}]

ValidateBlockStructure(block) ==
    /\ block.header_ok
    /\ IsInjective(TxidOf(block.transactions))

ValidateBody(block) ==
    /\ block.transactions # <<>>
    /\ ValidateCoinbaseStructure(block.transactions[1], block.timestamp)
    /\ \A i \in 2..Len(block.transactions) :
          block.transactions[i].inputs # <<>>

ValidateBlockHeader(block, previous, now) ==
    /\ ValidateBlockStructure(previous)
    /\ ValidateBlockStructure(block)
    /\ block.previous_block_hash = BlockHash(previous)
    /\ block.timestamp >= previous.timestamp
    /\ block.timestamp <= now + MAX_FUTURE_BLOCK_TIME
    /\ ValidateBody(block)

\* Mutant: the coinbase is not recorded among the confirmed txids.
ApplyBlockForgetsCoinbase(block, state) ==
    LET coinbase == Head(block.transactions)
        batch == ApplyTransactions(Tail(block.transactions), state)
    IN  [ok |-> /\ batch.ok
                /\ ValidateCoinbase(coinbase, block.timestamp, batch.fees),
         state |-> [utxos |-> AddOutputs(coinbase, batch.utxos),
                    seen |-> batch.seen]]

\* The state after the block; ok is FALSE where the code returns None.  The
\* outputs of the coinbase are added last: they cannot fund this block.
ApplyBlockTransactions(block, state) ==
    LET coinbase == Head(block.transactions)
        batch == ApplyTransactions(Tail(block.transactions), state)
    IN  [ok |-> /\ coinbase.txid \notin state.seen
                /\ batch.ok
                /\ coinbase.txid \notin batch.seen
                /\ ValidateCoinbase(coinbase, block.timestamp, batch.fees)
                /\ Outpoints(coinbase) \cap DOMAIN batch.utxos = {},
         state |-> [utxos |-> AddOutputs(coinbase, batch.utxos),
                    seen |-> batch.seen \cup {coinbase.txid}]]

ValidBlock(block, previous, state, now) ==
    /\ ValidateBlockHeader(block, previous, now)
    /\ ApplyBlockTransactions(block, state).ok

\* rebuild_chain_state: replay from genesis, whatever state was cached.
ReplayNext(blocks, now, replay, i) ==
    IF /\ replay.ok
       /\ ValidBlock(blocks[i], blocks[i - 1], replay.state, now)
       /\ \A j \in 1..(i - 1) : BlockHash(blocks[j]) # BlockHash(blocks[i])
    THEN [ok |-> TRUE,
          state |-> ApplyBlockTransactions(blocks[i], replay.state).state]
    ELSE [replay EXCEPT !.ok = FALSE]

RebuildChainState(blocks, now) ==
    FoldLeft(LAMBDA replay, i : ReplayNext(blocks, now, replay, i),
             [ok |-> blocks # <<>> /\ blocks[1] = GENESIS, state |-> EmptyState],
             [i \in 1..(Len(blocks) - 1) |-> i + 1])

\* create_block_template; ok is FALSE where it raises ValueError.
CreateBlockTemplate(previous, address, txs, timestamp, state) ==
    LET batch == ApplyTransactions(txs, state)
        coinbase == CreateCoinbase(address, timestamp, BLOCK_SUBSIDY + batch.fees)
    IN  [ok |-> /\ timestamp >= previous.timestamp
                /\ \A i \in DOMAIN txs : txs[i].inputs # <<>>
                /\ batch.ok
                /\ address \in Addresses
                /\ coinbase.txid \notin batch.seen,
         block |-> [previous_block_hash |-> BlockHash(previous),
                    timestamp |-> timestamp,
                    transactions |-> <<coinbase>> \o txs,
                    header_ok |-> TRUE]]

\* The timestamp a template gets when the caller names none.
DefaultTimestamp(previous, now) ==
    IF now > previous.timestamp THEN now ELSE previous.timestamp + 1
=============================================================================
