------------------------ MODULE BlockchainProofs ------------------------
(***************************************************************************)
(* Theorems about Blockchain, for any set of transactions, any blocks and  *)
(* any length of the chain.                                                *)
(***************************************************************************)
EXTENDS Blockchain, LedgerLemmas

-----------------------------------------------------------------------------
(* The inductive invariant: the confirmed state is the history of the chain, *)
(* and the chain can be replayed from genesis to that state.                 *)

TxMap == [p \in Positions |-> TxAt(p)]

IInv ==
    /\ \E S : blocks \in Seq(S)
    /\ Len(blocks) >= 1
    /\ History(TxMap, Positions, state.utxos, state.seen)
    /\ \E sts : Replayed(blocks, sts) /\ sts[Len(blocks)] = state

\* The genesis chain has the empty history.
LEMMA InitIInv == Init => IInv
  <1> SUFFICES ASSUME Init PROVE IInv
    OBVIOUS
  <1>1. blocks = <<GENESIS>> /\ state = EmptyState
    BY DEF Init
  <1>2. blocks \in Seq({GENESIS}) /\ Len(blocks) = 1 /\ blocks[1] = GENESIS
    BY <1>1
  <1>3. Positions = {}
    <2>1. \A i \in DOMAIN blocks : DOMAIN blocks[i].transactions = {}
      BY <1>1 DEF GENESIS
    <2> QED BY <2>1 DEF Positions
  <1>4. state.seen = {} /\ DOMAIN state.utxos = {}
    BY <1>1 DEF EmptyState, EmptyUTXOSet
  <1>5. History(TxMap, Positions, state.utxos, state.seen)
    BY <1>3, <1>4 DEF History, Created, SpentBy, Once, Funded
  <1>6. \E sts : Replayed(blocks, sts) /\ sts[Len(blocks)] = state
    <2>1. Replayed(blocks, <<EmptyState>>)
      BY <1>2 DEF Replayed
    <2> QED BY <1>1, <1>2, <2>1
  <1> QED BY <1>2, <1>5, <1>6 DEF IInv

\* A new block adds the positions of its own transactions.
LEMMA BlockPositions ==
    ASSUME IInv, NEW block, blocks' = Append(blocks, block), NEW m, m = Len(blocks) + 1
    PROVE  /\ Positions' = Positions \cup Row(m, DOMAIN block.transactions)
           /\ \A p \in Positions : p[1] \in Nat /\ p[1] < m /\ TxMap'[p] = TxMap[p]
           /\ \A j \in DOMAIN block.transactions :
                 TxMap'[<<m, j>>] = block.transactions[j]
  <1> DEFINE body == block.transactions
  <1>1. PICK S : blocks \in Seq(S)
    BY DEF IInv
  <1>2. /\ Len(blocks) \in Nat
        /\ \A i \in 1 .. Len(blocks) : blocks'[i] = blocks[i]
        /\ blocks'[m] = block
        /\ DOMAIN blocks = 1 .. Len(blocks)
        /\ DOMAIN blocks' = 1 .. m
    BY <1>1, AppendFacts
  <1> HIDE DEF body
  <1>3. Positions' = Positions \cup Row(m, DOMAIN body)
    <2>1. DOMAIN blocks' = DOMAIN blocks \cup {m}
      BY <1>2
    <2>2. \A i \in DOMAIN blocks : blocks'[i].transactions = blocks[i].transactions
      BY <1>2
    <2>3. blocks'[m].transactions = body
      BY <1>2 DEF body
    <2> QED BY <2>1, <2>2, <2>3 DEF Positions, Row
  <1>4. \A p \in Positions : p[1] \in Nat /\ p[1] < m
    <2>1. \A i \in DOMAIN blocks : i \in Nat /\ i < m
      BY <1>2
    <2> QED BY <2>1 DEF Positions
  <1>5. \A p \in Positions : TxMap'[p] = TxMap[p]
    <2>1. ASSUME NEW p \in Positions PROVE TxAt(p)' = TxAt(p)
      <3>1. p[1] \in DOMAIN blocks
        BY DEF Positions
      <3> QED BY <1>2, <3>1 DEF TxAt
    <2> QED BY <1>3, <2>1 DEF TxMap
  <1>6. \A j \in DOMAIN body : TxMap'[<<m, j>>] = body[j]
    <2>1. ASSUME NEW j \in DOMAIN body PROVE TxMap'[<<m, j>>] = body[j]
      <3>1. <<m, j>> \in Positions'
        BY <1>3 DEF Row
      <3>2. TxMap'[<<m, j>>] = TxAt(<<m, j>>)'
        BY <3>1 DEF TxMap
      <3>3. TxAt(<<m, j>>)' = blocks'[m].transactions[j]
        BY DEF TxAt
      <3> QED BY <1>2, <3>2, <3>3 DEF body
    <2> QED BY <2>1
  <1> QED BY <1>3, <1>4, <1>5, <1>6 DEF body

\* add_block keeps the invariant: the new block extends the history and the
\* replay, and no earlier position changes.
LEMMA AddBlockIInv ==
    ASSUME IInv, NEW block \in Candidates(blocks), AddBlock(block)
    PROVE  IInv'
  <1>0. PICK m : m = Len(blocks) + 1
    OBVIOUS
  <1> DEFINE body == block.transactions
  <1>1. PICK S : blocks \in Seq(S)
    BY DEF IInv
  <1>2. /\ Accepts(blocks, state, now, block)
        /\ blocks' = Append(blocks, block)
        /\ state' = StateAfter(state, block)
    BY DEF AddBlock
  <1>3. /\ blocks' \in Seq(S \cup {block})
        /\ Len(blocks') = m
        /\ \A i \in 1 .. Len(blocks) : blocks'[i] = blocks[i]
        /\ blocks'[m] = block
        /\ DOMAIN blocks = 1 .. Len(blocks)
        /\ DOMAIN blocks' = 1 .. m
    BY <1>0, <1>1, <1>2, AppendFacts
  <1>4. Len(blocks) \in Nat /\ Len(blocks) >= 1 /\ m = Len(blocks) + 1
    BY <1>0, <1>1 DEF IInv
  <1>5. block.timestamp \in Nat /\ \E B : body \in Seq(B)
    BY CandidateFacts
  <1>6. /\ ValidBlock(block, blocks[Len(blocks)], state, now)
        /\ \A i \in DOMAIN blocks : BlockHash(blocks[i]) # BlockHash(block)
    BY <1>2 DEF Accepts
  <1>7. ValidateBody(block) /\ ApplyBlockTransactions(block, state).ok
    BY <1>6 DEF ValidBlock, ValidateBlockHeader
  <1> HIDE DEF body
  <1>8. /\ Positions' = Positions \cup Row(m, DOMAIN body)
        /\ \A p \in Positions : p[1] \in Nat /\ p[1] < m /\ TxMap'[p] = TxMap[p]
        /\ \A j \in DOMAIN body : TxMap'[<<m, j>>] = body[j]
    BY <1>0, <1>2, BlockPositions DEF body
  <1>9. PICK T : T = TxMap'
    OBVIOUS
  <1>10. History(T, Positions, state.utxos, state.seen)
    <2>1. History(TxMap, Positions, state.utxos, state.seen)
      BY DEF IInv
    <2>2. \A p \in Positions : T[p] = TxMap[p]
      BY <1>8, <1>9
    <2> HIDE DEF TxMap
    <2> QED BY <2>1, <2>2, HistoryDepends
  <1>11. History(T, Positions \cup Row(m, DOMAIN body),
                 StateAfter(state, block).utxos, StateAfter(state, block).seen)
    <2>1. PICK B : body \in Seq(B)
      BY <1>5
    <2>2. \A j \in DOMAIN body : T[<<m, j>>] = body[j]
      BY <1>8, <1>9
    <2>3. m \in Nat
      BY <1>4
    <2> QED BY <1>7, <1>8, <1>10, <2>1, <2>2, <2>3, BlockExtendsHistory, Zenon DEF body
  <1>12. History(TxMap, Positions, state.utxos, state.seen)'
    BY <1>2, <1>8, <1>9, <1>11
  <1>13. (\E sts : Replayed(blocks, sts) /\ sts[Len(blocks)] = state)'
    <2>1. PICK sts : Replayed(blocks, sts) /\ sts[Len(blocks)] = state
      BY DEF IInv
    <2>2. \E new : Replayed(Append(blocks, block), new)
                    /\ new[Len(blocks) + 1] = StateAfter(state, block)
      BY <1>1, <1>2, <1>4, <2>1, ReplayGrows
    <2> QED BY <1>0, <1>2, <1>3, <2>2
  <1> QED BY <1>3, <1>4, <1>12, <1>13 DEF IInv

\* Submissions and removals leave the chain alone; a block extends its history.
LEMMA StepIInv == IInv /\ [Next]_vars => IInv'
  <1> SUFFICES ASSUME IInv, [Next]_vars PROVE IInv'
    OBVIOUS
  <1>1. CASE UNCHANGED <<blocks, state>>
    <2>1. Positions' = Positions /\ TxMap' = TxMap
      BY <1>1 DEF Positions, TxMap, TxAt
    <2>2. /\ (\E S : blocks \in Seq(S))' /\ (Len(blocks) >= 1)'
          /\ (\E sts : Replayed(blocks, sts) /\ sts[Len(blocks)] = state)'
      BY <1>1 DEF IInv
    <2>3. History(TxMap, Positions, state.utxos, state.seen)'
      BY <1>1, <2>1 DEF IInv
    <2> QED BY <2>2, <2>3 DEF IInv
  <1>2. ASSUME NEW tx \in Transactions, SubmitTransaction(tx) PROVE IInv'
    BY <1>1, <1>2 DEF SubmitTransaction
  <1>3. ASSUME NEW txid \in PendingTxids(mempool), RemovePendingTransaction(txid)
        PROVE  IInv'
    BY <1>1, <1>3 DEF RemovePendingTransaction
  <1>4. ASSUME NEW block \in Candidates(blocks), AddBlock(block) PROVE IInv'
    BY <1>4, AddBlockIInv
  <1>5. ASSUME NEW time \in Times, SetClock(time) PROVE IInv'
    BY <1>1, <1>5 DEF SetClock
  <1>6. CASE UNCHANGED vars
    BY <1>1, <1>6 DEF vars
  <1> QED BY <1>2, <1>3, <1>4, <1>5, <1>6 DEF Next

\* The confirmed state is the history of the chain after any sequence of
\* submissions, removals, blocks and clock steps.
THEOREM Invariance == Spec => []IInv
  BY InitIInv, StepIInv, PTL DEF Spec

\* No output is spent twice and no txid confirmed twice, in or across blocks,
\* and everything spent was created earlier (apply_transactions and
\* apply_block_transactions over a whole chain).
THEOREM NoDoubleSpendTheorem == Spec => []NoDoubleSpend
  <1>1. IInv => NoDoubleSpend
    <2> SUFFICES ASSUME IInv PROVE NoDoubleSpend
      OBVIOUS
    <2>1. Once(TxMap, Positions) /\ Funded(TxMap, Positions)
      BY DEF IInv, History
    <2>2. \A p \in Positions : TxMap[p] = TxAt(p)
      BY DEF TxMap
    <2> HIDE DEF TxMap
    <2>3. \A q \in Positions : \A p \in Positions \ {q} :
              /\ TxAt(p).txid # TxAt(q).txid
              /\ Spent(TxAt(p)) \cap Spent(TxAt(q)) = {}
      BY <2>1, <2>2 DEF Once
    <2>4. \A q \in Positions : \A o \in Spent(TxAt(q)) :
              \E p \in Positions : o \in Outpoints(TxAt(p)) /\ Earlier(p, q)
      BY <2>1, <2>2 DEF Funded
    <2> QED BY <2>3, <2>4 DEF NoDoubleSpend, Before, Earlier
  <1> QED BY <1>1, Invariance, PTL

\* The cached UTXO set is what the blocks say, and validate_chain rebuilds it
\* whenever the clock admits every timestamp of the chain.
THEOREM StateIsHistoryTheorem == Spec => []StateIsHistory
  <1>1. IInv => StateIsHistory
    <2> SUFFICES ASSUME IInv PROVE StateIsHistory
      OBVIOUS
    <2> DEFINE created == UNION {Outpoints(TxAt(p)) : p \in Positions}
               spent == UNION {Spent(TxAt(p)) : p \in Positions}
    <2>1. \A p \in Positions : TxMap[p] = TxAt(p)
      BY DEF TxMap
    <2>2. Created(TxMap, Positions) = created /\ SpentBy(TxMap, Positions) = spent
      BY <2>1 DEF Created, SpentBy
    <2>3. {TxMap[p].txid : p \in Positions} = {TxAt(p).txid : p \in Positions}
      BY <2>1
    <2> HIDE DEF created, spent, TxMap
    <2>4. /\ DOMAIN state.utxos = created \ spent
          /\ state.seen = {TxAt(p).txid : p \in Positions}
          /\ \A p \in Positions : \A o \in Outpoints(TxAt(p)) \ spent :
                state.utxos[o] = TxAt(p).outputs[o[2] + 1]
      BY <2>1, <2>2, <2>3 DEF IInv, History
    <2>5. ASSUME NEW time \in Times
          PROVE  LET replay == RebuildChainState(blocks, time)
                 IN  /\ replay.ok <=>
                           \A i \in 2 .. Len(blocks) :
                               blocks[i].timestamp <= time + MAX_FUTURE_BLOCK_TIME
                     /\ replay.ok => replay.state = state
      <3>1. PICK S : blocks \in Seq(S)
        BY DEF IInv
      <3>2. PICK sts : Replayed(blocks, sts) /\ sts[Len(blocks)] = state
        BY DEF IInv
      <3>3. Len(blocks) \in Nat \ {0} /\ blocks # <<>>
        BY <3>1 DEF IInv
      <3>4. time \in Nat
        BY TimesAssumption
      <3> QED BY <3>2, <3>3, <3>4, ReplayReproduces
    <2> QED BY <2>4, <2>5 DEF StateIsHistory, created, spent
  <1> QED BY <1>1, Invariance, PTL

-----------------------------------------------------------------------------
(* The inductive invariant: on top of that of the chain, the confirmed state *)
(* is sound and the pool follows it.                                         *)

PoolIInv ==
    /\ IInv
    /\ Sound(state.utxos)
    /\ Follows(mempool, state.utxos, state.seen)

\* The first pool is the empty one of the empty state.
LEMMA InitPoolIInv == Init => PoolIInv
  <1> SUFFICES ASSUME Init PROVE PoolIInv
    OBVIOUS
  <1>1. IInv
    BY InitIInv
  <1>2. state = EmptyState /\ mempool = NewMempool(EmptyState)
    BY DEF Init
  <1>3. Sound(EmptyState.utxos) /\ DOMAIN EmptyState.utxos = {}
    BY FS_EmptySet DEF EmptyState, EmptyUTXOSet, Sound
  <1>4. Rooted(EmptyState.utxos, EmptyState.seen)
    BY <1>3 DEF Rooted
  <1>5. Follows(NewMempool(EmptyState), EmptyState.utxos, EmptyState.seen)
    BY <1>4, NewFollows
  <1> QED BY <1>1, <1>2, <1>3, <1>5 DEF PoolIInv

\* Every operation leaves a pool of admitted entries over the confirmed state.
LEMMA StepPoolIInv == PoolIInv /\ [Next]_vars => PoolIInv'
  <1> SUFFICES ASSUME PoolIInv, [Next]_vars PROVE PoolIInv'
    OBVIOUS
  <1>1. IInv'
    BY StepIInv DEF PoolIInv
  <1>2. Rooted(state.utxos, state.seen) /\ Sound(state.utxos)
    BY HistoryRooted DEF PoolIInv, IInv
  <1>3. Follows(mempool, state.utxos, state.seen)
    BY DEF PoolIInv
  <1>4. ASSUME NEW tx \in Transactions, SubmitTransaction(tx) PROVE PoolIInv'
    <2>1. mempool' = AddTransaction(mempool, tx) /\ state' = state
      BY <1>4 DEF SubmitTransaction
    <2>2. Follows(AddTransaction(mempool, tx), state.utxos, state.seen)
      BY <1>2, <1>3, AddFollows
    <2> QED BY <1>1, <1>2, <2>1, <2>2 DEF PoolIInv
  <1>5. ASSUME NEW txid \in PendingTxids(mempool), RemovePendingTransaction(txid)
        PROVE  PoolIInv'
    <2>1. mempool' = RemoveTransaction(mempool, txid) /\ state' = state
      BY <1>5 DEF RemovePendingTransaction
    <2>2. PICK st : st = [utxos |-> mempool.confirmed, seen |-> mempool.seen]
      OBVIOUS
    <2>3. st.utxos = state.utxos /\ st.seen = state.seen
      BY <1>3, <2>2 DEF Follows
    <2>4. PICK n \in Nat :
              /\ DOMAIN GetTransactions(mempool) = 1 .. n
              /\ \A k \in 1 .. n : GetTransactions(mempool)[k] \in Transactions
      BY <1>3, PoolTransactions DEF Follows
    <2>5. PICK new : new = Rebuild(GetTransactions(mempool), {txid}, st)
      OBVIOUS
    <2>6. Follows(new, state.utxos, state.seen)
      <3>1. Rooted(st.utxos, st.seen)
        BY <1>2, <2>3
      <3>2. Follows(new, st.utxos, st.seen)
        BY <2>4, <2>5, <3>1, RebuildFollows
      <3> QED BY <2>3, <3>2
    <2>7. mempool' = [mempool EXCEPT !.entries = new.entries,
                                     !.working = new.working,
                                     !.total_bytes = new.total_bytes]
      BY <2>1, <2>2, <2>5 DEF RemoveTransaction, HasTransaction
    <2>8. /\ DOMAIN mempool' = Fields
          /\ mempool'.confirmed = mempool.confirmed /\ mempool'.seen = mempool.seen
          /\ mempool'.entries = new.entries /\ mempool'.working = new.working
          /\ mempool'.total_bytes = new.total_bytes
      <3>1. DOMAIN mempool = Fields
        BY <1>3 DEF Follows
      <3> QED BY <2>7, <3>1 DEF Fields
    <2>9. Follows(mempool', state.utxos, state.seen)
      BY <1>3, <2>6, <2>8 DEF Follows
    <2> QED BY <1>1, <1>2, <2>1, <2>9 DEF PoolIInv
  <1>6. ASSUME NEW block \in Candidates(blocks), AddBlock(block) PROVE PoolIInv'
    <2>1. /\ Accepts(blocks, state, now, block)
          /\ state' = StateAfter(state, block)
          /\ mempool' = Revalidated(mempool, StateAfter(state, block))
      BY <1>6 DEF AddBlock
    <2>2. ValidateBody(block) /\ ApplyBlockTransactions(block, state).ok
      BY <2>1 DEF Accepts, ValidBlock, ValidateBlockHeader
    <2>3. Sound(state'.utxos)
      BY <1>2, <2>1, <2>2, CandidateFacts, BlockConserves
    <2>4. Rooted(state'.utxos, state'.seen)
      BY <1>1, <2>3, HistoryRooted DEF IInv
    <2>5. PICK n \in Nat :
              /\ DOMAIN GetTransactions(mempool) = 1 .. n
              /\ \A k \in 1 .. n : GetTransactions(mempool)[k] \in Transactions
      BY <1>3, PoolTransactions DEF Follows
    <2>6. PICK st : st = StateAfter(state, block)
      OBVIOUS
    <2>7. Follows(Rebuild(GetTransactions(mempool), st.seen, st), st.utxos, st.seen)
      BY <2>1, <2>4, <2>5, <2>6, RebuildFollows
    <2> QED BY <1>1, <2>1, <2>3, <2>6, <2>7 DEF PoolIInv, Revalidated
  <1>7. ASSUME NEW time \in Times, SetClock(time) PROVE PoolIInv'
    BY <1>1, <1>2, <1>3, <1>7 DEF SetClock, PoolIInv
  <1>8. CASE UNCHANGED vars
    BY <1>1, <1>2, <1>3, <1>8 DEF vars, PoolIInv
  <1> QED BY <1>4, <1>5, <1>6, <1>7, <1>8 DEF Next

\* The pool follows the ledger after any sequence of submissions, removals,
\* blocks and clock steps.
THEOREM PoolInvariance == Spec => []PoolIInv
  BY InitPoolIInv, StepPoolIInv, PTL DEF Spec

\* Fees are only moved, and a coinbase takes at most the fees and one subsidy
\* (apply_transactions, validate_coinbase): money is made by the block.
THEOREM SupplyTheorem == Spec => []SupplyBounded
  <1>1. Init => SupplyBounded
    <2> SUFFICES ASSUME Init PROVE SupplyBounded
      OBVIOUS
    <2>1. PICK f : f = [o \in DOMAIN state.utxos |-> state.utxos[o].amount]
      OBVIOUS
    <2>2. Len(blocks) = 1 /\ DOMAIN f = {}
      BY <2>1 DEF Init, EmptyState, EmptyUTXOSet
    <2>3. Total(state.utxos) = 0
      BY <2>1, <2>2, SumOfNothing DEF Total
    <2> QED BY <2>2, <2>3 DEF SupplyBounded, BLOCK_SUBSIDY
  <1>2. SupplyBounded /\ PoolIInv /\ [Next]_vars => SupplyBounded'
    <2> SUFFICES ASSUME SupplyBounded, PoolIInv, [Next]_vars PROVE SupplyBounded'
      OBVIOUS
    <2>1. CASE UNCHANGED <<blocks, state>>
      BY <2>1 DEF SupplyBounded, Total
    <2>2. ASSUME NEW block \in Candidates(blocks), AddBlock(block) PROVE SupplyBounded'
      <3>1. /\ ValidateBody(block) /\ ApplyBlockTransactions(block, state).ok
            /\ state' = StateAfter(state, block) /\ blocks' = Append(blocks, block)
        BY <2>2 DEF AddBlock, Accepts, ValidBlock, ValidateBlockHeader
      <3>2. /\ Sound(state.utxos) /\ Sound(state'.utxos)
            /\ Total(state'.utxos) <= Total(state.utxos) + BLOCK_SUBSIDY
        BY <3>1, CandidateFacts, BlockConserves DEF PoolIInv
      <3>3. Len(blocks) \in Nat /\ Len(blocks') = Len(blocks) + 1
        BY <3>1 DEF PoolIInv, IInv
      <3>4. Total(state.utxos) \in Int /\ Total(state'.utxos) \in Int
        BY <3>2, TotalType
      <3>5. Total(state.utxos) <= 50 * (Len(blocks) - 1)
        BY DEF SupplyBounded, BLOCK_SUBSIDY
      <3>6. Total(state'.utxos) <= 50 * (Len(blocks') - 1)
        BY <3>2, <3>3, <3>4, <3>5 DEF BLOCK_SUBSIDY
      <3>7. Total(state.utxos)' = Total(state'.utxos)
        BY DEF Total
      <3> QED BY <3>6, <3>7 DEF SupplyBounded, BLOCK_SUBSIDY
    <2> QED BY <2>1, <2>2 DEF Next, vars, SubmitTransaction, RemovePendingTransaction,
                              SetClock
  <1> QED BY <1>1, <1>2, PoolInvariance, PTL DEF Spec

\* Nothing pending is confirmed, conflicts with another entry or comes before
\* its parent; reservations, running totals, limits and fees are exact, so no
\* money is made or lost between the confirmed state and the pool
\* (add_transaction, remove_transaction and revalidated).
THEOREM PoolTheorem == Spec => []PoolFollowsLedger
  <1>1. PoolIInv => PoolFollowsLedger
    <2> SUFFICES ASSUME PoolIInv PROVE PoolFollowsLedger
      OBVIOUS
    <2> DEFINE es == mempool.entries
    <2>1. /\ mempool.confirmed = state.utxos
          /\ mempool.seen = state.seen
          /\ es \in Seq(Entries)
          /\ Exclusive(es, state.seen)
          /\ Backed(es, state.utxos)
          /\ DOMAIN mempool.working = (DOMAIN state.utxos \cup Made(es)) \ Used(es)
          /\ Bounded(es, mempool.total_bytes)
          /\ Balanced(es, mempool.working, state.utxos)
      BY DEF PoolIInv, Follows
    <2>2. PendingTxids(mempool) \cap state.seen = {}
      <3>1. PendingTxids(mempool) = {es[i].transaction.txid : i \in DOMAIN es}
        BY DEF PendingTxids, TxidOf, GetTransactions, ToSet
      <3> QED BY <2>1, <3>1 DEF Exclusive
    <2>3. \A i, j \in DOMAIN es :
              i # j => /\ Entry(i).transaction.txid # Entry(j).transaction.txid
                       /\ Spent(Entry(i).transaction)
                              \cap Spent(Entry(j).transaction) = {}
      BY <2>1 DEF Exclusive, Entry
    <2>4. \A i \in DOMAIN es : \A o \in Spent(Entry(i).transaction) :
              \/ o \in DOMAIN state.utxos
              \/ \E j \in 1 .. (i - 1) : o \in Outpoints(Entry(j).transaction)
      BY <2>1 DEF Backed, Entry
    <2>5. /\ mempool.total_bytes =
                SumFunction([i \in DOMAIN es |-> Entry(i).transaction.size])
          /\ mempool.total_bytes <= MempoolMaxBytes
          /\ Len(es) <= MempoolMaxTransactions
      BY <2>1 DEF Bounded, Sizes, Entry
    <2>6. Total(state.utxos) =
              Total(mempool.working)
                  + SumFunction([i \in DOMAIN es |-> Entry(i).fee])
      BY <2>1 DEF Balanced, Fees, Entry
    <2>7. DOMAIN mempool.working =
              (DOMAIN state.utxos
                  \cup UNION {Outpoints(e.transaction) : e \in ToSet(es)})
              \ UNION {Spent(e.transaction) : e \in ToSet(es)}
      BY <2>1 DEF Made, Used
    <2> QED BY <2>1, <2>2, <2>3, <2>4, <2>5, <2>6, <2>7, Zenon DEF PoolFollowsLedger
  <1> QED BY <1>1, PoolInvariance, PTL

-----------------------------------------------------------------------------
(* select_transactions, round by round.                                      *)

\* h[k] is what has been selected after k turns.
SelectRounds(h, pool, mt, mb, n) ==
    /\ h[0] = <<>>
    /\ \A k \in 1 .. n : h[k] = SelectNext(pool, mt, mb, h[k - 1], k)
    /\ SelectTransactions(pool, mt, mb) = h[n]

\* The selection is a sequence of rounds.
LEMMA SelectSteps ==
    ASSUME NEW pool, NEW mt, NEW mb, NEW n \in Nat, DOMAIN pool.entries = 1 .. n
    PROVE  \E h : SelectRounds(h, pool, mt, mb, n)
  <1> DEFINE base == <<>>
             seq == [i \in DOMAIN pool.entries |-> i]
  <1>0. PICK start, idx : start = base /\ idx = seq
    OBVIOUS
  <1>a. DOMAIN idx = 1 .. n /\ \A i \in 1 .. n : idx[i] = i
    BY <1>0
  <1> HIDE DEF base, seq
  <1> DEFINE Body(f, S) == IF S = {} THEN start
                           ELSE SelectNext(pool, mt, mb, f[S \ {Max(S)}], idx[Max(S)])
             Iter(f, k) == f = [S \in SUBSET (1 .. k) |-> Body(f, S)]
             T == {k \in Nat : \E f : Iter(f, k)}
  <1>1. 0 \in T
    <2> DEFINE f == [S \in SUBSET (1 .. 0) |-> start]
    <2>1. SUBSET (1 .. 0) = {{}}
      OBVIOUS
    <2>2. Iter(f, 0)
      BY <2>1
    <2> QED BY <2>2
  <1>2. ASSUME NEW k \in Nat, k \in T PROVE k + 1 \in T
    <2>1. PICK f : Iter(f, k)
      BY <1>2
    <2> DEFINE g == [S \in SUBSET (1 .. (k + 1)) |->
                        IF k + 1 \notin S THEN f[S]
                        ELSE SelectNext(pool, mt, mb, f[S \ {k + 1}], idx[k + 1])]
    <2>2. /\ \A S \in SUBSET (1 .. (k + 1)) :
                g[S] = IF k + 1 \notin S THEN f[S]
                       ELSE SelectNext(pool, mt, mb, f[S \ {k + 1}], idx[k + 1])
          /\ g = [S \in SUBSET (1 .. (k + 1)) |-> g[S]]
      OBVIOUS
    <2>3. \A S \in SUBSET (1 .. k) :
              f[S] = IF S = {} THEN start
                     ELSE SelectNext(pool, mt, mb, f[S \ {Max(S)}], idx[Max(S)])
      BY <2>1
    <2> HIDE DEF g, T, Iter
    <2>4. ASSUME NEW S \in SUBSET (1 .. (k + 1))
          PROVE  g[S] = IF S = {} THEN start
                        ELSE SelectNext(pool, mt, mb, g[S \ {Max(S)}], idx[Max(S)])
      <3>1. CASE k + 1 \notin S
        <4>1. S \in SUBSET (1 .. k)
          BY <3>1
        <4>2. S \ {Max(S)} \in SUBSET (1 .. (k + 1)) /\ k + 1 \notin S \ {Max(S)}
          BY <3>1
        <4>3. g[S] = f[S] /\ g[S \ {Max(S)}] = f[S \ {Max(S)}]
          BY <2>2, <3>1, <4>2
        <4> QED BY <2>3, <4>1, <4>3
      <3>2. CASE k + 1 \in S
        <4>0. k + 1 \in Nat /\ S # {} /\ S \subseteq 1 .. (k + 1)
          BY <3>2
        <4>1. Max(S) \in S /\ \A y \in S : Max(S) >= y
          BY <4>0, MaxOfInterval, Zenon
        <4>2. Max(S) = k + 1
          <5>1. Max(S) \in 1 .. (k + 1) /\ Max(S) >= k + 1
            BY <3>2, <4>0, <4>1, Zenon
          <5> QED BY <5>1
        <4>3. S \ {k + 1} \in SUBSET (1 .. (k + 1)) /\ k + 1 \notin S \ {k + 1}
          OBVIOUS
        <4>4. g[S \ {k + 1}] = f[S \ {k + 1}]
          BY <2>2, <4>3, Zenon
        <4>5. g[S] = SelectNext(pool, mt, mb, f[S \ {k + 1}], idx[k + 1])
          BY <2>2, <3>2, Zenon
        <4>6. S # {}
          BY <3>2
        <4> QED BY <4>2, <4>4, <4>5, <4>6
      <3> QED BY <3>1, <3>2
    <2>5. \A S \in SUBSET (1 .. (k + 1)) : g[S] = Body(g, S)
      BY <2>4
    <2> HIDE DEF Body
    <2>6. g = [S \in SUBSET (1 .. (k + 1)) |-> Body(g, S)]
      BY <2>2, <2>5, Zenon
    <2>7. Iter(g, k + 1)
      BY <2>6 DEF Iter
    <2> QED BY <2>7 DEF T
  <1>3. n \in T
    <2> HIDE DEF T
    <2> QED BY <1>1, <1>2, NatInductive
  <1> DEFINE iter == CHOOSE f : Iter(f, n)
             h == [k \in 0 .. n |-> iter[1 .. k]]
  <1>4. Iter(iter, n)
    BY <1>3
  <1>5. SelectTransactions(pool, mt, mb) = iter[1 .. n]
    <2> DEFINE Fold(first, over, D) ==
                 (CHOOSE f : f = [S \in SUBSET D |->
                                    IF S = {} THEN first
                                    ELSE SelectNext(pool, mt, mb, f[S \ {Max(S)}],
                                                    over[Max(S)])])[D]
    <2>1. SelectTransactions(pool, mt, mb) = Fold(base, seq, DOMAIN seq)
      BY Zenon DEF SelectTransactions, FoldLeft, MapThenFoldSet, base, seq
    <2>2. Fold(start, idx, 1 .. n) = iter[1 .. n]
      BY Zenon
    <2> HIDE DEF Fold, iter
    <2> QED BY <1>0, <1>a, <2>1, <2>2
  <1> HIDE DEF iter
  <1>6. h[0] = start
    <2>1. 1 .. 0 = {} /\ {} \in SUBSET (1 .. n)
      OBVIOUS
    <2> QED BY <1>4, <2>1
  <1>7. ASSUME NEW k \in 1 .. n PROVE h[k] = SelectNext(pool, mt, mb, h[k - 1], idx[k])
    <2>1. 1 .. k \in SUBSET (1 .. n) /\ 1 .. k # {} /\ k \in 0 .. n /\ k - 1 \in 0 .. n
      BY FirstPlaces
    <2>2. Max(1 .. k) \in 1 .. k /\ \A y \in 1 .. k : Max(1 .. k) >= y
      BY <2>1, MaxOfInterval
    <2>3. Max(1 .. k) = k
      BY <2>2
    <2>4. (1 .. k) \ {k} = 1 .. (k - 1)
      OBVIOUS
    <2>5. iter[1 .. k] = SelectNext(pool, mt, mb, iter[1 .. (k - 1)], idx[k])
      BY <1>4, <2>1, <2>3, <2>4
    <2> QED BY <2>1, <2>5
  <1>8. n \in 0 .. n
    OBVIOUS
  <1>9. SelectRounds(h, pool, mt, mb, n)
    BY <1>0, <1>a, <1>5, <1>6, <1>7, <1>8 DEF SelectRounds, base
  <1> QED BY <1>9, Zenon

-----------------------------------------------------------------------------
(* Every pending transaction can be paid.                                    *)

\* A fee depends on the outputs that are spent and on no others.
LEMMA FeeDepends ==
    ASSUME NEW tx, NEW U, NEW V,
           \A o \in Spent(tx) : o \in DOMAIN U /\ o \in DOMAIN V /\ U[o] = V[o]
    PROVE  ValidatedFee(tx, U) = ValidatedFee(tx, V)
  <1>1. \A i \in DOMAIN tx.inputs : LET o == tx.inputs[i].outpoint
                                    IN  o \in DOMAIN U /\ o \in DOMAIN V /\ U[o] = V[o]
    BY DEF Spent
  <1>2. Authorised(tx, U) <=> Authorised(tx, V)
    BY <1>1 DEF Authorised
  <1>3. InputTotal(tx, U) = InputTotal(tx, V)
    <2>1. [i \in DOMAIN tx.inputs |-> U[tx.inputs[i].outpoint].amount]
             = [i \in DOMAIN tx.inputs |-> V[tx.inputs[i].outpoint].amount]
      BY <1>1
    <2> QED BY <2>1 DEF InputTotal
  <1> QED BY <1>2, <1>3 DEF ValidatedFee

\* all has every output that is confirmed or pending, spent ones included, and
\* each entry is valid against it; the working set is a part of it.
Payable(pool, all) ==
    /\ DOMAIN all = DOMAIN pool.confirmed \cup Made(pool.entries)
    /\ \A o \in DOMAIN pool.confirmed : all[o] = pool.confirmed[o]
    /\ \A o \in DOMAIN pool.working : all[o] = pool.working[o]
    /\ \A i \in DOMAIN pool.entries :
          /\ pool.entries[i].size_bytes = pool.entries[i].transaction.size
          /\ ValidatedFee(pool.entries[i].transaction, all) # NoFee
          /\ \A o \in Outpoints(pool.entries[i].transaction) :
                all[o] = pool.entries[i].transaction.outputs[o[2] + 1]

\* What is valid against a UTXO set spends outputs of it, each once.
LEMMA ValidSpends ==
    ASSUME NEW tx, NEW U, ValidatedFee(tx, U) # NoFee
    PROVE  /\ Spent(tx) \subseteq DOMAIN U
           /\ tx.inputs # <<>>
           /\ \A i, j \in DOMAIN tx.inputs :
                 tx.inputs[i].outpoint = tx.inputs[j].outpoint => i = j
BY DEF ValidatedFee, Authorised, Spent

\* An empty pool owes nothing.
LEMMA NewPayable ==
    ASSUME NEW st
    PROVE  Payable(NewMempool(st), st.utxos)
  <1>1. PICK pool : pool = NewMempool(st)
    OBVIOUS
  <1>2. pool.confirmed = st.utxos /\ pool.working = st.utxos /\ pool.entries = <<>>
    BY <1>1 DEF NewMempool
  <1>3. DOMAIN pool.entries = {} /\ Made(pool.entries) = {}
    BY <1>2 DEF Made, ToSet
  <1> QED BY <1>1, <1>2, <1>3 DEF Payable

\* An admitted transaction was valid against the working set, and its outputs
\* are new.
LEMMA AddPayable ==
    ASSUME NEW pool, NEW utxos, NEW seen, NEW tx \in Transactions, NEW all,
           Rooted(utxos, seen), Follows(pool, utxos, seen), Payable(pool, all)
    PROVE  \E more : Payable(AddTransaction(pool, tx), more)
  <1>1. CASE ~Admits(pool, tx)
    BY <1>1 DEF AddTransaction
  <1>2. CASE Admits(pool, tx)
    <2>1. PICK new, e, old, more : /\ new = AddTransaction(pool, tx)
                                   /\ e = [transaction |-> tx,
                                           fee |-> ValidatedFee(tx, pool.working),
                                           size_bytes |-> tx.size]
                                   /\ old = pool.entries
                                   /\ more = AddOutputs(tx, all)
      OBVIOUS
    <2>2. /\ new.confirmed = utxos
          /\ new.entries = Append(old, e)
          /\ new.working = ApplyTransaction(tx, pool.working)
          /\ e.transaction = tx /\ e.size_bytes = tx.size
      BY <1>2, <2>1 DEF AddTransaction, Follows, Fields
    <2>3. /\ old \in Seq(Entries) /\ Exclusive(old, seen) /\ pool.confirmed = utxos
          /\ ValidatedFee(tx, pool.working) # NoFee
          /\ tx.txid \notin seen
          /\ ~HasTransaction(pool, tx.txid)
          /\ Spent(tx) \subseteq DOMAIN pool.working
      BY <1>2, <2>1 DEF Admits, Follows, Applicable
    <2>4. PICK n \in Nat : n = Len(old)
      BY <2>3
    <2>5. PICK es : es = new.entries
      OBVIOUS
    <2>6. /\ DOMAIN old = 1 .. n /\ DOMAIN es = 1 .. (n + 1)
          /\ \A i \in 1 .. n : es[i] = old[i]
          /\ es[n + 1] = e
      BY <2>2, <2>3, <2>4, <2>5, AppendFacts
    <2>7. Made(es) = Made(old) \cup Outpoints(tx)
      <3>1. ToSet(es) = ToSet(old) \cup {e}
        <4>1. 1 .. (n + 1) = (1 .. n) \cup {n + 1}
          OBVIOUS
        <4> QED BY <2>6, <4>1 DEF ToSet
      <3> QED BY <2>2, <3>1 DEF Made
    <2>8. \A i \in 1 .. n : /\ old[i].transaction.txid # tx.txid
                            /\ Outpoints(old[i].transaction) \subseteq Made(old)
      <3>1. \A i \in 1 .. n : /\ old[i].transaction.txid \in PendingTxids(pool)
                              /\ old[i] \in ToSet(old)
        BY <2>1, <2>6 DEF PendingTxids, TxidOf, GetTransactions, ToSet
      <3> QED BY <2>3, <3>1 DEF HasTransaction, Made
    <2>9. Outpoints(tx) \cap DOMAIN all = {}
      <3>1. \A o \in Outpoints(tx) : o[1] = tx.txid
        BY DEF Outpoints
      <3>2. \A o \in DOMAIN utxos : o[1] # tx.txid
        BY <2>3 DEF Rooted
      <3>3. \A o \in Made(old) : o[1] # tx.txid
        <4> SUFFICES ASSUME NEW o \in Made(old) PROVE o[1] # tx.txid
          OBVIOUS
        <4>1. PICK i \in 1 .. n : o \in Outpoints(old[i].transaction)
          BY <2>6 DEF Made, ToSet
        <4> QED BY <2>8, <4>1 DEF Outpoints
      <3> QED BY <2>1, <2>3, <3>1, <3>2, <3>3 DEF Payable
    <2>10. /\ DOMAIN more = DOMAIN all \cup Outpoints(tx)
           /\ \A o \in DOMAIN all : more[o] = all[o]
           /\ \A o \in Outpoints(tx) : more[o] = tx.outputs[o[2] + 1]
      BY <2>1, <2>9 DEF AddOutputs
    <2>11. /\ DOMAIN all = DOMAIN utxos \cup Made(old)
           /\ \A o \in DOMAIN utxos : all[o] = utxos[o]
           /\ DOMAIN pool.working \subseteq DOMAIN all
           /\ \A o \in DOMAIN pool.working : all[o] = pool.working[o]
      BY <2>1, <2>3 DEF Payable, Follows
    <2>12. ValidatedFee(tx, more) # NoFee
      <3>1. \A o \in Spent(tx) : o \in DOMAIN more /\ o \in DOMAIN pool.working
                                 /\ more[o] = pool.working[o]
        BY <2>3, <2>10, <2>11
      <3> QED BY <2>3, <3>1, FeeDepends
    <2>13. \A o \in DOMAIN new.working : more[o] = new.working[o]
      BY <2>2, <2>10, <2>11 DEF ApplyTransaction, AddOutputs
    <2>14. ASSUME NEW i \in 1 .. n
           PROVE  /\ es[i].size_bytes = es[i].transaction.size
                  /\ ValidatedFee(es[i].transaction, more) # NoFee
                  /\ \A o \in Outpoints(es[i].transaction) :
                        more[o] = es[i].transaction.outputs[o[2] + 1]
      <3>1. /\ old[i].size_bytes = old[i].transaction.size
            /\ ValidatedFee(old[i].transaction, all) # NoFee
            /\ \A o \in Outpoints(old[i].transaction) :
                  all[o] = old[i].transaction.outputs[o[2] + 1]
        BY <2>1, <2>6 DEF Payable
      <3>2. \A o \in Spent(old[i].transaction) :
                o \in DOMAIN more /\ o \in DOMAIN all /\ more[o] = all[o]
        BY <2>10, <3>1, ValidSpends
      <3>3. ValidatedFee(old[i].transaction, more) # NoFee
        BY <3>1, <3>2, FeeDepends
      <3>4. \A o \in Outpoints(old[i].transaction) : more[o] = all[o]
        BY <2>8, <2>10, <2>11
      <3> QED BY <2>6, <3>1, <3>3, <3>4
    <2>15. Payable(new, more)
      <3>1. DOMAIN more = DOMAIN utxos \cup Made(es)
        BY <2>7, <2>10, <2>11
      <3>2. \A o \in DOMAIN utxos : more[o] = utxos[o]
        BY <2>10, <2>11
      <3>3. \A i \in 1 .. (n + 1) :
               /\ es[i].size_bytes = es[i].transaction.size
               /\ ValidatedFee(es[i].transaction, more) # NoFee
               /\ \A o \in Outpoints(es[i].transaction) :
                     more[o] = es[i].transaction.outputs[o[2] + 1]
        <4>1. \A i \in 1 .. (n + 1) : i \in 1 .. n \/ i = n + 1
          OBVIOUS
        <4> QED BY <2>2, <2>6, <2>10, <2>12, <2>14, <4>1
      <3> QED BY <2>2, <2>5, <2>6, <2>13, <3>1, <3>2, <3>3 DEF Payable
    <2> QED BY <2>1, <2>15
  <1> QED BY <1>1, <1>2

\* A rebuilt pool can be paid on the state it is rebuilt on.
LEMMA RebuildPayable ==
    ASSUME NEW st, NEW txs, NEW passed_over, NEW n \in Nat, DOMAIN txs = 1 .. n,
           \A k \in 1 .. n : txs[k] \in Transactions,
           Rooted(st.utxos, st.seen)
    PROVE  \E all : Payable(Rebuild(txs, passed_over, st), all)
  <1>1. PICK h : RebuildRounds(h, txs, passed_over, st, n)
    BY RebuildSteps, Zenon
  <1> DEFINE Good(pool) == Follows(pool, st.utxos, st.seen) /\ \E all : Payable(pool, all)
             K == {k \in Nat : k <= n => Good(h[k])}
  <1>2. 0 \in K
    BY <1>1, NewFollows, NewPayable DEF RebuildRounds
  <1>3. ASSUME NEW k \in Nat, k \in K PROVE k + 1 \in K
    <2> SUFFICES ASSUME k + 1 <= n PROVE Good(h[k + 1])
      OBVIOUS
    <2>1. Good(h[k])
      BY <1>3
    <2>2. k + 1 \in 1 .. n /\ (k + 1) - 1 = k
      OBVIOUS
    <2>3. h[k + 1] = ReadmitNext(passed_over, h[k], txs[k + 1])
      BY <1>1, <2>2 DEF RebuildRounds
    <2>4. txs[k + 1] \in Transactions
      BY <2>2
    <2>5. Good(AddTransaction(h[k], txs[k + 1]))
      BY <2>1, <2>4, AddFollows, AddPayable
    <2> QED BY <2>1, <2>3, <2>5 DEF ReadmitNext
  <1>4. n \in K
    <2> HIDE DEF K
    <2> QED BY <1>2, <1>3, NatInductive
  <1> QED BY <1>1, <1>4 DEF RebuildRounds

-----------------------------------------------------------------------------
(* What is selected.                                                         *)

\* Fee rates are compared without division; the order is transitive because
\* sizes are positive.
LEMMA RateTransitive ==
    ASSUME NEW a \in Int, NEW b \in Int, NEW c \in Int,
           NEW r \in Nat \ {0}, NEW s \in Nat \ {0}, NEW t \in Nat \ {0},
           a * s >= b * r, b * t >= c * s
    PROVE  a * t >= c * r
  <1>1. \A x, y \in Int : x >= y => x * t >= y * t /\ x * r >= y * r
    OBVIOUS
  <1>2. (a * s) * t >= (b * r) * t /\ (b * t) * r >= (c * s) * r
    BY <1>1
  <1>3. /\ (a * s) * t = (a * t) * s
        /\ (b * r) * t = (b * t) * r
        /\ (c * s) * r = (c * r) * s
    OBVIOUS
  <1>4. (a * t) * s >= (c * r) * s
    <2>1. /\ (a * s) * t \in Int /\ (b * r) * t \in Int /\ (c * s) * r \in Int
      OBVIOUS
    <2> QED BY <1>2, <1>3, <2>1
  <1>5. \A x, y \in Int : x * s >= y * s => x >= y
    OBVIOUS
  <1>6. a * t \in Int /\ c * r \in Int
    OBVIOUS
  <1> QED BY <1>4, <1>5, <1>6

\* e pays at least as much per byte as f.
Better(e, f) == e.fee * f.size_bytes >= f.fee * e.size_bytes

Rated(e) == e.fee \in Int /\ e.size_bytes \in Nat \ {0}

\* Any two rates compare, and the comparison is an order.
LEMMA BetterFacts ==
    ASSUME NEW d, NEW e, NEW f, Rated(d), Rated(e), Rated(f)
    PROVE  /\ Better(e, e)
           /\ Better(d, e) \/ Better(e, d)
           /\ Better(d, e) /\ Better(e, f) => Better(d, f)
  <1>1. PICK df, ds, ef, es : /\ df = d.fee /\ ds = d.size_bytes
                              /\ ef = e.fee /\ es = e.size_bytes
    OBVIOUS
  <1>2. /\ df \in Int /\ ds \in Nat \ {0} /\ ef \in Int /\ es \in Nat \ {0}
    BY <1>1 DEF Rated
  <1>3. ef * es \in Int /\ df * es \in Int /\ ef * ds \in Int
    BY <1>2
  <1>4. ef * es >= ef * es /\ (df * es >= ef * ds \/ ef * ds >= df * es)
    BY <1>3
  <1>5. Better(e, e) /\ (Better(d, e) \/ Better(e, d))
    BY <1>1, <1>4 DEF Better
  <1>6. Better(d, e) /\ Better(e, f) => Better(d, f)
    BY RateTransitive DEF Better, Rated
  <1> QED BY <1>5, <1>6

\* Some entry is the best of those that are ready.
LEMMA BestIsReady ==
    ASSUME NEW es, NEW n \in Nat, DOMAIN es = 1 .. n,
           \A i \in 1 .. n : Rated(es[i]),
           NEW ready, ready \subseteq ToSet(es), ready # {}
    PROVE  BestFeeRate(ready) \in ready
  <1> DEFINE Best(b, k) == /\ es[b] \in ready
                           /\ \A i \in 1 .. k : es[i] \in ready => Better(es[b], es[i])
             Done(k) == \/ \A i \in 1 .. k : es[i] \notin ready
                        \/ \E b \in 1 .. k : Best(b, k)
             T == {k \in Nat : k <= n => Done(k)}
  <1>1. 0 \in T
    OBVIOUS
  <1>2. ASSUME NEW k \in Nat, k \in T PROVE k + 1 \in T
    <2> SUFFICES ASSUME k + 1 <= n PROVE Done(k + 1)
      OBVIOUS
    <2>0. /\ Done(k)
          /\ \A i \in 1 .. (k + 1) : i \in 1 .. k \/ i = k + 1
          /\ \A i \in 1 .. (k + 1) : Rated(es[i])
          /\ \A i \in 1 .. k : i \in 1 .. (k + 1)
          /\ k + 1 \in 1 .. (k + 1)
      BY <1>2
    <2>1. CASE es[k + 1] \notin ready
      <3>1. CASE \A i \in 1 .. k : es[i] \notin ready
        BY <2>0, <2>1, <3>1
      <3>2. ASSUME NEW b \in 1 .. k, Best(b, k) PROVE Done(k + 1)
        <4>1. Best(b, k + 1)
          BY <2>0, <2>1, <3>2
        <4> QED BY <2>0, <4>1
      <3> HIDE DEF Best
      <3> QED BY <2>0, <3>1, <3>2
    <2>2. CASE es[k + 1] \in ready
      <3>1. CASE \A i \in 1 .. k : es[i] \notin ready
        <4>1. Best(k + 1, k + 1)
          BY <2>0, <2>2, <3>1, BetterFacts
        <4> QED BY <2>0, <4>1
      <3>2. ASSUME NEW b \in 1 .. k, Best(b, k) PROVE Done(k + 1)
        <4>1. CASE Better(es[b], es[k + 1])
          <5>1. Best(b, k + 1)
            BY <2>0, <3>2, <4>1
          <5> QED BY <2>0, <5>1
        <4>2. CASE Better(es[k + 1], es[b])
          <5>1. \A i \in 1 .. k : es[i] \in ready => Better(es[k + 1], es[i])
            BY <2>0, <3>2, <4>2, BetterFacts
          <5>2. Better(es[k + 1], es[k + 1])
            BY <2>0, BetterFacts
          <5>3. Best(k + 1, k + 1)
            BY <2>0, <2>2, <5>1, <5>2
          <5> QED BY <2>0, <5>3
        <4>3. Better(es[b], es[k + 1]) \/ Better(es[k + 1], es[b])
          BY <2>0, BetterFacts
        <4> QED BY <4>1, <4>2, <4>3
      <3> HIDE DEF Best
      <3> QED BY <2>0, <3>1, <3>2
    <2> QED BY <2>1, <2>2
  <1>3. Done(n)
    <2>1. n \in T
      <3> HIDE DEF T
      <3> QED BY <1>1, <1>2, NatInductive
    <2> QED BY <2>1
  <1>4. \A e \in ready : \E i \in 1 .. n : es[i] = e
    BY DEF ToSet
  <1>5. PICK b \in 1 .. n : Best(b, n)
    BY <1>3, <1>4
  <1>6. \E e \in ready : \A f \in ready : Better(e, f)
    BY <1>4, <1>5
  <1> QED BY <1>6, Zenon DEF BestFeeRate, Better

\* A choice among the entries: nothing twice, and every parent that is pending
\* comes before its child.
Chosen(sel, es) ==
    /\ sel \in Seq(Transactions)
    /\ \A k \in DOMAIN sel : \E i \in DOMAIN es : sel[k] = es[i].transaction
    /\ \A j, k \in DOMAIN sel : j # k => sel[j].txid # sel[k].txid
    /\ \A k \in DOMAIN sel : \A o \in Spent(sel[k]) : \A i \in DOMAIN es :
          o[1] = es[i].transaction.txid => \E j \in 1 .. (k - 1) : sel[j].txid = o[1]

Weights(sel) == [i \in DOMAIN sel |-> sel[i].size]

\* The limits after k turns.
Within(sel, k, max_transactions, max_bytes) ==
    /\ Len(sel) <= k /\ Len(sel) <= max_transactions
    /\ SumFunction(Weights(sel)) \in Int
    /\ SumFunction(Weights(sel)) <= max_bytes

\* One turn of the loop appends an entry whose parents have been appended.
LEMMA SelectNextChooses ==
    ASSUME NEW pool, NEW n \in Nat, NEW mt \in Nat, NEW mb \in Nat, NEW sel,
           NEW k \in Nat,
           pool.entries \in Seq(Entries), Len(pool.entries) = n,
           \A i \in 1 .. n : /\ Rated(pool.entries[i])
                             /\ pool.entries[i].size_bytes
                                   = pool.entries[i].transaction.size,
           Chosen(sel, pool.entries), Within(sel, k, mt, mb)
    PROVE  LET next == SelectNext(pool, mt, mb, sel, k + 1)
           IN  Chosen(next, pool.entries) /\ Within(next, k + 1, mt, mb)
  <1>1. PICK es, ready, next : /\ es = pool.entries
                               /\ ready = Ready(pool, sel, mb)
                               /\ next = SelectNext(pool, mt, mb, sel, k + 1)
    OBVIOUS
  <1>2. /\ DOMAIN es = 1 .. n /\ sel \in Seq(Transactions) /\ Len(sel) \in Nat
        /\ \A i \in 1 .. n : es[i] \in Entries /\ Rated(es[i])
                             /\ es[i].size_bytes = es[i].transaction.size
    BY <1>1 DEF Chosen
  <1>3. CASE k + 1 > mt \/ ready = {}
    <2>1. next = sel
      BY <1>1, <1>3 DEF SelectNext
    <2> QED BY <1>1, <1>2, <2>1 DEF Within
  <1>4. CASE ~(k + 1 > mt) /\ ready # {}
    <2>1. PICK e : e = BestFeeRate(ready)
      OBVIOUS
    <2>2. next = Append(sel, e.transaction)
      BY <1>1, <1>4, <2>1 DEF SelectNext
    <2>3. e \in ready
      <3>1. ready \subseteq ToSet(es)
        BY <1>1 DEF Ready
      <3> QED BY <1>2, <1>4, <2>1, <3>1, BestIsReady
    <2>4. PICK tx, m : tx = e.transaction /\ m = Len(sel)
      OBVIOUS
    <2>5. /\ e \in ToSet(es)
          /\ tx.txid \notin ToSet(TxidOf(sel))
          /\ Parents(pool, tx) \subseteq ToSet(TxidOf(sel))
          /\ SumFunction(Weights(sel)) + e.size_bytes <= mb
      BY <1>1, <2>3, <2>4 DEF Ready, Weights
    <2>6. PICK i \in 1 .. n : es[i] = e
      BY <1>2, <2>5 DEF ToSet
    <2>7. tx \in Transactions /\ e.size_bytes = tx.size /\ tx.size \in Nat
      BY <1>2, <2>4, <2>6 DEF Entries, Rated
    <2>8. /\ next \in Seq(Transactions) /\ m \in Nat /\ Len(next) = m + 1
          /\ DOMAIN sel = 1 .. m /\ DOMAIN next = 1 .. (m + 1)
          /\ \A j \in 1 .. m : next[j] = sel[j]
          /\ next[m + 1] = tx
          /\ \A j \in 1 .. (m + 1) : j \in 1 .. m \/ j = m + 1
      BY <1>2, <2>2, <2>4, <2>7
    <2>9. ToSet(TxidOf(sel)) = {sel[j].txid : j \in 1 .. m}
      BY <2>8 DEF ToSet, TxidOf
    <2>10. \A j \in 1 .. m : sel[j].txid # tx.txid
      BY <2>5, <2>9
    <2>11. \A o \in Spent(tx) : \A x \in 1 .. n :
               o[1] = es[x].transaction.txid => \E j \in 1 .. m : sel[j].txid = o[1]
      <3>1. \A x \in 1 .. n : es[x].transaction.txid \in PendingTxids(pool)
        BY <1>1, <1>2 DEF PendingTxids, GetTransactions, TxidOf, ToSet
      <3>2. \A o \in Spent(tx) : \A x \in 1 .. n :
               o[1] = es[x].transaction.txid => o[1] \in Parents(pool, tx)
        BY <3>1 DEF Parents
      <3> QED BY <2>5, <2>9, <3>2
    <2>12. Chosen(next, es)
      <3>1. \A j \in 1 .. (m + 1) : \E x \in DOMAIN es : next[j] = es[x].transaction
        <4>1. \A j \in 1 .. m : \E x \in DOMAIN es : sel[j] = es[x].transaction
          BY <1>1, <2>8 DEF Chosen
        <4>2. i \in DOMAIN es /\ next[m + 1] = es[i].transaction
          BY <1>2, <2>4, <2>6, <2>8
        <4>3. \A j \in 1 .. (m + 1) : (next[j] = sel[j] /\ j \in 1 .. m) \/ j = m + 1
          BY <2>8
        <4> QED BY <4>1, <4>2, <4>3
      <3>2. \A j, l \in 1 .. (m + 1) : j # l => next[j].txid # next[l].txid
        <4>1. \A j, l \in 1 .. m : j # l => sel[j].txid # sel[l].txid
          BY <1>1, <2>8 DEF Chosen
        <4> QED BY <2>8, <2>10, <4>1
      <3>3. ASSUME NEW l \in 1 .. (m + 1), NEW o \in Spent(next[l]),
                   NEW x \in 1 .. n, o[1] = es[x].transaction.txid
            PROVE  \E j \in 1 .. (l - 1) : next[j].txid = o[1]
        <4>1. CASE l \in 1 .. m
          <5>0. /\ Chosen(sel, es) /\ l \in DOMAIN sel /\ o \in Spent(sel[l])
                /\ x \in DOMAIN es
            BY <1>1, <1>2, <2>8, <3>3, <4>1
          <5>1. PICK j \in 1 .. (l - 1) : sel[j].txid = o[1]
            BY <3>3, <5>0 DEF Chosen
          <5>2. j \in 1 .. m
            BY <2>8, <4>1
          <5> QED BY <2>8, <5>1, <5>2
        <4>2. CASE l = m + 1
          <5>1. PICK j \in 1 .. m : sel[j].txid = o[1]
            BY <2>8, <2>11, <3>3, <4>2
          <5>2. l - 1 = m
            BY <2>8, <4>2
          <5> QED BY <2>8, <5>1, <5>2
        <4> QED BY <2>8, <4>1, <4>2
      <3> QED BY <1>2, <2>8, <3>1, <3>2, <3>3 DEF Chosen
    <2>13. Within(next, k + 1, mt, mb)
      <3>1. PICK f, h : f = Weights(sel) /\ h = Weights(next)
        OBVIOUS
      <3>2. /\ DOMAIN f = 1 .. m /\ DOMAIN h = 1 .. (m + 1)
            /\ \A j \in 1 .. m : h[j] = f[j]
            /\ h[m + 1] = tx.size
            /\ \A j \in 1 .. (m + 1) : h[j] \in Int
        <4>1. \A j \in 1 .. (m + 1) : next[j].size \in Int
          <5>1. \A j \in 1 .. (m + 1) : next[j] \in Transactions
            BY <2>8
          <5> QED BY <5>1, TransactionShape
        <4> QED BY <2>8, <3>1, <4>1 DEF Weights
      <3>3. SumFunction(h) = SumFunction(f) + tx.size /\ SumFunction(f) \in Int
        <4>1. SumFunction(h) = SumFunction(f) + h[m + 1] /\ SumFunction(f) \in Int
          <5>1. m \in Nat
            BY <2>8
          <5> QED BY <3>2, <5>1, SumOfPrefix
        <4> QED BY <3>2, <4>1
      <3>4. SumFunction(h) <= mb /\ SumFunction(h) \in Int
        BY <2>5, <2>7, <3>1, <3>3
      <3>5. m <= k
        BY <2>4 DEF Within
      <3> QED BY <1>4, <2>8, <3>1, <3>4, <3>5 DEF Within
    <2> QED BY <1>1, <2>12, <2>13
  <1> QED BY <1>3, <1>4

\* select_transactions keeps its limits, and parents before children.
LEMMA SelectionChosen ==
    ASSUME NEW pool, NEW utxos, NEW seen, NEW all, NEW mt \in Nat, NEW mb \in Nat,
           Follows(pool, utxos, seen), Payable(pool, all)
    PROVE  LET txs == SelectTransactions(pool, mt, mb)
           IN  /\ Chosen(txs, pool.entries)
               /\ Len(txs) <= mt
               /\ SumFunction(Weights(txs)) <= mb
  <1>1. PICK n \in Nat : /\ pool.entries \in Seq(Entries)
                         /\ Len(pool.entries) = n /\ DOMAIN pool.entries = 1 .. n
    BY DEF Follows
  <1>2. \A i \in 1 .. n : /\ Rated(pool.entries[i])
                          /\ pool.entries[i].size_bytes
                                = pool.entries[i].transaction.size
    <2>1. \A i \in 1 .. n : pool.entries[i] \in Entries
      BY <1>1
    <2>2. \A i \in 1 .. n : pool.entries[i].size_bytes = pool.entries[i].transaction.size
      BY <1>1 DEF Payable
    <2> QED BY <2>1, <2>2, TransactionShape DEF Entries, Rated
  <1>3. PICK h : SelectRounds(h, pool, mt, mb, n)
    BY <1>1, SelectSteps, Zenon
  <1> DEFINE Good(k) == Chosen(h[k], pool.entries) /\ Within(h[k], k, mt, mb)
             K == {k \in Nat : k <= n => Good(k)}
  <1>4. 0 \in K
    <2>1. PICK sel : sel = <<>> /\ sel = h[0]
      BY <1>3 DEF SelectRounds
    <2>2. sel \in Seq(Transactions) /\ DOMAIN sel = {} /\ Len(sel) = 0
      BY <2>1
    <2>3. DOMAIN Weights(sel) = {}
      BY <2>2 DEF Weights
    <2>4. SumFunction(Weights(sel)) = 0
      BY <2>3, SumOfNothing
    <2>5. Chosen(sel, pool.entries)
      BY <2>2 DEF Chosen
    <2>6. Within(sel, 0, mt, mb)
      BY <2>2, <2>4 DEF Within
    <2> QED BY <2>1, <2>5, <2>6
  <1>5. ASSUME NEW k \in Nat, k \in K PROVE k + 1 \in K
    <2> SUFFICES ASSUME k + 1 <= n PROVE Good(k + 1)
      OBVIOUS
    <2>1. Good(k)
      BY <1>5
    <2>2. h[k + 1] = SelectNext(pool, mt, mb, h[k], k + 1)
      <3>1. k + 1 \in 1 .. n /\ (k + 1) - 1 = k
        OBVIOUS
      <3> QED BY <1>3, <3>1 DEF SelectRounds
    <2> QED BY <1>1, <1>2, <2>1, <2>2, SelectNextChooses
  <1>6. n \in K
    <2> HIDE DEF K
    <2> QED BY <1>4, <1>5, NatInductive
  <1> QED BY <1>3, <1>6 DEF SelectRounds, Within

-----------------------------------------------------------------------------
(* A choice applies to the confirmed state.                                  *)

\* b is the batch after the first k transactions of the choice.
Applied(b, st, all, sel, k) ==
    /\ b.ok = TRUE
    /\ b.fees \in Nat
    /\ b.seen = st.seen \cup {sel[j].txid : j \in 1 .. k}
    /\ Sound(b.utxos)
    /\ \A o : o \in DOMAIN b.utxos <=>
                 /\ o \in DOMAIN st.utxos \/ \E j \in 1 .. k : o \in Outpoints(sel[j])
                 /\ \A j \in 1 .. k : o \notin Spent(sel[j])
    /\ \A o \in DOMAIN b.utxos : b.utxos[o] = all[o]

\* The next one finds its inputs, confirmed or made by the parents before it,
\* with the values it was admitted with.
LEMMA AppliesNext ==
    ASSUME NEW st, NEW pool, NEW all, NEW sel, NEW b, NEW k \in Nat,
           Rooted(st.utxos, st.seen), Follows(pool, st.utxos, st.seen),
           Payable(pool, all), Chosen(sel, pool.entries),
           k + 1 \in DOMAIN sel, Applied(b, st, all, sel, k)
    PROVE  Applied(ApplyNext(b, sel[k + 1]), st, all, sel, k + 1)
  <1>1. PICK es, tx, new : /\ es = pool.entries /\ tx = sel[k + 1]
                           /\ new = ApplyNext(b, tx)
    OBVIOUS
  <1>2. /\ sel \in Seq(Transactions) /\ tx \in Transactions
        /\ \A j \in 1 .. (k + 1) : j \in DOMAIN sel
        /\ \A j \in 1 .. (k + 1) : j \in 1 .. k \/ j = k + 1
        /\ \A j \in 1 .. k : j \in 1 .. (k + 1) /\ j # k + 1
    <2>1. sel \in Seq(Transactions)
      BY DEF Chosen
    <2>2. DOMAIN sel = 1 .. Len(sel) /\ Len(sel) \in Nat
      BY <2>1
    <2> QED BY <1>1, <2>1, <2>2
  <1>3. /\ \A j \in 1 .. (k + 1) : \E x \in DOMAIN es : sel[j] = es[x].transaction
        /\ \A j, l \in 1 .. (k + 1) : j # l => sel[j].txid # sel[l].txid
        /\ \A l \in 1 .. (k + 1) : \A o \in Spent(sel[l]) : \A x \in DOMAIN es :
              o[1] = es[x].transaction.txid => \E j \in 1 .. (l - 1) : sel[j].txid = o[1]
    BY <1>1, <1>2 DEF Chosen
  <1>4. PICK i \in DOMAIN es : tx = es[i].transaction
    <2>1. k + 1 \in 1 .. (k + 1)
      OBVIOUS
    <2> QED BY <1>1, <1>3, <2>1
  <1>5. /\ \A x \in DOMAIN es : es[x].transaction.txid \notin st.seen
        /\ \A x, y \in DOMAIN es :
              x # y => /\ es[x].transaction.txid # es[y].transaction.txid
                       /\ Spent(es[x].transaction) \cap Spent(es[y].transaction) = {}
    BY <1>1 DEF Follows, Exclusive
  <1>6. /\ DOMAIN all = DOMAIN st.utxos \cup Made(es)
        /\ \A x \in DOMAIN es :
              /\ ValidatedFee(es[x].transaction, all) # NoFee
              /\ \A o \in Outpoints(es[x].transaction) :
                    all[o] = es[x].transaction.outputs[o[2] + 1]
    BY <1>1 DEF Payable, Follows
  <1>7. /\ Spent(tx) \subseteq DOMAIN all
        /\ \A x, y \in DOMAIN tx.inputs :
              tx.inputs[x].outpoint = tx.inputs[y].outpoint => x = y
    BY <1>4, <1>6, ValidSpends
  <1>8. \A o \in Outpoints(tx) : o[1] = tx.txid
    BY DEF Outpoints
  <1>9. \A j \in 1 .. k : sel[j].txid # tx.txid /\ Spent(sel[j]) \cap Spent(tx) = {}
    <2> SUFFICES ASSUME NEW j \in 1 .. k
                 PROVE  sel[j].txid # tx.txid /\ Spent(sel[j]) \cap Spent(tx) = {}
      OBVIOUS
    <2>1. j \in 1 .. (k + 1) /\ k + 1 \in 1 .. (k + 1) /\ j # k + 1
      BY <1>2
    <2>2. sel[j].txid # tx.txid
      BY <1>1, <1>3, <2>1
    <2>3. PICK x \in DOMAIN es : sel[j] = es[x].transaction
      BY <1>3, <2>1
    <2>4. x # i
      BY <1>4, <2>2, <2>3
    <2> QED BY <1>4, <1>5, <2>2, <2>3, <2>4
  <1>10. ASSUME NEW o \in Spent(tx) PROVE o \in DOMAIN b.utxos
    <2>1. \A j \in 1 .. k : o \notin Spent(sel[j])
      BY <1>9, <1>10
    <2>2. CASE o \in DOMAIN st.utxos
      BY <2>1, <2>2 DEF Applied
    <2>3. CASE o \in Made(es)
      <3>1. PICK y \in DOMAIN es : o \in Outpoints(es[y].transaction)
        BY <2>3 DEF Made, ToSet
      <3>2. o[1] = es[y].transaction.txid
        BY <3>1 DEF Outpoints
      <3>3. PICK j \in 1 .. k : sel[j].txid = o[1]
        <4>1. k + 1 \in 1 .. (k + 1) /\ (k + 1) - 1 = k
          OBVIOUS
        <4> QED BY <1>1, <1>3, <1>10, <3>2, <4>1
      <3>4. PICK z \in DOMAIN es : sel[j] = es[z].transaction
        BY <1>2, <1>3
      <3>5. z = y
        BY <1>5, <3>2, <3>3, <3>4
      <3> QED BY <2>1, <3>1, <3>4, <3>5 DEF Applied
    <2> QED BY <1>6, <1>7, <1>10, <2>2, <2>3
  <1>11. Outpoints(tx) \cap DOMAIN b.utxos = {}
    <2> SUFFICES ASSUME NEW o \in Outpoints(tx), o \in DOMAIN b.utxos PROVE FALSE
      OBVIOUS
    <2>1. o[1] = tx.txid
      BY <1>8
    <2>2. CASE o \in DOMAIN st.utxos
      BY <1>4, <1>5, <2>1, <2>2 DEF Rooted
    <2>3. ASSUME NEW j \in 1 .. k, o \in Outpoints(sel[j]) PROVE FALSE
      <3>1. o[1] = sel[j].txid
        BY <2>3 DEF Outpoints
      <3> QED BY <1>9, <2>1, <3>1
    <2> QED BY <2>2, <2>3 DEF Applied
  <1>12. ValidatedFee(tx, b.utxos) # NoFee
    <2>1. \A o \in Spent(tx) : o \in DOMAIN b.utxos /\ o \in DOMAIN all
                               /\ b.utxos[o] = all[o]
      BY <1>7, <1>10 DEF Applied
    <2>2. ValidatedFee(tx, b.utxos) = ValidatedFee(tx, all)
      BY <2>1, FeeDepends
    <2> QED BY <1>4, <1>6, <2>2
  <1>13. Applicable(tx, b.utxos)
    BY <1>7, <1>10, <1>11 DEF Applicable
  <1>14. tx.txid \notin b.seen
    BY <1>4, <1>5, <1>9 DEF Applied
  <1>15. /\ new.ok = TRUE
         /\ new.utxos = ApplyTransaction(tx, b.utxos)
         /\ new.seen = b.seen \cup {tx.txid}
         /\ new.fees = b.fees + ValidatedFee(tx, b.utxos)
    BY <1>1, <1>12, <1>13, <1>14 DEF ApplyNext, Applied
  <1>16. Sound(new.utxos) /\ ValidatedFee(tx, b.utxos) \in Nat
    <2>1. Sound(b.utxos) /\ Shaped(tx)
      BY <1>2, TransactionsShaped DEF Applied
    <2> QED BY <1>12, <1>13, <1>15, <2>1, ApplyConserves
  <1>17. new.fees \in Nat
    BY <1>15, <1>16 DEF Applied
  <1>18. new.seen = st.seen \cup {sel[j].txid : j \in 1 .. (k + 1)}
    <2>1. {sel[j].txid : j \in 1 .. (k + 1)} = {sel[j].txid : j \in 1 .. k} \cup {tx.txid}
      <3>1. 1 .. (k + 1) = (1 .. k) \cup {k + 1}
        OBVIOUS
      <3> QED BY <1>1, <3>1
    <2> QED BY <1>15, <2>1 DEF Applied
  <1>19. /\ DOMAIN new.utxos = (DOMAIN b.utxos \ Spent(tx)) \cup Outpoints(tx)
         /\ \A o \in Outpoints(tx) : new.utxos[o] = tx.outputs[o[2] + 1]
         /\ \A o \in DOMAIN b.utxos \ Spent(tx) :
               o \notin Outpoints(tx) /\ new.utxos[o] = b.utxos[o]
    BY <1>11, <1>15 DEF ApplyTransaction, AddOutputs
  <1>20. \A o \in Outpoints(tx) : \A j \in 1 .. (k + 1) : o \notin Spent(sel[j])
    <2> SUFFICES ASSUME NEW o \in Outpoints(tx), NEW j \in 1 .. (k + 1),
                        o \in Spent(sel[j])
                 PROVE  FALSE
      OBVIOUS
    <2>1. PICK l \in 1 .. (j - 1) : sel[l].txid = tx.txid
      BY <1>3, <1>4, <1>8
    <2>2. l \in 1 .. k
      OBVIOUS
    <2> QED BY <1>9, <2>1, <2>2
  <1>21. ASSUME NEW o
         PROVE  o \in DOMAIN new.utxos <=>
                   /\ \/ o \in DOMAIN st.utxos
                      \/ \E j \in 1 .. (k + 1) : o \in Outpoints(sel[j])
                   /\ \A j \in 1 .. (k + 1) : o \notin Spent(sel[j])
    <2>1. k + 1 \in 1 .. (k + 1)
      OBVIOUS
    <2>2. /\ (\E j \in 1 .. (k + 1) : o \in Outpoints(sel[j])) <=>
                o \in Outpoints(tx) \/ \E j \in 1 .. k : o \in Outpoints(sel[j])
          /\ (\A j \in 1 .. (k + 1) : o \notin Spent(sel[j])) <=>
                o \notin Spent(tx) /\ \A j \in 1 .. k : o \notin Spent(sel[j])
      BY <1>1, <1>2, <2>1
    <2>3. o \in DOMAIN b.utxos <=>
             /\ o \in DOMAIN st.utxos \/ \E j \in 1 .. k : o \in Outpoints(sel[j])
             /\ \A j \in 1 .. k : o \notin Spent(sel[j])
      BY DEF Applied
    <2> QED BY <1>19, <1>20, <2>2, <2>3
  <1>22. \A o \in DOMAIN new.utxos : new.utxos[o] = all[o]
    BY <1>4, <1>6, <1>19 DEF Applied
  <1> QED BY <1>1, <1>15, <1>16, <1>17, <1>18, <1>21, <1>22 DEF Applied

\* A choice applies as a whole.
LEMMA ChoiceApplies ==
    ASSUME NEW st, NEW pool, NEW all, NEW sel,
           Rooted(st.utxos, st.seen), Follows(pool, st.utxos, st.seen),
           Payable(pool, all), Chosen(sel, pool.entries)
    PROVE  LET batch == ApplyTransactions(sel, st)
           IN  /\ batch.ok
               /\ batch.fees \in Nat
               /\ batch.seen = st.seen \cup {sel[j].txid : j \in DOMAIN sel}
               /\ \A o \in DOMAIN batch.utxos : o[1] \in batch.seen
  <1>1. PICK n \in Nat : DOMAIN sel = 1 .. n
    <2>1. sel \in Seq(Transactions)
      BY DEF Chosen
    <2> QED BY <2>1
  <1>2. PICK h : ApplyRounds(h, sel, st, n)
    BY <1>1, ApplySteps, Zenon
  <1>3. /\ h[0] = [ok |-> TRUE, utxos |-> st.utxos, seen |-> st.seen, fees |-> 0]
        /\ \A k \in 1 .. n : h[k] = ApplyNext(h[k - 1], sel[k])
        /\ ApplyTransactions(sel, st) = h[n]
    BY <1>2, Zenon DEF ApplyRounds
  <1> DEFINE K == {k \in Nat : k <= n => Applied(h[k], st, all, sel, k)}
  <1>4. 0 \in K
    <2>1. /\ h[0].ok = TRUE /\ h[0].utxos = st.utxos /\ h[0].seen = st.seen
          /\ h[0].fees = 0
      BY <1>3
    <2>2. Sound(st.utxos) /\ 1 .. 0 = {}
      BY DEF Rooted
    <2>3. \A o \in DOMAIN st.utxos : st.utxos[o] = all[o]
      BY DEF Payable, Follows
    <2>4. Applied(h[0], st, all, sel, 0)
      BY <2>1, <2>2, <2>3 DEF Applied
    <2> QED BY <2>4
  <1>5. ASSUME NEW k \in Nat, k \in K PROVE k + 1 \in K
    <2> SUFFICES ASSUME k + 1 <= n PROVE Applied(h[k + 1], st, all, sel, k + 1)
      OBVIOUS
    <2>1. Applied(h[k], st, all, sel, k)
      BY <1>5
    <2>2. k + 1 \in DOMAIN sel /\ h[k + 1] = ApplyNext(h[k], sel[k + 1])
      BY <1>1, <1>3
    <2>3. Applied(ApplyNext(h[k], sel[k + 1]), st, all, sel, k + 1)
      BY <2>1, <2>2, AppliesNext
    <2> QED BY <2>2, <2>3
  <1>6. Applied(h[n], st, all, sel, n)
    <2>1. n \in K
      <3> HIDE DEF K
      <3> QED BY <1>4, <1>5, NatInductive
    <2> QED BY <2>1
  <1>7. \A o \in DOMAIN h[n].utxos : o[1] \in h[n].seen
    <2>1. \A j \in 1 .. n : \A o \in Outpoints(sel[j]) : o[1] = sel[j].txid
      BY DEF Outpoints
    <2>2. \A o \in DOMAIN st.utxos : o[1] \in st.seen
      BY DEF Rooted
    <2> QED BY <1>6, <2>1, <2>2 DEF Applied
  <1> QED BY <1>1, <1>3, <1>6, <1>7 DEF Applied

-----------------------------------------------------------------------------
(* The inductive invariant: the pool can be paid, and nothing on the chain   *)
(* is younger than its last block.                                           *)

Dated(block) ==
    /\ block.timestamp \in Nat
    /\ ValidateBlockStructure(block)
    /\ \A j \in DOMAIN block.transactions :
          \/ block.transactions[j] \in Transactions
          \/ /\ block.transactions[j] \in Coinbases
             /\ block.transactions[j].timestamp = block.timestamp

Stamped ==
    /\ now \in Nat
    /\ \A i \in DOMAIN blocks :
          Dated(blocks[i]) /\ blocks[i].timestamp <= blocks[Len(blocks)].timestamp

TemplateIInv ==
    /\ PoolIInv
    /\ Stamped
    /\ \E all : Payable(mempool, all)

\* A coinbase names the second it was made in, and has no inputs.
LEMMA CoinbaseNames ==
    ASSUME NEW tx \in Coinbases
    PROVE  /\ tx.inputs = <<>>
           /\ \E a, r : tx.txid = <<"coinbase", tx.timestamp, a, r>>
  <1>1. PICK a \in Addresses, t \in Times, r \in Rewards : tx = CreateCoinbase(a, t, r)
    BY SMT DEF Coinbases
  <1>2. /\ tx.inputs = <<>> /\ tx.timestamp = t
        /\ tx.txid = <<"coinbase", t, a, r>>
    BY <1>1 DEF CreateCoinbase
  <1> QED BY <1>2

\* An accepted block has the only coinbase in front, of its own second.
LEMMA AcceptedDated ==
    ASSUME NEW chain, NEW block \in Candidates(chain), NEW previous, NEW time,
           ValidateBlockHeader(block, previous, time)
    PROVE  Dated(block) /\ block.timestamp >= previous.timestamp
  <1>1. /\ block.timestamp \in Nat
        /\ block.transactions \in Seq(Transactions \cup Coinbases)
    BY CandidateFacts
  <1>2. /\ ValidateBlockStructure(block) /\ block.timestamp >= previous.timestamp
        /\ block.transactions[1].timestamp = block.timestamp
        /\ \A i \in 2 .. Len(block.transactions) : block.transactions[i].inputs # <<>>
    BY DEF ValidateBlockHeader, ValidateBody, ValidateCoinbaseStructure
  <1> DEFINE S == Transactions \cup Coinbases
  <1> HIDE DEF S
  <1>3. PICK n \in Nat : /\ n = Len(block.transactions)
                         /\ DOMAIN block.transactions = 1 .. n
                         /\ \A j \in 1 .. n : block.transactions[j] \in S
    BY <1>1 DEF S
  <1>4. ASSUME NEW j \in 1 .. n
        PROVE  \/ block.transactions[j] \in Transactions
               \/ /\ block.transactions[j] \in Coinbases
                  /\ block.transactions[j].timestamp = block.timestamp
    <2>1. CASE j = 1
      BY <1>2, <1>3, <2>1 DEF S
    <2>2. CASE j \in 2 .. n
      <3>1. block.transactions[j] \notin Coinbases
        BY <1>2, <1>3, <2>2, CoinbaseNames
      <3> QED BY <1>3, <3>1 DEF S
    <2> QED BY <2>1, <2>2
  <1> QED BY <1>1, <1>2, <1>3, <1>4 DEF Dated

\* Genesis is the only block, and the pool is empty.
LEMMA InitTemplateIInv == Init => TemplateIInv
  <1> SUFFICES ASSUME Init PROVE TemplateIInv
    OBVIOUS
  <1>1. PoolIInv
    BY InitPoolIInv
  <1>2. /\ blocks = <<GENESIS>> /\ now \in Nat
        /\ mempool = NewMempool(EmptyState)
    BY TimesAssumption DEF Init
  <1>3. Payable(mempool, EmptyState.utxos)
    BY <1>2, NewPayable
  <1>4. DOMAIN blocks = {1} /\ Len(blocks) = 1 /\ blocks[1] = GENESIS
    BY <1>2
  <1>5. Dated(GENESIS) /\ GENESIS.timestamp = 0
    <2>1. PICK none : none = <<>>
      OBVIOUS
    <2>2. DOMAIN none = {}
      BY <2>1
    <2>3. GENESIS.transactions = none /\ GENESIS.timestamp = 0 /\ GENESIS.header_ok
      BY <2>1 DEF GENESIS
    <2>4. DOMAIN TxidOf(none) = {}
      BY <2>2 DEF TxidOf
    <2> QED BY <2>2, <2>3, <2>4 DEF Dated, ValidateBlockStructure, IsInjective
  <1>6. Stamped
    BY <1>2, <1>4, <1>5 DEF Stamped
  <1> QED BY <1>1, <1>3, <1>6 DEF TemplateIInv

\* Time stands still on the chain unless a block is added.
LEMMA StepStamped == PoolIInv /\ Stamped /\ [Next]_vars => Stamped'
  <1> SUFFICES ASSUME PoolIInv, Stamped, [Next]_vars PROVE Stamped'
    OBVIOUS
  <1>1. CASE blocks' = blocks /\ now' \in Nat
    BY <1>1 DEF Stamped
  <1>2. ASSUME NEW tx \in Transactions, SubmitTransaction(tx) PROVE Stamped'
    BY <1>1, <1>2 DEF SubmitTransaction, Stamped
  <1>3. ASSUME NEW txid \in PendingTxids(mempool), RemovePendingTransaction(txid)
        PROVE  Stamped'
    BY <1>1, <1>3 DEF RemovePendingTransaction, Stamped
  <1>4. ASSUME NEW block \in Candidates(blocks), AddBlock(block) PROVE Stamped'
    <2>1. PICK S : blocks \in Seq(S)
      BY DEF PoolIInv, IInv
    <2>2. PICK n \in Nat : n = Len(blocks) /\ n >= 1
      BY <2>1 DEF PoolIInv, IInv
    <2>3. /\ DOMAIN blocks = 1 .. n /\ DOMAIN blocks' = 1 .. (n + 1)
          /\ Len(blocks') = n + 1
          /\ \A i \in 1 .. n : blocks'[i] = blocks[i]
          /\ blocks'[n + 1] = block
      BY <1>4, <2>1, <2>2, AppendFacts DEF AddBlock
    <2>4. ValidateBlockHeader(block, blocks[n], now) /\ now' = now
      BY <1>4, <2>2 DEF AddBlock, Accepts, ValidBlock
    <2>5. Dated(block) /\ block.timestamp >= blocks[n].timestamp
      BY <2>4, AcceptedDated
    <2>6. /\ now \in Nat
          /\ \A i \in 1 .. n : /\ Dated(blocks[i])
                               /\ blocks[i].timestamp <= blocks[n].timestamp
      BY <2>2, <2>3 DEF Stamped
    <2>7. \A i \in 1 .. (n + 1) : i \in 1 .. n \/ i = n + 1
      OBVIOUS
    <2>8. n \in 1 .. n
      BY <2>2
    <2>9. \A i \in 1 .. n : blocks[i].timestamp \in Nat
      BY <2>6 DEF Dated
    <2>10. \A i \in 1 .. n : blocks[i].timestamp <= block.timestamp
      <3>1. block.timestamp \in Nat
        BY <2>5 DEF Dated
      <3> QED BY <2>5, <2>6, <2>8, <2>9, <3>1
    <2>11. block.timestamp <= block.timestamp
      BY <2>5 DEF Dated
    <2>12. \A i \in 1 .. (n + 1) :
               Dated(blocks'[i]) /\ blocks'[i].timestamp <= block.timestamp
      BY <2>3, <2>5, <2>6, <2>7, <2>10, <2>11
    <2>13. \A i \in 1 .. (n + 1) : Dated(blocks[i])' <=> Dated(blocks'[i])
      BY DEF Dated
    <2> QED BY <2>3, <2>4, <2>6, <2>12 DEF Stamped
  <1>5. ASSUME NEW time \in Times, SetClock(time) PROVE Stamped'
    BY <1>1, <1>5, TimesAssumption DEF SetClock
  <1>6. CASE UNCHANGED vars
    BY <1>1, <1>6 DEF vars, Stamped
  <1> QED BY <1>2, <1>3, <1>4, <1>5, <1>6 DEF Next

\* Every pool is the result of admissions, one after the other.
LEMMA StepPayable ==
    PoolIInv /\ (\E all : Payable(mempool, all)) /\ [Next]_vars
        => (\E all : Payable(mempool, all))'
  <1> SUFFICES ASSUME PoolIInv, \E all : Payable(mempool, all), [Next]_vars
               PROVE  \E all : Payable(mempool', all)
    BY DEF Payable
  <1>1. PoolIInv'
    BY StepPoolIInv
  <1>2. /\ Rooted(state.utxos, state.seen)
        /\ Follows(mempool, state.utxos, state.seen)
    BY HistoryRooted DEF PoolIInv, IInv
  <1>3. PICK n \in Nat :
            /\ DOMAIN GetTransactions(mempool) = 1 .. n
            /\ \A k \in 1 .. n : GetTransactions(mempool)[k] \in Transactions
    BY <1>2, PoolTransactions DEF Follows
  <1>4. ASSUME NEW tx \in Transactions, SubmitTransaction(tx)
        PROVE  \E all : Payable(mempool', all)
    BY <1>2, <1>4, AddPayable DEF SubmitTransaction
  <1>5. ASSUME NEW txid \in PendingTxids(mempool), RemovePendingTransaction(txid)
        PROVE  \E all : Payable(mempool', all)
    <2>1. PICK st, new : /\ st = [utxos |-> mempool.confirmed, seen |-> mempool.seen]
                         /\ new = Rebuild(GetTransactions(mempool), {txid}, st)
      OBVIOUS
    <2>2. st.utxos = state.utxos /\ st.seen = state.seen
      BY <1>2, <2>1 DEF Follows
    <2>3. Rooted(st.utxos, st.seen)
      BY <1>2, <2>2
    <2>4. PICK all : Payable(new, all)
      BY <1>3, <2>1, <2>3, RebuildPayable
    <2>5. Follows(new, st.utxos, st.seen)
      BY <1>3, <2>1, <2>3, RebuildFollows
    <2>6. /\ mempool'.confirmed = mempool.confirmed
          /\ mempool'.entries = new.entries /\ mempool'.working = new.working
      <3>1. DOMAIN mempool = Fields
        BY <1>2 DEF Follows
      <3>2. mempool' = [mempool EXCEPT !.entries = new.entries,
                                       !.working = new.working,
                                       !.total_bytes = new.total_bytes]
        BY <1>5, <2>1 DEF RemovePendingTransaction, RemoveTransaction, HasTransaction
      <3> QED BY <3>1, <3>2, SMTT(20) DEF Fields
    <2>7. mempool'.confirmed = new.confirmed
      BY <1>2, <2>2, <2>5, <2>6 DEF Follows
    <2> QED BY <2>4, <2>6, <2>7 DEF Payable
  <1>6. ASSUME NEW block \in Candidates(blocks), AddBlock(block)
        PROVE  \E all : Payable(mempool', all)
    <2>1. PICK st : st = StateAfter(state, block)
      OBVIOUS
    <2>2. state' = st /\ mempool' = Rebuild(GetTransactions(mempool), st.seen, st)
      BY <1>6, <2>1 DEF AddBlock, Revalidated
    <2>3. Rooted(state.utxos, state.seen)'
      BY <1>1, HistoryRooted DEF PoolIInv, IInv
    <2>4. Rooted(st.utxos, st.seen)
      BY <2>2, <2>3 DEF Rooted
    <2> QED BY <1>3, <2>2, <2>4, RebuildPayable
  <1>7. ASSUME NEW time \in Times, SetClock(time) PROVE \E all : Payable(mempool', all)
    BY <1>7 DEF SetClock
  <1>8. CASE UNCHANGED vars
    BY <1>8 DEF vars
  <1> QED BY <1>4, <1>5, <1>6, <1>7, <1>8 DEF Next

-----------------------------------------------------------------------------
(* The template.                                                             *)

\* No confirmed transaction has the txid of a coinbase younger than the chain.
LEMMA FreshCoinbase ==
    ASSUME IInv, Stamped, NEW t \in Nat,
           \A i \in DOMAIN blocks : blocks[i].timestamp < t,
           NEW a, NEW r
    PROVE  <<"coinbase", t, a, r>> \notin state.seen
  <1> SUFFICES ASSUME <<"coinbase", t, a, r>> \in state.seen PROVE FALSE
    OBVIOUS
  <1>1. PICK p \in Positions : TxMap[p].txid = <<"coinbase", t, a, r>>
    BY DEF IInv, History
  <1>2. PICK i \in DOMAIN blocks :
            \E j \in DOMAIN blocks[i].transactions : p = <<i, j>>
    BY DEF Positions
  <1>3. PICK j \in DOMAIN blocks[i].transactions : p = <<i, j>>
    BY <1>2
  <1>4. PICK tx : tx = blocks[i].transactions[j]
    OBVIOUS
  <1>5. tx.txid = <<"coinbase", t, a, r>>
    BY <1>1, <1>3, <1>4 DEF TxMap, TxAt
  <1>6. tx.txid[1] = "coinbase" /\ tx.txid[2] = t
    BY <1>5
  <1>7. /\ blocks[i].timestamp \in Nat /\ blocks[i].timestamp < t
        /\ \/ tx \in Transactions
           \/ tx \in Coinbases /\ tx.timestamp = blocks[i].timestamp
    BY <1>4 DEF Stamped, Dated
  <1>8. CASE tx \in Transactions
    BY <1>6, <1>8, TxidNotCoinbase
  <1>9. CASE tx \in Coinbases /\ tx.timestamp = blocks[i].timestamp
    <2>1. PICK b, s : tx.txid = <<"coinbase", tx.timestamp, b, s>>
      BY <1>9, CoinbaseNames
    <2>2. tx.txid[2] = tx.timestamp
      BY <2>1
    <2> QED BY <1>6, <1>7, <1>9, <2>2
  <1> QED BY <1>7, <1>8, <1>9

\* The transactions of a template: the coinbase, then the selection.
LEMMA TemplateBody ==
    ASSUME NEW c, NEW txs \in Seq(Transactions), NEW body, body = <<c>> \o txs
    PROVE  /\ Head(body) = c /\ body[1] = c /\ body # <<>>
           /\ Tail(body) = txs
           /\ Len(body) = Len(txs) + 1 /\ DOMAIN body = 1 .. (Len(txs) + 1)
           /\ \A k \in DOMAIN txs : body[k + 1] = txs[k]
           /\ \A k \in 2 .. Len(body) : k - 1 \in DOMAIN txs /\ body[k] = txs[k - 1]
  <1> DEFINE S == Transactions \cup {c}
  <1> HIDE DEF S
  <1>1. txs \in Seq(S) /\ <<c>> \in Seq(S) /\ Len(<<c>>) = 1 /\ <<c>>[1] = c
    BY DEF S
  <1>2. PICK n \in Nat : n = Len(txs) /\ DOMAIN txs = 1 .. n
    BY <1>1
  <1>3. /\ body \in Seq(S) /\ Len(body) = n + 1 /\ DOMAIN body = 1 .. (n + 1)
        /\ body[1] = c
        /\ \A k \in 1 .. n : body[k + 1] = txs[k]
    BY <1>1, <1>2
  <1>4. body # <<>> /\ Head(body) = c
    BY <1>2, <1>3
  <1>5. Tail(body) \in Seq(S) /\ Len(Tail(body)) = n
        /\ \A k \in 1 .. n : Tail(body)[k] = body[k + 1]
    BY <1>2, <1>3, <1>4
  <1>6. Tail(body) = txs
    BY <1>1, <1>2, <1>3, <1>5
  <1>7. \A k \in 2 .. (n + 1) : k - 1 \in 1 .. n /\ body[k] = txs[k - 1]
    <2> SUFFICES ASSUME NEW k \in 2 .. (n + 1)
                 PROVE  k - 1 \in 1 .. n /\ body[k] = txs[k - 1]
      OBVIOUS
    <2>1. k - 1 \in 1 .. n /\ (k - 1) + 1 = k
      BY <1>2
    <2> QED BY <1>3, <2>1
  <1> QED BY <1>2, <1>3, <1>4, <1>6, <1>7

\* What the template claims is what the ledger checks: a block built on the
\* last one, over a choice of the pool, with a fresh second.
LEMMA TemplateAccepted ==
    ASSUME TemplateIInv, NEW a \in Addresses, NEW txs, NEW t \in Nat,
           Chosen(txs, mempool.entries),
           \A i \in DOMAIN blocks : blocks[i].timestamp < t
    PROVE  LET template == CreateBlockTemplate(blocks[Len(blocks)], a, txs, t, state)
           IN  /\ template.ok
               /\ t <= now + MAX_FUTURE_BLOCK_TIME =>
                      Accepts(blocks, state, now, template.block)
  <1>1. PICK batch, c, body, last :
            /\ batch = ApplyTransactions(txs, state)
            /\ c = CreateCoinbase(a, t, BLOCK_SUBSIDY + batch.fees)
            /\ body = <<c>> \o txs
            /\ last = blocks[Len(blocks)]
    OBVIOUS
  <1>2. PICK block : block = [previous_block_hash |-> BlockHash(last), timestamp |-> t,
                              transactions |-> body, header_ok |-> TRUE]
    OBVIOUS
  <1>3. /\ block.previous_block_hash = BlockHash(last) /\ block.timestamp = t
        /\ block.transactions = body /\ block.header_ok = TRUE
    BY <1>2
  <1>4. PICK template : template = CreateBlockTemplate(last, a, txs, t, state)
    OBVIOUS
  <1>5. PICK all : Payable(mempool, all)
    BY DEF TemplateIInv
  <1>6. /\ PoolIInv /\ IInv /\ Stamped
        /\ Rooted(state.utxos, state.seen)
        /\ Follows(mempool, state.utxos, state.seen)
    BY HistoryRooted DEF TemplateIInv, PoolIInv, IInv
  <1>7. /\ batch.ok /\ batch.fees \in Nat
        /\ batch.seen = state.seen \cup {txs[j].txid : j \in DOMAIN txs}
        /\ \A o \in DOMAIN batch.utxos : o[1] \in batch.seen
    BY <1>1, <1>5, <1>6, ChoiceApplies
  <1>8. /\ txs \in Seq(Transactions)
        /\ \A k \in DOMAIN txs : txs[k] \in Transactions
        /\ \A j, k \in DOMAIN txs : j # k => txs[j].txid # txs[k].txid
    BY DEF Chosen
  <1>9. \A k \in DOMAIN txs : txs[k].inputs # <<>>
    <2> SUFFICES ASSUME NEW k \in DOMAIN txs PROVE txs[k].inputs # <<>>
      OBVIOUS
    <2>1. PICK i \in DOMAIN mempool.entries : txs[k] = mempool.entries[i].transaction
      BY DEF Chosen
    <2>2. ValidatedFee(txs[k], all) # NoFee
      BY <1>5, <2>1 DEF Payable
    <2> QED BY <2>2, ValidSpends
  <1>10. /\ c.txid = <<"coinbase", t, a, BLOCK_SUBSIDY + batch.fees>>
         /\ c.inputs = <<>> /\ c.timestamp = t /\ c.well_formed = TRUE
         /\ Len(c.outputs) = 1 /\ DOMAIN c.outputs = {1}
         /\ c.outputs[1] = [amount |-> BLOCK_SUBSIDY + batch.fees, recipient |-> a]
    BY <1>1 DEF CreateCoinbase
  <1>11. /\ c.outputs[1].amount = BLOCK_SUBSIDY + batch.fees
         /\ c.outputs[1].recipient = a
    BY <1>10
  <1>12. \A k \in DOMAIN txs : txs[k].txid # c.txid
    <2>1. c.txid[1] = "coinbase"
      BY <1>10
    <2> QED BY <1>8, <2>1, TxidNotCoinbase
  <1>13. c.txid \notin state.seen
    BY <1>6, <1>10, FreshCoinbase
  <1>14. c.txid \notin batch.seen
    BY <1>7, <1>12, <1>13
  <1>15. /\ last.timestamp \in Nat /\ last.timestamp < t
         /\ ValidateBlockStructure(last)
    <2>1. PICK n \in Nat : n = Len(blocks) /\ n >= 1 /\ DOMAIN blocks = 1 .. n
      BY <1>6 DEF IInv
    <2>2. n \in DOMAIN blocks /\ last = blocks[n]
      BY <1>1, <2>1
    <2> QED BY <1>6, <2>2 DEF Stamped, Dated
  <1>16. template.ok
    <2>1. t >= last.timestamp
      BY <1>15
    <2> QED BY <1>1, <1>4, <1>7, <1>9, <1>14, <2>1 DEF CreateBlockTemplate
  <1>17. template.block = block
    BY <1>1, <1>2, <1>4 DEF CreateBlockTemplate
  <1>18. /\ Head(body) = c /\ body[1] = c /\ body # <<>> /\ Tail(body) = txs
         /\ Len(body) = Len(txs) + 1 /\ DOMAIN body = 1 .. (Len(txs) + 1)
         /\ \A k \in 2 .. Len(body) : k - 1 \in DOMAIN txs /\ body[k] = txs[k - 1]
    BY <1>1, <1>8, TemplateBody
  <1>19. ValidateBlockStructure(block)
    <2>1. \A j, k \in DOMAIN body : body[j].txid = body[k].txid => j = k
      <3> SUFFICES ASSUME NEW j \in DOMAIN body, NEW k \in DOMAIN body, j # k
                   PROVE  body[j].txid # body[k].txid
        OBVIOUS
      <3>1. /\ j \in Int /\ k \in Int /\ Len(body) \in Nat
            /\ j = 1 \/ j \in 2 .. Len(body)
            /\ k = 1 \/ k \in 2 .. Len(body)
        BY <1>8, <1>18
      <3>2. CASE j = 1
        BY <1>12, <1>18, <3>1, <3>2
      <3>3. CASE k = 1
        BY <1>12, <1>18, <3>1, <3>3
      <3>4. CASE j \in 2 .. Len(body) /\ k \in 2 .. Len(body)
        <4>1. /\ j - 1 \in DOMAIN txs /\ body[j] = txs[j - 1]
              /\ k - 1 \in DOMAIN txs /\ body[k] = txs[k - 1]
          BY <1>18, <3>4
        <4>2. j - 1 # k - 1
          BY <3>1
        <4> QED BY <1>8, <4>1, <4>2
      <3> QED BY <3>1, <3>2, <3>3, <3>4
    <2>2. IsInjective(TxidOf(body))
      BY <2>1 DEF IsInjective, TxidOf
    <2> QED BY <1>3, <2>2 DEF ValidateBlockStructure
  <1>20. IsValidOutput(c.outputs[1])
    BY <1>7, <1>11 DEF IsValidOutput, BLOCK_SUBSIDY
  <1>21. ValidateCoinbaseStructure(c, t)
    BY <1>10, <1>20 DEF ValidateCoinbaseStructure
  <1>22. ValidateBody(block)
    BY <1>3, <1>9, <1>18, <1>21 DEF ValidateBody
  <1>23. ApplyBlockTransactions(block, state).ok
    <2>1. ValidateCoinbase(c, t, batch.fees)
      BY <1>7, <1>11, <1>21 DEF ValidateCoinbase, BLOCK_SUBSIDY
    <2>2. Outpoints(c) \cap DOMAIN batch.utxos = {}
      <3>1. \A o \in Outpoints(c) : o[1] = c.txid
        BY DEF Outpoints
      <3> QED BY <1>7, <1>14, <3>1
    <2>3. Head(block.transactions) = c /\ Tail(block.transactions) = txs
      BY <1>3, <1>18
    <2>4. ApplyBlockTransactions(block, state).ok <=>
              /\ c.txid \notin state.seen /\ batch.ok /\ c.txid \notin batch.seen
              /\ ValidateCoinbase(c, block.timestamp, batch.fees)
              /\ Outpoints(c) \cap DOMAIN batch.utxos = {}
      BY <1>1, <2>3 DEF ApplyBlockTransactions
    <2> QED BY <1>3, <1>7, <1>13, <1>14, <2>1, <2>2, <2>4
  <1>24. \A i \in DOMAIN blocks : BlockHash(blocks[i]) # BlockHash(block)
    <2> SUFFICES ASSUME NEW i \in DOMAIN blocks
                 PROVE  BlockHash(blocks[i]) # BlockHash(block)
      OBVIOUS
    <2>1. blocks[i].timestamp \in Nat /\ blocks[i].timestamp < t
      BY <1>6 DEF Stamped, Dated
    <2>2. BlockHash(blocks[i])[2] = blocks[i].timestamp /\ BlockHash(block)[2] = t
      BY <1>3 DEF BlockHash
    <2> QED BY <2>1, <2>2
  <1>25. t <= now + MAX_FUTURE_BLOCK_TIME => ValidateBlockHeader(block, last, now)
    BY <1>3, <1>15, <1>19, <1>22 DEF ValidateBlockHeader
  <1>26. t <= now + MAX_FUTURE_BLOCK_TIME => Accepts(blocks, state, now, block)
    BY <1>1, <1>23, <1>24, <1>25 DEF Accepts, ValidBlock
  <1> QED BY <1>1, <1>4, <1>16, <1>17, <1>26

\* The state of the chain and of the pool that templates are built from.
THEOREM TemplateInvariance == Spec => []TemplateIInv
  <1>1. Init => TemplateIInv
    BY InitTemplateIInv
  <1>2. TemplateIInv /\ [Next]_vars => TemplateIInv'
    <2> SUFFICES ASSUME TemplateIInv, [Next]_vars PROVE TemplateIInv'
      OBVIOUS
    <2>1. PoolIInv /\ Stamped /\ \E all : Payable(mempool, all)
      BY DEF TemplateIInv
    <2>2. PoolIInv'
      BY <2>1, StepPoolIInv
    <2>3. Stamped'
      BY <2>1, StepStamped
    <2>4. (\E all : Payable(mempool, all))'
      BY <2>1, StepPayable
    <2> QED BY <2>2, <2>3, <2>4 DEF TemplateIInv
  <1> QED BY <1>1, <1>2, PTL DEF Spec

\* A node can always mine what it holds: whatever the pool and the limits, the
\* default template of create_block_template over select_transactions raises
\* no error, stays within its limits, and add_block accepts it unless the next
\* second is beyond the future limit.
THEOREM TemplateTheorem == Spec => []TemplateAcceptable
  <1>1. TemplateIInv => TemplateAcceptable
    <2> SUFFICES ASSUME TemplateIInv, NEW a \in Addresses,
                        NEW mt \in 0 .. MempoolMaxTransactions,
                        NEW mb \in {0, MempoolMaxBytes - 1, MempoolMaxBytes}
                 PROVE
        LET txs == SelectTransactions(mempool, mt, mb)
            timestamp == DefaultTimestamp(Last(blocks), now)
            template == CreateBlockTemplate(Last(blocks), a, txs, timestamp, state)
        IN  /\ template.ok
            /\ Len(txs) <= mt
            /\ SumFunction([i \in DOMAIN txs |-> txs[i].size]) <= mb
            /\ timestamp <= now + MAX_FUTURE_BLOCK_TIME =>
                   Accepts(blocks, state, now, template.block)
      BY DEF TemplateAcceptable
    <2>1. mt \in Nat /\ mb \in Nat
      BY MempoolLimits
    <2>2. PICK txs, last, t : /\ txs = SelectTransactions(mempool, mt, mb)
                              /\ last = blocks[Len(blocks)]
                              /\ t = DefaultTimestamp(last, now)
      OBVIOUS
    <2>3. Last(blocks) = last
      BY <2>2 DEF Last
    <2>4. PICK all : Payable(mempool, all)
      BY DEF TemplateIInv
    <2>5. /\ Chosen(txs, mempool.entries) /\ Len(txs) <= mt
          /\ SumFunction(Weights(txs)) <= mb
      BY <2>1, <2>2, <2>4, SelectionChosen DEF TemplateIInv, PoolIInv
    <2>6. t \in Nat /\ \A i \in DOMAIN blocks : blocks[i].timestamp < t
      <3>1. PICK n \in Nat : n = Len(blocks) /\ n >= 1 /\ DOMAIN blocks = 1 .. n
        BY DEF TemplateIInv, PoolIInv, IInv
      <3>2. n \in DOMAIN blocks /\ last = blocks[n]
        BY <2>2, <3>1
      <3>3. /\ now \in Nat /\ last.timestamp \in Nat
            /\ \A i \in DOMAIN blocks : /\ blocks[i].timestamp \in Nat
                                        /\ blocks[i].timestamp <= last.timestamp
        BY <2>2, <3>2 DEF TemplateIInv, Stamped, Dated
      <3>4. t \in Nat /\ last.timestamp < t
        BY <2>2, <3>3 DEF DefaultTimestamp
      <3> QED BY <3>3, <3>4
    <2>7. PICK template : template = CreateBlockTemplate(last, a, txs, t, state)
      OBVIOUS
    <2>8. /\ template.ok
          /\ t <= now + MAX_FUTURE_BLOCK_TIME =>
                 Accepts(blocks, state, now, template.block)
      BY <2>2, <2>5, <2>6, <2>7, TemplateAccepted
    <2> QED BY <2>2, <2>3, <2>5, <2>7, <2>8 DEF Weights
  <1> QED BY <1>1, TemplateInvariance, PTL

-----------------------------------------------------------------------------
(* What a rebuilt pool keeps.                                                *)

SumTo(f, k) == SumFunction([i \in 1 .. k |-> f[i]])

\* The sums of the first terms grow to the whole sum.
LEMMA PrefixSums ==
    ASSUME NEW n \in Nat, NEW f, f = [i \in 1 .. n |-> f[i]],
           \A i \in 1 .. n : f[i] \in Nat
    PROVE  /\ SumTo(f, 0) = 0
           /\ \A k \in Nat : k + 1 <= n => SumTo(f, k + 1) = SumTo(f, k) + f[k + 1]
           /\ \A k \in Nat : k <= n => SumTo(f, k) \in Nat /\ SumTo(f, k) <= SumFunction(f)
  <1>1. SumTo(f, 0) = 0
    <2>1. PICK g : g = [i \in 1 .. 0 |-> f[i]]
      OBVIOUS
    <2>2. DOMAIN g = {}
      BY <2>1
    <2> QED BY <2>1, <2>2, SumOfNothing DEF SumTo
  <1>2. ASSUME NEW k \in Nat, k + 1 <= n PROVE SumTo(f, k + 1) = SumTo(f, k) + f[k + 1]
    <2>1. PICK g, h : g = [i \in 1 .. k |-> f[i]] /\ h = [i \in 1 .. (k + 1) |-> f[i]]
      OBVIOUS
    <2>2. /\ DOMAIN g = 1 .. k /\ DOMAIN h = 1 .. (k + 1)
          /\ \A i \in 1 .. k : h[i] = g[i]
          /\ \A i \in 1 .. (k + 1) : h[i] \in Int
          /\ h[k + 1] = f[k + 1]
      BY <1>2, <2>1
    <2>3. SumFunction(h) = SumFunction(g) + h[k + 1]
      BY <2>2, SumOfPrefix
    <2> QED BY <2>1, <2>2, <2>3 DEF SumTo
  <1>3. \A k \in Nat : k <= n => SumTo(f, k) \in Nat
    <2> DEFINE K == {k \in Nat : k <= n => SumTo(f, k) \in Nat}
    <2>1. 0 \in K
      BY <1>1
    <2>2. ASSUME NEW k \in Nat, k \in K PROVE k + 1 \in K
      <3> SUFFICES ASSUME k + 1 <= n PROVE SumTo(f, k + 1) \in Nat
        OBVIOUS
      <3>1. SumTo(f, k) \in Nat
        BY <2>2
      <3>2. f[k + 1] \in Nat
        OBVIOUS
      <3> QED BY <1>2, <3>1, <3>2
    <2> HIDE DEF K
    <2>3. \A k \in Nat : k \in K
      BY <2>1, <2>2, NatInductive
    <2> QED BY <2>3 DEF K
  <1>4. \A k \in Nat : k <= n => SumTo(f, k) <= SumFunction(f)
    <2> DEFINE K == {d \in Nat : d <= n => SumTo(f, n - d) <= SumFunction(f)}
    <2>1. SumTo(f, n) = SumFunction(f) /\ SumTo(f, n) \in Nat
      <3>1. SumTo(f, n) = SumFunction(f)
        BY Zenon DEF SumTo
      <3>2. SumTo(f, n) \in Nat
        BY <1>3
      <3> QED BY <3>1, <3>2
    <2>2. 0 \in K
      BY <2>1
    <2>3. ASSUME NEW d \in Nat, d \in K PROVE d + 1 \in K
      <3> SUFFICES ASSUME d + 1 <= n PROVE SumTo(f, n - (d + 1)) <= SumFunction(f)
        OBVIOUS
      <3>1. PICK k \in Nat : k = n - (d + 1) /\ k + 1 = n - d /\ k + 1 <= n
        OBVIOUS
      <3>2. SumTo(f, k + 1) <= SumFunction(f)
        BY <2>3, <3>1
      <3>3. SumTo(f, k + 1) = SumTo(f, k) + f[k + 1] /\ f[k + 1] \in Nat
        BY <1>2, <3>1
      <3>4. SumTo(f, k) \in Nat
        BY <1>3, <3>1
      <3> QED BY <2>1, <3>1, <3>2, <3>3, <3>4
    <2> HIDE DEF K
    <2>4. \A d \in Nat : d \in K
      BY <2>2, <2>3, NatInductive
    <2>5. ASSUME NEW k \in Nat, k <= n PROVE SumTo(f, k) <= SumFunction(f)
      <3>1. n - k \in Nat /\ n - k <= n /\ n - (n - k) = k
        BY <2>5
      <3> QED BY <2>4, <3>1 DEF K
    <2> QED BY <2>5
  <1> QED BY <1>1, <1>2, <1>3, <1>4

\* What is known of the transactions of the old pool, in its order.
Listed(old, n, all) ==
    /\ \A x \in 1 .. n :
          /\ old[x] \in Transactions
          /\ ValidatedFee(old[x], all) # NoFee
          /\ Outpoints(old[x]) \subseteq DOMAIN all
          /\ \A o \in Outpoints(old[x]) : all[o] = old[x].outputs[o[2] + 1]
    /\ \A x, y \in 1 .. n : x # y => /\ old[x].txid # old[y].txid
                                     /\ Spent(old[x]) \cap Spent(old[y]) = {}

\* dropped is what has to go: what is passed over, and what has an input that is
\* neither confirmed nor made by what stays.
Separates(old, n, st, all, passed_over, dropped) ==
    /\ \A x \in 1 .. n : old[x].txid \in passed_over => old[x].txid \in dropped
    /\ \A x \in 1 .. n :
          old[x].txid \in dropped /\ old[x].txid \notin passed_over =>
              \E o \in Spent(old[x]) :
                  /\ o \notin DOMAIN st.utxos
                  /\ \A y \in 1 .. n : o \in Outpoints(old[y]) => old[y].txid \in dropped
    /\ \A x \in 1 .. n :
          old[x].txid \notin dropped =>
              /\ old[x].txid \notin st.seen
              /\ \A o \in Spent(old[x]) :
                    \/ o \in DOMAIN st.utxos /\ st.utxos[o] = all[o]
                    \/ \E y \in 1 .. (x - 1) : /\ old[y].txid \notin dropped
                                               /\ o \in Outpoints(old[y])

\* The new pool has the first k of the old one without those dropped.
Survives(old, k, pool, dropped) ==
    /\ \A i \in DOMAIN pool.entries :
          \E x \in 1 .. k : /\ pool.entries[i].transaction = old[x]
                            /\ old[x].txid \notin dropped
    /\ \A x \in 1 .. k :
          old[x].txid \notin dropped =>
              \E i \in DOMAIN pool.entries : pool.entries[i].transaction = old[x]
    /\ \A i, j \in DOMAIN pool.entries, x, y \in 1 .. k :
          /\ pool.entries[i].transaction = old[x]
          /\ pool.entries[j].transaction = old[y]
          => (i < j <=> x < y)

\* What the next of the old pool finds in the new one.
LEMMA NextIsNew ==
    ASSUME NEW old, NEW n \in Nat, NEW all, NEW k \in Nat, k + 1 <= n, NEW pool,
           NEW dropped, Listed(old, n, all), Survives(old, k, pool, dropped)
    PROVE  \A i \in DOMAIN pool.entries :
              /\ pool.entries[i].transaction.txid # old[k + 1].txid
              /\ Spent(pool.entries[i].transaction) \cap Spent(old[k + 1]) = {}
  <1> SUFFICES ASSUME NEW i \in DOMAIN pool.entries
               PROVE  /\ pool.entries[i].transaction.txid # old[k + 1].txid
                      /\ Spent(pool.entries[i].transaction) \cap Spent(old[k + 1]) = {}
    OBVIOUS
  <1>1. PICK x \in 1 .. k : pool.entries[i].transaction = old[x]
    BY DEF Survives
  <1>2. x \in 1 .. n /\ k + 1 \in 1 .. n /\ x # k + 1
    OBVIOUS
  <1> QED BY <1>1, <1>2 DEF Listed

\* What has lost an input is refused.
LEMMA DroppedRefused ==
    ASSUME NEW old, NEW n \in Nat, NEW st, NEW all, NEW passed_over, NEW dropped,
           NEW k \in Nat, k + 1 <= n, NEW pool,
           Follows(pool, st.utxos, st.seen), Survives(old, k, pool, dropped),
           Separates(old, n, st, all, passed_over, dropped),
           old[k + 1].txid \in dropped, old[k + 1].txid \notin passed_over
    PROVE  ~Admits(pool, old[k + 1])
  <1>1. k + 1 \in 1 .. n /\ \A x \in 1 .. k : x \in 1 .. n
    OBVIOUS
  <1>2. PICK o \in Spent(old[k + 1]) :
            /\ o \notin DOMAIN st.utxos
            /\ \A y \in 1 .. n : o \in Outpoints(old[y]) => old[y].txid \in dropped
    BY <1>1 DEF Separates
  <1>3. o \notin Made(pool.entries)
    <2> SUFFICES ASSUME o \in Made(pool.entries) PROVE FALSE
      OBVIOUS
    <2>1. PICK i \in DOMAIN pool.entries : o \in Outpoints(pool.entries[i].transaction)
      BY DEF Made, ToSet
    <2>2. PICK x \in 1 .. k : /\ pool.entries[i].transaction = old[x]
                              /\ old[x].txid \notin dropped
      BY DEF Survives
    <2> QED BY <1>1, <1>2, <2>1, <2>2
  <1>4. o \notin DOMAIN pool.working
    BY <1>2, <1>3 DEF Follows
  <1> QED BY <1>4, ValidSpends DEF Admits

\* What has all its inputs is admitted, if there is room.
LEMMA KeptAdmitted ==
    ASSUME NEW old, NEW n \in Nat, NEW st, NEW all, NEW passed_over, NEW dropped,
           NEW k \in Nat, k + 1 <= n, NEW pool, NEW more,
           Rooted(st.utxos, st.seen), Listed(old, n, all),
           Follows(pool, st.utxos, st.seen), Payable(pool, more),
           Survives(old, k, pool, dropped),
           Separates(old, n, st, all, passed_over, dropped),
           old[k + 1].txid \notin dropped,
           Len(pool.entries) < MempoolMaxTransactions,
           pool.total_bytes + old[k + 1].size <= MempoolMaxBytes
    PROVE  Admits(pool, old[k + 1])
  <1>1. PICK tx : tx = old[k + 1]
    OBVIOUS
  <1>2. k + 1 \in 1 .. n /\ (k + 1) - 1 = k /\ \A x \in 1 .. k : x \in 1 .. n
    OBVIOUS
  <1>3. \A i \in DOMAIN pool.entries :
            /\ pool.entries[i].transaction.txid # tx.txid
            /\ Spent(pool.entries[i].transaction) \cap Spent(tx) = {}
    BY <1>1, NextIsNew
  <1>4. /\ tx.txid \notin st.seen
        /\ \A o \in Spent(tx) :
              \/ o \in DOMAIN st.utxos /\ st.utxos[o] = all[o]
              \/ \E y \in 1 .. k : old[y].txid \notin dropped /\ o \in Outpoints(old[y])
    BY <1>1, <1>2 DEF Separates
  <1>5. ValidatedFee(tx, all) # NoFee
    BY <1>1, <1>2 DEF Listed
  <1>6. /\ Spent(tx) \subseteq DOMAIN all
        /\ \A i, j \in DOMAIN tx.inputs :
              tx.inputs[i].outpoint = tx.inputs[j].outpoint => i = j
    BY <1>5, ValidSpends
  <1>7. ASSUME NEW o \in Spent(tx)
        PROVE  o \in DOMAIN pool.working /\ pool.working[o] = all[o]
    <2>1. o \notin Used(pool.entries)
      BY <1>3, <1>7 DEF Used, ToSet
    <2>2. CASE o \in DOMAIN st.utxos /\ st.utxos[o] = all[o]
      <3>1. o \in DOMAIN pool.working
        BY <2>1, <2>2 DEF Follows
      <3>2. pool.working[o] = more[o] /\ more[o] = st.utxos[o]
        BY <2>2, <3>1 DEF Payable, Follows
      <3> QED BY <2>2, <3>1, <3>2
    <2>3. ASSUME NEW y \in 1 .. k, old[y].txid \notin dropped, o \in Outpoints(old[y])
          PROVE  o \in DOMAIN pool.working /\ pool.working[o] = all[o]
      <3>1. PICK i \in DOMAIN pool.entries : pool.entries[i].transaction = old[y]
        BY <2>3 DEF Survives
      <3>2. o \in Made(pool.entries)
        BY <2>3, <3>1 DEF Made, ToSet
      <3>3. o \in DOMAIN pool.working
        BY <2>1, <3>2 DEF Follows
      <3>4. pool.working[o] = more[o] /\ more[o] = old[y].outputs[o[2] + 1]
        BY <2>3, <3>1, <3>3 DEF Payable
      <3>5. all[o] = old[y].outputs[o[2] + 1]
        BY <1>2, <2>3 DEF Listed
      <3> QED BY <3>3, <3>4, <3>5
    <2> QED BY <1>4, <1>7, <2>2, <2>3
  <1>8. ValidatedFee(tx, pool.working) # NoFee
    <2>1. ValidatedFee(tx, pool.working) = ValidatedFee(tx, all)
      BY <1>6, <1>7, FeeDepends
    <2> QED BY <1>5, <2>1
  <1>9. Outpoints(tx) \cap DOMAIN pool.working = {}
    <2> SUFFICES ASSUME NEW o \in Outpoints(tx), o \in DOMAIN pool.working PROVE FALSE
      OBVIOUS
    <2>1. o[1] = tx.txid
      BY DEF Outpoints
    <2>2. CASE o \in DOMAIN st.utxos
      BY <1>4, <2>1, <2>2 DEF Rooted
    <2>3. CASE o \in Made(pool.entries)
      <3>1. PICK i \in DOMAIN pool.entries : o \in Outpoints(pool.entries[i].transaction)
        BY <2>3 DEF Made, ToSet
      <3>2. o[1] = pool.entries[i].transaction.txid
        BY <3>1 DEF Outpoints
      <3> QED BY <1>3, <2>1, <3>2
    <2> QED BY <2>2, <2>3 DEF Follows
  <1>10. Applicable(tx, pool.working)
    BY <1>6, <1>7, <1>9 DEF Applicable
  <1>11. ~HasTransaction(pool, tx.txid)
    BY <1>3 DEF HasTransaction, PendingTxids, TxidOf, GetTransactions, ToSet
  <1>12. tx.txid \notin pool.seen
    BY <1>4 DEF Follows
  <1> QED BY <1>1, <1>8, <1>10, <1>11, <1>12 DEF Admits

\* One more transaction of the old pool, at the end of the new one or not.
LEMMA SurvivesNext ==
    ASSUME NEW old, NEW n \in Nat, NEW st, NEW all, NEW passed_over, NEW dropped,
           NEW k \in Nat, k + 1 <= n, NEW pool, NEW next,
           Listed(old, n, all), Follows(pool, st.utxos, st.seen),
           Survives(old, k, pool, dropped),
           \/ next = pool /\ old[k + 1].txid \in dropped
           \/ /\ Admits(pool, old[k + 1]) /\ next = AddTransaction(pool, old[k + 1])
              /\ old[k + 1].txid \notin dropped
    PROVE  Survives(old, k + 1, next, dropped)
  <1>1. PICK tx : tx = old[k + 1]
    OBVIOUS
  <1>2. /\ k + 1 \in 1 .. (k + 1)
        /\ \A x \in 1 .. k : x \in 1 .. (k + 1) /\ x < k + 1
        /\ \A x \in 1 .. (k + 1) : x \in 1 .. k \/ x = k + 1
        /\ ~(k + 1 < k + 1) /\ \A x \in 1 .. k : ~(k + 1 < x)
    OBVIOUS
  <1>3. \A i \in DOMAIN pool.entries : pool.entries[i].transaction # tx
    BY <1>1, NextIsNew
  <1>4. \A x \in 1 .. k : old[x] # tx
    <2>1. \A x \in 1 .. k : x \in 1 .. n /\ k + 1 \in 1 .. n /\ x # k + 1
      OBVIOUS
    <2> QED BY <1>1, <2>1 DEF Listed
  <1>5. CASE next = pool /\ tx.txid \in dropped
    <2>1. \A x \in 1 .. (k + 1) :
              (\E i \in DOMAIN pool.entries : pool.entries[i].transaction = old[x])
                  => x \in 1 .. k
      BY <1>1, <1>2, <1>3
    <2>2. \A i \in DOMAIN next.entries :
             \E x \in 1 .. (k + 1) : /\ next.entries[i].transaction = old[x]
                                     /\ old[x].txid \notin dropped
      BY <1>2, <1>5 DEF Survives
    <2>3. \A x \in 1 .. (k + 1) :
             old[x].txid \notin dropped =>
                 \E i \in DOMAIN next.entries : next.entries[i].transaction = old[x]
      BY <1>1, <1>2, <1>5 DEF Survives
    <2>4. \A i, j \in DOMAIN next.entries, x, y \in 1 .. (k + 1) :
             /\ next.entries[i].transaction = old[x]
             /\ next.entries[j].transaction = old[y]
             => (i < j <=> x < y)
      BY <1>5, <2>1 DEF Survives
    <2> QED BY <2>2, <2>3, <2>4 DEF Survives
  <1>6. CASE Admits(pool, tx) /\ next = AddTransaction(pool, tx) /\ tx.txid \notin dropped
    <2>1. PICK e : e = [transaction |-> tx, fee |-> ValidatedFee(tx, pool.working),
                        size_bytes |-> tx.size]
      OBVIOUS
    <2>2. e.transaction = tx /\ next.entries = Append(pool.entries, e)
      BY <1>6, <2>1 DEF AddTransaction, Follows, Fields
    <2>3. PICK m \in Nat : DOMAIN pool.entries = 1 .. m /\ m = Len(pool.entries)
      BY DEF Follows
    <2>4. /\ DOMAIN next.entries = 1 .. (m + 1)
          /\ \A i \in 1 .. m : next.entries[i].transaction = pool.entries[i].transaction
          /\ next.entries[m + 1].transaction = tx
      BY <2>2, <2>3, AppendFacts DEF Follows
    <2>5. /\ m + 1 \in 1 .. (m + 1)
          /\ \A i \in 1 .. m : i \in 1 .. (m + 1) /\ i < m + 1 /\ ~(m + 1 < i)
          /\ \A i \in 1 .. (m + 1) : i \in 1 .. m \/ i = m + 1
          /\ ~(m + 1 < m + 1)
      OBVIOUS
    <2>6. \A i \in 1 .. (m + 1) :
             \E x \in 1 .. (k + 1) : /\ next.entries[i].transaction = old[x]
                                     /\ old[x].txid \notin dropped
      <3>1. \A i \in 1 .. m :
               \E x \in 1 .. k : /\ pool.entries[i].transaction = old[x]
                                 /\ old[x].txid \notin dropped
        BY <2>3 DEF Survives
      <3>2. \A i \in 1 .. m :
               \E x \in 1 .. (k + 1) : /\ next.entries[i].transaction = old[x]
                                       /\ old[x].txid \notin dropped
        BY <1>2, <2>4, <3>1
      <3>3. next.entries[m + 1].transaction = old[k + 1] /\ old[k + 1].txid \notin dropped
        BY <1>1, <1>6, <2>4
      <3> QED BY <1>2, <2>5, <3>2, <3>3
    <2>7. \A x \in 1 .. (k + 1) :
             old[x].txid \notin dropped =>
                 \E i \in 1 .. (m + 1) : next.entries[i].transaction = old[x]
      BY <1>1, <1>2, <2>3, <2>4, <2>5 DEF Survives
    <2>8. ASSUME NEW i \in 1 .. (m + 1), NEW j \in 1 .. (m + 1),
                 NEW x \in 1 .. (k + 1), NEW y \in 1 .. (k + 1),
                 next.entries[i].transaction = old[x],
                 next.entries[j].transaction = old[y]
          PROVE  i < j <=> x < y
      <3>1. \A a \in 1 .. (m + 1), b \in 1 .. (k + 1) :
               next.entries[a].transaction = old[b] => (a = m + 1 <=> b = k + 1)
        BY <1>1, <1>2, <1>3, <1>4, <2>3, <2>4, <2>5
      <3>2. /\ i = m + 1 <=> x = k + 1
            /\ j = m + 1 <=> y = k + 1
        BY <2>8, <3>1
      <3>3. CASE i = m + 1
        BY <1>2, <2>5, <3>2, <3>3
      <3>4. CASE j = m + 1 /\ i \in 1 .. m
        BY <1>2, <2>5, <3>2, <3>4
      <3>5. CASE i \in 1 .. m /\ j \in 1 .. m
        <4>1. x \in 1 .. k /\ y \in 1 .. k
          BY <1>2, <2>5, <3>2, <3>5
        <4>2. pool.entries[i].transaction = old[x] /\ pool.entries[j].transaction = old[y]
          BY <2>4, <2>8, <3>5
        <4> QED BY <2>3, <3>5, <4>1, <4>2 DEF Survives
      <3> QED BY <2>5, <3>3, <3>4, <3>5
    <2> QED BY <2>4, <2>6, <2>7, <2>8 DEF Survives
  <1> QED BY <1>1, <1>5, <1>6

\* A pool that is rebuilt keeps, in order, all that is not dropped: less is in
\* the way than at the first admission, the limits included.
LEMMA RebuildKeeps ==
    ASSUME NEW pool, NEW utxos, NEW seen, NEW all, NEW st, NEW passed_over, NEW dropped,
           NEW n \in Nat, DOMAIN pool.entries = 1 .. n,
           Follows(pool, utxos, seen), Payable(pool, all), Rooted(st.utxos, st.seen),
           Separates(GetTransactions(pool), n, st, all, passed_over, dropped)
    PROVE  KeptInOrder(GetTransactions(Rebuild(GetTransactions(pool), passed_over, st)),
                       GetTransactions(pool), dropped)
  <1>1. PICK old, f : old = GetTransactions(pool) /\ f = Sizes(pool.entries)
    OBVIOUS
  <1>2. /\ DOMAIN old = 1 .. n
        /\ \A x \in 1 .. n : old[x] = pool.entries[x].transaction
        /\ \A x \in 1 .. n : old[x] \in Transactions
    <2>1. /\ DOMAIN old = 1 .. n
          /\ \A x \in 1 .. n : old[x] = pool.entries[x].transaction
      BY <1>1 DEF GetTransactions
    <2>2. PICK l \in Nat : /\ DOMAIN GetTransactions(pool) = 1 .. l
                           /\ \A x \in 1 .. l : GetTransactions(pool)[x] \in Transactions
      BY PoolTransactions DEF Follows
    <2> QED BY <1>1, <2>1, <2>2
  <1>3. Listed(old, n, all)
    <2>1. \A x \in 1 .. n : Outpoints(old[x]) \subseteq DOMAIN all
      BY <1>2 DEF Payable, Made, ToSet
    <2>2. \A x \in 1 .. n :
             /\ ValidatedFee(old[x], all) # NoFee
             /\ \A o \in Outpoints(old[x]) : all[o] = old[x].outputs[o[2] + 1]
      BY <1>2 DEF Payable
    <2>3. \A x, y \in 1 .. n : x # y => /\ old[x].txid # old[y].txid
                                        /\ Spent(old[x]) \cap Spent(old[y]) = {}
      <3>1. Exclusive(pool.entries, seen)
        BY DEF Follows
      <3>2. \A x, y \in 1 .. n :
               x # y => /\ pool.entries[x].transaction.txid # pool.entries[y].transaction.txid
                        /\ Spent(pool.entries[x].transaction)
                              \cap Spent(pool.entries[y].transaction) = {}
        BY <3>1, Zenon DEF Exclusive
      <3> QED
        <4> SUFFICES ASSUME NEW x \in 1 .. n, NEW y \in 1 .. n, x # y
                     PROVE  /\ old[x].txid # old[y].txid
                            /\ Spent(old[x]) \cap Spent(old[y]) = {}
          OBVIOUS
        <4>1. /\ old[x] = pool.entries[x].transaction
              /\ old[y] = pool.entries[y].transaction
          BY <1>2
        <4> QED BY <3>2, <4>1
    <2> QED BY <1>2, <2>1, <2>2, <2>3 DEF Listed
  <1>4. Separates(old, n, st, all, passed_over, dropped)
    BY <1>1
  <1>5. /\ n <= MempoolMaxTransactions
        /\ pool.total_bytes = SumFunction(f) /\ pool.total_bytes \in Int
        /\ pool.total_bytes <= MempoolMaxBytes
    <2>1. Len(pool.entries) = n
      BY DEF Follows
    <2> QED BY <1>1, <2>1 DEF Follows, Bounded
  <1>6. /\ f = [i \in 1 .. n |-> f[i]]
        /\ \A i \in 1 .. n : f[i] = old[i].size /\ f[i] \in Nat
    <2>1. f = [i \in 1 .. n |-> pool.entries[i].transaction.size]
      BY <1>1 DEF Sizes
    <2>2. \A i \in 1 .. n : f[i] = old[i].size /\ old[i].size \in Nat
      BY <1>2, <2>1, TransactionsShaped
    <2> QED BY <2>1, <2>2
  <1>7. /\ SumTo(f, 0) = 0
        /\ \A k \in Nat : k + 1 <= n => SumTo(f, k + 1) = SumTo(f, k) + f[k + 1]
        /\ \A k \in Nat : k <= n => SumTo(f, k) \in Nat /\ SumTo(f, k) <= SumFunction(f)
    BY <1>6, PrefixSums
  <1>8. PICK h : RebuildRounds(h, old, passed_over, st, n)
    BY <1>2, RebuildSteps, Zenon
  <1>9. /\ h[0] = NewMempool(st)
        /\ \A k \in 1 .. n : h[k] = ReadmitNext(passed_over, h[k - 1], old[k])
        /\ Rebuild(old, passed_over, st) = h[n]
    BY <1>8, Zenon DEF RebuildRounds
  <1> DEFINE Good(p, k) == /\ Follows(p, st.utxos, st.seen)
                           /\ \E more : Payable(p, more)
                           /\ Survives(old, k, p, dropped)
                           /\ Len(p.entries) <= k
                           /\ p.total_bytes <= SumTo(f, k)
             K == {k \in Nat : k <= n => Good(h[k], k)}
  <1>10. 0 \in K
    <2>1. Follows(h[0], st.utxos, st.seen) /\ Payable(h[0], st.utxos)
      BY <1>9, NewFollows, NewPayable
    <2>2. PICK none : none = <<>>
      OBVIOUS
    <2>3. h[0].entries = none /\ h[0].total_bytes = 0
      BY <1>9, <2>2 DEF NewMempool
    <2>4. DOMAIN none = {} /\ Len(none) = 0 /\ 1 .. 0 = {}
      BY <2>2
    <2>5. Survives(old, 0, h[0], dropped)
      BY <2>3, <2>4 DEF Survives
    <2> QED BY <1>7, <2>1, <2>3, <2>4, <2>5
  <1>11. ASSUME NEW k \in Nat, k \in K PROVE k + 1 \in K
    <2> SUFFICES ASSUME k + 1 <= n PROVE Good(h[k + 1], k + 1)
      OBVIOUS
    <2>1. PICK p, next, tx : p = h[k] /\ next = h[k + 1] /\ tx = old[k + 1]
      OBVIOUS
    <2>2. Good(p, k)
      BY <1>11, <2>1
    <2>3. PICK more : Payable(p, more)
      BY <2>2
    <2>4. k + 1 \in 1 .. n /\ (k + 1) - 1 = k
      OBVIOUS
    <2>5. next = ReadmitNext(passed_over, p, tx) /\ tx \in Transactions
      BY <1>2, <1>9, <2>1, <2>4
    <2>6. /\ Len(p.entries) \in Nat /\ p.total_bytes \in Int
          /\ SumTo(f, k) \in Nat /\ SumTo(f, k + 1) \in Nat
          /\ SumTo(f, k + 1) = SumTo(f, k) + tx.size /\ tx.size \in Nat
          /\ SumTo(f, k + 1) <= MempoolMaxBytes
      <3>1. p.entries \in Seq(Entries) /\ p.total_bytes \in Int
        BY <2>2 DEF Follows, Bounded
      <3>2. f[k + 1] = tx.size /\ tx.size \in Nat
        BY <1>6, <2>1, <2>4
      <3>3. /\ SumTo(f, k + 1) = SumTo(f, k) + f[k + 1]
            /\ SumTo(f, k) \in Nat /\ SumTo(f, k + 1) \in Nat
            /\ SumTo(f, k + 1) <= SumFunction(f)
        BY <1>7, <2>4
      <3>4. MempoolMaxBytes \in Nat
        BY MempoolLimits
      <3> QED BY <1>5, <3>1, <3>2, <3>3, <3>4
    <2>7. CASE tx.txid \in dropped
      <3>1. next = p
        <4>1. CASE tx.txid \in passed_over
          BY <2>5, <4>1 DEF ReadmitNext
        <4>2. CASE tx.txid \notin passed_over
          <5>1. ~Admits(p, tx)
            BY <1>4, <2>1, <2>2, <2>7, <4>2, DroppedRefused
          <5> QED BY <2>5, <4>2, <5>1 DEF ReadmitNext, AddTransaction
        <4> QED BY <4>1, <4>2
      <3>2. Survives(old, k + 1, next, dropped)
        BY <1>3, <2>1, <2>2, <2>7, <3>1, SurvivesNext
      <3>3. Len(next.entries) <= k + 1 /\ next.total_bytes <= SumTo(f, k + 1)
        BY <2>2, <2>6, <3>1
      <3> QED BY <2>1, <2>2, <3>1, <3>2, <3>3
    <2>8. CASE tx.txid \notin dropped
      <3>1. tx.txid \notin passed_over
        BY <1>4, <2>1, <2>4, <2>8 DEF Separates
      <3>2. Len(p.entries) < MempoolMaxTransactions
        <4>1. MempoolMaxTransactions \in Nat
          BY MempoolLimits
        <4> QED BY <1>5, <2>2, <2>6, <4>1
      <3>3. p.total_bytes + tx.size <= MempoolMaxBytes
        <4>1. MempoolMaxBytes \in Nat
          BY MempoolLimits
        <4> QED BY <2>2, <2>6, <4>1
      <3>4. Admits(p, tx)
        BY <1>3, <1>4, <2>1, <2>2, <2>3, <2>8, <3>2, <3>3, KeptAdmitted
      <3>5. next = AddTransaction(p, tx)
        BY <2>5, <3>1 DEF ReadmitNext
      <3>6. Survives(old, k + 1, next, dropped)
        BY <1>3, <2>1, <2>2, <2>8, <3>4, <3>5, SurvivesNext
      <3>7. Follows(next, st.utxos, st.seen) /\ \E m : Payable(next, m)
        BY <2>2, <2>3, <2>5, <3>5, AddFollows, AddPayable
      <3>8. Len(next.entries) = Len(p.entries) + 1 /\ next.total_bytes = p.total_bytes + tx.size
        <4>1. PICK e : /\ next.entries = Append(p.entries, e)
                       /\ next.total_bytes = p.total_bytes + tx.size
          BY <2>2, <3>4, <3>5 DEF AddTransaction, Follows, Fields
        <4>2. p.entries \in Seq(Entries)
          BY <2>2 DEF Follows
        <4> QED BY <4>1, <4>2, AppendFacts
      <3>9. Len(next.entries) <= k + 1 /\ next.total_bytes <= SumTo(f, k + 1)
        BY <2>2, <2>6, <3>8
      <3> QED BY <2>1, <3>6, <3>7, <3>9
    <2> QED BY <2>7, <2>8
  <1>12. n \in K
    <2> HIDE DEF K
    <2> QED BY <1>10, <1>11, NatInductive
  <1>13. PICK new, txs : /\ new = h[n] /\ Survives(old, n, new, dropped)
                         /\ txs = GetTransactions(new)
    BY <1>12
  <1>14. /\ DOMAIN txs = DOMAIN new.entries
         /\ \A i \in DOMAIN txs : txs[i] = new.entries[i].transaction
    BY <1>13 DEF GetTransactions
  <1>15. /\ \A i \in DOMAIN txs : \E x \in 1 .. n : txs[i] = old[x] /\ old[x].txid \notin dropped
         /\ \A x \in 1 .. n : old[x].txid \notin dropped => \E i \in DOMAIN txs : txs[i] = old[x]
         /\ \A i, j \in DOMAIN txs, x, y \in 1 .. n :
               txs[i] = old[x] /\ txs[j] = old[y] => (i < j <=> x < y)
    BY <1>13, <1>14 DEF Survives
  <1>16. KeptInOrder(txs, old, dropped)
    <2>1. ToSet(txs) = {tx \in ToSet(old) : tx.txid \notin dropped}
      <3>1. ToSet(txs) = {txs[i] : i \in DOMAIN txs} /\ ToSet(old) = {old[x] : x \in 1 .. n}
        BY <1>2 DEF ToSet
      <3> QED BY <1>15, <3>1
    <2> QED BY <1>2, <1>15, <2>1 DEF KeptInOrder
  <1> QED BY <1>1, <1>9, <1>13, <1>16

-----------------------------------------------------------------------------
(* What is orphaned.                                                         *)

\* Orphaned is the least closed set, so that a member is a root or has a parent
\* in it.
LEMMA OrphanFacts ==
    ASSUME NEW pool, NEW utxos, NEW seen, Follows(pool, utxos, seen),
           NEW roots \in SUBSET PendingTxids(pool), NEW gone, gone = Orphaned(roots, pool)
    PROVE  /\ gone \subseteq PendingTxids(pool)
           /\ Closed(gone, roots, pool)
           /\ \A g \in SUBSET PendingTxids(pool) : Closed(g, roots, pool) => gone \subseteq g
           /\ \A tx \in ToSet(GetTransactions(pool)) :
                 tx.txid \in gone \ roots => Parents(pool, tx) \cap gone # {}
  <1>1. gone \subseteq PendingTxids(pool)
    BY DEF Orphaned
  <1>2. \A g \in SUBSET PendingTxids(pool) : Closed(g, roots, pool) => gone \subseteq g
    BY DEF Orphaned
  <1>3. \A tx \in ToSet(GetTransactions(pool)) : tx.txid \in PendingTxids(pool)
    BY DEF PendingTxids, TxidOf, ToSet
  <1>4. Closed(gone, roots, pool)
    <2>1. roots \subseteq gone
      BY DEF Orphaned, Closed
    <2>2. ASSUME NEW tx \in ToSet(GetTransactions(pool)), Parents(pool, tx) \cap gone # {}
          PROVE  tx.txid \in gone
      <3>1. ASSUME NEW g \in SUBSET PendingTxids(pool), Closed(g, roots, pool)
            PROVE  tx.txid \in g
        <4>1. Parents(pool, tx) \cap g # {}
          BY <1>2, <2>2, <3>1
        <4> QED BY <3>1, <4>1 DEF Closed
      <3> QED BY <1>3, <3>1 DEF Orphaned
    <2> QED BY <2>1, <2>2 DEF Closed
  <1>5. ASSUME NEW tx \in ToSet(GetTransactions(pool)), tx.txid \in gone \ roots,
               Parents(pool, tx) \cap gone = {}
        PROVE  FALSE
    <2>1. PICK g : g = gone \ {tx.txid}
      OBVIOUS
    <2>2. \A t \in ToSet(GetTransactions(pool)) : t.txid = tx.txid => t = tx
      <3>1. Exclusive(pool.entries, seen)
        BY DEF Follows
      <3> QED BY <3>1 DEF Exclusive, GetTransactions, ToSet
    <2>3. Closed(g, roots, pool)
      <3>1. roots \subseteq g
        BY <1>4, <1>5, <2>1 DEF Closed
      <3>2. ASSUME NEW t \in ToSet(GetTransactions(pool)), Parents(pool, t) \cap g # {}
            PROVE  t.txid \in g
        <4>1. Parents(pool, t) \cap gone # {}
          BY <2>1, <3>2
        <4>2. t.txid \in gone /\ t # tx
          BY <1>4, <1>5, <4>1 DEF Closed
        <4> QED BY <2>1, <2>2, <4>2
      <3> QED BY <3>1, <3>2 DEF Closed
    <2>4. g \in SUBSET PendingTxids(pool)
      BY <1>1, <2>1
    <2> QED BY <1>2, <1>5, <2>1, <2>3, <2>4
  <1> QED BY <1>1, <1>2, <1>4, <1>5

\* The transactions of a pool by position, and their parents.
Known(pool, old, n, utxos, seen) ==
    /\ ToSet(old) = {old[x] : x \in 1 .. n}
    /\ PendingTxids(pool) = {old[x].txid : x \in 1 .. n}
    /\ \A x \in 1 .. n : /\ old[x] = pool.entries[x].transaction
                         /\ old[x] \in Transactions
                         /\ old[x].txid \notin seen
    /\ \A x, y \in 1 .. n : old[x].txid = old[y].txid => x = y
    /\ \A x \in 1 .. n : \A o \in Spent(old[x]) :
          \/ o \in DOMAIN utxos
          \/ \E y \in 1 .. (x - 1) : o \in Outpoints(old[y])
    /\ \A x, y \in 1 .. n : \A o \in Spent(old[x]) :
          o[1] = old[y].txid => old[y].txid \in Parents(pool, old[x])
    /\ \A x \in 1 .. n : \A t \in Parents(pool, old[x]) :
          \E o \in Spent(old[x]) : o[1] = t

\* A pool that follows the ledger is known that way.
LEMMA PoolFacts ==
    ASSUME NEW pool, NEW utxos, NEW seen, Follows(pool, utxos, seen),
           NEW n \in Nat, DOMAIN pool.entries = 1 .. n, NEW old, old = GetTransactions(pool)
    PROVE  Known(pool, old, n, utxos, seen)
  <1>1. DOMAIN old = 1 .. n /\ \A x \in 1 .. n : old[x] = pool.entries[x].transaction
    BY DEF GetTransactions
  <1>2. ToSet(old) = {old[x] : x \in 1 .. n}
    BY <1>1 DEF ToSet
  <1>3. PendingTxids(pool) = {old[x].txid : x \in 1 .. n}
    BY <1>1 DEF PendingTxids, TxidOf, ToSet
  <1>4. \A x \in 1 .. n : old[x] \in Transactions
    <2>1. PICK l \in Nat : /\ DOMAIN GetTransactions(pool) = 1 .. l
                           /\ \A x \in 1 .. l : GetTransactions(pool)[x] \in Transactions
      BY PoolTransactions DEF Follows
    <2> QED BY <1>1, <2>1
  <1>5. /\ \A x \in 1 .. n : old[x].txid \notin seen
        /\ \A x, y \in 1 .. n : old[x].txid = old[y].txid => x = y
    <2>1. Exclusive(pool.entries, seen)
      BY DEF Follows
    <2> QED BY <1>1, <2>1 DEF Exclusive
  <1>6. ASSUME NEW x \in 1 .. n, NEW o \in Spent(old[x])
        PROVE  o \in DOMAIN utxos \/ \E y \in 1 .. (x - 1) : o \in Outpoints(old[y])
    <2>1. Backed(pool.entries, utxos)
      BY DEF Follows
    <2>2. \A y \in 1 .. (x - 1) : y \in 1 .. n
      OBVIOUS
    <2> QED BY <1>1, <2>1, <2>2 DEF Backed
  <1>7. /\ \A x, y \in 1 .. n : \A o \in Spent(old[x]) :
              o[1] = old[y].txid => old[y].txid \in Parents(pool, old[x])
        /\ \A x \in 1 .. n : \A t \in Parents(pool, old[x]) :
              \E o \in Spent(old[x]) : o[1] = t
    BY <1>3 DEF Parents
  <1> QED BY <1>1, <1>2, <1>3, <1>4, <1>5, <1>6, <1>7 DEF Known

\* A removal drops the transaction and its descendants.
LEMMA RemovalSeparates ==
    ASSUME NEW pool, NEW st, NEW all, NEW n \in Nat, DOMAIN pool.entries = 1 .. n,
           Follows(pool, st.utxos, st.seen), Payable(pool, all),
           Rooted(st.utxos, st.seen), NEW txid \in PendingTxids(pool)
    PROVE  Separates(GetTransactions(pool), n, st, all, {txid}, Orphaned({txid}, pool))
  <1>1. PICK old, gone : old = GetTransactions(pool) /\ gone = Orphaned({txid}, pool)
    OBVIOUS
  <1>2. /\ ToSet(old) = {old[x] : x \in 1 .. n}
        /\ PendingTxids(pool) = {old[x].txid : x \in 1 .. n}
        /\ \A x \in 1 .. n : old[x].txid \notin st.seen
        /\ \A x \in 1 .. n : \A o \in Spent(old[x]) :
              \/ o \in DOMAIN st.utxos
              \/ \E y \in 1 .. (x - 1) : o \in Outpoints(old[y])
        /\ \A x, y \in 1 .. n : \A o \in Spent(old[x]) :
              o[1] = old[y].txid => old[y].txid \in Parents(pool, old[x])
        /\ \A x \in 1 .. n : \A t \in Parents(pool, old[x]) :
              \E o \in Spent(old[x]) : o[1] = t
    <2>1. Known(pool, old, n, st.utxos, st.seen)
      BY <1>1, PoolFacts
    <2> QED BY <2>1 DEF Known
  <1>3. /\ gone \subseteq PendingTxids(pool)
        /\ Closed(gone, {txid}, pool)
        /\ \A tx \in ToSet(GetTransactions(pool)) :
              tx.txid \in gone \ {txid} => Parents(pool, tx) \cap gone # {}
    <2>1. {txid} \in SUBSET PendingTxids(pool)
      OBVIOUS
    <2> QED BY <1>1, <2>1, OrphanFacts
  <1>4. \A y \in 1 .. n : \A o \in Outpoints(old[y]) : o[1] = old[y].txid
    BY DEF Outpoints
  <1>5. \A x \in 1 .. n : old[x].txid \in {txid} => old[x].txid \in gone
    BY <1>3 DEF Closed
  <1>6. ASSUME NEW x \in 1 .. n, old[x].txid \in gone, old[x].txid \notin {txid}
        PROVE  \E o \in Spent(old[x]) :
                  /\ o \notin DOMAIN st.utxos
                  /\ \A y \in 1 .. n : o \in Outpoints(old[y]) => old[y].txid \in gone
    <2>1. PICK t \in gone : t \in Parents(pool, old[x])
      <3>1. old[x] \in ToSet(GetTransactions(pool))
        BY <1>1, <1>2
      <3>2. Parents(pool, old[x]) \cap gone # {}
        BY <1>3, <1>6, <3>1
      <3> QED BY <3>2
    <2>2. PICK o \in Spent(old[x]) : o[1] = t
      BY <1>2, <2>1
    <2>3. t \notin st.seen
      BY <1>2, <1>3
    <2>4. o \notin DOMAIN st.utxos
      BY <2>2, <2>3 DEF Rooted
    <2> QED BY <1>4, <2>1, <2>2, <2>4
  <1>7. ASSUME NEW x \in 1 .. n, old[x].txid \notin gone, NEW o \in Spent(old[x])
        PROVE  \/ o \in DOMAIN st.utxos /\ st.utxos[o] = all[o]
               \/ \E y \in 1 .. (x - 1) : old[y].txid \notin gone /\ o \in Outpoints(old[y])
    <2>1. CASE o \in DOMAIN st.utxos
      BY <2>1 DEF Payable, Follows
    <2>2. ASSUME NEW y \in 1 .. (x - 1), o \in Outpoints(old[y])
          PROVE  old[y].txid \notin gone
      <3>1. y \in 1 .. n
        OBVIOUS
      <3>2. old[y].txid \in Parents(pool, old[x])
        BY <1>2, <1>4, <1>7, <2>2, <3>1
      <3>3. old[x] \in ToSet(GetTransactions(pool))
        BY <1>1, <1>2
      <3> QED BY <1>3, <1>7, <3>2, <3>3 DEF Closed
    <2> QED BY <1>2, <1>7, <2>1, <2>2
  <1> QED BY <1>1, <1>2, <1>5, <1>6, <1>7 DEF Separates

\* The positions R of a block, with the transactions mined in it, take the
\* history from one state to the next.
Extended(T, Ps, st, T2, R, st2, mined) ==
    /\ History(T, Ps, st.utxos, st.seen)
    /\ History(T2, Ps \cup R, st2.utxos, st2.seen)
    /\ \A p \in Ps : T2[p] = T[p]
    /\ mined = {T2[p] : p \in R}
    /\ mined \subseteq Transactions \cup Coinbases

\* What a block does to the outputs.
LEMMA ExtendedFacts ==
    ASSUME NEW T, NEW Ps, NEW st, NEW T2, NEW R, NEW st2, NEW mined,
           Extended(T, Ps, st, T2, R, st2, mined)
    PROVE  /\ st2.seen = st.seen \cup Txids(mined)
           /\ \A o \in Consumed(mined) : o[1] \in st2.seen /\ o \notin DOMAIN st2.utxos
           /\ \A o \in DOMAIN st.utxos \ Consumed(mined) :
                 o \in DOMAIN st2.utxos /\ st2.utxos[o] = st.utxos[o]
           /\ \A tx \in mined : \A o \in Outpoints(tx) \ Consumed(mined) :
                 tx.txid \notin st.seen =>
                     o \in DOMAIN st2.utxos /\ st2.utxos[o] = tx.outputs[o[2] + 1]
  <1>1. PICK Qs : Qs = Ps \cup R
    OBVIOUS
  <1>2. /\ DOMAIN st.utxos = Created(T, Ps) \ SpentBy(T, Ps)
        /\ st.seen = {T[p].txid : p \in Ps}
        /\ \A p \in Ps : \A o \in Outpoints(T[p]) \ SpentBy(T, Ps) :
              st.utxos[o] = T[p].outputs[o[2] + 1]
        /\ Funded(T, Ps)
    BY DEF Extended, History
  <1>3. /\ DOMAIN st2.utxos = Created(T2, Qs) \ SpentBy(T2, Qs)
        /\ st2.seen = {T2[p].txid : p \in Qs}
        /\ \A p \in Qs : \A o \in Outpoints(T2[p]) \ SpentBy(T2, Qs) :
              st2.utxos[o] = T2[p].outputs[o[2] + 1]
        /\ Funded(T2, Qs)
    BY <1>1 DEF Extended, History
  <1>4. (\A p \in Ps : T2[p] = T[p]) /\ mined = {T2[p] : p \in R}
    BY DEF Extended
  <1>5. SpentBy(T2, Qs) = SpentBy(T, Ps) \cup Consumed(mined)
    BY <1>1, <1>4 DEF SpentBy, Consumed
  <1>6. st2.seen = st.seen \cup Txids(mined)
    BY <1>1, <1>2, <1>3, <1>4 DEF Txids
  <1>7. \A p \in Qs : \A o \in Outpoints(T2[p]) : o[1] = T2[p].txid
    BY DEF Outpoints
  <1>8. \A p \in Ps : \A o \in Outpoints(T[p]) : o[1] = T[p].txid
    BY DEF Outpoints
  <1>9. ASSUME NEW o \in Consumed(mined)
        PROVE  o[1] \in st2.seen /\ o \notin DOMAIN st2.utxos
    <2>1. PICK q \in R : o \in Spent(T2[q])
      BY <1>4, <1>9 DEF Consumed
    <2>2. PICK p \in Qs : o \in Outpoints(T2[p])
      BY <1>1, <1>3, <2>1 DEF Funded
    <2> QED BY <1>3, <1>5, <1>7, <1>9, <2>2
  <1>10. ASSUME NEW o \in DOMAIN st.utxos \ Consumed(mined)
         PROVE  o \in DOMAIN st2.utxos /\ st2.utxos[o] = st.utxos[o]
    <2>1. PICK p \in Ps : o \in Outpoints(T[p])
      BY <1>2, <1>10 DEF Created
    <2>2. p \in Qs /\ o \in Outpoints(T2[p]) /\ T2[p] = T[p]
      BY <1>1, <1>4, <2>1
    <2>3. o \notin SpentBy(T, Ps) /\ o \notin SpentBy(T2, Qs)
      BY <1>2, <1>5, <1>10
    <2>4. o \in Created(T2, Qs)
      BY <2>2 DEF Created
    <2> QED BY <1>2, <1>3, <2>1, <2>2, <2>3, <2>4
  <1>11. ASSUME NEW tx \in mined, NEW o \in Outpoints(tx) \ Consumed(mined),
                tx.txid \notin st.seen
         PROVE  o \in DOMAIN st2.utxos /\ st2.utxos[o] = tx.outputs[o[2] + 1]
    <2>1. PICK p \in R : tx = T2[p]
      BY <1>4
    <2>2. p \in Qs /\ o[1] = tx.txid
      BY <1>1, <1>7, <1>11, <2>1
    <2>3. o \notin SpentBy(T, Ps)
      <3> SUFFICES ASSUME NEW q \in Ps, o \in Spent(T[q]) PROVE FALSE
        BY DEF SpentBy
      <3>1. PICK r \in Ps : o \in Outpoints(T[r])
        BY <1>2 DEF Funded
      <3> QED BY <1>2, <1>8, <1>11, <2>2, <3>1
    <2>4. o \in Created(T2, Qs)
      BY <1>11, <2>1, <2>2 DEF Created
    <2> QED BY <1>3, <1>5, <1>11, <2>1, <2>2, <2>3, <2>4
  <1> QED BY <1>6, <1>9, <1>10, <1>11

\* A block drops what it confirms, and what it conflicts with, with the
\* descendants of the latter; none of those is confirmed.
LEMMA BlockSeparates ==
    ASSUME NEW pool, NEW st, NEW all, NEW n \in Nat, DOMAIN pool.entries = 1 .. n,
           Follows(pool, st.utxos, st.seen), Payable(pool, all),
           NEW T, NEW Ps, NEW T2, NEW R, NEW st2, NEW mined,
           Rooted(st2.utxos, st2.seen), Extended(T, Ps, st, T2, R, st2, mined)
    PROVE  Separates(GetTransactions(pool), n, st2, all, st2.seen,
                     Txids(mined) \cup Orphaned(Conflicting(mined, pool), pool))
  <1>1. PICK old, roots, gone : /\ old = GetTransactions(pool)
                                /\ roots = Conflicting(mined, pool)
                                /\ gone = Orphaned(roots, pool)
    OBVIOUS
  <1>2. Known(pool, old, n, st.utxos, st.seen)
    BY <1>1, PoolFacts
  <1>3. /\ \A x \in 1 .. n : /\ old[x] \in ToSet(GetTransactions(pool))
                             /\ old[x].txid \in PendingTxids(pool)
                             /\ old[x] \in Transactions
                             /\ old[x].txid \notin st.seen
        /\ \A t \in PendingTxids(pool) : \E x \in 1 .. n : t = old[x].txid
        /\ \A t \in ToSet(GetTransactions(pool)) : \E x \in 1 .. n : t = old[x]
    BY <1>1, <1>2 DEF Known
  <1>4. /\ \A x \in 1 .. n : \A o \in Spent(old[x]) :
              \/ o \in DOMAIN st.utxos
              \/ \E y \in 1 .. (x - 1) : o \in Outpoints(old[y])
        /\ \A x, y \in 1 .. n : \A o \in Spent(old[x]) :
              o[1] = old[y].txid => old[y].txid \in Parents(pool, old[x])
        /\ \A x \in 1 .. n : \A t \in Parents(pool, old[x]) :
              t \in PendingTxids(pool) /\ \E o \in Spent(old[x]) : o[1] = t
    BY <1>2 DEF Known, Parents
  <1>5. /\ st2.seen = st.seen \cup Txids(mined)
        /\ \A o \in Consumed(mined) : o[1] \in st2.seen /\ o \notin DOMAIN st2.utxos
        /\ \A o \in DOMAIN st.utxos \ Consumed(mined) :
              o \in DOMAIN st2.utxos /\ st2.utxos[o] = st.utxos[o]
        /\ \A tx \in mined : \A o \in Outpoints(tx) \ Consumed(mined) :
              tx.txid \notin st.seen =>
                  o \in DOMAIN st2.utxos /\ st2.utxos[o] = tx.outputs[o[2] + 1]
    BY ExtendedFacts
  <1>6. ASSUME NEW x \in 1 .. n, old[x].txid \in Txids(mined) PROVE old[x] \in mined
    <2>1. PICK tx \in mined : tx.txid = old[x].txid
      BY <1>6 DEF Txids
    <2>2. tx \notin Coinbases
      <3>1. old[x].txid[1] # "coinbase"
        BY <1>3, TxidNotCoinbase
      <3>2. \A c \in Coinbases : c.txid[1] = "coinbase"
        <4> SUFFICES ASSUME NEW c \in Coinbases PROVE c.txid[1] = "coinbase"
          OBVIOUS
        <4>1. PICK a, r : c.txid = <<"coinbase", c.timestamp, a, r>>
          BY CoinbaseNames
        <4> QED BY <4>1
      <3> QED BY <2>1, <3>1, <3>2
    <2>3. tx \in Transactions
      BY <2>2 DEF Extended
    <2> QED BY <1>3, <2>1, <2>3, TxidNamesContent
  <1>7. /\ \A y \in 1 .. n : \A o \in Outpoints(old[y]) : o[1] = old[y].txid
        /\ \A x \in 1 .. n : old[x].txid \in st2.seen <=> old[x].txid \in Txids(mined)
    BY <1>3, <1>5 DEF Outpoints
  <1>8. roots \in SUBSET PendingTxids(pool)
    BY <1>1, <1>3 DEF Conflicting
  <1>9. /\ gone \subseteq PendingTxids(pool)
        /\ Closed(gone, roots, pool)
        /\ \A g \in SUBSET PendingTxids(pool) : Closed(g, roots, pool) => gone \subseteq g
        /\ \A tx \in ToSet(GetTransactions(pool)) :
              tx.txid \in gone \ roots => Parents(pool, tx) \cap gone # {}
    BY <1>1, <1>8, OrphanFacts
  <1>10. gone \cap Txids(mined) = {}
    <2>1. PICK g : g = gone \ Txids(mined)
      OBVIOUS
    <2>2. roots \subseteq g
      <3>1. roots \cap Txids(mined) = {}
        BY <1>1 DEF Conflicting
      <3>2. roots \subseteq gone
        BY <1>9 DEF Closed
      <3> QED BY <2>1, <3>1, <3>2
    <2>3. ASSUME NEW tx \in ToSet(GetTransactions(pool)), Parents(pool, tx) \cap g # {}
          PROVE  tx.txid \in g
      <3>1. PICK x \in 1 .. n : tx = old[x]
        BY <1>3
      <3>2. PICK t \in g : t \in Parents(pool, tx)
        BY <2>3
      <3>3. tx.txid \in gone
        BY <1>9, <2>1, <3>2 DEF Closed
      <3>4. ASSUME tx.txid \in Txids(mined) PROVE FALSE
        <4>1. PICK o \in Spent(tx) : o[1] = t
          BY <1>4, <3>1, <3>2
        <4>2. tx \in mined
          BY <1>6, <3>1, <3>4
        <4>3. o \in Consumed(mined)
          BY <4>1, <4>2 DEF Consumed
        <4>4. t \in st2.seen
          BY <1>5, <4>1, <4>3
        <4>5. PICK y \in 1 .. n : t = old[y].txid
          BY <1>3, <1>4, <3>1, <3>2
        <4> QED BY <1>7, <2>1, <3>2, <4>4, <4>5
      <3> QED BY <2>1, <3>3, <3>4
    <2>4. Closed(g, roots, pool) /\ g \in SUBSET PendingTxids(pool)
      BY <1>9, <2>1, <2>2, <2>3 DEF Closed
    <2>5. gone \subseteq g
      BY <1>9, <2>4
    <2> QED BY <2>1, <2>5
  <1>11. PICK dropped : dropped = Txids(mined) \cup gone
    OBVIOUS
  <1>12. \A x \in 1 .. n : old[x].txid \in st2.seen => old[x].txid \in dropped
    BY <1>7, <1>11
  <1>13. ASSUME NEW x \in 1 .. n, old[x].txid \in dropped, old[x].txid \notin st2.seen
         PROVE  \E o \in Spent(old[x]) :
                   /\ o \notin DOMAIN st2.utxos
                   /\ \A y \in 1 .. n : o \in Outpoints(old[y]) => old[y].txid \in dropped
    <2>1. old[x].txid \in gone
      BY <1>7, <1>11, <1>13
    <2>2. CASE old[x].txid \in roots
      <3>1. PICK z \in 1 .. n : /\ old[z].txid = old[x].txid
                                /\ Spent(old[z]) \cap Consumed(mined) # {}
        BY <1>1, <1>3, <2>2 DEF Conflicting
      <3>2. z = x
        BY <1>2, <3>1 DEF Known
      <3>3. PICK o \in Spent(old[x]) : o \in Consumed(mined)
        BY <3>1, <3>2
      <3>4. o[1] \in st2.seen /\ o \notin DOMAIN st2.utxos
        BY <1>5, <3>3
      <3> QED BY <1>7, <1>12, <3>3, <3>4
    <2>3. CASE old[x].txid \notin roots
      <3>1. Parents(pool, old[x]) \cap gone # {}
        BY <1>3, <1>9, <2>1, <2>3
      <3>2. PICK t \in gone : t \in Parents(pool, old[x])
        BY <3>1
      <3>3. PICK o \in Spent(old[x]) : o[1] = t
        BY <1>4, <3>2
      <3>4. PICK y \in 1 .. n : t = old[y].txid
        BY <1>3, <1>9, <3>2
      <3>5. t \notin st2.seen
        BY <1>7, <1>10, <3>2, <3>4
      <3>6. o \notin DOMAIN st2.utxos
        BY <3>3, <3>5 DEF Rooted
      <3> QED BY <1>7, <1>11, <3>2, <3>3, <3>6
    <2> QED BY <2>2, <2>3
  <1>14. ASSUME NEW x \in 1 .. n, old[x].txid \notin dropped, NEW o \in Spent(old[x])
         PROVE  \/ o \in DOMAIN st2.utxos /\ st2.utxos[o] = all[o]
                \/ \E y \in 1 .. (x - 1) : old[y].txid \notin dropped /\ o \in Outpoints(old[y])
    <2>1. o \notin Consumed(mined)
      <3> SUFFICES ASSUME o \in Consumed(mined) PROVE FALSE
        OBVIOUS
      <3>1. old[x].txid \in roots
        BY <1>1, <1>3, <1>11, <1>14 DEF Conflicting
      <3> QED BY <1>9, <1>11, <1>14, <3>1 DEF Closed
    <2>2. CASE o \in DOMAIN st.utxos
      <3>1. all[o] = st.utxos[o]
        BY <2>2 DEF Payable, Follows
      <3> QED BY <1>5, <2>1, <2>2, <3>1
    <2>3. ASSUME NEW y \in 1 .. (x - 1), o \in Outpoints(old[y])
          PROVE  \/ o \in DOMAIN st2.utxos /\ st2.utxos[o] = all[o]
                 \/ old[y].txid \notin dropped
      <3>1. y \in 1 .. n
        OBVIOUS
      <3>2. CASE old[y].txid \in Txids(mined)
        <4>1. old[y] \in mined /\ old[y].txid \notin st.seen
          BY <1>3, <1>6, <3>1, <3>2
        <4>2. o \in DOMAIN st2.utxos /\ st2.utxos[o] = old[y].outputs[o[2] + 1]
          BY <1>5, <2>1, <2>3, <4>1
        <4>3. all[o] = old[y].outputs[o[2] + 1]
          BY <1>2, <2>3, <3>1 DEF Known, Payable
        <4> QED BY <4>2, <4>3
      <3>3. CASE old[y].txid \notin Txids(mined)
        <4>1. old[y].txid \in Parents(pool, old[x])
          BY <1>4, <1>7, <1>14, <2>3, <3>1
        <4>2. old[y].txid \notin gone
          BY <1>3, <1>9, <1>11, <1>14, <4>1 DEF Closed
        <4> QED BY <1>11, <3>3, <4>2
      <3> QED BY <3>2, <3>3
    <2> QED BY <1>4, <1>14, <2>2, <2>3
  <1>15. \A x \in 1 .. n : old[x].txid \notin dropped => old[x].txid \notin st2.seen
    BY <1>12
  <1>16. Separates(old, n, st2, all, st2.seen, dropped)
    BY <1>12, <1>13, <1>14, <1>15 DEF Separates
  <1> QED BY <1>1, <1>11, <1>16

\* remove_pending_transaction.
LEMMA RemovalKeeps ==
    ASSUME TemplateIInv, NEW txid \in PendingTxids(mempool), RemovePendingTransaction(txid)
    PROVE  KeptInOrder(GetTransactions(mempool'), GetTransactions(mempool),
                       Orphaned({txid}, mempool))
  <1>1. PICK all : Payable(mempool, all)
    BY DEF TemplateIInv
  <1>2. /\ Rooted(state.utxos, state.seen)
        /\ Follows(mempool, state.utxos, state.seen)
    BY HistoryRooted DEF TemplateIInv, PoolIInv, IInv
  <1>3. PICK n \in Nat : DOMAIN mempool.entries = 1 .. n
    BY <1>2 DEF Follows
  <1>4. PICK st, new : /\ st = [utxos |-> mempool.confirmed, seen |-> mempool.seen]
                       /\ new = Rebuild(GetTransactions(mempool), {txid}, st)
    OBVIOUS
  <1>5. st.utxos = state.utxos /\ st.seen = state.seen
    BY <1>2, <1>4 DEF Follows
  <1>6. mempool'.entries = new.entries
    <2>1. DOMAIN mempool = Fields
      BY <1>2 DEF Follows
    <2>2. mempool' = [mempool EXCEPT !.entries = new.entries,
                                     !.working = new.working,
                                     !.total_bytes = new.total_bytes]
      BY <1>4 DEF RemovePendingTransaction, RemoveTransaction, HasTransaction
    <2> QED BY <2>1, <2>2 DEF Fields
  <1>7. GetTransactions(mempool') = GetTransactions(new)
    BY <1>6 DEF GetTransactions
  <1>8. Rooted(st.utxos, st.seen) /\ Follows(mempool, st.utxos, st.seen)
    BY <1>2, <1>5
  <1>9. Separates(GetTransactions(mempool), n, st, all, {txid}, Orphaned({txid}, mempool))
    BY <1>1, <1>3, <1>8, RemovalSeparates
  <1>10. KeptInOrder(GetTransactions(new), GetTransactions(mempool),
                     Orphaned({txid}, mempool))
    BY <1>1, <1>3, <1>4, <1>8, <1>9, RebuildKeeps
  <1> QED BY <1>7, <1>10

\* add_block, which revalidates the pool.
LEMMA BlockKeeps ==
    ASSUME TemplateIInv, NEW block \in Candidates(blocks), AddBlock(block),
           NEW mined, mined = ToSet(block.transactions)
    PROVE  KeptInOrder(GetTransactions(mempool'), GetTransactions(mempool),
                       Txids(mined) \cup Orphaned(Conflicting(mined, mempool), mempool))
  <1>1. PICK all : Payable(mempool, all)
    BY DEF TemplateIInv
  <1>2. IInv /\ Follows(mempool, state.utxos, state.seen) /\ PoolIInv
    BY DEF TemplateIInv, PoolIInv
  <1>3. PICK n \in Nat : DOMAIN mempool.entries = 1 .. n
    BY <1>2 DEF Follows
  <1>4. PoolIInv'
    <2>1. [Next]_vars
      BY DEF Next
    <2> QED BY <1>2, <2>1, StepPoolIInv
  <1>5. PICK m, st, body : /\ m = Len(blocks) + 1 /\ st = StateAfter(state, block)
                           /\ body = block.transactions
    OBVIOUS
  <1>6. /\ state' = st /\ blocks' = Append(blocks, block)
        /\ mempool' = Rebuild(GetTransactions(mempool), st.seen, st)
    BY <1>5 DEF AddBlock, Revalidated
  <1>7. /\ Positions' = Positions \cup Row(m, DOMAIN body)
        /\ \A p \in Positions : TxMap'[p] = TxMap[p]
        /\ \A j \in DOMAIN body : TxMap'[<<m, j>>] = body[j]
    BY <1>2, <1>5, <1>6, BlockPositions
  <1>8. PICK T, T2, Ps, R : /\ T = TxMap /\ T2 = TxMap' /\ Ps = Positions
                            /\ R = Row(m, DOMAIN body)
    OBVIOUS
  <1>9. History(T, Ps, state.utxos, state.seen)
    BY <1>2, <1>8 DEF IInv
  <1>10. History(T2, Ps \cup R, st.utxos, st.seen)
    <2>1. History(TxMap, Positions, state.utxos, state.seen)'
      BY <1>4 DEF PoolIInv, IInv
    <2> QED BY <1>6, <1>7, <1>8, <2>1
  <1>11. mined = {T2[p] : p \in R}
    <2>1. mined = {body[j] : j \in DOMAIN body}
      BY <1>5 DEF ToSet
    <2>2. \A j \in DOMAIN body : T2[<<m, j>>] = body[j]
      BY <1>7, <1>8
    <2>3. R = {<<m, j>> : j \in DOMAIN body}
      BY <1>8 DEF Row
    <2>4. mined \subseteq {T2[p] : p \in R}
      BY <2>1, <2>2, <2>3, Zenon
    <2>5. {T2[p] : p \in R} \subseteq mined
      BY <2>1, <2>2, <2>3, Zenon
    <2> QED BY <2>4, <2>5
  <1>12. mined \subseteq Transactions \cup Coinbases
    <2> DEFINE S == Transactions \cup Coinbases
    <2>1. body \in Seq(S)
      BY <1>5, CandidateFacts
    <2> HIDE DEF S
    <2>2. \A j \in DOMAIN body : body[j] \in S
      BY <2>1
    <2>3. mined \subseteq S
      BY <1>5, <2>2 DEF ToSet
    <2> QED BY <2>3 DEF S
  <1>13. Extended(T, Ps, state, T2, R, st, mined)
    <2>1. \A p \in Ps : T2[p] = T[p]
      BY <1>7, <1>8
    <2> QED BY <1>9, <1>10, <1>11, <1>12, <2>1 DEF Extended
  <1>14. Rooted(st.utxos, st.seen)
    <2>1. Rooted(state.utxos, state.seen)'
      BY <1>4, HistoryRooted DEF PoolIInv, IInv
    <2> QED BY <1>6, <2>1 DEF Rooted
  <1>15. Separates(GetTransactions(mempool), n, st, all, st.seen,
                   Txids(mined) \cup Orphaned(Conflicting(mined, mempool), mempool))
    BY <1>1, <1>2, <1>3, <1>13, <1>14, BlockSeparates
  <1>16. KeptInOrder(GetTransactions(Rebuild(GetTransactions(mempool), st.seen, st)),
                     GetTransactions(mempool),
                     Txids(mined) \cup Orphaned(Conflicting(mined, mempool), mempool))
    BY <1>1, <1>2, <1>3, <1>14, <1>15, RebuildKeeps
  <1> QED BY <1>6, <1>16

\* A change of the pool touches nothing else: a removal drops the transaction
\* and its descendants only, and add_block what the block confirms and what it
\* conflicts with, with the descendants of the latter; the rest stays, in order.
THEOREM KeepsTheRestTheorem == Spec => PoolKeepsTheRest
  <1> DEFINE Keeps ==
        /\ \A txid \in PendingTxids(mempool) :
              RemovePendingTransaction(txid) =>
                  KeptInOrder(GetTransactions(mempool'), GetTransactions(mempool),
                              Orphaned({txid}, mempool))
        /\ Len(blocks') > Len(blocks) =>
              LET mined == ToSet(Last(blocks').transactions)
              IN  KeptInOrder(GetTransactions(mempool'), GetTransactions(mempool),
                      Txids(mined) \cup Orphaned(Conflicting(mined, mempool), mempool))
  <1>1. TemplateIInv /\ [Next]_vars => Keeps
    <2> SUFFICES ASSUME TemplateIInv, [Next]_vars PROVE Keeps
      OBVIOUS
    <2>1. \A txid \in PendingTxids(mempool) :
              RemovePendingTransaction(txid) =>
                  KeptInOrder(GetTransactions(mempool'), GetTransactions(mempool),
                              Orphaned({txid}, mempool))
      BY RemovalKeeps
    <2>2. ASSUME Len(blocks') > Len(blocks), NEW mined,
                 mined = ToSet(Last(blocks').transactions)
          PROVE  KeptInOrder(GetTransactions(mempool'), GetTransactions(mempool),
                     Txids(mined) \cup Orphaned(Conflicting(mined, mempool), mempool))
      <3>1. PICK S : blocks \in Seq(S)
        BY DEF TemplateIInv, PoolIInv, IInv
      <3>2. Len(blocks) \in Nat
        BY <3>1
      <3>3. blocks' # blocks
        BY <2>2, <3>2
      <3>4. PICK block \in Candidates(blocks) : AddBlock(block)
        BY <3>3 DEF Next, vars, SubmitTransaction, RemovePendingTransaction, SetClock
      <3>5. Last(blocks') = block
        <4>1. blocks' = Append(blocks, block)
          BY <3>4 DEF AddBlock
        <4>2. /\ Len(blocks') = Len(blocks) + 1
              /\ blocks'[Len(blocks) + 1] = block
          BY <3>1, <4>1, AppendFacts
        <4> QED BY <4>2 DEF Last
      <3> QED BY <2>2, <3>4, <3>5, BlockKeeps
    <2> QED BY <2>1, <2>2, Zenon
  <1>2. TemplateIInv /\ [Next]_vars => [Keeps]_vars
    BY <1>1
  <1> QED BY <1>2, TemplateInvariance, PTL DEF Spec, PoolKeepsTheRest
=============================================================================
