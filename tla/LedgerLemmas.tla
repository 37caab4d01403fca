-------------------------- MODULE LedgerLemmas --------------------------
(***************************************************************************)
(* What the operators of BlockRules, Mempool and Transactions compute, for *)
(* any transactions, blocks, limits and lengths: the loops that apply a    *)
(* batch, replay a chain and rebuild a pool, round by round.  No state is  *)
(* involved; BlockchainProofs and PersistentBlockchainProofs build on it.  *)
(***************************************************************************)
EXTENDS BlockRules, SequenceLemmas

\* The first k of n places.
LEMMA FirstPlaces ==
    ASSUME NEW n \in Nat, NEW k \in 1 .. n
    PROVE  1 .. k \in SUBSET (1 .. n) /\ 1 .. k # {} /\ k \in 0 .. n /\ k - 1 \in 0 .. n
  <1>1. k \in Nat /\ 1 <= k /\ k <= n
    OBVIOUS
  <1>2. \A i \in 1 .. k : i \in 1 .. n
    BY <1>1
  <1>3. 1 \in 1 .. k /\ k \in 0 .. n /\ k - 1 \in 0 .. n
    BY <1>1
  <1> QED BY <1>2, <1>3

\* A longer sequence of a larger set.
LEMMA AppendFacts ==
    ASSUME NEW S, NEW s \in Seq(S), NEW e
    PROVE  /\ Append(s, e) \in Seq(S \cup {e})
           /\ Len(Append(s, e)) = Len(s) + 1
           /\ \A i \in 1 .. Len(s) : Append(s, e)[i] = s[i]
           /\ Append(s, e)[Len(s) + 1] = e
           /\ DOMAIN s = 1 .. Len(s)
           /\ DOMAIN Append(s, e) = 1 .. (Len(s) + 1)
  <1> DEFINE U == S \cup {e}
  <1>1. s \in Seq(U)
    <2>1. \A i \in 1 .. Len(s) : s[i] \in U
      OBVIOUS
    <2> HIDE DEF U
    <2> QED BY <2>1
  <1>2. e \in U
    OBVIOUS
  <1> HIDE DEF U
  <1>3. Append(s, e) \in Seq(U) /\ Len(Append(s, e)) = Len(s) + 1
    BY <1>1, <1>2
  <1>4. \A i \in 1 .. Len(s) : Append(s, e)[i] = s[i]
    BY <1>1, <1>2
  <1>5. Append(s, e)[Len(s) + 1] = e
    BY <1>1, <1>2
  <1>6. DOMAIN s = 1 .. Len(s) /\ DOMAIN Append(s, e) = 1 .. (Len(s) + 1)
    BY <1>1, <1>3
  <1> QED BY <1>3, <1>4, <1>5, <1>6 DEF U

-----------------------------------------------------------------------------
(* apply_transactions, round by round.                                       *)

\* h[k] is the batch after k rounds.
ApplyRounds(h, txs, st, n) ==
    /\ h[0] = [ok |-> TRUE, utxos |-> st.utxos, seen |-> st.seen, fees |-> 0]
    /\ \A k \in 1 .. n : h[k] = ApplyNext(h[k - 1], txs[k])
    /\ ApplyTransactions(txs, st) = h[n]

\* The fold is a sequence of rounds.
LEMMA ApplySteps ==
    ASSUME NEW st, NEW txs, NEW n \in Nat, DOMAIN txs = 1 .. n
    PROVE  \E h : ApplyRounds(h, txs, st, n)
  <1> DEFINE base == [ok |-> TRUE, utxos |-> st.utxos, seen |-> st.seen, fees |-> 0]
  <1>0. PICK start : start = base
    OBVIOUS
  <1> HIDE DEF base
  <1> DEFINE Body(f, S) == IF S = {} THEN start
                           ELSE ApplyNext(f[S \ {Max(S)}], txs[Max(S)])
             Iter(f, k) == f = [S \in SUBSET (1 .. k) |-> Body(f, S)]
             T == {k \in Nat : \E f : Iter(f, k)}
  <1>1. 0 \in T
    <2> DEFINE f == [S \in SUBSET (1 .. 0) |-> start]
    <2>1. SUBSET (1 .. 0) = {{}}
      OBVIOUS
    <2>2. Iter(f, 0)
      BY <2>1
    <2> QED BY <2>2
  <1>2. ASSUME NEW k \in Nat, k \in T PROVE k + 1 \in T
    <2>1. PICK f : Iter(f, k)
      BY <1>2
    <2> DEFINE g == [S \in SUBSET (1 .. (k + 1)) |->
                        IF k + 1 \notin S THEN f[S]
                        ELSE ApplyNext(f[S \ {k + 1}], txs[k + 1])]
    <2>2. /\ \A S \in SUBSET (1 .. (k + 1)) :
                g[S] = IF k + 1 \notin S THEN f[S]
                       ELSE ApplyNext(f[S \ {k + 1}], txs[k + 1])
          /\ g = [S \in SUBSET (1 .. (k + 1)) |-> g[S]]
      OBVIOUS
    <2>3. \A S \in SUBSET (1 .. k) :
              f[S] = IF S = {} THEN start
                     ELSE ApplyNext(f[S \ {Max(S)}], txs[Max(S)])
      BY <2>1
    <2> HIDE DEF g, T, Iter
    <2>4. ASSUME NEW S \in SUBSET (1 .. (k + 1))
          PROVE  g[S] = IF S = {} THEN start
                        ELSE ApplyNext(g[S \ {Max(S)}], txs[Max(S)])
      <3>1. CASE k + 1 \notin S
        <4>1. S \in SUBSET (1 .. k)
          BY <3>1
        <4>2. S \ {Max(S)} \in SUBSET (1 .. (k + 1)) /\ k + 1 \notin S \ {Max(S)}
          BY <3>1
        <4>3. g[S] = f[S] /\ g[S \ {Max(S)}] = f[S \ {Max(S)}]
          BY <2>2, <3>1, <4>2
        <4> QED BY <2>3, <4>1, <4>3
      <3>2. CASE k + 1 \in S
        <4>0. k + 1 \in Nat /\ S # {} /\ S \subseteq 1 .. (k + 1)
          BY <3>2
        <4>1. Max(S) \in S /\ \A y \in S : Max(S) >= y
          BY <4>0, MaxOfInterval, Zenon
        <4>2. Max(S) = k + 1
          <5>1. Max(S) \in 1 .. (k + 1) /\ Max(S) >= k + 1
            BY <3>2, <4>0, <4>1, Zenon
          <5> QED BY <5>1
        <4>3. S \ {k + 1} \in SUBSET (1 .. (k + 1)) /\ k + 1 \notin S \ {k + 1}
          OBVIOUS
        <4>4. g[S \ {k + 1}] = f[S \ {k + 1}]
          BY <2>2, <4>3, Zenon
        <4>5. g[S] = ApplyNext(f[S \ {k + 1}], txs[k + 1])
          BY <2>2, <3>2, Zenon
        <4>6. S # {}
          BY <3>2
        <4> QED BY <4>2, <4>4, <4>5, <4>6
      <3> QED BY <3>1, <3>2
    <2>5. \A S \in SUBSET (1 .. (k + 1)) : g[S] = Body(g, S)
      BY <2>4
    <2> HIDE DEF Body
    <2>6. g = [S \in SUBSET (1 .. (k + 1)) |-> Body(g, S)]
      BY <2>2, <2>5, Zenon
    <2>7. Iter(g, k + 1)
      BY <2>6 DEF Iter
    <2> QED BY <2>7 DEF T
  <1>3. n \in T
    <2> HIDE DEF T
    <2> QED BY <1>1, <1>2, NatInductive
  <1> DEFINE iter == CHOOSE f : Iter(f, n)
             h == [k \in 0 .. n |-> iter[1 .. k]]
  <1>4. Iter(iter, n)
    BY <1>3
  <1>5. ApplyTransactions(txs, st) = iter[1 .. n]
    BY <1>0, Zenon DEF ApplyTransactions, FoldLeft, MapThenFoldSet, base
  <1> HIDE DEF iter
  <1>6. h[0] = start
    <2>1. 1 .. 0 = {} /\ {} \in SUBSET (1 .. n)
      OBVIOUS
    <2> QED BY <1>4, <2>1
  <1>7. ASSUME NEW k \in 1 .. n PROVE h[k] = ApplyNext(h[k - 1], txs[k])
    <2>1. 1 .. k \in SUBSET (1 .. n) /\ 1 .. k # {} /\ k \in 0 .. n /\ k - 1 \in 0 .. n
      BY FirstPlaces
    <2>2. Max(1 .. k) \in 1 .. k /\ \A y \in 1 .. k : Max(1 .. k) >= y
      BY <2>1, MaxOfInterval
    <2>3. Max(1 .. k) = k
      BY <2>2
    <2>4. (1 .. k) \ {k} = 1 .. (k - 1)
      OBVIOUS
    <2>5. iter[1 .. k] = ApplyNext(iter[1 .. (k - 1)], txs[k])
      BY <1>4, <2>1, <2>3, <2>4
    <2> QED BY <2>1, <2>5
  <1>8. n \in 0 .. n
    OBVIOUS
  <1>9. ApplyRounds(h, txs, st, n)
    BY <1>0, <1>5, <1>6, <1>7, <1>8 DEF ApplyRounds, base
  <1> QED BY <1>9, Zenon

-----------------------------------------------------------------------------
(* What a UTXO set says about the transactions that led to it.  T maps the   *)
(* positions in Ps to transactions.                                          *)

Created(T, Ps) == UNION {Outpoints(T[p]) : p \in Ps}

SpentBy(T, Ps) == UNION {Spent(T[p]) : p \in Ps}

Row(m, J) == {<<m, j>> : j \in J}

Earlier(p, q) ==
    /\ p[1] < q[1] \/ (p[1] = q[1] /\ p[2] < q[2])
    /\ p[2] = 1 => p[1] < q[1]

Once(T, Ps) ==
    \A p, q \in Ps : p # q => /\ T[p].txid # T[q].txid
                              /\ Spent(T[p]) \cap Spent(T[q]) = {}

Funded(T, Ps) ==
    \A q \in Ps : \A o \in Spent(T[q]) :
        \E p \in Ps : o \in Outpoints(T[p]) /\ Earlier(p, q)

History(T, Ps, utxos, seen) ==
    /\ DOMAIN utxos = Created(T, Ps) \ SpentBy(T, Ps)
    /\ seen = {T[p].txid : p \in Ps}
    /\ \A p \in Ps : \A o \in Outpoints(T[p]) \ SpentBy(T, Ps) :
          utxos[o] = T[p].outputs[o[2] + 1]
    /\ Once(T, Ps)
    /\ Funded(T, Ps)

\* A transaction with a new txid, whose inputs are all unspent, extends the
\* history.  Its outputs are new because their txid is.
LEMMA AddOne ==
    ASSUME NEW T, NEW Ps, NEW utxos, NEW seen, NEW q,
           History(T, Ps, utxos, seen),
           q \notin Ps,
           T[q].txid \notin seen,
           Spent(T[q]) \subseteq DOMAIN utxos,
           Spent(T[q]) # {} => \A p \in Ps : Earlier(p, q)
    PROVE  History(T, Ps \cup {q}, ApplyTransaction(T[q], utxos),
                   seen \cup {T[q].txid})
  <1> DEFINE new == ApplyTransaction(T[q], utxos)
             Qs == Ps \cup {q}
  <1>1. /\ Created(T, Qs) = Created(T, Ps) \cup Outpoints(T[q])
        /\ SpentBy(T, Qs) = SpentBy(T, Ps) \cup Spent(T[q])
    BY DEF Created, SpentBy
  <1>2. /\ DOMAIN utxos = Created(T, Ps) \ SpentBy(T, Ps)
        /\ seen = {T[p].txid : p \in Ps}
        /\ \A p \in Ps : \A o \in Outpoints(T[p]) \ SpentBy(T, Ps) :
              utxos[o] = T[p].outputs[o[2] + 1]
        /\ Once(T, Ps)
        /\ Funded(T, Ps)
    BY DEF History
  <1>3. \A x \in Created(T, Ps) : x[1] \in seen
    <2>1. \A p \in Ps : \A o \in Outpoints(T[p]) : o[1] = T[p].txid
      BY DEF Outpoints
    <2> QED BY <1>2, <2>1 DEF Created
  <1>4. \A o \in Outpoints(T[q]) : o[1] = T[q].txid
    BY DEF Outpoints
  <1>5. SpentBy(T, Ps) \subseteq Created(T, Ps)
    BY <1>2 DEF SpentBy, Created, Funded
  <1>6. /\ Outpoints(T[q]) \cap Created(T, Ps) = {}
        /\ Outpoints(T[q]) \cap SpentBy(T, Ps) = {}
        /\ Outpoints(T[q]) \cap Spent(T[q]) = {}
    BY <1>2, <1>3, <1>4, <1>5
  <1>7. /\ DOMAIN new = (DOMAIN utxos \ Spent(T[q])) \cup Outpoints(T[q])
        /\ \A o \in Outpoints(T[q]) : new[o] = T[q].outputs[o[2] + 1]
        /\ \A o \in DOMAIN utxos \ Spent(T[q]) :
              o \notin Outpoints(T[q]) => new[o] = utxos[o]
    BY DEF ApplyTransaction, AddOutputs
  <1> HIDE DEF new
  <1>8. DOMAIN new = Created(T, Qs) \ SpentBy(T, Qs)
    BY <1>1, <1>2, <1>6, <1>7
  <1>9. seen \cup {T[q].txid} = {T[p].txid : p \in Qs}
    BY <1>2
  <1>10. ASSUME NEW p \in Qs, NEW o \in Outpoints(T[p]) \ SpentBy(T, Qs)
         PROVE  new[o] = T[p].outputs[o[2] + 1]
    <2>1. CASE p = q
      BY <1>7, <2>1
    <2>2. CASE p \in Ps
      <3>1. o \in Created(T, Ps) /\ o \notin SpentBy(T, Ps) /\ o \notin Spent(T[q])
        BY <1>1, <2>2 DEF Created
      <3>2. o \in DOMAIN utxos \ Spent(T[q]) /\ o \notin Outpoints(T[q])
        BY <1>2, <1>6, <3>1
      <3> QED BY <1>2, <1>7, <2>2, <3>1, <3>2
    <2> QED BY <2>1, <2>2
  <1>11. Once(T, Qs)
    <2>1. \A p \in Ps : /\ T[p].txid # T[q].txid
                        /\ Spent(T[p]) \cap Spent(T[q]) = {}
      BY <1>2 DEF SpentBy
    <2> QED BY <1>2, <2>1 DEF Once
  <1>12. Funded(T, Qs)
    <2>1. ASSUME NEW o \in Spent(T[q])
          PROVE  \E p \in Ps : o \in Outpoints(T[p]) /\ Earlier(p, q)
      BY <1>2, <2>1 DEF Created
    <2> QED BY <1>2, <2>1 DEF Funded
  <1> HIDE DEF Qs
  <1> QED BY <1>8, <1>9, <1>10, <1>11, <1>12 DEF History, Qs, new

\* Only the transactions at the positions of the history matter.
LEMMA HistoryDepends ==
    ASSUME NEW T, NEW U, NEW Ps, NEW utxos, NEW seen,
           History(T, Ps, utxos, seen),
           \A p \in Ps : U[p] = T[p]
    PROVE  History(U, Ps, utxos, seen)
  <1>1. Created(U, Ps) = Created(T, Ps) /\ SpentBy(U, Ps) = SpentBy(T, Ps)
    BY DEF Created, SpentBy
  <1>2. {U[p].txid : p \in Ps} = {T[p].txid : p \in Ps}
    OBVIOUS
  <1>3. Once(U, Ps)
    BY DEF History, Once
  <1>4. Funded(U, Ps)
    BY DEF History, Funded
  <1> QED BY <1>1, <1>2, <1>3, <1>4 DEF History

\* A coinbase spends nothing, so adding its outputs is applying it.
LEMMA CoinbaseApplies ==
    ASSUME NEW tx, NEW utxos, tx.inputs = <<>>
    PROVE  Spent(tx) = {} /\ AddOutputs(tx, utxos) = ApplyTransaction(tx, utxos)
  <1>1. Spent(tx) = {}
    BY DEF Spent
  <1>2. DOMAIN utxos \ {} = DOMAIN utxos
    OBVIOUS
  <1> QED BY <1>1, <1>2 DEF ApplyTransaction, AddOutputs

\* A batch that is still good has applied its last transaction in full.
LEMMA ApplyNextFacts ==
    ASSUME NEW batch, NEW tx, "ok" \in DOMAIN batch
    PROVE  LET after == ApplyNext(batch, tx)
           IN  /\ "ok" \in DOMAIN after
               /\ after.ok => /\ batch.ok
                              /\ ValidatedFee(tx, batch.utxos) # NoFee
                              /\ tx.txid \notin batch.seen
                              /\ Applicable(tx, batch.utxos)
                              /\ after.utxos = ApplyTransaction(tx, batch.utxos)
                              /\ after.seen = batch.seen \cup {tx.txid}
                              /\ after.fees = batch.fees + ValidatedFee(tx, batch.utxos)
  BY DEF ApplyNext

\* The regular transactions of block m, at the positions <<m, 2>> onwards,
\* extend the history of what lies before the block, one round at a time.
LEMMA BatchExtendsHistory ==
    ASSUME NEW T, NEW Ps, NEW st, NEW m \in Nat, NEW txs, NEW n \in Nat,
           DOMAIN txs = 1 .. n,
           \A k \in 1 .. n : T[<<m, k + 1>>] = txs[k],
           \A p \in Ps : p[1] \in Nat /\ p[1] < m,
           History(T, Ps, st.utxos, st.seen),
           ApplyTransactions(txs, st).ok
    PROVE  History(T, Ps \cup Row(m, 2 .. (n + 1)),
                   ApplyTransactions(txs, st).utxos,
                   ApplyTransactions(txs, st).seen)
  <1> DEFINE At(k) == Ps \cup Row(m, 2 .. (k + 1))
  <1>0. PICK h : ApplyRounds(h, txs, st, n)
    BY ApplySteps, Zenon
  <1>1. /\ h[0] = [ok |-> TRUE, utxos |-> st.utxos, seen |-> st.seen, fees |-> 0]
        /\ \A k \in 1 .. n : h[k] = ApplyNext(h[k - 1], txs[k])
        /\ ApplyTransactions(txs, st) = h[n]
    BY <1>0, Zenon DEF ApplyRounds
  <1> DEFINE Good(k) == /\ "ok" \in DOMAIN h[k]
                        /\ h[k].ok => History(T, At(k), h[k].utxos, h[k].seen)
             K == {k \in Nat : k <= n => Good(k)}
  <1>3. 0 \in K
    <2>1. At(0) = Ps
      BY DEF Row
    <2>2. "ok" \in DOMAIN h[0] /\ h[0].utxos = st.utxos /\ h[0].seen = st.seen
      BY <1>1
    <2> HIDE DEF At
    <2> QED BY <2>1, <2>2
  <1>4. ASSUME NEW k \in Nat, k \in K PROVE k + 1 \in K
    <2> SUFFICES ASSUME k + 1 <= n PROVE Good(k + 1)
      OBVIOUS
    <2>1. Good(k)
      BY <1>4
    <2>2. h[k + 1] = ApplyNext(h[k], txs[k + 1])
      BY <1>1
    <2> DEFINE q == <<m, k + 2>>
    <2>3. At(k + 1) = At(k) \cup {q} /\ q \notin At(k)
      <3>1. 2 .. ((k + 1) + 1) = (2 .. (k + 1)) \cup {k + 2} /\ k + 2 \notin 2 .. (k + 1)
        OBVIOUS
      <3>2. \A p \in Ps : p # q
        OBVIOUS
      <3> QED BY <3>1, <3>2 DEF Row
    <2>4. T[q] = txs[k + 1]
      <3>1. k + 1 \in 1 .. n /\ (k + 1) + 1 = k + 2
        OBVIOUS
      <3> QED BY <3>1
    <2>5. \A p \in At(k) : Earlier(p, q)
      <3>1. ASSUME NEW p \in Ps PROVE Earlier(p, q)
        BY DEF Earlier
      <3>2. ASSUME NEW j \in 2 .. (k + 1) PROVE Earlier(<<m, j>>, q)
        BY DEF Earlier
      <3> QED BY <3>1, <3>2 DEF Row
    <2> HIDE DEF At, q
    <2>6. "ok" \in DOMAIN h[k + 1]
      BY <2>1, <2>2, ApplyNextFacts
    <2>7. ASSUME h[k + 1].ok
          PROVE  History(T, At(k + 1), h[k + 1].utxos, h[k + 1].seen)
      <3>1. /\ h[k].ok
            /\ T[q].txid \notin h[k].seen
            /\ Applicable(T[q], h[k].utxos)
            /\ h[k + 1].utxos = ApplyTransaction(T[q], h[k].utxos)
            /\ h[k + 1].seen = h[k].seen \cup {T[q].txid}
        BY <2>1, <2>2, <2>4, <2>7, ApplyNextFacts
      <3>2. Spent(T[q]) \subseteq DOMAIN h[k].utxos
        BY <3>1 DEF Applicable
      <3>3. History(T, At(k), h[k].utxos, h[k].seen)
        BY <2>1, <3>1
      <3>4. History(T, At(k) \cup {q}, ApplyTransaction(T[q], h[k].utxos),
                    h[k].seen \cup {T[q].txid})
        BY <2>3, <2>5, <3>1, <3>2, <3>3, AddOne
      <3> QED BY <2>3, <3>1, <3>4
    <2> QED BY <2>6, <2>7
  <1>5. n \in K
    <2> HIDE DEF K
    <2> QED BY <1>3, <1>4, NatInductive
  <1> QED BY <1>1, <1>5

\* The first and the other transactions of a body that is not empty.
LEMMA BodyFacts ==
    ASSUME NEW S, NEW body \in Seq(S), body # <<>>
    PROVE  /\ Len(body) \in Nat \ {0}
           /\ DOMAIN body = 1 .. Len(body)
           /\ Head(body) = body[1]
           /\ DOMAIN Tail(body) = 1 .. (Len(body) - 1)
           /\ \A k \in 1 .. (Len(body) - 1) : Tail(body)[k] = body[k + 1]
  <1>1. Len(body) \in Nat \ {0}
    BY EmptySeq
  <1>2. Tail(body) \in Seq(S) /\ Len(Tail(body)) = Len(body) - 1
    BY <1>1
  <1>3. DOMAIN Tail(body) = 1 .. (Len(body) - 1)
    BY <1>2
  <1>4. \A k \in 1 .. (Len(body) - 1) : Tail(body)[k] = body[k + 1]
    BY <1>1
  <1> QED BY <1>1, <1>3, <1>4

\* A valid block m extends the history of the blocks before it; its coinbase,
\* at <<m, 1>>, comes last.
LEMMA BlockExtendsHistory ==
    ASSUME NEW T, NEW Ps, NEW st, NEW m \in Nat, NEW block, NEW S,
           block.transactions \in Seq(S),
           \A j \in DOMAIN block.transactions : T[<<m, j>>] = block.transactions[j],
           \A p \in Ps : p[1] \in Nat /\ p[1] < m,
           History(T, Ps, st.utxos, st.seen),
           ValidateBody(block),
           ApplyBlockTransactions(block, st).ok
    PROVE  History(T, Ps \cup Row(m, DOMAIN block.transactions),
                   StateAfter(st, block).utxos, StateAfter(st, block).seen)
  <1> DEFINE body == block.transactions
             n == Len(body) - 1
             batch == ApplyTransactions(Tail(body), st)
             Qs == Ps \cup Row(m, 2 .. (n + 1))
             q == <<m, 1>>
  <1>1. body # <<>> /\ body[1].inputs = <<>>
    BY DEF ValidateBody, ValidateCoinbaseStructure
  <1>2. /\ n \in Nat
        /\ DOMAIN body = 1 .. (n + 1)
        /\ Head(body) = body[1]
        /\ DOMAIN Tail(body) = 1 .. n
        /\ \A k \in 1 .. n : Tail(body)[k] = body[k + 1]
    <2>1. /\ Len(body) \in Nat \ {0}
          /\ DOMAIN body = 1 .. Len(body)
          /\ Head(body) = body[1]
          /\ DOMAIN Tail(body) = 1 .. (Len(body) - 1)
          /\ \A k \in 1 .. (Len(body) - 1) : Tail(body)[k] = body[k + 1]
      <3> HIDE DEF body
      <3> QED BY <1>1, BodyFacts DEF body
    <2> QED BY <2>1
  <1>3. T[q] = body[1] /\ \A k \in 1 .. n : T[<<m, k + 1>>] = Tail(body)[k]
    <2>1. 1 \in 1 .. (n + 1) /\ \A k \in 1 .. n : k + 1 \in 1 .. (n + 1)
      BY <1>2
    <2>2. \A k \in 1 .. (n + 1) : T[<<m, k>>] = body[k]
      BY <1>2
    <2> QED BY <1>2, <2>1, <2>2
  <1>4. /\ batch.ok
        /\ body[1].txid \notin batch.seen
        /\ StateAfter(st, block).utxos = AddOutputs(body[1], batch.utxos)
        /\ StateAfter(st, block).seen = batch.seen \cup {body[1].txid}
    BY <1>2 DEF ApplyBlockTransactions, StateAfter
  <1> HIDE DEF body, n, batch
  <1>5. History(T, Qs, batch.utxos, batch.seen)
    BY <1>2, <1>3, <1>4, BatchExtendsHistory, Zenon DEF batch
  <1>6. q \notin Qs
    BY <1>2 DEF Row
  <1>7. Spent(T[q]) = {} /\ AddOutputs(T[q], batch.utxos) = ApplyTransaction(T[q], batch.utxos)
    BY <1>1, <1>3, CoinbaseApplies
  <1>8. Ps \cup Row(m, DOMAIN body) = Qs \cup {q}
    <2>1. 1 .. (n + 1) = (2 .. (n + 1)) \cup {1}
      BY <1>2
    <2> QED BY <1>2, <2>1 DEF Row
  <1> HIDE DEF Qs, q
  <1>9. History(T, Qs \cup {q}, ApplyTransaction(T[q], batch.utxos),
                batch.seen \cup {T[q].txid})
    <2>1. T[q].txid \notin batch.seen /\ Spent(T[q]) \subseteq DOMAIN batch.utxos
      BY <1>3, <1>4, <1>7
    <2>2. Spent(T[q]) # {} => \A p \in Qs : Earlier(p, q)
      BY <1>7
    <2> QED BY <1>5, <1>6, <2>1, <2>2, AddOne, Zenon
  <1> QED BY <1>3, <1>4, <1>7, <1>8, <1>9 DEF body

-----------------------------------------------------------------------------
(* rebuild_chain_state, block by block.                                      *)

\* h[k] is the replay after k blocks on top of genesis.
ReplayRounds(h, chain, time, n) ==
    /\ h[0] = [ok |-> chain # <<>> /\ chain[1] = GENESIS, state |-> EmptyState]
    /\ \A k \in 1 .. n : h[k] = ReplayNext(chain, time, h[k - 1], k + 1)
    /\ RebuildChainState(chain, time) = h[n]

\* The replay of a chain is a sequence of rounds.
LEMMA ReplaySteps ==
    ASSUME NEW chain, NEW time, NEW n \in Nat, n = Len(chain) - 1
    PROVE  \E h : ReplayRounds(h, chain, time, n)
  <1> DEFINE base == [ok |-> chain # <<>> /\ chain[1] = GENESIS, state |-> EmptyState]
             seq == [i \in 1 .. (Len(chain) - 1) |-> i + 1]
  <1>0. PICK start, idx : start = base /\ idx = seq
    OBVIOUS
  <1>a. DOMAIN idx = 1 .. n /\ \A i \in 1 .. n : idx[i] = i + 1
    BY <1>0
  <1> HIDE DEF base, seq
  <1> DEFINE Body(f, S) == IF S = {} THEN start
                           ELSE ReplayNext(chain, time, f[S \ {Max(S)}], idx[Max(S)])
             Iter(f, k) == f = [S \in SUBSET (1 .. k) |-> Body(f, S)]
             T == {k \in Nat : \E f : Iter(f, k)}
  <1>1. 0 \in T
    <2> DEFINE f == [S \in SUBSET (1 .. 0) |-> start]
    <2>1. SUBSET (1 .. 0) = {{}}
      OBVIOUS
    <2>2. Iter(f, 0)
      BY <2>1
    <2> QED BY <2>2
  <1>2. ASSUME NEW k \in Nat, k \in T PROVE k + 1 \in T
    <2>1. PICK f : Iter(f, k)
      BY <1>2
    <2> DEFINE g == [S \in SUBSET (1 .. (k + 1)) |->
                        IF k + 1 \notin S THEN f[S]
                        ELSE ReplayNext(chain, time, f[S \ {k + 1}], idx[k + 1])]
    <2>2. /\ \A S \in SUBSET (1 .. (k + 1)) :
                g[S] = IF k + 1 \notin S THEN f[S]
                       ELSE ReplayNext(chain, time, f[S \ {k + 1}], idx[k + 1])
          /\ g = [S \in SUBSET (1 .. (k + 1)) |-> g[S]]
      OBVIOUS
    <2>3. \A S \in SUBSET (1 .. k) :
              f[S] = IF S = {} THEN start
                     ELSE ReplayNext(chain, time, f[S \ {Max(S)}], idx[Max(S)])
      BY <2>1
    <2> HIDE DEF g, T, Iter
    <2>4. ASSUME NEW S \in SUBSET (1 .. (k + 1))
          PROVE  g[S] = IF S = {} THEN start
                        ELSE ReplayNext(chain, time, g[S \ {Max(S)}], idx[Max(S)])
      <3>1. CASE k + 1 \notin S
        <4>1. S \in SUBSET (1 .. k)
          BY <3>1
        <4>2. S \ {Max(S)} \in SUBSET (1 .. (k + 1)) /\ k + 1 \notin S \ {Max(S)}
          BY <3>1
        <4>3. g[S] = f[S] /\ g[S \ {Max(S)}] = f[S \ {Max(S)}]
          BY <2>2, <3>1, <4>2
        <4> QED BY <2>3, <4>1, <4>3
      <3>2. CASE k + 1 \in S
        <4>0. k + 1 \in Nat /\ S # {} /\ S \subseteq 1 .. (k + 1)
          BY <3>2
        <4>1. Max(S) \in S /\ \A y \in S : Max(S) >= y
          BY <4>0, MaxOfInterval, Zenon
        <4>2. Max(S) = k + 1
          <5>1. Max(S) \in 1 .. (k + 1) /\ Max(S) >= k + 1
            BY <3>2, <4>0, <4>1, Zenon
          <5> QED BY <5>1
        <4>3. S \ {k + 1} \in SUBSET (1 .. (k + 1)) /\ k + 1 \notin S \ {k + 1}
          OBVIOUS
        <4>4. g[S \ {k + 1}] = f[S \ {k + 1}]
          BY <2>2, <4>3, Zenon
        <4>5. g[S] = ReplayNext(chain, time, f[S \ {k + 1}], idx[k + 1])
          BY <2>2, <3>2, Zenon
        <4>6. S # {}
          BY <3>2
        <4> QED BY <4>2, <4>4, <4>5, <4>6
      <3> QED BY <3>1, <3>2
    <2>5. \A S \in SUBSET (1 .. (k + 1)) : g[S] = Body(g, S)
      BY <2>4
    <2> HIDE DEF Body
    <2>6. g = [S \in SUBSET (1 .. (k + 1)) |-> Body(g, S)]
      BY <2>2, <2>5, Zenon
    <2>7. Iter(g, k + 1)
      BY <2>6 DEF Iter
    <2> QED BY <2>7 DEF T
  <1>3. n \in T
    <2> HIDE DEF T
    <2> QED BY <1>1, <1>2, NatInductive
  <1> DEFINE iter == CHOOSE f : Iter(f, n)
             h == [k \in 0 .. n |-> iter[1 .. k]]
  <1>4. Iter(iter, n)
    BY <1>3
  <1>5. RebuildChainState(chain, time) = iter[1 .. n]
    <2> DEFINE Fold(first, over, D) ==
                 (CHOOSE f : f = [S \in SUBSET D |->
                                    IF S = {} THEN first
                                    ELSE ReplayNext(chain, time, f[S \ {Max(S)}],
                                                    over[Max(S)])])[D]
    <2>1. RebuildChainState(chain, time) = Fold(base, seq, DOMAIN seq)
      BY Zenon DEF RebuildChainState, FoldLeft, MapThenFoldSet, base, seq
    <2>2. Fold(start, idx, 1 .. n) = iter[1 .. n]
      BY Zenon
    <2> HIDE DEF Fold, iter
    <2> QED BY <1>0, <1>a, <2>1, <2>2
  <1> HIDE DEF iter
  <1>6. h[0] = start
    <2>1. 1 .. 0 = {} /\ {} \in SUBSET (1 .. n)
      OBVIOUS
    <2> QED BY <1>4, <2>1
  <1>7. ASSUME NEW k \in 1 .. n PROVE h[k] = ReplayNext(chain, time, h[k - 1], idx[k])
    <2>1. 1 .. k \in SUBSET (1 .. n) /\ 1 .. k # {} /\ k \in 0 .. n /\ k - 1 \in 0 .. n
      BY FirstPlaces
    <2>2. Max(1 .. k) \in 1 .. k /\ \A y \in 1 .. k : Max(1 .. k) >= y
      BY <2>1, MaxOfInterval
    <2>3. Max(1 .. k) = k
      BY <2>2
    <2>4. (1 .. k) \ {k} = 1 .. (k - 1)
      OBVIOUS
    <2>5. iter[1 .. k] = ReplayNext(chain, time, iter[1 .. (k - 1)], idx[k])
      BY <1>4, <2>1, <2>3, <2>4
    <2> QED BY <2>1, <2>5
  <1>8. n \in 0 .. n
    OBVIOUS
  <1>9. ReplayRounds(h, chain, time, n)
    BY <1>0, <1>a, <1>5, <1>6, <1>7, <1>8 DEF ReplayRounds, base
  <1> QED BY <1>9, Zenon

\* sts[i] is the state after block i, and every block is valid on top of the
\* one before it at the moment of its own timestamp.
Replayed(chain, sts) ==
    /\ chain[1] = GENESIS
    /\ sts[1] = EmptyState
    /\ \A i \in 2 .. Len(chain) :
          /\ chain[i].timestamp \in Nat
          /\ ValidBlock(chain[i], chain[i - 1], sts[i - 1], chain[i].timestamp)
          /\ \A j \in 1 .. (i - 1) : BlockHash(chain[j]) # BlockHash(chain[i])
          /\ sts[i] = StateAfter(sts[i - 1], chain[i])

\* The clock decides about nothing but the future limit.
LEMMA ClockDecides ==
    ASSUME NEW block, NEW previous, NEW st, NEW time \in Nat,
           block.timestamp \in Nat
    PROVE  ValidBlock(block, previous, st, time) <=>
               /\ ValidBlock(block, previous, st, block.timestamp)
               /\ block.timestamp <= time + MAX_FUTURE_BLOCK_TIME
  <1>1. block.timestamp <= block.timestamp + MAX_FUTURE_BLOCK_TIME
    BY FutureAssumption
  <1> QED BY <1>1 DEF ValidBlock, ValidateBlockHeader

\* A replay reproduces the states the chain went through, and fails exactly
\* when the clock is too early for one of the timestamps.
LEMMA ReplayReproduces ==
    ASSUME NEW chain, NEW sts, NEW time \in Nat,
           Len(chain) \in Nat \ {0}, chain # <<>>, Replayed(chain, sts)
    PROVE  LET replay == RebuildChainState(chain, time)
               InTime == \A i \in 2 .. Len(chain) :
                             chain[i].timestamp <= time + MAX_FUTURE_BLOCK_TIME
           IN  /\ replay.ok <=> InTime
               /\ replay.ok => replay.state = sts[Len(chain)]
  <1>0. PICK n \in Nat : n = Len(chain) - 1
    OBVIOUS
  <1>1. PICK h : ReplayRounds(h, chain, time, n)
    BY <1>0, ReplaySteps, Zenon
  <1>2. /\ h[0] = [ok |-> chain # <<>> /\ chain[1] = GENESIS, state |-> EmptyState]
        /\ \A k \in 1 .. n : h[k] = ReplayNext(chain, time, h[k - 1], k + 1)
        /\ RebuildChainState(chain, time) = h[n]
    BY <1>1, Zenon DEF ReplayRounds
  <1> DEFINE InTime(k) == \A i \in 2 .. (k + 1) :
                              chain[i].timestamp <= time + MAX_FUTURE_BLOCK_TIME
             Good(k) == /\ "ok" \in DOMAIN h[k]
                        /\ h[k].ok <=> InTime(k)
                        /\ h[k].ok => h[k].state = sts[k + 1]
             K == {k \in Nat : k <= n => Good(k)}
  <1>3. 0 \in K
    <2>1. InTime(0)
      OBVIOUS
    <2>2. "ok" \in DOMAIN h[0] /\ h[0].ok /\ h[0].state = sts[1]
      <3>1. (chain # <<>> /\ chain[1] = GENESIS) = TRUE /\ sts[1] = EmptyState
        BY DEF Replayed
      <3>2. h[0] = [ok |-> TRUE, state |-> sts[1]]
        BY <1>2, <3>1, Zenon
      <3> QED BY <3>2
    <2> HIDE DEF InTime
    <2> QED BY <2>1, <2>2
  <1>4. ASSUME NEW k \in Nat, k \in K PROVE k + 1 \in K
    <2> SUFFICES ASSUME k + 1 <= n PROVE Good(k + 1)
      OBVIOUS
    <2>1. Good(k)
      BY <1>4
    <2>2. PICK i \in 2 .. Len(chain) : i = k + 2 /\ i - 1 = k + 1
      BY <1>0
    <2>3. h[k + 1] = ReplayNext(chain, time, h[k], i)
      BY <1>2, <2>2
    <2>4. /\ chain[i].timestamp \in Nat
          /\ ValidBlock(chain[i], chain[i - 1], sts[i - 1], chain[i].timestamp)
          /\ \A j \in 1 .. (i - 1) : BlockHash(chain[j]) # BlockHash(chain[i])
          /\ sts[i] = StateAfter(sts[i - 1], chain[i])
      BY DEF Replayed
    <2>5. ValidBlock(chain[i], chain[i - 1], sts[i - 1], time) <=>
              chain[i].timestamp <= time + MAX_FUTURE_BLOCK_TIME
      BY <2>4, ClockDecides
    <2>6. InTime(k + 1) <=>
              InTime(k) /\ chain[i].timestamp <= time + MAX_FUTURE_BLOCK_TIME
      <3>1. 2 .. ((k + 1) + 1) = (2 .. (k + 1)) \cup {i}
        BY <2>2
      <3> QED BY <3>1
    <2> HIDE DEF InTime
    <2>7. CASE h[k].ok /\ chain[i].timestamp <= time + MAX_FUTURE_BLOCK_TIME
      <3>1. h[k].state = sts[i - 1]
        BY <2>1, <2>2, <2>7
      <3>2. ValidBlock(chain[i], chain[i - 1], h[k].state, time)
        BY <2>5, <2>7, <3>1
      <3>3. h[k + 1] = [ok |-> TRUE, state |-> ApplyBlockTransactions(chain[i], h[k].state).state]
        BY <2>3, <2>4, <2>7, <3>2 DEF ReplayNext
      <3>4. h[k + 1].state = sts[(k + 1) + 1]
        BY <2>2, <2>4, <3>1, <3>3 DEF StateAfter
      <3> QED BY <2>1, <2>6, <2>7, <3>3, <3>4
    <2>8. CASE ~(h[k].ok /\ chain[i].timestamp <= time + MAX_FUTURE_BLOCK_TIME)
      <3>1. h[k].ok => ~ValidBlock(chain[i], chain[i - 1], h[k].state, time)
        BY <2>1, <2>2, <2>5, <2>8
      <3>2. h[k + 1] = [h[k] EXCEPT !.ok = FALSE]
        BY <2>3, <3>1 DEF ReplayNext
      <3>3. "ok" \in DOMAIN h[k + 1] /\ ~h[k + 1].ok
        BY <2>1, <3>2
      <3> QED BY <2>1, <2>6, <2>8, <3>3
    <2> QED BY <2>7, <2>8
  <1>5. n \in K
    <2> HIDE DEF K
    <2> QED BY <1>3, <1>4, NatInductive
  <1>6. n + 1 = Len(chain)
    BY <1>0
  <1>7. Good(n)
    BY <1>5
  <1> QED BY <1>2, <1>6, <1>7

\* A candidate has a clock reading for a timestamp and a sequence for a body.
Coinbases ==
    {CreateCoinbase(a, t, r) : a \in Addresses, t \in Times, r \in Rewards}

\* What every offered block is.
LEMMA CandidateFacts ==
    ASSUME NEW chain, NEW block \in Candidates(chain)
    PROVE  /\ block.timestamp \in Nat
           /\ block.transactions \in Seq(Transactions \cup Coinbases)
  <1>1. block.timestamp \in Times /\ block.transactions \in Bodies
    BY DEF Candidates
  <1>2. PICK prefix, txs, c :
             /\ prefix = <<>> \/ (c \in Coinbases /\ prefix = <<c>>)
             /\ txs \in BoundedSeq(Transactions, MaxBlockTransactions)
             /\ block.transactions = prefix \o txs
    <2> DEFINE prefixes == {<<>>} \cup {<<CreateCoinbase(a, t, r)>> :
                              a \in Addresses, t \in Times, r \in Rewards}
               regular == BoundedSeq(Transactions, MaxBlockTransactions)
    <2>1. Bodies = {prefix \o txs : prefix \in prefixes, txs \in regular}
      BY SMT DEF Bodies
    <2>2. \A prefix \in prefixes : prefix = <<>> \/ \E c \in Coinbases : prefix = <<c>>
      BY SMT DEF Coinbases
    <2> HIDE DEF prefixes, regular
    <2>3. PICK prefix \in prefixes, txs \in regular :
              block.transactions = prefix \o txs
      BY <1>1, <2>1, SMT
    <2>4. PICK c : prefix = <<>> \/ (c \in Coinbases /\ prefix = <<c>>)
      BY <2>2
    <2> QED BY <2>3, <2>4, Zenon DEF regular
  <1> DEFINE S == Transactions \cup Coinbases
  <1>3. prefix \in Seq(S)
    <2>1. CASE prefix = <<>>
      BY <2>1
    <2>2. CASE c \in Coinbases /\ prefix = <<c>>
      BY <2>2
    <2> QED BY <1>2, <2>1, <2>2
  <1>4. txs \in Seq(S)
    <2>1. PICK m \in Nat : txs \in [1 .. m -> Transactions]
      BY <1>2, BodyAssumption DEF BoundedSeq, SeqOf
    <2>2. txs \in [1 .. m -> S]
      BY <2>1
    <2> HIDE DEF S
    <2> QED BY <2>2, SeqDef
  <1> HIDE DEF S
  <1>5. block.transactions \in Seq(S)
    BY <1>2, <1>3, <1>4, ConcatProperties
  <1>6. block.timestamp \in Nat
    BY <1>1, TimesAssumption
  <1> QED BY <1>5, <1>6 DEF S

-----------------------------------------------------------------------------
(* What applying a transaction does to the total of a UTXO set.              *)

Sound(utxos) ==
    IsFiniteSet(DOMAIN utxos) /\ \A o \in DOMAIN utxos : utxos[o].amount \in Int

Shaped(tx) ==
    /\ \E n \in Nat : DOMAIN tx.inputs = 1 .. n
    /\ \E n \in Nat : DOMAIN tx.outputs = 1 .. n
    /\ \A i \in DOMAIN tx.outputs : tx.outputs[i].amount \in Int

\* W is U with one more output, at o.
OneMore(W, U, o) ==
    /\ o \notin DOMAIN U
    /\ DOMAIN W = DOMAIN U \cup {o}
    /\ \A x \in DOMAIN U : W[x] = U[x]

\* An output more adds its amount to a UTXO set's total.
LEMMA TotalOfOneMore ==
    ASSUME NEW U, NEW W, NEW o, Sound(U), OneMore(W, U, o), W[o].amount \in Int
    PROVE  /\ Sound(W)
           /\ Total(U) \in Int
           /\ Total(W) = Total(U) + W[o].amount
  <1> USE DEF Sound, OneMore
  <1>1. PICK f, h : /\ f = [x \in DOMAIN U |-> U[x].amount]
                    /\ h = [x \in DOMAIN W |-> W[x].amount]
    OBVIOUS
  <1>2. /\ DOMAIN f = DOMAIN U /\ DOMAIN h = DOMAIN f \cup {o} /\ o \notin DOMAIN f
        /\ \A x \in DOMAIN f : h[x] = f[x] /\ f[x] \in Int
        /\ h[o] = W[o].amount
    BY <1>1
  <1>3. SumFunction(h) = SumFunction(f) + h[o] /\ SumFunction(f) \in Int
    BY <1>2, SumOfOneMore
  <1>4. Sound(W)
    BY FS_AddElement
  <1>5. Total(U) = SumFunction(f) /\ Total(W) = SumFunction(h)
    BY <1>1 DEF Total
  <1> QED BY <1>2, <1>3, <1>4, <1>5

\* The sum of the first k + 1 values is the sum of the first k and the last.
LEMMA SumOfPrefix ==
    ASSUME NEW k \in Nat, NEW f, NEW h,
           DOMAIN f = 1 .. k, DOMAIN h = 1 .. (k + 1),
           \A i \in 1 .. k : h[i] = f[i],
           \A i \in 1 .. (k + 1) : h[i] \in Int
    PROVE  SumFunction(h) = SumFunction(f) + h[k + 1] /\ SumFunction(f) \in Int
  <1>1. /\ IsFiniteSet(DOMAIN f)
        /\ k + 1 \notin DOMAIN f /\ DOMAIN h = DOMAIN f \cup {k + 1}
    <2>1. IsFiniteSet(1 .. k)
      BY FS_Interval
    <2>2. 1 .. (k + 1) = (1 .. k) \cup {k + 1} /\ k + 1 \notin 1 .. k
      OBVIOUS
    <2> QED BY <2>1, <2>2
  <1>2. \A i \in DOMAIN f : h[i] = f[i] /\ f[i] \in Int
    OBVIOUS
  <1>3. h[k + 1] \in Int
    OBVIOUS
  <1> QED BY <1>1, <1>2, <1>3, SumOfOneMore

\* Taking the inputs out lowers the total by their sum.
LEMMA TotalWithoutInputs ==
    ASSUME NEW U, NEW tx, Sound(U), Shaped(tx), Applicable(tx, U)
    PROVE  LET R == [o \in DOMAIN U \ Spent(tx) |-> U[o]]
           IN  /\ Sound(R)
               /\ Total(R) \in Int
               /\ InputTotal(tx, U) \in Int
               /\ Total(U) = Total(R) + InputTotal(tx, U)
  <1>1. PICK n \in Nat : DOMAIN tx.inputs = 1 .. n
    BY DEF Shaped
  <1> DEFINE In(i) == tx.inputs[i].outpoint
             Ins(k) == {In(i) : i \in 1 .. k}
             R(k) == [o \in DOMAIN U \ Ins(k) |-> U[o]]
             V(k) == [i \in 1 .. k |-> U[In(i)].amount]
             Good(k) == /\ Sound(R(k))
                        /\ Total(R(k)) \in Int
                        /\ SumFunction(V(k)) \in Int
                        /\ Total(U) = Total(R(k)) + SumFunction(V(k))
             K == {k \in Nat : k <= n => Good(k)}
  <1>2. /\ \A i, j \in 1 .. n : In(i) = In(j) => i = j
        /\ \A i \in 1 .. n : In(i) \in DOMAIN U
    BY <1>1 DEF Applicable, Spent
  <1>3. \A k \in Nat : /\ DOMAIN R(k) = DOMAIN U \ Ins(k)
                       /\ \A o \in DOMAIN U \ Ins(k) : R(k)[o] = U[o]
                       /\ DOMAIN V(k) = 1 .. k
                       /\ \A i \in 1 .. k : V(k)[i] = U[In(i)].amount
    OBVIOUS
  <1>4. \A k \in Nat : Sound(R(k))
    <2>1. ASSUME NEW k \in Nat PROVE IsFiniteSet(DOMAIN U \ Ins(k))
      BY FS_Subset DEF Sound
    <2> HIDE DEF R, Ins
    <2> QED BY <1>3, <2>1 DEF Sound
  <1>5. 0 \in K
    <2>1. Ins(0) = {}
      OBVIOUS
    <2>2. Total(R(0)) = Total(U)
      <3>1. DOMAIN R(0) = DOMAIN U /\ \A o \in DOMAIN U : R(0)[o] = U[o]
        BY <1>3, <2>1
      <3> HIDE DEF R
      <3>2. [o \in DOMAIN R(0) |-> R(0)[o].amount] = [o \in DOMAIN U |-> U[o].amount]
        BY <3>1
      <3> QED BY <3>2, Zenon DEF Total
    <2>3. Total(U) \in Int
      <3>1. PICK f : f = [o \in DOMAIN U |-> U[o].amount]
        OBVIOUS
      <3>2. IsFiniteSet(DOMAIN f) /\ \A o \in DOMAIN f : f[o] \in Int
        BY <3>1 DEF Sound
      <3>3. SumFunction(f) \in Int
        BY <3>2, SumType
      <3> QED BY <3>1, <3>3 DEF Total
    <2>4. SumFunction(V(0)) = 0
      <3>1. DOMAIN V(0) = {}
        OBVIOUS
      <3> HIDE DEF V
      <3> QED BY <3>1, SumOfNothing
    <2> HIDE DEF R, V
    <2> QED BY <1>4, <2>2, <2>3, <2>4
  <1>6. ASSUME NEW k \in Nat, k \in K PROVE k + 1 \in K
    <2> SUFFICES ASSUME k + 1 <= n PROVE Good(k + 1)
      OBVIOUS
    <2>1. Good(k)
      BY <1>6
    <2>2. PICK x : x = In(k + 1)
      OBVIOUS
    <2>3. k + 1 \in 1 .. n /\ \A i \in 1 .. k : i \in 1 .. n /\ i # k + 1
      OBVIOUS
    <2>4. x \in DOMAIN U /\ x \notin Ins(k) /\ Ins(k + 1) = Ins(k) \cup {x}
      <3>1. x \in DOMAIN U /\ \A i \in 1 .. k : In(i) # x
        BY <1>2, <2>2, <2>3
      <3>2. 1 .. (k + 1) = (1 .. k) \cup {k + 1}
        OBVIOUS
      <3> QED BY <2>2, <3>1, <3>2
    <2>5. OneMore(R(k), R(k + 1), x) /\ R(k)[x] = U[x]
      <3>1. /\ k + 1 \in Nat
            /\ DOMAIN R(k) = DOMAIN U \ Ins(k)
            /\ \A o \in DOMAIN U \ Ins(k) : R(k)[o] = U[o]
            /\ DOMAIN R(k + 1) = DOMAIN U \ Ins(k + 1)
            /\ \A o \in DOMAIN U \ Ins(k + 1) : R(k + 1)[o] = U[o]
        BY <1>3
      <3> HIDE DEF R, Ins
      <3>2. DOMAIN R(k) = DOMAIN R(k + 1) \cup {x} /\ x \notin DOMAIN R(k + 1)
        BY <2>4, <3>1
      <3> QED BY <2>4, <3>1, <3>2 DEF OneMore
    <2>6. U[x].amount \in Int
      BY <2>4 DEF Sound
    <2> HIDE DEF R, Ins
    <2>7. Total(R(k + 1)) \in Int /\ Total(R(k)) = Total(R(k + 1)) + U[x].amount
      <3>1. Sound(R(k + 1)) /\ R(k)[x].amount \in Int
        BY <1>4, <2>5, <2>6
      <3> QED BY <2>5, <3>1, TotalOfOneMore
    <2>8. SumFunction(V(k + 1)) = SumFunction(V(k)) + U[x].amount
      <3>1. /\ DOMAIN V(k) = 1 .. k /\ DOMAIN V(k + 1) = 1 .. (k + 1)
            /\ \A i \in 1 .. k : V(k + 1)[i] = V(k)[i]
            /\ V(k + 1)[k + 1] = U[x].amount
        BY <2>2
      <3>2. \A i \in 1 .. (k + 1) : V(k + 1)[i] \in Int
        BY <1>2, <2>3 DEF Sound
      <3> HIDE DEF V
      <3> QED BY <3>1, <3>2, SumOfPrefix
    <2> HIDE DEF V
    <2>9. SumFunction(V(k)) \in Int /\ Total(U) = Total(R(k)) + SumFunction(V(k))
      BY <2>1
    <2> QED BY <1>4, <2>6, <2>7, <2>8, <2>9
  <1>7. Good(n)
    <2>1. n \in K
      <3> HIDE DEF K
      <3> QED BY <1>5, <1>6, NatInductive
    <2> HIDE DEF Good
    <2> QED BY <2>1
  <1>8. Ins(n) = Spent(tx)
    BY <1>1 DEF Spent
  <1>9. InputTotal(tx, U) = SumFunction(V(n))
    BY <1>1 DEF InputTotal
  <1>10. R(n) = [o \in DOMAIN U \ Spent(tx) |-> U[o]]
    BY <1>8
  <1> HIDE DEF R, V
  <1> QED BY <1>7, <1>9, <1>10
\* Adding new outputs raises the total by their sum.
LEMMA TotalWithOutputs ==
    ASSUME NEW R, NEW tx, Sound(R), Shaped(tx), Outpoints(tx) \cap DOMAIN R = {}
    PROVE  /\ Sound(AddOutputs(tx, R))
           /\ Total(R) \in Int
           /\ OutputTotal(tx) \in Int
           /\ Total(AddOutputs(tx, R)) = Total(R) + OutputTotal(tx)
  <1>1. PICK n \in Nat : DOMAIN tx.outputs = 1 .. n
    BY DEF Shaped
  <1> DEFINE Out(i) == <<tx.txid, i - 1>>
             Outs(k) == {Out(i) : i \in 1 .. k}
             W(k) == [o \in DOMAIN R \cup Outs(k) |->
                         IF o \in Outs(k) THEN tx.outputs[o[2] + 1] ELSE R[o]]
             V(k) == [i \in 1 .. k |-> tx.outputs[i].amount]
             Good(k) == /\ Sound(W(k))
                        /\ SumFunction(V(k)) \in Int
                        /\ Total(W(k)) = Total(R) + SumFunction(V(k))
             K == {k \in Nat : k <= n => Good(k)}
  <1>2. \A i \in 1 .. n : Out(i) \notin DOMAIN R /\ tx.outputs[i].amount \in Int
    BY <1>1 DEF Outpoints, Shaped
  <1>3. \A k \in Nat : /\ DOMAIN W(k) = DOMAIN R \cup Outs(k)
                       /\ \A o \in Outs(k) : W(k)[o] = tx.outputs[o[2] + 1]
                       /\ \A o \in DOMAIN R \ Outs(k) : W(k)[o] = R[o]
    OBVIOUS
  <1>4. Total(R) \in Int
    <2>1. PICK f : f = [o \in DOMAIN R |-> R[o].amount]
      OBVIOUS
    <2>2. IsFiniteSet(DOMAIN f) /\ \A o \in DOMAIN f : f[o] \in Int
      BY <2>1 DEF Sound
    <2>3. SumFunction(f) \in Int
      BY <2>2, SumType
    <2> QED BY <2>1, <2>3 DEF Total
  <1>5. 0 \in K
    <2>1. Outs(0) = {}
      OBVIOUS
    <2>2. DOMAIN W(0) = DOMAIN R /\ \A o \in DOMAIN R : W(0)[o] = R[o]
      BY <1>3, <2>1
    <2>3. SumFunction(V(0)) = 0
      <3>1. DOMAIN V(0) = {}
        OBVIOUS
      <3> HIDE DEF V
      <3> QED BY <3>1, SumOfNothing
    <2> HIDE DEF W, V
    <2>4. Sound(W(0))
      BY <2>2 DEF Sound
    <2>5. Total(W(0)) = Total(R)
      <3>1. [o \in DOMAIN W(0) |-> W(0)[o].amount] = [o \in DOMAIN R |-> R[o].amount]
        BY <2>2
      <3> QED BY <3>1, Zenon DEF Total
    <2> QED BY <1>4, <2>3, <2>4, <2>5
  <1>6. ASSUME NEW k \in Nat, k \in K PROVE k + 1 \in K
    <2> SUFFICES ASSUME k + 1 <= n PROVE Good(k + 1)
      OBVIOUS
    <2>1. Good(k)
      BY <1>6
    <2>2. PICK x : x = Out(k + 1)
      OBVIOUS
    <2>3. k + 1 \in 1 .. n /\ \A i \in 1 .. k : i \in 1 .. n /\ i # k + 1
      OBVIOUS
    <2>4. x \notin DOMAIN R /\ x \notin Outs(k) /\ Outs(k + 1) = Outs(k) \cup {x}
      <3>1. x \notin DOMAIN R
        BY <1>2, <2>2, <2>3
      <3>2. \A i \in 1 .. k : Out(i) # x
        BY <2>2
      <3>3. 1 .. (k + 1) = (1 .. k) \cup {k + 1}
        OBVIOUS
      <3> QED BY <2>2, <3>1, <3>2, <3>3
    <2>5. x[2] + 1 = k + 1
      BY <2>2
    <2>6. /\ k + 1 \in Nat
          /\ DOMAIN W(k) = DOMAIN R \cup Outs(k)
          /\ \A o \in Outs(k) : W(k)[o] = tx.outputs[o[2] + 1]
          /\ \A o \in DOMAIN R \ Outs(k) : W(k)[o] = R[o]
          /\ DOMAIN W(k + 1) = DOMAIN R \cup Outs(k + 1)
          /\ \A o \in Outs(k + 1) : W(k + 1)[o] = tx.outputs[o[2] + 1]
          /\ \A o \in DOMAIN R \ Outs(k + 1) : W(k + 1)[o] = R[o]
      BY <1>3
    <2> HIDE DEF W, Outs
    <2>7. OneMore(W(k + 1), W(k), x)
      <3>1. DOMAIN W(k + 1) = DOMAIN W(k) \cup {x} /\ x \notin DOMAIN W(k)
        BY <2>4, <2>6
      <3>2. ASSUME NEW o \in DOMAIN W(k) PROVE W(k + 1)[o] = W(k)[o]
        BY <2>4, <2>6
      <3> QED BY <3>1, <3>2 DEF OneMore
    <2>8. W(k + 1)[x] = tx.outputs[k + 1] /\ tx.outputs[k + 1].amount \in Int
      BY <1>2, <2>3, <2>4, <2>5, <2>6
    <2>9. /\ Sound(W(k + 1)) /\ Total(W(k)) \in Int
          /\ Total(W(k + 1)) = Total(W(k)) + tx.outputs[k + 1].amount
      <3>1. Sound(W(k)) /\ W(k + 1)[x].amount \in Int
        BY <2>1, <2>8
      <3> QED BY <2>7, <2>8, <3>1, TotalOfOneMore
    <2>10. SumFunction(V(k + 1)) = SumFunction(V(k)) + tx.outputs[k + 1].amount
      <3>1. /\ DOMAIN V(k) = 1 .. k /\ DOMAIN V(k + 1) = 1 .. (k + 1)
            /\ \A i \in 1 .. k : V(k + 1)[i] = V(k)[i]
            /\ V(k + 1)[k + 1] = tx.outputs[k + 1].amount
        OBVIOUS
      <3>2. \A i \in 1 .. (k + 1) : V(k + 1)[i] \in Int
        <4>1. \A i \in 1 .. (k + 1) : i \in 1 .. n
          OBVIOUS
        <4>2. \A i \in 1 .. (k + 1) : V(k + 1)[i] = tx.outputs[i].amount
          OBVIOUS
        <4> HIDE DEF V
        <4> QED BY <1>2, <4>1, <4>2
      <3> HIDE DEF V
      <3> QED BY <3>1, <3>2, SumOfPrefix
    <2> HIDE DEF V
    <2>11. SumFunction(V(k)) \in Int /\ Total(W(k)) = Total(R) + SumFunction(V(k))
      BY <2>1
    <2> QED BY <1>4, <2>8, <2>9, <2>10, <2>11
  <1>7. Good(n)
    <2>1. n \in K
      <3> HIDE DEF K
      <3> QED BY <1>5, <1>6, NatInductive
    <2> HIDE DEF Good
    <2> QED BY <2>1
  <1>8. Outs(n) = Outpoints(tx)
    BY <1>1 DEF Outpoints
  <1>9. OutputTotal(tx) = SumFunction(V(n))
    BY <1>1 DEF OutputTotal
  <1>10. W(n) = AddOutputs(tx, R)
    BY <1>8 DEF AddOutputs
  <1> HIDE DEF W, V
  <1> QED BY <1>4, <1>7, <1>9, <1>10

\* apply_valid_transaction moves money and burns the fee, nothing else.
LEMMA ApplyConserves ==
    ASSUME NEW U, NEW tx, Sound(U), Shaped(tx), Applicable(tx, U)
    PROVE  /\ Sound(ApplyTransaction(tx, U))
           /\ ValidatedFee(tx, U) # NoFee =>
                 /\ ValidatedFee(tx, U) \in Nat
                 /\ Total(ApplyTransaction(tx, U)) \in Int
                 /\ Total(U) = Total(ApplyTransaction(tx, U)) + ValidatedFee(tx, U)
  <1>1. PICK R : R = [o \in DOMAIN U \ Spent(tx) |-> U[o]]
    OBVIOUS
  <1>2. /\ Sound(R) /\ Total(R) \in Int /\ InputTotal(tx, U) \in Int
        /\ Total(U) = Total(R) + InputTotal(tx, U)
    BY <1>1, TotalWithoutInputs
  <1>3. Outpoints(tx) \cap DOMAIN R = {}
    BY <1>1 DEF Applicable
  <1>4. ApplyTransaction(tx, U) = AddOutputs(tx, R)
    BY <1>1 DEF ApplyTransaction
  <1>5. /\ Sound(AddOutputs(tx, R)) /\ OutputTotal(tx) \in Int
        /\ Total(AddOutputs(tx, R)) = Total(R) + OutputTotal(tx)
    BY <1>2, <1>3, TotalWithOutputs
  <1>6. ValidatedFee(tx, U) # NoFee =>
            /\ InputTotal(tx, U) >= OutputTotal(tx)
            /\ ValidatedFee(tx, U) = InputTotal(tx, U) - OutputTotal(tx)
    BY DEF ValidatedFee
  <1> QED BY <1>2, <1>4, <1>5, <1>6

-----------------------------------------------------------------------------
(* A pool that follows a confirmed state, as a statement about its record.   *)

Entries == [transaction : Transactions, fee : Int, size_bytes : Nat]

Made(entries) == UNION {Outpoints(e.transaction) : e \in ToSet(entries)}

Used(entries) == UNION {Spent(e.transaction) : e \in ToSet(entries)}

Fields == {"confirmed", "seen", "working", "entries", "total_bytes"}

\* Nothing is in the pool twice, or in the pool and confirmed.
Exclusive(entries, seen) ==
    /\ \A i \in DOMAIN entries : entries[i].transaction.txid \notin seen
    /\ \A i, j \in DOMAIN entries :
          i # j => /\ entries[i].transaction.txid # entries[j].transaction.txid
                   /\ Spent(entries[i].transaction)
                          \cap Spent(entries[j].transaction) = {}

\* Every input is there, or made by an entry before.
Backed(entries, utxos) ==
    \A i \in DOMAIN entries : \A o \in Spent(entries[i].transaction) :
        \/ o \in DOMAIN utxos
        \/ \E j \in 1 .. (i - 1) : o \in Outpoints(entries[j].transaction)

Sizes(entries) == [i \in DOMAIN entries |-> entries[i].transaction.size]

Fees(entries) == [i \in DOMAIN entries |-> entries[i].fee]

Bounded(entries, total_bytes) ==
    /\ total_bytes = SumFunction(Sizes(entries))
    /\ total_bytes \in Int
    /\ total_bytes <= MempoolMaxBytes
    /\ Len(entries) <= MempoolMaxTransactions

Balanced(entries, working, utxos) ==
    /\ Sound(working)
    /\ SumFunction(Fees(entries)) \in Int
    /\ Total(working) \in Int
    /\ Total(utxos) = Total(working) + SumFunction(Fees(entries))

Follows(pool, utxos, seen) ==
    /\ DOMAIN pool = Fields
    /\ pool.confirmed = utxos
    /\ pool.seen = seen
    /\ pool.entries \in Seq(Entries)
    /\ Exclusive(pool.entries, seen)
    /\ Backed(pool.entries, utxos)
    /\ DOMAIN pool.working =
          (DOMAIN utxos \cup Made(pool.entries)) \ Used(pool.entries)
    /\ Bounded(pool.entries, pool.total_bytes)
    /\ Balanced(pool.entries, pool.working, utxos)

\* A confirmed state whose outputs are those of confirmed transactions.
Rooted(utxos, seen) == Sound(utxos) /\ \A o \in DOMAIN utxos : o[1] \in seen

\* The transactions offered have the shape the rules rely on.
LEMMA TransactionsShaped ==
    ASSUME NEW tx \in Transactions PROVE Shaped(tx) /\ tx.size \in Nat \ {0}
  <1>1. /\ tx.inputs \in Seq(ToSet(tx.inputs))
        /\ tx.outputs \in Seq(ToSet(tx.outputs))
        /\ \A i \in DOMAIN tx.outputs : tx.outputs[i].amount \in Int
        /\ tx.size \in Nat \ {0}
    BY TransactionShape
  <1>2. DOMAIN tx.inputs = 1 .. Len(tx.inputs) /\ Len(tx.inputs) \in Nat
    BY <1>1
  <1>3. DOMAIN tx.outputs = 1 .. Len(tx.outputs) /\ Len(tx.outputs) \in Nat
    BY <1>1
  <1> QED BY <1>1, <1>2, <1>3 DEF Shaped

\* An empty pool follows the state it was made of.
LEMMA NewFollows ==
    ASSUME NEW st, Rooted(st.utxos, st.seen)
    PROVE  Follows(NewMempool(st), st.utxos, st.seen)
  <1>1. PICK pool : pool = NewMempool(st)
    OBVIOUS
  <1>2. /\ DOMAIN pool = Fields
        /\ pool.confirmed = st.utxos /\ pool.seen = st.seen
        /\ pool.working = st.utxos /\ pool.entries = <<>> /\ pool.total_bytes = 0
    BY <1>1 DEF NewMempool, Fields
  <1>3. /\ pool.entries \in Seq(Entries)
        /\ DOMAIN pool.entries = {} /\ Len(pool.entries) = 0
    BY <1>2
  <1>4. Exclusive(pool.entries, st.seen) /\ Backed(pool.entries, st.utxos)
    BY <1>3 DEF Exclusive, Backed
  <1>5. Made(pool.entries) = {} /\ Used(pool.entries) = {}
    BY <1>3 DEF Made, Used, ToSet
  <1>6. SumFunction(Sizes(pool.entries)) = 0 /\ SumFunction(Fees(pool.entries)) = 0
    <2>1. DOMAIN Sizes(pool.entries) = {} /\ DOMAIN Fees(pool.entries) = {}
      BY <1>3 DEF Sizes, Fees
    <2> QED BY <2>1, SumOfNothing
  <1>7. Bounded(pool.entries, pool.total_bytes)
    BY <1>2, <1>3, <1>6, MempoolLimits DEF Bounded
  <1>8. Balanced(pool.entries, pool.working, st.utxos)
    <2>1. Sound(st.utxos)
      BY DEF Rooted
    <2>2. Total(st.utxos) \in Int
      <3>1. PICK f : f = [o \in DOMAIN st.utxos |-> st.utxos[o].amount]
        OBVIOUS
      <3>2. IsFiniteSet(DOMAIN f) /\ \A o \in DOMAIN f : f[o] \in Int
        BY <2>1, <3>1 DEF Sound
      <3>3. SumFunction(f) \in Int
        BY <3>2, SumType
      <3> QED BY <3>1, <3>3 DEF Total
    <2> QED BY <1>2, <1>6, <2>1, <2>2 DEF Balanced
  <1> QED BY <1>1, <1>2, <1>3, <1>4, <1>5, <1>7, <1>8 DEF Follows

\* add_transaction keeps the pool in step, whether it admits or not.
LEMMA AddFollows ==
    ASSUME NEW pool, NEW utxos, NEW seen, NEW tx \in Transactions,
           Rooted(utxos, seen), Follows(pool, utxos, seen)
    PROVE  Follows(AddTransaction(pool, tx), utxos, seen)
  <1>1. CASE ~Admits(pool, tx)
    BY <1>1 DEF AddTransaction
  <1>2. CASE Admits(pool, tx)
    <2>1. PICK new, e, es, old : /\ new = AddTransaction(pool, tx)
                                 /\ e = [transaction |-> tx,
                                         fee |-> ValidatedFee(tx, pool.working),
                                         size_bytes |-> tx.size]
                                 /\ old = pool.entries
                                 /\ es = Append(old, e)
      OBVIOUS
    <2>2. /\ DOMAIN new = Fields
          /\ new.confirmed = utxos /\ new.seen = seen
          /\ new.entries = es
          /\ new.working = ApplyTransaction(tx, pool.working)
          /\ new.total_bytes = pool.total_bytes + tx.size
      BY <1>2, <2>1 DEF AddTransaction, Follows, Fields
    <2>3. /\ Len(old) < MempoolMaxTransactions
          /\ ValidatedFee(tx, pool.working) # NoFee
          /\ tx.txid \notin seen
          /\ ~HasTransaction(pool, tx.txid)
          /\ pool.total_bytes + tx.size <= MempoolMaxBytes
          /\ Applicable(tx, pool.working)
      BY <1>2, <2>1 DEF Admits, Follows
    <2>4. /\ old \in Seq(Entries)
          /\ Exclusive(old, seen)
          /\ Backed(old, utxos)
          /\ DOMAIN pool.working = (DOMAIN utxos \cup Made(old)) \ Used(old)
          /\ Bounded(old, pool.total_bytes)
          /\ Balanced(old, pool.working, utxos)
      BY <2>1 DEF Follows
    <2>5. Shaped(tx) /\ tx.size \in Nat \ {0}
      BY TransactionsShaped
    <2>6. /\ Sound(new.working)
          /\ e.fee \in Nat
          /\ Total(new.working) \in Int
          /\ Total(pool.working) = Total(new.working) + e.fee
      <3>1. Sound(pool.working)
        BY <2>4 DEF Balanced
      <3>2. e.fee = ValidatedFee(tx, pool.working)
        BY <2>1
      <3> QED BY <2>2, <2>3, <2>5, <3>1, <3>2, ApplyConserves
    <2>7. e \in Entries /\ e.transaction = tx
      BY <2>1, <2>5, <2>6 DEF Entries
    <2>8. PICK n \in Nat : n = Len(old)
      BY <2>4
    <2>9. /\ es \in Seq(Entries) /\ Len(es) = n + 1
          /\ DOMAIN old = 1 .. n /\ DOMAIN es = 1 .. (n + 1)
          /\ \A i \in 1 .. n : es[i] = old[i]
          /\ es[n + 1] = e
      BY <2>1, <2>4, <2>7, <2>8
    <2>10. /\ \A i \in 1 .. n : old[i].transaction.txid # tx.txid
           /\ \A i \in 1 .. n : Spent(old[i].transaction) \subseteq Used(old)
           /\ \A i \in 1 .. n : Outpoints(old[i].transaction) \subseteq Made(old)
      <3>1. \A i \in 1 .. n : old[i].transaction.txid \in PendingTxids(pool)
        BY <2>1, <2>9 DEF PendingTxids, TxidOf, GetTransactions, ToSet
      <3>2. \A i \in 1 .. n : old[i].transaction.txid # tx.txid
        BY <2>3, <3>1 DEF HasTransaction
      <3>3. \A i \in 1 .. n : old[i] \in ToSet(old)
        BY <2>9 DEF ToSet
      <3> QED BY <3>2, <3>3 DEF Used, Made
    <2>11. /\ Spent(tx) \subseteq DOMAIN utxos \cup Made(old)
           /\ Spent(tx) \cap Used(old) = {}
      BY <2>3, <2>4 DEF Applicable
    <2>12. /\ Made(es) = Made(old) \cup Outpoints(tx)
           /\ Used(es) = Used(old) \cup Spent(tx)
      <3>1. ToSet(es) = ToSet(old) \cup {e}
        <4>1. 1 .. (n + 1) = (1 .. n) \cup {n + 1}
          OBVIOUS
        <4> QED BY <2>9, <4>1 DEF ToSet
      <3> QED BY <2>7, <3>1 DEF Made, Used
    <2>13. \A o \in Outpoints(tx) :
              o \notin DOMAIN utxos /\ o \notin Made(old) /\ o[1] = tx.txid
      <3>1. \A o \in Outpoints(tx) : o[1] = tx.txid
        BY DEF Outpoints
      <3>2. \A o \in DOMAIN utxos : o[1] # tx.txid
        BY <2>3 DEF Rooted
      <3>3. \A o \in Made(old) : \E i \in 1 .. n : o[1] = old[i].transaction.txid
        <4>1. \A i \in 1 .. n : \A o \in Outpoints(old[i].transaction) :
                  o[1] = old[i].transaction.txid
          BY DEF Outpoints
        <4>2. \A d \in ToSet(old) : \E i \in 1 .. n : d = old[i]
          BY <2>9 DEF ToSet
        <4> QED BY <4>1, <4>2 DEF Made
      <3> QED BY <2>10, <3>1, <3>2, <3>3
    <2>14. Used(old) \subseteq DOMAIN utxos \cup Made(old)
      <3>1. \A d \in ToSet(old) : \E i \in 1 .. n : d = old[i]
        BY <2>9 DEF ToSet
      <3>2. \A i \in 1 .. n : \A o \in Spent(old[i].transaction) :
                o \in DOMAIN utxos \cup Made(old)
        <4>1. \A i \in 1 .. n : \A j \in 1 .. (i - 1) : j \in 1 .. n
          OBVIOUS
        <4> QED BY <2>4, <2>9, <2>10, <4>1 DEF Backed
      <3> QED BY <3>1, <3>2 DEF Used
    <2>15. DOMAIN new.working = (DOMAIN utxos \cup Made(es)) \ Used(es)
      <3>1. DOMAIN new.working = (DOMAIN pool.working \ Spent(tx)) \cup Outpoints(tx)
        BY <2>2 DEF ApplyTransaction, AddOutputs
      <3>2. Outpoints(tx) \cap Used(old) = {} /\ Outpoints(tx) \cap Spent(tx) = {}
        BY <2>11, <2>13, <2>14
      <3> QED BY <2>4, <2>12, <3>1, <3>2
    <2>16. Exclusive(es, seen)
      <3>1. ASSUME NEW i \in 1 .. (n + 1) PROVE es[i].transaction.txid \notin seen
        <4>1. CASE i = n + 1
          BY <2>3, <2>7, <2>9, <4>1
        <4>2. CASE i \in 1 .. n
          BY <2>4, <2>9, <4>2 DEF Exclusive
        <4> QED BY <4>1, <4>2
      <3>2. ASSUME NEW i \in 1 .. n
            PROVE  /\ es[i].transaction.txid # tx.txid
                   /\ Spent(es[i].transaction) \cap Spent(tx) = {}
        BY <2>9, <2>10, <2>11
      <3>3. ASSUME NEW i \in 1 .. (n + 1), NEW j \in 1 .. (n + 1), i # j
            PROVE  /\ es[i].transaction.txid # es[j].transaction.txid
                   /\ Spent(es[i].transaction) \cap Spent(es[j].transaction) = {}
        <4>1. CASE i \in 1 .. n /\ j \in 1 .. n
          BY <2>4, <2>9, <3>3, <4>1 DEF Exclusive
        <4>2. CASE i = n + 1 /\ j \in 1 .. n
          BY <2>7, <2>9, <3>2, <4>2
        <4>3. CASE j = n + 1 /\ i \in 1 .. n
          BY <2>7, <2>9, <3>2, <4>3
        <4> QED BY <3>3, <4>1, <4>2, <4>3
      <3> QED BY <2>9, <3>1, <3>3 DEF Exclusive
    <2>17. Backed(es, utxos)
      <3>1. ASSUME NEW i \in 1 .. n, NEW o \in Spent(es[i].transaction)
            PROVE  \/ o \in DOMAIN utxos
                   \/ \E j \in 1 .. (i - 1) : o \in Outpoints(es[j].transaction)
        <4>1. \A j \in 1 .. (i - 1) : es[j] = old[j]
          BY <2>9
        <4> QED BY <2>4, <2>9, <4>1 DEF Backed
      <3>2. ASSUME NEW o \in Spent(tx)
            PROVE  \/ o \in DOMAIN utxos
                   \/ \E j \in 1 .. n : o \in Outpoints(es[j].transaction)
        <4>1. \A d \in ToSet(old) : \E j \in 1 .. n : d = es[j]
          BY <2>9 DEF ToSet
        <4> QED BY <2>11, <4>1 DEF Made
      <3>3. ASSUME NEW i \in 1 .. (n + 1), NEW o \in Spent(es[i].transaction)
            PROVE  \/ o \in DOMAIN utxos
                   \/ \E j \in 1 .. (i - 1) : o \in Outpoints(es[j].transaction)
        <4>1. CASE i = n + 1
          <5>1. es[i].transaction = tx /\ i - 1 = n
            BY <2>7, <2>9, <4>1
          <5> QED BY <3>2, <5>1
        <4>2. CASE i \in 1 .. n
          BY <3>1, <4>2
        <4> QED BY <4>1, <4>2
      <3> QED BY <2>9, <3>3 DEF Backed
    <2>18. Bounded(es, new.total_bytes)
      <3>1. \A d \in Entries : d.transaction.size \in Int
        BY TransactionsShaped DEF Entries
      <3>2. /\ DOMAIN Sizes(old) = 1 .. n /\ DOMAIN Sizes(es) = 1 .. (n + 1)
            /\ \A i \in 1 .. n : Sizes(es)[i] = Sizes(old)[i]
            /\ Sizes(es)[n + 1] = tx.size
        BY <2>7, <2>9 DEF Sizes
      <3>3. \A i \in 1 .. (n + 1) : Sizes(es)[i] \in Int
        BY <2>9, <3>1 DEF Sizes
      <3>4. SumFunction(Sizes(es)) = SumFunction(Sizes(old)) + tx.size
        BY <3>2, <3>3, SumOfPrefix
      <3>5. /\ pool.total_bytes = SumFunction(Sizes(old)) /\ pool.total_bytes \in Int
        BY <2>4 DEF Bounded
      <3>6. n < MempoolMaxTransactions => n + 1 <= MempoolMaxTransactions
        BY MempoolLimits
      <3> QED BY <2>2, <2>3, <2>5, <2>8, <2>9, <3>4, <3>5, <3>6 DEF Bounded
    <2>19. Balanced(es, new.working, utxos)
      <3>1. \A d \in Entries : d.fee \in Int
        BY DEF Entries
      <3>2. /\ DOMAIN Fees(old) = 1 .. n /\ DOMAIN Fees(es) = 1 .. (n + 1)
            /\ \A i \in 1 .. n : Fees(es)[i] = Fees(old)[i]
            /\ Fees(es)[n + 1] = e.fee
        BY <2>9 DEF Fees
      <3>3. \A i \in 1 .. (n + 1) : Fees(es)[i] \in Int
        BY <2>9, <3>1 DEF Fees
      <3>4. SumFunction(Fees(es)) = SumFunction(Fees(old)) + e.fee
        BY <3>2, <3>3, SumOfPrefix
      <3>5. /\ SumFunction(Fees(old)) \in Int
            /\ Total(utxos) = Total(pool.working) + SumFunction(Fees(old))
        BY <2>4 DEF Balanced
      <3>6. /\ SumFunction(Fees(es)) \in Int
            /\ Total(utxos) = Total(new.working) + SumFunction(Fees(es))
        BY <2>6, <3>4, <3>5
      <3> QED BY <2>6, <3>6 DEF Balanced
    <2> QED BY <2>1, <2>2, <2>9, <2>15, <2>16, <2>17, <2>18, <2>19 DEF Follows
  <1> QED BY <1>1, <1>2

-----------------------------------------------------------------------------
(* The loops that rebuild a pool, round by round.                            *)

\* h[k] is the new pool after k rounds.
RebuildRounds(h, txs, passed_over, st, n) ==
    /\ h[0] = NewMempool(st)
    /\ \A k \in 1 .. n : h[k] = ReadmitNext(passed_over, h[k - 1], txs[k])
    /\ Rebuild(txs, passed_over, st) = h[n]

\* The rebuilding of a pool is a sequence of rounds.
LEMMA RebuildSteps ==
    ASSUME NEW st, NEW txs, NEW passed_over, NEW n \in Nat, DOMAIN txs = 1 .. n
    PROVE  \E h : RebuildRounds(h, txs, passed_over, st, n)
  <1> DEFINE base == NewMempool(st)
  <1>0. PICK start : start = base
    OBVIOUS
  <1> HIDE DEF base
  <1> DEFINE Body(f, S) == IF S = {} THEN start
                           ELSE ReadmitNext(passed_over, f[S \ {Max(S)}], txs[Max(S)])
             Iter(f, k) == f = [S \in SUBSET (1 .. k) |-> Body(f, S)]
             T == {k \in Nat : \E f : Iter(f, k)}
  <1>1. 0 \in T
    <2> DEFINE f == [S \in SUBSET (1 .. 0) |-> start]
    <2>1. SUBSET (1 .. 0) = {{}}
      OBVIOUS
    <2>2. Iter(f, 0)
      BY <2>1
    <2> QED BY <2>2
  <1>2. ASSUME NEW k \in Nat, k \in T PROVE k + 1 \in T
    <2>1. PICK f : Iter(f, k)
      BY <1>2
    <2> DEFINE g == [S \in SUBSET (1 .. (k + 1)) |->
                        IF k + 1 \notin S THEN f[S]
                        ELSE ReadmitNext(passed_over, f[S \ {k + 1}], txs[k + 1])]
    <2>2. /\ \A S \in SUBSET (1 .. (k + 1)) :
                g[S] = IF k + 1 \notin S THEN f[S]
                       ELSE ReadmitNext(passed_over, f[S \ {k + 1}], txs[k + 1])
          /\ g = [S \in SUBSET (1 .. (k + 1)) |-> g[S]]
      OBVIOUS
    <2>3. \A S \in SUBSET (1 .. k) :
              f[S] = IF S = {} THEN start
                     ELSE ReadmitNext(passed_over, f[S \ {Max(S)}], txs[Max(S)])
      BY <2>1
    <2> HIDE DEF g, T, Iter
    <2>4. ASSUME NEW S \in SUBSET (1 .. (k + 1))
          PROVE  g[S] = IF S = {} THEN start
                        ELSE ReadmitNext(passed_over, g[S \ {Max(S)}], txs[Max(S)])
      <3>1. CASE k + 1 \notin S
        <4>1. S \in SUBSET (1 .. k)
          BY <3>1
        <4>2. S \ {Max(S)} \in SUBSET (1 .. (k + 1)) /\ k + 1 \notin S \ {Max(S)}
          BY <3>1
        <4>3. g[S] = f[S] /\ g[S \ {Max(S)}] = f[S \ {Max(S)}]
          BY <2>2, <3>1, <4>2
        <4> QED BY <2>3, <4>1, <4>3
      <3>2. CASE k + 1 \in S
        <4>0. k + 1 \in Nat /\ S # {} /\ S \subseteq 1 .. (k + 1)
          BY <3>2
        <4>1. Max(S) \in S /\ \A y \in S : Max(S) >= y
          BY <4>0, MaxOfInterval, Zenon
        <4>2. Max(S) = k + 1
          <5>1. Max(S) \in 1 .. (k + 1) /\ Max(S) >= k + 1
            BY <3>2, <4>0, <4>1, Zenon
          <5> QED BY <5>1
        <4>3. S \ {k + 1} \in SUBSET (1 .. (k + 1)) /\ k + 1 \notin S \ {k + 1}
          OBVIOUS
        <4>4. g[S \ {k + 1}] = f[S \ {k + 1}]
          BY <2>2, <4>3, Zenon
        <4>5. g[S] = ReadmitNext(passed_over, f[S \ {k + 1}], txs[k + 1])
          BY <2>2, <3>2, Zenon
        <4>6. S # {}
          BY <3>2
        <4> QED BY <4>2, <4>4, <4>5, <4>6
      <3> QED BY <3>1, <3>2
    <2>5. \A S \in SUBSET (1 .. (k + 1)) : g[S] = Body(g, S)
      BY <2>4
    <2> HIDE DEF Body
    <2>6. g = [S \in SUBSET (1 .. (k + 1)) |-> Body(g, S)]
      BY <2>2, <2>5, Zenon
    <2>7. Iter(g, k + 1)
      BY <2>6 DEF Iter
    <2> QED BY <2>7 DEF T
  <1>3. n \in T
    <2> HIDE DEF T
    <2> QED BY <1>1, <1>2, NatInductive
  <1> DEFINE iter == CHOOSE f : Iter(f, n)
             h == [k \in 0 .. n |-> iter[1 .. k]]
  <1>4. Iter(iter, n)
    BY <1>3
  <1>5. Rebuild(txs, passed_over, st) = iter[1 .. n]
    BY <1>0, Zenon DEF Rebuild, FoldLeft, MapThenFoldSet, base
  <1> HIDE DEF iter
  <1>6. h[0] = start
    <2>1. 1 .. 0 = {} /\ {} \in SUBSET (1 .. n)
      OBVIOUS
    <2> QED BY <1>4, <2>1
  <1>7. ASSUME NEW k \in 1 .. n PROVE h[k] = ReadmitNext(passed_over, h[k - 1], txs[k])
    <2>1. 1 .. k \in SUBSET (1 .. n) /\ 1 .. k # {} /\ k \in 0 .. n /\ k - 1 \in 0 .. n
      BY FirstPlaces
    <2>2. Max(1 .. k) \in 1 .. k /\ \A y \in 1 .. k : Max(1 .. k) >= y
      BY <2>1, MaxOfInterval
    <2>3. Max(1 .. k) = k
      BY <2>2
    <2>4. (1 .. k) \ {k} = 1 .. (k - 1)
      OBVIOUS
    <2>5. iter[1 .. k] = ReadmitNext(passed_over, iter[1 .. (k - 1)], txs[k])
      BY <1>4, <2>1, <2>3, <2>4
    <2> QED BY <2>1, <2>5
  <1>8. n \in 0 .. n
    OBVIOUS
  <1>9. RebuildRounds(h, txs, passed_over, st, n)
    BY <1>0, <1>5, <1>6, <1>7, <1>8 DEF RebuildRounds, base
  <1> QED BY <1>9, Zenon

\* A rebuilt pool follows the state it is rebuilt on.
LEMMA RebuildFollows ==
    ASSUME NEW st, NEW txs, NEW passed_over, NEW n \in Nat, DOMAIN txs = 1 .. n,
           \A k \in 1 .. n : txs[k] \in Transactions,
           Rooted(st.utxos, st.seen)
    PROVE  Follows(Rebuild(txs, passed_over, st), st.utxos, st.seen)
  <1>1. PICK h : RebuildRounds(h, txs, passed_over, st, n)
    BY RebuildSteps, Zenon
  <1> DEFINE K == {k \in Nat : k <= n => Follows(h[k], st.utxos, st.seen)}
  <1>2. 0 \in K
    BY <1>1, NewFollows DEF RebuildRounds
  <1>3. ASSUME NEW k \in Nat, k \in K PROVE k + 1 \in K
    <2> SUFFICES ASSUME k + 1 <= n PROVE Follows(h[k + 1], st.utxos, st.seen)
      OBVIOUS
    <2>1. Follows(h[k], st.utxos, st.seen)
      BY <1>3
    <2>2. k + 1 \in 1 .. n /\ (k + 1) - 1 = k
      OBVIOUS
    <2>3. h[k + 1] = ReadmitNext(passed_over, h[k], txs[k + 1])
      BY <1>1, <2>2 DEF RebuildRounds
    <2>4. txs[k + 1] \in Transactions
      BY <2>2
    <2>5. Follows(AddTransaction(h[k], txs[k + 1]), st.utxos, st.seen)
      BY <2>1, <2>4, AddFollows
    <2> QED BY <2>1, <2>3, <2>5 DEF ReadmitNext
  <1>4. n \in K
    <2> HIDE DEF K
    <2> QED BY <1>2, <1>3, NatInductive
  <1> QED BY <1>1, <1>4 DEF RebuildRounds

\* The transactions of a pool, as the loops read them.
LEMMA PoolTransactions ==
    ASSUME NEW pool, pool.entries \in Seq(Entries)
    PROVE  \E n \in Nat : /\ DOMAIN GetTransactions(pool) = 1 .. n
                          /\ \A k \in 1 .. n : GetTransactions(pool)[k] \in Transactions
  <1>1. Len(pool.entries) \in Nat /\ DOMAIN pool.entries = 1 .. Len(pool.entries)
    OBVIOUS
  <1>2. \A k \in DOMAIN pool.entries : pool.entries[k].transaction \in Transactions
    <2>1. \A k \in DOMAIN pool.entries : pool.entries[k] \in Entries
      BY <1>1
    <2> QED BY <2>1 DEF Entries
  <1> QED BY <1>1, <1>2 DEF GetTransactions

-----------------------------------------------------------------------------
(* The confirmed state stays sound.                                          *)

\* The amounts of a finite UTXO set add up to an integer.
LEMMA TotalType ==
    ASSUME NEW U, Sound(U) PROVE Total(U) \in Int
  <1>1. PICK f : f = [o \in DOMAIN U |-> U[o].amount]
    OBVIOUS
  <1>2. IsFiniteSet(DOMAIN f) /\ \A y \in DOMAIN f : f[y] \in Int
    BY <1>1 DEF Sound
  <1> QED BY <1>1, <1>2, SumType DEF Total

\* A batch that applies leaves finitely many outputs with integer amounts, and
\* what is missing from them is the fees.
LEMMA BatchConserves ==
    ASSUME NEW st, NEW txs, NEW n \in Nat, DOMAIN txs = 1 .. n,
           \A k \in 1 .. n : Shaped(txs[k]),
           Sound(st.utxos), ApplyTransactions(txs, st).ok
    PROVE  LET batch == ApplyTransactions(txs, st)
           IN  /\ Sound(batch.utxos) /\ batch.fees \in Nat
               /\ Total(st.utxos) = Total(batch.utxos) + batch.fees
  <1>0. PICK h : ApplyRounds(h, txs, st, n)
    BY ApplySteps, Zenon
  <1>1. /\ h[0] = [ok |-> TRUE, utxos |-> st.utxos, seen |-> st.seen, fees |-> 0]
        /\ \A k \in 1 .. n : h[k] = ApplyNext(h[k - 1], txs[k])
        /\ ApplyTransactions(txs, st) = h[n]
    BY <1>0, Zenon DEF ApplyRounds
  <1> DEFINE Kept(b) == /\ Sound(b.utxos) /\ b.fees \in Nat
                        /\ Total(st.utxos) = Total(b.utxos) + b.fees
             Good(k) == "ok" \in DOMAIN h[k] /\ (h[k].ok => Kept(h[k]))
             K == {k \in Nat : k <= n => Good(k)}
  <1>2. 0 \in K
    <2>1. "ok" \in DOMAIN h[0] /\ h[0].utxos = st.utxos /\ h[0].fees = 0
      BY <1>1
    <2>2. Total(st.utxos) \in Int
      BY TotalType
    <2> QED BY <2>1, <2>2
  <1>3. ASSUME NEW k \in Nat, k \in K PROVE k + 1 \in K
    <2> SUFFICES ASSUME k + 1 <= n PROVE Good(k + 1)
      OBVIOUS
    <2>1. Good(k)
      BY <1>3
    <2>2. PICK tx, old, new : /\ tx = txs[k + 1] /\ old = h[k] /\ new = h[k + 1]
      OBVIOUS
    <2>3. new = ApplyNext(old, tx) /\ Shaped(tx)
      BY <1>1, <2>2
    <2>4. "ok" \in DOMAIN new
      BY <2>1, <2>2, <2>3, ApplyNextFacts
    <2>5. ASSUME new.ok PROVE Kept(new)
      <3>1. /\ old.ok
            /\ ValidatedFee(tx, old.utxos) # NoFee
            /\ Applicable(tx, old.utxos)
            /\ new.utxos = ApplyTransaction(tx, old.utxos)
            /\ new.fees = old.fees + ValidatedFee(tx, old.utxos)
        BY <2>1, <2>2, <2>3, <2>5, ApplyNextFacts
      <3>2. Kept(old)
        BY <2>1, <2>2, <3>1
      <3>3. /\ Sound(new.utxos) /\ ValidatedFee(tx, old.utxos) \in Nat
            /\ Total(new.utxos) \in Int
            /\ Total(old.utxos) = Total(new.utxos) + ValidatedFee(tx, old.utxos)
        BY <2>3, <3>1, <3>2, ApplyConserves
      <3>4. Total(st.utxos) = Total(new.utxos) + new.fees /\ new.fees \in Nat
        BY <3>1, <3>2, <3>3
      <3> QED BY <3>3, <3>4
    <2> HIDE DEF Kept
    <2> QED BY <2>2, <2>4, <2>5
  <1>4. n \in K
    <2> HIDE DEF K
    <2> QED BY <1>2, <1>3, NatInductive
  <1> QED BY <1>1, <1>4

\* Coinbases have that shape too.
LEMMA CoinbaseShaped ==
    ASSUME NEW tx \in Coinbases PROVE Shaped(tx) /\ DOMAIN tx.outputs = {1}
  <1>1. PICK a \in Addresses, t \in Times, r \in Rewards : tx = CreateCoinbase(a, t, r)
    BY SMT DEF Coinbases
  <1>2. r \in Int
    BY RewardsAssumption
  <1>3. /\ tx.inputs = <<>>
        /\ tx.outputs = <<[amount |-> r, recipient |-> a]>>
    BY <1>1 DEF CreateCoinbase
  <1>4. DOMAIN tx.inputs = 1 .. 0 /\ DOMAIN tx.outputs = 1 .. 1
    BY <1>3
  <1>5. \A i \in 1 .. 1 : tx.outputs[i].amount \in Int
    BY <1>2, <1>3
  <1> QED BY <1>4, <1>5 DEF Shaped

\* A block that is accepted leaves finitely many outputs with integer amounts,
\* and makes no more than the subsidy.
LEMMA BlockConserves ==
    ASSUME NEW st, NEW block, Sound(st.utxos),
           block.transactions \in Seq(Transactions \cup Coinbases),
           ValidateBody(block), ApplyBlockTransactions(block, st).ok
    PROVE  /\ Sound(StateAfter(st, block).utxos)
           /\ Total(StateAfter(st, block).utxos) <= Total(st.utxos) + BLOCK_SUBSIDY
  <1> DEFINE S == Transactions \cup Coinbases
  <1>0. PICK body, n, batch : /\ body = block.transactions
                              /\ n = Len(body) - 1
                              /\ batch = ApplyTransactions(Tail(body), st)
    OBVIOUS
  <1>1. body \in Seq(S) /\ body # <<>>
    BY <1>0 DEF ValidateBody
  <1>2. \A tx \in S : Shaped(tx) /\ (Len(tx.outputs) = 1 => DOMAIN tx.outputs = {1})
    <2>1. \A tx \in Transactions : Len(tx.outputs) = 1 => DOMAIN tx.outputs = {1}
      BY TransactionShape
    <2> QED BY <2>1, TransactionsShaped, CoinbaseShaped
  <1> HIDE DEF S
  <1>3. /\ Len(body) \in Nat \ {0}
        /\ DOMAIN body = 1 .. Len(body)
        /\ Head(body) = body[1]
        /\ DOMAIN Tail(body) = 1 .. (Len(body) - 1)
        /\ \A k \in 1 .. (Len(body) - 1) : Tail(body)[k] = body[k + 1]
    BY <1>1, BodyFacts
  <1>4. /\ n \in Nat
        /\ DOMAIN Tail(body) = 1 .. n
        /\ \A k \in 1 .. n : Shaped(Tail(body)[k])
        /\ Shaped(body[1])
        /\ Len(body[1].outputs) = 1 => DOMAIN body[1].outputs = {1}
    <2>1. n \in Nat /\ Len(body) = n + 1
      BY <1>0, <1>3
    <2>2. \A k \in 1 .. (n + 1) : body[k] \in S
      BY <1>1, <2>1
    <2>3. \A k \in 1 .. n : Tail(body)[k] = body[k + 1] /\ k + 1 \in 1 .. (n + 1)
      BY <1>3, <2>1
    <2>4. 1 \in 1 .. (n + 1)
      BY <2>1
    <2> QED BY <1>0, <1>2, <1>3, <2>1, <2>2, <2>3, <2>4
  <1>5. /\ batch.ok
        /\ Outpoints(body[1]) \cap DOMAIN batch.utxos = {}
        /\ StateAfter(st, block).utxos = AddOutputs(body[1], batch.utxos)
        /\ ValidateCoinbase(body[1], block.timestamp, batch.fees)
    BY <1>0, <1>3 DEF ApplyBlockTransactions, StateAfter
  <1>6. /\ Sound(batch.utxos) /\ batch.fees \in Nat
        /\ Total(st.utxos) = Total(batch.utxos) + batch.fees
    BY <1>0, <1>4, <1>5, BatchConserves
  <1>7. /\ Sound(AddOutputs(body[1], batch.utxos))
        /\ Total(batch.utxos) \in Int /\ OutputTotal(body[1]) \in Int
        /\ Total(AddOutputs(body[1], batch.utxos))
              = Total(batch.utxos) + OutputTotal(body[1])
    BY <1>4, <1>5, <1>6, TotalWithOutputs
  <1>8. OutputTotal(body[1]) <= BLOCK_SUBSIDY + batch.fees
    <2>1. PICK c, f, e : /\ c = body[1] /\ e = [i \in {} |-> 0]
                         /\ f = [i \in DOMAIN c.outputs |-> c.outputs[i].amount]
      OBVIOUS
    <2>2. Len(c.outputs) = 1 /\ c.outputs[1].amount <= BLOCK_SUBSIDY + batch.fees
      BY <1>5, <2>1 DEF ValidateCoinbase, ValidateCoinbaseStructure
    <2>3. DOMAIN c.outputs = {1}
      BY <1>4, <2>1, <2>2
    <2>4. DOMAIN f = DOMAIN e \cup {1} /\ DOMAIN e = {} /\ f[1] = c.outputs[1].amount
      BY <2>1, <2>3
    <2>5. f[1] \in Int
      BY <1>4, <2>1, <2>3, <2>4 DEF Shaped
    <2>6. SumFunction(f) = SumFunction(e) + f[1]
      BY <2>4, <2>5, FS_EmptySet, SumOfOneMore
    <2>7. SumFunction(e) = 0
      BY <2>4, SumOfNothing
    <2>8. OutputTotal(c) = SumFunction(f)
      BY <2>1 DEF OutputTotal
    <2> QED BY <2>1, <2>2, <2>4, <2>5, <2>6, <2>7, <2>8
  <1>9. BLOCK_SUBSIDY \in Nat
    BY DEF BLOCK_SUBSIDY
  <1> QED BY <1>5, <1>6, <1>7, <1>8, <1>9

\* A UTXO set with a history has only outputs of confirmed transactions.
LEMMA HistoryRooted ==
    ASSUME NEW T, NEW Ps, NEW utxos, NEW seen, History(T, Ps, utxos, seen),
           Sound(utxos)
    PROVE  Rooted(utxos, seen)
  <1>1. \A p \in Ps : \A o \in Outpoints(T[p]) : o[1] = T[p].txid
    BY DEF Outpoints
  <1>2. DOMAIN utxos \subseteq Created(T, Ps) /\ seen = {T[p].txid : p \in Ps}
    BY DEF History
  <1> QED BY <1>1, <1>2 DEF Rooted, Created

-----------------------------------------------------------------------------
(* A chain that has been replayed can be replayed with one more block.       *)

\* A chain that replays does so with one more accepted block.
LEMMA ReplayGrows ==
    ASSUME NEW S, NEW chain \in Seq(S), NEW sts, NEW time,
           NEW block \in Candidates(chain),
           Len(chain) >= 1, Replayed(chain, sts),
           Accepts(chain, sts[Len(chain)], time, block)
    PROVE  \E new : /\ Replayed(Append(chain, block), new)
                    /\ new[Len(chain) + 1] = StateAfter(sts[Len(chain)], block)
  <1>0. PICK n, st, longer : /\ n = Len(chain) /\ st = sts[n]
                             /\ longer = Append(chain, block)
    OBVIOUS
  <1>1. /\ n \in Nat /\ n >= 1
        /\ Len(longer) = n + 1
        /\ \A i \in 1 .. n : longer[i] = chain[i]
        /\ longer[n + 1] = block
        /\ DOMAIN chain = 1 .. n
    BY <1>0, AppendFacts
  <1>2. /\ ValidBlock(block, chain[n], st, time)
        /\ \A i \in 1 .. n : BlockHash(chain[i]) # BlockHash(block)
    BY <1>0, <1>1 DEF Accepts
  <1>3. block.timestamp \in Nat
    BY CandidateFacts
  <1>4. ValidBlock(block, chain[n], st, block.timestamp)
    <2>1. block.timestamp <= block.timestamp + MAX_FUTURE_BLOCK_TIME
      BY <1>3, FutureAssumption
    <2> QED BY <1>2, <2>1 DEF ValidBlock, ValidateBlockHeader
  <1>5. PICK new : new = [i \in 1 .. (n + 1) |->
                             IF i = n + 1 THEN StateAfter(st, block) ELSE sts[i]]
    OBVIOUS
  <1>6. new[n + 1] = StateAfter(st, block) /\ \A i \in 1 .. n : new[i] = sts[i]
    BY <1>1, <1>5
  <1>7. longer[1] = GENESIS /\ new[1] = EmptyState
    BY <1>1, <1>6 DEF Replayed
  <1>8. ASSUME NEW i \in 2 .. (n + 1)
        PROVE  /\ longer[i].timestamp \in Nat
               /\ ValidBlock(longer[i], longer[i - 1], new[i - 1], longer[i].timestamp)
               /\ \A j \in 1 .. (i - 1) : BlockHash(longer[j]) # BlockHash(longer[i])
               /\ new[i] = StateAfter(new[i - 1], longer[i])
    <2>1. CASE i = n + 1
      <3>1. /\ longer[i] = block /\ longer[i - 1] = chain[n]
            /\ new[i - 1] = st /\ new[i] = StateAfter(st, block)
        BY <1>0, <1>1, <1>6, <2>1
      <3>2. \A j \in 1 .. (i - 1) : longer[j] = chain[j] /\ j \in 1 .. n
        BY <1>1, <2>1
      <3> QED BY <1>2, <1>3, <1>4, <3>1, <3>2
    <2>2. CASE i # n + 1
      <3>1. /\ i \in 2 .. n /\ i - 1 \in 1 .. n
            /\ \A j \in 1 .. (i - 1) : j \in 1 .. n
        BY <1>1, <2>2
      <3>2. /\ longer[i] = chain[i] /\ longer[i - 1] = chain[i - 1]
            /\ new[i] = sts[i] /\ new[i - 1] = sts[i - 1]
            /\ \A j \in 1 .. (i - 1) : longer[j] = chain[j]
        BY <1>1, <1>6, <3>1
      <3> QED BY <1>0, <3>1, <3>2 DEF Replayed
    <2> QED BY <2>1, <2>2
  <1>9. Replayed(longer, new)
    BY <1>1, <1>7, <1>8 DEF Replayed
  <1> QED BY <1>0, <1>6, <1>9

-----------------------------------------------------------------------------
(* A pool that is saved as the list of its transactions comes back the same  *)
(* when the list is offered to a new pool over the same confirmed state.     *)

IsState(st) == st = [utxos |-> st.utxos, seen |-> st.seen]

IsPool(pool) ==
    pool = [confirmed |-> pool.confirmed, seen |-> pool.seen,
            working |-> pool.working, entries |-> pool.entries,
            total_bytes |-> pool.total_bytes]

Reloads(pool, st) ==
    /\ IsPool(pool)
    /\ \E S : pool.entries \in Seq(S)
    /\ pool.confirmed = st.utxos /\ pool.seen = st.seen
    /\ pool = Readmit(GetTransactions(pool), st)

\* One more transaction is one more round.
LEMMA RebuildOneMore ==
    ASSUME NEW st, NEW passed_over, NEW txs, NEW more, NEW n \in Nat,
           DOMAIN txs = 1 .. n, DOMAIN more = 1 .. (n + 1),
           \A k \in 1 .. n : more[k] = txs[k]
    PROVE  Rebuild(more, passed_over, st) =
               ReadmitNext(passed_over, Rebuild(txs, passed_over, st), more[n + 1])
  <1>1. PICK h : RebuildRounds(h, txs, passed_over, st, n)
    BY RebuildSteps, Zenon
  <1>2. n + 1 \in Nat
    OBVIOUS
  <1>3. PICK g : RebuildRounds(g, more, passed_over, st, n + 1)
    BY <1>2, RebuildSteps, Zenon
  <1> DEFINE K == {k \in Nat : k <= n => g[k] = h[k]}
  <1>4. 0 \in K
    BY <1>1, <1>3 DEF RebuildRounds
  <1>5. ASSUME NEW k \in Nat, k \in K PROVE k + 1 \in K
    <2> SUFFICES ASSUME k + 1 <= n PROVE g[k + 1] = h[k + 1]
      OBVIOUS
    <2>1. k + 1 \in 1 .. n /\ k + 1 \in 1 .. (n + 1) /\ (k + 1) - 1 = k
      OBVIOUS
    <2>2. g[k] = h[k] /\ more[k + 1] = txs[k + 1]
      BY <1>5, <2>1
    <2>3. /\ h[k + 1] = ReadmitNext(passed_over, h[k], txs[k + 1])
          /\ g[k + 1] = ReadmitNext(passed_over, g[k], more[k + 1])
      BY <1>1, <1>3, <2>1 DEF RebuildRounds
    <2> QED BY <2>2, <2>3
  <1>6. n \in K
    <2> HIDE DEF K
    <2> QED BY <1>4, <1>5, NatInductive
  <1>7. n + 1 \in 1 .. (n + 1) /\ (n + 1) - 1 = n /\ g[n] = h[n]
    BY <1>6
  <1> QED BY <1>1, <1>3, <1>7 DEF RebuildRounds

\* A pool rebuilt from nothing is empty.
LEMMA RebuildNothing ==
    ASSUME NEW st, NEW passed_over, NEW txs, DOMAIN txs = {}
    PROVE  Rebuild(txs, passed_over, st) = NewMempool(st)
  <1>1. 0 \in Nat /\ DOMAIN txs = 1 .. 0
    OBVIOUS
  <1>2. PICK h : RebuildRounds(h, txs, passed_over, st, 0)
    BY <1>1, RebuildSteps, Zenon
  <1> QED BY <1>2 DEF RebuildRounds

\* The empty pool is saved as no rows and read back as it was.
LEMMA NewReloads ==
    ASSUME NEW st
    PROVE  /\ Reloads(NewMempool(st), st)
           /\ GetTransactions(NewMempool(st)) = <<>>
  <1>1. PICK pool : pool = NewMempool(st)
    OBVIOUS
  <1>2. IsPool(pool)
    BY <1>1 DEF IsPool, NewMempool
  <1>3. /\ pool.confirmed = st.utxos /\ pool.seen = st.seen /\ pool.entries = <<>>
    BY <1>1 DEF NewMempool
  <1>4. pool.entries \in Seq({}) /\ DOMAIN pool.entries = {}
    BY <1>3
  <1>5. GetTransactions(pool) = <<>>
    BY <1>4 DEF GetTransactions
  <1>6. pool = Readmit(GetTransactions(pool), st)
    <2>1. DOMAIN GetTransactions(pool) = {}
      BY <1>5
    <2> QED BY <1>1, <2>1, RebuildNothing DEF Readmit
  <1> QED BY <1>1, <1>2, <1>3, <1>4, <1>5, <1>6 DEF Reloads

\* A pool that reloads does so with one more transaction.
LEMMA AddReloads ==
    ASSUME NEW pool, NEW st, NEW tx, Reloads(pool, st)
    PROVE  Reloads(AddTransaction(pool, tx), st)
  <1>1. CASE ~Admits(pool, tx)
    BY <1>1 DEF AddTransaction
  <1>2. CASE Admits(pool, tx)
    <2>1. PICK e : e = [transaction |-> tx, fee |-> ValidatedFee(tx, pool.working),
                        size_bytes |-> tx.size]
      OBVIOUS
    <2>2. PICK new : new = AddTransaction(pool, tx)
      OBVIOUS
    <2>3. new = [pool EXCEPT !.entries = Append(@, e),
                             !.working = ApplyTransaction(tx, @),
                             !.total_bytes = @ + tx.size]
      BY <1>2, <2>1, <2>2 DEF AddTransaction
    <2>4. /\ IsPool(new)
          /\ new.confirmed = pool.confirmed /\ new.seen = pool.seen
          /\ new.entries = Append(pool.entries, e)
      <3>1. IsPool(pool)
        BY DEF Reloads
      <3>2. new = [confirmed |-> pool.confirmed, seen |-> pool.seen,
                   working |-> ApplyTransaction(tx, pool.working),
                   entries |-> Append(pool.entries, e),
                   total_bytes |-> pool.total_bytes + tx.size]
        BY <2>3, <3>1 DEF IsPool
      <3> QED BY <3>2 DEF IsPool
    <2>5. PICK S : pool.entries \in Seq(S)
      BY DEF Reloads
    <2>6. PICK n \in Nat : n = Len(pool.entries)
      BY <2>5
    <2>7. /\ new.entries \in Seq(S \cup {e})
          /\ \A i \in 1 .. n : new.entries[i] = pool.entries[i]
          /\ new.entries[n + 1] = e
          /\ DOMAIN pool.entries = 1 .. n
          /\ DOMAIN new.entries = 1 .. (n + 1)
      BY <2>4, <2>5, <2>6, AppendFacts
    <2>8. PICK txs, more : txs = GetTransactions(pool) /\ more = GetTransactions(new)
      OBVIOUS
    <2>9. /\ DOMAIN txs = 1 .. n /\ DOMAIN more = 1 .. (n + 1)
          /\ \A k \in 1 .. n : more[k] = txs[k]
          /\ more[n + 1] = tx
      BY <2>1, <2>7, <2>8 DEF GetTransactions
    <2>10. Rebuild(more, {}, st) = ReadmitNext({}, Rebuild(txs, {}, st), more[n + 1])
      BY <2>9, RebuildOneMore
    <2>11. Rebuild(txs, {}, st) = pool
      BY <2>8 DEF Reloads, Readmit
    <2>12. Rebuild(more, {}, st) = new
      BY <2>2, <2>9, <2>10, <2>11 DEF ReadmitNext
    <2>13. new = Readmit(GetTransactions(new), st)
      BY <2>8, <2>12 DEF Readmit
    <2> QED BY <2>2, <2>4, <2>7, <2>13 DEF Reloads
  <1> QED BY <1>1, <1>2

\* A rebuilt pool reloads.
LEMMA RebuildReloads ==
    ASSUME NEW st, NEW txs, NEW passed_over, NEW n \in Nat, DOMAIN txs = 1 .. n
    PROVE  Reloads(Rebuild(txs, passed_over, st), st)
  <1>1. PICK h : RebuildRounds(h, txs, passed_over, st, n)
    BY RebuildSteps, Zenon
  <1> DEFINE K == {k \in Nat : k <= n => Reloads(h[k], st)}
  <1>2. 0 \in K
    BY <1>1, NewReloads DEF RebuildRounds
  <1>3. ASSUME NEW k \in Nat, k \in K PROVE k + 1 \in K
    <2> SUFFICES ASSUME k + 1 <= n PROVE Reloads(h[k + 1], st)
      OBVIOUS
    <2>1. Reloads(h[k], st)
      BY <1>3
    <2>2. k + 1 \in 1 .. n /\ (k + 1) - 1 = k
      OBVIOUS
    <2>3. h[k + 1] = ReadmitNext(passed_over, h[k], txs[k + 1])
      BY <1>1, <2>2 DEF RebuildRounds
    <2>4. Reloads(AddTransaction(h[k], txs[k + 1]), st)
      BY <2>1, AddReloads
    <2> QED BY <2>1, <2>3, <2>4 DEF ReadmitNext
  <1>4. n \in K
    <2> HIDE DEF K
    <2> QED BY <1>2, <1>3, NatInductive
  <1> QED BY <1>1, <1>4 DEF RebuildRounds

\* So does one after a removal.
LEMMA RemoveReloads ==
    ASSUME NEW pool, NEW st, NEW txid, IsState(st), Reloads(pool, st)
    PROVE  Reloads(RemoveTransaction(pool, txid), st)
  <1>1. CASE ~HasTransaction(pool, txid)
    BY <1>1 DEF RemoveTransaction
  <1>2. CASE HasTransaction(pool, txid)
    <2>1. [utxos |-> pool.confirmed, seen |-> pool.seen] = st
      BY DEF Reloads, IsState
    <2>2. PICK new : new = Rebuild(GetTransactions(pool), {txid}, st)
      OBVIOUS
    <2>3. RemoveTransaction(pool, txid) = [pool EXCEPT !.entries = new.entries,
                                                       !.working = new.working,
                                                       !.total_bytes = new.total_bytes]
      BY <1>2, <2>1, <2>2 DEF RemoveTransaction
    <2>4. PICK S : pool.entries \in Seq(S)
      BY DEF Reloads
    <2>5. PICK n \in Nat : DOMAIN GetTransactions(pool) = 1 .. n
      BY <2>4 DEF GetTransactions
    <2>6. Reloads(new, st)
      BY <2>2, <2>5, RebuildReloads
    <2>7. RemoveTransaction(pool, txid) =
              [confirmed |-> pool.confirmed, seen |-> pool.seen,
               working |-> new.working, entries |-> new.entries,
               total_bytes |-> new.total_bytes]
      <3>1. IsPool(pool)
        BY DEF Reloads
      <3> QED BY <2>3, <3>1 DEF IsPool
    <2>8. RemoveTransaction(pool, txid) = new
      <3>1. IsPool(new) /\ new.confirmed = pool.confirmed /\ new.seen = pool.seen
        BY <2>6 DEF Reloads
      <3> QED BY <2>7, <3>1 DEF IsPool
    <2> QED BY <2>6, <2>8
  <1> QED BY <1>1, <1>2

\* And after a block.
LEMMA RevalidatedReloads ==
    ASSUME NEW pool, NEW S, pool.entries \in Seq(S), NEW st
    PROVE  Reloads(Revalidated(pool, st), st)
  <1>1. PICK n \in Nat : DOMAIN GetTransactions(pool) = 1 .. n
    BY DEF GetTransactions
  <1> QED BY <1>1, RebuildReloads DEF Revalidated

=============================================================================
