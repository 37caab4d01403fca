---------------------------- MODULE ApiProofs ----------------------------
(***************************************************************************)
(* Theorems about the two services of the API that many tasks share:       *)
(* ExplorerService, for any number of concurrent queries, transactions,    *)
(* blocks and failing calls, and, through an instance, WebSocketManager,   *)
(* for any number of connections, addresses and messages.                  *)
(*                                                                         *)
(* Of the explorer, neither property is inductive: what a query may answer *)
(* depends on what it read in earlier awaits, so the invariant says for    *)
(* each await how the local variables of a query compare with the chain as *)
(* it is by then.  Of the WebSocket clients, what one was sent, is being   *)
(* sent and waits for is one stream, which every step of the writer leaves *)
(* as it is and every broadcast makes longer.                              *)
(***************************************************************************)
EXTENDS ExplorerService, WebSocketState, SequenceLemmas

PCs == {"idle", "tip", "lock", "fetch", "pending", "find", "latest", "info",
        "status", "done"}

Heights == {NoView} \cup Nat

Queries ==
    [op : Ops \cup {"none"}, x : Txs \cup {"none"}, pc : PCs, tip : Heights,
     got : Nat, view : Heights, forced : BOOLEAN, found : BOOLEAN,
     info : Heights, answer : Int, start : Nat, been : SUBSET Int]

TypeOK ==
    /\ height \in Nat
    /\ where \in [Txs -> {Unknown, Pending} \cup 1 .. height]
    /\ cache \in {NoView} \cup 0 .. height
    /\ lock \in Seq(Requests)
    /\ req \in [Requests -> Queries]
    /\ faults \in Nat

\* The view a query has, and the tip it has read, are of its own time.
ViewFits(q) ==
    /\ q.start <= height
    /\ q.pc # "idle" => q.op \in Ops /\ q.x \in Txs
    /\ q.view # NoView => q.view \in q.start .. height
    /\ q.pc \in {"lock", "fetch"} => q.tip \in q.start .. height /\ q.got <= q.tip
    /\ q.pc \in {"pending", "find", "info", "latest", "status"} => q.view # NoView
    /\ q.found => q.op = "transaction"
    /\ q.pc = "find" => q.op = "transaction"
    /\ q.pc = "info" => q.op = "address"
    /\ q.pc = "status" => q.op = "stats"

\* An address is read again only when a block came meanwhile, so that a second
\* difference takes a second block.
AddressFits(q) ==
    q.op = "address" =>
        /\ q.forced => /\ q.pc = "tip" => q.start < height
                       /\ q.pc \in {"lock", "fetch"} => q.start < q.tip
                       /\ q.pc \in {"info", "pending"} => q.start < q.view
        /\ q.pc = "latest" => ~q.forced /\ q.info \in q.view .. height
        /\ q.pc = "pending" \/ (q.pc = "done" /\ q.answer # Error) =>
              q.info = q.view \/ height - q.start >= 2

\* A transaction found in neither place was unknown at some moment, or is in a
\* block that the second look at the chain includes.
TransactionFits(q) ==
    q.op \in {"transaction", "search"} =>
        /\ q.pc \notin {"idle", "done"} => where[q.x] \in q.been
        /\ q.pc = "done" =>
              \/ q.answer \in q.been \cup {Error}
              \/ q.op = "search" /\ q.answer = Unknown /\ height > q.view
        /\ q.op = "search" =>
              /\ ~q.forced
              /\ q.pc \notin {"find", "latest", "info", "status"}
              /\ q.pc = "pending" => where[q.x] \notin 1 .. q.view
        /\ q.op = "transaction" /\ Unknown \notin q.been =>
              /\ q.pc \in {"find", "latest"} => where[q.x] \in (q.view + 1) .. height
              /\ q.forced /\ q.pc = "tip" => where[q.x] \in 1 .. height
              /\ q.forced /\ q.pc \in {"lock", "fetch"} => where[q.x] \in 1 .. q.tip

Fits(q) == ViewFits(q) /\ AddressFits(q) /\ TransactionFits(q)

IInv == TypeOK /\ \A r \in Requests : Fits(req[r])

-----------------------------------------------------------------------------
(* Steps of a query.                                                         *)

\* No query, no view.
LEMMA InitIInv == Init => IInv
  BY ExplorerAssumption
     DEF Init, IInv, TypeOK, Fits, ViewFits, AddressFits, TransactionFits, Idle,
         Queries, PCs, Heights, NoView, Unknown, Pending

\* A step of one query, when the chain stays as it is.
LEMMA QueryStep ==
    ASSUME IInv, NEW r \in Requests, NEW q \in Queries, Fits(q),
           req' = [req EXCEPT ![r] = q],
           UNCHANGED <<height, where>>,
           cache' \in {NoView} \cup 0 .. height,
           lock' \in Seq(Requests), faults' \in Nat
    PROVE  IInv'
  <1>1. TypeOK'
    BY DEF IInv, TypeOK
  <1>2. ASSUME NEW s \in Requests PROVE Fits(req[s])'
    <2>1. Fits(req'[s])
      BY DEF IInv, TypeOK
    <2>2. ViewFits(req[s])'
      BY <2>1 DEF Fits, ViewFits
    <2>3. AddressFits(req[s])'
      BY <2>1 DEF Fits, AddressFits
    <2>4. TransactionFits(req[s])'
      BY <2>1 DEF Fits, TransactionFits
    <2> QED BY <2>2, <2>3, <2>4 DEF Fits
  <1> QED BY <1>1, <1>2 DEF IInv

\* What a query must have seen for its answer.
LEMMA AnswerFits ==
    ASSUME IInv, NEW q \in Queries, NEW answer \in Int,
           q.op \in Ops, q.x \in Txs, q.start <= height,
           q.view # NoView => q.view \in q.start .. height,
           q.op = "address" /\ answer # Error =>
               q.info = q.view \/ height - q.start >= 2,
           q.op \in {"transaction", "search"} =>
               \/ answer \in q.been \cup {Error}
               \/ q.op = "search" /\ answer = Unknown /\ height > q.view
    PROVE  Answer(q, answer) \in Queries /\ Fits(Answer(q, answer))
  <1> DEFINE w == Answer(q, answer)
  <1>1. /\ w.op = q.op /\ w.x = q.x /\ w.view = q.view /\ w.info = q.info
        /\ w.start = q.start /\ w.been = q.been /\ w.pc = "done"
        /\ w.answer = answer /\ w.forced = FALSE /\ w.found = FALSE
    BY DEF Answer, Idle
  <1>2. w \in Queries
    BY DEF Answer, Idle, Queries, PCs, Heights, NoView
  <1> HIDE DEF w
  <1>3. ViewFits(w)
    BY <1>1 DEF ViewFits
  <1>4. AddressFits(w)
    BY <1>1 DEF AddressFits
  <1>5. TransactionFits(w)
    BY <1>1 DEF TransactionFits
  <1>6. w \in Queries /\ Fits(w)
    BY <1>2, <1>3, <1>4, <1>5 DEF Fits
  <1> QED BY <1>6 DEF w

\* A query goes on to its next await.
LEMMA AtFields ==
    ASSUME NEW q \in Queries, NEW pc \in PCs
    PROVE  /\ At(q, pc) \in Queries
           /\ At(q, pc).pc = pc
           /\ At(q, pc).op = q.op /\ At(q, pc).x = q.x /\ At(q, pc).tip = q.tip
           /\ At(q, pc).got = q.got /\ At(q, pc).view = q.view
           /\ At(q, pc).forced = q.forced /\ At(q, pc).found = q.found
           /\ At(q, pc).info = q.info /\ At(q, pc).start = q.start
           /\ At(q, pc).been = q.been
  BY DEF At, Queries

\* get_chain_view returns a view of the query's own time.
LEMMA ViewReturned ==
    ASSUME IInv, NEW q \in Queries, NEW v \in Nat, v \in q.start .. height,
           q.op \in Ops, q.x \in Txs, q.found => q.op = "transaction",
           q.op = "address" /\ q.forced => q.start < v,
           q.op = "search" => ~q.forced,
           q.op \in {"transaction", "search"} => where[q.x] \in q.been,
           q.op = "transaction" /\ q.forced /\ Unknown \notin q.been =>
               where[q.x] \in 1 .. v
    PROVE  WithView(q, v) \in Queries /\ Fits(WithView(q, v))
  <1> DEFINE w == [q EXCEPT !.view = v]
  <1>1. /\ w \in Queries /\ w.view = v
        /\ w.op = q.op /\ w.x = q.x /\ w.start = q.start /\ w.forced = q.forced
        /\ w.been = q.been /\ w.found = q.found
    BY DEF Queries, Heights
  <1>2. v # NoView /\ where[q.x] \in Int /\ height \in Nat /\ q.start \in Nat
    BY DEF NoView, IInv, TypeOK, Unknown, Pending, Queries
  <1>3. q.start <= height /\ q.start <= v /\ v <= height
    BY <1>2
  <1>0. WithView(q, v) = CASE q.op = "transaction" -> TransactionView(w)
          [] q.op = "search" -> SearchView(w)
          [] q.op = "address" -> AddressView(w)
          [] q.op = "stats" -> At(w, "status")
          [] OTHER -> Answer(w, v)
    BY Zenon DEF WithView
  <1> HIDE DEF w
  <1>4. CASE q.op = "transaction" /\ q.forced
    <2> DEFINE a == IF Indexed(v, q.x) THEN where[q.x] ELSE Unknown
    <2>1. a \in Int
      BY <1>2 DEF Unknown
    <2>2. a \in q.been
      BY <1>4 DEF Indexed
    <2>3. WithView(q, v) = Answer(w, a)
      BY <1>0, <1>1, <1>4 DEF TransactionView
    <2> HIDE DEF a
    <2> QED BY <1>1, <1>3, <1>4, <2>1, <2>2, <2>3, AnswerFits
  <1>5. CASE q.op = "search" /\ Indexed(v, q.x)
    <2>1. WithView(q, v) = Answer(w, where[q.x])
      BY <1>0, <1>1, <1>5 DEF SearchView
    <2> QED BY <1>1, <1>2, <1>3, <1>5, <2>1, AnswerFits
  <1>6. CASE q.op = "blocks"
    <2>1. WithView(q, v) = Answer(w, v)
      BY <1>0, <1>1, <1>6
    <2> QED BY <1>1, <1>2, <1>3, <1>6, <2>1, AnswerFits
  <1>7. CASE \/ q.op = "transaction" /\ ~q.forced
             \/ q.op = "search" /\ ~Indexed(v, q.x)
    <2> DEFINE z == At(w, "pending")
    <2>1. WithView(q, v) = z
      BY <1>0, <1>1, <1>7 DEF TransactionView, SearchView
    <2>2. /\ z \in Queries /\ z.pc = "pending" /\ z.view = v /\ z.op = q.op /\ z.x = q.x
          /\ z.start = q.start /\ z.forced = q.forced /\ z.found = q.found
          /\ z.been = q.been
      BY <1>1, AtFields DEF PCs
    <2> HIDE DEF z
    <2>3. ViewFits(z)
      BY <1>2, <1>3, <2>2 DEF ViewFits
    <2>4. AddressFits(z)
      BY <1>7, <2>2 DEF AddressFits
    <2>5. TransactionFits(z)
      BY <1>7, <2>2 DEF TransactionFits, Indexed
    <2> QED BY <2>1, <2>2, <2>3, <2>4, <2>5 DEF Fits
  <1>8. CASE q.op \in {"address", "stats"}
    <2> DEFINE z == At(w, IF q.op = "address" THEN "info" ELSE "status")
    <2>1. WithView(q, v) = z
      BY <1>0, <1>1, <1>8 DEF AddressView
    <2>2. /\ z \in Queries /\ z.pc = IF q.op = "address" THEN "info" ELSE "status"
          /\ z.view = v /\ z.op = q.op /\ z.x = q.x
          /\ z.start = q.start /\ z.forced = q.forced /\ z.found = q.found
      BY <1>1, AtFields DEF PCs
    <2> HIDE DEF z
    <2>3. ViewFits(z)
      BY <1>2, <1>3, <1>8, <2>2 DEF ViewFits
    <2>4. AddressFits(z)
      BY <1>2, <1>3, <1>8, <2>2 DEF AddressFits
    <2>5. TransactionFits(z)
      BY <1>8, <2>2 DEF TransactionFits
    <2> QED BY <2>1, <2>2, <2>3, <2>4, <2>5 DEF Fits
  <1> QED BY <1>4, <1>5, <1>6, <1>7, <1>8 DEF Ops


\* What IInv says of one query.
LEMMA OneQuery ==
    ASSUME IInv, NEW r \in Requests
    PROVE  /\ req[r] \in Queries
           /\ ViewFits(req[r]) /\ AddressFits(req[r]) /\ TransactionFits(req[r])
           /\ height \in Nat /\ req[r].start \in Nat /\ req[r].been \subseteq Int
           /\ req[r].got \in Nat
           /\ req[r].view \in Heights /\ req[r].info \in Heights
           /\ req[r].forced \in BOOLEAN
  BY DEF IInv, Fits, TypeOK, Queries

\* One lemma per step of a query: it keeps the invariant.
LEMMA StartStep ==
    ASSUME IInv, NEW r \in Requests, NEW op \in Ops, NEW x \in Txs, Start(r, op, x)
    PROVE  IInv'
  <1> DEFINE q == [GetChainView(Idle, FALSE) EXCEPT
                     !.op = op, !.x = x, !.start = height, !.been = {where[x]}]
  <1>1. /\ q.pc = "tip" /\ q.op = op /\ q.x = x /\ q.start = height
        /\ q.been = {where[x]} /\ q.view = NoView /\ q.forced = FALSE
        /\ q.found = FALSE
    BY DEF GetChainView, Idle
  <1>2. height \in Nat /\ where[x] \in Int
    BY DEF IInv, TypeOK, Unknown, Pending
  <1>3. q \in Queries
    <2> DEFINE g == GetChainView(Idle, FALSE)
    <2>0. Idle \in Queries
      BY DEF Idle, Queries, PCs, Heights, NoView
    <2>1. g \in Queries
      BY <2>0 DEF GetChainView, Queries, PCs
    <2> HIDE DEF g
    <2>2. [g EXCEPT !.op = op, !.x = x, !.start = height, !.been = {where[x]}] \in Queries
      BY <1>2, <2>1 DEF Queries
    <2> QED BY <2>2 DEF g
  <1> HIDE DEF q
  <1>4. Fits(q)
    BY <1>1, <1>2 DEF Fits, ViewFits, AddressFits, TransactionFits
  <1>5. /\ req' = [req EXCEPT ![r] = q]
        /\ UNCHANGED <<height, where, cache, lock, faults>>
    BY Zenon DEF Start, q
  <1> QED BY <1>3, <1>4, <1>5, QueryStep DEF IInv, TypeOK

LEMMA ReadTipStep ==
    ASSUME IInv, NEW r \in Requests, ReadTip(r)
    PROVE  IInv'
  <1> DEFINE q == [req[r] EXCEPT !.tip = height]
             z == At([q EXCEPT !.got = 0], IF lock = <<>> THEN "fetch" ELSE "lock")
  <1>0. req[r].pc = "tip"
    BY DEF ReadTip
  <1>1. /\ q \in Queries /\ q.tip = height /\ q.op = req[r].op /\ q.x = req[r].x
        /\ q.view = req[r].view /\ q.start = req[r].start /\ q.forced = req[r].forced
        /\ q.been = req[r].been /\ q.found = req[r].found
    BY OneQuery DEF Queries, Heights
  <1>2. /\ z \in Queries /\ z.pc \in {"fetch", "lock"} /\ z.got = 0 /\ z.tip = height
        /\ z.op = req[r].op /\ z.x = req[r].x
        /\ z.view = req[r].view /\ z.start = req[r].start /\ z.forced = req[r].forced
        /\ z.been = req[r].been /\ z.found = req[r].found
    <2>1. PICK y \in Queries : y = [q EXCEPT !.got = 0]
      BY <1>1 DEF Queries, Heights
    <2>2. /\ y.got = 0 /\ y.tip = q.tip /\ y.op = q.op /\ y.x = q.x /\ y.view = q.view
          /\ y.start = q.start /\ y.forced = q.forced /\ y.been = q.been
          /\ y.found = q.found
      BY <1>1, <2>1 DEF Queries
    <2>3. PICK at \in {"fetch", "lock"} : z = At(y, at)
      BY <2>1
    <2> HIDE DEF q, z
    <2>4. /\ z \in Queries /\ z.pc = at /\ z.got = y.got /\ z.tip = y.tip
          /\ z.op = y.op /\ z.x = y.x /\ z.view = y.view /\ z.start = y.start
          /\ z.forced = y.forced /\ z.been = y.been /\ z.found = y.found
      BY <2>3 DEF At, Queries, PCs
    <2> QED BY <1>1, <2>2, <2>4
  <1>3. /\ q.op \in Ops /\ q.x \in Txs /\ (q.found => q.op = "transaction")
        /\ q.start <= height /\ q.start \in Nat /\ height \in Nat
        /\ q.op = "search" => ~q.forced
        /\ q.op \in {"transaction", "search"} => where[q.x] \in q.been
    BY <1>0, <1>1, OneQuery DEF ViewFits, TransactionFits
  <1>4. \/ /\ CacheHit(q)
           /\ req' = [req EXCEPT ![r] = WithView(q, cache)]
           /\ lock' = lock
        \/ /\ lock' = Append(lock, r)
           /\ req' = [req EXCEPT ![r] = z]
    BY Zenon DEF ReadTip
  <1>5. /\ UNCHANGED <<height, where, cache, faults>>
        /\ lock \in Seq(Requests) /\ faults \in Nat
        /\ cache \in {NoView} \cup 0 .. height
    BY DEF ReadTip, IInv, TypeOK
  <1> HIDE DEF q, z
  <1>6. CASE CacheHit(q) /\ req' = [req EXCEPT ![r] = WithView(q, cache)] /\ lock' = lock
    <2>1. ~q.forced /\ cache = height /\ height \in q.start .. height
      BY <1>1, <1>3, <1>6 DEF CacheHit
    <2>2. WithView(q, height) \in Queries /\ Fits(WithView(q, height))
      BY <1>1, <1>3, <2>1, ViewReturned
    <2> QED BY <1>5, <1>6, <2>1, <2>2, QueryStep
  <1>7. CASE lock' = Append(lock, r) /\ req' = [req EXCEPT ![r] = z]
    <2>1. ViewFits(z)
      BY <1>0, <1>2, <1>3, <1>1, OneQuery DEF ViewFits
    <2>2. AddressFits(z)
      BY <1>0, <1>2, OneQuery DEF AddressFits
    <2>3. TransactionFits(z)
      BY <1>0, <1>2, OneQuery DEF TransactionFits
    <2>4. lock' \in Seq(Requests)
      BY <1>5, <1>7
    <2> QED BY <1>2, <1>5, <1>7, <2>1, <2>2, <2>3, <2>4, QueryStep DEF Fits
  <1> QED BY <1>4, <1>6, <1>7

LEMMA AcquireStep ==
    ASSUME IInv, NEW r \in Requests, Acquire(r)
    PROVE  IInv'
  <1> DEFINE q == req[r]
  <1>1. /\ q.pc = "lock" /\ q \in Queries
        /\ q.op \in Ops /\ q.x \in Txs /\ (q.found => q.op = "transaction")
        /\ q.tip \in q.start .. height
        /\ q.op = "search" => ~q.forced
        /\ q.op \in {"transaction", "search"} => where[q.x] \in q.been
    BY OneQuery DEF Acquire, ViewFits, TransactionFits
  <1>2. \/ /\ CacheHit(q)
           /\ req' = [req EXCEPT ![r] = WithView(q, cache)]
           /\ lock' = Released(r)
        \/ /\ req' = [req EXCEPT ![r] = At(q, "fetch")]
           /\ lock' = lock
    BY Zenon DEF Acquire
  <1>3. /\ UNCHANGED <<height, where, cache, faults>>
        /\ lock \in Seq(Requests) /\ faults \in Nat
        /\ cache \in {NoView} \cup 0 .. height
    BY DEF Acquire, IInv, TypeOK
  <1>4. lock' \in Seq(Requests)
    BY <1>2, <1>3, RemoveFirstType DEF Released
  <1>5. CASE CacheHit(q) /\ req' = [req EXCEPT ![r] = WithView(q, cache)]
    <2>1. ~q.forced /\ cache \in q.start .. height /\ cache \in Nat
      BY <1>1, <1>5, OneQuery DEF CacheHit
    <2>2. WithView(q, cache) \in Queries /\ Fits(WithView(q, cache))
      BY <1>1, <2>1, ViewReturned
    <2> QED BY <1>3, <1>4, <1>5, <2>2, QueryStep
  <1>6. CASE req' = [req EXCEPT ![r] = At(q, "fetch")]
    <2> DEFINE z == At(q, "fetch")
    <2>1. /\ z \in Queries /\ z.pc = "fetch" /\ z.got = q.got /\ z.tip = q.tip
          /\ z.op = q.op /\ z.x = q.x /\ z.view = q.view /\ z.start = q.start
          /\ z.forced = q.forced /\ z.been = q.been /\ z.found = q.found
      BY <1>1, AtFields DEF PCs
    <2> HIDE DEF z
    <2>2. ViewFits(z)
      BY <1>1, <2>1, OneQuery DEF ViewFits
    <2>3. AddressFits(z)
      BY <1>1, <2>1, OneQuery DEF AddressFits
    <2>4. TransactionFits(z)
      BY <1>1, <2>1, OneQuery DEF TransactionFits
    <2>5. req' = [req EXCEPT ![r] = z]
      BY <1>6 DEF z
    <2> QED BY <1>3, <1>4, <2>1, <2>2, <2>3, <2>4, <2>5, QueryStep DEF Fits
  <1> QED BY <1>2, <1>5, <1>6

LEMMA FetchStep ==
    ASSUME IInv, NEW r \in Requests, Fetch(r)
    PROVE  IInv'
  <1> DEFINE q == req[r]
             needed == q.tip + 1
             limit == IF needed - q.got < batch_size THEN needed - q.got ELSE batch_size
             batch == IF height + 1 - q.got < limit THEN height + 1 - q.got ELSE limit
             got == q.got + batch
  <1>1. /\ q.pc = "fetch" /\ q \in Queries
        /\ q.op \in Ops /\ q.x \in Txs /\ (q.found => q.op = "transaction")
        /\ q.tip \in q.start .. height /\ q.got <= q.tip
        /\ q.op = "search" => ~q.forced
        /\ q.op \in {"transaction", "search"} => where[q.x] \in q.been
        /\ q.op = "address" /\ q.forced => q.start < q.tip
        /\ q.op = "transaction" /\ q.forced /\ Unknown \notin q.been =>
              where[q.x] \in 1 .. q.tip
    BY OneQuery DEF Fetch, ViewFits, TransactionFits, AddressFits
  <1>2. q.tip \in Nat /\ q.got \in Nat /\ q.start \in Nat /\ height \in Nat
    BY <1>1, OneQuery
  <1>3. batch \in Int /\ batch > 0
    BY <1>1, <1>2, ExplorerAssumption
  <1>4. /\ UNCHANGED <<height, where, faults>>
        /\ lock \in Seq(Requests) /\ faults \in Nat
        /\ cache \in {NoView} \cup 0 .. height
    BY DEF Fetch, IInv, TypeOK
  <1>5. \/ /\ got < needed
           /\ req' = [req EXCEPT ![r].got = got]
           /\ UNCHANGED <<cache, lock>>
        \/ /\ req' = [req EXCEPT ![r] = WithView(q, q.tip)]
           /\ lock' = Released(r)
           /\ cache' = q.tip
    <2>1. CASE got < needed
      <3>1. got < needed /\ batch > 0 /\ batch # 0
        BY <1>3, <2>1
      <3> HIDE DEF q, got, needed, batch
      <3> QED BY <3>1, Zenon DEF Fetch, q, needed, batch, limit, got
    <2>2. CASE ~(got < needed)
      <3> HIDE DEF q, got, needed, batch
      <3> QED BY <2>2, Zenon DEF Fetch, q, needed, batch, limit, got
    <2> QED BY <2>1, <2>2
  <1>6. CASE /\ got < needed
             /\ req' = [req EXCEPT ![r].got = got]
             /\ UNCHANGED <<cache, lock>>
    <2> DEFINE z == [q EXCEPT !.got = got]
    <2>1. got \in Nat /\ got <= q.tip
      BY <1>2, <1>3, <1>6
    <2> HIDE DEF got
    <2>2. /\ z \in Queries /\ z.pc = "fetch" /\ z.got = got /\ z.tip = q.tip
          /\ z.op = q.op /\ z.x = q.x /\ z.view = q.view /\ z.start = q.start
          /\ z.forced = q.forced /\ z.been = q.been /\ z.found = q.found
      BY <1>1, <2>1 DEF Queries
    <2>3. req' = [req EXCEPT ![r] = z]
      BY <1>6
    <2> HIDE DEF z
    <2>4. ViewFits(z)
      BY <1>1, <2>1, <2>2, OneQuery DEF ViewFits
    <2>5. AddressFits(z)
      BY <1>1, <2>2, OneQuery DEF AddressFits
    <2>6. TransactionFits(z)
      BY <1>1, <2>2, OneQuery DEF TransactionFits
    <2> QED BY <1>4, <1>6, <2>2, <2>3, <2>4, <2>5, <2>6, QueryStep DEF Fits
  <1>7. CASE /\ req' = [req EXCEPT ![r] = WithView(q, q.tip)]
             /\ lock' = Released(r)
             /\ cache' = q.tip
    <2>1. lock' \in Seq(Requests)
      BY <1>4, <1>7, RemoveFirstType DEF Released
    <2>2. WithView(q, q.tip) \in Queries /\ Fits(WithView(q, q.tip))
      BY <1>1, <1>2, ViewReturned
    <2>3. cache' \in 0 .. height
      BY <1>1, <1>2, <1>7
    <2> QED BY <1>4, <1>7, <2>1, <2>2, <2>3, QueryStep
  <1> QED BY <1>5, <1>6, <1>7

LEMMA ReadPendingStep ==
    ASSUME IInv, NEW r \in Requests, ReadPending(r)
    PROVE  IInv'
  <1> DEFINE q == req[r]
  <1>1. /\ q.pc = "pending" /\ q \in Queries
        /\ q.op \in Ops /\ q.x \in Txs /\ q.start <= height
        /\ q.view # NoView /\ q.view \in q.start .. height
        /\ q.found => q.op = "transaction"
        /\ q.op = "search" => ~q.forced /\ where[q.x] \notin 1 .. q.view
        /\ q.op \in {"transaction", "search"} => where[q.x] \in q.been
        /\ q.op = "address" => q.info = q.view \/ height - q.start >= 2
    BY OneQuery DEF ReadPending, ViewFits, TransactionFits, AddressFits
  <1>2. /\ q.start \in Nat /\ height \in Nat /\ q.view \in Nat /\ q.info \in Int
        /\ where[q.x] \in Int /\ where[q.x] \in {Unknown, Pending} \cup 1 .. height
    BY <1>1, OneQuery DEF IInv, TypeOK, Unknown, Pending, Heights, NoView
  <1>3. /\ req' = [req EXCEPT ![r] = AfterPending(q)]
        /\ UNCHANGED <<height, where, cache, lock, faults>>
    BY DEF ReadPending
  <1> SUFFICES AfterPending(q) \in Queries /\ Fits(AfterPending(q))
    BY <1>3, QueryStep DEF IInv, TypeOK
  <1>4. ASSUME NEW answer \in Int,
               q.op \in {"transaction", "search"} =>
                 \/ answer \in q.been \cup {Error}
                 \/ q.op = "search" /\ answer = Unknown /\ height > q.view
        PROVE  Answer(q, answer) \in Queries /\ Fits(Answer(q, answer))
    BY <1>1, <1>4, AnswerFits
  <1>5. CASE q.op \in {"stats", "address"}
    <2>1. AfterPending(q) \in {Answer(q, q.view), Answer(q, q.info)}
      BY <1>5 DEF AfterPending
    <2> QED BY <1>2, <1>4, <1>5, <2>1
  <1>6. CASE /\ q.op \notin {"stats", "address"}
             /\ where[q.x] = Pending \/ (q.op = "transaction" /\ Indexed(q.view, q.x))
    <2>1. AfterPending(q) = Answer(q, where[q.x])
      BY <1>6 DEF AfterPending
    <2> QED BY <1>1, <1>2, <1>4, <2>1
  <1>7. CASE where[q.x] # Pending /\ q.op = "transaction" /\ ~Indexed(q.view, q.x)
    <2> DEFINE z == At(q, "find")
    <2>1. AfterPending(q) = z
      BY <1>7 DEF AfterPending
    <2>2. /\ z \in Queries /\ z.pc = "find" /\ z.view = q.view /\ z.op = q.op /\ z.x = q.x
          /\ z.start = q.start /\ z.forced = q.forced /\ z.found = q.found
          /\ z.been = q.been
      BY <1>1, AtFields DEF PCs
    <2>3. Unknown \notin q.been => where[q.x] \in (q.view + 1) .. height
      BY <1>1, <1>2, <1>7 DEF Indexed
    <2> HIDE DEF z
    <2>4. ViewFits(z)
      BY <1>1, <1>7, <2>2 DEF ViewFits
    <2>5. AddressFits(z)
      BY <1>7, <2>2 DEF AddressFits
    <2>6. TransactionFits(z)
      BY <1>1, <1>7, <2>2, <2>3 DEF TransactionFits
    <2> QED BY <2>1, <2>2, <2>4, <2>5, <2>6 DEF Fits
  <1>8. CASE q.op \notin {"stats", "address", "transaction"} /\ where[q.x] # Pending
    <2>1. AfterPending(q) = Answer(q, Unknown)
      BY <1>8 DEF AfterPending
    <2>2. q.op = "search" => Unknown \in q.been \/ height > q.view
      BY <1>1, <1>2, <1>8
    <2>3. Unknown \in Int
      BY DEF Unknown
    <2> QED BY <1>4, <1>8, <2>1, <2>2, <2>3
  <1> QED BY <1>5, <1>6, <1>7, <1>8

\* The awaits that only move a query on to the next one.
LEMMA FindStep ==
    ASSUME IInv, NEW r \in Requests, Find(r)
    PROVE  IInv'
  <1> DEFINE q == req[r]
             z == [q EXCEPT !.found = (where[q.x] # Unknown), !.pc = "latest"]
  <1>1. q.pc = "find" /\ q.op = "transaction" /\ q \in Queries
    BY OneQuery DEF Find, ViewFits
  <1>2. /\ z \in Queries /\ z.pc = "latest" /\ z.view = q.view /\ z.op = q.op
        /\ z.x = q.x /\ z.start = q.start /\ z.forced = q.forced /\ z.been = q.been
    BY <1>1 DEF Queries, PCs
  <1>3. /\ req' = [req EXCEPT ![r] = z]
        /\ UNCHANGED <<height, where, cache, lock, faults>>
    BY DEF Find
  <1> HIDE DEF z
  <1>4. ViewFits(z)
    BY <1>1, <1>2, OneQuery DEF ViewFits
  <1>5. AddressFits(z)
    BY <1>1, <1>2 DEF AddressFits
  <1>6. TransactionFits(z)
    BY <1>1, <1>2, OneQuery DEF TransactionFits
  <1> QED BY <1>2, <1>3, <1>4, <1>5, <1>6, QueryStep DEF Fits, IInv, TypeOK

LEMMA ReadInfoStep ==
    ASSUME IInv, NEW r \in Requests, ReadInfo(r)
    PROVE  IInv'
  <1> DEFINE q == req[r]
             z == At([q EXCEPT !.info = height],
                     IF q.forced THEN "pending" ELSE "latest")
  <1>1. q.pc = "info" /\ q.op = "address" /\ q \in Queries
    BY OneQuery DEF ReadInfo, ViewFits
  <1>2. /\ z \in Queries /\ z.pc = (IF q.forced THEN "pending" ELSE "latest")
        /\ z.view = q.view /\ z.op = q.op /\ z.info = height /\ z.found = q.found
        /\ z.x = q.x /\ z.start = q.start /\ z.forced = q.forced
    <2> DEFINE w == [q EXCEPT !.info = height]
    <2>1. /\ w \in Queries /\ w.view = q.view /\ w.op = q.op /\ w.info = height
          /\ w.found = q.found /\ w.x = q.x /\ w.start = q.start /\ w.forced = q.forced
      BY <1>1, OneQuery DEF Queries, Heights
    <2>2. z = At(w, IF q.forced THEN "pending" ELSE "latest")
      OBVIOUS
    <2> HIDE DEF w, z
    <2> QED BY <2>1, <2>2, AtFields DEF PCs
  <1>3. /\ req' = [req EXCEPT ![r] = z]
        /\ UNCHANGED <<height, where, cache, lock, faults>>
    BY DEF ReadInfo
  <1> HIDE DEF z
  <1>4. ViewFits(z)
    BY <1>1, <1>2, OneQuery DEF ViewFits
  <1>5. /\ q.start \in Nat /\ height \in Nat /\ q.view \in q.start .. height
        /\ q.forced => q.start < q.view
    BY <1>1, OneQuery DEF ViewFits, AddressFits
  <1>6. AddressFits(z)
    BY <1>1, <1>2, <1>5 DEF AddressFits
  <1>7. TransactionFits(z)
    BY <1>1, <1>2 DEF TransactionFits
  <1> QED BY <1>2, <1>3, <1>4, <1>6, <1>7, QueryStep DEF Fits, IInv, TypeOK

LEMMA ReadStatusStep ==
    ASSUME IInv, NEW r \in Requests, ReadStatus(r)
    PROVE  IInv'
  <1> DEFINE q == req[r]
             z == At(q, "pending")
  <1>1. q.pc = "status" /\ q.op = "stats" /\ q \in Queries
    BY OneQuery DEF ReadStatus, ViewFits
  <1>2. /\ z \in Queries /\ z.pc = "pending" /\ z.view = q.view /\ z.op = q.op
        /\ z.x = q.x /\ z.start = q.start /\ z.forced = q.forced /\ z.found = q.found
    BY <1>1, AtFields DEF PCs
  <1>3. /\ req' = [req EXCEPT ![r] = z]
        /\ UNCHANGED <<height, where, cache, lock, faults>>
    BY DEF ReadStatus
  <1> HIDE DEF z
  <1>4. ViewFits(z)
    BY <1>1, <1>2, OneQuery DEF ViewFits
  <1>5. AddressFits(z) /\ TransactionFits(z)
    BY <1>1, <1>2 DEF AddressFits, TransactionFits
  <1> QED BY <1>2, <1>3, <1>4, <1>5, QueryStep DEF Fits, IInv, TypeOK

LEMMA ReadLatestStep ==
    ASSUME IInv, NEW r \in Requests, ReadLatest(r)
    PROVE  IInv'
  <1> DEFINE q == req[r]
             z == IF height # q.view \/ q.found THEN GetChainView(q, TRUE)
                  ELSE IF q.op = "address" THEN At(q, "pending")
                  ELSE Answer(q, Unknown)
  <1>1. /\ q.pc = "latest" /\ q \in Queries /\ q.op \in Ops /\ q.x \in Txs
        /\ q.view # NoView /\ q.op # "search" /\ q.start <= height
        /\ q.found => q.op = "transaction"
    BY OneQuery DEF ReadLatest, ViewFits, TransactionFits, Ops
  <1>2. /\ q.start \in Nat /\ height \in Nat /\ q.view \in q.start .. height
        /\ q.view \in Nat
    BY <1>1, OneQuery DEF ViewFits
  <1>3. /\ req' = [req EXCEPT ![r] = z]
        /\ UNCHANGED <<height, where, cache, lock, faults>>
    BY DEF ReadLatest
  <1>4. q.op = "transaction" =>
           /\ where[q.x] \in q.been
           /\ Unknown \notin q.been => where[q.x] \in (q.view + 1) .. height
    BY <1>1, OneQuery DEF TransactionFits
  <1>5. q.op = "address" => ~q.forced /\ q.info \in q.view .. height
    BY <1>1, OneQuery DEF AddressFits
  <1> SUFFICES z \in Queries /\ Fits(z)
    <2> HIDE DEF z
    <2> QED BY <1>3, QueryStep DEF IInv, TypeOK
  <1>6. CASE height # q.view \/ q.found
    <2> DEFINE g == GetChainView(q, TRUE)
    <2>1. /\ g \in Queries /\ g.pc = "tip" /\ g.forced = TRUE /\ g.view = q.view
          /\ g.op = q.op /\ g.x = q.x /\ g.start = q.start /\ g.found = q.found
          /\ g.been = q.been
      BY <1>1 DEF GetChainView, Queries, PCs
    <2>2. z = g
      BY <1>6
    <2>3. q.op = "address" => q.start < height
      BY <1>1, <1>2, <1>6
    <2>4. q.op = "transaction" /\ Unknown \notin q.been => where[q.x] \in 1 .. height
      BY <1>2, <1>4
    <2> HIDE DEF z, g
    <2>5. ViewFits(g)
      BY <1>1, <1>2, <2>1 DEF ViewFits
    <2>6. AddressFits(g)
      BY <2>1, <2>3 DEF AddressFits
    <2>7. TransactionFits(g)
      BY <1>1, <1>4, <2>1, <2>4 DEF TransactionFits
    <2> QED BY <2>1, <2>2, <2>5, <2>6, <2>7 DEF Fits
  <1>7. CASE ~(height # q.view \/ q.found) /\ q.op = "address"
    <2> DEFINE a == At(q, "pending")
    <2>1. /\ a \in Queries /\ a.pc = "pending" /\ a.forced = q.forced /\ a.view = q.view
          /\ a.op = q.op /\ a.x = q.x /\ a.start = q.start /\ a.found = q.found
          /\ a.info = q.info
      BY <1>1, AtFields DEF PCs
    <2>2. z = a
      BY <1>7
    <2>3. q.info = q.view
      BY <1>2, <1>5, <1>7
    <2> HIDE DEF z, a
    <2>4. ViewFits(a)
      BY <1>1, <1>2, <2>1 DEF ViewFits
    <2>5. AddressFits(a) /\ TransactionFits(a)
      BY <1>5, <1>7, <2>1, <2>3 DEF AddressFits, TransactionFits
    <2> QED BY <2>1, <2>2, <2>4, <2>5 DEF Fits
  <1>8. CASE ~(height # q.view \/ q.found) /\ q.op # "address"
    <2>1. z = Answer(q, Unknown)
      BY <1>8
    <2>2. q.op = "transaction" => Unknown \in q.been
      BY <1>2, <1>4, <1>8
    <2>3. Unknown \in Int
      BY DEF Unknown
    <2> QED BY <1>1, <1>2, <1>8, <2>1, <2>2, <2>3, AnswerFits
  <1> QED BY <1>6, <1>7, <1>8

LEMMA FailStep ==
    ASSUME IInv, NEW r \in Requests, Fail(r)
    PROVE  IInv'
  <1> DEFINE q == req[r]
  <1>1. /\ q.pc \notin {"idle", "done"} /\ q \in Queries /\ q.op \in Ops /\ q.x \in Txs
        /\ q.start <= height
        /\ q.view # NoView => q.view \in q.start .. height
    BY OneQuery DEF Fail, Running, ViewFits
  <1>2. /\ req' = [req EXCEPT ![r] = Answer(q, Error)]
        /\ UNCHANGED <<height, where, cache>>
        /\ lock' \in Seq(Requests) /\ faults' \in Nat
        /\ cache \in {NoView} \cup 0 .. height
    BY RemoveFirstType DEF Fail, Released, IInv, TypeOK
  <1>3. Error \in Int
    BY DEF Error
  <1>4. Answer(q, Error) \in Queries /\ Fits(Answer(q, Error))
    BY <1>1, <1>3, AnswerFits
  <1> QED BY <1>2, <1>4, QueryStep

-----------------------------------------------------------------------------
(* Steps of the node, under the feet of the running queries.                 *)

\* Nothing leaves a block, and what enters one enters the newest.
LEMMA NodeStep ==
    ASSUME IInv, height' \in {height, height + 1},
           where' \in [Txs -> {Unknown, Pending} \cup 1 .. height'],
           \A x \in Txs : where[x] \in 1 .. height => where'[x] = where[x],
           \A x \in Txs : \/ where'[x] \in {where[x], Unknown, Pending}
                          \/ where'[x] = height + 1 /\ height' = height + 1,
           req' = Witnessed(req, where'),
           UNCHANGED <<cache, lock, faults>>
    PROVE  IInv'
  <1>1. height \in Nat /\ height' \in Nat /\ height <= height'
    BY DEF IInv, TypeOK
  <1>2. cache' \in {NoView} \cup 0 .. height'
    BY <1>1 DEF IInv, TypeOK
  <1>3. ASSUME NEW r \in Requests
        PROVE  req'[r] \in Queries /\ Fits(req[r])'
    <2> DEFINE q == req[r]
               seen == q.pc \notin {"idle", "done"} /\ q.op \in {"transaction", "search"}
    <2>1. req'[r] = IF seen THEN [q EXCEPT !.been = @ \cup {where'[q.x]}] ELSE q
      BY DEF Witnessed
    <2>2. q \in Queries /\ (q.pc # "idle" => q.op \in Ops /\ q.x \in Txs)
      BY OneQuery DEF ViewFits
    <2>3. seen => where'[q.x] \in Int
      BY <1>1, <2>2 DEF Unknown, Pending
    <2>4. /\ req'[r] \in Queries /\ req'[r].pc = q.pc /\ req'[r].op = q.op
          /\ req'[r].x = q.x /\ req'[r].tip = q.tip
          /\ req'[r].got = q.got /\ req'[r].view = q.view /\ req'[r].forced = q.forced
          /\ req'[r].found = q.found /\ req'[r].info = q.info /\ req'[r].answer = q.answer
          /\ req'[r].start = q.start
          /\ req'[r].been = IF seen THEN q.been \cup {where'[q.x]} ELSE q.been
      BY <2>1, <2>2, <2>3 DEF Queries
    <2>5. /\ q.start \in Nat /\ q.got \in Nat /\ q.start <= height
          /\ q.view # NoView => q.view \in q.start .. height /\ q.view \in Nat
          /\ q.pc \in {"lock", "fetch"} => q.tip \in q.start .. height /\ q.tip \in Nat
          /\ q.view \in Int /\ q.info \in Int
      BY OneQuery DEF ViewFits, Heights, NoView
    <2>6. ViewFits(req[r])'
      BY <1>1, <2>4, <2>5, OneQuery, SMTT(60) DEF ViewFits
    <2>7. AddressFits(req[r])'
      <3>1. AddressFits(q)
        BY OneQuery
      <3> SUFFICES ASSUME q.op = "address" PROVE AddressFits(req[r])'
        BY <2>4 DEF AddressFits
      <3>2. q.forced => /\ q.pc = "tip" => q.start < height'
                        /\ q.pc \in {"lock", "fetch"} => q.start < q.tip
                        /\ q.pc \in {"info", "pending"} => q.start < q.view
        BY <1>1, <2>5, <3>1 DEF AddressFits
      <3>3. q.pc = "latest" => ~q.forced /\ q.info \in q.view .. height'
        BY <1>1, <2>5, <3>1 DEF AddressFits
      <3>4. q.pc = "pending" \/ (q.pc = "done" /\ q.answer # Error) =>
               q.info = q.view \/ height' - q.start >= 2
        BY <1>1, <2>5, <3>1 DEF AddressFits
      <3> QED BY <2>4, <3>2, <3>3, <3>4 DEF AddressFits
    <2>8. TransactionFits(req[r])'
      <3>1. TransactionFits(q)
        BY OneQuery
      <3> SUFFICES ASSUME q.op \in {"transaction", "search"}
                   PROVE  TransactionFits(req[r])'
        BY <2>4 DEF TransactionFits
      <3>2. seen => where'[q.x] \in req'[r].been
        BY <2>4
      <3>3. q.pc = "done" =>
               \/ q.answer \in q.been \cup {Error}
               \/ q.op = "search" /\ q.answer = Unknown /\ height' > q.view
        BY <1>1, <2>5, <3>1 DEF TransactionFits
      <3>4. q.op = "search" /\ q.pc = "pending" => where'[q.x] \notin 1 .. q.view
        <4> SUFFICES ASSUME q.op = "search", q.pc = "pending"
                     PROVE  where'[q.x] \notin 1 .. q.view
          OBVIOUS
        <4>1. where[q.x] \notin 1 .. q.view /\ q.x \in Txs /\ q.view # NoView
          BY <2>2, <3>1, OneQuery DEF TransactionFits, ViewFits
        <4> QED BY <1>1, <2>5, <4>1 DEF Unknown, Pending
      <3>5. ASSUME q.op = "transaction", seen, Unknown \notin req'[r].been
            PROVE  /\ q.pc \in {"find", "latest"} =>
                        where'[q.x] \in (q.view + 1) .. height'
                   /\ q.forced /\ q.pc = "tip" => where'[q.x] \in 1 .. height'
                   /\ q.forced /\ q.pc \in {"lock", "fetch"} =>
                        where'[q.x] \in 1 .. q.tip
        <4>1. /\ q.pc \in {"find", "latest"} =>
                    where[q.x] \in (q.view + 1) .. height /\ q.view # NoView
              /\ q.forced /\ q.pc = "tip" => where[q.x] \in 1 .. height
              /\ q.forced /\ q.pc \in {"lock", "fetch"} => where[q.x] \in 1 .. q.tip
          BY <2>4, <3>1, <3>5, OneQuery DEF TransactionFits, ViewFits
        <4>3. where[q.x] \in 1 .. height => where'[q.x] = where[q.x]
          BY <2>2, <3>5
        <4>4. CASE q.pc \in {"find", "latest"}
          BY <1>1, <2>5, <4>1, <4>3, <4>4
        <4>5. CASE q.pc = "tip"
          BY <1>1, <2>5, <4>1, <4>3, <4>5
        <4>6. CASE q.pc \in {"lock", "fetch"}
          BY <1>1, <2>5, <4>1, <4>3, <4>6
        <4> QED BY <4>4, <4>5, <4>6
      <3>6. q.op = "search" => /\ ~q.forced
                               /\ q.pc \notin {"find", "latest", "info", "status"}
        BY <3>1 DEF TransactionFits
      <3> QED BY <2>4, <3>2, <3>3, <3>4, <3>5, <3>6 DEF TransactionFits
    <2> QED BY <2>4, <2>6, <2>7, <2>8 DEF Fits
  <1>4. req' \in [Requests -> Queries]
    BY <1>3 DEF Witnessed
  <1> QED BY <1>1, <1>2, <1>3, <1>4 DEF IInv, TypeOK

\* The node moves on while queries are suspended: a transaction arrives.
LEMMA SubmitStep ==
    ASSUME IInv, NEW x \in Txs, Submit(x)
    PROVE  IInv'
  <1>1. where \in [Txs -> {Unknown, Pending} \cup 1 .. height] /\ height \in Nat
    BY DEF IInv, TypeOK
  <1>2. /\ height' = height /\ where' = [where EXCEPT ![x] = Pending]
        /\ where[x] = Unknown /\ req' = Witnessed(req, where')
        /\ UNCHANGED <<cache, lock, faults>>
    BY DEF Submit
  <1> QED BY <1>1, <1>2, NodeStep DEF Unknown

\* A pending transaction is removed.
LEMMA DropStep ==
    ASSUME IInv, NEW x \in Txs, Drop(x)
    PROVE  IInv'
  <1>1. where \in [Txs -> {Unknown, Pending} \cup 1 .. height] /\ height \in Nat
    BY DEF IInv, TypeOK
  <1>2. /\ height' = height /\ where' = [where EXCEPT ![x] = Unknown]
        /\ where[x] = Pending /\ req' = Witnessed(req, where')
        /\ UNCHANGED <<cache, lock, faults>>
    BY DEF Drop
  <1> QED BY <1>1, <1>2, NodeStep DEF Pending

\* A block is accepted, which leaves every view behind.
LEMMA AddBlockStep ==
    ASSUME IInv, NEW confirmed \in SUBSET Txs, AddBlock(confirmed)
    PROVE  IInv'
  <1>1. where \in [Txs -> {Unknown, Pending} \cup 1 .. height] /\ height \in Nat
    BY DEF IInv, TypeOK
  <1>2. /\ height' = height + 1
        /\ where' = [x \in Txs |-> IF x \in confirmed THEN height + 1 ELSE where[x]]
        /\ \A x \in confirmed : where[x] \in {Unknown, Pending}
        /\ req' = Witnessed(req, where')
        /\ UNCHANGED <<cache, lock, faults>>
    BY DEF AddBlock
  <1>3. where' \in [Txs -> {Unknown, Pending} \cup 1 .. height']
    BY <1>1, <1>2
  <1>4. \A x \in Txs : where[x] \in 1 .. height => where'[x] = where[x]
    BY <1>1, <1>2 DEF Unknown, Pending
  <1>5. \A x \in Txs : \/ where'[x] \in {where[x], Unknown, Pending}
                       \/ where'[x] = height + 1 /\ height' = height + 1
    BY <1>1, <1>2
  <1> QED BY <1>2, <1>3, <1>4, <1>5, NodeStep

-----------------------------------------------------------------------------

\* A step of something else.
LEMMA StutterStep == IInv /\ UNCHANGED vars => IInv'
  <1> SUFFICES ASSUME IInv, UNCHANGED vars PROVE IInv'
    OBVIOUS
  <1>1. UNCHANGED <<height, where, cache, lock, req, faults>>
    BY DEF vars
  <1>2. TypeOK'
    BY <1>1 DEF IInv, TypeOK
  <1>3. ASSUME NEW r \in Requests PROVE Fits(req[r])'
    <2>1. Fits(req[r])
      BY DEF IInv
    <2>2. ViewFits(req[r])'
      BY <1>1, <2>1 DEF Fits, ViewFits
    <2>3. AddressFits(req[r])'
      BY <1>1, <2>1 DEF Fits, AddressFits
    <2>4. TransactionFits(req[r])'
      BY <1>1, <2>1 DEF Fits, TransactionFits
    <2> QED BY <2>2, <2>3, <2>4 DEF Fits
  <1> QED BY <1>2, <1>3 DEF IInv

\* IInv is inductive.
LEMMA NextStep == IInv /\ [Next]_vars => IInv'
  <1> SUFFICES ASSUME IInv, [Next]_vars PROVE IInv'
    OBVIOUS
  <1>1. ASSUME NEW r \in Requests, NEW op \in Ops, NEW x \in Txs, Start(r, op, x)
        PROVE  IInv'
    BY <1>1, StartStep
  <1>2. ASSUME NEW r \in Requests, Step(r)
        PROVE  IInv'
    BY <1>2, ReadTipStep, AcquireStep, FetchStep, ReadPendingStep, FindStep,
       ReadInfoStep, ReadLatestStep, ReadStatusStep DEF Step
  <1>3. ASSUME NEW r \in Requests, Fail(r)
        PROVE  IInv'
    BY <1>3, FailStep
  <1>4. ASSUME NEW x \in Txs, Submit(x) \/ Drop(x)
        PROVE  IInv'
    BY <1>4, SubmitStep, DropStep
  <1>5. ASSUME NEW confirmed \in SUBSET Txs, AddBlock(confirmed)
        PROVE  IInv'
    BY <1>5, AddBlockStep
  <1> QED BY <1>1, <1>2, <1>3, <1>4, <1>5, StutterStep DEF Next

\* The queries' local variables fit the chain in every reachable state
\* (explorer_service.py, every await of get_chain_view, get_transaction,
\* search, get_address_detail and get_stats).
THEOREM Invariance == Spec => []IInv
  BY InitIInv, NextStep, PTL DEF Spec

\* A query is only ever given a view of the chain as it was while the query
\* ran, and get_address_detail pairs balance and history of one tip unless two
\* blocks came meanwhile.
THEOREM FreshTheorem == Spec => []ViewsAreFresh
  <1>1. IInv => ViewsAreFresh
    BY DEF IInv, Fits, ViewFits, AddressFits, ViewsAreFresh
  <1> QED BY <1>1, Invariance, PTL

\* get_transaction reports a place where the transaction really was during the
\* query, and search misses one only when a block came in between.
THEOREM FoundTheorem == Spec => []TransactionsAreFound
  <1>1. IInv => TransactionsAreFound
    BY DEF IInv, Fits, TransactionFits, TransactionsAreFound
  <1> QED BY <1>1, Invariance, PTL

-----------------------------------------------------------------------------
(* WebSocketManager.                                                         *)

WS == INSTANCE WebSocketManager

Messages == {Status, Pong} \cup Nat

Queues == Seq(Messages)

Sessions ==
    [pc : {"idle", "accept", "status", "loop", "join", "close", "lost"},
     ip : IPs \cup {WS!NoClient.ip}, done : BOOLEAN, queue : Queues,
     writer : {"none", "get", "send", "ended"}, out : Queues,
     shut : BOOLEAN, got : Queues, missed : SUBSET Nat]

SocketsType ==
    /\ ws \in [Sockets -> Sessions]
    /\ clients \in Seq(Sockets)
    /\ total \in Int
    /\ counts \in [IPs -> Int]
    /\ running \in BOOLEAN
    /\ stopper \in {"no", "loop", "await", "done"}
    /\ sent \in Nat

\* There is a writer from the moment the client joins; what it sends is one
\* message.
SessionFits(w) ==
    /\ w.pc # "idle" => w.ip \in IPs
    /\ w.pc \in {"idle", "accept", "status"} =>
          w.writer = "none" /\ w.out = <<>> /\ w.got = <<>> /\ w.missed = {}
    /\ w.pc = "loop" => w.writer # "none"
    /\ w.pc = "loop" /\ w.writer # "send" => w.out = <<>>
    /\ w.writer = "send" => w.out # <<>> /\ Len(w.out) = 1
    /\ w.pc = "lost" => w.shut /\ w.writer = "ended"

\* Once the handlers are cancelled, nobody is served any more.
StopFits(w, phase) ==
    /\ phase \in {"await", "done"} => w.pc \in {"idle", "join", "close", "lost"}
    /\ phase = "done" => w.pc \in {"idle", "lost"}

\* A client is listed from the moment it joins until its slot is released.
Listed(w, s, list) ==
    /\ w.pc = "loop" => \E i \in 1 .. Len(list) : list[i] = s
    /\ w.writer = "none" => \A i \in 1 .. Len(list) : list[i] # s

Distinct(list) == \A i, j \in 1 .. Len(list) : list[i] = list[j] => i = j

Counted(reserved, per_ip, hs, sessions) ==
    /\ IsFiniteSet(hs)
    /\ reserved = Cardinality(hs)
    /\ \A ip \in IPs : per_ip[ip] = Cardinality({s \in hs : sessions[s].ip = ip})
    /\ reserved <= ws_max_clients
    /\ \A ip \in IPs : per_ip[ip] <= ws_max_clients_per_ip

SlotsInv ==
    /\ SocketsType
    /\ Distinct(clients)
    /\ stopper # "no" => ~running
    /\ handlers = {s \in Sockets : ws[s].pc # "idle"}
    /\ Counted(total, counts, handlers, ws)
    /\ \A s \in Sockets : /\ SessionFits(ws[s])
                          /\ StopFits(ws[s], stopper)
                          /\ Listed(ws[s], s, clients)

-----------------------------------------------------------------------------
(* The slots.                                                                *)

\* The operators of the libraries are what they are in the instance as well.
LEMMA SameOperators ==
    /\ \A S : WS!Cardinality(S) = Cardinality(S)
    /\ \A list : WS!ToSet(list) = ToSet(list)
    /\ \A list, e : WS!RemoveFirst(list, e) = RemoveFirst(list, e)
  <1>1. \A S : WS!Cardinality(S) = Cardinality(S)
    BY Zenon DEF WS!Cardinality, Cardinality
  <1>2. \A list : WS!ToSet(list) = ToSet(list)
    BY Zenon DEF WS!ToSet, ToSet
  <1>3. \A list, e : WS!RemoveFirst(list, e) = RemoveFirst(list, e)
    BY Zenon DEF WS!RemoveFirst, WS!RemoveAt, WS!SelectInSeq, WS!Min,
                 RemoveFirst, RemoveAt, SelectInSeq, Min
  <1> QED BY <1>1, <1>2, <1>3

\* There is an empty queue.
LEMMA EmptyQueue == <<>> \in Queues
  BY DEF Queues

\* No connection, no slot.
LEMMA SlotsInit == ASSUME WS!WebSocketAssumption PROVE WS!Init => SlotsInv
  <1> SUFFICES ASSUME WS!Init PROVE SlotsInv
    OBVIOUS
  <1>1. WS!NoClient \in Sessions
    BY EmptyQueue DEF WS!NoClient, Sessions
  <1>2. SocketsType
    BY <1>1 DEF WS!Init, SocketsType
  <1>3. \A s \in Sockets : ws[s] = WS!NoClient
    BY DEF WS!Init
  <1>4. \A s \in Sockets : /\ SessionFits(ws[s])
                           /\ StopFits(ws[s], stopper)
                           /\ Listed(ws[s], s, clients)
    BY <1>3 DEF WS!Init, WS!NoClient, SessionFits, StopFits, Listed
  <1>5. handlers = {s \in Sockets : ws[s].pc # "idle"}
    BY <1>3 DEF WS!Init, WS!NoClient
  <1>6. \A ip \in IPs : {s \in handlers : ws[s].ip = ip} = {}
    BY DEF WS!Init
  <1>7. Counted(total, counts, handlers, ws)
    BY <1>6, FS_EmptySet DEF Counted, WS!Init, WS!WebSocketAssumption
  <1>8. Distinct(clients)
    BY DEF Distinct, WS!Init
  <1>9. stopper # "no" => ~running
    BY DEF WS!Init
  <1> QED BY <1>2, <1>4, <1>5, <1>7, <1>8, <1>9 DEF SlotsInv

\* A step that gives and takes no slot, whatever it makes of the sessions.
Refit ==
    /\ ws' \in [Sockets -> Sessions]
    /\ \A r \in Sockets :
          /\ ws'[r].ip = ws[r].ip /\ (ws'[r].pc = "idle") = (ws[r].pc = "idle")
          /\ SessionFits(ws'[r]) /\ StopFits(ws'[r], stopper') /\ Listed(ws'[r], r, clients)
    /\ running' \in BOOLEAN /\ stopper' \in {"no", "loop", "await", "done"}
    /\ stopper' # "no" => ~running'
    /\ sent' \in Nat
    /\ UNCHANGED <<clients, handlers, total, counts>>

\* The counters and the list are untouched by it.
LEMMA RefitSlots ==
    ASSUME SlotsInv, Refit
    PROVE  SlotsInv'
  <1>1. SocketsType'
    BY DEF SlotsInv, SocketsType, Refit
  <1>2. Distinct(clients)' /\ (stopper # "no" => ~running)'
    BY DEF SlotsInv, Distinct, Refit
  <1>3. \A r \in Sockets : ws'[r].ip = ws[r].ip /\ (ws'[r].pc = "idle") = (ws[r].pc = "idle")
    BY DEF Refit
  <1>4. handlers' = {r \in Sockets : ws'[r].pc # "idle"} /\ handlers \subseteq Sockets
    BY <1>3 DEF Refit, SlotsInv
  <1>5. \A ip \in IPs : {r \in handlers : ws'[r].ip = ip} = {r \in handlers : ws[r].ip = ip}
    BY <1>3, <1>4
  <1>6. Counted(total, counts, handlers, ws)'
    BY <1>5 DEF SlotsInv, Counted, Refit
  <1>7. \A r \in Sockets : /\ SessionFits(ws[r])' /\ StopFits(ws[r], stopper)'
                            /\ Listed(ws[r], r, clients)'
    BY DEF Refit, SessionFits, StopFits, Listed
  <1> QED BY <1>1, <1>2, <1>4, <1>6, <1>7 DEF SlotsInv

\* What a step makes of one session that keeps its slot.
Turned(s, w) ==
    /\ ws' = [ws EXCEPT ![s] = w]
    /\ w \in Sessions
    /\ SessionFits(w)
    /\ w.ip = ws[s].ip
    /\ w.pc # "idle" /\ ws[s].pc # "idle"
    /\ StopFits(w, stopper)
    /\ Listed(w, s, clients)
    /\ UNCHANGED <<clients, handlers, total, counts, running, stopper, sent>>

\* The other sessions are as they were.
LEMMA TurnedSlots ==
    ASSUME SlotsInv, NEW s \in Sockets, NEW w, Turned(s, w)
    PROVE  SlotsInv'
  <1>1. /\ ws' \in [Sockets -> Sessions]
        /\ ws'[s] = w /\ \A r \in Sockets \ {s} : ws'[r] = ws[r]
    BY DEF SlotsInv, SocketsType, Turned
  <1>2. ASSUME NEW r \in Sockets
        PROVE  /\ ws'[r].ip = ws[r].ip /\ (ws'[r].pc = "idle") = (ws[r].pc = "idle")
               /\ SessionFits(ws'[r]) /\ StopFits(ws'[r], stopper') /\ Listed(ws'[r], r, clients)
    <2>1. CASE r = s
      BY <1>1, <2>1 DEF Turned
    <2>2. CASE r # s
      BY <1>1, <2>2 DEF SlotsInv, Turned
    <2> QED BY <2>1, <2>2
  <1>3. Refit
    BY <1>1, <1>2 DEF Refit, Turned, SlotsInv, SocketsType
  <1> QED BY <1>3, RefitSlots

\* Admission takes a slot, of the connection's address too, before the handshake.
LEMMA ConnectSlots ==
    ASSUME WS!WebSocketAssumption, SlotsInv,
           NEW s \in Sockets, NEW ip \in IPs, WS!Connect(s, ip)
    PROVE  SlotsInv'
  <1> DEFINE w == [ws[s] EXCEPT !.pc = "accept", !.ip = ip]
  <1>1. /\ ws \in [Sockets -> Sessions] /\ ws[s] \in Sessions /\ ws[s].pc = "idle"
        /\ SessionFits(ws[s]) /\ StopFits(ws[s], stopper) /\ Listed(ws[s], s, clients)
    BY DEF SlotsInv, SocketsType, WS!Connect
  <1>2. /\ ws' = [ws EXCEPT ![s] = w]
        /\ handlers' = handlers \cup {s} /\ total' = total + 1
        /\ counts' = [counts EXCEPT ![ip] = counts[ip] + 1]
        /\ UNCHANGED <<clients, running, stopper, sent>>
        /\ running /\ total < ws_max_clients /\ counts[ip] < ws_max_clients_per_ip
    BY <1>1 DEF WS!Connect, WS!Admits, WS!service
  <1>3. /\ w \in Sessions /\ w.pc = "accept" /\ w.ip = ip
        /\ w.writer = ws[s].writer /\ w.out = ws[s].out /\ w.got = ws[s].got
        /\ w.missed = ws[s].missed
    BY <1>1 DEF Sessions
  <1> HIDE DEF w
  <1>4. ws' \in [Sockets -> Sessions] /\ ws'[s] = w /\ \A r \in Sockets \ {s} : ws'[r] = ws[r]
    BY <1>1, <1>2, <1>3
  <1>5. SocketsType'
    BY <1>2, <1>4 DEF SlotsInv, SocketsType
  <1>6. Distinct(clients)' /\ (stopper # "no" => ~running)' /\ stopper = "no"
    BY <1>2 DEF SlotsInv, Distinct
  <1>7. handlers' = {r \in Sockets : ws'[r].pc # "idle"}
    BY <1>2, <1>3, <1>4 DEF SlotsInv
  <1>8. s \notin handlers /\ handlers \subseteq Sockets /\ IsFiniteSet(handlers)
    BY <1>1 DEF SlotsInv, Counted
  <1>9. Counted(total, counts, handlers, ws)'
    <2> DEFINE Of(j) == {r \in handlers : ws[r].ip = j}
    <2>1. IsFiniteSet(handlers') /\ Cardinality(handlers') = Cardinality(handlers) + 1
      BY <1>2, <1>8, FS_AddElement
    <2>2. total' = Cardinality(handlers') /\ total' <= ws_max_clients
      BY <1>2, <2>1 DEF SlotsInv, Counted, SocketsType, WS!WebSocketAssumption
    <2>3. counts \in [IPs -> Int] /\ \A j \in IPs : counts[j] = Cardinality(Of(j))
                                                    /\ counts[j] <= ws_max_clients_per_ip
      BY DEF SlotsInv, Counted, SocketsType
    <2>4. \A j \in IPs : IsFiniteSet(Of(j)) /\ s \notin Of(j)
      BY <1>8, FS_Subset
    <2>5. ASSUME NEW j \in IPs
          PROVE  /\ counts'[j] = Cardinality({r \in handlers' : ws'[r].ip = j})
                 /\ counts'[j] <= ws_max_clients_per_ip
      <3>1. CASE j = ip
        <4>1. {r \in handlers' : ws'[r].ip = j} = Of(j) \cup {s}
          BY <1>2, <1>3, <1>4, <1>8, <3>1
        <4> HIDE DEF Of
        <4>2. Cardinality(Of(j) \cup {s}) = Cardinality(Of(j)) + 1
          BY <2>4, FS_AddElement
        <4>3. counts'[j] = counts[j] + 1 /\ counts[j] \in Int
          BY <1>2, <2>3, <3>1
        <4>4. counts'[j] <= ws_max_clients_per_ip
          BY <1>2, <3>1, <4>3 DEF WS!WebSocketAssumption
        <4> QED BY <2>3, <4>1, <4>2, <4>3, <4>4
      <3>2. CASE j # ip
        <4>1. {r \in handlers' : ws'[r].ip = j} = Of(j)
          BY <1>2, <1>3, <1>4, <1>8, <3>2
        <4>2. counts'[j] = counts[j]
          BY <1>2, <2>3, <3>2
        <4> QED BY <2>3, <4>1, <4>2
      <3> QED BY <3>1, <3>2
    <2> QED BY <2>1, <2>2, <2>5 DEF Counted
  <1>10. ASSUME NEW r \in Sockets
         PROVE  SessionFits(ws[r])' /\ StopFits(ws[r], stopper)' /\ Listed(ws[r], r, clients)'
    <2>1. CASE r = s
      <3>1. w.writer = "none" /\ w.out = <<>> /\ w.got = <<>> /\ w.missed = {}
        BY <1>1, <1>3 DEF SessionFits
      <3>2. SessionFits(w)
        BY <1>3, <3>1 DEF SessionFits
      <3>3. StopFits(w, stopper) /\ Listed(w, s, clients)
        BY <1>1, <1>3, <1>6, <3>1 DEF StopFits, Listed
      <3> QED BY <1>2, <1>4, <2>1, <3>2, <3>3 DEF SessionFits, StopFits, Listed
    <2>2. CASE r # s
      BY <1>2, <1>4, <2>2 DEF SlotsInv, SessionFits, StopFits, Listed
    <2> QED BY <2>1, <2>2
  <1> QED BY <1>5, <1>6, <1>7, <1>9, <1>10 DEF SlotsInv

\* t lists what list does, except s.
ListsTheRest(t, list, s, S) ==
    /\ t \in Seq(S)
    /\ Distinct(t)
    /\ \A i \in 1 .. Len(t) : t[i] # s
    /\ \A r : r # s => ((\E i \in 1 .. Len(list) : list[i] = r) <=>
                        (\E i \in 1 .. Len(t) : t[i] = r))

\* The list without one client: the others are still in it, once.
LEMMA Unlisted ==
    ASSUME NEW S, NEW list \in Seq(S), NEW s, Distinct(list)
    PROVE  ListsTheRest(RemoveFirst(list, s), list, s, S)
  <1> DEFINE t == RemoveFirst(list, s)
  <1>1. CASE \E i \in 1 .. Len(list) : list[i] = s
    <2>1a. PICK k \in 1 .. Len(list) : ClosesGap(t, list, k, s, S)
      BY <1>1, RemoveFirstProperties
    <2>1. /\ list[k] = s
          /\ t \in Seq(S)
          /\ Len(t) = Len(list) - 1
          /\ \A j \in 1 .. (Len(list) - 1) : t[j] = IF j < k THEN list[j] ELSE list[j + 1]
      BY <2>1a DEF ClosesGap
    <2> HIDE DEF t
    <2>2. \A i \in 1 .. Len(t) : t[i] # s
      BY <2>1 DEF Distinct
    <2>3. Distinct(t)
      BY <2>1 DEF Distinct
    <2>4. ASSUME NEW r, r # s, NEW i \in 1 .. Len(list), list[i] = r
          PROVE  \E j \in 1 .. Len(t) : t[j] = r
      <3>1. CASE i < k
        BY <2>1, <2>4, <3>1
      <3>2. CASE i > k
        <4>1. i - 1 \in 1 .. Len(t) /\ ~(i - 1 < k) /\ (i - 1) + 1 = i
          BY <2>1, <3>2
        <4> QED BY <2>1, <2>4, <4>1
      <3> QED BY <2>1, <2>4, <3>1, <3>2
    <2>5. ASSUME NEW r, r # s, NEW i \in 1 .. Len(t), t[i] = r
          PROVE  \E j \in 1 .. Len(list) : list[j] = r
      <3>1. i \in 1 .. Len(list) /\ i + 1 \in 1 .. Len(list)
        BY <2>1
      <3> QED BY <2>1, <2>5, <3>1
    <2>6. ListsTheRest(t, list, s, S)
      BY <2>1, <2>2, <2>3, <2>4, <2>5 DEF ListsTheRest
    <2> QED BY <2>6 DEF t
  <1>2. CASE ~\E i \in 1 .. Len(list) : list[i] = s
    <2>1. RemoveFirst(list, s) = list
      BY <1>2 DEF RemoveFirst
    <2> QED BY <1>2, <2>1 DEF ListsTheRest
  <1> QED BY <1>1, <1>2

\* The finally block of the cleanup gives the slot back, once.
LEMMA ReleaseSlots ==
    ASSUME WS!WebSocketAssumption, SlotsInv, NEW s \in Sockets,
           ws[s].pc # "idle", WS!Release(s),
           UNCHANGED <<running, stopper, sent>>
    PROVE  SlotsInv'
  <1> DEFINE w == WS!NoClient
             ip == ws[s].ip
  <1>1. ws \in [Sockets -> Sessions] /\ ip \in IPs
    BY DEF SlotsInv, SocketsType, SessionFits
  <1>2. /\ ws' = [ws EXCEPT ![s] = w]
        /\ clients' = RemoveFirst(clients, s)
        /\ handlers' = handlers \ {s} /\ total' = total - 1
        /\ counts' = [counts EXCEPT ![ip] = counts[ip] - 1]
    BY SameOperators DEF WS!Release
  <1>3. /\ w \in Sessions /\ w.pc = "idle" /\ w.writer = "none" /\ w.out = <<>>
        /\ w.got = <<>> /\ w.missed = {}
    BY EmptyQueue DEF WS!NoClient, Sessions
  <1>3a. SessionFits(w) /\ StopFits(w, stopper)
    BY <1>3 DEF SessionFits, StopFits
  <1> HIDE DEF w, ip
  <1>4. ws' \in [Sockets -> Sessions] /\ ws'[s] = w /\ \A r \in Sockets \ {s} : ws'[r] = ws[r]
    BY <1>1, <1>2, <1>3
  <1>5. ListsTheRest(clients', clients, s, Sockets)
    <2>1. clients \in Seq(Sockets) /\ Distinct(clients)
      BY DEF SlotsInv, SocketsType
    <2> QED BY <1>2, <2>1, Unlisted
  <1>6. SocketsType'
    BY <1>1, <1>2, <1>4, <1>5 DEF SlotsInv, SocketsType, ListsTheRest
  <1>7. (stopper # "no" => ~running)'
    BY DEF SlotsInv
  <1>8. handlers' = {r \in Sockets : ws'[r].pc # "idle"}
    BY <1>2, <1>3, <1>4 DEF SlotsInv
  <1>9. s \in handlers /\ handlers \subseteq Sockets /\ IsFiniteSet(handlers)
    BY DEF SlotsInv, Counted
  <1>10. Counted(total, counts, handlers, ws)'
    <2> DEFINE Of(j) == {r \in handlers : ws[r].ip = j}
    <2>1. IsFiniteSet(handlers') /\ Cardinality(handlers') = Cardinality(handlers) - 1
      BY <1>2, <1>9, FS_RemoveElement
    <2>2. total' = Cardinality(handlers') /\ total' <= ws_max_clients
      BY <1>2, <2>1 DEF SlotsInv, Counted, SocketsType, WS!WebSocketAssumption
    <2>3. counts \in [IPs -> Int] /\ \A j \in IPs : counts[j] = Cardinality(Of(j))
                                                    /\ counts[j] <= ws_max_clients_per_ip
      BY DEF SlotsInv, Counted, SocketsType
    <2>4. \A j \in IPs : IsFiniteSet(Of(j))
      BY <1>9, FS_Subset
    <2>5. ASSUME NEW j \in IPs
          PROVE  /\ counts'[j] = Cardinality({r \in handlers' : ws'[r].ip = j})
                 /\ counts'[j] <= ws_max_clients_per_ip
      <3>1. CASE j = ip
        <4>1. {r \in handlers' : ws'[r].ip = j} = Of(j) \ {s} /\ s \in Of(j)
          BY <1>2, <1>3, <1>4, <1>9, <3>1 DEF ip
        <4> HIDE DEF Of
        <4>2. Cardinality(Of(j) \ {s}) = Cardinality(Of(j)) - 1
          BY <2>4, <4>1, FS_RemoveElement
        <4>3. counts'[j] = counts[j] - 1 /\ counts[j] \in Int
          BY <1>1, <1>2, <2>3, <3>1
        <4>4. counts'[j] <= ws_max_clients_per_ip
          BY <2>3, <4>3 DEF WS!WebSocketAssumption
        <4> QED BY <2>3, <4>1, <4>2, <4>3, <4>4
      <3>2. CASE j # ip
        <4>1. {r \in handlers' : ws'[r].ip = j} = Of(j)
          BY <1>2, <1>4, <1>9, <3>2 DEF ip
        <4>2. counts'[j] = counts[j]
          BY <1>2, <2>3, <3>2
        <4> QED BY <2>3, <4>1, <4>2
      <3> QED BY <3>1, <3>2
    <2> QED BY <2>1, <2>2, <2>5 DEF Counted
  <1>11. ASSUME NEW r \in Sockets
         PROVE  SessionFits(ws[r])' /\ StopFits(ws[r], stopper)' /\ Listed(ws[r], r, clients)'
    <2>1. CASE r = s
      <3>1. Listed(w, s, clients')
        BY <1>3, <1>5 DEF Listed, ListsTheRest
      <3> QED BY <1>4, <1>3a, <2>1, <3>1 DEF SessionFits, StopFits, Listed
    <2>2. CASE r # s
      <3>1. SessionFits(ws[r]) /\ StopFits(ws[r], stopper) /\ Listed(ws[r], r, clients)
        BY DEF SlotsInv
      <3>2. Listed(ws[r], r, clients')
        BY <1>5, <2>2, <3>1, Zenon DEF Listed, ListsTheRest
      <3> QED BY <1>4, <2>2, <3>1, <3>2 DEF SessionFits, StopFits, Listed
    <2> QED BY <2>1, <2>2
  <1> QED BY <1>5, <1>6, <1>7, <1>8, <1>10, <1>11 DEF SlotsInv, ListsTheRest

-----------------------------------------------------------------------------
(* Streams of messages.                                                      *)

\* The critical messages of a stream.
News(t) == {n \in Nat : \E i \in 1 .. Len(t) : t[i] = n}

InOrder(t) ==
    \A i, j \in 1 .. Len(t) : i < j /\ t[i] \in Nat /\ t[j] \in Nat => t[i] < t[j]

\* u tells a client the same as t.
SameNews(t, u) == News(u) = News(t) /\ (InOrder(t) => InOrder(u))

\* A status frame or a pong in the middle of a stream may go.
LEMMA DropOther ==
    ASSUME NEW S, NEW t \in Seq(S), NEW u \in Seq(S), NEW x \in S, x \notin Nat
    PROVE  SameNews((t \o <<x>>) \o u, t \o u)
  <1> DEFINE tx == t \o <<x>>
             long == tx \o u
             short == t \o u
             k == Len(t) + 1
             n == Len(u)
  <1>1. /\ Len(t) \in Nat /\ n \in Nat /\ k \in Nat /\ k = Len(t) + 1 /\ n = Len(u)
        /\ <<x>> \in Seq(S) /\ Len(<<x>>) = 1 /\ <<x>>[1] = x
    OBVIOUS
  <1> HIDE DEF k, n
  <1>2. /\ tx \in Seq(S) /\ Len(tx) = k
        /\ \A i \in 1 .. Len(t) : tx[i] = t[i]
        /\ tx[k] = x
    BY <1>1, ConcatProperties
  <1> HIDE DEF tx
  <1>3. /\ Len(long) = k + n
        /\ \A i \in 1 .. (k + n) : long[i] = IF i <= k THEN tx[i] ELSE u[i - k]
    <2>1. /\ Len(long) = Len(tx) + Len(u)
          /\ \A i \in 1 .. (Len(tx) + Len(u)) :
                long[i] = IF i <= Len(tx) THEN tx[i] ELSE u[i - Len(tx)]
      BY <1>2, ConcatProperties
    <2> QED BY <1>1, <1>2, <2>1
  <1>4. /\ Len(short) = (k - 1) + n
        /\ \A i \in 1 .. ((k - 1) + n) :
              short[i] = IF i <= k - 1 THEN t[i] ELSE u[i - (k - 1)]
    <2>1. /\ Len(short) = Len(t) + Len(u)
          /\ \A i \in 1 .. (Len(t) + Len(u)) :
                short[i] = IF i <= Len(t) THEN t[i] ELSE u[i - Len(t)]
      BY ConcatProperties
    <2>2. Len(t) = k - 1
      BY <1>1
    <2> QED BY <1>1, <2>1, <2>2
  <1> HIDE DEF long, short
  \* Where an element of the shorter one is in the longer one, and back.
  <1>5. \A i \in 1 .. Len(short) :
            /\ i < k => i \in 1 .. Len(long) /\ long[i] = short[i]
            /\ i >= k => i + 1 \in 1 .. Len(long) /\ long[i + 1] = short[i]
    <2> TAKE i \in 1 .. Len(short)
    <2>1. ASSUME i < k PROVE i \in 1 .. Len(long) /\ long[i] = short[i]
      <3>1. i \in 1 .. (k + n) /\ i \in 1 .. ((k - 1) + n) /\ i <= k /\ i <= k - 1
            /\ i \in 1 .. Len(t)
        BY <1>1, <1>4, <2>1
      <3> QED BY <1>2, <1>3, <1>4, <3>1
    <2>2. ASSUME i >= k PROVE i + 1 \in 1 .. Len(long) /\ long[i + 1] = short[i]
      <3>1. /\ i + 1 \in 1 .. (k + n) /\ i \in 1 .. ((k - 1) + n)
            /\ ~(i + 1 <= k) /\ ~(i <= k - 1) /\ (i + 1) - k = i - (k - 1)
        BY <1>1, <1>4, <2>2
      <3> QED BY <1>3, <1>4, <3>1
    <2> QED BY <2>1, <2>2
  <1>6. \A i \in 1 .. Len(long) :
            /\ i < k => i \in 1 .. Len(short) /\ long[i] = short[i]
            /\ i > k => i - 1 \in 1 .. Len(short) /\ long[i] = short[i - 1]
            /\ i = k => long[i] = x
    <2> TAKE i \in 1 .. Len(long)
    <2>1. ASSUME i < k PROVE i \in 1 .. Len(short) /\ long[i] = short[i]
      <3>1. i \in 1 .. (k + n) /\ i \in 1 .. ((k - 1) + n) /\ i <= k /\ i <= k - 1
            /\ i \in 1 .. Len(t)
        BY <1>1, <1>3, <2>1
      <3> QED BY <1>2, <1>3, <1>4, <3>1
    <2>2. ASSUME i > k PROVE i - 1 \in 1 .. Len(short) /\ long[i] = short[i - 1]
      <3>1. /\ i \in 1 .. (k + n) /\ i - 1 \in 1 .. ((k - 1) + n)
            /\ ~(i <= k) /\ ~(i - 1 <= k - 1) /\ (i - 1) - (k - 1) = i - k
        BY <1>1, <1>3, <2>2
      <3> QED BY <1>3, <1>4, <3>1
    <2>3. ASSUME i = k PROVE long[i] = x
      <3>1. i \in 1 .. (k + n) /\ i <= k
        BY <1>1, <1>3, <2>3
      <3> QED BY <1>2, <1>3, <2>3, <3>1
    <2> QED BY <2>1, <2>2, <2>3
  <1>7. News(short) = News(long)
    <2>1. ASSUME NEW m \in News(short) PROVE m \in News(long)
      <3>1. PICK i \in 1 .. Len(short) : short[i] = m
        BY DEF News
      <3>2. i < k \/ i >= k
        BY <1>1
      <3> QED BY <1>5, <3>1, <3>2 DEF News
    <2>2. ASSUME NEW m \in News(long) PROVE m \in News(short)
      <3>1. PICK i \in 1 .. Len(long) : long[i] = m
        BY DEF News
      <3>2. m \in Nat /\ (i < k \/ i > k \/ i = k)
        BY <1>1 DEF News
      <3> QED BY <1>6, <3>1, <3>2 DEF News
    <2> QED BY <2>1, <2>2
  <1>8. ASSUME InOrder(long) PROVE InOrder(short)
    <2> SUFFICES ASSUME NEW i \in 1 .. Len(short), NEW j \in 1 .. Len(short),
                        i < j, short[i] \in Nat, short[j] \in Nat
                 PROVE  short[i] < short[j]
      BY DEF InOrder
    <2>1. PICK a \in 1 .. Len(long) : long[a] = short[i] /\ a = IF i < k THEN i ELSE i + 1
      BY <1>1, <1>5
    <2>2. PICK b \in 1 .. Len(long) : long[b] = short[j] /\ b = IF j < k THEN j ELSE j + 1
      BY <1>1, <1>5
    <2>3. a < b
      BY <1>1, <2>1, <2>2
    <2> QED BY <1>8, <2>1, <2>2, <2>3 DEF InOrder
  <1>9. SameNews(long, short)
    BY <1>7, <1>8 DEF SameNews
  <1> QED BY <1>9 DEF long, short, tx

\* What one more message at the end of a stream makes of it.
LEMMA OneMore ==
    ASSUME NEW S, NEW t \in Seq(S), NEW m \in S
    PROVE  /\ m \notin Nat => SameNews(t, Append(t, m))
           /\ m \in Nat => News(Append(t, m)) = News(t) \cup {m}
           /\ m \in Nat /\ InOrder(t) /\ (\A n \in News(t) : n < m)
                => InOrder(Append(t, m))
  <1> DEFINE u == Append(t, m)
  <1>1. /\ Len(t) \in Nat /\ Len(u) = Len(t) + 1 /\ u[Len(t) + 1] = m
        /\ \A i \in 1 .. Len(t) : u[i] = t[i]
    BY AppendProperties
  <1> HIDE DEF u
  <1>2. \A i \in 1 .. Len(u) : i \in 1 .. Len(t) \/ i = Len(t) + 1
    BY <1>1
  <1>3. \A i \in 1 .. Len(t) : i \in 1 .. Len(u)
    BY <1>1
  <1>3a. Len(t) + 1 \in 1 .. Len(u)
    BY <1>1
  <1>4. \A n \in Nat : n \in News(u) <=> n \in News(t) \/ n = m
    BY <1>1, <1>2, <1>3, <1>3a DEF News
  <1>5. ASSUME InOrder(t), m \in Nat => \A n \in News(t) : n < m
        PROVE  InOrder(u)
    <2> SUFFICES ASSUME NEW i \in 1 .. Len(u), NEW j \in 1 .. Len(u),
                        i < j, u[i] \in Nat, u[j] \in Nat
                 PROVE  u[i] < u[j]
      BY DEF InOrder
    <2>1. i \in 1 .. Len(t)
      BY <1>1
    <2>2. CASE j \in 1 .. Len(t)
      BY <1>1, <1>5, <2>1, <2>2 DEF InOrder
    <2>3. CASE j = Len(t) + 1
      <3>1. t[i] \in News(t) /\ u[j] = m /\ u[i] = t[i]
        BY <1>1, <2>1, <2>3 DEF News
      <3> QED BY <1>5, <3>1
    <2> QED BY <1>2, <2>2, <2>3
  <1>6. \A n \in News(t) : n \in Nat
    BY DEF News
  <1>7. m \in Nat => News(u) = News(t) \cup {m}
    BY <1>4, <1>6 DEF News
  <1>8. m \notin Nat => News(u) = News(t)
    BY <1>4, <1>6 DEF News
  <1> QED BY <1>5, <1>7, <1>8 DEF SameNews, u

\* The message at the head of a stream's last part may be counted to the part
\* before it.
LEMMA MoveOver ==
    ASSUME NEW S, NEW t \in Seq(S), NEW q \in Seq(S), q # <<>>
    PROVE  (t \o <<Head(q)>>) \o Tail(q) = t \o q
  <1>1. Head(q) \in S /\ Tail(q) \in Seq(S) /\ <<Head(q)>> \in Seq(S)
    BY HeadTailProperties
  <1>2. q = <<Head(q)>> \o Tail(q)
    BY <1>1, HeadTailProperties, EmptySeq
  <1>3. (t \o <<Head(q)>>) \o Tail(q) = t \o (<<Head(q)>> \o Tail(q))
    BY <1>1, ConcatAssociative
  <1> QED BY <1>2, <1>3

\* One more message in the last part is one more in the stream.
LEMMA AppendLast ==
    ASSUME NEW S, NEW t \in Seq(S), NEW q \in Seq(S), NEW m \in S
    PROVE  t \o Append(q, m) = Append(t \o q, m)
  <1>1. <<m>> \in Seq(S) /\ t \o q \in Seq(S)
    BY ConcatProperties
  <1>2. Append(q, m) = q \o <<m>> /\ Append(t \o q, m) = (t \o q) \o <<m>>
    BY <1>1, AppendIsConcat
  <1>3. (t \o q) \o <<m>> = t \o (q \o <<m>>)
    BY <1>1, ConcatAssociative
  <1> QED BY <1>2, <1>3

-----------------------------------------------------------------------------
(* The steps of one session.                                                 *)

\* A client that is still served has missed nothing by the step from v to w.
Carries(v, w) ==
    w.pc = "loop" /\ ~w.done =>
        /\ v.pc = "loop" /\ ~v.done /\ w.missed = v.missed
        /\ SameNews(WS!Stream(v), WS!Stream(w))

\* What is known of a session.
Given(s, v) ==
    /\ ws \in [Sockets -> Sessions] /\ v = ws[s] /\ v \in Sessions
    /\ SessionFits(v) /\ StopFits(v, stopper) /\ Listed(v, s, clients)

\* It is known of every one.
LEMMA GivenFacts ==
    ASSUME SlotsInv, NEW s \in Sockets
    PROVE  Given(s, ws[s])
  BY DEF SlotsInv, SocketsType, Given

\* The handshake is done.
LEMMA AcceptTurns ==
    ASSUME SlotsInv, NEW s \in Sockets, WS!Accept(s)
    PROVE  \E w : Turned(s, w) /\ Carries(ws[s], w)
  <1> DEFINE v == ws[s]
             w == [v EXCEPT !.pc = "status"]
  <1>1. Given(s, v) /\ v.pc = "accept"
    BY GivenFacts DEF WS!Accept
  <1>2. /\ ws' = [ws EXCEPT ![s] = w]
        /\ UNCHANGED <<clients, handlers, total, counts, running, stopper, sent>>
    BY <1>1 DEF WS!Accept, WS!slots, WS!service
  <1>3. /\ w \in Sessions /\ w.pc = "status" /\ w.ip = v.ip /\ w.writer = v.writer
        /\ w.out = v.out /\ w.shut = v.shut /\ w.got = v.got /\ w.missed = v.missed
    BY <1>1, EmptyQueue DEF Given, Sessions
  <1> HIDE DEF w
  <1>4. SessionFits(w) /\ StopFits(w, stopper) /\ Listed(w, s, clients)
    BY <1>1, <1>3 DEF Given, SessionFits, StopFits, Listed
  <1>5. Turned(s, w)
    BY <1>1, <1>2, <1>3, <1>4 DEF Turned
  <1> QED BY <1>3, <1>5 DEF Carries

\* _cleanup begins.
LEMMA LeaveTurns ==
    ASSUME SlotsInv, NEW s \in Sockets, ws[s].pc \in {"accept", "status", "loop"},
           ws' = WS!LeaveStep(s),
           UNCHANGED <<clients, handlers, total, counts, running, stopper, sent>>
    PROVE  \E w : Turned(s, w) /\ Carries(ws[s], w)
  <1> DEFINE v == ws[s]
             w == [v EXCEPT !.pc = "join", !.done = TRUE, !.queue = <<>>,
                            !.got = <<>>, !.missed = {}]
  <1>1. Given(s, v)
    BY GivenFacts
  <1>2. ws' = [ws EXCEPT ![s] = w]
    BY <1>1 DEF WS!LeaveStep
  <1>3. /\ w \in Sessions /\ w.pc = "join" /\ w.ip = v.ip /\ w.writer = v.writer
        /\ w.out = v.out /\ w.shut = v.shut
    BY <1>1, EmptyQueue DEF Given, Sessions
  <1> HIDE DEF w
  <1>4. SessionFits(w) /\ StopFits(w, stopper) /\ Listed(w, s, clients)
    BY <1>1, <1>3 DEF Given, SessionFits, StopFits, Listed
  <1>5. Turned(s, w)
    BY <1>1, <1>2, <1>3, <1>4 DEF Turned
  <1> QED BY <1>3, <1>5 DEF Carries

\* The messages of a session are sequences.
LEMMA StreamType ==
    ASSUME NEW v \in Sessions
    PROVE  /\ v.got \in Seq(Messages) /\ v.out \in Seq(Messages) /\ v.queue \in Seq(Messages)
           /\ v.got \o v.out \in Seq(Messages)
           /\ WS!Stream(v) = (v.got \o v.out) \o v.queue
           /\ WS!Stream(v) \in Seq(Messages)
  <1>1. v.got \in Seq(Messages) /\ v.out \in Seq(Messages) /\ v.queue \in Seq(Messages)
    BY DEF Sessions, Queues
  <1>2. v.got \o v.out \in Seq(Messages)
    BY <1>1, ConcatProperties
  <1>3. (v.got \o v.out) \o v.queue \in Seq(Messages)
    BY <1>1, <1>2, ConcatProperties
  <1> QED BY <1>1, <1>2, <1>3 DEF WS!Stream

\* The answer to a ping is queued, or ends the connection.
LEMMA PingTurns ==
    ASSUME WS!WebSocketAssumption, SlotsInv, NEW s \in Sockets, WS!Ping(s)
    PROVE  \E w : Turned(s, w) /\ Carries(ws[s], w)
  <1> DEFINE v == ws[s]
             w == [v EXCEPT !.queue = Append(v.queue, Pong)]
  <1>1. /\ Given(s, v) /\ v.pc = "loop"
        /\ UNCHANGED <<clients, handlers, total, counts, running, stopper, sent>>
    BY GivenFacts DEF WS!Ping, WS!slots, WS!service
  <1>2. CASE WS!Full(v.queue)
    BY <1>1, <1>2, LeaveTurns DEF WS!Ping
  <1>3. CASE ~WS!Full(v.queue)
    <2>1. ws' = [ws EXCEPT ![s] = w]
      BY <1>1, <1>3 DEF WS!Ping
    <2>2. Pong \in Messages /\ Pong \notin Nat
      BY DEF Messages, WS!WebSocketAssumption
    <2>3. v \in Sessions /\ Append(v.queue, Pong) \in Queues
      <3>1. v \in Sessions /\ v.queue \in Seq(Messages)
        BY <1>1, StreamType DEF Given
      <3> QED BY <2>2, <3>1, AppendProperties DEF Queues
    <2>4. /\ w \in Sessions /\ w.pc = v.pc /\ w.ip = v.ip /\ w.writer = v.writer
          /\ w.out = v.out /\ w.shut = v.shut /\ w.done = v.done /\ w.missed = v.missed
          /\ w.got = v.got /\ w.queue = Append(v.queue, Pong)
      BY <2>3 DEF Sessions
    <2> HIDE DEF w
    <2>5. SessionFits(w) /\ StopFits(w, stopper) /\ Listed(w, s, clients)
      BY <1>1, <2>4 DEF Given, SessionFits, StopFits, Listed
    <2>6. Turned(s, w)
      BY <1>1, <2>1, <2>4, <2>5 DEF Turned
    <2>7. WS!Stream(w) = Append(WS!Stream(v), Pong)
      <3> DEFINE t == v.got \o v.out
                 q == v.queue
      <3>1. t \in Seq(Messages) /\ q \in Seq(Messages) /\ WS!Stream(v) = t \o q
        BY <2>3, StreamType
      <3>2. WS!Stream(w) = t \o Append(q, Pong)
        BY <2>4, StreamType
      <3> HIDE DEF t, q
      <3>3. t \o Append(q, Pong) = Append(t \o q, Pong)
        BY <2>2, <3>1, AppendLast
      <3> QED BY <3>1, <3>2, <3>3
    <2>8. SameNews(WS!Stream(v), WS!Stream(w))
      <3>1. WS!Stream(v) \in Seq(Messages)
        BY <2>3, StreamType
      <3>2. SameNews(WS!Stream(v), Append(WS!Stream(v), Pong))
        BY <2>2, <3>1, OneMore
      <3> QED BY <2>7, <3>2
    <2>9. Carries(v, w)
      BY <1>1, <2>4, <2>8 DEF Carries
    <2> QED BY <2>6, <2>9
  <1> QED BY <1>2, <1>3

\* The writer takes the next message.
LEMMA TakeTurns ==
    ASSUME WS!WebSocketAssumption, SlotsInv, NEW s \in Sockets, WS!WriterTake(s)
    PROVE  \E w : Turned(s, w) /\ Carries(ws[s], w)
  <1> DEFINE v == ws[s]
             w == [v EXCEPT !.writer = "send", !.out = <<Head(v.queue)>>,
                            !.queue = Tail(v.queue)]
  <1>1. /\ Given(s, v) /\ v.pc = "loop" /\ v.writer = "get" /\ v.queue # <<>>
        /\ UNCHANGED <<clients, handlers, total, counts, running, stopper, sent>>
    BY GivenFacts DEF WS!WriterTake, WS!slots, WS!service
  <1>2. ws' = [ws EXCEPT ![s] = w]
    BY <1>1 DEF WS!WriterTake
  <1>3. /\ v \in Sessions /\ v.queue \in Seq(Messages)
        /\ Tail(v.queue) \in Queues /\ <<Head(v.queue)>> \in Queues
    <2>1. v \in Sessions /\ v.queue \in Seq(Messages)
      BY <1>1, StreamType DEF Given
    <2>2. Head(v.queue) \in Messages /\ Tail(v.queue) \in Seq(Messages)
      BY <1>1, <2>1, HeadTailProperties
    <2> QED BY <2>1, <2>2 DEF Queues
  <1>4. /\ w \in Sessions /\ w.pc = v.pc /\ w.ip = v.ip /\ w.writer = "send"
        /\ w.out = <<Head(v.queue)>> /\ w.shut = v.shut /\ w.done = v.done
        /\ w.missed = v.missed /\ w.got = v.got /\ w.queue = Tail(v.queue)
    BY <1>3, EmptyQueue DEF Sessions
  <1> HIDE DEF w
  <1>5. SessionFits(w) /\ StopFits(w, stopper) /\ Listed(w, s, clients)
    BY <1>1, <1>4 DEF Given, SessionFits, StopFits, Listed
  <1>6. Turned(s, w)
    BY <1>1, <1>2, <1>4, <1>5 DEF Turned
  <1>7. WS!Stream(w) = WS!Stream(v)
    <2>1. v.out = <<>>
      BY <1>1 DEF Given, SessionFits
    <2>2. v.got \in Seq(Messages) /\ WS!Stream(v) = v.got \o v.queue
      BY <1>3, <2>1, StreamType, ConcatEmptySeq
    <2>3. WS!Stream(w) = (v.got \o <<Head(v.queue)>>) \o Tail(v.queue)
      BY <1>4, StreamType
    <2> QED BY <1>1, <1>3, <2>2, <2>3, MoveOver
  <1>8. Carries(v, w)
    BY <1>1, <1>4, <1>7 DEF Carries, SameNews
  <1> QED BY <1>6, <1>8

\* The message has been sent: a critical one is remembered.
LEMMA SentTurns ==
    ASSUME WS!WebSocketAssumption, SlotsInv, NEW s \in Sockets, WS!WriterSent(s)
    PROVE  \E w : Turned(s, w) /\ Carries(ws[s], w)
  <1> DEFINE v == ws[s]
             next == IF v.done THEN "ended" ELSE "get"
             all == IF Head(v.out) \in Nat /\ ~v.done THEN v.got \o v.out ELSE v.got
             w == [v EXCEPT !.writer = next, !.out = <<>>, !.got = all]
  <1>1. /\ Given(s, v) /\ v.pc = "loop" /\ v.writer = "send"
        /\ UNCHANGED <<clients, handlers, total, counts, running, stopper, sent>>
    BY GivenFacts DEF WS!WriterSent, WS!slots, WS!service
  <1>2. ws' = [ws EXCEPT ![s] = w]
    BY <1>1 DEF WS!WriterSent
  <1>3. v \in Sessions /\ all \in Queues /\ next \in {"ended", "get"}
    BY <1>1, StreamType DEF Given, Queues
  <1>4. ~v.done => all = IF Head(v.out) \in Nat THEN v.got \o v.out ELSE v.got
    OBVIOUS
  <1> HIDE DEF all, next
  <1>5. /\ w \in Sessions /\ w.pc = v.pc /\ w.ip = v.ip /\ w.writer = next
        /\ w.out = <<>> /\ w.shut = v.shut /\ w.done = v.done
        /\ w.missed = v.missed /\ w.got = all /\ w.queue = v.queue
    BY <1>3, EmptyQueue DEF Sessions
  <1> HIDE DEF w
  <1>6. SessionFits(w) /\ StopFits(w, stopper) /\ Listed(w, s, clients)
    BY <1>1, <1>3, <1>5 DEF Given, SessionFits, StopFits, Listed
  <1>7. Turned(s, w)
    BY <1>1, <1>2, <1>5, <1>6 DEF Turned
  <1>8. ASSUME ~v.done PROVE SameNews(WS!Stream(v), WS!Stream(w))
    <2>1. v.out \in Seq(Messages) /\ v.out # <<>> /\ Len(v.out) = 1
      BY <1>1, <1>3, StreamType DEF Given, SessionFits
    <2>2. Head(v.out) \in Messages /\ v.out = <<Head(v.out)>>
      BY <2>1
    <2>3. WS!Stream(w) = all \o v.queue
      <3>1. WS!Stream(w) = (all \o <<>>) \o v.queue
        BY <1>5, StreamType
      <3>2. all \o <<>> = all
        BY <1>3, ConcatEmptySeq DEF Queues
      <3> QED BY <3>1, <3>2
    <2>4. CASE Head(v.out) \in Nat
      BY <1>3, <1>4, <1>8, <2>3, <2>4, StreamType DEF SameNews
    <2>5. CASE Head(v.out) \notin Nat
      <3>1. WS!Stream(v) = (v.got \o <<Head(v.out)>>) \o v.queue
        BY <1>3, <2>2, StreamType
      <3>2. WS!Stream(w) = v.got \o v.queue
        BY <1>4, <1>8, <2>3, <2>5
      <3>3. v.got \in Seq(Messages) /\ v.queue \in Seq(Messages)
        BY <1>3, StreamType
      <3>4. SameNews((v.got \o <<Head(v.out)>>) \o v.queue, v.got \o v.queue)
        BY <2>2, <2>5, <3>3, DropOther
      <3> QED BY <3>1, <3>2, <3>4
    <2> QED BY <2>4, <2>5
  <1>9. Carries(v, w)
    BY <1>1, <1>5, <1>8 DEF Carries
  <1> QED BY <1>7, <1>9

\* The writer has failed, or has seen the done event.
LEMMA EndTurns ==
    ASSUME SlotsInv, NEW s \in Sockets, WS!WriterFails(s) \/ WS!WriterStops(s)
    PROVE  \E w : Turned(s, w) /\ Carries(ws[s], w)
  <1> DEFINE v == ws[s]
             failed == [v EXCEPT !.writer = "ended", !.out = <<>>, !.done = TRUE,
                                 !.got = <<>>, !.missed = {}]
             stopped == [v EXCEPT !.writer = "ended"]
  <1>1. /\ Given(s, v) /\ v.pc = "loop"
        /\ UNCHANGED <<clients, handlers, total, counts, running, stopper, sent>>
    BY GivenFacts DEF WS!WriterFails, WS!WriterStops, WS!slots, WS!service
  <1>2. PICK w : /\ ws' = [ws EXCEPT ![s] = w]
                 /\ w \in Sessions /\ w.pc = v.pc /\ w.ip = v.ip /\ w.writer = "ended"
                 /\ w.out = <<>> /\ w.shut = v.shut /\ w.done
    <2>1. CASE WS!WriterFails(s)
      <3>1. ws' = [ws EXCEPT ![s] = failed]
        BY <1>1, <2>1 DEF WS!WriterFails
      <3>2. /\ failed \in Sessions /\ failed.pc = v.pc /\ failed.ip = v.ip
            /\ failed.writer = "ended" /\ failed.out = <<>> /\ failed.shut = v.shut
            /\ failed.done
        BY <1>1, EmptyQueue DEF Given, Sessions
      <3> HIDE DEF failed
      <3> QED BY <3>1, <3>2
    <2>2. CASE WS!WriterStops(s)
      <3>1. ws' = [ws EXCEPT ![s] = stopped] /\ v.out = <<>> /\ v.done
        BY <1>1, <2>2 DEF WS!WriterStops, Given, SessionFits
      <3>2. /\ stopped \in Sessions /\ stopped.pc = v.pc /\ stopped.ip = v.ip
            /\ stopped.writer = "ended" /\ stopped.out = v.out /\ stopped.shut = v.shut
            /\ stopped.done = v.done
        BY <1>1 DEF Given, Sessions
      <3> HIDE DEF stopped
      <3> QED BY <3>1, <3>2
    <2> QED BY <2>1, <2>2
  <1>3. SessionFits(w) /\ StopFits(w, stopper) /\ Listed(w, s, clients)
    BY <1>1, <1>2 DEF Given, SessionFits, StopFits, Listed
  <1>4. Turned(s, w)
    BY <1>1, <1>2, <1>3 DEF Turned
  <1> QED BY <1>2, <1>4 DEF Carries

\* The writer has ended, and the cleanup goes on, or it was cancelled for good.
LEMMA CleanupTurns ==
    ASSUME SlotsInv, NEW s \in Sockets,
           \/ WS!Joined(s)
           \/ WS!Losing(s) /\ ws' = WS!LostStep(s) /\ UNCHANGED WS!slots
           \/ /\ ws[s].pc \in {"join", "close"}
              /\ ws' = [ws EXCEPT ![s].shut = TRUE]
              /\ UNCHANGED WS!slots,
           UNCHANGED <<running, stopper, sent>>
    PROVE  \E w : Turned(s, w) /\ Carries(ws[s], w)
  <1> DEFINE v == ws[s]
             joined == [v EXCEPT !.pc = "close", !.out = <<>>,
                                 !.writer = IF v.writer = "none" THEN v.writer ELSE "ended"]
             lost == [v EXCEPT !.pc = "lost", !.writer = "ended", !.out = <<>>]
             shut == [v EXCEPT !.shut = TRUE]
  <1>1. /\ Given(s, v) /\ v \in Sessions /\ v.pc \in {"join", "close"}
        /\ UNCHANGED <<clients, handlers, total, counts, running, stopper, sent>>
    BY GivenFacts DEF WS!Joined, WS!Losing, WS!slots, WS!service, Given
  <1>2. ASSUME NEW w, ws' = [ws EXCEPT ![s] = w],
               w \in Sessions, w.ip = v.ip, w.pc \in {"join", "close", "lost"},
               w.pc = "lost" => v.pc = "join" /\ w.shut /\ w.writer = "ended",
               w.pc = "join" => v.pc = "join",
               w.writer = "none" => v.writer = "none",
               w.writer = "send" => v.writer = "send" /\ w.out = v.out
        PROVE  Turned(s, w) /\ Carries(v, w)
    <2>1. SessionFits(w)
      BY <1>1, <1>2 DEF Given, SessionFits
    <2>2. StopFits(w, stopper) /\ Listed(w, s, clients)
      BY <1>1, <1>2 DEF Given, StopFits, Listed
    <2>3. Turned(s, w)
      BY <1>1, <1>2, <2>1, <2>2 DEF Turned
    <2> QED BY <1>2, <2>3 DEF Carries
  <1>3. CASE WS!Joined(s)
    <2>1. v.pc = "join" /\ ws' = [ws EXCEPT ![s] = joined]
      BY <1>1, <1>3 DEF WS!Joined
    <2>2. /\ joined \in Sessions /\ joined.ip = v.ip /\ joined.pc = "close"
          /\ joined.writer = IF v.writer = "none" THEN v.writer ELSE "ended"
      BY <1>1, EmptyQueue DEF Sessions
    <2> HIDE DEF joined
    <2> QED BY <1>2, <2>1, <2>2
  <1>4. CASE WS!Losing(s) /\ ws' = WS!LostStep(s)
    <2>1. v.pc = "join" /\ v.shut /\ ws' = [ws EXCEPT ![s] = lost]
      BY <1>1, <1>4 DEF WS!Losing, WS!LostStep
    <2>2. /\ lost \in Sessions /\ lost.ip = v.ip /\ lost.pc = "lost"
          /\ lost.writer = "ended" /\ lost.shut = v.shut
      BY <1>1, EmptyQueue DEF Sessions
    <2> HIDE DEF lost
    <2> QED BY <1>2, <2>1, <2>2
  <1>5. CASE ws' = [ws EXCEPT ![s].shut = TRUE]
    <2>1. ws' = [ws EXCEPT ![s] = shut]
      BY <1>1, <1>5
    <2>2. /\ shut \in Sessions /\ shut.ip = v.ip /\ shut.pc = v.pc
          /\ shut.writer = v.writer /\ shut.out = v.out
      BY <1>1, EmptyQueue DEF Sessions
    <2> HIDE DEF shut
    <2> QED BY <1>1, <1>2, <2>1, <2>2
  <1> QED BY <1>3, <1>4, <1>5

\* The client joins, with a queue that holds the status.
LEMMA JoinSlots ==
    ASSUME WS!WebSocketAssumption, SlotsInv, NEW s \in Sockets, WS!Join(s)
    PROVE  /\ SlotsInv'
           /\ ws'[s].missed = {} /\ [n \in 1 .. sent |-> n] \in Seq(Messages)
           /\ WS!Stream(ws'[s]) = Append([n \in 1 .. sent |-> n], Status)
           /\ \A r \in Sockets \ {s} : ws'[r] = ws[r]
  <1> DEFINE v == ws[s]
             old == [n \in 1 .. sent |-> n]
             w == [v EXCEPT !.pc = "loop", !.queue = <<Status>>, !.writer = "get",
                            !.got = old]
  <1>1. Given(s, v) /\ v.pc = "status" /\ sent \in Nat
    BY GivenFacts DEF WS!Join, SlotsInv, SocketsType
  <1>2. /\ ws' = [ws EXCEPT ![s] = w]
        /\ clients' = Append(clients, s)
        /\ UNCHANGED <<handlers, total, counts, running, stopper, sent>>
    BY <1>1 DEF WS!Join, WS!service
  <1>3. v \in Sessions /\ <<Status>> \in Queues /\ Status \in Messages
    BY <1>1 DEF Given, Queues, Messages
  <1>3a. old \in Seq(Messages) /\ old \in Queues
    BY <1>1 DEF Queues, Messages
  <1> HIDE DEF old
  <1>4. /\ w \in Sessions /\ w.pc = "loop" /\ w.ip = v.ip /\ w.writer = "get"
        /\ w.out = v.out /\ w.shut = v.shut /\ w.done = v.done
        /\ w.missed = v.missed /\ w.got = old /\ w.queue = <<Status>>
    BY <1>1, <1>3, <1>3a DEF Sessions
  <1> HIDE DEF w
  <1>5. /\ ws \in [Sockets -> Sessions] /\ ws' \in [Sockets -> Sessions]
        /\ ws'[s] = w /\ \A r \in Sockets \ {s} : ws'[r] = ws[r]
    BY <1>1, <1>2, <1>4 DEF Given
  <1>6. /\ clients \in Seq(Sockets) /\ clients' \in Seq(Sockets)
        /\ Len(clients') = Len(clients) + 1 /\ clients'[Len(clients) + 1] = s
        /\ \A i \in 1 .. Len(clients) : clients'[i] = clients[i]
    <2>1. clients \in Seq(Sockets)
      BY DEF SlotsInv, SocketsType
    <2> QED BY <1>2, <2>1, AppendProperties
  <1>7. v.writer = "none" /\ \A i \in 1 .. Len(clients) : clients[i] # s
    BY <1>1 DEF Given, SessionFits, Listed
  <1>8. \A i \in 1 .. Len(clients') : i \in 1 .. Len(clients) \/ i = Len(clients) + 1
    BY <1>6
  <1>9. SocketsType'
    BY <1>2, <1>5, <1>6 DEF SlotsInv, SocketsType
  <1>10. Distinct(clients)' /\ (stopper # "no" => ~running)'
    <2>1. Distinct(clients)
      BY DEF SlotsInv
    <2>2. Distinct(clients')
      BY <1>6, <1>7, <1>8, <2>1 DEF Distinct
    <2> QED BY <1>2, <2>2 DEF SlotsInv, Distinct
  <1>11. \A r \in Sockets : ws'[r].ip = ws[r].ip /\ (ws'[r].pc = "idle") = (ws[r].pc = "idle")
    BY <1>1, <1>4, <1>5
  <1>12. handlers' = {r \in Sockets : ws'[r].pc # "idle"} /\ handlers \subseteq Sockets
    BY <1>2, <1>11 DEF SlotsInv
  <1>13. \A ip \in IPs : {r \in handlers : ws'[r].ip = ip} = {r \in handlers : ws[r].ip = ip}
    BY <1>11, <1>12
  <1>14. Counted(total, counts, handlers, ws)'
    BY <1>2, <1>13 DEF SlotsInv, Counted
  <1>15. ASSUME NEW r \in Sockets
         PROVE  SessionFits(ws[r])' /\ StopFits(ws[r], stopper)' /\ Listed(ws[r], r, clients)'
    <2>1. CASE r = s
      <3>1. SessionFits(w)
        BY <1>1, <1>4 DEF Given, SessionFits
      <3>2. StopFits(w, stopper)
        BY <1>1, <1>4 DEF Given, StopFits
      <3>3. Listed(w, s, clients')
        <4>1. Len(clients) + 1 \in 1 .. Len(clients')
          BY <1>6
        <4> QED BY <1>4, <1>6, <4>1 DEF Listed
      <3> QED BY <1>2, <1>5, <2>1, <3>1, <3>2, <3>3 DEF SessionFits, StopFits, Listed
    <2>2. CASE r # s
      <3>1. SessionFits(ws[r]) /\ StopFits(ws[r], stopper) /\ Listed(ws[r], r, clients)
        BY DEF SlotsInv
      <3>2. \A i \in 1 .. Len(clients) : i \in 1 .. Len(clients')
        BY <1>6
      <3>3. Listed(ws[r], r, clients')
        BY <1>6, <1>8, <2>2, <3>1, <3>2 DEF Listed
      <3> QED BY <1>2, <1>5, <2>2, <3>1, <3>3 DEF SessionFits, StopFits, Listed
    <2> QED BY <2>1, <2>2
  <1>16. SlotsInv'
    BY <1>9, <1>10, <1>12, <1>14, <1>15 DEF SlotsInv
  <1>17. WS!Stream(w) = Append(old, Status) /\ w.missed = {}
    <2>1. w.out = <<>> /\ w.missed = {}
      BY <1>1, <1>4 DEF Given, SessionFits
    <2>2. WS!Stream(w) = (old \o <<>>) \o <<Status>>
      BY <1>4, <2>1, StreamType
    <2>3. old \o <<>> = old
      BY <1>3a, ConcatEmptySeq
    <2>4. Append(old, Status) = old \o <<Status>>
      BY <1>3, <1>3a, AppendIsConcat
    <2> QED BY <2>1, <2>2, <2>3, <2>4
  <1> QED BY <1>3a, <1>4, <1>5, <1>16, <1>17 DEF old

-----------------------------------------------------------------------------
(* Steps of all sessions: broadcasts, and stop().                            *)

\* What is broadcast.
Broadcasts == Nat \cup {Status}

\* A broadcast changes what is queued and who is to be disconnected.
SameShape(v, w) ==
    /\ w \in Sessions
    /\ w.pc = v.pc /\ w.ip = v.ip /\ w.writer = v.writer /\ w.out = v.out
    /\ w.shut = v.shut
    /\ w.got = v.got \/ w.got = <<>>
    /\ w.missed = v.missed \/ w.missed = {} \/ v.pc = "loop"
    /\ v.done => w.done

\* A full queue is not empty.
LEMMA FullQueue ==
    ASSUME WS!WebSocketAssumption, NEW v \in Sessions, WS!Full(v.queue)
    PROVE  /\ v.queue # <<>> /\ Head(v.queue) \in Messages /\ Tail(v.queue) \in Queues
  <1>1. v.queue \in Seq(Messages) /\ v.queue # <<>>
    BY StreamType DEF WS!Full, WS!WebSocketAssumption
  <1> QED BY <1>1, HeadTailProperties DEF Queues

\* What a broadcast makes of one session: nothing, one message more, that
\* without the oldest one, or the end of the connection.
OfferedAs(v, w, m) ==
    \/ v.done /\ w = v
    \/ ~v.done /\ ~WS!Full(v.queue) /\ w = [v EXCEPT !.queue = Append(v.queue, m)]
    \/ ~v.done /\ m = Status /\ w = v
    \/ /\ ~v.done /\ m # Status /\ WS!Full(v.queue) /\ Head(v.queue) = Pong
       /\ w = WS!Missing([v EXCEPT !.queue = Tail(v.queue)], m)
    \/ /\ ~v.done /\ m # Status /\ WS!Full(v.queue) /\ Head(v.queue) = Status
       /\ w = [v EXCEPT !.queue = Append(Tail(v.queue), m)]
    \/ /\ ~v.done /\ m # Status /\ WS!Full(v.queue)
       /\ w = [v EXCEPT !.queue = Append(Tail(v.queue), Head(v.queue)), !.done = TRUE,
                        !.got = <<>>, !.missed = {}]

\* Offer is one of these.
LEMMA OfferCases ==
    ASSUME WS!WebSocketAssumption, NEW v, NEW m
    PROVE  OfferedAs(v, WS!Offer(v, m), m)
  <1>1. CASE v.done
    BY <1>1 DEF WS!Offer, OfferedAs
  <1>2. CASE ~v.done /\ ~WS!Full(v.queue)
    BY <1>2 DEF WS!Offer, OfferedAs
  <1>3. CASE ~v.done /\ WS!Full(v.queue) /\ m = Status
    BY <1>3 DEF WS!Offer, OfferedAs
  <1>4. CASE ~v.done /\ WS!Full(v.queue) /\ m # Status
    <2>1. WS!Offer(v, m) = WS!MakeRoom(v, m)
      BY <1>4 DEF WS!Offer
    <2>2. Status # Pong
      BY DEF WS!WebSocketAssumption
    <2>3. CASE Head(v.queue) = Pong
      BY <1>4, <2>1, <2>2, <2>3 DEF WS!MakeRoom, OfferedAs
    <2>4. CASE Head(v.queue) = Status
      BY <1>4, <2>1, <2>2, <2>4 DEF WS!MakeRoom, OfferedAs
    <2>5. CASE Head(v.queue) \notin {Pong, Status}
      BY <1>4, <2>1, <2>5 DEF WS!MakeRoom, OfferedAs
    <2> QED BY <2>3, <2>4, <2>5
  <1> QED BY <1>1, <1>2, <1>3, <1>4

\* What a message that never came makes of a session.
Without(v, w, m) ==
    /\ w \in Sessions
    /\ w.pc = v.pc /\ w.ip = v.ip /\ w.writer = v.writer /\ w.out = v.out
    /\ w.shut = v.shut /\ w.done = v.done /\ w.got = v.got /\ w.queue = v.queue
    /\ w.missed = IF v.pc = "loop" /\ ~v.done THEN v.missed \cup {m} ELSE v.missed

\* Missing is that.
LEMMA MissingShape ==
    ASSUME NEW v \in Sessions, NEW m \in Nat
    PROVE  Without(v, WS!Missing(v, m), m)
  <1> DEFINE w == [v EXCEPT !.missed = v.missed \cup {m}]
  <1>1. CASE v.pc = "loop" /\ ~v.done
    <2>1. WS!Missing(v, m) = w
      BY <1>1 DEF WS!Missing
    <2>2. v.missed \cup {m} \in SUBSET Nat
      BY DEF Sessions
    <2>3. /\ w \in Sessions
          /\ w.pc = v.pc /\ w.ip = v.ip /\ w.writer = v.writer /\ w.out = v.out
          /\ w.shut = v.shut /\ w.done = v.done /\ w.got = v.got /\ w.queue = v.queue
          /\ w.missed = v.missed \cup {m}
      BY <2>2 DEF Sessions
    <2> HIDE DEF w
    <2> QED BY <1>1, <2>1, <2>3 DEF Without
  <1>2. CASE ~(v.pc = "loop" /\ ~v.done)
    BY <1>2 DEF WS!Missing, Without
  <1> QED BY <1>1, <1>2

\* They change nothing but the queue, the done event and the history.
LEMMA OfferShape ==
    ASSUME WS!WebSocketAssumption, NEW v \in Sessions, NEW m \in Broadcasts, NEW w,
           OfferedAs(v, w, m)
    PROVE  SameShape(v, w)
  <1>1. v.queue \in Seq(Messages) /\ m \in Messages
    BY StreamType DEF Broadcasts, Messages
  <1>2. SameShape(v, v)
    BY DEF SameShape
  <1>3. ASSUME NEW q \in Queues
        PROVE  SameShape(v, [v EXCEPT !.queue = q, !.done = TRUE, !.got = <<>>, !.missed = {}])
    BY <1>3, EmptyQueue DEF SameShape, Sessions
  <1>4. ASSUME NEW q \in Queues
        PROVE  SameShape(v, [v EXCEPT !.queue = q])
    BY <1>4 DEF SameShape, Sessions
  <1>5. Append(v.queue, m) \in Queues
    BY <1>1, AppendProperties DEF Queues
  <1>6. ASSUME WS!Full(v.queue)
        PROVE  /\ Tail(v.queue) \in Queues
               /\ Append(Tail(v.queue), m) \in Queues
               /\ Append(Tail(v.queue), Head(v.queue)) \in Queues
    <2>1. Tail(v.queue) \in Seq(Messages) /\ Head(v.queue) \in Messages
      BY <1>6, FullQueue DEF Queues
    <2> QED BY <1>1, <2>1, AppendProperties DEF Queues
  <1>7. ASSUME NEW q \in Queues, m # Status
        PROVE  SameShape(v, WS!Missing([v EXCEPT !.queue = q], m))
    <2> DEFINE u == [v EXCEPT !.queue = q]
    <2>1. /\ u \in Sessions /\ u.pc = v.pc /\ u.ip = v.ip /\ u.writer = v.writer
          /\ u.out = v.out /\ u.shut = v.shut /\ u.done = v.done /\ u.got = v.got
          /\ u.missed = v.missed
      BY <1>7 DEF Sessions
    <2>2. m \in Nat
      BY <1>7 DEF Broadcasts
    <2> HIDE DEF u
    <2>3. PICK w1 : w1 = WS!Missing(u, m) /\ Without(u, w1, m)
      BY <2>1, <2>2, MissingShape
    <2>4. /\ w1 \in Sessions
          /\ w1.pc = v.pc /\ w1.ip = v.ip /\ w1.writer = v.writer /\ w1.out = v.out
          /\ w1.shut = v.shut /\ w1.done = v.done /\ w1.got = v.got
      BY <2>1, <2>3 DEF Without
    <2>5. w1.missed = v.missed \/ v.pc = "loop"
      BY <2>1, <2>3 DEF Without
    <2>6. SameShape(v, w1)
      BY <2>4, <2>5 DEF SameShape
    <2> QED BY <2>3, <2>6 DEF u
  <1> QED BY <1>2, <1>3, <1>4, <1>5, <1>6, <1>7 DEF OfferedAs

\* A broadcast takes and gives no slot.
LEMMA BroadcastSlots ==
    ASSUME WS!WebSocketAssumption, SlotsInv, NEW m \in Broadcasts, ws' = WS!Delivered(m),
           sent' \in Nat,
           UNCHANGED <<clients, handlers, total, counts, running, stopper>>
    PROVE  SlotsInv'
  <1>1. \A s \in Sockets :
           ws'[s] = IF s \in WS!Reached(m) THEN WS!Offer(ws[s], m)
                    ELSE IF WS!Failing(m) # {} THEN WS!Missing(ws[s], m) ELSE ws[s]
    BY DEF WS!Delivered
  <1>2. WS!Failing(m) # {} => m \in Nat
    BY DEF WS!Failing, WS!Raises, Broadcasts
  <1>3. ASSUME NEW s \in Sockets PROVE Given(s, ws[s]) /\ SameShape(ws[s], ws'[s])
    <2>1. Given(s, ws[s]) /\ ws[s] \in Sessions
      BY GivenFacts DEF Given
    <2>2. CASE s \in WS!Reached(m)
      <3>1. OfferedAs(ws[s], ws'[s], m)
        BY <1>1, <2>2, OfferCases
      <3> QED BY <2>1, <3>1, OfferShape
    <2>3. CASE s \notin WS!Reached(m) /\ WS!Failing(m) # {}
      <3>1. Without(ws[s], ws'[s], m)
        BY <1>1, <1>2, <2>1, <2>3, MissingShape
      <3> QED BY <2>1, <3>1 DEF Without, SameShape
    <2>4. CASE s \notin WS!Reached(m) /\ WS!Failing(m) = {}
      BY <1>1, <2>1, <2>4 DEF SameShape
    <2> QED BY <2>1, <2>2, <2>3, <2>4
  <1>4. ws' \in [Sockets -> Sessions]
    <2>1. DOMAIN ws' = Sockets /\ ws' = [s \in Sockets |-> ws'[s]]
      BY DEF WS!Delivered
    <2> QED BY <1>3, <2>1 DEF SameShape
  <1>5. ASSUME NEW s \in Sockets
        PROVE  /\ SessionFits(ws'[s]) /\ StopFits(ws'[s], stopper') /\ Listed(ws'[s], s, clients)
               /\ ws'[s].ip = ws[s].ip /\ (ws'[s].pc = "idle") = (ws[s].pc = "idle")
    BY <1>3 DEF Given, SameShape, SessionFits, StopFits, Listed
  <1>6. Refit
    BY <1>4, <1>5 DEF Refit, SlotsInv, SocketsType
  <1> QED BY <1>6, RefitSlots

\* The handlers are cancelled, each in its own place.
LEMMA StopHandlersSlots ==
    ASSUME SlotsInv, WS!StopHandlers
    PROVE  SlotsInv' /\ \A s \in Sockets : ws'[s].pc # "loop"
  <1>1. /\ stopper = "loop" /\ ws' = WS!CancelAll /\ stopper' = "await"
        /\ UNCHANGED <<clients, handlers, total, counts, running, sent>>
    BY DEF WS!StopHandlers, WS!slots
  <1>2. ASSUME NEW s \in Sockets
        PROVE  /\ ws'[s] \in Sessions
               /\ ws'[s].ip = ws[s].ip /\ (ws'[s].pc = "idle") = (ws[s].pc = "idle")
               /\ SessionFits(ws'[s]) /\ StopFits(ws'[s], stopper') /\ Listed(ws'[s], s, clients)
               /\ ws'[s].pc # "loop"
    <2> DEFINE v == ws[s]
               shut == [v EXCEPT !.shut = TRUE]
               lost == [v EXCEPT !.pc = "lost", !.writer = "ended", !.out = <<>>]
               left == [v EXCEPT !.pc = "join", !.done = TRUE, !.queue = <<>>,
                                 !.got = <<>>, !.missed = {}]
    <2>1. Given(s, v) /\ (s \in handlers <=> v.pc # "idle")
      BY GivenFacts DEF SlotsInv
    <2>2. CASE s \notin handlers \/ v.pc = "lost"
      <3>1. ws'[s] = v /\ v.pc \in {"idle", "lost"}
        BY <1>1, <2>1, <2>2 DEF WS!CancelAll
      <3> HIDE DEF v
      <3> QED BY <1>1, <2>1, <3>1 DEF Given, StopFits
    <2>3. CASE s \in handlers /\ v.pc # "lost" /\ WS!Losing(s)
      <3>1. ws'[s] = WS!LostStep(s)[s] /\ v.shut
        BY <1>1, <2>3 DEF WS!CancelAll, WS!Losing
      <3>2. ws'[s] = lost
        BY <2>1, <3>1 DEF WS!LostStep, Given
      <3>3. /\ lost \in Sessions /\ lost.pc = "lost" /\ lost.ip = v.ip
            /\ lost.writer = "ended" /\ lost.shut = v.shut
        BY <2>1, EmptyQueue DEF Given, Sessions
      <3> HIDE DEF lost
      <3>4. SessionFits(lost) /\ StopFits(lost, "await") /\ Listed(lost, s, clients)
        BY <2>1, <2>3, <3>1, <3>3 DEF Given, SessionFits, StopFits, Listed, WS!Losing
      <3> QED BY <1>1, <2>1, <2>3, <3>2, <3>3, <3>4
    <2>4. CASE s \in handlers /\ ~WS!Losing(s) /\ v.pc \in {"join", "close"}
      <3>1. ws'[s] = shut
        BY <1>1, <2>4 DEF WS!CancelAll
      <3>2. /\ shut \in Sessions /\ shut.pc = v.pc /\ shut.ip = v.ip
            /\ shut.writer = v.writer /\ shut.out = v.out
        BY <2>1 DEF Given, Sessions
      <3> HIDE DEF shut
      <3>3. SessionFits(shut) /\ StopFits(shut, "await") /\ Listed(shut, s, clients)
        BY <2>1, <2>4, <3>2 DEF Given, SessionFits, StopFits, Listed
      <3> QED BY <1>1, <2>4, <3>1, <3>2, <3>3
    <2>5. CASE s \in handlers /\ v.pc \notin {"join", "close", "lost"}
      <3>1. ws'[s] = WS!LeaveStep(s)[s]
        BY <1>1, <2>5 DEF WS!CancelAll, WS!Losing
      <3>2. ws'[s] = left
        BY <2>1, <3>1 DEF WS!LeaveStep, Given
      <3>3. /\ left \in Sessions /\ left.pc = "join" /\ left.ip = v.ip
            /\ left.writer = v.writer /\ left.out = v.out
        BY <2>1, EmptyQueue DEF Given, Sessions
      <3> HIDE DEF left
      <3>4. SessionFits(left) /\ StopFits(left, "await") /\ Listed(left, s, clients)
        BY <2>1, <2>5, <3>3 DEF Given, SessionFits, StopFits, Listed
      <3> QED BY <1>1, <2>1, <2>5, <3>2, <3>3, <3>4
    <2> QED BY <2>2, <2>3, <2>4, <2>5
  <1>3. ws' \in [Sockets -> Sessions]
    <2>1. ws' = [s \in Sockets |-> ws'[s]]
      BY <1>1 DEF WS!CancelAll
    <2> QED BY <1>2, <2>1
  <1>4. Refit
    BY <1>1, <1>2, <1>3 DEF Refit, SlotsInv, SocketsType
  <1> QED BY <1>2, <1>4, RefitSlots

\* Every step keeps the books of the slots.
LEMMA SlotsStep ==
    ASSUME WS!WebSocketAssumption, SlotsInv, [WS!Next]_WS!vars
    PROVE  SlotsInv'
  <1>1. ASSUME NEW s \in Sockets, NEW ip \in IPs, WS!Connect(s, ip)
        PROVE  SlotsInv'
    BY <1>1, ConnectSlots
  <1>2. ASSUME NEW s \in Sockets, WS!Moves(s)
        PROVE  SlotsInv'
    <2>1. CASE WS!Accept(s)
      BY <2>1, AcceptTurns, TurnedSlots
    <2>2. CASE WS!Join(s)
      BY <2>2, JoinSlots
    <2>3. CASE WS!WriterTake(s)
      BY <2>3, TakeTurns, TurnedSlots
    <2>4. CASE WS!WriterSent(s)
      BY <2>4, SentTurns, TurnedSlots
    <2>5. CASE WS!WriterFails(s) \/ WS!WriterStops(s)
      BY <2>5, EndTurns, TurnedSlots
    <2>6. CASE WS!Joined(s)
      <3>1. UNCHANGED <<running, stopper, sent>>
        BY <2>6 DEF WS!Joined, WS!service
      <3> QED BY <2>6, <3>1, CleanupTurns, TurnedSlots
    <2>7. CASE WS!CloseEnds(s)
      <3>1. ws[s].pc # "idle" /\ WS!Release(s) /\ UNCHANGED <<running, stopper, sent>>
        BY <2>7 DEF WS!CloseEnds, WS!service
      <3> QED BY <3>1, ReleaseSlots
    <2> QED BY <1>2, <2>1, <2>2, <2>3, <2>4, <2>5, <2>6, <2>7 DEF WS!Moves
  <1>3. ASSUME NEW s \in Sockets, WS!Leave(s)
        PROVE  SlotsInv'
    BY <1>3, LeaveTurns, TurnedSlots DEF WS!Leave, WS!slots, WS!service
  <1>4. ASSUME NEW s \in Sockets, WS!Ping(s)
        PROVE  SlotsInv'
    BY <1>4, PingTurns, TurnedSlots
  <1>5. ASSUME NEW s \in Sockets, WS!Cancel(s)
        PROVE  SlotsInv'
    <2>1. UNCHANGED <<running, stopper, sent>>
      BY <1>5 DEF WS!Cancel, WS!service
    <2>2. CASE /\ ws[s].pc \in {"accept", "status", "loop"}
               /\ ws' = WS!LeaveStep(s) /\ UNCHANGED WS!slots
      BY <2>1, <2>2, LeaveTurns, TurnedSlots DEF WS!slots
    <2>3. CASE /\ ws[s].pc \in {"join", "close"} /\ ~ws[s].shut
               /\ ws' = [ws EXCEPT ![s].shut = TRUE] /\ UNCHANGED WS!slots
      BY <2>1, <2>3, CleanupTurns, TurnedSlots
    <2>4. CASE ws[s].pc = "close" /\ ws[s].shut /\ WS!Release(s)
      BY <2>1, <2>4, ReleaseSlots
    <2>5. CASE WS!Losing(s) /\ ws' = WS!LostStep(s) /\ UNCHANGED WS!slots
      BY <2>1, <2>5, CleanupTurns, TurnedSlots
    <2> QED BY <1>5, <2>2, <2>3, <2>4, <2>5 DEF WS!Cancel
  <1>6. CASE WS!BroadcastCritical
    <2>1. sent + 1 \in Broadcasts /\ sent' \in Nat
      BY <1>6 DEF WS!BroadcastCritical, SlotsInv, SocketsType, Broadcasts
    <2> QED BY <1>6, <2>1, BroadcastSlots DEF WS!BroadcastCritical, WS!slots, WS!service
  <1>7. CASE WS!BroadcastStatus
    <2>1. /\ Status \in Broadcasts /\ sent' \in Nat
          /\ ws' = WS!Delivered(Status)
          /\ UNCHANGED <<clients, handlers, total, counts, running, stopper>>
      BY <1>7 DEF WS!BroadcastStatus, WS!slots, WS!service, SlotsInv, SocketsType,
                  Broadcasts
    <2> QED BY <2>1, BroadcastSlots
  <1>8. CASE WS!Stop \/ WS!StopEnds \/ UNCHANGED WS!vars
    <2>1. /\ UNCHANGED <<ws, clients, handlers, total, counts, sent>>
          /\ \/ stopper' = stopper /\ running' = running
             \/ stopper' = "loop" /\ running' = FALSE
             \/ /\ stopper = "await" /\ stopper' = "done" /\ running' = running
                /\ \A s \in handlers : ws[s].pc = "lost"
      BY <1>8 DEF WS!Stop, WS!StopEnds, WS!vars, WS!slots, WS!service
    <2>2. ASSUME NEW s \in Sockets PROVE StopFits(ws[s], stopper')
      <3>1. StopFits(ws[s], stopper) /\ (s \in handlers <=> ws[s].pc # "idle")
        BY DEF SlotsInv
      <3> QED BY <2>1, <3>1 DEF StopFits
    <2>3. /\ running' \in BOOLEAN /\ stopper' \in {"no", "loop", "await", "done"}
          /\ stopper' # "no" => ~running'
      <3>1. /\ running \in BOOLEAN /\ stopper \in {"no", "loop", "await", "done"}
            /\ stopper # "no" => ~running
        BY DEF SlotsInv, SocketsType
      <3>2. running' \in BOOLEAN
        BY <2>1, <3>1
      <3>3. stopper' \in {"no", "loop", "await", "done"}
        BY <2>1, <3>1
      <3>4. stopper' # "no" => ~running'
        <4>1. stopper = "await" => stopper # "no"
          OBVIOUS
        <4> QED BY <2>1, <3>1, <4>1, Zenon
      <3> QED BY <3>2, <3>3, <3>4
    <2>4. Refit
      BY <2>1, <2>2, <2>3 DEF Refit, SlotsInv, SocketsType
    <2> QED BY <2>4, RefitSlots
  <1>9. CASE WS!StopHandlers
    BY <1>9, StopHandlersSlots
  <1> QED BY <1>1, <1>2, <1>3, <1>4, <1>5, <1>6, <1>7, <1>8, <1>9 DEF WS!Next

\* The instance has the state of this module, and so says the same of it.
LEMMA SameSockets ==
    /\ WS!WebSocketAssumption
    /\ WS!SlotsMatch => SlotsMatch
    /\ WS!Delivery => Delivery
  <1>1. WS!WebSocketAssumption
    BY WebSocketAssumption DEF WS!WebSocketAssumption
  <1>2. WS!SlotsMatch => SlotsMatch
    BY SameOperators DEF WS!SlotsMatch, SlotsMatch
  <1>3. WS!Delivery => Delivery
    BY SameOperators DEF WS!Delivery, Delivery, WS!Stream, Stream
  <1> QED BY <1>1, <1>2, <1>3

\* The counters of WebSocketManager say how many handlers there are, in all and
\* of each address, within the limits; and stop() leaves nobody behind but the
\* handlers whose cleanup was cancelled.
THEOREM SlotsTheorem == WS!Spec => []SlotsMatch
  <1>1. WS!Init => SlotsInv
    BY SlotsInit, SameSockets
  <1>2. SlotsInv /\ [WS!Next]_WS!vars => SlotsInv'
    BY SlotsStep, SameSockets
  <1>3. SlotsInv => WS!SlotsMatch
    <2> SUFFICES ASSUME SlotsInv PROVE WS!SlotsMatch
      OBVIOUS
    <2>1. /\ handlers = {s \in Sockets : ws[s].pc # "idle"}
          /\ total = WS!Cardinality(handlers)
          /\ \A ip \in IPs : counts[ip] = WS!Cardinality({s \in handlers : ws[s].ip = ip})
          /\ total <= ws_max_clients
          /\ \A ip \in IPs : counts[ip] <= ws_max_clients_per_ip
      BY SameOperators DEF SlotsInv, Counted
    <2>2. ASSUME stopper = "done", NEW s \in Sockets, ws[s].pc # "lost"
          PROVE  s \notin WS!ToSet(clients) \cup handlers /\ ws[s].writer = "none"
      <3>1. Given(s, ws[s]) /\ clients \in Seq(Sockets)
        BY GivenFacts DEF SlotsInv, SocketsType
      <3>2. ws[s].pc = "idle" /\ ws[s].writer = "none"
        BY <2>2, <3>1 DEF Given, StopFits, SessionFits
      <3>3. s \notin handlers /\ \A i \in 1 .. Len(clients) : clients[i] # s
        BY <3>1, <3>2 DEF SlotsInv, Given, Listed
      <3>4. s \notin ToSet(clients)
        BY <3>1, <3>3 DEF ToSet
      <3> QED BY <3>2, <3>3, <3>4, SameOperators
    <2>3. ASSUME stopper = "done", NEW s \in Sockets, ws[s].pc = "lost"
          PROVE  ws[s].shut /\ ws[s].writer = "ended"
      BY <2>3, GivenFacts DEF Given, SessionFits
    <2> QED BY <2>1, <2>2, <2>3 DEF WS!SlotsMatch
  <1>4. SlotsInv => SlotsMatch
    BY <1>3, SameSockets
  <1> QED BY <1>1, <1>2, <1>4, PTL DEF WS!Spec

-----------------------------------------------------------------------------
(* What a client is told.                                                    *)

\* A client that is served has, or will have, the critical messages up to
\* number n but for the ones it has missed.
Told(w, n) ==
    w.pc = "loop" /\ ~w.done =>
        /\ w.missed \subseteq 1 .. n
        /\ News(WS!Stream(w)) = (1 .. n) \ w.missed
        /\ InOrder(WS!Stream(w))

StreamsInv == SlotsInv /\ \A s \in Sockets : Told(ws[s], sent)

\* A step of one session keeps everyone told.
LEMMA TurnedTold ==
    ASSUME StreamsInv, NEW s \in Sockets, NEW w, Turned(s, w), Carries(ws[s], w)
    PROVE  StreamsInv'
  <1>1. SlotsInv'
    BY TurnedSlots DEF StreamsInv
  <1>2. /\ ws'[s] = w /\ \A r \in Sockets \ {s} : ws'[r] = ws[r]
        /\ sent' = sent
    BY DEF StreamsInv, SlotsInv, SocketsType, Turned
  <1>3. Told(w, sent)
    <2>1. Told(ws[s], sent)
      BY DEF StreamsInv
    <2> QED BY <2>1 DEF Told, Carries, SameNews
  <1>4. \A r \in Sockets : Told(ws'[r], sent')
    BY <1>2, <1>3 DEF StreamsInv
  <1> QED BY <1>1, <1>4 DEF StreamsInv, Told, WS!Stream

\* What a broadcast of critical message m does for a client that stays: it is
\* one more in its stream, or one more that the client has missed.
Informed(v, w, m) ==
    w.pc = "loop" /\ ~w.done =>
        /\ v.pc = "loop" /\ ~v.done
        /\ \/ /\ News(WS!Stream(w)) = News(WS!Stream(v)) \cup {m}
              /\ InOrder(WS!Stream(v)) /\ (\A n \in News(WS!Stream(v)) : n < m)
                   => InOrder(WS!Stream(w))
              /\ w.missed = v.missed
           \/ /\ SameNews(WS!Stream(v), WS!Stream(w))
              /\ w.missed = v.missed \cup {m}

\* After the broadcast the client is told up to that message.
LEMMA InformedTold ==
    ASSUME NEW v, NEW w, NEW n \in Nat, Told(v, n), Informed(v, w, n + 1)
    PROVE  Told(w, n + 1)
  <1> SUFFICES ASSUME w.pc = "loop", ~w.done
               PROVE  /\ w.missed \subseteq 1 .. (n + 1)
                      /\ News(WS!Stream(w)) = (1 .. (n + 1)) \ w.missed
                      /\ InOrder(WS!Stream(w))
    BY DEF Told
  <1> DEFINE old == News(WS!Stream(v))
             new == News(WS!Stream(w))
             before == v.missed
             after == w.missed
             next == n + 1
  <1>1. /\ before \subseteq 1 .. n
        /\ old = (1 .. n) \ before
        /\ InOrder(WS!Stream(v))
    BY DEF Told, Informed
  <1>2. \/ /\ new = old \cup {next}
           /\ (\A k \in old : k < next) => InOrder(WS!Stream(w))
           /\ after = before
        \/ new = old /\ InOrder(WS!Stream(w)) /\ after = before \cup {next}
    BY <1>1 DEF Informed, SameNews
  <1>3. /\ (1 .. next) = (1 .. n) \cup {next} /\ next \notin 1 .. n
        /\ \A k \in 1 .. n : k < next
    OBVIOUS
  <1> HIDE DEF old, new, before, after, next
  <1>4. \A k \in old : k < next
    BY <1>1, <1>3
  <1>5. /\ after \subseteq 1 .. next
        /\ new = (1 .. next) \ after
        /\ InOrder(WS!Stream(w))
    BY <1>1, <1>2, <1>3, <1>4
  <1> QED BY <1>5 DEF new, after, next

\* The streams of a session whose queue has changed.
LEMMA QueueStreams ==
    ASSUME WS!WebSocketAssumption, NEW v \in Sessions, NEW m \in Messages
    PROVE  /\ WS!Stream([v EXCEPT !.queue = Append(v.queue, m)]) = Append(WS!Stream(v), m)
           /\ WS!Full(v.queue) /\ Head(v.queue) \notin Nat =>
                 /\ SameNews(WS!Stream(v), WS!Stream([v EXCEPT !.queue = Tail(v.queue)]))
                 /\ WS!Stream([v EXCEPT !.queue = Append(Tail(v.queue), m)])
                       = Append(WS!Stream([v EXCEPT !.queue = Tail(v.queue)]), m)
  <1> DEFINE t == v.got \o v.out
             q == v.queue
             Put(p) == [v EXCEPT !.queue = p]
  <1>1. t \in Seq(Messages) /\ q \in Seq(Messages) /\ WS!Stream(v) = t \o q
    BY StreamType
  <1>2. ASSUME NEW p \in Queues PROVE WS!Stream(Put(p)) = t \o p
    <2>1. Put(p).queue = p /\ Put(p).got = v.got /\ Put(p).out = v.out
      BY DEF Sessions
    <2> QED BY <2>1 DEF WS!Stream
  <1>3. WS!Stream(Put(Append(q, m))) = Append(WS!Stream(v), m)
    <2>1. Append(q, m) \in Queues
      BY <1>1, AppendProperties DEF Queues
    <2>2. WS!Stream(Put(Append(q, m))) = t \o Append(q, m)
      BY <1>2, <2>1
    <2> HIDE DEF t, q, Put
    <2>3. t \o Append(q, m) = Append(t \o q, m)
      BY <1>1, AppendLast
    <2> QED BY <1>1, <2>2, <2>3
  <1>4. ASSUME WS!Full(q), Head(q) \notin Nat
        PROVE  /\ SameNews(WS!Stream(v), WS!Stream(Put(Tail(q))))
               /\ WS!Stream(Put(Append(Tail(q), m))) = Append(WS!Stream(Put(Tail(q))), m)
    <2>1. q # <<>> /\ Head(q) \in Messages /\ Tail(q) \in Seq(Messages)
      BY <1>4, FullQueue DEF Queues
    <2>2. Append(Tail(q), m) \in Queues /\ Tail(q) \in Queues
      BY <2>1, AppendProperties DEF Queues
    <2>3. /\ WS!Stream(Put(Tail(q))) = t \o Tail(q)
          /\ WS!Stream(Put(Append(Tail(q), m))) = t \o Append(Tail(q), m)
      BY <1>2, <2>2
    <2> HIDE DEF t, q, Put
    <2>4. t \o Append(Tail(q), m) = Append(t \o Tail(q), m)
      BY <1>1, <2>1, AppendLast
    <2>5. (t \o <<Head(q)>>) \o Tail(q) = t \o q
      BY <1>1, <2>1, MoveOver
    <2>6. SameNews((t \o <<Head(q)>>) \o Tail(q), t \o Tail(q))
      BY <1>1, <1>4, <2>1, DropOther
    <2> QED BY <1>1, <2>3, <2>4, <2>5, <2>6
  <1> QED BY <1>3, <1>4

\* A client of the list is reached, or an earlier one has raised.
LEMMA EveryoneReached ==
    ASSUME SlotsInv, NEW s \in Sockets, NEW m, ws[s].pc = "loop"
    PROVE  /\ s \in WS!Reached(m) \/ WS!Failing(m) # {}
           /\ WS!Raises(ws[s], m) => WS!Failing(m) # {}
  <1>1. PICK i \in 1 .. Len(clients) : clients[i] = s
    BY GivenFacts DEF Given, Listed
  <1>2. clients \in Seq(Sockets) /\ i \in DOMAIN clients
    BY <1>1 DEF SlotsInv, SocketsType
  <1>3. WS!Failing(m) = {} => s \in WS!Reached(m)
    BY <1>1, <1>2 DEF WS!Reached
  <1>4. WS!Raises(ws[s], m) => i \in WS!Failing(m)
    BY <1>1, <1>2 DEF WS!Failing
  <1> QED BY <1>3, <1>4

\* A broadcast that reaches a client informs it.
LEMMA OfferInforms ==
    ASSUME WS!WebSocketAssumption, NEW v \in Sessions, NEW m \in Nat, NEW w,
           OfferedAs(v, w, m)
    PROVE  Informed(v, w, m)
  <1> SUFFICES ASSUME w.pc = "loop", ~w.done
               PROVE  Informed(v, w, m)
    BY DEF Informed
  <1>1. m \in Messages /\ m \in Broadcasts /\ m # Status /\ Pong \notin Nat /\ Status \notin Nat
    BY DEF Messages, Broadcasts, WS!WebSocketAssumption
  <1>2. SameShape(v, w)
    BY <1>1, OfferShape
  <1>3. v.pc = "loop" /\ ~v.done
    BY <1>2 DEF SameShape
  <1> DEFINE cut == [v EXCEPT !.queue = Tail(v.queue)]
  <1>4. WS!Stream(v) \in Seq(Messages)
    BY StreamType
  <1>5. CASE ~WS!Full(v.queue) /\ w = [v EXCEPT !.queue = Append(v.queue, m)]
    <2>1. WS!Stream(w) = Append(WS!Stream(v), m)
      BY <1>1, <1>5, QueueStreams
    <2>2. w.missed = v.missed
      BY <1>5 DEF Sessions
    <2> QED BY <1>1, <1>3, <1>4, <2>1, <2>2, OneMore DEF Informed
  <1>6. CASE WS!Full(v.queue) /\ Head(v.queue) = Pong /\ w = WS!Missing(cut, m)
    <2>1. /\ cut \in Sessions /\ cut.pc = v.pc /\ cut.done = v.done
          /\ cut.missed = v.missed
      BY <1>6, FullQueue DEF Sessions
    <2>2. SameNews(WS!Stream(v), WS!Stream(cut))
      BY <1>1, <1>6, QueueStreams
    <2> HIDE DEF cut
    <2>3. Without(cut, w, m)
      BY <1>6, <2>1, MissingShape
    <2>4. WS!Stream(w) = WS!Stream(cut) /\ w.missed = v.missed \cup {m}
      BY <1>3, <2>1, <2>3 DEF Without, WS!Stream
    <2> QED BY <1>3, <2>2, <2>4 DEF Informed
  <1>7. CASE /\ WS!Full(v.queue) /\ Head(v.queue) = Status
             /\ w = [v EXCEPT !.queue = Append(Tail(v.queue), m)]
    <2>1. SameNews(WS!Stream(v), WS!Stream(cut)) /\ WS!Stream(w) = Append(WS!Stream(cut), m)
      BY <1>1, <1>7, QueueStreams
    <2>2. cut \in Sessions /\ w.missed = v.missed
      BY <1>7, FullQueue DEF Sessions
    <2>3. WS!Stream(cut) \in Seq(Messages)
      BY <2>2, StreamType
    <2> HIDE DEF cut
    <2>4. /\ News(WS!Stream(w)) = News(WS!Stream(cut)) \cup {m}
          /\ InOrder(WS!Stream(cut)) /\ (\A n \in News(WS!Stream(cut)) : n < m)
               => InOrder(WS!Stream(w))
      BY <1>1, <2>1, <2>3, OneMore
    <2> QED BY <1>3, <2>1, <2>2, <2>4 DEF SameNews, Informed
  <1>8. CASE w = [v EXCEPT !.queue = Append(Tail(v.queue), Head(v.queue)), !.done = TRUE,
                           !.got = <<>>, !.missed = {}]
    <2>1. w.done
      BY <1>8 DEF Sessions
    <2> QED BY <2>1
  <1> QED BY <1>1, <1>3, <1>5, <1>6, <1>7, <1>8 DEF OfferedAs

\* A critical message, to all or until one client raises.
LEMMA CriticalTold ==
    ASSUME WS!WebSocketAssumption, StreamsInv, SlotsInv', WS!BroadcastCritical
    PROVE  StreamsInv'
  <1> DEFINE m == sent + 1
  <1>1. /\ sent \in Nat /\ m \in Nat /\ SlotsInv
        /\ sent' = m /\ ws' = WS!Delivered(m)
    BY DEF WS!BroadcastCritical, StreamsInv, SlotsInv, SocketsType
  <1>2. ASSUME NEW s \in Sockets PROVE Told(ws'[s], sent')
    <2>1. ws[s] \in Sessions /\ Told(ws[s], sent)
      BY <1>1 DEF StreamsInv, SlotsInv, SocketsType
    <2>2. ws'[s] = IF s \in WS!Reached(m) THEN WS!Offer(ws[s], m)
                   ELSE IF WS!Failing(m) # {} THEN WS!Missing(ws[s], m) ELSE ws[s]
      BY <1>1 DEF WS!Delivered
    <2>3. CASE s \in WS!Reached(m)
      <3>1. OfferedAs(ws[s], ws'[s], m)
        BY <2>2, <2>3, OfferCases
      <3>2. Informed(ws[s], ws'[s], m)
        BY <1>1, <2>1, <3>1, OfferInforms
      <3> QED BY <1>1, <2>1, <3>2, InformedTold
    <2>4. CASE s \notin WS!Reached(m) /\ WS!Failing(m) # {}
      <3>1. Without(ws[s], ws'[s], m)
        BY <1>1, <2>1, <2>2, <2>4, MissingShape
      <3>2. WS!Stream(ws'[s]) = WS!Stream(ws[s])
        BY <3>1 DEF Without, WS!Stream
      <3>3. Informed(ws[s], ws'[s], m)
        BY <3>1, <3>2 DEF Informed, SameNews, Without
      <3> QED BY <1>1, <2>1, <3>3, InformedTold
    <2>5. CASE s \notin WS!Reached(m) /\ WS!Failing(m) = {}
      <3>1. ws'[s].pc # "loop"
        BY <1>1, <2>2, <2>5, EveryoneReached
      <3> QED BY <3>1 DEF Told
    <2> QED BY <2>3, <2>4, <2>5
  <1> QED BY <1>2 DEF StreamsInv, Told, WS!Stream

\* A status message is no news.
LEMMA StatusTold ==
    ASSUME WS!WebSocketAssumption, StreamsInv, SlotsInv', WS!BroadcastStatus
    PROVE  StreamsInv'
  <1>1. ws' = WS!Delivered(Status) /\ sent' = sent /\ WS!Failing(Status) = {}
    BY DEF WS!BroadcastStatus, WS!Failing, WS!Raises
  <1>2. ASSUME NEW s \in Sockets PROVE Told(ws'[s], sent')
    <2>1. ws[s] \in Sessions /\ Told(ws[s], sent)
      BY DEF StreamsInv, SlotsInv, SocketsType
    <2>2. ws'[s] = ws[s] \/ OfferedAs(ws[s], ws'[s], Status)
      BY <1>1, OfferCases DEF WS!Delivered
    <2>3. CASE ws'[s] = ws[s]
      BY <1>1, <2>1, <2>3
    <2>4. CASE ws'[s] = [ws[s] EXCEPT !.queue = Append(ws[s].queue, Status)]
      <3> DEFINE v == ws[s]
                 w == ws'[s]
      <3>1. Status \in Messages /\ Status \notin Nat
        BY DEF Messages, WS!WebSocketAssumption
      <3>2. w.pc = v.pc /\ w.done = v.done /\ w.missed = v.missed
        BY <2>1, <2>4 DEF Sessions
      <3>3. WS!Stream(w) = Append(WS!Stream(v), Status)
        BY <2>1, <2>4, <3>1, QueueStreams
      <3>4. WS!Stream(v) \in Seq(Messages)
        BY <2>1, StreamType
      <3>5. SameNews(WS!Stream(v), WS!Stream(w))
        BY <3>1, <3>3, <3>4, OneMore
      <3>6. Carries(v, w)
        BY <3>2, <3>5 DEF Carries
      <3> QED BY <1>1, <2>1, <3>6 DEF Told, Carries, SameNews
    <2> QED BY <2>2, <2>3, <2>4 DEF OfferedAs
  <1> QED BY <1>2 DEF StreamsInv, Told, WS!Stream

\* A step that serves nobody who was not served before in the same way.
LEMMA OthersTold ==
    ASSUME StreamsInv, SlotsInv', UNCHANGED sent,
           \A s \in Sockets : ws'[s] = ws[s] \/ ws'[s].pc # "loop"
    PROVE  StreamsInv'
  <1>1. \A s \in Sockets : Told(ws'[s], sent')
    BY DEF StreamsInv, Told
  <1> QED BY <1>1 DEF StreamsInv, Told, WS!Stream

\* Who joins is owed nothing yet.
LEMMA JoinTold ==
    ASSUME WS!WebSocketAssumption, StreamsInv, NEW s \in Sockets, WS!Join(s)
    PROVE  StreamsInv'
  <1> DEFINE old == [n \in 1 .. sent |-> n]
  <1>1. SlotsInv /\ sent \in Nat /\ sent' = sent
    BY DEF StreamsInv, SlotsInv, SocketsType, WS!Join
  <1>2. /\ SlotsInv' /\ ws'[s].missed = {} /\ old \in Seq(Messages)
        /\ WS!Stream(ws'[s]) = Append(old, Status)
        /\ \A r \in Sockets \ {s} : ws'[r] = ws[r]
    BY <1>1, JoinSlots
  <1>3. Told(ws'[s], sent)
    <2>1. Len(old) = sent /\ \A i \in 1 .. sent : old[i] = i
      BY <1>1
    <2>2. Status \in Messages /\ Status \notin Nat
      BY DEF Messages, WS!WebSocketAssumption
    <2> HIDE DEF old
    <2>3. News(old) = 1 .. sent /\ InOrder(old)
      BY <1>1, <2>1 DEF News, InOrder
    <2>4. SameNews(old, Append(old, Status))
      BY <1>2, <2>2, OneMore
    <2>5. News(WS!Stream(ws'[s])) = 1 .. sent /\ InOrder(WS!Stream(ws'[s]))
      BY <1>2, <2>3, <2>4 DEF SameNews
    <2> QED BY <1>2, <2>5 DEF Told
  <1>4. \A r \in Sockets : Told(ws'[r], sent')
    BY <1>1, <1>2, <1>3 DEF StreamsInv
  <1> QED BY <1>2, <1>4 DEF StreamsInv, Told, WS!Stream

\* Every step keeps every client told.
LEMMA StreamsStep ==
    ASSUME WS!WebSocketAssumption, StreamsInv, [WS!Next]_WS!vars
    PROVE  StreamsInv'
  <1>0. SlotsInv /\ SlotsInv' /\ ws \in [Sockets -> Sessions]
    BY SlotsStep DEF StreamsInv, SlotsInv, SocketsType
  <1>a. ASSUME NEW s \in Sockets, \E w : Turned(s, w) /\ Carries(ws[s], w)
        PROVE  StreamsInv'
    BY <1>a, TurnedTold
  <1>1. ASSUME NEW s \in Sockets, NEW ip \in IPs, WS!Connect(s, ip)
        PROVE  StreamsInv'
    <2>1. \A r \in Sockets : ws'[r] = ws[r] \/ ws'[r].pc # "loop"
      BY <1>0, <1>1 DEF WS!Connect, Sessions
    <2> QED BY <1>0, <1>1, <2>1, OthersTold DEF WS!Connect
  <1>b. ASSUME NEW s \in Sockets, WS!Release(s), UNCHANGED sent
        PROVE  StreamsInv'
    <2>1. \A r \in Sockets : ws'[r] = ws[r] \/ ws'[r].pc # "loop"
      BY <1>0, <1>b DEF WS!Release, WS!NoClient
    <2> QED BY <1>0, <1>b, <2>1, OthersTold
  <1>2. ASSUME NEW s \in Sockets, WS!Moves(s)
        PROVE  StreamsInv'
    <2>1. CASE WS!Accept(s)
      BY <1>0, <1>a, <2>1, AcceptTurns
    <2>2. CASE WS!Join(s)
      BY <2>2, JoinTold
    <2>3. CASE WS!WriterTake(s)
      BY <1>0, <1>a, <2>3, TakeTurns
    <2>4. CASE WS!WriterSent(s)
      BY <1>0, <1>a, <2>4, SentTurns
    <2>5. CASE WS!WriterFails(s) \/ WS!WriterStops(s)
      BY <1>0, <1>a, <2>5, EndTurns
    <2>6. CASE WS!Joined(s)
      <3>1. UNCHANGED <<running, stopper, sent>>
        BY <2>6 DEF WS!Joined, WS!service
      <3> QED BY <1>0, <1>a, <2>6, <3>1, CleanupTurns
    <2>7. CASE WS!CloseEnds(s)
      BY <1>b, <2>7 DEF WS!CloseEnds
    <2> QED BY <1>2, <2>1, <2>2, <2>3, <2>4, <2>5, <2>6, <2>7 DEF WS!Moves
  <1>3. ASSUME NEW s \in Sockets, WS!Leave(s)
        PROVE  StreamsInv'
    BY <1>0, <1>a, <1>3, LeaveTurns DEF WS!Leave, WS!slots, WS!service
  <1>4. ASSUME NEW s \in Sockets, WS!Ping(s)
        PROVE  StreamsInv'
    BY <1>0, <1>a, <1>4, PingTurns
  <1>5. ASSUME NEW s \in Sockets, WS!Cancel(s)
        PROVE  StreamsInv'
    <2>1. UNCHANGED <<running, stopper, sent>>
      BY <1>5 DEF WS!Cancel, WS!service
    <2>2. CASE /\ ws[s].pc \in {"accept", "status", "loop"}
               /\ ws' = WS!LeaveStep(s) /\ UNCHANGED WS!slots
      BY <1>0, <1>a, <2>1, <2>2, LeaveTurns DEF WS!slots
    <2>3. CASE /\ ws[s].pc \in {"join", "close"} /\ ~ws[s].shut
               /\ ws' = [ws EXCEPT ![s].shut = TRUE] /\ UNCHANGED WS!slots
      BY <1>0, <1>a, <2>1, <2>3, CleanupTurns
    <2>4. CASE ws[s].pc = "close" /\ ws[s].shut /\ WS!Release(s)
      BY <1>b, <2>1, <2>4
    <2>5. CASE WS!Losing(s) /\ ws' = WS!LostStep(s) /\ UNCHANGED WS!slots
      BY <1>0, <1>a, <2>1, <2>5, CleanupTurns
    <2> QED BY <1>5, <2>2, <2>3, <2>4, <2>5 DEF WS!Cancel
  <1>6. CASE WS!BroadcastCritical
    BY <1>0, <1>6, CriticalTold
  <1>7. CASE WS!BroadcastStatus
    BY <1>0, <1>7, StatusTold
  <1>8. CASE WS!Stop \/ WS!StopEnds \/ UNCHANGED WS!vars
    <2>1. UNCHANGED <<ws, sent>>
      BY <1>8 DEF WS!Stop, WS!StopEnds, WS!vars, WS!slots, WS!service
    <2> QED BY <1>0, <2>1, OthersTold
  <1>9. CASE WS!StopHandlers
    <2>1. UNCHANGED sent
      BY <1>9 DEF WS!StopHandlers
    <2>2. \A s \in Sockets : ws'[s].pc # "loop"
      BY <1>0, <1>9, StopHandlersSlots
    <2> QED BY <1>0, <2>1, <2>2, OthersTold
  <1> QED BY <1>1, <1>2, <1>3, <1>4, <1>5, <1>6, <1>7, <1>8, <1>9 DEF WS!Next

\* A client of WebSocketManager that is not being disconnected gets every
\* critical message since it joined, once and in order, but for those whose
\* broadcast raised at it or at a client that joined earlier; however full the
\* queues and however slow the clients are.
THEOREM DeliveryTheorem == WS!Spec => []Delivery
  <1>1. WS!Init => StreamsInv
    <2> SUFFICES ASSUME WS!Init PROVE StreamsInv
      OBVIOUS
    <2>1. \A s \in Sockets : ws[s].pc = "idle"
      BY DEF WS!Init, WS!NoClient
    <2> QED BY <2>1, SlotsInit, SameSockets DEF StreamsInv, Told
  <1>2. StreamsInv /\ [WS!Next]_WS!vars => StreamsInv'
    BY StreamsStep, SameSockets
  <1>3. StreamsInv => WS!Delivery
    <2> SUFFICES ASSUME StreamsInv, NEW s \in Sockets, ws[s].pc = "loop", ~ws[s].done
                 PROVE  LET stream == WS!Stream(ws[s]) IN
                        /\ WS!ToSet(stream) \cap Nat = (1 .. sent) \ ws[s].missed
                        /\ \A i, j \in DOMAIN stream :
                              i < j /\ {stream[i], stream[j]} \subseteq Nat
                                  => stream[i] < stream[j]
      BY DEF WS!Delivery
    <2> DEFINE stream == WS!Stream(ws[s])
    <2>1. ws[s] \in Sessions /\ Told(ws[s], sent)
      BY DEF StreamsInv, SlotsInv, SocketsType
    <2>2. stream \in Seq(Messages) /\ DOMAIN stream = 1 .. Len(stream)
      <3>1. stream \in Seq(Messages)
        BY <2>1, StreamType
      <3> HIDE DEF stream
      <3> QED BY <3>1, LenProperties
    <2>3. News(stream) = (1 .. sent) \ ws[s].missed /\ InOrder(stream)
      BY <2>1 DEF Told
    <2> HIDE DEF stream
    <2>4. WS!ToSet(stream) \cap Nat = News(stream)
      <3>1. ToSet(stream) \cap Nat = News(stream)
        BY <2>2 DEF ToSet, News
      <3> QED BY <3>1, SameOperators
    <2>5. \A i, j \in DOMAIN stream :
             i < j /\ {stream[i], stream[j]} \subseteq Nat => stream[i] < stream[j]
      BY <2>2, <2>3 DEF InOrder
    <2> QED BY <2>3, <2>4, <2>5 DEF stream
  <1>4. StreamsInv => Delivery
    BY <1>3, SameSockets
  <1> QED BY <1>1, <1>2, <1>4, PTL DEF WS!Spec

==========================================================================
