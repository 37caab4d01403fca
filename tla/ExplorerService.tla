------------------------ MODULE ExplorerService ------------------------
(***************************************************************************)
(* The queries of the block explorer (api/services/explorer_service.py):   *)
(* coroutines that each ask the node several things, with blocks arriving  *)
(* in between, and that share one cached ChainView and the lock under      *)
(* which it is rebuilt.                                                    *)
(*                                                                         *)
(* The chain only grows, so a ChainView is represented by the height of    *)
(* its tip and the chain by its own height and, for every transaction,     *)
(* where it is: a block height, pending, or unknown to the node.  What a   *)
(* view computes from its blocks is in ChainView.                          *)
(*                                                                         *)
(*   height : of the node's tip                                            *)
(*   where  : where[x] is the height of x's block, Pending or Unknown      *)
(*   cache  : _cached_chain_view, or NoView                                *)
(*   lock   : _lock, the requests that wait for it after the one that has  *)
(*            it                                                           *)
(*   req    : the requests: what they ask for, the await they are in (pc), *)
(*            their local variables and their answer                       *)
(*   faults : what is left of the budget of failing calls to the node      *)
(* Of a request, been is the history of where x was while it ran and       *)
(* start the height it began at; no code reads them.                       *)
(***************************************************************************)
EXTENDS Integers, Sequences, SequencesExt

CONSTANTS
    Requests,
    Txs,
    batch_size,     \* blocks per get_blocks, 100 in the code
    MaxHeight,      \* bound on the chain
    MaxFaults       \* bound on calls to the node that raise

ASSUME ExplorerAssumption ==
    /\ batch_size \in Nat \ {0}
    /\ MaxHeight \in Nat
    /\ MaxFaults \in Nat

VARIABLES height, where, cache, lock, req, faults

vars == <<height, where, cache, lock, req, faults>>

Unknown == -1

Pending == -2

NoView == -1

\* Answers that are not a place or a height: an exception of the node, and
\* CHAIN_SNAPSHOT_INCOMPLETE.
Error == -3

Unavailable == -4

Ops == {"transaction", "search", "address", "stats", "blocks"}

Idle ==
    [op |-> "none", x |-> "none", pc |-> "idle", tip |-> NoView, got |-> 0,
     view |-> NoView, forced |-> FALSE, found |-> FALSE, info |-> NoView,
     answer |-> NoView, start |-> 0, been |-> {}]

Init ==
    /\ height = 0
    /\ where = [x \in Txs |-> Unknown]
    /\ cache = NoView
    /\ lock = <<>>
    /\ req = [r \in Requests |-> Idle]
    /\ faults = MaxFaults

Running == {r \in Requests : req[r].pc \notin {"idle", "done"}}

\* What the running requests have seen of their transactions.
Witnessed(requests, places) ==
    [r \in Requests |->
        IF \/ requests[r].pc \in {"idle", "done"}
           \/ requests[r].op \notin {"transaction", "search"} THEN requests[r]
        ELSE [requests[r] EXCEPT !.been = @ \cup {places[requests[r].x]}]]

-----------------------------------------------------------------------------
(* The node: transactions are submitted, dropped and confirmed.              *)

Submit(x) ==
    /\ where[x] = Unknown
    /\ where' = [where EXCEPT ![x] = Pending]
    /\ req' = Witnessed(req, where')
    /\ UNCHANGED <<height, cache, lock, faults>>

\* A block conflicts with x or x is removed by hand.
Drop(x) ==
    /\ where[x] = Pending
    /\ where' = [where EXCEPT ![x] = Unknown]
    /\ req' = Witnessed(req, where')
    /\ UNCHANGED <<height, cache, lock, faults>>

\* A new block with some of the transactions, pending here or not.
AddBlock(confirmed) ==
    /\ height < MaxHeight
    /\ \A x \in confirmed : where[x] \in {Unknown, Pending}
    /\ height' = height + 1
    /\ where' = [x \in Txs |-> IF x \in confirmed THEN height + 1 ELSE where[x]]
    /\ req' = Witnessed(req, where')
    /\ UNCHANGED <<cache, lock, faults>>

-----------------------------------------------------------------------------
(* A step of a request ends with the request in its next await, with its     *)
(* answer, or waiting for the lock.                                          *)

At(q, pc) == [q EXCEPT !.pc = pc]

\* The locals that no property looks at are gone.
Answer(q, answer) ==
    [Idle EXCEPT !.op = q.op, !.x = q.x, !.view = q.view, !.info = q.info,
                 !.start = q.start, !.been = q.been, !.pc = "done",
                 !.answer = answer]

\* tx_by_id of a view
Indexed(view, x) == where[x] \in 1 .. view

\* get_chain_view is called: its first await is get_latest_block_info.
GetChainView(q, forced) == [q EXCEPT !.pc = "tip", !.forced = forced]

\* get_transaction with the view it asked for; the refreshed view decides.
TransactionView(q) ==
    IF q.forced
    THEN Answer(q, IF Indexed(q.view, q.x) THEN where[q.x] ELSE Unknown)
    ELSE At(q, "pending")

\* search for a txid: the view first, the pool if it is not there.
SearchView(q) ==
    IF Indexed(q.view, q.x) THEN Answer(q, where[q.x]) ELSE At(q, "pending")

\* get_address_detail, with its first or its refreshed view.
AddressView(q) == At(q, "info")

\* get_chain_view returns: the caller goes on to its next await.
WithView(q, view) ==
    LET v == [q EXCEPT !.view = view]
    IN  CASE q.op = "transaction" -> TransactionView(v)
          [] q.op = "search" -> SearchView(v)
          [] q.op = "address" -> AddressView(v)
          [] q.op = "stats" -> At(v, "status")
          [] OTHER -> Answer(v, view)

\* The two tests of get_chain_view before it rebuilds.
CacheHit(q) == ~q.forced /\ cache # NoView /\ cache = q.tip

\* r leaves the lock; the next in line, if any, is woken up.
Released(r) == RemoveFirst(lock, r)

-----------------------------------------------------------------------------
(* The requests.                                                             *)

Start(r, op, x) ==
    /\ req[r].pc = "idle"
    /\ req' = [req EXCEPT ![r] = [GetChainView(Idle, FALSE) EXCEPT
                  !.op = op, !.x = x, !.start = height, !.been = {where[x]}]]
    /\ UNCHANGED <<height, where, cache, lock, faults>>

\* Mutant: a cached view is used whatever its tip.
ReadTipAnyCache(r) ==
    /\ req[r].pc = "tip"
    /\ LET q == [req[r] EXCEPT !.tip = height]
       IN  IF cache # NoView
           THEN req' = [req EXCEPT ![r] = WithView(q, cache)] /\ UNCHANGED lock
           ELSE /\ lock' = Append(lock, r)
                /\ req' = [req EXCEPT ![r] =
                     At([q EXCEPT !.got = 0], IF lock = <<>> THEN "fetch" ELSE "lock")]
    /\ UNCHANGED <<height, where, cache, faults>>

\* get_latest_block_info answers.  A free lock is taken at once.
ReadTip(r) ==
    /\ req[r].pc = "tip"
    /\ LET q == [req[r] EXCEPT !.tip = height]
       IN  IF CacheHit(q)
           THEN req' = [req EXCEPT ![r] = WithView(q, cache)] /\ UNCHANGED lock
           ELSE /\ lock' = Append(lock, r)
                /\ req' = [req EXCEPT ![r] =
                     At([q EXCEPT !.got = 0], IF lock = <<>> THEN "fetch" ELSE "lock")]
    /\ UNCHANGED <<height, where, cache, faults>>

\* The lock has come to r: the cache is tested again.
Acquire(r) ==
    /\ req[r].pc = "lock"
    /\ Head(lock) = r
    /\ IF CacheHit(req[r])
       THEN /\ req' = [req EXCEPT ![r] = WithView(@, cache)]
            /\ lock' = Released(r)
       ELSE /\ req' = [req EXCEPT ![r] = At(@, "fetch")]
            /\ UNCHANGED lock
    /\ UNCHANGED <<height, where, cache, faults>>

\* get_blocks answers: at most batch_size of the blocks below the tip read.
\* With all of them the view replaces the cached one, whatever that one is.
Fetch(r) ==
    /\ req[r].pc = "fetch"
    /\ LET q == req[r]
           needed == q.tip + 1
           limit == IF needed - q.got < batch_size THEN needed - q.got ELSE batch_size
           batch == IF height + 1 - q.got < limit THEN height + 1 - q.got ELSE limit
           got == q.got + batch
       IN  CASE got < needed /\ batch > 0 ->
                  /\ req' = [req EXCEPT ![r].got = got]
                  /\ UNCHANGED <<cache, lock>>
             [] got < needed /\ batch = 0 ->
                  /\ req' = [req EXCEPT ![r] = IF cache # NoView
                                 THEN WithView(@, cache) ELSE Answer(@, Unavailable)]
                  /\ lock' = Released(r)
                  /\ UNCHANGED cache
             [] OTHER ->
                  /\ req' = [req EXCEPT ![r] = WithView(@, q.tip)]
                  /\ lock' = Released(r)
                  /\ cache' = q.tip
    /\ UNCHANGED <<height, where, faults>>

\* Mutant: no second look at the chain.
AfterPendingOnce(q) ==
    CASE q.op = "stats" -> Answer(q, q.view)
      [] q.op = "address" -> Answer(q, q.info)
      [] OTHER ->
           Answer(q, IF \/ where[q.x] = Pending
                        \/ q.op = "transaction" /\ Indexed(q.view, q.x)
                     THEN where[q.x] ELSE Unknown)

\* get_pending_entries answers.
AfterPending(q) ==
    CASE q.op = "stats" -> Answer(q, q.view)
      [] q.op = "address" -> Answer(q, q.info)
      [] OTHER ->
           IF \/ where[q.x] = Pending
              \/ q.op = "transaction" /\ Indexed(q.view, q.x)
           THEN Answer(q, where[q.x])
           ELSE IF q.op = "transaction" THEN At(q, "find") ELSE Answer(q, Unknown)

ReadPending(r) ==
    /\ req[r].pc = "pending"
    /\ req' = [req EXCEPT ![r] = AfterPending(@)]
    /\ UNCHANGED <<height, where, cache, lock, faults>>

\* find_transaction answers, for a pending or a confirmed transaction.
Find(r) ==
    /\ req[r].pc = "find"
    /\ req' = [req EXCEPT ![r].found = (where[req[r].x] # Unknown),
                          ![r].pc = "latest"]
    /\ UNCHANGED <<height, where, cache, lock, faults>>

\* get_address_info answers; the second time the tip is not looked at again.
ReadInfo(r) ==
    /\ req[r].pc = "info"
    /\ req' = [req EXCEPT ![r] =
                  At([@ EXCEPT !.info = height], IF @.forced THEN "pending" ELSE "latest")]
    /\ UNCHANGED <<height, where, cache, lock, faults>>

\* The second get_latest_block_info of get_transaction and get_address_detail.
ReadLatest(r) ==
    /\ req[r].pc = "latest"
    /\ req' = [req EXCEPT ![r] =
                  IF height # @.view \/ @.found THEN GetChainView(@, TRUE)
                  ELSE IF @.op = "address" THEN At(@, "pending")
                  ELSE Answer(@, Unknown)]
    /\ UNCHANGED <<height, where, cache, lock, faults>>

\* get_stats: get_status answers.
ReadStatus(r) ==
    /\ req[r].pc = "status"
    /\ req' = [req EXCEPT ![r] = At(@, "pending")]
    /\ UNCHANGED <<height, where, cache, lock, faults>>

\* Mutant: the lock is not given back.
FailKeepsLock(r) ==
    /\ faults > 0
    /\ r \in Running /\ req[r].pc # "lock"
    /\ req' = [req EXCEPT ![r] = Answer(@, Error)]
    /\ faults' = faults - 1
    /\ UNCHANGED <<height, where, cache, lock>>

\* The node is busy or closed: the call raises, out of the lock if it is held.
Fail(r) ==
    /\ faults > 0
    /\ r \in Running /\ req[r].pc # "lock"
    /\ req' = [req EXCEPT ![r] = Answer(@, Error)]
    /\ lock' = Released(r)
    /\ faults' = faults - 1
    /\ UNCHANGED <<height, where, cache>>

Step(r) ==
    \/ ReadTip(r)
    \/ Acquire(r)
    \/ Fetch(r)
    \/ ReadPending(r)
    \/ Find(r)
    \/ ReadInfo(r)
    \/ ReadLatest(r)
    \/ ReadStatus(r)

Next ==
    \/ \E r \in Requests :
          \/ \E op \in Ops, x \in Txs : Start(r, op, x)
          \/ Step(r)
          \/ Fail(r)
    \/ \E x \in Txs : Submit(x) \/ Drop(x)
    \/ \E confirmed \in SUBSET Txs : AddBlock(confirmed)

\* The node answers every call in the end.
Fairness == \A r \in Requests : WF_vars(Step(r))

Spec == Init /\ [][Next]_vars /\ Fairness

-----------------------------------------------------------------------------
(* Properties.                                                               *)

\* A view handed to a query was the whole chain at some moment while that
\* query ran, whoever built it and whatever replaced the cache meanwhile
\* (get_chain_view, tests before and under the lock).  The balance and the
\* history of an address are those of one and the same tip unless at least two
\* blocks came while the query ran (get_address_detail reads again once).
ViewsAreFresh ==
    \A r \in Requests :
        LET q == req[r] IN
        /\ q.view # NoView => q.view \in q.start .. height
        /\ q.op = "address" /\ q.pc = "done" /\ q.answer # Error =>
              q.info = q.view \/ height - q.start >= 2

\* get_transaction tells where the transaction really was at some moment of
\* the query; in particular one that is known throughout is never reported
\* missing, although pool and chain are read at different times.  search has
\* no second look: it may miss one, but only when a block came in between.
TransactionsAreFound ==
    \A r \in Requests :
        LET q == req[r] IN
        /\ q.pc = "done" /\ q.op \in {"transaction", "search"} =>
              \/ q.answer \in q.been \cup {Error}
              \/ q.op = "search" /\ q.answer = Unknown /\ height > q.view

\* Every query is answered, also when the one that holds the lock fails.
QueriesEnd == []<>(Running = {})

==========================================================================
