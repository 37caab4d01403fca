--------------------------- MODULE WalletSend ---------------------------
(***************************************************************************)
(* WalletService.send (wallet/service.py) for one user: concurrent and     *)
(* repeated requests with idempotency keys, over the application database  *)
(* (durable) and an embedded node with a chain database (durable too).     *)
(* The process may be killed at any time, any call of the node may be      *)
(* refused or fail, and any write of the application database may fail.    *)
(*                                                                         *)
(*   records : the idempotency_records rows by key; state "none" is no row *)
(*   task    : the running _send calls; at each pc the call is suspended   *)
(*             in an await (or, "enter", has just been given the lock):    *)
(*               "view"   get_wallet_state      "build"  the worker thread *)
(*               "find"   find_transaction      "submit" submit_transaction*)
(*               "refind" the second find       "record" has its answer    *)
(*   queue   : who holds the user's lock (the head) and who waits for it   *)
(*   pool, confirmed, relayed : the node's pending and confirmed           *)
(*             transactions and those it has ever announced to its peers   *)
(*   time    : the clock, in seconds                                       *)
(*                                                                         *)
(* Every transfer takes one coin.  A transaction is what it pays, the coin *)
(* and the second it was built in: two requests for the same payment may   *)
(* build the same transaction.  submitted and crashes are history.         *)
(***************************************************************************)
EXTENDS Naturals, Sequences, FiniteSets, SequencesExt

CONSTANTS
    Callers,        \* the concurrent HTTP requests
    Keys,           \* Idempotency-Key values
    Requests,       \* {recipient_address, amount, fee}, or its fingerprint
    Coins,          \* the wallet's confirmed outputs, in selection order
    PoolLimit,      \* mempool capacity
    MaxTime,        \* bound on the clock
    MaxCrashes      \* bound on restarts

ASSUME WalletAssumption ==
    /\ Coins \subseteq Nat
    /\ PoolLimit \in Nat
    /\ MaxTime \in Nat
    /\ MaxCrashes \in Nat

VARIABLES records, task, queue, pool, confirmed, relayed, time, submitted, crashes

app == <<records, task, queue>>
ledger == <<pool, confirmed, relayed>>
vars == <<app, ledger, time, submitted, crashes>>

Transactions == [req : Requests, coin : Coins, time : 0 .. MaxTime]

Row(state, req, tx) == [state |-> state, req |-> req, tx |-> tx]

\* No row for the key.
NoRow == [state |-> "none"]

\* A call of _send: its arguments and local variables.
Call(pc, key, req) ==
    [pc |-> pc, key |-> key, req |-> req, coins |-> {}, tx |-> {},
     accepted |-> FALSE]

NoCall == [pc |-> "idle"]

CoinsOf(txs) == {t.coin : t \in txs}

\* Mutant: only pending transactions are found.
KnownPending(tx) == tx \in pool

\* Node.find_transaction: pending or confirmed.
Known(tx) == tx \in pool \cup confirmed

\* The admission rules, as far as the wallet's own transactions tell them
\* apart: unknown, inputs unspent and unreserved, room in the pool.
Admissible(tx) ==
    /\ ~Known(tx)
    /\ tx.coin \notin CoinsOf(pool \cup confirmed)
    /\ Cardinality(pool) < PoolLimit

\* Mutant: the lock is not given back.
ReturnKeepsLock(c) ==
    /\ task' = [task EXCEPT ![c] = NoCall]
    /\ UNCHANGED queue

\* The call returns or raises: its lock goes to the next waiter.
Return(c) ==
    /\ task' = [task EXCEPT ![c] = NoCall]
    /\ queue' = Tail(queue)

Goto(c, pc) == task' = [task EXCEPT ![c].pc = pc]

-----------------------------------------------------------------------------
(* _send.                                                                    *)

\* send: the call waits for the user's lock.
Start(c) ==
    /\ task[c].pc = "idle"
    /\ \E key \in Keys, req \in Requests :
          task' = [task EXCEPT ![c] = Call("enter", key, req)]
    /\ queue' = Append(queue, c)
    /\ UNCHANGED <<records, ledger, time, submitted, crashes>>

\* Mutant: calls do not wait for each other.
HasLockAlways(c) == TRUE

\* async with lock
HasLock(c) == queue # <<>> /\ c = Head(queue)

\* Mutant: a rejected key may be used again.
UnusedOrRejected(row) == row.state \in {"none", "rejected"}

\* record is None
Unused(row) == row.state = "none"

\* Until the first await: the key's row decides.  The INSERT may fail.
Enter(c) ==
    /\ HasLock(c)
    /\ task[c].pc = "enter"
    /\ LET key == task[c].key
           row == records[key]
       IN  \/ /\ Unused(row)
              /\ records' = [records EXCEPT ![key] = Row("reserved", task[c].req, {})]
              /\ Goto(c, "view")
              /\ UNCHANGED queue
           \/ /\ \/ Unused(row)
                 \/ ~Unused(row) /\ row.req # task[c].req
                 \/ row.state \in {"accepted", "rejected"}
              /\ Return(c)
              /\ UNCHANGED records
           \/ /\ row.state = "reserved" /\ row.req = task[c].req
              /\ Goto(c, "view")
              /\ UNCHANGED <<records, queue>>
           \/ /\ row.state = "prepared" /\ row.req = task[c].req
              /\ task' = [task EXCEPT ![c].pc = "find", ![c].tx = row.tx]
              /\ UNCHANGED <<records, queue>>
    /\ UNCHANGED <<ledger, time, submitted, crashes>>

\* get_wallet_state: the confirmed outputs no pending transaction spends.
View(c) ==
    /\ task[c].pc = "view"
    /\ task' = [task EXCEPT ![c].pc = "build",
                            ![c].coins = Coins \ CoinsOf(pool \cup confirmed)]
    /\ UNCHANGED <<records, queue, ledger, time, submitted, crashes>>

\* UPDATE ... SET transaction_data=?, result_txid=?, state='prepared'
StorePrepared(key, req, tx) ==
    records' = [records EXCEPT ![key] = Row("prepared", req, {tx})]

\* select_utxos takes the first coin; the signed bytes are stored before the
\* node is told.
Prepare(c) ==
    /\ task[c].pc = "build"
    /\ \E coin \in task[c].coins :
          LET tx == [req |-> task[c].req, coin |-> coin, time |-> time] IN
          /\ \A other \in task[c].coins : coin <= other
          /\ StorePrepared(task[c].key, task[c].req, tx)
          /\ task' = [task EXCEPT ![c].pc = "find", ![c].tx = {tx}]
    /\ UNCHANGED <<queue, ledger, time, submitted, crashes>>

\* DELETE FROM idempotency_records WHERE ... state='reserved'
DeleteReserved(key) ==
    records' = IF records[key].state = "reserved"
               THEN [records EXCEPT ![key] = NoRow]
               ELSE records

\* Anything raised before the transaction is prepared: the node refuses, the
\* balance is too small, a write fails.  The DELETE may fail as well.
GiveUp(c) ==
    /\ task[c].pc \in {"view", "build"}
    /\ DeleteReserved(task[c].key) \/ UNCHANGED records
    /\ Return(c)
    /\ UNCHANGED <<ledger, time, submitted, crashes>>

Find(c) ==
    /\ task[c].pc = "find"
    /\ LET known == \E tx \in task[c].tx : Known(tx) IN
       task' = [task EXCEPT ![c].pc = IF known THEN "record" ELSE "submit",
                            ![c].accepted = known]
    /\ UNCHANGED <<records, queue, ledger, time, submitted, crashes>>

\* The node processes the submission; an admitted transaction is announced.
Admit(c, admitted) ==
    /\ \A tx \in task[c].tx : admitted = Admissible(tx)
    /\ pool' = IF admitted THEN pool \cup task[c].tx ELSE pool
    /\ relayed' = IF admitted THEN relayed \cup task[c].tx ELSE relayed
    /\ submitted' = submitted \cup ({task[c].key} \X task[c].tx)
    /\ UNCHANGED confirmed

Submit(c) ==
    /\ task[c].pc = "submit"
    /\ \E admitted \in BOOLEAN :
          /\ Admit(c, admitted)
          /\ task' = [task EXCEPT ![c].pc = IF admitted THEN "record" ELSE "refind",
                                  ![c].accepted = admitted]
    /\ UNCHANGED <<records, queue, time, crashes>>

\* The node fails after it committed the submission: the caller sees an error.
SubmitRaises(c) ==
    /\ task[c].pc = "submit"
    /\ \E admitted \in BOOLEAN : Admit(c, admitted)
    /\ Return(c)
    /\ UNCHANGED <<records, time, crashes>>

Refind(c) ==
    /\ task[c].pc = "refind"
    /\ task' = [task EXCEPT ![c].pc = "record",
                            ![c].accepted = \E tx \in task[c].tx : Known(tx)]
    /\ UNCHANGED <<records, queue, ledger, time, submitted, crashes>>

\* The node refuses the call, or the write of the result fails: the row stays
\* prepared.
Raise(c) ==
    /\ task[c].pc \in {"find", "submit", "refind", "record"}
    /\ Return(c)
    /\ UNCHANGED <<records, ledger, time, submitted, crashes>>

\* Mutant: the node's verdict is not looked at.
RecordAccepted(c) ==
    /\ task[c].pc = "record"
    /\ records' = [records EXCEPT ![task[c].key] = Row("accepted", @.req, @.tx)]
    /\ Return(c)
    /\ UNCHANGED <<ledger, time, submitted, crashes>>

\* UPDATE ... SET state=?, then return or raise TRANSACTION_CONFLICT.
Record(c) ==
    /\ task[c].pc = "record"
    /\ records' = [records EXCEPT ![task[c].key] =
                     Row(IF task[c].accepted THEN "accepted" ELSE "rejected",
                         @.req, @.tx)]
    /\ Return(c)
    /\ UNCHANGED <<ledger, time, submitted, crashes>>

-----------------------------------------------------------------------------
(* The rest of the world.                                                    *)

\* A block, mined here or by a peer that was told of the transaction, confirms
\* it; pending transactions that spend the same coin are dropped.
Confirm(tx) ==
    /\ tx \in relayed
    /\ tx.coin \notin CoinsOf(confirmed)
    /\ confirmed' = confirmed \cup {tx}
    /\ pool' = {t \in pool : t.coin # tx.coin}
    /\ UNCHANGED <<app, relayed, time, submitted, crashes>>

Second ==
    /\ time < MaxTime
    /\ time' = time + 1
    /\ UNCHANGED <<app, ledger, submitted, crashes>>

\* The process dies and is restarted on both databases.
Crash ==
    /\ crashes < MaxCrashes
    /\ crashes' = crashes + 1
    /\ task' = [c \in Callers |-> NoCall]
    /\ queue' = <<>>
    /\ UNCHANGED <<records, ledger, time, submitted>>

Init ==
    /\ records = [k \in Keys |-> NoRow]
    /\ task = [c \in Callers |-> NoCall]
    /\ queue = <<>>
    /\ pool = {} /\ confirmed = {} /\ relayed = {}
    /\ time = 0
    /\ submitted = {}
    /\ crashes = 0

\* What a call does once it holds the lock.
Step(c) ==
    \/ Enter(c)
    \/ View(c)
    \/ Prepare(c)
    \/ GiveUp(c)
    \/ Find(c)
    \/ Submit(c)
    \/ SubmitRaises(c)
    \/ Refind(c)
    \/ Raise(c)
    \/ Record(c)

Next ==
    \/ \E c \in Callers : Start(c) \/ Step(c)
    \/ \E tx \in Transactions : Confirm(tx)
    \/ Second
    \/ Crash

\* Every await of a call ends, in an answer or in an error.
Spec == Init /\ [][Next]_vars /\ \A c \in Callers : WF_vars(Step(c))

-----------------------------------------------------------------------------
(* Properties.                                                               *)

States == {"reserved", "prepared", "accepted", "rejected"}

PCs == {"enter", "view", "build", "find", "submit", "refind", "record"}

Rows == [state : States, req : Requests, tx : SUBSET Transactions]

Calls == [pc : PCs, key : Keys, req : Requests, coins : SUBSET Coins,
          tx : SUBSET Transactions, accepted : BOOLEAN]

\* Rows and calls are of their types, and only the holder of the lock is past
\* it.
TypeOK ==
    /\ records \in [Keys -> Rows \cup {NoRow}]
    /\ task \in [Callers -> Calls \cup {NoCall}]
    /\ queue \in Seq(Callers)
    /\ \A c \in Callers :
          task[c].pc \notin {"idle", "enter"} => queue # <<>> /\ c = Head(queue)
    /\ pool \subseteq Transactions
    /\ confirmed \subseteq Transactions
    /\ relayed \subseteq Transactions
    /\ time \in 0 .. MaxTime
    /\ submitted \subseteq Keys \X Transactions
    /\ crashes \in 0 .. MaxCrashes

\* What a suspended call believes of its row is still true when it resumes:
\* reserved while it builds, and holding the call's own signed bytes once the
\* node may have seen them.  Whatever any key has sent is in its row.
CallsMatchRows ==
    /\ \A c \in Callers :
          /\ task[c].pc \in {"view", "build"} =>
                records[task[c].key].state = "reserved"
          /\ task[c].pc \in {"find", "submit", "refind", "record"} =>
                /\ records[task[c].key].state = "prepared"
                /\ records[task[c].key].tx = task[c].tx
    /\ \A key \in Keys :
          records[key].state \in {"prepared", "accepted", "rejected"} =>
              \E tx \in Transactions : records[key].tx = {tx}
    /\ \A s \in submitted :
          /\ records[s[1]].state \in {"prepared", "accepted", "rejected"}
          /\ s[2] \in records[s[1]].tx

\* Whatever is retried, and whenever the process dies, one key only ever sends
\* one transaction to the node: an intent is not paid twice.
PaidOnce ==
    \A s, t \in submitted : s[1] = t[1] => s[2] = t[2]

\* A key that was told "rejected; use a new intent" is not paid after all,
\* unless another key asked for the very same transaction.
RejectedNotPaid ==
    \A key \in Keys :
        records[key].state = "rejected" =>
            \A tx \in records[key].tx \cap confirmed :
                \E other \in Keys \ {key} : <<other, tx>> \in submitted

\* A transaction a receipt was given for is pending or confirmed from then on:
\* no restart, retry or confirmation of another payment of the wallet loses it.
AcceptedNotLost ==
    \A key \in Keys :
        records[key].state = "accepted" =>
            \A tx \in records[key].tx : Known(tx)

\* A row's signed bytes and its verdict never change, and a row with signed
\* bytes is never deleted.
ReceiptsAreFinal ==
    [][\A key \in Keys :
          LET old == records[key]
              new == records'[key]
          IN  /\ old.state \in {"prepared", "accepted", "rejected"} =>
                    new.state # "none" /\ new.tx = old.tx
              /\ old.state \in {"accepted", "rejected"} => new = old]_vars

\* Every call ends: the lock is passed on whatever the holder meets.
EveryCallEnds ==
    \A c \in Callers : task[c].pc # "idle" ~> task[c].pc = "idle"

==========================================================================
