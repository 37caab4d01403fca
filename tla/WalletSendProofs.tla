------------------------ MODULE WalletSendProofs ------------------------
(***************************************************************************)
(* Theorems about WalletSend, for any number of concurrent calls, keys,    *)
(* requests, coins and restarts.                                           *)
(*                                                                         *)
(* PaidOnce is not inductive by itself: that a key never sends a second    *)
(* transaction depends on the row, which outlives the call and holds what  *)
(* was sent (CallsMatchRows), and that in turn on the user's lock, held by *)
(* every call past its first step (TypeOK).  What receipts and rejections  *)
(* promise needs the calls that are about to record a verdict (AcceptInv,  *)
(* RejectInv), and that no two announced transactions spend the same coin  *)
(* (CoinInv).                                                              *)
(***************************************************************************)
EXTENDS WalletSend, TLAPS

Inv == TypeOK /\ CallsMatchRows

\* The pcs of a call past its first step.
Inside == PCs \ {"enter"}

\* A call past its first step holds the lock: every other call is outside.
LEMMA OnlyOneInside ==
    ASSUME TypeOK, NEW c \in Callers, NEW d \in Callers,
           task[c].pc \in Inside, task[d].pc \in Inside
    PROVE  c = d
  BY DEF TypeOK, Inside, PCs

\* A call that is not idle has all its fields.
LEMMA CallType ==
    ASSUME TypeOK, NEW c \in Callers, task[c].pc # "idle"
    PROVE  task[c] \in Calls
  BY DEF TypeOK, NoCall

\* A row that exists has all its fields.
LEMMA RowType ==
    ASSUME TypeOK, NEW key \in Keys, records[key].state # "none"
    PROVE  records[key] \in Rows
  BY DEF TypeOK, NoRow

\* No row and no call.
LEMMA InitInv == Init => Inv
  BY WalletAssumption DEF Init, Inv, TypeOK, CallsMatchRows, NoCall, NoRow

\* The lock passes on when the call inside returns.
LEMMA ReturnType ==
    ASSUME TypeOK, NEW c \in Callers, task[c].pc \in Inside, Return(c)
    PROVE  /\ task' \in [Callers -> Calls \cup {NoCall}]
           /\ task'[c] = NoCall
           /\ \A d \in Callers \ {c} : task'[d] = task[d]
           /\ queue' \in Seq(Callers)
           /\ \A d \in Callers : task'[d].pc \in {"idle", "enter"}
  <1>1. queue # <<>> /\ queue \in Seq(Callers)
    BY DEF TypeOK, Inside, PCs
  <1>2. \A d \in Callers : task[d].pc \in Inside \cup {"idle", "enter"}
    BY DEF TypeOK, Calls, NoCall, Inside
  <1>3. \A d \in Callers \ {c} : task[d].pc \notin Inside
    BY OnlyOneInside
  <1> QED BY <1>1, <1>2, <1>3 DEF Return, TypeOK, NoCall

-----------------------------------------------------------------------------
(* Each step keeps the invariant.                                            *)

\* A call that is given the lock, or that moves on inside, keeps the types.
LEMMA MoveType ==
    ASSUME TypeOK, NEW c \in Callers, NEW call \in Calls,
           queue # <<>>, c = Head(queue),
           task' = [task EXCEPT ![c] = call], queue' = queue
    PROVE  /\ task' \in [Callers -> Calls \cup {NoCall}]
           /\ queue' \in Seq(Callers)
           /\ \A d \in Callers :
                 task'[d].pc \notin {"idle", "enter"} => queue' # <<>> /\ d = Head(queue')
  BY DEF TypeOK

\* One lemma per step of a call: it keeps the invariant.
LEMMA StartInv == ASSUME Inv, NEW c \in Callers, Start(c) PROVE Inv'
  <1> USE DEF Start, ledger
  <1>1. PICK key \in Keys, req \in Requests :
            task' = [task EXCEPT ![c] = Call("enter", key, req)]
    OBVIOUS
  <1>2. Call("enter", key, req) \in Calls
    BY DEF Call, Calls, PCs
  <1>3. queue' \in Seq(Callers) /\ (queue # <<>> => queue' # <<>> /\ Head(queue') = Head(queue))
    BY DEF Inv, TypeOK
  <1>4. TypeOK'
    BY <1>1, <1>2, <1>3 DEF Inv, TypeOK, Call
  <1>5. CallsMatchRows'
    BY <1>1 DEF Inv, TypeOK, CallsMatchRows, Call
  <1> QED BY <1>4, <1>5 DEF Inv

LEMMA EnterInv == ASSUME Inv, NEW c \in Callers, Enter(c) PROVE Inv'
  <1> DEFINE key == task[c].key
             row == records[key]
  <1> USE DEF ledger
  <1>1. /\ task[c] \in Calls /\ key \in Keys /\ task[c].pc = "enter"
        /\ queue # <<>> /\ c = Head(queue) /\ queue \in Seq(Callers)
        /\ \A d \in Callers \ {c} : task[d].pc \in {"idle", "enter"}
    <2>1. task[c] \in Calls
      BY CallType DEF Inv, Enter
    <2> QED BY <2>1 DEF Inv, Enter, HasLock, TypeOK, Calls, NoCall, PCs
  <1>2. UNCHANGED <<pool, confirmed, relayed, time, submitted, crashes>>
    BY DEF Enter
  <1>3. CASE /\ Unused(row)
             /\ records' = [records EXCEPT ![key] = Row("reserved", task[c].req, {})]
             /\ Goto(c, "view")
             /\ UNCHANGED queue
    <2>1. PICK call \in Calls : call = [task[c] EXCEPT !.pc = "view"]
      BY <1>1 DEF Calls, PCs
    <2>2. task' = [task EXCEPT ![c] = call]
      BY <1>3, <1>1, <2>1 DEF Goto
    <2>3. Row("reserved", task[c].req, {}) \in Rows
      BY <1>1 DEF Row, Rows, States, Calls
    <2>4. records' \in [Keys -> Rows \cup {NoRow}]
      BY <1>1, <1>3, <2>3 DEF Inv, TypeOK
    <2>5. TypeOK'
      BY <1>1, <1>2, <1>3, <2>1, <2>2, <2>4, MoveType DEF Inv, TypeOK
    <2>6. \A s \in submitted : s[1] # key
      BY <1>1, <1>3 DEF Inv, CallsMatchRows, Unused
    <2>7. CallsMatchRows'
      <3>1. \A d \in Callers :
               /\ task'[d].pc \in {"view", "build"} => d = c
               /\ task'[d].pc \notin {"find", "submit", "refind", "record"}
        BY <1>1, <2>1, <2>2 DEF Inv, TypeOK, Calls
      <3>2. task'[c].key = key /\ records'[key].state = "reserved"
        BY <1>1, <1>3, <2>1, <2>2 DEF Inv, TypeOK, Row, Calls
      <3>3. \A k \in Keys \ {key} : records'[k] = records[k]
        BY <1>3 DEF Inv, TypeOK
      <3>4. \A s \in submitted : s[1] \in Keys
        BY DEF Inv, TypeOK
      <3> QED BY <1>2, <2>6, <3>1, <3>2, <3>3, <3>4 DEF Inv, CallsMatchRows
    <2> QED BY <2>5, <2>7 DEF Inv
  <1>4. CASE Return(c) /\ UNCHANGED records
    <2>1. /\ task' \in [Callers -> Calls \cup {NoCall}]
          /\ task'[c] = NoCall
          /\ \A d \in Callers \ {c} : task'[d] = task[d]
          /\ queue' \in Seq(Callers)
      BY <1>1, <1>4 DEF Return, Inv, TypeOK
    <2>2. \A d \in Callers : task'[d].pc \in {"idle", "enter"}
      BY <1>1, <2>1 DEF NoCall
    <2>3. TypeOK'
      BY <1>2, <1>4, <2>1, <2>2 DEF Inv, TypeOK
    <2>4. CallsMatchRows'
      BY <1>2, <1>4, <2>2 DEF Inv, CallsMatchRows
    <2> QED BY <2>3, <2>4 DEF Inv
  <1>5. CASE /\ row.state = "reserved" /\ Goto(c, "view")
             /\ UNCHANGED <<records, queue>>
    <2>1. PICK call \in Calls : call = [task[c] EXCEPT !.pc = "view"]
      BY <1>1 DEF Calls, PCs
    <2>2. task' = [task EXCEPT ![c] = call]
      BY <1>5, <1>1, <2>1 DEF Goto
    <2>3. TypeOK'
      BY <1>1, <1>2, <1>5, <2>1, <2>2, MoveType DEF Inv, TypeOK
    <2>4. CallsMatchRows'
      <3>1. \A d \in Callers :
               /\ task'[d].pc \in {"view", "build"} => d = c
               /\ task'[d].pc \notin {"find", "submit", "refind", "record"}
        BY <1>1, <2>1, <2>2 DEF Inv, TypeOK, Calls
      <3>2. task'[c].key = key
        BY <1>1, <2>1, <2>2 DEF Inv, TypeOK, Calls
      <3> QED BY <1>2, <1>5, <3>1, <3>2 DEF Inv, CallsMatchRows
    <2> QED BY <2>3, <2>4 DEF Inv
  <1>6. CASE /\ row.state = "prepared"
             /\ task' = [task EXCEPT ![c].pc = "find", ![c].tx = row.tx]
             /\ UNCHANGED <<records, queue>>
    <2>1. row \in Rows
      BY <1>1, <1>6, RowType DEF Inv
    <2>2. PICK call \in Calls : call = [task[c] EXCEPT !.pc = "find", !.tx = row.tx]
      BY <1>1, <2>1 DEF Calls, PCs, Rows
    <2>3. task' = [task EXCEPT ![c] = call]
      BY <1>6, <1>1, <2>2 DEF Inv, TypeOK
    <2>a. /\ task' \in [Callers -> Calls \cup {NoCall}] /\ queue' \in Seq(Callers)
          /\ \A d \in Callers :
                task'[d].pc \notin {"idle", "enter"} => queue' # <<>> /\ d = Head(queue')
      BY <1>1, <1>6, <2>3, MoveType DEF Inv
    <2>4. TypeOK'
      BY <1>2, <1>6, <2>a DEF Inv, TypeOK
    <2>5. CallsMatchRows'
      <3>1. \A d \in Callers :
               /\ task'[d].pc \notin {"view", "build"}
               /\ task'[d].pc \in {"find", "submit", "refind", "record"} => d = c
        BY <1>1, <2>2, <2>3 DEF Inv, TypeOK, Calls
      <3>2. task'[c].key = key /\ task'[c].tx = row.tx
        BY <1>1, <2>2, <2>3 DEF Inv, TypeOK, Calls
      <3> QED BY <1>2, <1>6, <3>1, <3>2, ZenonT(40) DEF Inv, CallsMatchRows
    <2> QED BY <2>4, <2>5 DEF Inv
  <1> QED BY <1>3, <1>4, <1>5, <1>6 DEF Enter

\* What the call inside may rely on.
LEMMA InsideFacts ==
    ASSUME Inv, NEW c \in Callers, task[c].pc \in Inside
    PROVE  /\ task[c] \in Calls /\ task[c].key \in Keys
           /\ queue # <<>> /\ c = Head(queue) /\ queue \in Seq(Callers)
           /\ \A d \in Callers \ {c} : task[d].pc \in {"idle", "enter"}
  <1>1. task[c] \in Calls
    BY CallType DEF Inv, Inside, PCs
  <1>2. \A d \in Callers \ {c} : task[d].pc \notin Inside
    BY OnlyOneInside DEF Inv
  <1> QED BY <1>1, <1>2 DEF Inv, TypeOK, Calls, NoCall, PCs, Inside

\* The steps that only move the call on: its new state has to fit its row.
LEMMA MoveInv ==
    ASSUME Inv, NEW c \in Callers, task[c].pc \in Inside, NEW call \in Calls,
           task' = [task EXCEPT ![c] = call], queue' = queue,
           UNCHANGED <<records, confirmed, time, crashes>>,
           pool' \subseteq Transactions, relayed' \subseteq Transactions,
           submitted' \subseteq Keys \X Transactions,
           call.key = task[c].key,
           call.pc \in {"view", "build"} => records[call.key].state = "reserved",
           call.pc \in {"find", "submit", "refind", "record"} =>
               records[call.key].state = "prepared" /\ records[call.key].tx = call.tx,
           \A s \in submitted' :
               /\ records[s[1]].state \in {"prepared", "accepted", "rejected"}
               /\ s[2] \in records[s[1]].tx
    PROVE  Inv'
  <1>1. /\ queue # <<>> /\ c = Head(queue)
        /\ \A d \in Callers \ {c} : task[d].pc \in {"idle", "enter"}
    BY InsideFacts
  <1>2. task'[c] = call /\ \A d \in Callers \ {c} : task'[d] = task[d]
    BY DEF Inv, TypeOK
  <1>3. TypeOK'
    BY <1>1, MoveType DEF Inv, TypeOK
  <1>4. CallsMatchRows'
    BY <1>1, <1>2, SMTT(20) DEF Inv, CallsMatchRows
  <1> QED BY <1>3, <1>4 DEF Inv

\* The steps that end the call: afterwards nobody is inside.
LEMMA EndInv ==
    ASSUME Inv, NEW c \in Callers, task[c].pc \in Inside, Return(c),
           UNCHANGED <<confirmed, time, crashes>>,
           records' \in [Keys -> Rows \cup {NoRow}],
           pool' \subseteq Transactions, relayed' \subseteq Transactions,
           submitted' \subseteq Keys \X Transactions,
           \A key \in Keys :
               records'[key].state \in {"prepared", "accepted", "rejected"} =>
                   \E tx \in Transactions : records'[key].tx = {tx},
           \A s \in submitted' :
               /\ records'[s[1]].state \in {"prepared", "accepted", "rejected"}
               /\ s[2] \in records'[s[1]].tx
    PROVE  Inv'
  <1>1. /\ task' \in [Callers -> Calls \cup {NoCall}]
        /\ queue' \in Seq(Callers)
        /\ \A d \in Callers : task'[d].pc \in {"idle", "enter"}
    BY ReturnType DEF Inv
  <1>2. TypeOK'
    BY <1>1 DEF Inv, TypeOK
  <1>3. CallsMatchRows'
    BY <1>1 DEF CallsMatchRows
  <1> QED BY <1>2, <1>3 DEF Inv

LEMMA ViewInv == ASSUME Inv, NEW c \in Callers, View(c) PROVE Inv'
  <1> USE DEF View, ledger
  <1>1. task[c].pc \in Inside
    BY DEF Inside, PCs
  <1>2. task[c] \in Calls
    BY <1>1, InsideFacts
  <1>3. PICK call \in Calls :
            call = [task[c] EXCEPT !.pc = "build",
                                   !.coins = Coins \ CoinsOf(pool \cup confirmed)]
    BY <1>2 DEF Calls, PCs
  <1>4. task' = [task EXCEPT ![c] = call]
    BY <1>2, <1>3 DEF Inv, TypeOK
  <1>5. call.key = task[c].key /\ call.pc = "build"
    BY <1>2, <1>3 DEF Calls
  <1>6. /\ pool' \subseteq Transactions /\ relayed' \subseteq Transactions
        /\ submitted' \subseteq Keys \X Transactions
        /\ records[call.key].state = "reserved"
        /\ \A s \in submitted' :
              /\ records[s[1]].state \in {"prepared", "accepted", "rejected"}
              /\ s[2] \in records[s[1]].tx
    BY <1>5 DEF Inv, TypeOK, CallsMatchRows
  <1> QED BY <1>1, <1>4, <1>5, <1>6, MoveInv

LEMMA FindInv == ASSUME Inv, NEW c \in Callers, Find(c) \/ Refind(c) PROVE Inv'
  <1> USE DEF Find, Refind, ledger
  <1>1. task[c].pc \in {"find", "refind"}
    OBVIOUS
  <1>2. task[c] \in Calls
    BY <1>1, InsideFacts DEF Inside, PCs
  <1>3. PICK pc \in {"submit", "record"}, known \in BOOLEAN :
            task' = [task EXCEPT ![c].pc = pc, ![c].accepted = known]
    OBVIOUS
  <1>4. PICK call \in Calls : call = [task[c] EXCEPT !.pc = pc, !.accepted = known]
    BY <1>2 DEF Calls, PCs
  <1>5. task' = [task EXCEPT ![c] = call]
    BY <1>2, <1>3, <1>4 DEF Inv, TypeOK
  <1>6. call.key = task[c].key /\ call.tx = task[c].tx /\ call.pc \in {"submit", "record"}
    BY <1>2, <1>4 DEF Calls
  <1>7. task[c].pc \in Inside
    BY <1>1 DEF Inside, PCs
  <1> QED BY <1>1, <1>5, <1>6, <1>7, MoveInv DEF Inv, TypeOK, CallsMatchRows

\* What the node was sent is in the row of the key that sent it.
LEMMA AdmitFacts ==
    ASSUME Inv, NEW c \in Callers, task[c].pc = "submit",
           NEW admitted \in BOOLEAN, Admit(c, admitted)
    PROVE  /\ pool' \subseteq Transactions
           /\ relayed' \subseteq Transactions
           /\ submitted' \subseteq Keys \X Transactions
           /\ \A s \in submitted' :
                 /\ records[s[1]].state \in {"prepared", "accepted", "rejected"}
                 /\ s[2] \in records[s[1]].tx
  <1>1. task[c] \in Calls
    BY InsideFacts DEF Inside, PCs
  <1>2. task[c].tx \subseteq Transactions /\ task[c].key \in Keys
    BY <1>1 DEF Calls
  <1>3. /\ records[task[c].key].state = "prepared"
        /\ records[task[c].key].tx = task[c].tx
    BY DEF Inv, CallsMatchRows
  <1> QED BY <1>2, <1>3 DEF Admit, Inv, TypeOK, CallsMatchRows

LEMMA SubmitInv == ASSUME Inv, NEW c \in Callers, Submit(c) PROVE Inv'
  <1> USE DEF Submit
  <1>1. PICK admitted \in BOOLEAN :
            /\ Admit(c, admitted)
            /\ task' = [task EXCEPT ![c].pc = IF admitted THEN "record" ELSE "refind",
                                    ![c].accepted = admitted]
    OBVIOUS
  <1>2. task[c].pc \in Inside
    BY DEF Inside, PCs
  <1>3. task[c] \in Calls
    BY <1>2, InsideFacts
  <1>4. PICK call \in Calls :
            call = [task[c] EXCEPT !.pc = IF admitted THEN "record" ELSE "refind",
                                   !.accepted = admitted]
    BY <1>3 DEF Calls, PCs
  <1>5. task' = [task EXCEPT ![c] = call]
    BY <1>1, <1>3, <1>4 DEF Inv, TypeOK
  <1>6. call.key = task[c].key /\ call.tx = task[c].tx /\ call.pc \in {"refind", "record"}
    BY <1>3, <1>4 DEF Calls
  <1>7. /\ records[task[c].key].state = "prepared"
        /\ records[task[c].key].tx = task[c].tx
    BY DEF Inv, CallsMatchRows
  <1>8. UNCHANGED confirmed
    BY <1>1 DEF Admit
  <1>9. /\ pool' \subseteq Transactions /\ relayed' \subseteq Transactions
        /\ submitted' \subseteq Keys \X Transactions
        /\ \A s \in submitted' :
              /\ records[s[1]].state \in {"prepared", "accepted", "rejected"}
              /\ s[2] \in records[s[1]].tx
    BY <1>1, AdmitFacts
  <1> QED BY <1>2, <1>5, <1>6, <1>7, <1>8, <1>9, MoveInv

LEMMA SubmitRaisesInv == ASSUME Inv, NEW c \in Callers, SubmitRaises(c) PROVE Inv'
  <1> USE DEF SubmitRaises
  <1>1. PICK admitted \in BOOLEAN : Admit(c, admitted)
    OBVIOUS
  <1>2. task[c].pc \in Inside
    BY DEF Inside, PCs
  <1>3. UNCHANGED confirmed
    BY <1>1 DEF Admit
  <1> QED BY <1>1, <1>2, <1>3, AdmitFacts, EndInv DEF Inv, TypeOK, CallsMatchRows

LEMMA RaiseInv == ASSUME Inv, NEW c \in Callers, Raise(c) PROVE Inv'
  <1> USE DEF Raise, ledger
  <1>1. task[c].pc \in Inside
    BY DEF Inside, PCs
  <1> QED BY <1>1, EndInv DEF Inv, TypeOK, CallsMatchRows

LEMMA PrepareInv == ASSUME Inv, NEW c \in Callers, Prepare(c) PROVE Inv'
  <1> DEFINE key == task[c].key
  <1>0. PICK coin \in task[c].coins :
            LET tx == [req |-> task[c].req, coin |-> coin, time |-> time] IN
            /\ StorePrepared(task[c].key, task[c].req, tx)
            /\ task' = [task EXCEPT ![c].pc = "find", ![c].tx = {tx}]
    BY DEF Prepare
  <1> DEFINE tx == [req |-> task[c].req, coin |-> coin, time |-> time]
  <1>1. task[c].pc = "build"
    BY DEF Prepare
  <1>2. /\ task[c] \in Calls /\ key \in Keys
        /\ queue # <<>> /\ c = Head(queue)
        /\ \A d \in Callers \ {c} : task[d].pc \in {"idle", "enter"}
    BY <1>1, InsideFacts DEF Inside, PCs
  <1>4. tx \in Transactions
    BY <1>2 DEF Inv, TypeOK, Transactions, Calls
  <1>5. /\ records' = [records EXCEPT ![key] = Row("prepared", task[c].req, {tx})]
        /\ task' = [task EXCEPT ![c].pc = "find", ![c].tx = {tx}]
        /\ UNCHANGED <<queue, pool, confirmed, relayed, time, submitted, crashes>>
    BY <1>0 DEF Prepare, StorePrepared, ledger
  <1> HIDE DEF tx
  <1>6. PICK call \in Calls : call = [task[c] EXCEPT !.pc = "find", !.tx = {tx}]
    BY <1>2, <1>4 DEF Calls, PCs
  <1>7. task' = [task EXCEPT ![c] = call]
    BY <1>2, <1>5, <1>6 DEF Inv, TypeOK
  <1>8. call.key = key /\ call.pc = "find" /\ call.tx = {tx}
    BY <1>2, <1>6 DEF Calls
  <1>9. Row("prepared", task[c].req, {tx}) \in Rows
    BY <1>2, <1>4 DEF Row, Rows, States, Calls
  <1>10. /\ records' \in [Keys -> Rows \cup {NoRow}]
         /\ records'[key] = Row("prepared", task[c].req, {tx})
         /\ \A k \in Keys \ {key} : records'[k] = records[k]
    BY <1>2, <1>5, <1>9 DEF Inv, TypeOK
  <1>a. /\ task' \in [Callers -> Calls \cup {NoCall}] /\ queue' \in Seq(Callers)
        /\ \A d \in Callers :
              task'[d].pc \notin {"idle", "enter"} => queue' # <<>> /\ d = Head(queue')
    BY <1>2, <1>5, <1>7, MoveType DEF Inv
  <1>11. TypeOK'
    BY <1>5, <1>10, <1>a DEF Inv, TypeOK
  <1>12. \A s \in submitted : s[1] \in Keys \ {key}
    BY <1>1 DEF Inv, TypeOK, CallsMatchRows
  <1>13. \A d \in Callers : task'[d].pc \in {"idle", "enter"} \/ d = c
    BY <1>2, <1>7 DEF Inv, TypeOK
  <1>14. task'[c] = call
    BY <1>7 DEF Inv, TypeOK
  <1>15. CallsMatchRows'
    <2>1. records'[key].state = "prepared" /\ records'[key].tx = {tx}
      BY <1>10 DEF Row
    <2>2. \A d \in Callers :
             /\ task'[d].pc \notin {"view", "build"}
             /\ task'[d].pc \in {"find", "submit", "refind", "record"} =>
                   /\ records'[task'[d].key].state = "prepared"
                   /\ records'[task'[d].key].tx = task'[d].tx
      BY <1>8, <1>13, <1>14, <2>1
    <2>3. \A k \in Keys :
             records'[k].state \in {"prepared", "accepted", "rejected"} =>
                 \E u \in Transactions : records'[k].tx = {u}
      BY <1>4, <1>10, <2>1, ZenonT(40) DEF Inv, CallsMatchRows
    <2>4. \A s \in submitted' :
             /\ records'[s[1]].state \in {"prepared", "accepted", "rejected"}
             /\ s[2] \in records'[s[1]].tx
      BY <1>5, <1>10, <1>12 DEF Inv, CallsMatchRows
    <2> QED BY <2>2, <2>3, <2>4 DEF CallsMatchRows
  <1> QED BY <1>11, <1>15 DEF Inv

LEMMA GiveUpInv == ASSUME Inv, NEW c \in Callers, GiveUp(c) PROVE Inv'
  <1> DEFINE key == task[c].key
  <1>1. task[c].pc \in Inside
    BY DEF GiveUp, Inside, PCs
  <1>2. key \in Keys /\ records[key].state = "reserved"
    BY <1>1, InsideFacts DEF GiveUp, Inv, CallsMatchRows
  <1>3. /\ \/ records' = [records EXCEPT ![key] = NoRow]
           \/ records' = records
        /\ UNCHANGED <<pool, confirmed, relayed, time, submitted, crashes>>
        /\ Return(c)
    BY <1>2 DEF GiveUp, DeleteReserved, ledger
  <1>4. /\ records' \in [Keys -> Rows \cup {NoRow}]
        /\ \A k \in Keys \ {key} : records'[k] = records[k]
        /\ records'[key] \in {records[key], NoRow}
    BY <1>2, <1>3 DEF Inv, TypeOK
  <1>5. \A k \in Keys :
            records'[k].state \in {"prepared", "accepted", "rejected"} =>
                \E tx \in Transactions : records'[k].tx = {tx}
    BY <1>2, <1>4 DEF Inv, CallsMatchRows, NoRow
  <1>6. \A s \in submitted : s[1] \in Keys \ {key}
    BY <1>2 DEF Inv, TypeOK, CallsMatchRows
  <1>7. \A s \in submitted' :
            /\ records'[s[1]].state \in {"prepared", "accepted", "rejected"}
            /\ s[2] \in records'[s[1]].tx
    BY <1>3, <1>4, <1>6 DEF Inv, CallsMatchRows
  <1>8. /\ pool' \subseteq Transactions /\ relayed' \subseteq Transactions
        /\ submitted' \subseteq Keys \X Transactions
    BY <1>3 DEF Inv, TypeOK
  <1> QED BY <1>1, <1>3, <1>4, <1>5, <1>7, <1>8, EndInv

LEMMA RecordInv == ASSUME Inv, NEW c \in Callers, Record(c) PROVE Inv'
  <1> DEFINE key == task[c].key
             verdict == IF task[c].accepted THEN "accepted" ELSE "rejected"
             row == Row(verdict, records[key].req, records[key].tx)
  <1>1. task[c].pc \in Inside
    BY DEF Record, Inside, PCs
  <1>2. key \in Keys /\ records[key].state = "prepared"
    BY <1>1, InsideFacts DEF Record, Inv, CallsMatchRows
  <1>3. /\ records' = [records EXCEPT ![key] = row]
        /\ UNCHANGED <<pool, confirmed, relayed, time, submitted, crashes>>
        /\ Return(c)
    BY DEF Record, ledger
  <1>4. records[key] \in Rows
    BY <1>2, RowType DEF Inv
  <1>5. /\ row \in Rows /\ row.tx = records[key].tx
        /\ row.state \in {"accepted", "rejected"}
    BY <1>4 DEF Row, Rows, States
  <1> HIDE DEF row
  <1>6. /\ records' \in [Keys -> Rows \cup {NoRow}]
        /\ records'[key] = row
        /\ \A k \in Keys \ {key} : records'[k] = records[k]
    BY <1>2, <1>3, <1>5 DEF Inv, TypeOK
  <1>7. \A k \in Keys :
            records'[k].state \in {"prepared", "accepted", "rejected"} =>
                \E tx \in Transactions : records'[k].tx = {tx}
    BY <1>2, <1>5, <1>6 DEF Inv, CallsMatchRows
  <1>8. \A s \in submitted' :
            /\ records'[s[1]].state \in {"prepared", "accepted", "rejected"}
            /\ s[2] \in records'[s[1]].tx
    <2>1. \A s \in submitted : s[1] \in Keys
      BY DEF Inv, TypeOK
    <2> QED BY <1>3, <1>5, <1>6, <2>1 DEF Inv, CallsMatchRows
  <1>9. /\ pool' \subseteq Transactions /\ relayed' \subseteq Transactions
        /\ submitted' \subseteq Keys \X Transactions
    BY <1>3 DEF Inv, TypeOK
  <1> QED BY <1>1, <1>3, <1>6, <1>7, <1>8, <1>9, EndInv

\* The environment's steps leave rows and calls alone, or end all calls.
LEMMA WorldInv ==
    ASSUME Inv, Second \/ Crash \/ \E tx \in Transactions : Confirm(tx)
    PROVE  Inv'
  <1>1. CASE Second
    <2>1. TypeOK'
      BY <1>1, WalletAssumption DEF Second, Inv, TypeOK, app, ledger
    <2>2. CallsMatchRows'
      BY <1>1 DEF Second, Inv, CallsMatchRows, app, ledger
    <2> QED BY <2>1, <2>2 DEF Inv
  <1>2. CASE Crash
    <2>1. TypeOK'
      BY <1>2, WalletAssumption DEF Crash, Inv, TypeOK, NoCall, ledger
    <2>2. CallsMatchRows'
      BY <1>2 DEF Crash, Inv, CallsMatchRows, NoCall, ledger
    <2> QED BY <2>1, <2>2 DEF Inv
  <1>3. CASE \E tx \in Transactions : Confirm(tx)
    BY <1>3 DEF Confirm, Inv, TypeOK, CallsMatchRows, app
  <1> QED BY <1>1, <1>2, <1>3

\* Inv is inductive.
LEMMA StepInv == Inv /\ [Next]_vars => Inv'
  <1> SUFFICES ASSUME Inv, [Next]_vars PROVE Inv'
    OBVIOUS
  <1>1. CASE UNCHANGED vars
    BY <1>1 DEF vars, app, ledger, Inv, TypeOK, CallsMatchRows
  <1>2. ASSUME NEW c \in Callers, Start(c) \/ Step(c) PROVE Inv'
    BY <1>2, StartInv, EnterInv, ViewInv, PrepareInv, GiveUpInv, FindInv,
       SubmitInv, SubmitRaisesInv, RaiseInv, RecordInv DEF Step
  <1> QED BY <1>1, <1>2, WorldInv DEF Next

-----------------------------------------------------------------------------
(* The theorems.                                                             *)

\* Whatever calls, crashes and blocks come, one call at a time is past the
\* user's lock of send(), and its row is what it expects.
THEOREM InvariantTheorem == Spec => []Inv
  <1>1. Init /\ [][Next]_vars => []Inv
    BY InitInv, StepInv, PTL
  <1> QED BY <1>1, PTL DEF Spec

\* Rows and calls keep their types, and one call at a time is past the user's
\* lock.
THEOREM TypeCorrect == Spec => []TypeOK
  BY InvariantTheorem, PTL DEF Inv

\* A suspended call's row is still the one it expects when it resumes, and the
\* row of a key holds whatever the key has sent.
THEOREM RowsTheorem == Spec => []CallsMatchRows
  BY InvariantTheorem, PTL DEF Inv

\* However requests are repeated and whenever the process dies, no key sends
\* two transactions to the node.
THEOREM PaidOnceTheorem == Spec => []PaidOnce
  <1>1. Inv => PaidOnce
    <2> SUFFICES ASSUME Inv, NEW s \in submitted, NEW t \in submitted, s[1] = t[1]
                 PROVE  s[2] = t[2]
      BY DEF PaidOnce
    <2>1. s[1] \in Keys
      BY DEF Inv, TypeOK
    <2>2. PICK tx \in Transactions : records[s[1]].tx = {tx}
      BY <2>1 DEF Inv, CallsMatchRows
    <2>3. s[2] \in {tx} /\ t[2] \in {tx}
      BY <2>2 DEF Inv, CallsMatchRows
    <2> QED BY <2>3
  <1> QED BY <1>1, InvariantTheorem, PTL

-----------------------------------------------------------------------------
(* Receipts.                                                                 *)

\* The rows only change at Enter, Prepare, GiveUp and Record, which know the
\* state of the row they change.
LEMMA ReceiptStep ==
    ASSUME Inv, [Next]_vars, NEW key \in Keys,
           records[key].state \in {"prepared", "accepted", "rejected"}
    PROVE  /\ records'[key].state # "none"
           /\ records'[key].tx = records[key].tx
           /\ records[key].state \in {"accepted", "rejected"} => records'[key] = records[key]
  <1> DEFINE Goal == /\ records'[key].state # "none"
                     /\ records'[key].tx = records[key].tx
                     /\ records[key].state \in {"accepted", "rejected"} =>
                           records'[key] = records[key]
  <1>1. CASE UNCHANGED records
    BY <1>1
  <1>2. ASSUME NEW c \in Callers, Enter(c) PROVE Goal
    BY <1>2 DEF Enter, Unused, Inv, TypeOK
  <1>3. ASSUME NEW c \in Callers, Prepare(c) PROVE Goal
    <2>1. records[task[c].key].state = "reserved" /\ task[c].pc \in Inside
      BY <1>3 DEF Prepare, Inv, CallsMatchRows, Inside, PCs
    <2> QED BY <1>3, <2>1 DEF Prepare, StorePrepared, Inv, TypeOK
  <1>4. ASSUME NEW c \in Callers, GiveUp(c) PROVE Goal
    BY <1>4 DEF GiveUp, DeleteReserved, Inv, TypeOK
  <1>5. ASSUME NEW c \in Callers, Record(c) PROVE Goal
    <2>1. records[task[c].key].state = "prepared"
      BY <1>5 DEF Record, Inv, CallsMatchRows
    <2>2. task[c].key \in Keys
      BY <1>5, InsideFacts DEF Record, Inside, PCs
    <2> QED BY <1>5, <2>1, <2>2 DEF Record, Row, Inv, TypeOK
  <1>6. ASSUME NEW c \in Callers,
               \/ Start(c) \/ View(c) \/ Find(c) \/ Submit(c)
               \/ SubmitRaises(c) \/ Refind(c) \/ Raise(c)
        PROVE  UNCHANGED records
    BY <1>6 DEF Start, View, Find, Submit, SubmitRaises, Refind, Raise
  <1>7. ASSUME Second \/ Crash \/ \E tx \in Transactions : Confirm(tx)
        PROVE  UNCHANGED records
    BY <1>7 DEF Second, Crash, Confirm, app
  <1>8. CASE UNCHANGED vars
    BY <1>1, <1>8 DEF vars, app
  <1> QED BY <1>1, <1>2, <1>3, <1>4, <1>5, <1>6, <1>7, <1>8 DEF Next, Step

\* The signed bytes and the verdict of a key never change: every retry is told
\* the same.
THEOREM ReceiptsTheorem == Spec => ReceiptsAreFinal
  <1>1. Inv /\ [Next]_vars =>
          [\A key \in Keys :
              LET old == records[key]
                  new == records'[key]
              IN  /\ old.state \in {"prepared", "accepted", "rejected"} =>
                        new.state # "none" /\ new.tx = old.tx
                  /\ old.state \in {"accepted", "rejected"} => new = old]_vars
    BY ReceiptStep
  <1> QED BY <1>1, InvariantTheorem, PTL DEF Spec, ReceiptsAreFinal

-----------------------------------------------------------------------------
(* Admitted transactions.                                                    *)

\* Every transaction the node has announced is still known to it, and no two
\* of them spend the same coin: what a block confirms evicts nothing.
CoinInv ==
    /\ relayed = pool \cup confirmed
    /\ \A t, u \in relayed : t.coin = u.coin => t = u

\* With the answer a call is about to record.
AcceptInv ==
    /\ CoinInv
    /\ AcceptedNotLost
    /\ \A c \in Callers :
          task[c].pc = "record" /\ task[c].accepted =>
              \A tx \in task[c].tx : Known(tx)

\* Whether an admission or an eviction, what was known stays known.
LEMMA CoinStep ==
    ASSUME Inv, CoinInv, [Next]_vars
    PROVE  /\ CoinInv'
           /\ \A tx : Known(tx) => Known(tx)'
  <1> USE DEF CoinInv, Known
  <1>1. CASE UNCHANGED ledger
    BY <1>1 DEF ledger
  <1>2. ASSUME NEW t \in Transactions, Confirm(t)
        PROVE  /\ CoinInv'
               /\ \A tx : Known(tx) => Known(tx)'
    <2>1. t \in pool
      BY <1>2 DEF Confirm, CoinsOf
    <2>2. pool' = pool \ {t} /\ confirmed' = confirmed \cup {t} /\ relayed' = relayed
      BY <1>2, <2>1 DEF Confirm
    <2> QED BY <2>1, <2>2
  <1>3. ASSUME NEW c \in Callers, NEW admitted \in BOOLEAN,
               task[c].pc = "submit", Admit(c, admitted)
        PROVE  /\ CoinInv'
               /\ \A tx : Known(tx) => Known(tx)'
    <2>1. task[c] \in Calls
      BY <1>3, InsideFacts DEF Inside, PCs
    <2>2. PICK u \in Transactions : task[c].tx = {u}
      BY <1>3, <2>1 DEF Inv, CallsMatchRows, Calls
    <2>3. CASE admitted
      <3>1. u.coin \notin CoinsOf(pool \cup confirmed)
        BY <1>3, <2>2, <2>3 DEF Admit, Admissible
      <3>2. pool' = pool \cup {u} /\ relayed' = relayed \cup {u} /\ confirmed' = confirmed
        BY <1>3, <2>2, <2>3 DEF Admit
      <3>3. \A t \in relayed : t.coin # u.coin
        BY <3>1 DEF CoinsOf
      <3> QED BY <3>2, <3>3
    <2>4. CASE ~admitted
      BY <1>3, <2>4 DEF Admit
    <2> QED BY <2>3, <2>4
  <1>4. ASSUME NEW c \in Callers,
               \/ Start(c) \/ Enter(c) \/ View(c) \/ Prepare(c) \/ GiveUp(c)
               \/ Find(c) \/ Refind(c) \/ Raise(c) \/ Record(c)
        PROVE  UNCHANGED ledger
    BY <1>4 DEF Start, Enter, View, Prepare, GiveUp, Find, Refind, Raise, Record
  <1>5. CASE UNCHANGED vars \/ Second \/ Crash
    BY <1>1, <1>5 DEF vars, Second, Crash
  <1> QED BY <1>1, <1>2, <1>3, <1>4, <1>5 DEF Next, Step, Submit, SubmitRaises

\* No other step than Find, Submit and Refind leads a call to "record".
LEMMA NeverRecords ==
    ASSUME Inv, NEW c \in Callers,
           \/ Start(c) \/ Enter(c) \/ View(c) \/ Prepare(c) \/ GiveUp(c)
           \/ SubmitRaises(c) \/ Raise(c) \/ Record(c)
    PROVE  task'[c].pc # "record"
  <1>1. CASE Start(c)
    BY <1>1 DEF Start, Call, Inv, TypeOK
  <1>2. ASSUME Enter(c) \/ View(c) \/ Prepare(c) PROVE task[c] \in Calls
    BY <1>2, CallType DEF Enter, View, Prepare, Inv, PCs
  <1>3. CASE Enter(c)
    <2>1. CASE Goto(c, "view")
      BY <1>2, <1>3, <2>1 DEF Goto, Inv, TypeOK, Calls
    <2>2. CASE Return(c)
      BY <2>2 DEF Return, NoCall, Inv, TypeOK
    <2>3. CASE \E txs : task' = [task EXCEPT ![c].pc = "find", ![c].tx = txs]
      BY <1>2, <1>3, <2>3 DEF Inv, TypeOK, Calls
    <2> QED BY <1>3, <2>1, <2>2, <2>3 DEF Enter
  <1>4. CASE View(c)
    BY <1>2, <1>4 DEF View, Inv, TypeOK, Calls
  <1>5. CASE Prepare(c)
    <2>1. PICK txs : task' = [task EXCEPT ![c].pc = "find", ![c].tx = txs]
      BY <1>5 DEF Prepare
    <2> QED BY <1>2, <1>5, <2>1 DEF Inv, TypeOK, Calls
  <1>6. CASE GiveUp(c) \/ SubmitRaises(c) \/ Raise(c) \/ Record(c)
    BY <1>6 DEF GiveUp, SubmitRaises, Raise, Record, Return, NoCall, Inv, TypeOK
  <1> QED BY <1>1, <1>3, <1>4, <1>5, <1>6

\* A call that starts to record "accepted" has just been told so by the node.
LEMMA VerdictStep ==
    ASSUME Inv, AcceptInv, [Next]_vars, NEW c \in Callers,
           task'[c].pc = "record", task'[c].accepted, NEW tx \in task'[c].tx
    PROVE  Known(tx)'
  <1>1. CASE task'[c] = task[c]
    BY <1>1, CoinStep DEF AcceptInv
  <1>2. CASE Find(c) \/ Refind(c)
    <2>1. task[c] \in Calls
      BY <1>2, InsideFacts DEF Find, Refind, Inside, PCs
    <2>2. task'[c].tx = task[c].tx /\ \E t \in task[c].tx : Known(t)
      BY <1>2, <2>1 DEF Find, Refind, Inv, TypeOK, Calls
    <2>3. /\ task[c].key \in Keys
          /\ records[task[c].key].state = "prepared"
          /\ records[task[c].key].tx = task[c].tx
      BY <1>2, <2>1 DEF Find, Refind, Inv, CallsMatchRows, Calls
    <2>4. PICK u \in Transactions : task[c].tx = {u}
      BY <2>3 DEF Inv, CallsMatchRows
    <2>5. Known(tx)
      BY <2>2, <2>4
    <2> QED BY <2>5, CoinStep DEF AcceptInv
  <1>3. CASE Submit(c)
    <2>1. task[c] \in Calls
      BY <1>3, InsideFacts DEF Submit, Inside, PCs
    <2>2. PICK admitted \in BOOLEAN :
              /\ Admit(c, admitted)
              /\ task' = [task EXCEPT ![c].pc = IF admitted THEN "record" ELSE "refind",
                                      ![c].accepted = admitted]
      BY <1>3 DEF Submit
    <2>3. task'[c].tx = task[c].tx /\ admitted
      BY <2>1, <2>2 DEF Inv, TypeOK, Calls
    <2> QED BY <2>2, <2>3 DEF Admit, Known
  <1>4. CASE task'[c].pc # "record"
    BY <1>4
  <1>5. ASSUME \/ Start(c) \/ Enter(c) \/ View(c) \/ Prepare(c) \/ GiveUp(c)
               \/ SubmitRaises(c) \/ Raise(c) \/ Record(c)
        PROVE  task'[c].pc # "record"
    BY <1>5, NeverRecords
  <1>7. ASSUME NEW d \in Callers \ {c}, Start(d) \/ Step(d) PROVE task'[c] = task[c]
    BY <1>7 DEF Start, Step, Enter, View, Prepare, GiveUp, Find, Submit, SubmitRaises,
                Refind, Raise, Record, Goto, Return, Inv, TypeOK
  <1>8. CASE UNCHANGED vars \/ Second \/ \E t \in Transactions : Confirm(t)
    BY <1>1, <1>8 DEF vars, app, Second, Confirm
  <1>9. CASE Crash
    BY <1>4, <1>9 DEF Crash, NoCall
  <1> QED BY <1>1, <1>2, <1>3, <1>4, <1>5, <1>7, <1>8, <1>9 DEF Next, Step

\* A row becomes accepted only at Record.
LEMMA RecordAccepts ==
    ASSUME Inv, [Next]_vars, NEW key \in Keys,
           records'[key].state = "accepted", records[key].state # "accepted"
    PROVE  \E c \in Callers : Record(c) /\ task[c].key = key /\ task[c].accepted
  <1>1. ASSUME UNCHANGED records PROVE FALSE
    BY <1>1
  <1>2. ASSUME NEW c \in Callers, Enter(c) PROVE FALSE
    BY <1>2 DEF Enter, Row, Inv, TypeOK
  <1>3. ASSUME NEW c \in Callers, Prepare(c) PROVE FALSE
    BY <1>3 DEF Prepare, StorePrepared, Row, Inv, TypeOK
  <1>4. ASSUME NEW c \in Callers, GiveUp(c) PROVE FALSE
    BY <1>4 DEF GiveUp, DeleteReserved, NoRow, Inv, TypeOK
  <1>5. ASSUME NEW c \in Callers, Record(c) PROVE task[c].key = key /\ task[c].accepted
    BY <1>5 DEF Record, Row, Inv, TypeOK
  <1>6. ASSUME NEW c \in Callers,
               \/ Start(c) \/ View(c) \/ Find(c) \/ Submit(c)
               \/ SubmitRaises(c) \/ Refind(c) \/ Raise(c)
        PROVE  UNCHANGED records
    BY <1>6 DEF Start, View, Find, Submit, SubmitRaises, Refind, Raise
  <1>7. ASSUME UNCHANGED vars \/ Second \/ Crash \/ \E tx \in Transactions : Confirm(tx)
        PROVE  UNCHANGED records
    BY <1>7 DEF vars, Second, Crash, Confirm, app
  <1> QED BY <1>1, <1>2, <1>3, <1>4, <1>5, <1>6, <1>7 DEF Next, Step

\* AcceptInv is inductive, given Inv.
LEMMA AcceptStep == Inv /\ AcceptInv /\ [Next]_vars => AcceptInv'
  <1> SUFFICES ASSUME Inv, AcceptInv, [Next]_vars PROVE AcceptInv'
    OBVIOUS
  <1>1. AcceptedNotLost'
    <2> SUFFICES ASSUME NEW key \in Keys, records'[key].state = "accepted",
                        NEW tx \in records'[key].tx
                 PROVE  Known(tx)'
      BY DEF AcceptedNotLost
    <2>1. CASE records[key].state = "accepted"
      <3>1. records'[key].tx = records[key].tx
        BY <2>1, ReceiptStep
      <3>2. Known(tx)
        BY <2>1, <3>1 DEF AcceptInv, AcceptedNotLost
      <3> QED BY <3>2, CoinStep DEF AcceptInv
    <2>2. CASE records[key].state # "accepted"
      <3>1. PICK c \in Callers : Record(c) /\ task[c].key = key /\ task[c].accepted
        BY <2>2, RecordAccepts
      <3>2. records[key].state = "prepared" /\ records[key].tx = task[c].tx
        BY <3>1 DEF Record, Inv, CallsMatchRows
      <3>3. records'[key].tx = records[key].tx
        BY <3>2, ReceiptStep
      <3>4. Known(tx)
        BY <3>1, <3>2, <3>3 DEF AcceptInv, Record
      <3> QED BY <3>4, CoinStep DEF AcceptInv
    <2> QED BY <2>1, <2>2
  <1>2. \A c \in Callers :
            task'[c].pc = "record" /\ task'[c].accepted =>
                \A tx \in task'[c].tx : Known(tx)'
    BY VerdictStep
  <1>3. CoinInv'
    BY CoinStep DEF AcceptInv
  <1> QED BY <1>1, <1>2, <1>3 DEF AcceptInv

\* No receipt is given for a transaction that is neither pending nor confirmed
\* (_send's verdict), and none disappears after it was given, restarts and
\* confirmations of the wallet's other transactions included.
THEOREM AcceptedTheorem == Spec => []AcceptedNotLost
  <1>1. Init => AcceptInv
    BY DEF Init, AcceptInv, CoinInv, AcceptedNotLost, NoRow, NoCall
  <1>2. AcceptInv => AcceptedNotLost
    BY DEF AcceptInv
  <1> QED BY <1>1, <1>2, AcceptStep, InvariantTheorem, PTL DEF Spec

-----------------------------------------------------------------------------
(* Rejected intents.                                                         *)

\* Another key sent the node the same transaction.
SentByAnother(key, tx) == \E other \in Keys \ {key} : <<other, tx>> \in submitted

\* What was or is about to be reported as rejected has not been announced by
\* the node, so no block can hold it, unless on behalf of another key.
RejectInv ==
    /\ \A key \in Keys :
          records[key].state = "rejected" =>
              \A tx \in records[key].tx \cap relayed : SentByAnother(key, tx)
    /\ \A c \in Callers :
          task[c].pc = "record" /\ ~task[c].accepted =>
              \A tx \in task[c].tx \cap relayed : SentByAnother(task[c].key, tx)

\* Only a call at "submit" makes the node announce a transaction, under its
\* own key.
LEMMA RelayStep ==
    ASSUME Inv, [Next]_vars
    PROVE  /\ submitted \subseteq submitted'
           /\ \A tx \in relayed' \ relayed :
                 \E c \in Callers :
                    task[c].pc = "submit" /\ <<task[c].key, tx>> \in submitted'
  <1>1. CASE UNCHANGED <<relayed, submitted>>
    BY <1>1
  <1>2. ASSUME NEW c \in Callers, NEW admitted \in BOOLEAN,
               task[c].pc = "submit", Admit(c, admitted)
        PROVE  /\ submitted \subseteq submitted'
               /\ \A tx \in relayed' \ relayed :
                     \E d \in Callers :
                        task[d].pc = "submit" /\ <<task[d].key, tx>> \in submitted'
    BY <1>2 DEF Admit
  <1>3. ASSUME NEW c \in Callers,
               \/ Start(c) \/ Enter(c) \/ View(c) \/ Prepare(c) \/ GiveUp(c)
               \/ Find(c) \/ Refind(c) \/ Raise(c) \/ Record(c)
        PROVE  UNCHANGED <<relayed, submitted>>
    BY <1>3 DEF Start, Enter, View, Prepare, GiveUp, Find, Refind, Raise, Record, ledger
  <1>4. CASE \/ UNCHANGED vars \/ Second \/ Crash
             \/ \E tx \in Transactions : Confirm(tx)
    BY <1>1, <1>4 DEF vars, ledger, Second, Crash, Confirm
  <1> QED BY <1>1, <1>2, <1>3, <1>4 DEF Next, Step, Submit, SubmitRaises

\* A row becomes rejected only at Record.
LEMMA RecordRejects ==
    ASSUME Inv, [Next]_vars, NEW key \in Keys,
           records'[key].state = "rejected", records[key].state # "rejected"
    PROVE  \E c \in Callers : Record(c) /\ task[c].key = key /\ ~task[c].accepted
  <1>1. ASSUME UNCHANGED records PROVE FALSE
    BY <1>1
  <1>2. ASSUME NEW c \in Callers, Enter(c) PROVE FALSE
    BY <1>2 DEF Enter, Row, Inv, TypeOK
  <1>3. ASSUME NEW c \in Callers, Prepare(c) PROVE FALSE
    BY <1>3 DEF Prepare, StorePrepared, Row, Inv, TypeOK
  <1>4. ASSUME NEW c \in Callers, GiveUp(c) PROVE FALSE
    BY <1>4 DEF GiveUp, DeleteReserved, NoRow, Inv, TypeOK
  <1>5. ASSUME NEW c \in Callers, Record(c) PROVE task[c].key = key /\ ~task[c].accepted
    BY <1>5 DEF Record, Row, Inv, TypeOK
  <1>6. ASSUME NEW c \in Callers,
               \/ Start(c) \/ View(c) \/ Find(c) \/ Submit(c)
               \/ SubmitRaises(c) \/ Refind(c) \/ Raise(c)
        PROVE  UNCHANGED records
    BY <1>6 DEF Start, View, Find, Submit, SubmitRaises, Refind, Raise
  <1>7. ASSUME UNCHANGED vars \/ Second \/ Crash \/ \E tx \in Transactions : Confirm(tx)
        PROVE  UNCHANGED records
    BY <1>7 DEF vars, Second, Crash, Confirm, app
  <1> QED BY <1>1, <1>2, <1>3, <1>4, <1>5, <1>6, <1>7 DEF Next, Step

\* A call starts to record "rejected" only when the node has just said that it
\* does not know the transaction; while it records, nobody else submits.
LEMMA RefusalStep ==
    ASSUME Inv, CoinInv, RejectInv, [Next]_vars, NEW c \in Callers,
           task'[c].pc = "record", ~task'[c].accepted, NEW tx \in task'[c].tx \cap relayed'
    PROVE  SentByAnother(task[c].key, tx)'
  <1>1. CASE task'[c] = task[c]
    <2>1. \A d \in Callers : task[d].pc # "submit"
      BY <1>1, OnlyOneInside DEF Inv, Inside, PCs
    <2>2. tx \in relayed
      BY <2>1, RelayStep
    <2>3. SentByAnother(task[c].key, tx)
      BY <1>1, <2>2 DEF RejectInv
    <2> QED BY <1>1, <2>3, RelayStep DEF SentByAnother
  <1>2. CASE Find(c) \/ Refind(c)
    <2>1. task[c] \in Calls
      BY <1>2, InsideFacts DEF Find, Refind, Inside, PCs
    <2>2. task'[c].tx = task[c].tx /\ \A t \in task[c].tx : ~Known(t)
      BY <1>2, <2>1 DEF Find, Refind, Inv, TypeOK, Calls
    <2>3. relayed' = relayed
      BY <1>2 DEF Find, Refind, ledger
    <2> QED BY <2>2, <2>3 DEF CoinInv, Known
  <1>3. CASE Submit(c)
    <2>1. task[c] \in Calls
      BY <1>3, InsideFacts DEF Submit, Inside, PCs
    <2>2. PICK admitted \in BOOLEAN :
              task' = [task EXCEPT ![c].pc = IF admitted THEN "record" ELSE "refind",
                                   ![c].accepted = admitted]
      BY <1>3 DEF Submit
    <2> QED BY <2>1, <2>2 DEF Inv, TypeOK, Calls
  <1>4. ASSUME \/ Start(c) \/ Enter(c) \/ View(c) \/ Prepare(c) \/ GiveUp(c)
               \/ SubmitRaises(c) \/ Raise(c) \/ Record(c)
        PROVE  FALSE
    BY <1>4, NeverRecords
  <1>5. ASSUME NEW d \in Callers \ {c}, Start(d) \/ Step(d) PROVE task'[c] = task[c]
    BY <1>5 DEF Start, Step, Enter, View, Prepare, GiveUp, Find, Submit, SubmitRaises,
                Refind, Raise, Record, Goto, Return, Inv, TypeOK
  <1>6. CASE UNCHANGED vars \/ Second \/ \E t \in Transactions : Confirm(t)
    BY <1>1, <1>6 DEF vars, app, Second, Confirm
  <1>7. ASSUME Crash PROVE FALSE
    BY <1>7 DEF Crash, NoCall
  <1> QED BY <1>1, <1>2, <1>3, <1>4, <1>5, <1>6, <1>7 DEF Next, Step

\* RejectInv is inductive, given Inv and CoinInv.
LEMMA RejectStep == Inv /\ CoinInv /\ RejectInv /\ [Next]_vars => RejectInv'
  <1> SUFFICES ASSUME Inv, CoinInv, RejectInv, [Next]_vars PROVE RejectInv'
    OBVIOUS
  <1>1. ASSUME NEW key \in Keys, records'[key].state = "rejected",
               NEW tx \in records'[key].tx \cap relayed'
        PROVE  SentByAnother(key, tx)'
    <2>1. CASE records[key].state = "rejected"
      <3>1. records'[key].tx = records[key].tx
        BY <2>1, ReceiptStep
      <3>2. CASE tx \in relayed
        <4>1. SentByAnother(key, tx)
          BY <1>1, <2>1, <3>1, <3>2 DEF RejectInv
        <4> QED BY <4>1, RelayStep DEF SentByAnother
      <3>3. CASE tx \notin relayed
        <4>1. PICK c \in Callers :
                  task[c].pc = "submit" /\ <<task[c].key, tx>> \in submitted'
          BY <1>1, <3>3, RelayStep
        <4>2. records[task[c].key].state = "prepared"
          BY <4>1 DEF Inv, CallsMatchRows
        <4>3. task[c].key \in Keys
          BY <4>1, InsideFacts DEF Inside, PCs
        <4>4. task[c].key # key
          BY <2>1, <4>2
        <4> QED BY <4>1, <4>3, <4>4 DEF SentByAnother
      <3> QED BY <3>2, <3>3
    <2>2. CASE records[key].state # "rejected"
      <3>1. PICK c \in Callers : Record(c) /\ task[c].key = key /\ ~task[c].accepted
        BY <1>1, <2>2, RecordRejects
      <3>2. records[key].state = "prepared" /\ records[key].tx = task[c].tx
        BY <3>1 DEF Record, Inv, CallsMatchRows
      <3>3. records'[key].tx = task[c].tx
        BY <3>2, ReceiptStep
      <3>4. UNCHANGED <<relayed, submitted>>
        BY <3>1 DEF Record, ledger
      <3>5. SentByAnother(key, tx)
        BY <1>1, <3>1, <3>3, <3>4 DEF RejectInv, Record
      <3> QED BY <3>4, <3>5 DEF SentByAnother
    <2> QED BY <2>1, <2>2
  <1>2. ASSUME NEW c \in Callers, task'[c].pc = "record", ~task'[c].accepted,
               NEW tx \in task'[c].tx \cap relayed'
        PROVE  SentByAnother(task[c].key, tx)'
    BY <1>2, RefusalStep
  <1> QED BY <1>1, <1>2 DEF RejectInv

\* An intent the user was told is rejected (_send's TRANSACTION_CONFLICT) is
\* never confirmed afterwards, unless another intent asked for the very same
\* transaction.
THEOREM RejectedTheorem == Spec => []RejectedNotPaid
  <1>1. Init => CoinInv /\ RejectInv
    BY DEF Init, CoinInv, RejectInv, NoRow, NoCall
  <1>2. CoinInv /\ RejectInv => RejectedNotPaid
    BY DEF CoinInv, RejectInv, RejectedNotPaid, SentByAnother
  <1>3. Inv /\ CoinInv /\ [Next]_vars => CoinInv'
    BY CoinStep
  <1> QED BY <1>1, <1>2, <1>3, RejectStep, InvariantTheorem, PTL DEF Spec

=========================================================================
