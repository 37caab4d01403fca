------------------------- MODULE WebSocketManager -------------------------
(***************************************************************************)
(* WebSocketManager (api/websocket/manager.py): admission of clients, one  *)
(* handler and one writer task per client, broadcasts by the mining service*)
(* and the status loop, and stop(), on one event loop.  No code awaits     *)
(* while it holds _lock, so the lock is never waited for and each section  *)
(* under it is part of one step.  The state is that of WebSocketState.     *)
(***************************************************************************)
EXTENDS WebSocketState

slots == <<clients, handlers, total, counts>>
service == <<running, stopper>>
vars == <<ws, slots, service, sent>>

NoClient ==
    [pc |-> "idle", ip |-> CHOOSE ip \in IPs : TRUE, done |-> FALSE,
     queue |-> <<>>, writer |-> "none", out |-> <<>>, shut |-> FALSE, got |-> <<>>,
     missed |-> {}]

Full(q) == Len(q) = ws_client_queue_size

-----------------------------------------------------------------------------
(* handle_connection.                                                        *)

Admits(ip) ==
    running /\ total < ws_max_clients /\ counts[ip] < ws_max_clients_per_ip

\* The connections are alike: a new one has a name that is free.
FreeName == CHOOSE s \in Sockets : ws[s].pc = "idle"

\* An admitted connection reserves its slot; a refused one is only closed.
Connect(s, ip) ==
    /\ ws[s].pc = "idle"
    /\ s = FreeName
    /\ Admits(ip)
    /\ ws' = [ws EXCEPT ![s].pc = "accept", ![s].ip = ip]
    /\ handlers' = handlers \cup {s}
    /\ total' = total + 1
    /\ counts' = [counts EXCEPT ![ip] = @ + 1]
    /\ UNCHANGED <<clients, service, sent>>

Accept(s) ==
    /\ ws[s].pc = "accept"
    /\ ws' = [ws EXCEPT ![s].pc = "status"]
    /\ UNCHANGED <<slots, service, sent>>

\* get_status has answered: the client joins, with a queue that holds it.
Join(s) ==
    /\ ws[s].pc = "status"
    /\ ws' = [ws EXCEPT ![s].pc = "loop", ![s].queue = <<Status>>,
                        ![s].writer = "get", ![s].got = [n \in 1 .. sent |-> n]]
    /\ clients' = Append(clients, s)
    /\ UNCHANGED <<handlers, total, counts, service, sent>>

\* _cleanup begins: the writer is told to stop and cancelled; what is still in
\* the queue is never sent.
LeaveStep(s) ==
    [ws EXCEPT ![s].pc = "join", ![s].done = TRUE, ![s].queue = <<>>, ![s].got = <<>>,
               ![s].missed = {}]

\* accept or get_status fails; or in the loop: disconnect, idle timeout, binary
\* or too large message, an error, the done event or the end of _running.
Leave(s) ==
    /\ ws[s].pc \in {"accept", "status", "loop"}
    /\ ws' = LeaveStep(s)
    /\ UNCHANGED <<slots, service, sent>>

\* "ping"; a queue without room for the answer ends the connection.
Ping(s) ==
    /\ ws[s].pc = "loop"
    /\ IF Full(ws[s].queue)
       THEN ws' = LeaveStep(s)
       ELSE ws' = [ws EXCEPT ![s].queue = Append(@, Pong)]
    /\ UNCHANGED <<slots, service, sent>>

-----------------------------------------------------------------------------
(* _client_writer.                                                           *)

WriterTake(s) ==
    /\ ws[s].writer = "get"
    /\ ws[s].pc = "loop"
    /\ ws[s].queue # <<>>
    /\ ws' = [ws EXCEPT ![s].writer = "send", ![s].out = <<Head(ws[s].queue)>>,
                        ![s].queue = Tail(@)]
    /\ UNCHANGED <<slots, service, sent>>

\* The transport takes the message; a done event ends the loop.
WriterSent(s) ==
    /\ ws[s].writer = "send"
    /\ ws[s].pc = "loop"
    /\ ws' = [ws EXCEPT ![s].writer = IF ws[s].done THEN "ended" ELSE "get",
                        ![s].out = <<>>,
                        ![s].got = IF Head(ws[s].out) \in Nat /\ ~ws[s].done
                                   THEN @ \o ws[s].out ELSE @]
    /\ UNCHANGED <<slots, service, sent>>

\* It fails, or does not within 2 s.
WriterFails(s) ==
    /\ ws[s].writer = "send"
    /\ ws[s].pc = "loop"
    /\ ws' = [ws EXCEPT ![s].writer = "ended", ![s].out = <<>>, ![s].done = TRUE,
                        ![s].got = <<>>, ![s].missed = {}]
    /\ UNCHANGED <<slots, service, sent>>

\* The wait for a message ends after 1 s; a done event ends the loop.
WriterStops(s) ==
    /\ ws[s].writer = "get"
    /\ ws[s].pc = "loop"
    /\ ws[s].done
    /\ ws' = [ws EXCEPT ![s].writer = "ended"]
    /\ UNCHANGED <<slots, service, sent>>

-----------------------------------------------------------------------------
(* _cleanup.                                                                 *)

\* The writer has been cancelled wherever it was, and has ended.
Joined(s) ==
    /\ ws[s].pc = "join"
    /\ ws' = [ws EXCEPT ![s].pc = "close", ![s].out = <<>>,
                        ![s].writer = IF @ = "none" THEN @ ELSE "ended"]
    /\ UNCHANGED <<slots, service, sent>>

\* Mutant: the slot is kept when the client never joined.
ReleaseOfClients(s) ==
    /\ ws' = [ws EXCEPT ![s] = NoClient]
    /\ clients' = RemoveFirst(clients, s)
    /\ handlers' = handlers \ {s}
    /\ IF s \in ToSet(clients)
       THEN total' = total - 1 /\ counts' = [counts EXCEPT ![ws[s].ip] = @ - 1]
       ELSE UNCHANGED <<total, counts>>

\* The finally block.
Release(s) ==
    /\ ws' = [ws EXCEPT ![s] = NoClient]
    /\ clients' = RemoveFirst(clients, s)
    /\ handlers' = handlers \ {s}
    /\ total' = total - 1
    /\ counts' = [counts EXCEPT ![ws[s].ip] = @ - 1]

\* The transport is closed, or 2 s have passed.
CloseEnds(s) ==
    /\ ws[s].pc = "close"
    /\ Release(s)
    /\ UNCHANGED <<service, sent>>

\* The handler is cancelled once more while it awaits the cleanup itself, and
\* the cleanup the end of the writer: that is outside its try block.
Losing(s) == ws[s].pc = "join" /\ ws[s].shut /\ ws[s].writer # "none"

LostStep(s) ==
    [ws EXCEPT ![s].pc = "lost", ![s].writer = "ended", ![s].out = <<>>]

\* The server cancels the handler.
Cancel(s) ==
    /\ \/ ws[s].pc \in {"accept", "status", "loop"} /\ ws' = LeaveStep(s) /\ UNCHANGED slots
       \/ /\ ws[s].pc \in {"join", "close"} /\ ~ws[s].shut
          /\ ws' = [ws EXCEPT ![s].shut = TRUE]
          /\ UNCHANGED slots
       \/ ws[s].pc = "close" /\ ws[s].shut /\ Release(s)
       \/ Losing(s) /\ ws' = LostStep(s) /\ UNCHANGED slots
    /\ UNCHANGED <<service, sent>>

-----------------------------------------------------------------------------
(* broadcast: a loop over the clients, without an await.                     *)

\* A full queue and a critical message: its oldest entry is taken off, and a
\* text has no attribute get.
Raises(w, m) == ~w.done /\ Full(w.queue) /\ m # Status /\ Head(w.queue) = Pong

\* History: a client that is served never gets message m.
Missing(w, m) ==
    IF w.pc = "loop" /\ ~w.done THEN [w EXCEPT !.missed = @ \cup {m}] ELSE w

\* Mutant: the old message is put back and the client stays.
MakeRoomStaying(w, m) ==
    LET old == Head(w.queue) IN
    CASE old = Pong -> Missing([w EXCEPT !.queue = Tail(@)], m)
      [] old = Status -> [w EXCEPT !.queue = Append(Tail(@), m)]
      [] OTHER -> [w EXCEPT !.queue = Append(Tail(@), old)]

\* An old status frame makes room; a critical one goes to the end of the queue
\* and the client is disconnected.
MakeRoom(w, m) ==
    LET old == Head(w.queue) IN
    CASE old = Pong -> Missing([w EXCEPT !.queue = Tail(@)], m)
      [] old = Status -> [w EXCEPT !.queue = Append(Tail(@), m)]
      [] OTHER -> [w EXCEPT !.queue = Append(Tail(@), old), !.done = TRUE, !.got = <<>>,
                            !.missed = {}]

\* What one client's session becomes.
Offer(w, m) ==
    CASE w.done -> w
      [] ~w.done /\ ~Full(w.queue) -> [w EXCEPT !.queue = Append(@, m)]
      [] ~w.done /\ Full(w.queue) /\ m = Status -> w
      [] OTHER -> MakeRoom(w, m)

Failing(m) == {i \in DOMAIN clients : Raises(ws[clients[i]], m)}

\* The loop ends with the first client that raises.
Reached(m) ==
    {clients[i] : i \in {k \in DOMAIN clients : \A f \in Failing(m) : k <= f}}

Delivered(m) ==
    [s \in Sockets |-> IF s \in Reached(m) THEN Offer(ws[s], m)
                       ELSE IF Failing(m) # {} THEN Missing(ws[s], m) ELSE ws[s]]

\* The mining service: mining_started, block_found, ...
BroadcastCritical ==
    /\ sent < MaxCritical
    /\ ws' = Delivered(sent + 1)
    /\ sent' = sent + 1
    /\ UNCHANGED <<slots, service>>

\* _status_broadcast_loop, or the mining service's progress.
BroadcastStatus ==
    /\ clients # <<>>
    /\ ws' = Delivered(Status)
    /\ UNCHANGED <<slots, service, sent>>

-----------------------------------------------------------------------------
(* stop.                                                                     *)

Stop ==
    /\ stopper = "no"
    /\ running' = FALSE
    /\ stopper' = "loop"
    /\ UNCHANGED <<ws, slots, sent>>

\* Mutant: handshakes and first status reads are not cancelled.
CancelClients ==
    [s \in Sockets |-> IF ws[s].pc = "loop" THEN LeaveStep(s)[s] ELSE ws[s]]

\* Cancelled once each: in its cleanup, the handler awaits the rest of it, or
\* is lost when that has happened before.  One that has ended stays as it is.
CancelAll ==
    [s \in Sockets |->
        IF s \notin handlers \/ ws[s].pc = "lost" THEN ws[s]
        ELSE IF Losing(s) THEN LostStep(s)[s]
        ELSE IF ws[s].pc \in {"join", "close"} THEN [ws[s] EXCEPT !.shut = TRUE]
        ELSE LeaveStep(s)[s]]

\* The broadcast task has ended; the handlers are cancelled.
StopHandlers ==
    /\ stopper = "loop"
    /\ ws' = CancelAll
    /\ stopper' = "await"
    /\ UNCHANGED <<slots, running, sent>>

\* gather returns: the tasks of all handlers have ended.
StopEnds ==
    /\ stopper = "await"
    /\ \A s \in handlers : ws[s].pc = "lost"
    /\ stopper' = "done"
    /\ UNCHANGED <<ws, slots, running, sent>>

Init ==
    /\ ws = [s \in Sockets |-> NoClient]
    /\ clients = <<>> /\ handlers = {}
    /\ total = 0 /\ counts = [ip \in IPs |-> 0]
    /\ running = TRUE /\ stopper = "no"
    /\ sent = 0

\* What the handler and the writer do by themselves.
Moves(s) ==
    \/ Accept(s)
    \/ Join(s)
    \/ WriterTake(s)
    \/ WriterSent(s)
    \/ WriterFails(s)
    \/ WriterStops(s)
    \/ Joined(s)
    \/ CloseEnds(s)

Next ==
    \/ \E s \in Sockets :
          \/ \E ip \in IPs : Connect(s, ip)
          \/ Moves(s)
          \/ Leave(s)
          \/ Ping(s)
          \/ Cancel(s)
    \/ BroadcastCritical
    \/ BroadcastStatus
    \/ Stop \/ StopHandlers \/ StopEnds

\* Every wait of a handler or a writer has a time limit or is a call of the
\* node; the loop looks at its done event at least every second.
Fairness ==
    /\ \A s \in Sockets :
          /\ WF_vars(Joined(s))
          /\ WF_vars(CloseEnds(s))
          /\ WF_vars(ws[s].done /\ Leave(s))
    /\ WF_vars(StopHandlers)
    /\ WF_vars(StopEnds)

Spec == Init /\ [][Next]_vars /\ Fairness

-----------------------------------------------------------------------------
(* Properties.                                                               *)

\* No client keeps a critical message from the others: it is put into the queue
\* of every client that has room for it and is not being disconnected.
ClientsAreIsolated ==
    [][sent' # sent =>
          \A s \in ToSet(clients) :
              ~ws[s].done /\ ~Full(ws[s].queue) => sent' \in ToSet(ws'[s].queue)]_vars

\* stop() ends, and so does every connection that is to be ended: its slot is
\* free again, unless it was lost.
EndsInTime ==
    /\ []<>(stopper \in {"no", "done"})
    /\ \A s \in Sockets : []<>(ws[s].done => ws[s].pc = "lost")

=============================================================================
