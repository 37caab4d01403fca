-------------------------- MODULE WebSocketState --------------------------
(***************************************************************************)
(* The state of a WebSocketManager (api/websocket/manager.py) and what must*)
(* always be true of it.  WebSocketManager has the steps.                  *)
(*                                                                         *)
(*   ws      : the connections.  Of one: pc, ip, done (done_event), queue, *)
(*             writer ("none", "get", "send", "ended"), out (the message   *)
(*             being sent), shut (its cleanup has met a cancellation) and, *)
(*             as history until done is set, got (the critical messages    *)
(*             broadcast before it joined, and then the ones it was sent)  *)
(*             and missed (the ones whose broadcast raised at this client  *)
(*             or before it came to it)                                    *)
(*   clients, handlers : _clients in the order of joining, and _handlers   *)
(*   total, counts : _total_reserved and _ip_counts                        *)
(*   running, stopper : _running, and stop(): "no", "loop", "await", "done"*)
(*   sent    : number of critical messages broadcast, which are 1 .. sent  *)
(*                                                                         *)
(* pc is where the handler is suspended: "idle" no connection, "accept",   *)
(* "status" (get_status), "loop" (_receive), and in its cleanup "join" (the*)
(* writer) and "close" (the transport); "lost": the cleanup was cancelled  *)
(* before the block that releases the slot, and the handler has ended.     *)
(***************************************************************************)
EXTENDS Integers, Sequences, FiniteSets, SequencesExt

CONSTANTS
    Sockets,            \* concurrent connections
    IPs,
    ws_max_clients, ws_max_clients_per_ip, ws_client_queue_size,
    Status,             \* a node_status or mining_progress message
    Pong,               \* the text "pong"
    MaxCritical         \* bound on critical messages

ASSUME WebSocketAssumption ==
    /\ ws_max_clients \in Nat /\ ws_max_clients_per_ip \in Nat
    /\ ws_client_queue_size \in Nat \ {0}
    /\ MaxCritical \in Nat
    /\ Status # Pong /\ {Status, Pong} \cap Nat = {}

VARIABLES ws, clients, handlers, total, counts, running, stopper, sent

-----------------------------------------------------------------------------
(* Invariants.                                                               *)

\* A slot is taken from before the handshake until the cleanup, however the
\* connection ends, and given back once: the counters are the handlers there
\* are, the limits hold, and when stop() has returned nobody is left: no
\* handler, writer, client or slot.  Only a handler that is cancelled twice in
\* the few turns in which its writer ends leaves its slot taken (_cleanup).
SlotsMatch ==
    /\ handlers = {s \in Sockets : ws[s].pc # "idle"}
    /\ total = Cardinality(handlers)
    /\ \A ip \in IPs : counts[ip] = Cardinality({s \in handlers : ws[s].ip = ip})
    /\ total <= ws_max_clients
    /\ \A ip \in IPs : counts[ip] <= ws_max_clients_per_ip
    /\ stopper = "done" => \A s \in Sockets :
          \/ ws[s].pc = "lost" /\ ws[s].shut /\ ws[s].writer = "ended"
          \/ s \notin ToSet(clients) \cup handlers /\ ws[s].writer = "none"

\* The messages a client has missed or was sent, is being sent and has to wait
\* for, in order.
Stream(w) == w.got \o w.out \o w.queue

\* A client that is not being disconnected gets every critical message since it
\* joined, once and in order, whatever fills its queue and however slow the
\* others are; only those are missing whose broadcast raised too early.
Delivery ==
    \A s \in Sockets :
        ws[s].pc = "loop" /\ ~ws[s].done =>
            LET stream == Stream(ws[s]) IN
            /\ ToSet(stream) \cap Nat = (1 .. sent) \ ws[s].missed
            /\ \A i, j \in DOMAIN stream :
                  i < j /\ {stream[i], stream[j]} \subseteq Nat => stream[i] < stream[j]

=============================================================================
