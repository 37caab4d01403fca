---------------------------- MODULE PeerState ----------------------------
(***************************************************************************)
(* What nodes know of their connections (network/node.py) and of the       *)
(* candidates in PeerManager (network/peer_manager.py), and what must      *)
(* always be true of it.  PeerSessions has the steps.                      *)
(*                                                                         *)
(*   end  : end[c][n] is node n's session on connection c, with the        *)
(*          messages that are on their way to it                           *)
(*   dial : dial[n][e] is node n's task that dials e                       *)
(*   book : book[n][e] is node n's candidate e                             *)
(*   faults, accused : history: failures so far, and whether a session was *)
(*          closed for a ProtocolError                                     *)
(*                                                                         *)
(* A node is its node_id, a number, and stands for its listen endpoint.    *)
(* Connections are numbered in the order of their pair of nonces, which is *)
(* arbitrary, and a number is used again when its connection is forgotten. *)
(***************************************************************************)
EXTENDS Naturals, Sequences

CONSTANTS
    Nodes,
    Callers,                        \* nodes on which connect() is called
    Conns,                          \* bound on connections at a time
    max_peers, max_concurrent_dials,
    MaxFaults                       \* bound on faults

ASSUME SessionsAssumption ==
    /\ Nodes \subseteq Nat \ {0} /\ Callers \subseteq Nodes /\ Conns \subseteq Nat
    /\ max_peers \in Nat /\ max_concurrent_dials \in Nat /\ MaxFaults \in Nat

VARIABLES end, dial, book, faults, accused

Open(c, n) == end[c][n].st = "open"

Established(c, n) == Open(c, n) /\ end[c][n].est

Sessions(n) == {c \in Conns : end[c][n].st \in {"open", "closed", "gone"}}

\* session.endpoint is e: known from the dial, or from VERSION.
Leads(c, n, e) ==
    end[c][n].peer = e /\ (end[c][n].out \/ end[c][n].version)

-----------------------------------------------------------------------------
(* Invariants.                                                               *)

\* Node n is at rest towards e: nothing to receive, to close or to dial.
Quiet(n, e) ==
    /\ \A c \in Conns : end[c][n].peer = e =>
          Open(c, n) /\ end[c][n].inbox = <<>> /\ Open(c, e)
    /\ dial[n][e].pc = "none"

\* However many connections two nodes open to each other, no node ever has two
\* established ones to the same peer, and none takes what another one sends, in
\* whatever order the connections progress, for a violation of the handshake.
\* When two nodes come to rest no handshake between them is left half done.
HandshakesAgree ==
    /\ \A n \in Nodes, c, d \in Conns :
          Established(c, n) /\ Established(d, n) /\ end[c][n].peer = end[d][n].peer => c = d
    /\ ~accused
    /\ \A n, e \in Nodes, c \in Conns :
          n # e /\ Quiet(n, e) /\ Quiet(e, n) /\ Open(c, n) /\ end[c][n].peer = e =>
              end[c][n].est

\* What the candidate says of itself is true enough for it to be dialled again:
\* one that is not connected is not taken for connected, or for being dialled,
\* for ever; and without faults a connected one is known to be.
BooksAgree ==
    \A n, e \in Nodes :
        /\ book[n][e].connected =>
              \E c \in Sessions(n) : end[c][n].est /\ end[c][n].peer = e
        /\ book[n][e].dialing => dial[n][e].pc # "none"
        /\ faults = 0 /\ (\E c \in Conns : Established(c, n) /\ end[c][n].peer = e)
              => book[n][e].connected

=============================================================================
