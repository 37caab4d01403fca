-------------------------- MODULE MCPeerSessions --------------------------
EXTENDS PeerSessions

MCNodes == {1, 2}
MCTwoConns == {1, 2}

=============================================================================
