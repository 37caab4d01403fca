------------------------ MODULE MCWebSocketManager ------------------------
EXTENDS WebSocketManager

CONSTANTS s1, s2, s3, a

MCSockets == {s1, s2}
MCThreeSockets == {s1, s2, s3}

=============================================================================
