------------------------ MODULE MCNodeDispatcher ------------------------
EXTENDS NodeDispatcher

CONSTANTS c1, p1

=============================================================================
