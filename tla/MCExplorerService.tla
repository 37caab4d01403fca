----------------------- MODULE MCExplorerService -----------------------
EXTENDS ExplorerService, TLC

CONSTANTS r1, r2, x1

MCRequests == {r1, r2}
==========================================================================
