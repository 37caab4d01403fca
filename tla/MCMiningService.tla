------------------------- MODULE MCMiningService -------------------------
EXTENDS MiningService

\* One client that starts jobs and one that cancels them.
CONSTANTS c1, c2

==========================================================================
