------------------------- MODULE MCWalletSend -------------------------
EXTENDS WalletSend

========================================================================
