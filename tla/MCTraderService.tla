--------------------------- MODULE MCTraderService ---------------------------
(* Three markets, of which two are always to be on the list, one of these  *)
(* excluded all the same; the first two may be held.                       *)
EXTENDS TraderService

CONSTANTS btc, eth, xrp

Markets == {btc, eth, xrp}
Named == {btc, eth}
Shunned == {eth}
Coins == {btc, eth}
=============================================================================
