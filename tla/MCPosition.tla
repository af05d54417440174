----------------------------- MODULE MCPosition -----------------------------
(* One coin whose price moves and another one that competes for the money. *)
EXTENDS Position, TLC

CONSTANTS btc, eth

Coins == {btc, eth}
Prices == btc :> {2, 3, 4} @@ eth :> {3}
=============================================================================
