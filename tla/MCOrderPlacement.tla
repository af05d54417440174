-------------------------- MODULE MCOrderPlacement --------------------------
(* Two buys of one symbol for near amounts, or a buy and a sell of it.     *)
EXTENDS OrderPlacement, TLC

CONSTANTS r1, r2

TwoRequests == {r1, r2}

Ask(symbol, side, amount) == [symbol |-> symbol, side |-> side, amount |-> amount]
TwoBuys == r1 :> Ask("A", "buy", 20) @@ r2 :> Ask("A", "buy", 20)
BuyThenSell == r1 :> Ask("A", "buy", 20) @@ r2 :> Ask("A", "sell", 20)
AllShown == {"amount", "time"}
NearAmounts == {<<20, 20>>}
=============================================================================
