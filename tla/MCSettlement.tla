----------------------------- MODULE MCSettlement -----------------------------
(* The open instance of MCTrading with trades settled write by write. *)
EXTENDS MCTrading, Settlement

\* The maker's system fee and the taker's channel fee take a whole receipt
\* each.
MakerPaysAll == {Params(2, 0, 0)}
TakerPaysChannel(order) == [order EXCEPT !.TakerFeeRate = 2]
PartOrders == {TakerPaysChannel(Order(alice, "sell", 2, 2, 0, 0, 2)),
               TakerPaysChannel(Order(bob, "buy", 2, 1, 0, 0, 1))}
PartSigs == {By(order.User, order) : order \in PartOrders}

\* Bound: nobody but relay is ever registered, and relays cancel the orders
\* of bob alone.
Bounds ==
  /\ relays' \subseteq {relay}
  /\ \A acc \in Accounts \ {bob} : cancelNumber'[acc] = 0

OpenInit == TradingInit /\ SettlementInit
OpenSpec == OpenInit /\ [][SettlementNext /\ Bounds]_settlementVars
=============================================================================
