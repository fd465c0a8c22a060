------------------------------ MODULE MCTrading ------------------------------
(***************************************************************************)
(* Instances of Trading: alice sells, bob buys, and the relay submits      *)
(* their orders as trades.  Prices are in halves of a quote token per base *)
(* token, so that fills round.                                             *)
(*                                                                         *)
(* The funded instances start when the relay is registered and alice and   *)
(* bob have deposited all there is, which leaves the state space to        *)
(* orders, trades and rounds: every action of the specification stays, but *)
(* no signer has tokens left outside.  The open one (MCSettlement) starts  *)
(* from nothing, and the relay pays tokens in for whom it likes.           *)
(***************************************************************************)
EXTENDS Trading

CONSTANTS base, quote, dex, gov, alice, bob, relay

Holding(owner, b, q) ==
  [asset \in {base, quote} |-> [acc \in Accounts |->
     IF acc # owner[asset] THEN 0 ELSE IF asset = base THEN b ELSE q]]
Everywhere(acc) == [asset \in {base, quote} |-> acc]
RelayHasOneEach == Holding(Everywhere(relay), 1, 1)
ThreeAndFour == Holding(Everywhere(relay), 3, 4)
ThreeAndFive == Holding(Everywhere(relay), 3, 5)

Funding(b, q) ==
  /\ balance = Holding([asset \in {base, quote} |-> IF asset = base THEN alice ELSE bob], b, q)
  /\ wallet = Holding(Everywhere(dex), b, q)
  /\ relays = {relay}
  /\ timestamp = 0
  /\ globalParams \in ParamValues
  /\ RoundsInit
  /\ OrdersInit

Unit == [asset \in {base, quote} |-> 1]

Params(maker, taker, discount) ==
  [MakerSysFeeRate |-> maker, TakerSysFeeRate |-> taker,
   PrimeFeeDiscountPercent |-> discount, WithdrawApplyWaitTime |-> 0]
HalfAndHalf == {Params(1, 1, 1)}
AllAndAll == {Params(2, 2, 1)}

Order(user, side, price, amount, channelRate, expire, salt) ==
  [User |-> user, Channel |-> relay, Side |-> side, Base |-> base, Quote |-> quote,
   Price |-> price, Amount |-> amount, MakerFeeRate |-> channelRate,
   TakerFeeRate |-> channelRate, Expire |-> expire, Salt |-> salt, ChainId |-> 1]
By(signer, order) == [signer |-> signer, data |-> order]

\* alice also bids for her own tokens: one order ends early and pays its
\* channel, one is below her asking price.  ForgedBuy is in bob's name but
\* signed by alice.
Sell == Order(alice, "sell", 2, 3, 0, 0, 2)
Buy == Order(bob, "buy", 3, 2, 0, 0, 2)
ShortBuy == Order(alice, "buy", 2, 1, 1, 1, 1)
LowBuy == Order(alice, "buy", 1, 2, 0, 0, 2)
ForgedBuy == Order(bob, "buy", 3, 1, 0, 0, 2)
MarketOrders == {Sell, Buy, ShortBuy, LowBuy, ForgedBuy}
MarketSigs == {By(alice, order) : order \in {Sell, ShortBuy, LowBuy, ForgedBuy}}
                 \cup {By(bob, Buy)}

\* A seller at the highest signed rate, and the system fees of a whole trade.
DearSell == Order(alice, "sell", 2, 3, 2, 0, 2)
DearOrders == {DearSell, Buy}
DearSigs == {By(order.User, order) : order \in DearOrders}

\* Deeper orders for the account of fees.
FeeOrders == {Order(alice, "sell", 2, 3, 0, 0, 1), Order(bob, "buy", 2, 3, 0, 0, 1),
              Order(bob, "buy", 3, 2, 1, 0, 2)}
FeeSigs == {By(order.User, order) : order \in FeeOrders}
=============================================================================
