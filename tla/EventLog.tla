------------------------------- MODULE EventLog -------------------------------
(***************************************************************************)
(* What the contract tells the outside (evtlog.go) and a follower that     *)
(* keeps its own copy of the accounts and orders from it, as README.md     *)
(* asks of a relay: the handlers append an event to every successful call, *)
(* the follower reads them in order, some time later.                      *)
(*                                                                         *)
(* Events name orders by their ids, which are one-way hashes.  Who an      *)
(* order's owner and channel are, its side and its tokens, the follower    *)
(* knows only of orders it holds: from the owner, from another relay, or   *)
(* from the call that traded them, which carries both.  It reads a trade   *)
(* when it holds the two orders and waits for them until then.             *)
(*                                                                         *)
(* Amounts of a trade are logged as decimals, which is modelled by a count *)
(* of units and the scale they were written with.                          *)
(***************************************************************************)
EXTENDS Dex, SequencesExt

CONSTANTS
  OrderId,    \* OrderId[order]: the hash of an order's text
  MaxLag      \* bound: events the follower may be behind

ASSUME IdsAssumption ==
  \A one, other \in Orders : OrderId[one] = OrderId[other] => one = other

Ids == {OrderId[order] : order \in Orders}

VARIABLES
  pending,    \* events not read yet, oldest first
  view,       \* the follower's copy of the accounts and, by id, the orders' states
  held        \* the orders the follower holds

eventVars == <<pending, view, held>>
eventSpecVars == <<dexVars, eventVars>>
-----------------------------------------------------------------------------
(* Events.                                                                 *)

\* Slip: a transfer is logged with its amount in place of the new balance.
TransferEvtLogSlip(name, asset, from, to, amount, newBalance) ==
  [name |-> name, asset |-> asset, from |-> from, to |-> to,
   amount |-> amount, balance |-> amount]
TransferEvtLog(name, asset, from, to, amount, newBalance) ==
  [name |-> name, asset |-> asset, from |-> from, to |-> to,
   amount |-> amount, balance |-> newBalance]

DWithdrawEvtLog(req, relay, newBalance) ==
  [name |-> "delegateWithdraw", asset |-> req.asset, relay |-> relay, from |-> req.from,
   to |-> req.to, amount |-> req.amount - req.fee, fee |-> req.fee, balance |-> newBalance]

Uint64ToDecimal(units, asset) == [units |-> units, scale |-> Precision[asset]]

\* With eight decimals, whatever the tokens.
LoggedPrice(price) == [units |-> price, scale |-> Division]

\* Slip: both sides' fees are written in the base token.
TradeEvtLogSlip(maker, taker, amount) ==
  LET clear == countFee(maker, taker, amount) IN
    [name |-> "trade", maker |-> OrderId[maker], taker |-> OrderId[taker],
     price |-> LoggedPrice(maker.Price),
     amount |-> Uint64ToDecimal(amount, taker.Base),
     quoteAmount |-> Uint64ToDecimal(Amounts(maker, amount).quote.amount, taker.Quote),
     makerFee |-> Uint64ToDecimal(clear.MakerFee, taker.Base),
     takerFee |-> Uint64ToDecimal(clear.TakerFee, taker.Base),
     makerChannelFee |-> Uint64ToDecimal(clear.MakerChannelFee, taker.Base),
     takerChannelFee |-> Uint64ToDecimal(clear.TakerChannelFee, taker.Base)]
TradeEvtLog(maker, taker, amount) ==
  LET clear == countFee(maker, taker, amount)
      takerAsset == IF taker.Side = "sell" THEN taker.Quote ELSE taker.Base
      makerAsset == IF taker.Side = "sell" THEN taker.Base ELSE taker.Quote
  IN  [name |-> "trade", maker |-> OrderId[maker], taker |-> OrderId[taker],
       price |-> LoggedPrice(maker.Price),
       amount |-> Uint64ToDecimal(amount, taker.Base),
       quoteAmount |-> Uint64ToDecimal(Amounts(maker, amount).quote.amount, taker.Quote),
       makerFee |-> Uint64ToDecimal(clear.MakerFee, makerAsset),
       takerFee |-> Uint64ToDecimal(clear.TakerFee, takerAsset),
       makerChannelFee |-> Uint64ToDecimal(clear.MakerChannelFee, makerAsset),
       takerChannelFee |-> Uint64ToDecimal(clear.TakerChannelFee, takerAsset)]

Emit(event) ==
  /\ Len(pending) < MaxLag
  /\ pending' = Append(pending, event)
  /\ UNCHANGED <<view, held>>
-----------------------------------------------------------------------------
(* The handlers with their events.                                         *)

NoCustody == UNCHANGED custodyVars
NoTrading == UNCHANGED <<governanceVars, orderVars>>

LoggedTransfer(asset, from, to, amount) ==
  \/ /\ Deposit(asset, from, to, amount) /\ NoCustody /\ NoTrading
     /\ Emit(TransferEvtLog("deposit", asset, from, to, amount, balance'[asset][to]))
  \/ /\ Withdraw(asset, from, to, amount) /\ NoCustody /\ NoTrading
     /\ Emit(TransferEvtLog("withdraw", asset, from, to, amount, balance'[asset][from]))

LoggedDelegateWithdraw(req, relay) ==
  /\ DelegateWithdraw(req, relay) /\ NoTrading
  /\ Emit(DWithdrawEvtLog(req, relay, balance'[req.asset][req.from]))

LoggedPrepare(asset, from, amount) ==
  /\ PrepareWithdraw(asset, from, amount) /\ NoTrading
  /\ Emit(TransferEvtLog("prepareWithdraw", asset, from, from, amount,
                         prepared'[asset][from].Amount))

LoggedCommit(asset, from) ==
  /\ CommitWithdraw(asset, from) /\ NoTrading
  /\ Emit(TransferEvtLog("commitWithdraw", asset, from, from,
                         Payable(prepared[asset][from], balance[asset][from]),
                         balance'[asset][from]))

LoggedTrade(maker, taker, relay, amount) ==
  /\ Trade(maker, taker, relay, amount) /\ NoCustody
  /\ Emit(TradeEvtLog(maker, taker, amount))

LoggedCancel(order) ==
  /\ CancelOrder(order) /\ NoCustody
  /\ Emit([name |-> "cancel", from |-> order.User, id |-> OrderId[order]])

LoggedDelegateCancel(relay, user, number) ==
  /\ DelegateCancelOrder(relay, user, number) /\ NoCustody
  /\ Emit([name |-> "delegateCancel", from |-> relay, user |-> user, number |-> number])

LoggedSetRelay(from, target, value) ==
  /\ SetRelay(from, target, value) /\ NoCustody /\ NoTrading
  /\ Emit([name |-> "setRelay", target |-> target, value |-> value])

\* Rounds, claims and the world around are not logged by this contract.
Unlogged ==
  /\ \/ \E asset \in Assets, from, to \in Accounts, amount \in Uint64 :
          PayOutside(asset, from, to, amount) /\ NoTrading
     \/ (Tick \/ UpdateParams) /\ NoTrading
     \/ GovernanceStep /\ UNCHANGED orderVars
  /\ NoCustody
  /\ UNCHANGED eventVars
-----------------------------------------------------------------------------
(* The follower.                                                           *)

Credited(book, acc, asset, amount) == [book EXCEPT ![asset][acc] = @ + amount]
Debited(book, acc, asset, amount) == [book EXCEPT ![asset][acc] = @ - amount]

InUnits(decimal, asset) == (decimal.units * Precision[asset]) \div decimal.scale

Behind(store, id) == CHOOSE order \in store : OrderId[order] = id

AfterTrade(store, v, e) ==
  LET maker == Behind(store, e.maker)
      taker == Behind(store, e.taker)
      takerAsset == IF IsSell(taker) THEN taker.Quote ELSE taker.Base
      makerAsset == IF IsSell(taker) THEN taker.Base ELSE taker.Quote
      amount == InUnits(e.amount, taker.Base)
      quoteAmount == InUnits(e.quoteAmount, taker.Quote)
      takerGets == IF IsSell(taker) THEN quoteAmount ELSE amount
      makerGets == IF IsSell(taker) THEN amount ELSE quoteAmount
      takerFee == InUnits(e.takerFee, takerAsset)
      makerFee == InUnits(e.makerFee, makerAsset)
      takerChannelFee == InUnits(e.takerChannelFee, takerAsset)
      makerChannelFee == InUnits(e.makerChannelFee, makerAsset)
      b1 == Credited(v.balance, taker.User, takerAsset, takerGets - takerFee)
      b2 == Debited(b1, taker.User, makerAsset, makerGets)
      b3 == Credited(b2, maker.User, makerAsset, makerGets - makerFee)
      b4 == Debited(b3, maker.User, takerAsset, takerGets)
      b5 == Credited(b4, taker.Channel, takerAsset, takerChannelFee)
      b6 == Credited(b5, maker.Channel, makerAsset, makerChannelFee)
      b7 == Credited(b6, GovernanceCtrAccount, takerAsset, takerFee - takerChannelFee)
      b8 == Credited(b7, GovernanceCtrAccount, makerAsset, makerFee - makerChannelFee)
  IN  [v EXCEPT !.balance = b8,
                !.orders = [v.orders EXCEPT ![e.maker].Filled = @ + amount,
                                            ![e.taker].Filled = @ + amount]]

\* What a copy becomes when an event is read with the orders of a store.
LearnWith(store, v, e) ==
  CASE e.name = "deposit" -> [v EXCEPT !.balance[e.asset][e.to] = e.balance]
    [] e.name = "withdraw" -> [v EXCEPT !.balance[e.asset][e.from] = e.balance]
    [] e.name = "prepareWithdraw" -> [v EXCEPT !.prepared[e.asset][e.from] = e.balance]
    [] e.name = "commitWithdraw" ->
         [v EXCEPT !.balance[e.asset][e.from] = e.balance,
                   !.prepared[e.asset][e.from] = 0]
    [] e.name = "delegateWithdraw" ->
         [v EXCEPT !.balance = [Credited(@, e.relay, e.asset, e.fee)
                                  EXCEPT ![e.asset][e.from] = e.balance]]
    [] e.name = "trade" -> AfterTrade(store, v, e)
    [] e.name = "cancel" -> [v EXCEPT !.orders[e.id].Canceled = TRUE]
    [] e.name = "delegateCancel" -> [v EXCEPT !.canceled[e.user] = e.number]
    [] e.name = "setRelay" ->
         [v EXCEPT !.relays = IF e.value THEN @ \cup {e.target} ELSE @ \ {e.target}]

\* The orders an event cannot be read without.
Needed(e) ==
  IF e.name = "trade" THEN {Behind(Orders, e.maker), Behind(Orders, e.taker)} ELSE {}

Follow ==
  /\ pending # <<>>
  /\ Needed(Head(pending)) \subseteq held
  /\ view' = LearnWith(held, view, Head(pending))
  /\ pending' = Tail(pending)
  /\ UNCHANGED <<dexVars, held>>

Collect(order) ==
  /\ order \notin held
  /\ held' = held \cup {order}
  /\ UNCHANGED <<dexVars, pending, view>>

\* What the contract answers to queries; cancel numbers it only logs.
Answers ==
  [balance  |-> [asset \in Assets |-> [acc \in Accounts |-> BalanceOf(acc, asset)]],
   prepared |-> [asset \in Assets |-> [acc \in Accounts |->
                   GetPrepareWithdrawState(acc, asset).Amount]],
   orders   |-> [id \in Ids |-> GetOrderState(Behind(Orders, id))],
   canceled |-> cancelNumber,
   relays   |-> Relays]

FollowerInit == pending = <<>> /\ view = Answers /\ held = {}

EventNext ==
  \/ \E asset \in Assets, from, to \in Accounts, amount \in Uint64 :
       LoggedTransfer(asset, from, to, amount)
  \/ \E req \in Requests, relay \in Accounts : LoggedDelegateWithdraw(req, relay)
  \/ \E asset \in Assets, from \in Accounts :
       \/ \E amount \in Uint64 : LoggedPrepare(asset, from, amount)
       \/ LoggedCommit(asset, from)
  \/ \E maker, taker \in Orders, relay \in Accounts, amount \in Uint64 :
       LoggedTrade(maker, taker, relay, amount)
  \/ \E order \in Orders : LoggedCancel(order)
  \/ \E relay, user \in Accounts, number \in CancelNumbers :
       LoggedDelegateCancel(relay, user, number)
  \/ \E from, target \in Accounts, value \in BOOLEAN : LoggedSetRelay(from, target, value)
  \/ Unlogged
  \/ Follow
  \/ \E order \in Orders : Collect(order)

EventSpec == DexInit /\ FollowerInit /\ [][EventNext]_eventSpecVars
-----------------------------------------------------------------------------
\* The same for a follower that holds every order.
Learn(v, e) == LearnWith(Orders, v, e)
Told == FoldLeft(Learn, view, pending)

Public(v) ==
  [v EXCEPT !.balance = [asset \in Assets |->
     [acc \in Accounts \ {GovernanceCtrAccount} |-> v.balance[asset][acc]]]]

(* Given the orders behind the ids they name, the events not read yet tell *)
(* in their order what the contract would answer: every fill,              *)
(* cancellation, pending withdrawal and relay, and every balance but one.  *)
(* The governance account is told its system fees, as a fee less the       *)
(* channel's part, but not its claims, which are not logged: the copy      *)
(* never has less than the account (evtlog.go; README.md has relays update *)
(* their accounts from events).                                            *)
EventsTellAll ==
  /\ Public(Told) = Public(Answers)
  /\ \A asset \in Assets :
       Told.balance[asset][GovernanceCtrAccount] >= BalanceOf(GovernanceCtrAccount, asset)
=============================================================================
