------------------------------- MODULE Trading -------------------------------
(***************************************************************************)
(* Orders and their settlement (dex.go Trade, CancelOrder and              *)
(* DelegateCancelOrder, verify.go, engine, fee.go).  Owners sign orders    *)
(* off-chain; a relay picks two that match and submits them as a trade;    *)
(* an owner or a relay may cancel.                                         *)
(*                                                                         *)
(* An order's data stands for its id (types.go OrderId hashes every field  *)
(* but the signature), with prices and amounts already parsed.             *)
(***************************************************************************)
EXTENDS Governance, Matching, Sequences

CONSTANTS
  Orders,         \* orders somebody may submit
  OrderSigs,      \* the signatures that exist: [signer : Accounts, data : Orders]
  CancelNumbers,  \* salts a relay may cancel up to
  PrimeUsers,     \* accounts the prime contract gives a discount
  Precision,      \* Precision[asset]: 10^decimals of the token
  ChainID         \* the chain the contract runs on

OrderData ==
  [User : Accounts, Channel : Accounts, Side : {"buy", "sell"},
   Base : Assets, Quote : Assets, Price : Uint64, Amount : Uint64,
   MakerFeeRate : Uint32, TakerFeeRate : Uint32, Expire : Uint32, Salt : Uint64,
   ChainId : Nat]

ASSUME OrdersAssumption ==
  /\ Orders \subseteq OrderData
  /\ IsFiniteSet(Orders)
  /\ OrderSigs \subseteq [signer : Accounts, data : Orders]
  /\ CancelNumbers \subseteq Uint64
  /\ Precision \in [Assets -> Nat \ {0}]

VARIABLES
  orderState,     \* orderState[order] = [Filled, Canceled]
  cancelNumber    \* cancelNumber[acc]: salts up to it are canceled by a relay

orderVars == <<orderState, cancelNumber>>
tradingSpecVars == <<ledgerVars, governanceVars, orderVars>>

OrderState == [Filled : Uint64, Canceled : BOOLEAN]

OrdersInit ==
  /\ orderState = [order \in Orders |-> [Filled |-> 0, Canceled |-> FALSE]]
  /\ cancelNumber = [acc \in Accounts |-> 0]
-----------------------------------------------------------------------------
(* verify.go                                                               *)

IsExpired(expire) == expire # 0 /\ timestamp >= expire
IsCanceled(order) == orderState[order].Canceled
IsCanceledByRelay(order) == order.Salt <= cancelNumber[order.User]

\* Slip: a signature by anybody over the order is accepted.
SignedOrderSlip(order) == \E sig \in OrderSigs : sig.data = order
SignedOrder(order) ==
  \E sig \in OrderSigs : sig.signer = order.User /\ sig.data = order

\* Slip: a relay's cancellation is only looked up for orders without expiry.
TradableSlip(order) ==
  /\ order.ChainId = ChainID
  /\ ~ IsExpired(order.Expire)
  /\ order.MakerFeeRate <= FeeBase /\ order.TakerFeeRate <= FeeBase
  /\ ~ IsCanceled(order)
  /\ order.Expire = 0 => ~ IsCanceledByRelay(order)
  /\ SignedOrder(order)
Tradable(order) ==
  /\ order.ChainId = ChainID
  /\ ~ IsExpired(order.Expire)
  /\ order.MakerFeeRate <= FeeBase /\ order.TakerFeeRate <= FeeBase
  /\ ~ IsCanceled(order)
  /\ ~ IsCanceledByRelay(order)
  /\ SignedOrder(order)

verify(maker, taker) ==
  /\ {maker.Side, taker.Side} = {"buy", "sell"}
  /\ maker.Base = taker.Base /\ maker.Quote = taker.Quote
  /\ Tradable(maker) /\ Tradable(taker)
-----------------------------------------------------------------------------
(* engine/clear.go and fee.go                                              *)

Surplus(order) == order.Amount - orderState[order].Filled

\* Slip: the taker's remaining amount is not looked at.
EnoughSurplusSlip(maker, taker, amount) == Surplus(maker) >= amount
EnoughSurplus(maker, taker, amount) ==
  Surplus(maker) >= amount /\ Surplus(taker) >= amount

MatchOrder(maker, taker, amount) ==
  LET tradeQuoteAmount == QuoteFor(maker, amount, Precision) IN
    /\ priceMatch(maker, taker)
    /\ EnoughSurplus(maker, taker, amount)
    /\ WrapUint64(tradeQuoteAmount) # 0
    /\ tradeQuoteAmount <= MaxUint64

\* What a side gives and receives.
Amounts(maker, amount) ==
  [base  |-> [asset |-> maker.Base, amount |-> amount],
   quote |-> [asset |-> maker.Quote, amount |-> QuoteFor(maker, amount, Precision)]]

\* The clear of a trade: what each side gets, and the fees taken out of it.
countFee(maker, taker, amount) ==
  LET legs == Amounts(maker, amount)
      takerGets == IF IsSell(taker) THEN legs.quote ELSE legs.base
      makerGets == IF IsSell(taker) THEN legs.base ELSE legs.quote
      sys(get, rate, user) ==
        WrapUint64(SysFee(get.amount, rate, user \in PrimeUsers,
                          globalParams.PrimeFeeDiscountPercent))
      channel(get, rate) == WrapUint64(ChannelFee(get.amount, rate))
      taker1 == sys(takerGets, globalParams.TakerSysFeeRate, taker.User)
      maker1 == sys(makerGets, globalParams.MakerSysFeeRate, maker.User)
      taker2 == channel(takerGets, taker.TakerFeeRate)
      maker2 == channel(makerGets, maker.MakerFeeRate)
  IN  [takerGets |-> takerGets, makerGets |-> makerGets,
       TakerSysFee |-> taker1, MakerSysFee |-> maker1,
       TakerChannelFee |-> taker2, MakerChannelFee |-> maker2,
       TakerFee |-> WrapUint64(taker1 + taker2),
       MakerFee |-> WrapUint64(maker1 + maker2)]
-----------------------------------------------------------------------------
(* dex.go updateBalance: eight bookings in the code's order, each checked  *)
(* against the book the one before left.                                   *)

Credit(acc, asset, amount) == [sign |-> 1, acc |-> acc, asset |-> asset, amount |-> amount]
Debit(acc, asset, amount) == [sign |-> -1, acc |-> acc, asset |-> asset, amount |-> amount]

\* What is left of a receipt after its fee: uint64 subtraction.
Net(get, fee) == WrapUint64(get.amount - fee)

\* Slip: the maker receives the whole amount, fee included.
ReceiptsSlip(clear) == [taker |-> Net(clear.takerGets, clear.TakerFee),
                        maker |-> clear.makerGets.amount]
Receipts(clear) == [taker |-> Net(clear.takerGets, clear.TakerFee),
                    maker |-> Net(clear.makerGets, clear.MakerFee)]

SideBookings(maker, taker, clear) ==
  LET net == Receipts(clear)
      takerGets == Credit(taker.User, clear.takerGets.asset, net.taker)
      takerGives == Debit(taker.User, clear.makerGets.asset, clear.makerGets.amount)
      makerGets == Credit(maker.User, clear.makerGets.asset, net.maker)
      makerGives == Debit(maker.User, clear.takerGets.asset, clear.takerGets.amount)
  IN  IF IsSell(taker) THEN <<takerGives, takerGets, makerGets, makerGives>>
                       ELSE <<takerGets, takerGives, makerGives, makerGets>>

FeeBookings(maker, taker, clear) ==
  <<Credit(taker.Channel, clear.takerGets.asset, clear.TakerChannelFee),
    Credit(maker.Channel, clear.makerGets.asset, clear.MakerChannelFee),
    Credit(GovernanceCtrAccount, clear.takerGets.asset, clear.TakerSysFee),
    Credit(GovernanceCtrAccount, clear.makerGets.asset, clear.MakerSysFee)>>

Book(book, entry) ==
  [book EXCEPT ![entry.asset] =
     IF entry.sign = 1 THEN BalanceAdd(@, entry.acc, entry.amount)
                       ELSE BalanceSub(@, entry.acc, entry.amount)]

BookOK(book, entry) ==
  IF entry.sign = 1 THEN BalanceAddOK(book[entry.asset], entry.acc, entry.amount)
                    ELSE BalanceSubOK(book[entry.asset], entry.acc, entry.amount)

\* books[i] is the book after the first i entries.
Posted(entries) ==
  LET books[i \in 0..Len(entries)] ==
        IF i = 0 THEN balance ELSE Book(books[i - 1], entries[i])
  IN  books

updateBalance(maker, taker, clear) ==
  LET entries == SideBookings(maker, taker, clear) \o FeeBookings(maker, taker, clear)
      books == Posted(entries)
  IN  /\ \A i \in 1..Len(entries) : BookOK(books[i - 1], entries[i])
      /\ balance' = books[Len(entries)]

setAsideSysFees(clear) ==
  LET aside == [spProfit EXCEPT ![clear.takerGets.asset] = Accrue(@, clear.TakerSysFee)]
  IN  spProfit' = [aside EXCEPT ![clear.makerGets.asset] = Accrue(@, clear.MakerSysFee)]

\* Slip: the taker's fill is not recorded.
updateOrderStateSlip(maker, taker, amount) ==
  orderState' = [orderState EXCEPT ![maker].Filled = @ + amount]
updateOrderState(maker, taker, amount) ==
  orderState' = [orderState EXCEPT ![maker].Filled = @ + amount,
                                   ![taker].Filled = @ + amount]
-----------------------------------------------------------------------------
(* Transactions.                                                           *)

Trade(maker, taker, relay, amount) ==
  LET clear == countFee(maker, taker, amount) IN
    /\ relay \in Signers
    /\ isRelay(relay)
    /\ verify(maker, taker)
    /\ MatchOrder(maker, taker, amount)
    /\ updateOrderState(maker, taker, amount)
    /\ updateBalance(maker, taker, clear)
    /\ setAsideSysFees(clear)
    /\ UNCHANGED <<wallet, contextVars, currentRound, cancelNumber>>

CancelOrder(order) ==
  /\ order.User \in Signers
  /\ orderState' = [orderState EXCEPT ![order].Canceled = TRUE]
  /\ UNCHANGED <<ledgerVars, governanceVars, cancelNumber>>

HigherNumber(user, number) == number > cancelNumber[user]

DelegateCancelOrder(relay, user, number) ==
  /\ relay \in Signers
  /\ isRelay(relay)
  /\ HigherNumber(user, number)
  /\ cancelNumber' = [cancelNumber EXCEPT ![user] = number]
  /\ UNCHANGED <<ledgerVars, governanceVars, orderState>>

Canceling ==
  \/ \E order \in Orders : CancelOrder(order)
  \/ \E relay, user \in Accounts, number \in CancelNumbers :
       DelegateCancelOrder(relay, user, number)

TradingStep ==
  \/ \E maker, taker \in Orders, relay \in Accounts, amount \in Uint64 :
       Trade(maker, taker, relay, amount)
  \/ Canceling

TradingInit == LedgerInit /\ RoundsInit /\ OrdersInit
TradingNext ==
  \/ LedgerNext /\ UNCHANGED <<governanceVars, orderVars>>
  \/ GovernanceStep /\ UNCHANGED orderVars
  \/ TradingStep
TradingSpec == TradingInit /\ [][TradingNext]_tradingSpecVars
-----------------------------------------------------------------------------
OrdersTypeOK ==
  /\ orderState \in [Orders -> OrderState]
  /\ cancelNumber \in [Accounts -> Uint64]

TradingTypeOK == LedgerTypeOK /\ RoundsTypeOK /\ OrdersTypeOK

\* The most an order may cost its owner in an asset.
Commitment(order, asset) ==
  CASE order.Side = "sell" /\ order.Base = asset -> order.Amount
    [] order.Side = "buy" /\ order.Quote = asset ->
         QuoteFor(order, order.Amount, Precision)
    [] OTHER -> 0

\* What the distinct orders an owner signed may cost in an asset.
Committed(acc, asset) ==
  SumFunctionOnSet([order \in Orders |-> Commitment(order, asset)],
    {order \in Orders : order.User = acc /\ [signer |-> acc, data |-> order] \in OrderSigs})

(* However often and against whomever an order is traded, as maker or as   *)
(* taker, it is never filled beyond its amount (engine/clear.go).          *)
FilledWithinAmount ==
  \A order \in Orders : orderState[order].Filled <= order.Amount

(* Every base token a buyer's order was filled with came from a seller's   *)
(* order of the same pair: the two sides of each pair are filled equally   *)
(* (dex.go updateOrderState).                                              *)
FilledOf(base, quote, side) ==
  SumFunctionOnSet([order \in Orders |-> orderState[order].Filled],
    {order \in Orders : order.Base = base /\ order.Quote = quote /\ order.Side = side})

SidesBalance ==
  \A base, quote \in Assets : FilledOf(base, quote, "buy") = FilledOf(base, quote, "sell")

Dead(order) ==
  IsExpired(order.Expire) \/ IsCanceled(order) \/ IsCanceledByRelay(order)

(* An order that has expired or was canceled, by its owner or by a relay,  *)
(* is dead for good: it is never filled again and nothing revives it       *)
(* (verify.go, dex.go CancelOrder and DelegateCancelOrder).                *)
DeadOrdersStayDead ==
  [][\A order \in Orders : Dead(order) =>
       Dead(order)' /\ orderState'[order].Filled = orderState[order].Filled]_tradingSpecVars
=============================================================================
