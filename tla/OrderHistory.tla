---------------------------- MODULE OrderHistory ----------------------------
(***************************************************************************)
(* Trading with the memory an owner of orders would keep: the quote tokens *)
(* that changed hands for each order, in how many fills, and what an owner *)
(* who sends no transactions has lost.  The history variables follow the   *)
(* code's actions and never influence them.                                *)
(***************************************************************************)
EXTENDS Trading

VARIABLES
  quoteMoved,   \* quoteMoved[order]: quote tokens paid or received for it, before fees
  fills,        \* fills[order]: number of trades it took part in
  spent         \* spent[asset][acc]: what accounts outside Signers have lost in trades

historyVars == <<quoteMoved, fills, spent>>
historySpecVars == <<tradingSpecVars, historyVars>>

MemoryInit ==
  /\ quoteMoved = [order \in Orders |-> 0]
  /\ fills = [order \in Orders |-> 0]
  /\ spent = [asset \in Assets |-> [acc \in Accounts |-> 0]]

Filling(maker, taker, relay, amount) ==
  /\ Trade(maker, taker, relay, amount)
  /\ LET paid == QuoteFor(maker, amount, Precision)
     IN  quoteMoved' = [quoteMoved EXCEPT ![maker] = @ + paid, ![taker] = @ + paid]
  /\ fills' = [fills EXCEPT ![maker] = @ + 1, ![taker] = @ + 1]
  /\ spent' = [asset \in Assets |-> [acc \in Accounts |->
                 spent[asset][acc] + Loss(asset, acc)]]

Otherwise ==
  /\ \/ LedgerNext /\ UNCHANGED <<governanceVars, orderVars>>
     \/ GovernanceStep /\ UNCHANGED orderVars
     \/ Canceling
  /\ UNCHANGED historyVars

HistoryNext ==
  \/ \E maker, taker \in Orders, relay \in Accounts, amount \in Uint64 :
       Filling(maker, taker, relay, amount)
  \/ Otherwise

HistorySpec == TradingInit /\ MemoryInit /\ [][HistoryNext]_historySpecVars
-----------------------------------------------------------------------------
(* Exact(order) / Scale is the value of what was filled at the order's own *)
(* price.                                                                  *)
Exact(order) == order.Price * orderState[order].Filled * Precision[order.Quote]
Scale(order) == Division * Precision[order.Base]

(* No order trades at a price worse than its own, although a trade is      *)
(* priced by the maker and every fill rounds to whole units: a buyer never *)
(* pays more than its price in total, and a seller loses less than one     *)
(* unit a fill (engine/clear.go priceMatch and MatchOrder).                *)
LimitPriceKept ==
  \A order \in Orders :
    IF IsSell(order)
    THEN fills[order] > 0 =>
           (quoteMoved[order] + fills[order]) * Scale(order) > Exact(order)
    ELSE quoteMoved[order] * Scale(order) <= Exact(order)

(* An owner who only ever signs orders loses no more in trades than those  *)
(* orders commit: an order nobody signed, or another account signed, costs *)
(* its user nothing, and fees come out of what is received (verify.go,     *)
(* dex.go updateBalance).                                                  *)
SpentAsSigned ==
  \A asset \in Assets, acc \in Accounts \ Signers :
    spent[asset][acc] <= Committed(acc, asset)
-----------------------------------------------------------------------------
(* What README.md says of fees, which the code does not keep.              *)

(* The fee of a trade is the signed rate, at most 10000, of the trade      *)
(* amount: a side never pays more than it receives.  verify.go checks the  *)
(* signed rate alone, fee.go adds the system fee to it, and dex.go         *)
(* subtracts the sum in uint64.                                            *)
FeeWithinReceipt ==
  [][\A maker, taker \in Orders, relay \in Accounts, amount \in Uint64 :
       Filling(maker, taker, relay, amount) =>
         LET clear == countFee(maker, taker, amount)
         IN  /\ clear.TakerFee <= clear.takerGets.amount
             /\ clear.MakerFee <= clear.makerGets.amount]_historySpecVars

(* The fee a side pays is its signed rate of what it receives.             *)
FeeAsSigned ==
  [][\A maker, taker \in Orders, relay \in Accounts, amount \in Uint64 :
       Filling(maker, taker, relay, amount) =>
         LET clear == countFee(maker, taker, amount)
         IN  /\ clear.TakerFee <= ChannelFee(clear.takerGets.amount, taker.TakerFeeRate)
             /\ clear.MakerFee <= ChannelFee(clear.makerGets.amount, maker.MakerFeeRate)
    ]_historySpecVars
=============================================================================
