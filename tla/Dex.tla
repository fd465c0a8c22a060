--------------------------------- MODULE Dex ---------------------------------
(***************************************************************************)
(* The whole contract (protocol.go Invoke): custody and trading over one   *)
(* book.  A trade, a delegated withdrawal and a two-phase withdrawal of    *)
(* the same account spend the same balance, and nothing is reserved for    *)
(* any of them.                                                            *)
(***************************************************************************)
EXTENDS Custody, Trading

dexVars == <<ledgerVars, custodyVars, governanceVars, orderVars>>

DexInit == TradingInit /\ RecordsInit

Invoke ==
  \/ CustodyStep /\ UNCHANGED <<governanceVars, orderVars>>
  \/ TradingNext /\ UNCHANGED custodyVars

DexSpec == DexInit /\ [][Invoke]_dexVars
-----------------------------------------------------------------------------
(* Queries.                                                                *)

BalanceOf(acc, asset) == balance[asset][acc]
GetPrepareWithdrawState(from, asset) == prepared[asset][from]
GetOrderState(order) == orderState[order]
Relays == {acc \in Accounts : isRelay(acc)}
-----------------------------------------------------------------------------
DexTypeOK == TradingTypeOK /\ RecordsTypeOK

(* The way out stays open: once a prepared withdrawal has waited, its      *)
(* commit succeeds in that very state.  Whatever trades, delegated         *)
(* withdrawals, fees and claims did to the balance meanwhile, the payout   *)
(* is one the book and the DEX account can make (dex.go CommitWithdraw).   *)
Mature(ws) == ws.Amount > 0 /\ timestamp >= MaturesAt(ws.Time)

ExitOpen ==
  \A asset \in Assets, from \in Signers :
    Mature(prepared[asset][from]) => ENABLED CommitWithdraw(asset, from)
=============================================================================
