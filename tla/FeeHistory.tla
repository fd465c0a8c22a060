----------------------------- MODULE FeeHistory -----------------------------
(***************************************************************************)
(* Trading with an account of the fees set aside that the contract does    *)
(* not keep: what came in during the current round and what is left of the *)
(* rounds before, summed trade by trade.                                   *)
(***************************************************************************)
EXTENDS Trading

VARIABLES
  roundFees,    \* roundFees[asset]: system fees taken since the current round began
  pastFees      \* pastFees[asset]: fees of earlier rounds not yet claimed

feeVars == <<roundFees, pastFees>>
feeSpecVars == <<tradingSpecVars, feeVars>>

AccountInit ==
  /\ roundFees = [asset \in Assets |-> 0]
  /\ pastFees = [asset \in Assets |-> 0]

Earned(clear, asset) ==
  (IF clear.takerGets.asset = asset THEN clear.TakerSysFee ELSE 0)
  + (IF clear.makerGets.asset = asset THEN clear.MakerSysFee ELSE 0)

Taking(maker, taker, relay, amount) ==
  /\ Trade(maker, taker, relay, amount)
  /\ roundFees' = [asset \in Assets |->
       roundFees[asset] + Earned(countFee(maker, taker, amount), asset)]
  /\ UNCHANGED pastFees

Closing(round) ==
  /\ EpochEnd(round) /\ UNCHANGED orderVars
  /\ IF round = currentRound
     THEN UNCHANGED feeVars
     ELSE /\ pastFees' = [asset \in Assets |-> pastFees[asset] + roundFees[asset]]
          /\ roundFees' = [asset \in Assets |-> 0]

Claiming(asset) ==
  /\ ClaimSpProfit(asset) /\ UNCHANGED orderVars
  /\ pastFees' = [pastFees EXCEPT ![asset] =
       @ - (wallet'[asset][GovernanceCtrAccount] - wallet[asset][GovernanceCtrAccount])]
  /\ UNCHANGED roundFees

\* What this history is about: a governance contract that takes fees out
\* with ClaimSpProfit and not with a Withdraw of its own.
NoDirectWithdrawal ==
  \A asset \in Assets :
    balance'[asset][GovernanceCtrAccount] >= balance[asset][GovernanceCtrAccount]

FeeNext ==
  \/ \E maker, taker \in Orders, relay \in Accounts, amount \in Uint64 :
       Taking(maker, taker, relay, amount)
  \/ \E round \in Rounds : Closing(round)
  \/ \E asset \in Assets : Claiming(asset)
  \/ /\ \/ LedgerNext /\ NoDirectWithdrawal /\ UNCHANGED <<governanceVars, orderVars>>
        \/ Canceling
     /\ UNCHANGED feeVars

FeeSpec == TradingInit /\ AccountInit /\ [][FeeNext]_feeSpecVars
-----------------------------------------------------------------------------
(* The contract's two counters lose no fee and count none twice: whichever *)
(* way trades, round changes and claims alternate, they add up to the fees *)
(* taken and not claimed (helper.go AccountForGovernance, management.go    *)
(* ClaimSpProfit).                                                         *)
FeesAccounted ==
  \A asset \in Assets :
    spProfit[asset].LatestProfit + spProfit[asset].HistoryProfit
      = roundFees[asset] + pastFees[asset]

(* A claim reaches fees of rounds that have ended only, even when no trade *)
(* has touched the record since the round changed (management.go           *)
(* ClaimSpProfit).                                                         *)
OnlyPastFeesClaimable ==
  \A asset \in Assets : Claimable(spProfit[asset]) <= pastFees[asset]
=============================================================================
