----------------------------- MODULE DexLiveness -----------------------------
(***************************************************************************)
(* What the two-phase withdrawal is for: an owner who has prepared one     *)
(* gets paid without anybody's cooperation.  Deposits, delegated           *)
(* withdrawals, trades, fees and cancellations go on meanwhile, and none   *)
(* of them waits for a pending withdrawal.                                 *)
(*                                                                         *)
(* The model's time ends at Horizon, so requests stop at LastPrepare,      *)
(* early enough for the last of them to mature.                            *)
(***************************************************************************)
EXTENDS Dex

CONSTANT LastPrepare    \* bound: the last timestamp at which a request is made

ASSUME PrepareDeadlineAssumption ==
  /\ LastPrepare \in Nat
  /\ \A params \in ParamValues : LastPrepare + params.WithdrawApplyWaitTime <= Horizon

NoLateRequest ==
  timestamp > LastPrepare =>
    \A asset \in Assets, acc \in Accounts :
      prepared'[asset][acc] \in {prepared[asset][acc], NoRecord}

\* Blocks keep coming, and an owner keeps submitting a commit that would
\* succeed: nothing in the contract queues or schedules either.  No relay is
\* asked for anything.
ExitFairness ==
  /\ WF_dexVars(Tick /\ UNCHANGED <<custodyVars, governanceVars, orderVars>>)
  /\ \A asset \in Assets, from \in Signers :
       WF_dexVars(CommitWithdraw(asset, from) /\ UNCHANGED <<governanceVars, orderVars>>)
-----------------------------------------------------------------------------
(* A prepared withdrawal is eventually paid, as far as the balance still   *)
(* goes, and its record cleared: no drained balance, no overflow, no trade *)
(* of an order the owner signed and no other owner's action leaves it      *)
(* stuck (dex.go CommitWithdraw pays the balance when it is the smaller).  *)
PreparedIsPaid ==
  \A asset \in Assets, from \in Signers :
    prepared[asset][from].Amount > 0 ~> prepared[asset][from] = NoRecord
=============================================================================
