------------------------------ MODULE DexHistory ------------------------------
(***************************************************************************)
(* The whole contract with what an owner who sends no transactions has     *)
(* lost by whatever way.  The history variable never influences the code.  *)
(***************************************************************************)
EXTENDS Dex

VARIABLE lost   \* lost[asset][acc], for accounts outside Signers

dexHistoryVars == <<dexVars, lost>>

NothingLost == lost = [asset \in Assets |-> [acc \in Accounts |-> 0]]

LossyNext ==
  /\ Invoke
  /\ lost' = [asset \in Assets |-> [acc \in Accounts |->
                lost[asset][acc] + Loss(asset, acc)]]

LossySpec == DexInit /\ NothingLost /\ [][LossyNext]_dexHistoryVars
-----------------------------------------------------------------------------
(* An owner who only ever signs, orders and withdrawals alike, loses no    *)
(* more than the distinct things signed, in whatever order relays submit   *)
(* them, resubmit them and mix them with what others do (dex.go            *)
(* DelegateWithdraw and Trade).                                            *)
LostAsSigned ==
  \A asset \in Assets, acc \in Accounts \ Signers :
    lost[asset][acc] <= SignedAway(acc, asset) + Committed(acc, asset)
=============================================================================
