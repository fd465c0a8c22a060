------------------------------- MODULE MCOwners -------------------------------
(* The instance of MCDex with the losses of its cold owner, under fairness. *)
EXTENDS MCDex, DexHistory, DexLiveness

FundedInit == Funding(1, 4) /\ NothingLost
FundedSpec ==
  FundedInit /\ [][LossyNext /\ Bounds /\ NoLateRequest]_dexHistoryVars /\ ExitFairness
=============================================================================
