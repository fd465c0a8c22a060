-------------------------------- MODULE MCFees --------------------------------
(* The funded instance of MCTrading with the account of fees added. *)
EXTENDS MCTrading, FeeHistory

FundedInit == Funding(3, 4) /\ AccountInit
FundedSpec == FundedInit /\ [][FeeNext]_feeSpecVars
=============================================================================
