------------------------------- MODULE MCOrders -------------------------------
(* The funded instance of MCTrading with the owners' memory added. *)
EXTENDS MCTrading, OrderHistory

FundedInit == Funding(3, 5) /\ MemoryInit
FundedSpec == FundedInit /\ [][HistoryNext]_historySpecVars
=============================================================================
