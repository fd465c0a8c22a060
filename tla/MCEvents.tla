------------------------------- MODULE MCEvents -------------------------------
(* The instance of MCDex with a follower of its events. *)
EXTENDS MCDex, EventLog

Numbered == CHOOSE f \in [Orders -> 1..Cardinality(Orders)] :
              \A one, other \in Orders : f[one] = f[other] => one = other

\* Bound: an order is asked for when an event cannot be read without it.
AsksWhenNeeded ==
  held' # held => pending # <<>> /\ held' \ held \subseteq Needed(Head(pending))

\* Bound: no calls that change nothing, such as deposits of zero.
NoIdleCalls == Len(pending') > Len(pending) => dexVars' # dexVars

FewCalls == AsksWhenNeeded /\ NoIdleCalls

FundedInit == Funding(1, 2) /\ FollowerInit
FundedSpec == FundedInit /\ [][EventNext /\ Bounds /\ FewCalls]_eventSpecVars
=============================================================================
