------------------------------ MODULE MCCustody ------------------------------
(***************************************************************************)
(* Instances of Custody.  `cold` never sends a transaction: it signs       *)
(* requests for the relay to submit, and somebody else signs one in its    *)
(* name.  alice prepares and commits withdrawals while the apply time      *)
(* changes, and may drain her balance in between, as the account that      *)
(* withdrawList lets withdraw directly.  Amounts reach the top of the      *)
(* integers, so checked additions overflow.                                *)
(***************************************************************************)
EXTENDS CustodyHistory

CONSTANTS tok, dex, alice, cold, relay

Holding(n) == [asset \in {tok} |->
                 [acc \in Accounts |-> IF acc = alice THEN n ELSE 0]]
OneToken == Holding(1)
TwoTokens == Holding(2)

Params(wait) == [MakerSysFeeRate |-> 0, TakerSysFeeRate |-> 0,
                 PrimeFeeDiscountPercent |-> 0, WithdrawApplyWaitTime |-> wait]
WaitFive == {Params(5)}
DefaultWait == {Params(10)}
WaitOneOrTwo == {Params(1), Params(2)}

Ask(from, to, amount, fee, salt) ==
  [asset |-> tok, from |-> from, to |-> to,
   amount |-> amount, fee |-> fee, salt |-> salt]
By(signer, req) == [signer |-> signer, data |-> req]

Signings == {By(cold, Ask(cold, alice, 1, 1, 1)), By(alice, Ask(cold, relay, 1, 0, 0)),
             By(alice, Ask(alice, alice, 1, 0, 0))}
Asked == {sig.data : sig \in Signings}
NoRequests == {}

\* Bound: the operator registers nobody but relay and alice, nothing is paid
\* to cold's wallet, and alice alone prepares withdrawals.
Bounds ==
  /\ relays' \subseteq {relay, alice}
  /\ wallet'[tok][cold] = 0
  /\ \A acc \in Accounts \ {alice} : prepared'[tok][acc] = NoRecord

BoundedSpec == HistoryInit /\ [][HistoryNext /\ Bounds]_historySpecVars
=============================================================================
