-------------------------------- MODULE MCDex --------------------------------
(***************************************************************************)
(* The whole contract on one pair, for the instances that extend this      *)
(* module: alice sells base tokens and prepares withdrawals; cold never    *)
(* sends a transaction, it signs a bid and a withdrawal of its quote       *)
(* tokens, and alice signs one in its name.  It starts when everything is  *)
(* deposited and the relay registered.                                     *)
(***************************************************************************)
EXTENDS Dex

CONSTANTS base, quote, dex, alice, cold, relay
CONSTANT MostPending    \* bound: tokens in one pending withdrawal

Holding(owner, b, q) ==
  [asset \in {base, quote} |-> [acc \in Accounts |->
     IF acc # owner[asset] THEN 0 ELSE IF asset = base THEN b ELSE q]]
Everywhere(acc) == [asset \in {base, quote} |-> acc]
OneAndTwo == Holding(Everywhere(relay), 1, 2)
OneAndFour == Holding(Everywhere(relay), 1, 4)
Scales(b, q) == [asset \in {base, quote} |-> IF asset = base THEN b ELSE q]
Unit == Scales(1, 1)
FineQuote == Scales(1, 2)

Funding(b, q) ==
  /\ balance = Holding([asset \in {base, quote} |-> IF asset = base THEN alice ELSE cold], b, q)
  /\ wallet = Holding(Everywhere(dex), b, q)
  /\ relays = {relay}
  /\ timestamp = 0
  /\ globalParams \in ParamValues
  /\ RoundsInit /\ OrdersInit /\ RecordsInit

\* Bound: alice alone prepares withdrawals.
FewPending ==
  \A asset \in Assets, acc \in Accounts :
    prepared'[asset][acc].Amount <= IF acc = alice THEN MostPending ELSE 0

\* Bound: nobody but relay is ever registered.
OneRelay == relays' \subseteq {relay}

\* Bound: relays cancel orders of cold alone.
FewCancels == \A acc \in Accounts \ {cold} : cancelNumber'[acc] = 0

\* Bound: nothing leaves to cold's wallet.
FewTransfers ==
  \A asset \in Assets : wallet'[asset][cold] = 0

Bounds == FewPending /\ OneRelay /\ FewCancels /\ FewTransfers

Params(fee, wait) ==
  [MakerSysFeeRate |-> fee, TakerSysFeeRate |-> fee,
   PrimeFeeDiscountPercent |-> 0, WithdrawApplyWaitTime |-> wait]
NoFeeWaitOne == {Params(0, 1)}
HalfFeeNoWait == {Params(1, 0)}

Ask(from, to, amount, fee, salt) ==
  [asset |-> quote, from |-> from, to |-> to,
   amount |-> amount, fee |-> fee, salt |-> salt]
PaidRequests == {Ask(cold, alice, 1, 1, 1)}
PaidSigs == {[signer |-> cold, data |-> Ask(cold, alice, 1, 1, 1)]}
ColdRequests == {Ask(cold, alice, 1, 0, 1), Ask(cold, relay, 1, 0, 0)}
ColdSigs == {[signer |-> cold, data |-> Ask(cold, alice, 1, 0, 1)],
             [signer |-> alice, data |-> Ask(cold, relay, 1, 0, 0)]}

Order(user, side, price, amount, salt) ==
  [User |-> user, Channel |-> relay, Side |-> side, Base |-> base, Quote |-> quote,
   Price |-> price, Amount |-> amount, MakerFeeRate |-> 1,
   TakerFeeRate |-> 1, Expire |-> 0, Salt |-> salt, ChainId |-> 1]
Ordered == {Order(alice, "sell", 4, 2, 1), Order(cold, "buy", 4, 1, 1)}
OrderedSigs == {[signer |-> order.User, data |-> order] : order \in Ordered}
OrderedFine == {Order(alice, "sell", 2, 1, 1), Order(cold, "buy", 2, 1, 1)}
OrderedFineSigs == {[signer |-> order.User, data |-> order] : order \in OrderedFine}
=============================================================================
