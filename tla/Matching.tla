------------------------------ MODULE Matching ------------------------------
(***************************************************************************)
(* The arithmetic of a trade (engine/clear.go, fee.go): whether two orders *)
(* match, what the trade is worth in the quote asset, and what each side   *)
(* pays of what it receives.  The code works in unbounded integers and     *)
(* truncates the results to uint64.                                        *)
(***************************************************************************)
EXTENDS Integers

CONSTANTS
  Division,       \* prices are in units of 1/Division (1e8)
  FeeBase,        \* fee rates are in units of 1/FeeBase (10000)
  PercentBase     \* the prime discount is in units of 1/PercentBase (100)

ASSUME ScaleAssumption == {Division, FeeBase, PercentBase} \subseteq Nat \ {0}

IsSell(order) == order.Side = "sell"

\* Slip: the comparison of a buying maker is forgotten.
priceMatchSlip(left, right) == IsSell(left) => left.Price <= right.Price
priceMatch(left, right) ==
  IF IsSell(left) THEN left.Price <= right.Price ELSE left.Price >= right.Price

\* Quote tokens for `amount` base tokens, precision[t] being 10^decimals of t.
QuoteFor(order, amount, precision) ==
  ((order.Price * amount * precision[order.Quote]) \div Division)
    \div precision[order.Base]

\* The fee parameter and the discount of a prime account.
SysFee(get, rate, prime, discount) ==
  IF prime THEN (get * rate * discount) \div (FeeBase * PercentBase)
           ELSE (get * rate) \div FeeBase

ChannelFee(get, rate) == (get * rate) \div FeeBase
=============================================================================
