------------------------------ MODULE MCDecimals ------------------------------
(* Binary numbers of up to four characters; precisions within and beyond ZERO. *)
EXTENDS DecimalCodec

Precisions(b, q) == [base |-> b, quote |-> q]
WithinZeros == {Precisions(0, 2), Precisions(1, 2), Precisions(2, 1)}
UpToThree == WithinZeros \cup {Precisions(3, 0), Precisions(1, 3)}
=============================================================================
