---------------------------- MODULE DecimalCodec ----------------------------
(***************************************************************************)
(* Numbers as text (util.go DecimalToUint64 and Uint64ToDecimal), where    *)
(* they enter and leave the contract: an order's price and amount          *)
(* (types.go ToOrder), a relay's amount and fees (ToRelay), and the event  *)
(* of the trade (evtlog.go), whose texts somebody may submit again.        *)
(*                                                                         *)
(* A text is what strings.Split makes of it at its dots: a sequence of     *)
(* parts, each a sequence of digits.  The number Radix stands for every    *)
(* other character.                                                        *)
(***************************************************************************)
EXTENDS Integers, SequencesExt, FiniteSetsExt

CONSTANTS
  Radix,          \* 10 in the code
  MaxUint64,
  ZeroLen,        \* characters of the padding constant ZERO: 10 in the code
  PriceDecimal,   \* 8 in the code
  TokenDecimals,  \* [base, quote]: decimals the two tokens may have
  MaxText         \* bound: characters in one number

Pow[n \in Nat] == IF n = 0 THEN 1 ELSE Radix * Pow[n - 1]

ASSUME CodecAssumption ==
  /\ Radix \in Nat /\ Radix >= 2
  /\ MaxUint64 \in Nat /\ ZeroLen \in Nat /\ PriceDecimal \in Nat /\ MaxText \in Nat
  /\ TokenDecimals \subseteq [base : Nat, quote : Nat]
  /\ \A decimals \in TokenDecimals :
       Pow[decimals.base] <= MaxUint64 /\ Pow[decimals.quote] <= MaxUint64

Fields == {"Price", "Amount", "TradeAmount", "MakerFee", "TakerFee"}
Chars == 0..Radix

VARIABLES
  form,       \* form[field]: the texts of a trade's arguments
  takerSide,
  decimals,   \* what GetTokenDecimal answers for base and quote
  parsed      \* what the contract last made of the form

codecVars == <<form, takerSide, decimals, parsed>>
-----------------------------------------------------------------------------
Ok(units) == [kind |-> "ok", units |-> units]
Refused == [kind |-> "refused"]
Panic == [kind |-> "panic"]
Unread == [kind |-> "unread"]

Digits(text) == FoldLeft(LAMBDA n, digit : n * Radix + digit, 0, text)

ParseUint(text) ==
  IF text = <<>> \/ Radix \in Range(text) \/ Digits(text) > MaxUint64
  THEN Refused ELSE Ok(Digits(text))

FormatUint[n \in Nat] ==
  IF n < Radix THEN <<n>> ELSE Append(FormatUint[n \div Radix], n % Radix)

\* ZERO[:n]
Zeros(n) == [i \in 1..n |-> 0]

Padded(text, zeros) ==
  IF zeros > ZeroLen THEN Panic ELSE ParseUint(text \o Zeros(zeros))

\* Slip: a number with all its decimals given counts as too fine.
DecimalToUint64Slip(number, decimal) ==
  CASE Len(number) = 1 -> Padded(number[1], decimal)
    [] Len(number) = 2 /\ Len(number[2]) >= decimal -> Refused
    [] Len(number) = 2 /\ Len(number[2]) < decimal ->
         Padded(number[1] \o number[2], decimal - Len(number[2]))
    [] OTHER -> ParseUint(number[1])
DecimalToUint64(number, decimal) ==
  CASE Len(number) = 1 -> Padded(number[1], decimal)
    [] Len(number) = 2 /\ Len(number[2]) > decimal -> Refused
    [] Len(number) = 2 /\ Len(number[2]) <= decimal ->
         Padded(number[1] \o number[2], decimal - Len(number[2]))
    [] OTHER -> ParseUint(number[1])

\* Slip: the zeros between the dot and the fraction's first digit are lost.
Uint64ToDecimalSlip(v, decimal) ==
  LET p == Pow[decimal] IN
    IF v % p = 0 THEN <<FormatUint[v \div p]>>
                 ELSE <<FormatUint[v \div p], FormatUint[v % p]>>
Uint64ToDecimal(v, decimal) ==
  LET p == Pow[decimal]
      dec == FormatUint[v % p]
  IN  IF v % p = 0 THEN <<FormatUint[v \div p]>>
                   ELSE <<FormatUint[v \div p], Zeros(decimal - Len(dec)) \o dec>>
-----------------------------------------------------------------------------
(* Which decimals a field is read with.                                    *)

OrderDecimals == [Price |-> PriceDecimal, Amount |-> decimals.base]

\* Slip: the fees are read the other way round.
RelayDecimalsSlip ==
  [TradeAmount |-> decimals.base,
   MakerFee |-> IF takerSide = "sell" THEN decimals.quote ELSE decimals.base,
   TakerFee |-> IF takerSide = "sell" THEN decimals.base ELSE decimals.quote]
RelayDecimals ==
  [TradeAmount |-> decimals.base,
   MakerFee |-> IF takerSide = "sell" THEN decimals.base ELSE decimals.quote,
   TakerFee |-> IF takerSide = "sell" THEN decimals.quote ELSE decimals.base]

ReadWith(field) ==
  IF field \in DOMAIN OrderDecimals THEN OrderDecimals[field] ELSE RelayDecimals[field]

\* The orders' fields come before the relay's.
ReadingOrder == <<"Price", "Amount", "TradeAmount", "MakerFee", "TakerFee">>

\* The call fails with the first field that does.
Parsed ==
  LET read(field) == DecimalToUint64(form[field], ReadWith(field))
      failing == {i \in 1..5 : read(ReadingOrder[i]).kind # "ok"}
  IN  IF failing = {} THEN Ok([field \in Fields |-> read(field).units])
                      ELSE read(ReadingOrder[Min(failing)])

\* AddTradeEvtLog; a filled amount is logged as both amounts here.
EventDecimals ==
  LET makerGets == IF takerSide = "sell" THEN decimals.base ELSE decimals.quote
      takerGets == IF takerSide = "sell" THEN decimals.quote ELSE decimals.base
  IN  [Price |-> PriceDecimal, Amount |-> decimals.base, TradeAmount |-> decimals.base,
       MakerFee |-> makerGets, TakerFee |-> takerGets]

\* Writing pads as reading does, and panics for the same reason.
Writable(v, decimal) ==
  LET dot == v % Pow[decimal] IN
    dot # 0 => decimal - Len(FormatUint[dot]) <= ZeroLen
-----------------------------------------------------------------------------
Zero == <<<<0>>>>
Size(number) == Len(number) - 1 + Len(FlattenSeq(number))

Blank == [field \in Fields |-> Zero]

\* Bound: a form is filled in once, and one field of it is not zero.
Numbers ==
  LET parts(n) == UNION {[1..k -> Chars] : k \in 0..n}
      of(dots) == [1..(dots + 1) -> parts(MaxText - dots)]
  IN  {number \in UNION {of(dots) : dots \in 0..2} : Size(number) <= MaxText}

CodecInit ==
  /\ form = Blank
  /\ takerSide \in {"buy", "sell"}
  /\ decimals \in TokenDecimals
  /\ parsed = Unread

Enter(field, number) ==
  /\ form = Blank /\ parsed = Unread
  /\ form' = [form EXCEPT ![field] = number]
  /\ UNCHANGED <<takerSide, decimals, parsed>>

Submit ==
  /\ parsed' = Parsed
  /\ UNCHANGED <<form, takerSide, decimals>>

Log ==
  /\ parsed.kind = "ok"
  /\ \A field \in Fields : Writable(parsed.units[field], EventDecimals[field])
  /\ form' = [field \in Fields |->
                Uint64ToDecimal(parsed.units[field], EventDecimals[field])]
  /\ UNCHANGED <<takerSide, decimals, parsed>>

CodecNext ==
  \/ \E field \in Fields, number \in Numbers : Enter(field, number)
  \/ Submit
  \/ Log

CodecSpec == CodecInit /\ [][CodecNext]_codecVars
-----------------------------------------------------------------------------
Places(number) == IF Len(number) = 2 THEN Len(number[2]) ELSE 0

\* Digits with at most one dot.
Proper(number) ==
  /\ Len(number) <= 2
  /\ FlattenSeq(number) # <<>>
  /\ Radix \notin Range(FlattenSeq(number))

(* A price, amount or fee the contract accepts, and one it logs, says      *)
(* exactly the units it counts: no padding is lost or added on the way in  *)
(* or out (util.go).                                                       *)
ReadsExactly ==
  parsed.kind = "ok" => \A field \in Fields :
    Len(form[field]) <= 2 =>
      parsed.units[field] * Pow[Places(form[field])]
        = Digits(FlattenSeq(form[field])) * Pow[ReadWith(field)]

(* A form is only refused for a number that is malformed, too fine for its *)
(* token or too large, and reading it only panics when a token has more    *)
(* decimals than the padding constant has zeros (util.go).                 *)
ProperFormsAccepted ==
  /\ \A field \in Fields :
       /\ Proper(form[field])
       /\ Places(form[field]) <= ReadWith(field)
       /\ Digits(FlattenSeq(form[field])) * Pow[ReadWith(field) - Places(form[field])]
            <= MaxUint64
       /\ ReadWith(field) <= ZeroLen
  => parsed.kind \in {"unread", "ok"}

(* Submitting a form again, as it was or as its trade's event tells it,    *)
(* gives the same numbers: evtlog.go and types.go agree on the decimals of *)
(* every field.  Beyond the zeros of the padding constant a number may be  *)
(* read once and not again, as "1.0" and "1" need different padding.       *)
LoggedReadsBack ==
  [][parsed.kind = "ok" /\ Submit =>
       \/ parsed' = parsed
       \/ \E field \in Fields : ReadWith(field) > ZeroLen]_codecVars

(* "limit price, up to 8 decimal places [...] more than 8 decimal places   *)
(* will be rejected" (README.md:171): no accepted price has more           *)
(* characters after its point.                                             *)
TooFineRefused ==
  parsed.kind = "ok" =>
    Len(FlattenSeq(Tail(form["Price"]))) <= PriceDecimal
=============================================================================
