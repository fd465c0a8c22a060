----------------------------- MODULE WireFormats -----------------------------
(***************************************************************************)
(* How arguments and records become bytes and are read again: for every    *)
(* type the fields in the order its Serialize writes them (...Out) and in  *)
(* the order its Deserialize reads them (...In).  A field's value is the   *)
(* bytes it is made of; integers, booleans and accounts have a fixed       *)
(* width, strings and signatures are preceded by their length.             *)
(***************************************************************************)
EXTENDS Integers, SequencesExt

CONSTANTS
  Uint32Size, Uint64Size, AddressSize,    \* 4, 8 and 20 bytes in the code
  Values      \* Values[kind]: the values a field may have, as bytes

ASSUME SizeAssumption == {Uint32Size, Uint64Size, AddressSize} \subseteq Nat \ {0}

Field(name, kind) == [name |-> <<name>>, kind |-> kind]
uint32(name) == Field(name, "uint32")
uint64(name) == Field(name, "uint64")
bool(name) == Field(name, "bool")
string(name) == Field(name, "string")
account(name) == Field(name, "account")
Sig == Field("Sig", "signature")

\* The fields of a type that is itself a field.
Within(name, format) ==
  [i \in DOMAIN format |-> [format[i] EXCEPT !.name = <<name>> \o @]]

Width == [uint32 |-> Uint32Size, uint64 |-> Uint64Size, bool |-> 1,
          account |-> AddressSize]
HasWidth(field) == field.kind \in DOMAIN Width

Kinds == DOMAIN Width \cup {"string", "signature"}

\* Every kind has values, those with a width as wide.
ASSUME ValuesAssumption ==
  /\ DOMAIN Values = Kinds
  /\ \A kind \in Kinds : Values[kind] # {} /\ Values[kind] \subseteq Seq(Nat)
  /\ \A kind \in DOMAIN Width : \A value \in Values[kind] : Len(value) = Width[kind]

Written(field, value) == IF HasWidth(field) THEN value ELSE <<Len(value)>> \o value

Serialize(format, args) ==
  FlattenSeq([i \in DOMAIN format |-> Written(format[i], args[format[i].name])])

\* f with a value for x, new or instead of the one it had.
With(f, x, value) == [y \in DOMAIN f \cup {x} |-> IF y = x THEN value ELSE f[y]]

\* A read of more than is left fails, and nothing is read after it.
ReadField(state, field) ==
  LET skip == IF HasWidth(field) THEN 0 ELSE 1
      size == IF HasWidth(field) THEN Width[field.kind]
              ELSE IF state.rest = <<>> THEN 0 ELSE Head(state.rest)
      value == SubSeq(state.rest, skip + 1, skip + size)
  IN  IF state.ok /\ Len(state.rest) >= skip + size
      THEN [ok   |-> TRUE,
            args |-> With(state.args, field.name, value),
            rest |-> SubSeq(state.rest, skip + size + 1, Len(state.rest))]
      ELSE [state EXCEPT !.ok = FALSE]

Deserialize(format, bytes) ==
  LET read == FoldLeft(ReadField, [ok |-> TRUE, args |-> <<>>, rest |-> bytes], format)
  IN  [ok |-> read.ok, args |-> read.args]
-----------------------------------------------------------------------------
(* Arguments (facade/types.go).                                            *)

RawOrderDataOut ==
  <<uint32("ChainId"), account("User"), string("Pair"), string("Side"),
    string("Price"), string("Amount"), account("Channel"), uint32("MakerFeeRate"),
    uint32("TakerFeeRate"), uint32("Expire"), uint64("Salt")>>
RawOrderDataIn ==
  <<uint32("ChainId"), account("User"), string("Pair"), string("Side"),
    string("Price"), string("Amount"), account("Channel"), uint32("MakerFeeRate"),
    uint32("TakerFeeRate"), uint32("Expire"), uint64("Salt")>>

OrderDataOut == Append(RawOrderDataOut, Sig)
OrderDataIn == Append(RawOrderDataIn, Sig)

RelayArgsOut ==
  <<account("From"), string("TradeAmount"), string("MakerFee"), string("TakerFee")>>
\* Slip: the fees are read in the other order.
RelayArgsInSlip ==
  <<account("From"), string("TradeAmount"), string("TakerFee"), string("MakerFee")>>
RelayArgsIn ==
  <<account("From"), string("TradeAmount"), string("MakerFee"), string("TakerFee")>>

TradeArgsOut ==
  Within("Maker", OrderDataOut) \o Within("Taker", OrderDataOut) \o Within("Relay", RelayArgsOut)
TradeArgsIn ==
  Within("Maker", OrderDataIn) \o Within("Taker", OrderDataIn) \o Within("Relay", RelayArgsIn)

DWithdrawArgsOut ==
  <<account("Asset"), account("From"), account("To"), uint64("Amount"), uint64("Fee"),
    uint64("Salt"), string("Extra"), Sig, account("Relay")>>
DWithdrawArgsIn ==
  <<account("Asset"), account("From"), account("To"), uint64("Amount"), uint64("Fee"),
    uint64("Salt"), string("Extra"), Sig, account("Relay")>>

DCancelArgsOut == <<account("From"), account("User"), uint64("Number")>>
DCancelArgsIn == <<account("From"), account("User"), uint64("Number")>>

SetterArgsOut == <<account("From"), account("Target"), bool("Value")>>
SetterArgsIn == <<account("From"), account("Target"), bool("Value")>>

CommitWithdrawArgsOut == <<account("From"), account("Asset")>>
CommitWithdrawArgsIn == <<account("From"), account("Asset")>>

\* Types no method of Invoke reads.
ListAssetArgsOut == <<account("From"), account("Base"), account("Quote")>>
ListAssetArgsIn == <<account("From"), account("Base"), account("Quote")>>

AnchorArgsOut == <<account("From"), account("Asset")>>
AnchorArgsIn == <<account("From"), account("Asset")>>

AssetFeeOut == <<account("Asset"), uint64("Amount")>>
AssetFeeIn == <<account("Asset"), uint64("Amount")>>

LinkMarketArgsOut ==
  <<account("From"), account("Asset"), account("Target"), bool("Value")>>
LinkMarketArgsIn ==
  <<account("From"), account("Asset"), account("Target"), bool("Value")>>
-----------------------------------------------------------------------------
(* Records (state_object.go, engine/types.go); the host's own.             *)

PrepareWithdrawStateOut == <<uint32("Time"), uint64("Amount")>>
PrepareWithdrawStateIn == <<uint32("Time"), uint64("Amount")>>

SpProfitOut == <<uint32("LatestRound"), uint64("LatestProfit"), uint64("HistoryProfit")>>
SpProfitIn == <<uint32("LatestRound"), uint64("LatestProfit"), uint64("HistoryProfit")>>

OrderStateOut == <<account("User"), uint64("Filled"), bool("Canceled")>>
OrderStateIn == <<account("User"), uint64("Filled"), bool("Canceled")>>

Uint64State == <<uint64("Value")>>
BoolState == <<bool("Value")>>
=============================================================================
