------------------------------ MODULE SignedText ------------------------------
(***************************************************************************)
(* What an owner signs is a text: the fields of a withdrawal or an order   *)
(* between labels (types.go HashParams and OrderId), hashed.  Nothing is   *)
(* escaped, a withdrawal's extra field may hold any text, labels too, and  *)
(* one key signs both kinds.  The other modules take the request or the    *)
(* order itself for what was signed; this is why they may.                 *)
(*                                                                         *)
(* A text is a sequence of labels, digits and names; the hash is taken to  *)
(* be one to one.                                                          *)
(***************************************************************************)
EXTENDS Sequences, FiniteSets

CONSTANTS
  Numerals,   \* integers, as sequences of digits
  Amounts,    \* prices and amounts as an owner's client writes them
  AnyAmounts, \* and what a submitted order may hold instead: behind a second
              \* decimal point the contract reads nothing, so any text may stand there
  Names,      \* addresses, as sequences of one name
  Pairs,
  Extras      \* any texts

\* What stands between the fields.
Labels ==
  {"amount=", "&asset=", "&extra=", "&fee=", "&from=", "&salt=", "&to=",
   "&chain_id=", "&channel=", "&expire=", "&maker_fee_rate=", "&pair=", "&price=",
   "&side=", "&taker_fee_rate=", "&user="}

\* Of what an owner signs only the extra text may hold labels.
ASSUME TextAssumption ==
  /\ Numerals \cup Amounts \cup Names \cup Pairs \subseteq Seq(STRING \ Labels)
  /\ Extras \cup AnyAmounts \subseteq Seq(STRING)

DWithdrawArgs == [Amount : Numerals, Asset : Names, Extra : Extras, Fee : Numerals,
                  From : Names, Salt : Numerals, To : Names]
RawOrderData(amounts) ==
  [Amount : amounts, ChainId : Numerals, Channel : Names, Expire : Numerals,
   MakerFeeRate : Numerals, Pair : Pairs, Price : amounts, Salt : Numerals,
   Side : {<<"buy">>, <<"sell">>}, TakerFeeRate : Numerals, User : Names]
Withdrawals == [kind : {"withdrawal"}, data : DWithdrawArgs]
Things == Withdrawals \cup [kind : {"order"}, data : RawOrderData(Amounts)]
Submissions == Withdrawals \cup [kind : {"order"}, data : RawOrderData(Amounts \cup AnyAmounts)]

VARIABLES
  signed,     \* the withdrawal or order the owner signed
  accepted    \* those the contract took for signed by the owner

textVars == <<signed, accepted>>
-----------------------------------------------------------------------------
\* Slip: the fee is not labeled.
HashParamsSlip(arg) ==
  <<"amount=">> \o arg.Amount \o <<"&asset=">> \o arg.Asset \o <<"&extra=">> \o arg.Extra
    \o arg.Fee \o <<"&from=">> \o arg.From \o <<"&salt=">> \o arg.Salt
    \o <<"&to=">> \o arg.To
HashParams(arg) ==
  <<"amount=">> \o arg.Amount \o <<"&asset=">> \o arg.Asset \o <<"&extra=">> \o arg.Extra
    \o <<"&fee=">> \o arg.Fee \o <<"&from=">> \o arg.From \o <<"&salt=">> \o arg.Salt
    \o <<"&to=">> \o arg.To

OrderId(a) ==
  <<"amount=">> \o a.Amount \o <<"&chain_id=">> \o a.ChainId \o <<"&channel=">> \o a.Channel
    \o <<"&expire=">> \o a.Expire \o <<"&maker_fee_rate=">> \o a.MakerFeeRate
    \o <<"&pair=">> \o a.Pair \o <<"&price=">> \o a.Price \o <<"&salt=">> \o a.Salt
    \o <<"&side=">> \o a.Side \o <<"&taker_fee_rate=">> \o a.TakerFeeRate
    \o <<"&user=">> \o a.User

TextOf(thing) ==
  IF thing.kind = "withdrawal" THEN HashParams(thing.data) ELSE OrderId(thing.data)
-----------------------------------------------------------------------------
TextInit == signed \in Things /\ accepted = {}

VerifySig(text) == text = TextOf(signed)

Accept(thing) ==
  /\ VerifySig(TextOf(thing))
  /\ accepted' = accepted \cup {thing}
  /\ UNCHANGED signed

TextNext == \E thing \in Submissions : Accept(thing)
TextSpec == TextInit /\ [][TextNext]_textVars
-----------------------------------------------------------------------------
(* One signature, one meaning: nothing but the withdrawal or order itself  *)
(* is accepted for a signed one, however its extra text reads and whatever *)
(* a submitted order holds for numbers (types.go HashParams and OrderId,   *)
(* verify.go VerifySig).                                                   *)
AcceptedAsSigned == accepted \subseteq {signed}
=============================================================================
