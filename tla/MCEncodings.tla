----------------------------- MODULE MCEncodings -----------------------------
(***************************************************************************)
(* The contract's bytes and texts: calls, the state set, signed texts and  *)
(* decimals.  They share nothing, so each is explored while the others     *)
(* rest in one of their initial states.                                    *)
(***************************************************************************)
EXTENDS CallArgs, StateSet, SignedText, MCDecimals

encodingVars == <<callVars, storeVars, textVars, codecVars>>

\* Integers and addresses of one or two bytes, strings of up to two, hashes
\* of two; bytes that would be mistaken for prefixes if keys had none.
Dex == <<1>>
TwoUsers == {<<2>>, <<10>>}
TwoTokens == {<<3>>, <<10>>}
TwoHashes == {<<1, 2>>, <<10, 2>>}
FieldValues ==
  [uint32 |-> {<<1>>}, uint64 |-> {<<0, 1>>, <<1, 0>>}, bool |-> {<<0>>, <<1>>},
   account |-> {<<2>>}, string |-> {<<>>, <<1>>, <<2, 1>>},
   signature |-> {<<1, 0>>, <<0, 1>>}]
OneByte == {<<0>>, <<1>>}

\* Short numerals, and extra texts that imitate the labels around them.
OneAndEleven == {<<"1">>, <<"1", "1">>}
OneAndTenth == {<<"1">>, <<"1", ".", "1">>}
TwoNames == {<<"A">>, <<"B">>}
OnePair == {<<"A", "_", "B">>}
Ending == <<"&fee=", "1", "&from=", "A", "&salt=", "1", "&to=", "A">>
Imitations ==
  {<<>>, <<"1">>, <<"&fee=">>, <<"&fee=", "1">>, <<"1", "&fee=", "1">>, Ending,
   Ending \o Ending, <<"1">> \o Ending, Ending \o <<"1">>, <<"&extra=">>, Ending \o <<"&extra=">>}
PriceEnding ==
  <<"&chain_id=", "1", "&channel=", "A", "&expire=", "1", "&maker_fee_rate=", "1",
    "&pair=", "A", "_", "B", "&price=", "1">>
TwoPoints == {<<"1", ".", "1", ".">> \o PriceEnding, <<"1", ".", "1", ".", "&price=", "1">>}
-----------------------------------------------------------------------------
SomeCall == [type |-> "AnchorArgs", args |-> Plain(AnchorArgsOut)]
SomeThing == CHOOSE thing \in Things : TRUE
SomeDecimals == CHOOSE tokens \in TokenDecimals : TRUE

NoCall == call = SomeCall /\ wire = Message(SomeCall) /\ got = Nothing
NoText == signed = SomeThing /\ accepted = {}
NoForm == form = Blank /\ takerSide = "buy" /\ decimals = SomeDecimals /\ parsed = Unread

EncodingInit ==
  \/ CallInit /\ StoreInit /\ NoText /\ NoForm
  \/ NoCall /\ StoreInit /\ TextInit /\ NoForm
  \/ NoCall /\ StoreInit /\ NoText /\ CodecInit

EncodingNext ==
  \/ StoreInit /\ NoText /\ NoForm /\ CallNext /\ UNCHANGED <<storeVars, textVars, codecVars>>
  \/ NoCall /\ NoText /\ NoForm /\ StoreNext /\ UNCHANGED <<callVars, textVars, codecVars>>
  \/ NoCall /\ StoreInit /\ NoForm /\ TextNext /\ UNCHANGED <<callVars, storeVars, codecVars>>
  \/ NoCall /\ StoreInit /\ NoText /\ CodecNext /\ UNCHANGED <<callVars, storeVars, textVars>>

EncodingSpec == EncodingInit /\ [][EncodingNext]_encodingVars
=============================================================================
