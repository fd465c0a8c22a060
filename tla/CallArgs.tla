------------------------------- MODULE CallArgs -------------------------------
(***************************************************************************)
(* The arguments of a call on their way: a client serializes them, what    *)
(* arrives may be shorter or longer, the handler reads its own type.       *)
(***************************************************************************)
EXTENDS WireFormats

CONSTANT Tails    \* bytes that may follow a call's arguments

ASSUME TailsAssumption == Tails \subseteq Seq(Nat)

VARIABLES
  call,       \* [type, args]: what the client sends
  wire,       \* the bytes that arrive
  got         \* what the handler read

callVars == <<call, wire, got>>

Out == [TradeArgs |-> TradeArgsOut, CancelOrderArgs |-> RawOrderDataOut,
        DWithdrawArgs |-> DWithdrawArgsOut, DCancelArgs |-> DCancelArgsOut,
        SetterArgs |-> SetterArgsOut, CommitWithdrawArgs |-> CommitWithdrawArgsOut,
        ListAssetArgs |-> ListAssetArgsOut, AnchorArgs |-> AnchorArgsOut,
        AssetFee |-> AssetFeeOut, LinkMarketArgs |-> LinkMarketArgsOut]
In == [TradeArgs |-> TradeArgsIn, CancelOrderArgs |-> RawOrderDataIn,
       DWithdrawArgs |-> DWithdrawArgsIn, DCancelArgs |-> DCancelArgsIn,
       SetterArgs |-> SetterArgsIn, CommitWithdrawArgs |-> CommitWithdrawArgsIn,
       ListAssetArgs |-> ListAssetArgsIn, AnchorArgs |-> AnchorArgsIn,
       AssetFee |-> AssetFeeIn, LinkMarketArgs |-> LinkMarketArgsIn]

Types == DOMAIN Out
Nothing == [ok |-> FALSE]

Plain(format) ==
  [name \in {field.name : field \in Range(format)} |->
     LET field == CHOOSE f \in Range(format) : f.name = name
     IN  CHOOSE value \in Values[field.kind] : TRUE]

\* Bound: one field at a time differs from the plain ones of its kind.
ArgsOf(format) ==
  UNION {{[Plain(format) EXCEPT ![field.name] = value] : value \in Values[field.kind]} :
           field \in Range(format)}
-----------------------------------------------------------------------------
Message(c) == Serialize(Out[c.type], c.args)

CallInit ==
  /\ \E type \in Types : \E args \in ArgsOf(Out[type]) : call = [type |-> type, args |-> args]
  /\ wire = Message(call)
  /\ got = Nothing

Cut ==
  /\ wire # <<>>
  /\ wire' = Front(wire)
  /\ got' = Nothing
  /\ UNCHANGED call

Extend(tail) ==
  /\ wire = Message(call)
  /\ wire' = wire \o tail
  /\ got' = Nothing
  /\ UNCHANGED call

Receive ==
  /\ got = Nothing
  /\ got' = Deserialize(In[call.type], wire)
  /\ UNCHANGED <<call, wire>>

CallNext ==
  \/ Cut
  \/ \E tail \in Tails : Extend(tail)
  \/ Receive

CallSpec == CallInit /\ [][CallNext]_callVars
-----------------------------------------------------------------------------
Whole == IsPrefix(Message(call), wire)

(* A handler reads exactly what the client wrote, or refuses: arguments    *)
(* cut short never pass for shorter ones, and bytes after the last field   *)
(* are not read (types.go).                                                *)
ReadAsWritten ==
  /\ got.ok => Whole /\ got.args = call.args
  /\ got # Nothing /\ Whole => got.ok
=============================================================================
