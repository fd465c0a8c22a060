------------------------------- MODULE StateSet -------------------------------
(***************************************************************************)
(* The state set as the host keeps it: bytes under keys of bytes (util.go) *)
(* in which every record of the contract has its place.  The other modules *)
(* keep a function for each kind of record; this is why they may.          *)
(***************************************************************************)
EXTENDS WireFormats

CONSTANTS
  DexAddress,
  Users, Tokens,      \* accounts and assets, as address bytes
  Hashes,             \* order ids and request hashes, as bytes
  MaxRecords          \* bound: records kept at once

ASSUME AddressAssumption ==
  {DexAddress} \cup Users \cup Tokens \subseteq [1..AddressSize -> Nat]
ASSUME HashAssumption == Hashes \subseteq Seq(Nat)

VARIABLES
  store,      \* store[key]: a serialized record
  written     \* written[record]: what the contract last put there

storeVars == <<store, written>>

KeyPrefixBalance == 1
KeyPrefixCurrentRound == 2
KeyPrefixPrepareWithdraw == 3
KeyPrefixSpProfit == 4
KeyPrefixDWithdraw == 6
KeyPrefixRelay == 10
KeyPrefixOrder == 11
\* Slip: the two flags an account may have share a prefix.
KeyPrefixDCancelOrderSlip == 10
KeyPrefixDCancelOrder == 12
-----------------------------------------------------------------------------
(* util.go: the keys.                                                      *)

GetPrefixKey(prefix) == Append(DexAddress, prefix)
GetBalanceKey(address, token) == GetPrefixKey(KeyPrefixBalance) \o address \o token
GetPreparedWithdrawKey(address, token) ==
  GetPrefixKey(KeyPrefixPrepareWithdraw) \o address \o token
GetAccountKey(prefix, user) == GetPrefixKey(prefix) \o user
\* Slip: the hash is filed without a prefix of its own.
GetDWithdrawKeySlip(hash) == DexAddress \o hash
GetDWithdrawKey(hash) == GetPrefixKey(KeyPrefixDWithdraw) \o hash
GetOrderIdKey(orderId) == GetPrefixKey(KeyPrefixOrder) \o orderId
GetCurrentRoundKey == GetPrefixKey(KeyPrefixCurrentRound)
GetSpProfitKey(asset) == GetPrefixKey(KeyPrefixSpProfit) \o asset

Record(kind, of) == [kind |-> kind, of |-> of]
Records ==
  [kind : {"round"}, of : {<<>>}]
  \cup [kind : {"balance", "prepared"}, of : Users \X Tokens]
  \cup [kind : {"profit"}, of : {<<token>> : token \in Tokens}]
  \cup [kind : {"relay", "cancelNumber"}, of : {<<user>> : user \in Users}]
  \cup [kind : {"withdrawn", "order"}, of : {<<hash>> : hash \in Hashes}]

KeyOf(record) ==
  LET of == record.of IN
    CASE record.kind = "balance" -> GetBalanceKey(of[1], of[2])
      [] record.kind = "prepared" -> GetPreparedWithdrawKey(of[1], of[2])
      [] record.kind = "round" -> GetCurrentRoundKey
      [] record.kind = "profit" -> GetSpProfitKey(of[1])
      [] record.kind = "withdrawn" -> GetDWithdrawKey(of[1])
      [] record.kind = "relay" -> GetAccountKey(KeyPrefixRelay, of[1])
      [] record.kind = "cancelNumber" -> GetAccountKey(KeyPrefixDCancelOrder, of[1])
      [] record.kind = "order" -> GetOrderIdKey(of[1])

Stored == [balance |-> Uint64State, prepared |-> PrepareWithdrawStateOut,
           round |-> Uint64State, profit |-> SpProfitOut, withdrawn |-> BoolState,
           relay |-> BoolState, cancelNumber |-> Uint64State, order |-> OrderStateOut]
Loaded == [balance |-> Uint64State, prepared |-> PrepareWithdrawStateIn,
           round |-> Uint64State, profit |-> SpProfitIn, withdrawn |-> BoolState,
           relay |-> BoolState, cancelNumber |-> Uint64State, order |-> OrderStateIn]

\* Slip: the history of a profit record is not counted.
DataSizeSlip ==
  [prepared |-> Uint32Size + Uint64Size,
   profit |-> Uint32Size + Uint64Size,
   order |-> AddressSize + Uint64Size + 1]
\* What the host is told a record takes.
DataSize ==
  [prepared |-> Uint32Size + Uint64Size,
   profit |-> Uint32Size + Uint64Size + Uint64Size,
   order |-> AddressSize + Uint64Size + 1]
-----------------------------------------------------------------------------
ValuesOf(kind) ==
  LET fields == Range(Stored[kind])
      all == UNION {Values[field.kind] : field \in fields}
  IN  {value \in [{field.name : field \in fields} -> all] :
         \A field \in fields : value[field.name] \in Values[field.kind]}

StoreInit == store = <<>> /\ written = <<>>

Put(record, value) ==
  /\ Cardinality(DOMAIN written \cup {record}) <= MaxRecords
  /\ store' = With(store, KeyOf(record), Serialize(Stored[record.kind], value))
  /\ written' = With(written, record, value)

\* A prepared withdrawal, a relay or a claimed profit record.
Delete(record) ==
  /\ record.kind \in {"prepared", "relay", "profit"}
  /\ record \in DOMAIN written
  /\ store' = [key \in DOMAIN store \ {KeyOf(record)} |-> store[key]]
  /\ written' = [other \in DOMAIN written \ {record} |-> written[other]]

StoreNext ==
  \E record \in Records :
    \/ \E value \in ValuesOf(record.kind) : Put(record, value)
    \/ Delete(record)

StoreSpec == StoreInit /\ [][StoreNext]_storeVars
-----------------------------------------------------------------------------
Get(record) ==
  LET key == KeyOf(record) IN
    IF key \in DOMAIN store
    THEN Deserialize(Loaded[record.kind], store[key])
    ELSE [ok |-> FALSE]

\* management.go: the keys under the prefix, cut back to addresses.
Relays ==
  LET prefixKey == GetPrefixKey(KeyPrefixRelay)
      pp(key) == SubSeq(key, Len(prefixKey) + 1, Len(key))
  IN  {pp(key) : key \in {found \in DOMAIN store : IsPrefix(prefixKey, found)}}

(* Every record reads back as the contract last wrote it, whatever was     *)
(* written to others in between: no two share a key, and each is read in   *)
(* the order it was written (util.go, state_object.go, engine/types.go).   *)
RecordsApart ==
  \A record \in Records :
    IF record \in DOMAIN written
    THEN Get(record) = [ok |-> TRUE, args |-> written[record]]
    ELSE ~ Get(record).ok

(* The scan for relays finds the accounts that have a relay record and     *)
(* nothing else (management.go).                                           *)
RelaysListed ==
  Relays = {user \in Users : Record("relay", <<user>>) \in DOMAIN written}

(* A record of the contract's own types takes the bytes its DataSize says  *)
(* (state_object.go, engine/types.go).                                     *)
SizesHold ==
  \A record \in DOMAIN written :
    record.kind \in DOMAIN DataSize => Len(store[KeyOf(record)]) = DataSize[record.kind]
=============================================================================
