----------------------------- MODULE Settlement -----------------------------
(***************************************************************************)
(* A trade taken write by write (verify.go, dex.go settle, helper.go): the *)
(* handler reads and writes a working copy of the state set, creates order *)
(* records on reading them, writes the fills first and then the bookings,  *)
(* and may fail at any of them.  The host publishes the copy when the      *)
(* handler returns without an error and drops it otherwise.                *)
(*                                                                         *)
(* Trading makes all of this one step; here is why it may.                 *)
(***************************************************************************)
EXTENDS Trading

VARIABLES
  stored,   \* orders with a record in the state set
  owned,    \* those whose record names the order's user
  txn       \* the trade being executed: its working copy and what is left to write

recordVars == <<stored, owned>>
settlementVars == <<tradingSpecVars, recordVars, txn>>

Idle == [stage |-> "idle"]

SettlementInit ==
  /\ stored = {}
  /\ owned = {}
  /\ txn = Idle

Published ==
  [book |-> balance, profit |-> spProfit, stored |-> stored, owned |-> owned,
   filled |-> [order \in Orders |-> orderState[order].Filled]]
-----------------------------------------------------------------------------
(* The writes of a settlement, in the code's order.                        *)

Fill(order, filled) == [kind |-> "fill", order |-> order, filled |-> filled]
Move(entry) == [kind |-> "move", entry |-> entry]
SetAside(entry) == [kind |-> "aside", entry |-> entry]

\* Fees of zero are skipped.
IfDue(entry, write) == IF entry.amount > 0 THEN <<write>> ELSE <<>>

\* The fills come from the orders as they were read.
Writes(maker, taker, amount, copy) ==
  LET clear == countFee(maker, taker, amount)
      sides == SideBookings(maker, taker, clear)
      fees == FeeBookings(maker, taker, clear)
  IN  <<Fill(maker, copy.filled[maker] + amount), Fill(taker, copy.filled[taker] + amount),
        Move(sides[1]), Move(sides[2]), Move(sides[3]), Move(sides[4])>>
        \o IfDue(fees[1], Move(fees[1])) \o IfDue(fees[2], Move(fees[2]))
        \o IfDue(fees[3], SetAside(fees[3])) \o IfDue(fees[4], SetAside(fees[4]))

\* Slip: the error of a debit is not returned.
WriteOKSlip(copy, write) ==
  write.kind # "fill" => write.entry.sign = -1 \/ BookOK(copy.book, write.entry)
WriteOK(copy, write) == write.kind # "fill" => BookOK(copy.book, write.entry)

\* Slip: the record created on reading the order is not given its user.
FilledSlip(copy, write) == [copy EXCEPT !.filled[write.order] = write.filled]
Filled(copy, write) ==
  [copy EXCEPT !.filled[write.order] = write.filled,
               !.owned = @ \cup {write.order}]

Written(copy, write) ==
  CASE write.kind = "fill" -> Filled(copy, write)
    [] write.kind = "move" -> [copy EXCEPT !.book = Book(@, write.entry)]
    [] write.kind = "aside" ->
         [copy EXCEPT !.book = Book(@, write.entry),
                      !.profit[write.entry.asset] = Accrue(@, write.entry.amount)]
-----------------------------------------------------------------------------
(* Nothing else runs between these steps.                                  *)

Submit(maker, taker, relay, amount) ==
  /\ txn = Idle
  /\ relay \in Signers
  /\ isRelay(relay)
  /\ txn' = [stage |-> "verify", copy |-> Published,
             maker |-> maker, taker |-> taker, amount |-> amount]
  /\ UNCHANGED <<tradingSpecVars, recordVars>>

\* Reading an order that has no record adds one, without a user.
CheckOrders ==
  /\ txn.stage = "verify"
  /\ verify(txn.maker, txn.taker)
  /\ MatchOrder(txn.maker, txn.taker, txn.amount)
  /\ txn' = [stage |-> "settle",
             copy |-> [txn.copy EXCEPT !.stored = @ \cup {txn.maker, txn.taker}],
             left |-> Writes(txn.maker, txn.taker, txn.amount, txn.copy)]
  /\ UNCHANGED <<tradingSpecVars, recordVars>>

Write ==
  /\ txn.stage = "settle"
  /\ txn.left # <<>>
  /\ WriteOK(txn.copy, Head(txn.left))
  /\ txn' = [txn EXCEPT !.copy = Written(@, Head(txn.left)), !.left = Tail(@)]
  /\ UNCHANGED <<tradingSpecVars, recordVars>>

\* The handler fails, or the host gives it up.
Abort ==
  /\ txn # Idle
  /\ txn' = Idle
  /\ UNCHANGED <<tradingSpecVars, recordVars>>

Commit ==
  /\ txn.stage = "settle"
  /\ txn.left = <<>>
  /\ balance' = txn.copy.book
  /\ spProfit' = txn.copy.profit
  /\ orderState' = [order \in Orders |->
                      [orderState[order] EXCEPT !.Filled = txn.copy.filled[order]]]
  /\ stored' = txn.copy.stored
  /\ owned' = txn.copy.owned
  /\ txn' = Idle
  /\ UNCHANGED <<wallet, contextVars, currentRound, cancelNumber>>

CancelRecorded(order) ==
  /\ CancelOrder(order)
  /\ stored' = stored \cup {order}
  /\ owned' = owned \cup {order}

OtherCall ==
  /\ txn = Idle
  /\ \/ \E order \in Orders : CancelRecorded(order)
     \/ /\ \/ LedgerNext /\ UNCHANGED <<governanceVars, orderVars>>
           \/ GovernanceStep /\ UNCHANGED orderVars
           \/ \E relay, user \in Accounts, number \in CancelNumbers :
                DelegateCancelOrder(relay, user, number)
        /\ UNCHANGED recordVars
  /\ UNCHANGED txn

SettlementNext ==
  \/ \E maker, taker \in Orders, relay \in Accounts, amount \in Uint64 :
       Submit(maker, taker, relay, amount)
  \/ CheckOrders
  \/ Write
  \/ Abort
  \/ Commit
  \/ OtherCall

SettlementSpec == TradingInit /\ SettlementInit /\ [][SettlementNext]_settlementVars
-----------------------------------------------------------------------------
(* What a settlement publishes is what Trade does in one step, or nothing: *)
(* a booking that fails half-way leaves no fill behind, testing each       *)
(* booking against the book so far is testing them all, and skipping fees  *)
(* of zero or accruing fees between the bookings makes no difference       *)
(* (dex.go settle, updateOrderState, updateBalance).                       *)
SettlesAsOneTrade == [][TradingNext]_tradingSpecVars

(* The records in the state set are those of orders that were traded or    *)
(* canceled, and each names its user: the empty records that reading an    *)
(* order creates, which could not even be serialized, never stay           *)
(* (types.go ToOrder, dex.go updateOrderState).                            *)
RecordsAreReal ==
  /\ stored = {order \in Orders : orderState[order].Filled > 0 \/ orderState[order].Canceled}
  /\ stored = owned
=============================================================================
