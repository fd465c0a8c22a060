--------------------------- MODULE CustodyHistory ---------------------------
(***************************************************************************)
(* Custody with the memory its guarantees are about: what each owner asked *)
(* for and when, and what left the account of an owner who sends no        *)
(* transactions.  The history variables follow the code's actions and      *)
(* never influence them.                                                   *)
(***************************************************************************)
EXTENDS Custody

VARIABLES
  asked,      \* asked[asset][acc]: sum of the two-phase requests since the last commit
  askTimes,   \* askTimes[asset][acc]: when those requests were made
  debited     \* debited[asset][acc]: what accounts outside Signers have lost so far

historyVars == <<asked, askTimes, debited>>
historySpecVars == <<custodySpecVars, historyVars>>

HistoryInit ==
  /\ CustodyInit
  /\ asked = [asset \in Assets |-> [acc \in Accounts |-> 0]]
  /\ askTimes = [asset \in Assets |-> [acc \in Accounts |-> {}]]
  /\ debited = [asset \in Assets |-> [acc \in Accounts |-> 0]]

Asking(asset, from, amount) ==
  /\ PrepareWithdraw(asset, from, amount)
  /\ asked' = [asked EXCEPT ![asset][from] = @ + amount]
  /\ askTimes' = [askTimes EXCEPT ![asset][from] = @ \cup {timestamp}]

Paying(asset, from) ==
  /\ CommitWithdraw(asset, from)
  /\ asked' = [asked EXCEPT ![asset][from] = 0]
  /\ askTimes' = [askTimes EXCEPT ![asset][from] = {}]

Otherwise ==
  /\ \/ LedgerNext /\ UNCHANGED custodyVars
     \/ \E req \in Requests, relay \in Accounts : DelegateWithdraw(req, relay)
  /\ UNCHANGED <<asked, askTimes>>

HistoryNext ==
  /\ \/ \E asset \in Assets, from \in Accounts :
          \/ \E amount \in Uint64 : Asking(asset, from, amount)
          \/ Paying(asset, from)
     \/ Otherwise
  /\ debited' = [asset \in Assets |-> [acc \in Accounts |->
                   debited[asset][acc] + Loss(asset, acc)]]

HistorySpec == HistoryInit /\ [][HistoryNext]_historySpecVars
-----------------------------------------------------------------------------
(* Every request that a commit pays has waited the full apply time, not    *)
(* just the first or the last of those merged into one record (dex.go      *)
(* CommitWithdraw, helper.go DoApplyWithdraw).                             *)
MatureCommit ==
  [][\A asset \in Assets, from \in Accounts : Paying(asset, from) =>
       \A time \in askTimes[asset][from] :
         time + globalParams.WithdrawApplyWaitTime <= timestamp]_historySpecVars

(* README.md: commitWithdraw comes at least 60 seconds after               *)
(* prepareWithdraw.  The code waits for the withdrawApplyWaitTime          *)
(* parameter, and protocol.go registers 10 as its default.                 *)
SixtySeconds == 60
CommitAfterSixtySeconds ==
  [][\A asset \in Assets, from \in Accounts : Paying(asset, from) =>
       \A time \in askTimes[asset][from] :
         time + SixtySeconds <= timestamp]_historySpecVars

(* A commit pays no more than was asked for since the last commit, however *)
(* requests, partial payments and commits alternate (dex.go                *)
(* CommitWithdraw deletes the record before it pays).                      *)
PayoutAsAsked ==
  [][\A asset \in Assets, from \in Accounts : Paying(asset, from) =>
       wallet'[asset][from] - wallet[asset][from] <= asked[asset][from]]_historySpecVars

(* An owner who only ever signs requests loses at most the sum of the      *)
(* distinct requests signed: none is paid twice, by one relay or several,  *)
(* and nobody else's signature will do (dex.go DelegateWithdraw).          *)
DebitedAsSigned ==
  \A asset \in Assets, acc \in Accounts \ Signers :
    debited[asset][acc] <= SignedAway(acc, asset)
=============================================================================
