----------------------------- MODULE Governance -----------------------------
(***************************************************************************)
(* The share of trading fees set aside for the governance contract         *)
(* (helper.go AccountForGovernance, management.go EpochEnd and             *)
(* ClaimSpProfit): fees of the current round stay until the round ends,    *)
(* fees of earlier rounds may be claimed.                                  *)
(***************************************************************************)
EXTENDS DexLedger

CONSTANT Rounds     \* the rounds the governance contract announces

ASSUME RoundsAssumption == 0 \in Rounds /\ Rounds \subseteq Uint32

VARIABLES
  currentRound,   \* set by EpochEnd; absent is 0
  spProfit        \* spProfit[asset]: fees set aside and not yet claimed

governanceVars == <<currentRound, spProfit>>

SpProfit == [LatestRound : Uint32, LatestProfit : Uint64, HistoryProfit : Uint64]
NoProfit == [LatestRound |-> 0, LatestProfit |-> 0, HistoryProfit |-> 0]

RoundsInit ==
  /\ currentRound = 0
  /\ spProfit = [asset \in Assets |-> NoProfit]

WrapUint64(n) == n % (MaxUint64 + 1)

\* Slip: a fee of a new round replaces the last round's, which is lost.
AccrueSlip(sp, amount) ==
  IF sp.LatestRound = currentRound
  THEN [sp EXCEPT !.LatestProfit = WrapUint64(@ + amount)]
  ELSE [sp EXCEPT !.LatestProfit = amount, !.LatestRound = currentRound]
\* The record's part of AccountForGovernance, which runs for fees above zero.
Accrue(sp, amount) ==
  IF amount = 0 THEN sp
  ELSE IF sp.LatestRound = currentRound
  THEN [sp EXCEPT !.LatestProfit = WrapUint64(@ + amount)]
  ELSE [LatestRound   |-> currentRound,
        LatestProfit  |-> amount,
        HistoryProfit |-> WrapUint64(sp.HistoryProfit + sp.LatestProfit)]

EpochEnd(round) ==
  /\ GovernanceCtrAccount \in Signers
  /\ currentRound' = round
  /\ UNCHANGED <<ledgerVars, spProfit>>

\* Slip: the current round's fees are claimable as well.
ClaimableSlip(sp) == WrapUint64(sp.HistoryProfit + sp.LatestProfit)
Claimable(sp) ==
  IF sp.LatestRound = currentRound
  THEN sp.HistoryProfit
  ELSE WrapUint64(sp.HistoryProfit + sp.LatestProfit)

\* Slip: only the history is cleared, not the round that just joined it.
AfterClaimSlip(sp) == [sp EXCEPT !.HistoryProfit = 0]
AfterClaim(sp) ==
  IF sp.LatestRound = currentRound
  THEN [sp EXCEPT !.HistoryProfit = 0]
  ELSE [NoProfit EXCEPT !.LatestRound = currentRound]

\* A record left without profit is deleted; a claim of nothing writes nothing.
Stored(sp) == IF WrapUint64(sp.HistoryProfit + sp.LatestProfit) = 0 THEN NoProfit ELSE sp

ClaimSpProfit(asset) ==
  LET sp == spProfit[asset]
  IN  /\ GovernanceCtrAccount \in Signers
      /\ Claimable(sp) # 0
      /\ DoWithdraw(asset, GovernanceCtrAccount, GovernanceCtrAccount, Claimable(sp))
      /\ spProfit' = [spProfit EXCEPT ![asset] = Stored(AfterClaim(sp))]
      /\ UNCHANGED <<contextVars, currentRound>>

GovernanceStep ==
  \/ \E round \in Rounds : EpochEnd(round)
  \/ \E asset \in Assets : ClaimSpProfit(asset)

RoundsTypeOK ==
  /\ currentRound \in Rounds
  /\ spProfit \in [Assets -> SpProfit]

(* What is set aside is in the governance account's balance, so a claim    *)
(* never fails for want of it.  It holds as long as the governance         *)
(* contract takes fees out through ClaimSpProfit only.                     *)
ProfitBacked ==
  \A asset \in Assets :
    spProfit[asset].LatestProfit + spProfit[asset].HistoryProfit
      <= balance[asset][GovernanceCtrAccount]
=============================================================================
