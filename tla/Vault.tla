-------------------------------- MODULE Vault --------------------------------
(***************************************************************************)
(* What the DEX promises as a custodian, without saying to whom: for each  *)
(* asset it keeps `held` tokens against `owed`, it never pays out more     *)
(* than it strikes off the debt, and never takes on debt it was not paid   *)
(* for.                                                                    *)
(***************************************************************************)
EXTENDS Integers

CONSTANTS Assets, MaxUint64

VARIABLES owed, held

vaultVars == <<owed, held>>

Init ==
  /\ owed = [asset \in Assets |-> 0]
  /\ held \in [Assets -> Nat]

\* n tokens come in, against a debt or as a gift.
Receive(asset, n) ==
  /\ held' = [held EXCEPT ![asset] = @ + n]
  /\ owed' \in {owed, [owed EXCEPT ![asset] = @ + n]}

\* A debt of n is settled by paying n out, or forgiven.
Settle(asset, n) ==
  /\ n <= owed[asset]
  /\ owed' = [owed EXCEPT ![asset] = @ - n]
  /\ held' \in {held, [held EXCEPT ![asset] = @ - n]}

Next ==
  \E asset \in Assets, n \in 1..MaxUint64 : Receive(asset, n) \/ Settle(asset, n)

Spec == Init /\ [][Next]_vaultVars

Covered == \A asset \in Assets : 0 <= owed[asset] /\ owed[asset] <= held[asset]
=============================================================================
