CONSTANTS
  tok = tok
  dex = dex
  alice = alice
  cold = cold
  relay = relay
  Accounts = {dex, alice, cold, relay}
  Assets = {tok}
  DexCtrAccount = dex
  GovernanceCtrAccount = alice
  StakingCtrAccount = staking
  NameServiceCtrAccount = names
  Operator = relay
  Signers = {alice, relay}
  InitialWallet <- TwoTokens
  ParamValues <- WaitOneOrTwo
  MaxUint64 = 2
  MaxUint32 = 7
  Horizon = 3
  Requests <- Asked
  WithdrawSigs <- Signings
SPECIFICATION BoundedSpec
INVARIANTS CustodyTypeOK Solvent DebitedAsSigned
PROPERTIES KeepsPromise MatureCommit PayoutAsAsked
