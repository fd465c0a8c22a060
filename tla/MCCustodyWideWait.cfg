CONSTANTS
  tok = tok
  dex = dex
  alice = alice
  cold = cold
  relay = relay
  Accounts = {dex, alice, relay}
  Assets = {tok}
  DexCtrAccount = dex
  GovernanceCtrAccount = dex
  StakingCtrAccount = staking
  NameServiceCtrAccount = names
  Operator = relay
  Signers = {alice, relay}
  InitialWallet <- OneToken
  ParamValues <- WaitFive
  MaxUint64 = 1
  MaxUint32 = 7
  Horizon = 4
  Requests <- NoRequests
  WithdrawSigs <- NoRequests
SPECIFICATION HistorySpec
PROPERTIES MatureCommit
