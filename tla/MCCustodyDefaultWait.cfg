CONSTANTS
  tok = tok
  dex = dex
  alice = alice
  cold = cold
  relay = relay
  Accounts = {dex, alice, relay}
  Assets = {tok}
  DexCtrAccount = dex
  GovernanceCtrAccount = dex
  StakingCtrAccount = staking
  NameServiceCtrAccount = names
  Operator = relay
  Signers = {alice, relay}
  InitialWallet <- OneToken
  ParamValues <- DefaultWait
  MaxUint64 = 1
  MaxUint32 = 127
  Horizon = 10
  Requests <- NoRequests
  WithdrawSigs <- NoRequests
SPECIFICATION HistorySpec
PROPERTIES CommitAfterSixtySeconds
