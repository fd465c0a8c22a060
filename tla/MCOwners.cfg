CONSTANTS
  base = base
  quote = quote
  dex = dex
  alice = alice
  cold = cold
  relay = relay
  Accounts = {dex, alice, cold, relay}
  Assets = {base, quote}
  DexCtrAccount = dex
  GovernanceCtrAccount = dex
  StakingCtrAccount = staking
  NameServiceCtrAccount = names
  PrimeUsers = {}
  Precision <- Unit
  ChainID = 1
  MaxUint64 = 4
  MaxUint32 = 7
  Division = 2
  FeeBase = 2
  PercentBase = 2
  Operator = relay
  Signers = {relay, alice}
  InitialWallet <- OneAndFour
  ParamValues <- NoFeeWaitOne
  Horizon = 2
  MostPending = 2
  LastPrepare = 1
  Rounds = {0}
  CancelNumbers = {1}
  Orders <- Ordered
  OrderSigs <- OrderedSigs
  Requests <- ColdRequests
  WithdrawSigs <- ColdSigs
SPECIFICATION FundedSpec
INVARIANTS DexTypeOK Solvent LostAsSigned ExitOpen
PROPERTIES PreparedIsPaid
