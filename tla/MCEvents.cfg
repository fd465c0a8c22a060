CONSTANTS
  base = base
  quote = quote
  dex = dex
  alice = alice
  cold = cold
  relay = relay
  Accounts = {dex, alice, cold, relay}
  Assets = {base, quote}
  DexCtrAccount = dex
  GovernanceCtrAccount = dex
  StakingCtrAccount = relay
  NameServiceCtrAccount = names
  PrimeUsers = {}
  Precision <- FineQuote
  ChainID = 1
  MaxUint64 = 2
  MaxUint32 = 3
  Division = 2
  FeeBase = 2
  PercentBase = 2
  Operator = relay
  Signers = {relay, alice}
  InitialWallet <- OneAndTwo
  ParamValues <- HalfFeeNoWait
  Horizon = 0
  OrderId <- Numbered
  MaxLag = 3
  MostPending = 1
  Rounds = {0}
  CancelNumbers = {1}
  Orders <- OrderedFine
  OrderSigs <- OrderedFineSigs
  Requests <- PaidRequests
  WithdrawSigs <- PaidSigs
SPECIFICATION FundedSpec
INVARIANTS EventsTellAll
