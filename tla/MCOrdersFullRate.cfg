CONSTANTS
  base = base
  quote = quote
  dex = dex
  gov = gov
  alice = alice
  bob = bob
  relay = relay
  Accounts = {dex, gov, alice, bob, relay}
  Assets = {base, quote}
  DexCtrAccount = dex
  GovernanceCtrAccount = gov
  StakingCtrAccount = staking
  NameServiceCtrAccount = names
  PrimeUsers = {bob}
  Precision <- Unit
  ChainID = 1
  MaxUint64 = 5
  MaxUint32 = 3
  Division = 2
  FeeBase = 2
  PercentBase = 2
  Operator = operator
  Signers = {relay, alice}
  InitialWallet <- ThreeAndFive
  ParamValues <- HalfAndHalf
  Horizon = 1
  Rounds = {0}
  CancelNumbers = {1, 2}
  Orders <- DearOrders
  OrderSigs <- DearSigs
SPECIFICATION FundedSpec
PROPERTIES FeeWithinReceipt
