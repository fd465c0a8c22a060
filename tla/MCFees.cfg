CONSTANTS
  base = base
  quote = quote
  dex = dex
  gov = gov
  alice = alice
  bob = bob
  relay = relay
  Accounts = {dex, gov, alice, bob, relay}
  Assets = {base, quote}
  DexCtrAccount = dex
  GovernanceCtrAccount = gov
  StakingCtrAccount = staking
  NameServiceCtrAccount = names
  PrimeUsers = {bob}
  Precision <- Unit
  ChainID = 1
  MaxUint64 = 4
  MaxUint32 = 3
  Division = 2
  FeeBase = 2
  PercentBase = 2
  Operator = operator
  Signers = {relay, gov}
  InitialWallet <- ThreeAndFour
  ParamValues <- AllAndAll
  Horizon = 0
  Rounds = {0, 1, 2}
  CancelNumbers = {}
  Orders <- FeeOrders
  OrderSigs <- FeeSigs
SPECIFICATION FundedSpec
INVARIANTS ProfitBacked FeesAccounted OnlyPastFeesClaimable
