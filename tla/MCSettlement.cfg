CONSTANTS
  base = base
  quote = quote
  dex = dex
  gov = gov
  alice = alice
  bob = bob
  relay = relay
  Accounts = {dex, gov, alice, bob, relay}
  Assets = {base, quote}
  DexCtrAccount = dex
  GovernanceCtrAccount = gov
  StakingCtrAccount = staking
  NameServiceCtrAccount = names
  PrimeUsers = {bob}
  Precision <- Unit
  ChainID = 1
  MaxUint64 = 3
  MaxUint32 = 3
  Division = 2
  FeeBase = 2
  PercentBase = 2
  Operator = relay
  Signers = {relay, gov, alice}
  InitialWallet <- RelayHasOneEach
  ParamValues <- MakerPaysAll
  Horizon = 0
  Rounds = {0, 1}
  CancelNumbers = {1}
  Orders <- PartOrders
  OrderSigs <- PartSigs
SPECIFICATION OpenSpec
INVARIANTS TradingTypeOK Solvent RecordsAreReal
PROPERTIES KeepsPromise SettlesAsOneTrade
