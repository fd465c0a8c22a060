CONSTANTS
  Uint32Size = 1
  Uint64Size = 2
  AddressSize = 1
  Values <- FieldValues
  Tails <- OneByte
  DexAddress <- Dex
  Users <- TwoUsers
  Tokens <- TwoTokens
  Hashes <- TwoHashes
  MaxRecords = 3
  Numerals <- OneAndEleven
  Amounts <- OneAndTenth
  AnyAmounts <- TwoPoints
  Names <- TwoNames
  Pairs <- OnePair
  Extras <- Imitations
  Radix = 2
  MaxUint64 = 11
  ZeroLen = 2
  PriceDecimal = 2
  TokenDecimals <- UpToThree
  MaxText = 4
SPECIFICATION EncodingSpec
INVARIANTS ReadAsWritten RecordsApart RelaysListed SizesHold AcceptedAsSigned ReadsExactly ProperFormsAccepted
PROPERTIES LoggedReadsBack
CHECK_DEADLOCK FALSE
