CONSTANTS
  Radix = 2
  MaxUint64 = 11
  ZeroLen = 2
  PriceDecimal = 1
  TokenDecimals <- WithinZeros
  MaxText = 5
SPECIFICATION CodecSpec
INVARIANTS TooFineRefused
