CONSTANTS
  btc = btc
  doge = doge
  None = None
  NotFinite = NotFinite
  Quantities <- SomeQuantities
  Repr <- BinaryRepr
  FloatDigits = 2
  Symbols = {btc, doge}
  AllowedSymbols = {btc}
  Limits <- SomeLimits
  Precision = 4
  Scale = 2
  ContextPrecision = 4
  MaxPlaces = 3
  MaxZeros = 6
SPECIFICATION QuantitySpec
CHECK_DEADLOCK FALSE
INVARIANTS
  QuantityTypeOK
  SentAsAsked
  OneRendering
  AcceptedFits
