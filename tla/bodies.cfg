SPECIFICATION HistorySpec
CONSTANTS
  UIntSize = 32
  IntSize = 256
  SizeTSize = 32
  TransferEncoding <- MCTransferEncoding
  ContentLength <- MCContentLength
  Chunked <- MCChunked
  MaxFirstTokenLength = 2
  MaxSecondTokenLength = 0
  MaxThirdTokenLength = 2
  HeaderNameLimits = {1}
  HeaderValueLimits = {2}
  HeadersAmountLimits = {2}
  Offered <- BodyTexts
  MaxPos = 33
  MaxSizeDigits = 3
INVARIANTS
  CompletedMessageIsItsText
  PositionIsPlaceInText
  BodyCountersExact
  CompletedFraming
PROPERTIES
  BodyCharsAreCounted
  PoisonedUntilReset
