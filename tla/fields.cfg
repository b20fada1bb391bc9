SPECIFICATION HistorySpec
CONSTANTS
  UIntSize = 32
  IntSize = 256
  SizeTSize = 32
  TransferEncoding <- MCTransferEncoding
  ContentLength <- MCContentLength
  Chunked <- MCChunked
  MaxFirstTokenLength = 2
  MaxSecondTokenLength = 0
  MaxThirdTokenLength = 2
  HeaderNameLimits = {1}
  HeaderValueLimits = {3}
  HeadersAmountLimits = {2}
  Offered <- FieldTexts
  MaxPos = 22
  MaxSizeDigits = 4
INVARIANTS
  CompletedMessageIsItsText
  ContentBounded
  PositionConsistent
