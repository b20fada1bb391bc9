SPECIFICATION Spec
CONSTANTS
  UIntSize = 32
  IntSize = 16
  SizeTSize = 32
  TransferEncoding <- MCTransferEncoding
  ContentLength <- MCContentLength
  Chunked <- MCChunked
  MaxFirstTokenLength = 2
  MaxSecondTokenLength = 0
  MaxThirdTokenLength = 2
  HeaderNameLimits = {0, 2}
  HeaderValueLimits = {2}
  HeadersAmountLimits = {1, 2}
  Offered <- HeadersOffered
  MaxPos = 20
  MaxSizeDigits = 4
INVARIANTS
  TypeOK
  FieldBuffersInUse
PROPERTIES
  ThrowLeavesParserUnchanged
  FirstValueStays
  LimitsInForce
