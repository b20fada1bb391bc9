SPECIFICATION Spec
CONSTANTS
  UIntSize = 32
  TransferEncoding <- MCTransferEncoding
  ContentLength <- MCContentLength
  Chunked <- MCChunked
  StartLine <- MCStartLine
  InitialHeaders <- NoHeaders
  LastHeaders <- MCLastHeaders
  Inputs <- MCInputs
INVARIANTS
  ScenarioIsAccepted
CHECK_DEADLOCK FALSE
