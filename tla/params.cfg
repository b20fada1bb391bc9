SPECIFICATION Spec
CONSTANTS
  UIntSize = 32
  Targets <- MCTargets
  Names <- MCNames
  Values <- MCValues
  MaxParams = 2
INVARIANTS
  ParamsReadBack
  UriReadsBack
  QueryFitsATarget
  ComposedSizesExact
  QueryOrderIsKept
CHECK_DEADLOCK FALSE
