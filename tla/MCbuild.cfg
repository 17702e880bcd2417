CONSTANTS
  f = f
  int = int
  msg = msg
  none = none
  unknown = unknown
  zero = zero
  key = key
  Field = {f}
  Key = {key}
  Scalar = {zero}
  Kind <- MCKind
  Default = zero
  Msg = msg
  Card <- MCCard
  Type <- MCType
  OneofOf <- MCOneofOf
  NoOneof = none
  Implicit = {}
  Unknown = unknown
  Revision = 0
  NestDepth = 2
  ValueDepth = 4
  NoPart = NoPart
  Blank = Blank
  Selectors <- MCSelectors
  Paths <- MCPaths
  Values <- MCValues
  Locations <- MCLocations
  Ops <- MCOps
  TypeNames = {f, Blank}
SPECIFICATION Spec
INVARIANT MakesOnlyValid
INVARIANT RefusesOnlyInvalid
