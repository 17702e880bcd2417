CONSTANTS
  x = x
  y = y
  z = z
  m = m
  a = a
  b = b
  e = e
  l = l
  n = n
  k = k
  q = q
  o = o
  k1 = k1
  k2 = k2
  zero = zero
  one = one
  text = text
  int = int
  str = str
  msg = msg
  none = none
  unknown = unknown
  undeclared = undeclared
  noSlot = noSlot
  appendSlot = appendSlot
  conflicting = conflicting
  synthetic = synthetic
  Field <- MCField
  Key = {k1, k2}
  Scalar = {zero, one, text}
  Kind <- MCKind
  Default = zero
  Msg = msg
  Card <- MCCard
  Type <- MCType
  OneofOf <- MCOneofOf
  NoOneof = none
  Implicit = {z}
  Unknown = unknown
  Revision = 0
  NestDepth = 2
  ValueDepth = 4
  MessageType = msg
  NoSlot = noSlot
  AppendSlot = appendSlot
  Conflicting = conflicting
  Synthetic = synthetic
  Targets <- MCTargets
  Patches <- MCPatches
SPECIFICATION FairESpec
INVARIANT TypeOK
INVARIANT StackBounded
INVARIANT PositionsInRange
PROPERTY UnknownKept
PROPERTY TestNeverMutates
PROPERTY NestConfined
PROPERTY EntryKeepsContract
PROPERTY AtomicSpec
PROPERTY Terminates
