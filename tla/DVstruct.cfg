CONSTANTS
  A = A
  B = B
  C = C
  D = D
  M = M
  N = N
  u = u
  label = label
  text = text
  other = other
  six = six
  big = big
  zero = zero
  nan = nan
  object = object
  array = array
  pointer = pointer
  Scalar = {text, other, six, big, zero, nan}
  Nil = nil
  MapMark = object
  SliceMark = array
  PtrMark = pointer
  Pointee = pointee
  Zero = zero
  Kind <- MCKind
  Elem <- MCElem
  KeyKind <- MCKeyKind
  Fields <- MCFields
  Room <- MCRoom
  Alike <- MCAlike
  NoSlot = noSlot
  AppendSlot = appendSlot
  Expected <- MCExpected
  Targets <- Full1
  Patches <- ThroughMaps
SPECIFICATION FairSpec
PROPERTY WritesAreKept
