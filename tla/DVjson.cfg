CONSTANTS
  foo = foo
  bar = bar
  baz = baz
  six = six
  sixPoint = sixPoint
  text = text
  null = null
  nan = nan
  object = object
  array = array
  pointer = pointer
  Name = {foo, bar, baz}
  Scalar = {six, sixPoint, text, null}
  Nil = nil
  MapMark = object
  SliceMark = array
  PtrMark = pointer
  Pointee = pointee
  JsonOf <- MCJsonOf
  Alike <- MCAlike
  NoSlot = noSlot
  AppendSlot = appendSlot
  Expected <- MCExpected
  Targets <- Arrays
  Patches <- ArraySequences
SPECIFICATION Spec
INVARIANT EntriesSeeEffects
