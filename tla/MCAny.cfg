SPECIFICATION Spec
CONSTANTS
  i1 = i1
  i2 = i2
  s1 = s1
  int = int
  string = string
  Place = {a, b, c}
  Heap = {h1, h2, h3}
  Value = {i1, i2, s1}
  OnStack = {i1, i2}
  TypeOf <- TwoTypes
  Moved = Moved
  Raw = Raw
  Null = Null
INVARIANTS NothingMisused OneOwner DoesWhatItSays
