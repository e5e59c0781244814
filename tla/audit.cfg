\* Constants are model values; README.md explains the bounds.
CONSTANTS
  e1 = e1
  e2 = e2
  i1 = i1
  i2 = i2
  i3 = i3
  file = file
  directory = directory
  None = None
  Entry = {e1, e2}
  Event = {i1, i2, i3}
  Kinds = {file, directory}
  MaxLines = 3
SYMMETRY Symmetry
SPECIFICATION Spec
INVARIANTS ErrorsAreExact ListedIsTrue SoundIsListed PayloadsAreAccounted LinesAreLocal
CHECK_DEADLOCK FALSE
