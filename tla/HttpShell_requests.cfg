SPECIFICATION ShellSpec
CONSTANTS
  i1 = i1  i2 = i2  i3 = i3  i4 = i4  NaN = NaN
  Rows = {i1, i2, i3, i4}
  Times = {1, 2, 3}
  Limits = {1, 2}
  None = None
  Arrivals <- Others
  Fold <- LowerCase
  IsUUID <- IsId
  SlugAllowed <- SixLetters
  MaxInt = 100
SYMMETRY Symmetry
INVARIANTS ShellTypeOK NothingMissed ShownOnce RightHandler AdmittedOnly PagesFailOnlyBeyondInt
CHECK_DEADLOCK FALSE
