SPECIFICATION Spec
CONSTANTS
  Directories = {a, b, c}
  Sizes = {1, 2}
  Caps = {0, 1, 2, 3, 4}
  Times = {0, 1, 2}
  Now = 1
SYMMETRY DirectorySymmetry
\* The call returns.
CHECK_DEADLOCK FALSE
INVARIANTS
  LeavesWhatIsSpecified
  TotalIsBytes
