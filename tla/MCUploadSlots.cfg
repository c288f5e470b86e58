SPECIFICATION Spec
CONSTANTS
  None = None
  Uploads = {u1, u2}
  Capacity = 2
  Cutoff = 1
  EndOfTime = 3
SYMMETRY UploadSymmetry
INVARIANTS
  SlotsReturned
