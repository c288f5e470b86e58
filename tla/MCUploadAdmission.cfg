SPECIFICATION Spec
CONSTANTS
  None = None
  Uploads = {u1, u2, u3}
  Capacity = 2
  Cutoff = 1
  EndOfTime = 3
SYMMETRY UploadSymmetry
INVARIANTS
  TypeOK
  LiveStagingKept
  NothingLeft
  SlotsCover
PROPERTIES
  OnlyAgedSwept
