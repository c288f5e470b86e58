SPECIFICATION Spec
CONSTANTS
  s1 = s1
  s2 = s2
  r1 = r1
  p1 = p1
  p2 = p2
  c1 = c1
  lab = lab
  Sources = {s1, s2}
  Results = {r1}
  Paths = {p1, p2}
  Contents = {c1}
  Scope <- MCScope
  MaxBytes <- MCMaxBytes
  TTL <- MCTTL
  ManifestBytes = 1
  StartDisk <- MCStartDisk
  FileLimit = 1
  LeaseLimit = 1
  EndOfTime = 1
SYMMETRY PathSymmetry
INVARIANTS
  TypeOK
  LeasedPresent
  QuotaRespected
  ReadyIffRoom
  RefusedOnlyForUse
PROPERTIES
  LeasedStable
