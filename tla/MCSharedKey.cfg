SPECIFICATION Spec
CONSTANTS
  None = None
  s1 = s1
  s2 = s2
  c1 = c1
  c2 = c2
  lab = lab
  Sources = {s1, s2}
  Contents = {c1}
  Scope <- MCScope
  MaxBytes <- TwoSourcesBytes
  TTL <- MCTTL
  ManifestBytes = 1
  StartDisk <- MCStartDisk
  FileLimit = 1
  LeaseLimit = 3
  EndOfTime = 2
  Queries = {q}
  RandomIds = {}
  QueryThreads = {t1, t2}
  IngestThreads = {}
  Downloads = {d1}
  QuerySlots = 2
  IngestSlots = 0
INVARIANTS
  ResourcesAccounted
  SingleFlight
