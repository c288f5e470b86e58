SPECIFICATION Spec
CONSTANTS
  None = None
  s1 = s1
  s2 = s2
  c1 = c1
  c2 = c2
  lab = lab
  Sources = {s1}
  Contents = {c1, c2}
  Scope <- MCScope
  MaxBytes <- OneSourceBytes
  TTL <- MCTTL
  ManifestBytes = 1
  StartDisk <- MCStartDisk
  FileLimit = 1
  LeaseLimit = 3
  EndOfTime = 1
  Queries = {q}
  RandomIds = {}
  QueryThreads = {t1}
  IngestThreads = {u1, u2}
  Downloads = {}
  QuerySlots = 1
  IngestSlots = 2
SYMMETRY IngestSymmetry
INVARIANTS
  ResourcesAccounted
  SingleFlight
  ResultsCoherent
