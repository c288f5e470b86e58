SPECIFICATION FairSpec
CONSTANTS
  None = None
  s1 = s1
  s2 = s2
  c1 = c1
  c2 = c2
  lab = lab
  Sources = {s1}
  Contents = {c1}
  Scope <- MCScope
  MaxBytes <- ScarceResultBytes
  TTL <- MCTTL
  ManifestBytes = 1
  StartDisk <- MCStartDisk
  FileLimit = 1
  LeaseLimit = 3
  EndOfTime = 1
  Queries = {q}
  RandomIds = {}
  QueryThreads = {t1, t2}
  IngestThreads = {u1}
  Downloads = {}
  QuerySlots = 1
  IngestSlots = 1
PROPERTIES
  ImplementsCacheManager
  RequestsEnd
