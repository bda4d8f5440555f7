SPECIFICATION MCSpec
CONSTANTS
  Products <- MCProducts
  Kind <- MCKind
  Inventories <- MCInventories
  Cves <- MCCves
  Requests = 2
  Window = 2
  MaxRetries = 1
  Ttl = 2
  PerPage = 1
  MaxRows <- MCMaxRows
  RetryAfter = 1
  CatalogTtl = 2
  NegativeTtl = 1
  KevTtl = 1
  MaxScans = 2
  None = None
INVARIANTS WindowRespected CancelBounded CompleteIsCurrent EnrichmentHonest
CHECK_DEADLOCK FALSE
PROPERTY ScanEnds
