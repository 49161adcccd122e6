SPECIFICATION Spec
CONSTANTS
  MAX_GRAMMAR_SIZE = 3
  CACHE_SETION_MAX_NUMBER = 2
  FV_GROWTH_STEP = 2
  SectionOf <- MCSectionOf
  Volumes <- MCVolumes
  Corrupt = {9}
  Installs <- MCInstalls
  Reports <- MCReports
  OwnFormats = {"ffs"}
  Expressions <- MCExpressions
INVARIANT ProcessedLater
INVARIANT SearchIsExact
INVARIANT ImagesOpened
INVARIANT ReadinessIsExact
CHECK_DEADLOCK FALSE
