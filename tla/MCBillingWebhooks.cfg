SPECIFICATION Spec
CHECK_DEADLOCK FALSE
CONSTANTS
  MaxSubs <- MCMaxSubs
  Catalogs <- MCCatalogs
  MaxSessions <- MCMaxSessions
  MaxEvents <- MCMaxEvents
  MaxCrowded <- MCMaxCrowded
  Readers <- MCReaders
INVARIANTS
  TypeOK
  EffectsOnce
  FirstAppliedAnchors
  Converges
