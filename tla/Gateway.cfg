SPECIFICATION FairSpec
CONSTANTS
  c1 = c1
  c2 = c2
  NoEntry = NoEntry
  NoKill = NoKill
  Conns <- MCConns
  MaxConnections = 2
  MaxQueries = 2
INVARIANTS
  TypeOK
  RegistryIsCurrent
  DrainedUnlessObserved
PROPERTIES
  KillHitsOnlyItsQuery
  ShutdownCompletes
