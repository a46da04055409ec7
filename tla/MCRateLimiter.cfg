\* Two messages a second, a second of four units, up to three processors.
CONSTANTS
  Second = 4
  QPS = 2
  Configured = TRUE
  MaxPeers = 3
SPECIFICATION FairSpec
INVARIANTS TypeOK RateKept
PROPERTY AdoptsLimit
