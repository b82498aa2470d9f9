CONSTANTS
  Workers = {w1}
  Fetcher = Fetcher
  Enforcement = Enforcement
  Seeder = Seeder
  MaxRev = 2
  MaxCrash = 1
  MaxDbFault = 1
SPECIFICATION FairSpec
INVARIANTS MemBacked CacheExact
PROPERTIES PolicyNeverLost Converges
