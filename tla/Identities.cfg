\* Two threads race for two ids and then for none, and run two lifetimes.
SPECIFICATION IdSpec
CONSTANTS
  Threads = {t1, t2}
  MaxId = 2
  MaxTypes = 2
INVARIANTS
  TypeOK
  UniqueBrands
  PanicsOnlyWhenExhausted
  AcceptsOnlyItsOwnScopes
PROPERTY EveryCallEnds
