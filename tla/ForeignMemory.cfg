\* Two runtimes, with and without the feature, two references and two values at
\* a time.
SPECIFICATION Spec
CONSTANTS
  Runtimes = {r1, r2}
  NoRuntime = NoRuntime
  Cells = {1, 2}
  Values = {v, w, invalid}
  Valid = {v, w}
  Uninit = Uninit
  LifetimeFeatures = {TRUE, FALSE}
  MaxDepth = 4
  MaxRefs = 2
  MaxVals = 2
INVARIANTS
  TypeOK
  ValidatedStaysValid
  PointsIntoLiveMemory
  ImmutableStaysConstant
  NoValsWhileForeignRuns
  NoUpgradesAcrossCalls
SYMMETRY Symmetry
\* A process may stop at a panic.
CHECK_DEADLOCK FALSE
