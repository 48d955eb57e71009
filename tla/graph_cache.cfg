CONSTANTS
  config = config
  bundle = bundle
  p1 = p1
  p2 = p2
  Modules = {config, bundle}
  Entry = config
  Texts = {1, 2}
  Imports <- SomeImports
  Procs = {p1, p2}
  Globs = FALSE
  QuietReads = TRUE
  ShortWrites = FALSE
  MaxEdits = 1
  MaxFaults = 1
SPECIFICATION Spec
SYMMETRY Symmetric
INVARIANTS
  TypeOK
  HitIsOneEvaluation
  HitIsFresh
  BuildRunsItsGraph
