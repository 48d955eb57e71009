CONSTANTS
  config = config
  bundle = bundle
  p1 = p1
  p2 = p2
  Modules = {config, bundle}
  Entry = config
  Texts = {1, 2}
  Imports <- SomeImports
  Procs = {p1}
  Globs = TRUE
  QuietReads = TRUE
  ShortWrites = TRUE
  MaxEdits = 2
  MaxFaults = 2
SPECIFICATION FairSpec
INVARIANTS
  HitIsOneEvaluation
  
PROPERTY Heals
