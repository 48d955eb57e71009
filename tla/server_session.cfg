CONSTANTS
  app = app
  lib = lib
  app_src = app_src
  lib_src = lib_src
  lib_more = lib_more
  Bundles = {app, lib}
  MainBundle = app
  SourceFiles <- SomeFiles
  ModuleHead <- OwnHeads
  BareCompiler = FALSE
  MaxOwners = 2
  MaxCells = 3
  Damaged = {app}
  Configs <- SomeConfigs
  SourceTexts <- SomeSources
  OpenTexts <- SessionTexts
  Batches <- SessionBatches
SPECIFICATION Spec
CONSTRAINT OneAtATime
INVARIANTS
  TypeOK
  ItemsCurrent
  ItemsOwned
  LintedWithConfigInForce
PROPERTY
  NotificationRepairs
