CONSTANTS
  app = app
  lib = lib
  app_src = app_src
  lib_src = lib_src
  lib_more = lib_more
  Bundles = {app, lib}
  MainBundle = app
  SourceFiles <- SomeFiles
  ModuleHead <- OwnHeads
  BareCompiler = TRUE
  MaxOwners = 2
  MaxCells = 3
  Damaged = {}
  Configs <- SomeConfigs
  SourceTexts <- SomeSources
  OpenTexts <- AnyTexts
  Batches <- AnyBatches
SPECIFICATION Spec
INVARIANT
  PublishedIsFresh
