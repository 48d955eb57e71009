CONSTANTS
  Projects <- GeneratedOnly
  Plans <- ProjectPlans
  Becomes <- NoChange
  Files <- SomeFiles
  Sources <- Hand
  External <- Outside
  MaxBuilds = 1
  MaxEdits = 0
  MaxFaults = 0
SPECIFICATION Spec
CHECK_DEADLOCK FALSE
INVARIANTS
  ProducedFirst
