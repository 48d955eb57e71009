CONSTANTS
  Projects <- SomeProjects
  Plans <- ProjectPlans
  Becomes <- SomeChanges
  Files <- SomeFiles
  Sources <- Hand
  External <- Outside
  MaxBuilds = 3
  MaxEdits = 1
  MaxFaults = 1
SPECIFICATION Spec
CHECK_DEADLOCK FALSE
INVARIANTS
  TypeOK
  ProducedFirst
  ProductsCurrent
  EndsRightly
  RefusedIffFaulty
  CyclesOfTools
