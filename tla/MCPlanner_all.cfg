\* Every small graph.
SPECIFICATION FairSpec
CONSTANTS
  Graphs <- AllGraphs
CHECK_DEADLOCK FALSE
INVARIANTS
  TypeOK
  PlanIsCorrect
  LayersAreIndependent
PROPERTIES
  Terminates
