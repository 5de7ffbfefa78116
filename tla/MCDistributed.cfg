SPECIFICATION DistributedSpec
CONSTANTS
  Shapes <- ShapesOfRun
  NRank = 2
  NElt = 3
  Wanted <- WantedOfRun
  Program <- ProgramOfRun
INVARIANTS
  RanksAgree
  CutsConverge
  IterationsShrink
  SortedOverRanks
  GatherReturnsArray
  ScatterIsVisible
  CommunicationIsCovered
