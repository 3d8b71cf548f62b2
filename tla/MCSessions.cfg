SPECIFICATION MCSpec
CONSTANTS
  Fuel = 1
  MaxEntries = 1
  MaxExecutions = 3
  Nodes <- SmallNodes
  Height <- SmallHeight
  Sources <- SmallSources
CHECK_DEADLOCK FALSE
INVARIANTS
  ExecutionsAreBounded
  SnapshotIsAtRest
  AnswersAreExact
  HoistingIsSound
