SPECIFICATION Spec
CONSTANTS
  EventMethods <- MCEventMethods
  ConfigCalls <- MCConfigCalls
  ModelBases <- MCModelBases
  TestNames <- MCTestNames
  TestBases <- MCTestBases
  None = None
  Absent = Absent
  Files <- MCFiles
  PathHolds <- MCPathHolds
  Contents <- MCContents
  TreeOf <- MCTreeOf
  Unparsable <- MCUnparsable
  ContentsOf <- MCContentsOf
  MaxChanges = 2
  MaxRevisions = 2
INVARIANTS
  GraphTablesExact
  CallsCurrent
  RefsCurrent
  FactsLand
\* the model stops after MaxRevisions patches
CHECK_DEADLOCK FALSE
