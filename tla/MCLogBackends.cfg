SPECIFICATION BackendsSpec
CONSTANTS
  PayloadLengths = {1, 2}
  MaxAppends = 3
  MaxFaults = 2
  MaxReopens = 1
  Base = 2
  Width = 3
  MaxTx = 5
  MaxDbFaults = 2
  MaxDbReopens = 1
INVARIANTS
  TypeOK
  DbTypeOK
  OnlyWholeRecords
  SyncedRecordsReplayed
  NumbersMatchRecords
  ReplayedInOrder
PROPERTIES
  ReplayReturns
  ChosenBackendIsALog
