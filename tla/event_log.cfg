\* Two observers of one operation, a file of two records and one fault.
SPECIFICATION Spec
CONSTANTS
  Writers = {w1, w2}
  Broker = Broker
  MaxUnits = 2
  MaxLines = 1
  MaxEvents = 4
  MaxPolls = 2
  MaxFaults = 1
SYMMETRY Symmetry
INVARIANTS
  TypeOK
  HistoryAccounts
  NoSequenceReuse
  NoFalseAlarm
PROPERTIES
  NoSilentGap
CHECK_DEADLOCK FALSE
