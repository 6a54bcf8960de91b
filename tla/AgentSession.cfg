CONSTANTS
  Calls = {"c1", "c2", "c3"}
  Scenarios <- Lives
  MaxSaves = 2
SPECIFICATION Spec
INVARIANTS
  StreamingIsLive
  CleanFileIsCurrent
PROPERTIES
  OtherTurnsStay
  EndedStaysPut
  FileCatchesUp
  EveryCallIsServed
CHECK_DEADLOCK FALSE
