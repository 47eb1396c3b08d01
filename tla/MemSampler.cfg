\* A period of three ticks in a window of ten; up to four ticks between two turns.
SPECIFICATION Spec
CONSTANTS
  Period = 3
  Window = 10
  Modulus = 26
  MaxSleep = 4
  Infos <- WorkspaceInfos
  Scale = 10
INVARIANTS SamplesFit NeverEarly NeverLate UsageNearest
PROPERTIES Ends
CHECK_DEADLOCK FALSE
