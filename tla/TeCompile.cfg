\* Every text of up to four tokens of all kinds, and of up to six of the tokens of
\* Core, long enough for a call with two arguments; every malloc may fail.
SPECIFICATION Spec
CONSTANTS
  Tokens = {"num", "var", "add", "sub", "mul", "pow", "sep", "open", "close", "f0", "f1", "f2", "g1", "error"}
  MaxTokens = 4
  Core = {"num", "sub", "sep", "open", "close", "f0", "f2", "g1"}
  MaxCore = 6
INVARIANTS Owned ErrorCode AcceptsGrammar Complete ImpureSurvives DescentBound WalkBound
PROPERTIES ErrorSticky Ends
CHECK_DEADLOCK FALSE
