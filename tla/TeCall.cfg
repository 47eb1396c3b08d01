\* The real table of builtins, and two variables of the program.
\* Three-bit int; a long as wide (ARMv7, i386) or twice as wide (ARMv8);
\* arguments from -1/2 to beyond UINT_MAX; doubles of three bits, which hold the
\* narrow long and have to round the wide one.
SPECIFICATION CallSpec
CONSTANTS
  Size = 24
  VarCount = 2
  Comparisons <- TableComparisons
  Entry <- TableEntry
  UIntMax = 7
  LongMaxes = {7, 63}
  MaxHalves = 15
  MaxExact = 8
  Units <- PowersOfTwo
  Fact <- FactTable
  Binom <- BinomTable
INVARIANTS Finds NumExact InfinityNeeded DivisorsNonzero
PROPERTIES Answers
CHECK_DEADLOCK FALSE
