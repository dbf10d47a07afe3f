\* Every short text and every file of two lines, in a clean buffer or a used one.
SPECIFICATION CfgSpec
CONSTANTS
  Char <- MCChar
  Settings <- MCSettings
  Texts <- MCTexts
  Tails <- MCTails
  BufLen = 4
  Unit = 16
  IntMax = 127
INVARIANTS
  SettingsAreTheirLines
  ReadStrIsTerminated
  ThrowsOverNumbersOnly
\* readConfig comes to its end.
CHECK_DEADLOCK FALSE
