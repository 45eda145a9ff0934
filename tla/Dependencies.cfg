\* Two versions of six characters together, three of five; three packages and
\* lists of one
CONSTANTS
  Char = {"0", "1", "x", "~", ".", "-", ":"}
  MaxLength = 6
  IntMax = 15
  LongMax = 127
  Letter = {"a", "b", "_"}
  Indexed = {"a", "b"}
  Name <- MCName
  Arch = {"all", "x"}
  Number_ <- MCNumber
  Status = {"installed", "config-files"}
  ListLimit = 1
  MaxPackages = 3
SPECIFICATION DependSpec
INVARIANTS
  TypeOK
  IsOrder
  AgreesWithDebian
  IntervalsPartition
  FindsExact
  MissingRight
CHECK_DEADLOCK FALSE
