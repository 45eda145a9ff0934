\* Two packages, three writes of launchers, dbpd started twice
CONSTANTS
  p1 = p1
  p2 = p2
  a = a
  b = b
  Package = {p1, p2}
  Launcher = {a, b}
  OnDesktop = {p1, p2}
  Launchers <- MCLaunchers
  Matching <- MCMatching
  Absent = Absent
  MaxWrites = 3
  MaxGeneration = 2
  MaxQueue = 3
SPECIFICATION Spec
INVARIANTS
  TypeOK
  OwnContent
  NothingMissing
PROPERTY Converges
CHECK_DEADLOCK FALSE
