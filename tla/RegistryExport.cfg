\* Ids that extend one another
CONSTANTS
  foo = foo
  baz2 = baz2
  foobar = foobar
  baz = baz
  bad = bad
  d1 = d1
  d2 = d2
  wfoo = wfoo
  wbar = wbar
  wbaz = wbaz
  wbad = wbad
  wapp = wapp
  tool = tool
  game = game
  File <- MCFile
  Device <- MCDevice
  Word <- MCWord
  Executable <- MCExecutable
  Id <- MCId
  DeviceOf <- MCDeviceOf
  Launchers <- MCLaunchers
  Executables <- MCExecutables
  LegalId <- MCLegalId
  EarlyRequests = FALSE
  MaxFaults = 0
SPECIFICATION Spec
INVARIANT RegisteredIsExported
