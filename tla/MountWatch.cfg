\* Devices that come and go, each mounted once, while files on them change
CONSTANTS
  Mount = {m1, m2}
  d1 = d1
  d2 = d2
  f1 = f1
  f2 = f2
  Device <- MCDevice
  File <- MCFile
  DeviceOf <- MCDeviceOf
  Twice = FALSE
  Reused = FALSE
  MaxHandle = 4
  MaxEvents = 2
SYMMETRY Symmetry
SPECIFICATION Spec
INVARIANTS
  TypeOK
  WatchesMatch
  InStep
PROPERTY DiffIsDifference
