SPECIFICATION Spec
CONSTANTS
  Keys = {1, 2, 3}
  Values = {"", "a"}
  Empty = ""
  Unset = "unset"
  NoCopy = NoCopy
  HashOf <- MCHash
  Nels = {4, 6}
  Default <- MCDefault
  EnvRoom = 2
  MaxImport = 1
INVARIANTS TypeOK FindsExported FilledCounts ProbesAll BootRestores
PROPERTY ImplementsEnvStore
