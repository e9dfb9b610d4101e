SPECIFICATION Spec
CONSTANTS
  Absent = Absent
  Damaged = Damaged
  Empty = Empty
  MaxByte = 7
  MaxInstalls = 2
INVARIANTS TypeOK TriesBounded
PROPERTIES RedMeansNoImage UpgradeGivenUp BootEnds
