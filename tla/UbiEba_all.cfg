SPECIFICATION Spec
CONSTANTS
  PEB = {p1, p2, p3, p4}
  LEB = {l1, l2}
  Page = {a, b}
  Torn = torn
  MaxPages = 1
  NoPeb = NoPeb
  NoLeb = NoLeb
  Unmapped = Unmapped
  UBI_IO_RETRIES = 1
  Faults = {"cut", "write", "inplace", "erase", "bitflip", "readback", "miswrite"}
  MaxFaults = 2
  MaxSqnum = 4
SYMMETRY Symmetry
INVARIANTS TypeOK SqnumUnique
