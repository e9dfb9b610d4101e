SPECIFICATION Spec
CONSTANTS
  PEB = {p1, p2, p3, p4}
  LEB = {l1, l2}
  Page = {a}
  Torn = torn
  MaxPages = 2
  NoPeb = NoPeb
  NoLeb = NoLeb
  Unmapped = Unmapped
  UBI_IO_RETRIES = 1
  Faults = {"write", "inplace"}
  MaxFaults = 2
  MaxSqnum = 6
SYMMETRY Symmetry
PROPERTY AppendStored
