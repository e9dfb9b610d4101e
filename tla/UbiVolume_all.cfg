SPECIFICATION Spec
CONSTANTS
  Vol = {v1, v2}
  Ebs = 2
  Data = {a, ff}
  Blank = ff
  Torn = torn
  Unmapped = Unmapped
  Layout = Layout
  NoRec = NoRec
  BadRec = BadRec
  NoVol = NoVol
  Absent = Absent
  Damaged = Damaged
  StartBlank = FALSE
  Faults = {"cut", "write"}
SYMMETRY Symmetry
INVARIANTS TypeOK VtblRecoverable VtblInSync NoLeftovers ReadIsStored
PROPERTY ImplementsVolStore
