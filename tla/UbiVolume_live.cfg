SPECIFICATION Spec
CONSTANTS
  Vol = {v1}
  Ebs = 2
  Data = {a, ff}
  Blank = ff
  Torn = torn
  Unmapped = Unmapped
  Layout = Layout
  NoRec = NoRec
  BadRec = BadRec
  NoVol = NoVol
  Absent = Absent
  Damaged = Damaged
  StartBlank = TRUE
  Faults = {"cut", "write", "nomem"}
PROPERTY Settles
