\* Two devices, one removal: what a removal does to the causal order.
CONSTANTS
  Devices = {1, 2}
  Values = {Null}
  Null = Null
  Start = Null
  Web = {}
  progress = progress
  note = note
  s1 = s1
  s2 = s2
  s3 = s3
  Entities <- ProgressOnly
  Progress <- progress
  Sessions = {s1, s2}
  Home <- OneEach
  Files = {f1}
  MaxCounter = 4
  MaxPurges = 1
SPECIFICATION Spec
INVARIANTS
  ExportedOnlySupersededWhenSeen
