\* The progress of the book on two devices; a write, a reply to it and a reply to that.
CONSTANTS
  Devices = {1, 2}
  Values = {Null}
  Null = Null
  Start = Null
  Web = {2}
  progress = progress
  note = note
  s1 = s1
  s2 = s2
  s3 = s3
  Entities <- ProgressOnly
  Progress <- progress
  Sessions = {s1, s2}
  Home <- OneEach
  Files = {f1}
  MaxCounter = 4
  MaxPurges = 0
SPECIFICATION Spec
CONSTRAINT FewEvents
INVARIANTS
  TypeOK
  Convergence
  ClocksNeverRefuse
  DominatesOnlySeen
  SeenIsReplaced
PROPERTIES
  ResolveSettles
