\* The progress of the book and one note, on two devices; the first has two
\* sessions and removes the book once.
CONSTANTS
  Devices = {1, 2}
  Values = {Null}
  Null = Null
  Start = Null
  Web = {2}
  progress = progress
  note = note
  s1 = s1
  s2 = s2
  s3 = s3
  Entities <- Both
  Progress <- progress
  Sessions = {s1, s2}
  Home <- TwoOnFirst
  Files = {f1}
  MaxCounter = 4
  MaxPurges = 1
SPECIFICATION Spec
CONSTRAINT OneKind
INVARIANTS
  NoStaleLocalWrite
  StampsNameOneEvent
PROPERTIES
  TombstoneFinal
