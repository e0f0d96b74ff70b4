\* Two books, of which the first is opened, left and opened again.
CONSTANTS
  None = None
  b1 = b1
  b2 = b2
  l3 = l3
  Books <- TwoBooks
  Leases = {l1, l2, l3}
  BookOf <- OfBoth
  Opens = {o1}
  Callers <- AllCallers
  Positions = {p, q}
  Stamps <- AllStamps
  MaxTurns = 2
  MaxWrites = 8
  MaxRemote = 1
  MaxFaults = 1
  CloseFaults = FALSE
SPECIFICATION SessionSpec
CONSTRAINT Explored
SYMMETRY Interchangeable
INVARIANTS
  SessionTypeOK
  ReaderIsWritable
  PositionIsKept
  ReplacesOnlyShown
PROPERTIES
  SilentOpenFindsPosition
