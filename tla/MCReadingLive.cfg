\* One book, one page turn and one failure.
CONSTANTS
  None = None
  b1 = b1
  b2 = b2
  l3 = l3
  Books <- OneBook
  Leases = {l1, l2}
  BookOf <- OfBoth
  Opens = {o1}
  Callers <- AllCallers
  Positions = {p}
  Stamps <- AllStamps
  MaxTurns = 1
  MaxWrites = 8
  MaxRemote = 0
  MaxFaults = 1
  CloseFaults = TRUE
SPECIFICATION FairSessionSpec
PROPERTIES
  ShelfIsReleased
