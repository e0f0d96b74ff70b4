\* One book, two sessions of it, two callers that flush, four page turns.
CONSTANTS
  None = None
  book = book
  Books <- OneBook
  Leases = {l1, l2}
  BookOf <- AllOfOneBook
  Callers = {leave, hide}
  Positions = {p, q}
  Stamps = {s}
  MaxTurns = 4
SPECIFICATION FairSpec
INVARIANTS
  TypeOK
  NothingLost
  NoStarvedSample
PROPERTIES
  RefinesLatestChannel
  FlushReturns
