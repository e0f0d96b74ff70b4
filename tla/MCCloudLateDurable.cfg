\* One device whose timed-out upload arrives in a later round.
CONSTANTS
  Devices = {d1}
  Events = {e1, e2}
  MaxDisturbances = 2
  MayVanish = FALSE
  LateRequests = TRUE
SPECIFICATION Spec
SYMMETRY Interchangeable
INVARIANTS
  PublishedIsDurable
