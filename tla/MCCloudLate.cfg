\* Two devices, one event, two disturbances, a generation that vanishes, and
\* requests that were given up and are carried out later.
CONSTANTS
  Devices = {d1, d2}
  Events = {e1}
  MaxDisturbances = 2
  MayVanish = TRUE
  LateRequests = TRUE
SPECIFICATION Spec
SYMMETRY Interchangeable
INVARIANTS
  TypeOK
  ViewCoversSeen
