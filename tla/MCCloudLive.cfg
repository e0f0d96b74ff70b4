\* Two devices; one event and two disturbances, or two events and none.
CONSTANTS
  Devices = {d1, d2}
  Events = {e1, e2}
  MaxDisturbances = 2
  MayVanish = FALSE
  LateRequests = FALSE
SPECIFICATION FairSpec
CONSTRAINT OneDisturbed
INVARIANTS
  PublishedIsDurable
  UploadsRecovered
PROPERTIES
  CloudNeverForgets
  RefinesSharedHistory
  EventuallyConverged
  EventuallyQuiet
