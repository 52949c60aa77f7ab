SPECIFICATION RemSpec
CHECK_DEADLOCK FALSE
CONSTANTS
  Events = {e1, e2}
  Callers = {scheduler, command}
  Scheduler = scheduler
  Nobody = Nobody
  MaxEvents = 1
  MaxPasses = 2
  MaxTroubles = 1
PROPERTIES
  RecordedDuringAreLeft
