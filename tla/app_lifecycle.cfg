\* Two lives of a process whose setup and teardown may fail at any step, with
\* two requests at a time and room for three reload intervals.
CONSTANTS
  Requests = {r1, r2}
  Interval = 2
  RefTaken = "startup"
  MaxTime = 8
  MaxLives = 2
SPECIFICATION Spec
INVARIANTS
  EventsRunOnOpenResources
  TornDownIsEmpty
  ReloadsAreSpaced
