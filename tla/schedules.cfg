\* Two overlapping patches of one schedule run by two producers.
CONSTANTS
  p1 = p1
  p2 = p2
  s1 = s1
  s2 = s2
  Patches = {p1, p2}
  Producers = {s1, s2}
  Crons = {nightly}
  Intervals = {hourly}
  MaxFires = 1
  None = None
SYMMETRY ScheduleSymmetry
SPECIFICATION Spec
INVARIANTS
  OneCadence
  ProducersFollow
PROPERTIES
  PatchesOnlyWhatItNames
