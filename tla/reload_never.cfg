\* main.py as it stands: the reference is evaluated when the module is imported.
CONSTANTS
  Requests = {r1}
  Interval = 2
  RefTaken = "import"
  MaxTime = 4
  MaxLives = 1
SPECIFICATION Spec
INVARIANTS
  DueRequestsCheck
