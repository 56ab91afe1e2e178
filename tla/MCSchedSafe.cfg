SPECIFICATION SteadySpec
CONSTANTS
  a = a
  b = b
  Tasks = {a, b}
  NoTask = NoTask
  Rules <- OnceAndTwice
  Horizon = 3
  Grace = 1
  Recheck = 2
  MaxActive = 1
  MaxRuns = 2
  MaxEdits = 3
  MaxStops = 1
  MaxSteps = 1
INVARIANTS
  AtMostOnce
  RunningIffActive
  NoOversleep
SYMMETRY TwoTasks
