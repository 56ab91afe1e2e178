SPECIFICATION LiveSpec
CONSTANTS
  a = a
  b = b
  Tasks = {a}
  NoTask = NoTask
  Rules <- OnceAndTwice
  Horizon = 3
  Grace = 1
  Recheck = 2
  MaxActive = 1
  MaxRuns = 2
  MaxEdits = 2
  MaxStops = 0
  MaxSteps = 1
PROPERTIES
  DueIsTaken
