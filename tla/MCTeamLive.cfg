SPECIFICATION LiveSpec
CONSTANTS
  lead = lead
  w1 = w1
  w2 = w2
  t1 = t1
  t2 = t2
  Agents = {lead, w1}
  Sup = lead
  Tasks = {t1}
  Drafts = {t1}
  DependsOn <- Alone
  NoAgent = NoAgent
  NoTask = NoTask
  MaxParallel = 2
  MaxActive = 1
  MaxAttempts = 2
  MaxRuns = 5
  MaxRequests = 1
  MaxStops = 0
PROPERTIES
  SubmissionsReviewed
