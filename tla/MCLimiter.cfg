SPECIFICATION LiveSpec
CONSTANTS
  r1 = r1
  r2 = r2
  r3 = r3
  r4 = r4
  r5 = r5
  c1 = c1
  s1 = s1
  s2 = s2
  Runs = {r1, r2, r3, r4, r5}
  Controls = {c1}
  Sessions = {s1, s2}
  SessionOf <- TwoSessions
  MaxSlots = 3
INVARIANTS
  SlotsKept
PROPERTIES
  Promise
  Served
