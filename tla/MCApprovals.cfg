SPECIFICATION FairSpec
CONSTANTS
  Streams = {s1, s2}
  Askers = {a1}
  Own = Own
  None = None
  MaxEvents = 2
PROPERTIES
  CardShown
  AskerReleased
CHECK_DEADLOCK FALSE
