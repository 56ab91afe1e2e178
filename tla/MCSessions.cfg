\* The runs of one session, in stories of the ways they may go.
SPECIFICATION FairSpec
CONSTANTS
  MaxRuns = 3
  Backlog = 2
  MaxCompacts = 1
  Stories <- Told
INVARIANTS
  ViewComplete
  BranchFaithful
  ShownIsDurable
  ConfirmedOnce
  RolledBack
  EndsOnce
PROPERTIES
  NothingLost
  RunEnds
CHECK_DEADLOCK FALSE
