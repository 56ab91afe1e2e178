SPECIFICATION Spec
CONSTANTS
  read = read
  shell = shell
  erase = erase
  skill = skill
  question = question
  Tools = {read, shell, erase, skill, question}
  Profile <- Profiles
  Rules <- TwoRules
  Default = "ask"
  Skills = {skill}
  Listed = {skill, shell}
  Questions = {question}
  Histories <- BrokenOff
  Batches <- Rounds
  MaxIterations = 2
  MaxCompactions = 2
INVARIANTS
  PairedHistory
  NothingForgotten
  OnceAndGranted
  ScopeKept
