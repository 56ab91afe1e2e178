SPECIFICATION Spec
CONSTANTS
  x = x
  y = y
  p = p
  q = q
  hub = hub
  Ids = {x, y}
  NoOne = NoOne
  Uvx = FALSE
  Above <- UserFile
  Denied <- Banned
  Permitted <- Nothing
  Tabs = {c1, c2}
  Sources = {p, q}
  Server <- Descriptions
  LocalId <- Names
  Slugs = {hub}
  MaxRequests = 4
  MaxCrashes = 1
INVARIANTS
  OneFetch
  FilesAgree
  GivenAsTicked
PROPERTIES
  SecretKept
CHECK_DEADLOCK FALSE
