SPECIFICATION Spec
CONSTANTS
  Kinds = {"k_agent", "codex", "claude_code"}
  Requests = {1, 2, 3}
  ToolOf <- Tools
  Items = {1, 2}
  MaxPieces = 2
  MaxItems = 2
INVARIANTS
  EachPieceOnce
  GrantedOnce
PROPERTIES
  Protocol
