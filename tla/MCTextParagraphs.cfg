SPECIFICATION PageSpec
CONSTANTS
  Words <- MCWords
  Width <- MCWidth
  Kind <- MCKind
  Href <- MCHref
  PrefixWords = 2
  Pieces <- MCPieces
  MaxPieces = 3
INVARIANTS
  EveryParagraphKept
CHECK_DEADLOCK FALSE
