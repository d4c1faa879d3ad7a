CONSTANTS
  Initial <- MCInitial
  Typed = {"space", "quote", "percent", "opcode", "digit", "sign", "newline"}
  MaxLexemes = 5

SPECIFICATION Spec

INVARIANTS
  ColouringKeepsTheText
  CommentsAgree
  OperationsAgree

PROPERTIES
  ClosedLinesStandAlone
