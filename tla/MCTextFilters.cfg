CONSTANTS
  Char <- MCChar
  OpenTag <- MCOpenTag
  CloseTag <- MCCloseTag
  Content <- MCContent
  Arguments <- MCArguments
  Object <- MCObject
  MaxPieces = 4

SPECIFICATION Spec

INVARIANTS
  TypeOK
  CutsDoNotMatter
  StreamAgreesWithPlain

PROPERTY StreamInputCovers

CHECK_DEADLOCK FALSE
