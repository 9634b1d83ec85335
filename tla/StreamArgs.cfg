SPECIFICATION Spec
CONSTANTS
  Texts <- EmptyArgument
  Requests <- MCRequests
  MaxPiece = 2
  MarkerHold = 3
INVARIANT ArgumentsAreJson
