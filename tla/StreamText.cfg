SPECIFICATION Spec
CONSTANTS
  Texts <- MCTexts
  Requests <- MCRequests
  MaxPiece = 2
  MarkerHold = 3
INVARIANTS
  HeldBack
  BlocksBalanced
  StreamIsMessage
  CheckpointIsMessage
