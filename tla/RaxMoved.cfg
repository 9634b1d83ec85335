SPECIFICATION Spec
CONSTANTS
  NoKey = NoKey
  Null = Null
  NotFound = NotFound
  Absent = Absent
  InlineSlots = 2
  MaxMem = 5
  MaxDrops = 1
  MaxSteps = 2
  Keys <- MCKeys
  Probes <- MCProbes
  Values <- MCValues
INVARIANT OldNodeValid
