SPECIFICATION Spec
CONSTANTS
  Site <- AllPages
  Drifting <- DriftingPages
  Mixing <- MixingPages
  MaxCalls = 2
  MaxPresses <- Presses
INVARIANTS
  NoStuckFlag
  SentOnce
  QuietList
  Details
