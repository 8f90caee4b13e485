SPECIFICATION Spec
CONSTANTS
  Modes = {"basic", "context"}
  High = 11
  Low = 8
  MaxUnits = 1
  PreviousMax = 2
  Marker = 1
  Prefixes = {1, 2}
  Suffixes = {0, 1}
  Inputs = {1}
  Speeches = {0, 2}
  EarlyEnds = FALSE
  LastUnit = 4
  Room = 13
INVARIANTS
  TypeOK
  PositionsExact
  PromptProtected
  ContextLayout
  UnitsAligned
  MemoryKept
PROPERTY
  WindowBounded
