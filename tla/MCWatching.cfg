SPECIFICATION MCSpec
CONSTANTS
  Scripts <- MCScripts
  Capacity = 1
  IDLE = 1
  MaxKeys = 2
  Programs <- MCPrograms
  Timeouts = {0, 1}
  Room = 2
  Feeds <- MCFeeds
  Rebuilds <- MCRebuilds
  Sizes <- MCSizes
  Widths = {1, 3}
  MaxAbove = 2
  MaxRegion = 2
  Chars = {"y", "n"}
  MaxPlain = 2
  MaxPid = 2
  Layouts = {"Nom", "Inline", "Receipt"}
  Grammar <- MCGrammar
  MaxLines = 5
  Phases = 2
  Files = {"a", "b"}
  Full = 2
  Slots = 2
  BEAT = 2
  Hidden = {"a"}
INVARIANTS
  TypesOK
  StepLeavesNothing
  AnswerIsWhole
  RunLinesAreKept
  PainterKeepsTheTerminal
PROPERTIES
  QuestionIsShown
  WatchingEnds
  LockIsTrue
  RunIsTrue
  FilesAreTrue
  FramesPrintOnce
CHECK_DEADLOCK FALSE
