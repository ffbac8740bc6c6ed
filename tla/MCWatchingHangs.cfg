SPECIFICATION MCSpec
CONSTANTS
  Scripts = {}
  Capacity = 1
  IDLE = 1
  MaxKeys = 2
  Programs <- MCPrograms
  Timeouts = {0, 1}
  Room = 2
  Feeds = {}
  Rebuilds = {}
  Sizes = {}
  Widths = {1, 3}
  MaxAbove = 2
  MaxRegion = 2
  Chars = {"y", "n"}
  MaxPlain = 2
  MaxPid = 2
  Layouts = {"Nom"}
  Grammar <- MCGrammar
  MaxLines = 0
  Phases = 0
  Files = {"a"}
  Full = 1
  Slots = 0
  BEAT = 0
  Hidden = {}
PROPERTY
  TimeoutHolds
CHECK_DEADLOCK FALSE
