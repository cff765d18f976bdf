CONSTANTS
  MaxArchives = 2
  Archives = {2}
  Threads = {platform, timer}
  Loggers = {platform, timer}
  MaxBoots = 4
  MaxLines = 2
  ChattyBoots = {1}
  PipeRoom = 4
  ReadMax = 2
  PumpRoom = 1
  MinMatches = 2
  WindowLength = 0
  Cooldown = 1
  MaxCarry = 2
  MaxTargets = 2
  timer = timer
  platform = platform
SPECIFICATION Spec
CHECK_DEADLOCK FALSE
INVARIANT TypeOK
INVARIANT KeptForItsStarts
INVARIANT DetectorSeesLines
INVARIANT OneCrashRecord
INVARIANT DropTargetsBalanced
PROPERTY ClosedStaysClosed
PROPERTY NobodyWaits
