CONSTANTS
  Views = {v1, v2}
  Questions = {q}
  MaxProcesses = 2
  MaxCalls = 1
  MaxReplies = 2
  MaxRequests = 2
  MaxPages = 2
  Peers = {p1}
  Others = {o1}
  StartTime = 1
  ProbeTime = 1
  FreshGrace = 3
  DirGrace = 3
  MaxAge = 3
  Players = {m1, m2}
  MaxOutputs = 3
  Scalars = {s1, s2}
  MaxValues = 4
  MaxItems = 1
  MaxEntries = 2
  MaxHeld = 1
SPECIFICATION Spec
CHECK_DEADLOCK FALSE
INVARIANT TypeOK
INVARIANT AnsweredOnce
INVARIANT ReplyToItsRequest
INVARIANT OwnerSeenIsKept
INVARIANT RenderedWhileAlive
INVARIANT EveryReferenceCounted
PROPERTY DisposedViewCloses
PROPERTY OutputFreed
