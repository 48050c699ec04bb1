CONSTANTS
  n1 = n1  n2 = n2  wa = wa  wb = wb  wc = wc
  Node = {n1, n2}
  Worker = {wa, wb, wc}
  Home <- MCHome
  Hired = {wa, wb}
  QueueSize = 1
  Kinds = {"text", "mixed", "blank", "ping"}
  MaxOps = 2
  Stopper = {n2}
  Goroutine = {g1, g2}
  Packet = {p1, p2}
  Map = {m1, m2}
  Buffer = {b1}
  Content = {c1, c2}
  nil = nil
  ChannelSize = 1
  InboxSize = 2
  MaxFrames = 1
  BuiltIn = {text}
  FileType = {request, chunk}
  none = none
  Operation = {o1, o2}
  Error = {"unknown", "protocol"}
  MaxRetries = 2
  MaxHistory = 2
  MaxOthers = 1
  MaxSize = 4
  Priorities = {1, 2, 3}
  MaxPushes = 6
  Chunks = 3
  WindowSize = 3
  MaxAttempts = 2
  Session = {s}
  Total = 2
  NameCount = 2
  MaxExtra = 1
  MaxCrashes = 1
  TotalChunks = 2
  MaxSends = 2
  maxConcurrentChunks = 1
  Id = {i1, i2, i3}
  torn = torn
  Process = {q1, q2}
  Name = {u, v}
  Password = {x, y}
  MaxKeys = 2
  nobody = nobody
SPECIFICATION ApplicationSpec
INVARIANTS
  ApplicationTypeOK
  ToldMeansHandled
  HandedOverIsKept
  IntegratedIsRouted
  
  BookkeepingIsTrue
  HistoryIsKept
  IntroducesAKnownName
PROPERTIES
  PopTakesTheFirst
  IdlePoolStops
CHECK_DEADLOCK FALSE
