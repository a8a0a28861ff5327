SPECIFICATION MCSpec
CONSTANTS
  Senders = {s1, s2, s3}
  AudioSenders = {s1}
  Closers = {c1}
  MaxQueueSize = 2
  r1 = r1
  r2 = r2
  w1 = w1
  w2 = w2
  ws = ws
  Runs = {r1, r2}
  Workers = {w1, w2}
  Workspaces = {ws}
  Home <- MCHome
  Conversation <- MCConversation
  MaxActive = 1
  MaxControls = 2
  MaxFaults = 1
  q1 = q1
  q2 = q2
  Requests = {q1, q2}
  MaxSockets = 3
  MaxCloses = 1
INVARIANTS
  OutcomeIsTrue
  SentOnce
  CapPerWorkspace
  StopReachesWorker
  TriesWhileWanted
  OneShakenSocket
PROPERTIES
  WritesInOrder
  QueuedIsAnswered
  RunsSettle
CHECK_DEADLOCK FALSE
