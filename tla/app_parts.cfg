\* One part of the web frontend or of the server's files at a time.  A page
\* that was closed stays closed, so a behaviour may end.
SPECIFICATION AppSpec
CHECK_DEADLOCK FALSE
CONSTANTS
  a1 = a1
  a2 = a2
  a3 = a3
  k1 = k1
  k2 = k2
  k3 = k3
  l1 = l1
  l2 = l2
  c1 = c1
  c2 = c2
  i1 = i1
  i2 = i2
  m1 = m1
  s1 = s1
  n1 = n1
  n2 = n2
  Opening = {o1, o2}
  NoOpening = NoOpening
  Worker = {w1, w2}
  NoWorker = NoWorker
  Request = {r1, r2}
  NoLoop = NoLoop
  Art = {a1, a2, a3}
  KeyOf <- MCKeyOf
  BlankArt = {a3}
  TokenArt = {a2}
  Score = {50, 70, 80}
  Place = {0, 2}
  NoKey = NoKey
  NoPlace = 99
  Locks <- MCLocks
  LockChoice = {l1, l2, NoLock}
  NoLock = NoLock
  ArtsIn <- MCArtsIn
  ShownIn <- MCShownIn
  EntryId = {1, 2}
  ScanCard = {p, q}
  ScanToken = {q}
  MaxOvertaken = 1
  NoEntry = NoEntry
  NoCard = NoCard
  ImportList = {la, lb}
  NoList = NoList
  PreviewCall = {1, 2}
  NoCall = 0
  Scanned = {sa, sb}
  Received = {ra, rb}
  NoShared = NoShared
  PullCards <- MCPullCards
  Candidates <- MCCandidates
  Exact <- MCExact
  PullItem = {i1, i2}
  NoItem = NoItem
  MaxFree = 1
  MaxNeed <- MCMaxNeed
  CutCard = {m1}
  ConsideringCard = {s1}
  SwapName = {n1, n2}
  ConsideringOf <- MCConsideringOf
  NoConsidering = NoConsidering
  InMainboard = {}
  MaxSwapCopies = 1
  TagCard = {x}
  CustomTag = {t1, t2}
  MaxTagOps = 3
  BundleVersion = {v1, v2, v3}
  NoVersion = NoVersion
  Picture = {x1, x2, x3, x4}
  RenderSlot = {q1, q2}
  MaxArtifacts = 1
  NoPicture = NoPicture
  MaxChanges = 2
  NoFile = NoFile
  MaxMinute = 3
  Scheduled = {1}
  MaxAttempts = 3
INVARIANTS
  AppTypeOK
  CameraInView
  CameraComes
  RequestsAnswerable
  HeldStill
  LockCurrent
  ScansAgree
  CommitsWhatIsShown
  ScannedListShownOnce
  PullListSound
  VerdictIsCurrent
  TagsFollowServer
  FilesSound
PROPERTIES
  PausedLogsNothing
