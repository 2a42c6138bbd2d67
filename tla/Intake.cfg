SPECIFICATION IntakeSpec
CONSTANTS
  a = a
  c = c
  o = o
  Live = {a}
  Odd = {o}
  Lists <- MCLists
  BufferMax = 2
  SpillMax = 2
  QueueMax = 2
  BatchMax = 2
  MaxReloads = 1
  MaxErrors = 1
  MaxLost = 1
  x1 = x1
  x2 = x2
  z = z
  g = g
  None = None
  Log <- MCLog
  MaxFiles = 3
  MaxLogErrors = 1
  MaxCrashes = 1
  p1 = p1
  p2 = p2
  Pages = {p1, p2}
  FailLimit = 2
  MaxChanges = 3
 
 
INVARIANT Kept
INVARIANT CursorIsBehind
PROPERTY ReplayIsHistory
PROPERTY EveryMessageSettles
PROPERTY NobodyStarves
PROPERTY ComesBack
CHECK_DEADLOCK FALSE
