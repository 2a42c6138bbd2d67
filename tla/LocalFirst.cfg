SPECIFICATION FairSpec
CONSTANTS
  log = log
  m1 = m1
  w1 = w1
  Sources = {log}
  Events = {m1}
  Workers = {w1}
  MaxErrors = 1
  MaxRestarts = 1
INVARIANT LocalKept
PROPERTY LocalDelivered
PROPERTY QueuedIsUploaded
CHECK_DEADLOCK FALSE
