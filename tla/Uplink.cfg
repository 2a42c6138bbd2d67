SPECIFICATION UplinkSpec
CONSTANTS
  log = log
  cdp = cdp
  echo = echo
  callback = callback
  bare = bare
  other = other
  hello = hello
  reply = reply
  diag = diag
  u1 = u1
  u2 = u2
  None = None
  Events = {log, cdp, echo, callback, bare}
  Offers <- Pairs
  Message <- Copy
  Outgoing = {echo, callback}
  Anonymous = {bare}
  Score <- Fullness
  Deferred = {log, echo}
  Uploaders = {u1, u2}
  BatchSize = 1
  MaxFaults = 2
  WsEvents = {hello, diag}
  WsKinds <- AnyKind
  Judged = {hello}
  WsUploaders = {u1, u2}
  MaxDrops = 1
  MaxTimeouts = 1
  MaxWsErrors = 1
INVARIANT Accounted
INVARIANT QueuedIsOnFile
 
PROPERTY AllAnswered
CHECK_DEADLOCK FALSE
