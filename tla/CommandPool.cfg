SPECIFICATION FairSpec
CONSTANTS
  buyer = buyer
  Commands = {c1}
  Results = {"ok", "indeterminate"}
  Pollers = {p1}
  Senders = {s1}
  Pooled = {c1}
  Conversation <- OneBuyer
  PullLimit = 1
  QueueCap = 1
  ClaimCap = 2
  ClaimKeep = 1
  DoneCap = 2
  DoneKeep = 1
  MaxRestarts = 1
  None = None
INVARIANT AtMostOnceExecution
 
