SPECIFICATION Spec
CONSTANTS
  buyer = buyer
  Commands = {c1, c2}
  Results = {"ok", "indeterminate"}
  Pollers = {p1}
  Senders = {}
  Pooled = {}
  Conversation <- OneBuyer
  PullLimit = 1
  QueueCap = 1
  ClaimCap = 2
  ClaimKeep = 1
  DoneCap = 2
  DoneKeep = 1
  MaxRestarts = 1
  None = None
SYMMETRY AnyCommand
INVARIANTS
  SentIsJournaled
PROPERTY
  KeepsPromise
