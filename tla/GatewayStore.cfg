SPECIFICATION Spec
CONSTANTS
  own = own
  other = other
  h1 = h1
  h2 = h2
  None = None
  Msgs = {1, 2}
  BuyerMsgs = {2}
  Accounts = {own}
  Own = own
  Batches <- Posts
  Handlers = {h1, h2}
  KeepLast = 1
  MaxVersion = 3
  MaxFaults = 1
SYMMETRY Symmetric
INVARIANT AckedIsOnFile
INVARIANT NewsIsTold
PROPERTY LastWordStays
