SPECIFICATION Spec
CONSTANTS
  twin = twin
  again = again
  other = other
  typed = typed
  ann = ann
  bob = bob
  hello = hello
  bye = bye
  Sends = {twin, again, other}
  Others = {typed}
  Buyer <- To
  Text <- Says
  Seat = Seat
  None = None
CHECK_DEADLOCK FALSE
SYMMETRY Twins
INVARIANTS
  ConfirmedIsReal
  HeardIsConfirmed
  AbandonedIsUnsent
