SPECIFICATION SendingSpec
CONSTANTS
  s1 = s1
  s2 = s2
  jump = jump
  click = click
  c1 = c1
  c2 = c2
  ann = ann
  bob = bob
  hello = hello
  bye = bye
  open = open
  None = None
  Sends = {s1, s2}
  Jumps = {jump}
  Others = {click}
  Buyer <- Who
  Text <- What
  QnCalls = {c1, c2}
  QnBuyer <- QnWho
  QnText <- QnWhat
  Presses = 2
  Tries = 1
  MaxLate = 1
 
 
INVARIANT TakenIsNotFailed
INVARIANT PressedIsFinal
PROPERTY EverySendEnds
CHECK_DEADLOCK FALSE
