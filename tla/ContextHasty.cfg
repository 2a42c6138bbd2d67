SPECIFICATION Spec
CONSTANTS
  log = log
  m1 = m1
  w1 = w1
  Sources = {log}
  Events = {m1}
  Workers = {w1}
  MaxErrors = 1
  MaxRestarts = 1
INVARIANT GivesUpOnlyLate
CHECK_DEADLOCK FALSE
