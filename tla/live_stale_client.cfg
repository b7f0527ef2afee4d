SPECIFICATION Spec
CONSTANTS
  Publishers = {p1, p2}
  Clients = {c1}
  Backlog = 2
  MaxChanges = 3
INVARIANT ClientIsCurrent
CHECK_DEADLOCK FALSE
