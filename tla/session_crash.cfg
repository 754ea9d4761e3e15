SPECIFICATION Spec
CONSTANTS
  c1 = c1  c2 = c2
  Client = {c1, c2}
  MaxFd = 5
  MaxOpen = 1
  Backlog = 2
  DefAuth = {TRUE}
INVARIANTS FailedWriteIsHarmless
