SPECIFICATION Spec
INVARIANTS RenderingInvariant NobodyStranded
PROPERTIES CommitsServed
CHECK_DEADLOCK FALSE
CONSTANTS
  a = a
  b = b
  Windows = {a, b}
  MaxFrames = 2
  Sizes = {1, 3, 5}
  MaxBytes = 4
  ClientBytes = 2
  MaxAllocs = 4
  Requests <- MCRequests
  MaxCommits <- MCMaxCommits
  Closing = {b}
  MaxFailures = 1
  None = None
  Removed = Removed
