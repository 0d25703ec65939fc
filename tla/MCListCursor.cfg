CONSTANTS
  Clients = {c1, c2}
  Readers = {alice}
  Ids = {1, 2, 3, 4, 5}
  Limits = {2}
  Listed <- MCListed
  Changeable <- MCChangeable
  TTL = 1
  ClockLimit = 1
  TokenLimit = 3
  None = None
SPECIFICATION Spec
INVARIANTS CursorsTypeOK CursorResumesItsPage WalkIsComplete
SYMMETRY ClientsAlike
CHECK_DEADLOCK FALSE
