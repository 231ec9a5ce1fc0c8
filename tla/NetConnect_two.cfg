\* Both interfaces, two tasks use the API.
SPECIFICATION Spec
CONSTANTS
  Callers = {c1, c2}
  Order <- Both
  IPv6 = FALSE
  OtherUser = TRUE
  NoNetif = NoNetif
  MaxSems = 2
  MaxEvents = 1
SYMMETRY Symmetric
INVARIANTS GuardTellsState
PROPERTIES NoSemaphoreOnlyInTransit
\* A failed assertion or a restart ends the behaviour.
CHECK_DEADLOCK FALSE
