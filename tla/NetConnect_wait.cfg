\* Both interfaces: what ESP_OK means.
SPECIFICATION Spec
CONSTANTS
  Callers = {c1}
  Order <- Both
  IPv6 = FALSE
  OtherUser = FALSE
  NoNetif = NoNetif
  MaxSems = 1
  MaxEvents = 2
INVARIANTS OkMeansAddresses
\* A failed assertion or a restart ends the behaviour.
CHECK_DEADLOCK FALSE
