\* A driver is constructed after the bus was removed.
SPECIFICATION Spec
CONSTANTS
  Callers = {c1}
  Classes = {r1}
  Buses = {b1}
  MaxClasses = 2
  StaleIds = {0}
  NoBus = NoBus
  NoClass = NoClass
INVARIANTS RemovedBusIsUnused
\* The end: every class constructed and every bus made, or undefined behaviour.
CHECK_DEADLOCK FALSE
