\* A driver object is deleted after it registered.
SPECIFICATION Spec
CONSTANTS
  Callers = {c1}
  Classes = {r1, r2}
  Buses = {b1}
  MaxClasses = 2
  StaleIds = {0}
  NoBus = NoBus
  NoClass = NoClass
INVARIANTS LoopsHaveTheirClass
\* The end: every class constructed and every bus made, or undefined behaviour.
CHECK_DEADLOCK FALSE
