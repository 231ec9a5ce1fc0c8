\* One task constructs the drivers, as setup() does.
SPECIFICATION FairSpec
CONSTANTS
  Callers = {c1}
  Classes = {r1, r2, r3}
  Buses = {b1, b2}
  MaxClasses = 2
  StaleIds = {0, 1}
  NoBus = NoBus
  NoClass = NoClass
INVARIANTS TableIsSound TableMatchesLoops ZeroMeansNotRunning
PROPERTIES ImplementsRegistry CallReturns
\* The end: every class constructed and every bus made, or undefined behaviour.
CHECK_DEADLOCK FALSE
