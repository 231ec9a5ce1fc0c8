\* The null callback.
SPECIFICATION Spec
CONSTANTS
  Adders = {a1}
  Pins = {p1}
  NotDefined = NotDefined
  Callbacks = {f}
  Null = Null
  NumSlots = 2
INVARIANTS CallbackNeverNull
\* A null callback stops the chip.
CHECK_DEADLOCK FALSE
