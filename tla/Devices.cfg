\* One task adds while IO_loop polls; the bounds of the connection are in MC_Devices.
SPECIFICATION DevicesSpec
CONSTANTS
  Adders = {a1}
  Pins = {p1, p2}
  NotDefined = NotDefined
  Callbacks = {f, g}
  Null = Null
  NumSlots = 2
  NoNetif = NoNetif
  \* Of the examples.
  Numbers <- Counts
  WorkQueueLen = 1
  MaxSniffed = 3
  MaxStarts = 2
  Senders = {"a", "b"}
  Magics = {1, 2}
  SendCount = 2
  QueueSize = 2
  Aps <- NearAps
  Attempts = 2
  Leveled = TRUE
  MaxEvents = 1
  MaxCommands = 2
  Seconds = {0, 5}
  DefaultInterval = 3
  DefaultTime = 30
  MaxBreaks = 2
  MaxTyped = 4
  MaxCreds = 3
  Retries = 2
  Absent = Absent
INVARIANTS DevicesAreSound OkIsTrue SnifferIsSound ExamplesAreSound
PROPERTIES PanicOnlyDuringAdd ImplementsPinTable EveryDeviceIsPolled CallsEnd
\* A null callback or a failed assertion stops the chip, a restart ends the behaviour;
\* so does a program that has finished.
CHECK_DEADLOCK FALSE
