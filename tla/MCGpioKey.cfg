SPECIFICATION MCSpec
CONSTANTS
  r1 = r1
  r2 = r2
  Readers <- MCReaders
  Procs <- MCReaders
  NButtons = 2
  Debounced <- MCDebounced
  MaxEvents = 3
  MaxReads = 3
  Drivers = {"ts", "hello", "test", "led", "memdev", "reset"}
  Leds = {1, 2}
  Size = 2
  MaxTouches = 2
SYMMETRY Symmetric
INVARIANTS NothingLeft HandlersHaveData NoSleeperMissesKey LeftBehind NoOtherOops TouchReported OutputsAsCommanded
PROPERTIES EventsAreFresh
CHECK_DEADLOCK FALSE
