SPECIFICATION Spec
CONSTANTS
  desktop = desktop
  terminal = terminal
  full = full
  brief = brief
  Core = Core
  NoSig = NoSig
  Reads = {desktop, terminal}
  Outer = {full, brief}
  MaxJobs = 4
  MaxEvents = 3
INVARIANTS TypeOK AnswersAreCurrent AnswersAreSinceClear AwaitedIsAtWork
CONSTRAINT Bounds
SYMMETRY Symmetry
CHECK_DEADLOCK FALSE
