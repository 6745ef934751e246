\* Two lines, one call that fails and one signal.
SPECIFICATION FairSpec
CONSTANTS
  Procs = {1, 2, 3}
  Top = 1
  NoProc = NoProc
  MaxFd = 9
  PipeSize = 1
  MaxCommands = 3
  Lines <- MCLines
  MaxLines = 2
  MaxFaults = 1
  MaxSignals = 1
INVARIANTS
  TypeOK
  StdinRestored
  Wired
  LeaksBounded
  KillsOwnChild
PROPERTY LineEnds
CHECK_DEADLOCK FALSE
