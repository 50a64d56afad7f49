\* Two requests over a runtime with one firing of the timer and one fault.
SPECIFICATION DirectorSpec
CONSTANTS
  timer = timer
  beat = beat
  first = first
  second = second
  Runs = {timer}
  Beat = beat
  Requests = {first, second}
  Epoch = 1
  MaxNow = 0
  MaxIntents = 2
  MaxFaults = 1
  MaxResets = 1
  MaxActions = 2
INVARIANTS
  OnlyInterruptedRunsHang
  RanMeansDecided
PROPERTIES
  IsRuntime
  FlagComesDown
CHECK_DEADLOCK FALSE
