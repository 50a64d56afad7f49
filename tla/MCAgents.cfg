\* Two firings of the timer, the director, one fault and one reset.
SPECIFICATION Spec
CONSTANTS
  first = first
  second = second
  beat = beat
  Runs = {first, second}
  Beat = beat
  Epoch = 1
  MaxNow = 2
  MaxIntents = 2
  MaxFaults = 1
  MaxResets = 1
INVARIANTS
  OneAttemptAnEpoch
  BeatKeepsItsIntent
  OutcomesAreTrue
PROPERTIES
  SettledIsFinal
CHECK_DEADLOCK FALSE
SYMMETRY AnyRun
