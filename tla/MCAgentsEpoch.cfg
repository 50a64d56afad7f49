\* The claim that an epoch has one payment, without faults or resets.
SPECIFICATION Spec
CONSTANTS
  first = first
  second = second
  beat = beat
  Runs = {first, second}
  Beat = beat
  Epoch = 1
  MaxNow = 2
  MaxIntents = 2
  MaxFaults = 0
  MaxResets = 0
INVARIANT OncePerEpoch
CHECK_DEADLOCK FALSE
