\* Four rows, two to a poll and to a page, two broken connections, one reset, two sources.
SPECIFICATION Spec
CONSTANTS
  PollLimit = 2
  PageLimit = 2
  MaxRows = 4
  MaxResets = 1
  MaxLosses = 2
  MaxMounts = 2
INVARIANTS
  ToastsInOrder
  NothingIsSkipped
  PagesMissNothing
PROPERTIES
  EveryRowIsShown
CHECK_DEADLOCK FALSE
