\* One agent, two sets of terms, three refetches, an indexer that keeps up.
SPECIFICATION PagesSpec
CONSTANTS
  scout = scout
  tight = tight
  loose = loose
  Agents = {scout}
  Terms = {tight, loose}
  Polls = 3
  KeepsUp = TRUE
  Budget <- SmallBudget
INVARIANTS
  HiresAreConfirmed
  MessagesAreTrue
  DecisionsDontCross
PROPERTIES
  ClicksAreAnswered
  SuccessIsShown
CHECK_DEADLOCK FALSE
