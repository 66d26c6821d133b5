SPECIFICATION Spec
CONSTANTS
  MaxFollowUps = 2
  MaxDrafts = 4
  Cron = {c1}
  Hook = {h1, h2}
  Editor = {e1}
  Events <- AllEvents
  MaxEvents = 2
CHECK_DEADLOCK FALSE
SYMMETRY Symmetric
INVARIANTS NoGaps StepsInOrder ProcessingIsOwned
