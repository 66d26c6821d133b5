SPECIFICATION Spec
CONSTANTS
  MaxFollowUps = 2
  MaxDrafts = 3
  Cron = {c1}
  Hook = {h1, h2}
  Editor = {e1}
  Events <- Deliveries
  MaxEvents = 1
CHECK_DEADLOCK FALSE
INVARIANT StepOnce
