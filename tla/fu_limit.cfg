SPECIFICATION Spec
CONSTANTS
  MaxFollowUps = 1
  MaxDrafts = 3
  Cron = {c1}
  Hook = {h1}
  Editor = {e1}
  Events <- AllEvents
  MaxEvents = 3
CHECK_DEADLOCK FALSE
INVARIANTS OpenDraftsBounded 
