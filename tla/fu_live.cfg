SPECIFICATION FairSpec
CONSTANTS
  MaxFollowUps = 2
  MaxDrafts = 5
  Cron = {c1}
  Hook = {h1}
  Editor = {e1}
  Events <- AllEvents
  MaxEvents = 2
CHECK_DEADLOCK FALSE
PROPERTIES ReplySettles
