SPECIFICATION PartsSpec
CHECK_DEADLOCK FALSE
CONSTANTS
  r1 = r1 r2 = r2
  w1 = w1 w2 = w2 w3 = w3 w4 = w4 d1 = d1 d2 = d2 q1 = q1 q2 = q2 q3 = q3
  a0 = a0 a1 = a1 a2 = a2 a3 = a3 a4 = a4 a9 = a9
  k1 = k1 p1 = p1
  s1 = s1 s2 = s2
  PartNames = {"render", "discovery", "job", "chat"}
  Render = {r1, r2}
  Place <- PPlace
  Budget <- PBudget
  Lease <- PLease
  Pages <- PPages
  Limit <- PLimit
  MaxExtraPages = 1
  MaxRenderFaults = 1
  Site = {w1, w2, w3, w4}
  Directory = {d1, d2}
  Query = {q1, q2, q3}
  Area = {a0, a1, a2, a3, a4, a9}
  Suburbs <- PSuburbs
  Cities = {a0}
  Neighbours <- PNeighbours
  Asked = {a0, a2, a9}
  Broad <- PBroad
  Direct <- PDirect
  MaxQueries = 2
  Hits <- PHits
  Name = {"n1", "n2", "n3", "n4", "n5"}
  LeadKey = {"m0", "m1", "m2", "m3", "m4", "n1", "n5", "p", "p3", "w1", "w2", "w3", "w4", "h1", "h2"}
  Shows <- PShows
  Fallback <- PFallback
  Cards <- PCards
  Graph <- PGraph
  Host <- PHost
  Barred = {"m0"}
  NoSite = NoSite
  NoMail = NoMail
  Quantity = 2
  SiteBatch = 2
  QueryBatch = 4
  AreaBatch = 2
  AtOnce = 2
  FewCards = 3
  MaxTurns = 6
  MaxFallbacks = 1
  MaxMisses = 1
  Canceller = {k1}
  Sweeper = {p1}
  MaxAttempts = 2
  MaxRetries = 1
  MaxFaults = 2
  Session = {s1, s2}
  New = s2
  MaxCommands = 2
  MaxOpens = 1
  MaxChatFaults = 1
INVARIANTS PartsTypeOK RendersCounted Overshoot FoundOnce CancelStops SuburbsCovered RunningIsAlive CutIsCancelled CancelledWasAsked PreviousTold PageIsSession
PROPERTIES DiscoveryRunEnds RunEnds BarGoesOut
