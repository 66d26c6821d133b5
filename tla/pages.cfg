SPECIFICATION PagesSpec
CHECK_DEADLOCK FALSE
CONSTANTS
  h1 = h1 h2 = h2
  c1 = c1 c2 = c2
  l1 = l1 l2 = l2 l3 = l3 g1 = g1 g2 = g2
  t1 = t1
  k1 = k1 k2 = k2
  PageNames = {"store", "drafts", "access", "file", "wizard", "campaign", "list", "desk", "sidebar"}
  Items <- PItems
  Rows <- PRows
  Source <- PSource
  Addresses = {"m1", "m2"}
  Suppressible = {"m2"}
  Edits <- PEdits
  ByHand <- PByHand
  Handlers = {h1, h2}
  MaxPosts = 2
  MaxStoreFaults = 2
  MaxUserActs = 1
  Campaign = {c1, c2}
  Lead = {l1}
  Joined <- PJoined
  Before <- PBefore
  Tab = {1, 2}
  Hook = {1, 2}
  Reviewer = {1}
  MaxDraftJobs = 2
  MaxActs = 3
  MaxDraftFaults = 1
  Root = "root"
  Guest = {"guest"}
  Home = "home"
  Seeded = "seeded"
  Password = {"p"}
  EnvPassword = "env"
  Request = {1, 2}
  MaxInvites = 1
  MaxRequests = 3
  MaxAccessFaults = 1
  Character <- PCharacter
  Quote = Quote
  Comma = Comma
  CR = CR
  LF = LF
  Blank = Blank
  Titles <- PTitles
  Status <- PStatus
  Lists <- PLists
  Field = {"businessName", "suburb", "phone"}
  Column <- PColumn
  Alike <- PAlike
  MaxFileActs = 1
  MaxFileFaults = 1
  Generated <- PGenerated
  Typed = "typed"
  Fresh = "fresh"
  Slots = {1, 2}
  Hooks = {1}
  MaxCampaigns = 2
  MaxAnalyses = 2
  MaxWizardActs = 2
  MaxWizardFaults = 1
  Prospect = {l1, l2}
  Opened <- POpened
  Typing = {"x"}
  Rewritten = "rw"
  Added = "new"
  MaxSteps = 2
  MaxAsked = 2
  MaxPageActs = 3
  MaxPageFaults = 1
  ListLead = {l1, l2, l3}
  ListGroup = {g1, g2}
  Kept <- PKept
  Found = {l2, l3}
  All = All
  MaxCalls = 2
  MaxListActs = 4
  MaxListFaults = 1
  Thread = {t1}
  Known = {t1}
  Mailed = {t1}
  Outreach = {t1}
  TakeRows = 2
  MaxMails = 2
  MaxDeskActs = 3
  MaxDeskFaults = 1
  Task = {k1, k2}
  Earliest = {k1}
  NoTask = NoTask
  TaskNames = {"named"}
  MaxSent = 2
  MaxSideActs = 2
  MaxSideFaults = 1
INVARIANTS PagesTypeOK StoredOnce OneOpenDraft NoneForgotten  AccountsWhole ReadBack SavedAsShown PageSettles ListsSettle RepliesSettle
