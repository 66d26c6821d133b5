SPECIFICATION Spec
CONSTANTS
  i1 = i1
  i2 = i2
  i3 = i3
  l1 = l1
  l2 = l2
  l3 = l3
  c1 = c1
  c2 = c2
  NoItem = NoItem
  NoCampaign = NoCampaign
  Item = {i1, i2, i3}
  Lead = {l1, l2, l3}
  Campaign = {}
  Sender = {s1, s2}
  LeadOf <- ThreeItemsLead
  CampaignOf <- ThreeItemsCampaign
  Membership = {}
  AutoFollowUp = {}
  FollowUp = {}
  DailySendLimit = 1
  MaxFollowUps = 4
  Quotas <- Days
SYMMETRY ItemAndSenderSymmetry
INVARIANT DailyOvershoot
