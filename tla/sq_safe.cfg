SPECIFICATION Spec
CONSTANTS
  i1 = i1
  i2 = i2
  i3 = i3
  l1 = l1
  l2 = l2
  l3 = l3
  c1 = c1
  c2 = c2
  NoItem = NoItem
  NoCampaign = NoCampaign
  Item = {i1}
  Lead = {l1}
  Campaign = {c1}
  Sender = {s1, s2}
  LeadOf <- OneItemLead
  CampaignOf <- OneItemCampaign
  Membership <- Members
  AutoFollowUp = {}
  FollowUp = {i1}
  DailySendLimit = 0
  MaxFollowUps = 4
  Quotas <- FaultsOrStops
SYMMETRY SenderSymmetry
INVARIANTS AtMostOneCall ExclusiveSend EvidenceOfCall SentIsTruthful
PROPERTIES SentIsFinal SuppressionHolds ImplementsDelivery
