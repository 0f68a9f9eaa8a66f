SPECIFICATION FairSpec
CONSTANTS
  d1 = d1
  d2 = d2
  d3 = d3
  x1 = x1
  Deliveries = {d1, d3}
  Domains = {x1}
  NoDomain = NoDomain
  InboxDomain <- PeerAndBareInbox
  MaxAttempts = 2
  Threshold = 1
  BatchSize = 2
  MaxRestarts = 1
  MaxErrors = 0
PROPERTIES
  EventuallySettled
