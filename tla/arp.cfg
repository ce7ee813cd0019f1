CONSTANTS
  h1 = h1
  h2 = h2
  h3 = h3
  h4 = h4
  Nobody = Nobody
  Hosts <- FourHosts
  Senders <- OneHost
  ARP_CACHE_SIZE = 3
  MaxSends = 3
  MaxLoss = 1
SPECIFICATION FairSpec
INVARIANT SentToTarget
PROPERTY SendtoReturnsUnlessLost
CHECK_DEADLOCK FALSE
