SPECIFICATION FairSpec
CONSTANTS
  Campaigns = {c1, c2}
  Real = {c1}
  Bids = {1, 2}
  None = None
  FirstBid = 1
  Rings = 1
  MaxJobs = 2
  MaxMishaps = 1
INVARIANTS CrawlInv BidKnown SnapshotsTrue
PROPERTIES OwnResult WaitEnds OneDevice
