CONSTANTS
  bike = bike
  boat = boat
  canoe = canoe
  junk = junk
  bid = bid
  Listing = {bike, boat, canoe, junk}
  Offer = {bid}
  NoOffer = NoOffer
  Contents <- Blocks
  Unpriced = {boat}
  Broken = {junk}
  MaxBatch = 2
  MaxTries = 2
  MaxLag = 0
  MaxHead = 3
  MaxFaults = 2
  Versions <- DocVersions
  BuyerOf <- Buyers
  Texts = {"", "bike"}
  FilterSets <- SomeFilters
  Sizes = {0, 2}
  MaxResultsPerPage = 2
  DefaultHits = 1
SPECIFICATION FairSpec
INVARIANTS NothingSkipped InOrder WalkComplete OfferResolves
PROPERTIES NoOldOverNew CaughtUp
CHECK_DEADLOCK FALSE
