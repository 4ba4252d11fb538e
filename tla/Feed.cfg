SPECIFICATION LiveSpec
CONSTANTS
  Assets = {"yes_1", "yes_2"}
  Listings <- MCListings
  MinVolume = 1
  MinLiquidity = 1
  MaxMarkets = 1
  QueueBound = 2
  MaxFaults = 1
  MaxDrops = 2
  MaxResolved = 2
  MaxRestarts = 1
INVARIANTS TypeOK SubscriptionAccount ActiveStreamed MarketsCapped
PROPERTY EventuallyStreamed
