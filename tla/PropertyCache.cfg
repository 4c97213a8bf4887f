SPECIFICATION HalvesSpec
CONSTANTS
  villa = villa
  villa2 = villa2
  Listings = {page}
  Details = {villa, villa2}
  Longer <- Slugs
  Calls = {c1, c2}
  Hooks = {h1}
  Ttl = 1
  Grace = 1
  FetchTimeout = 1
  MaxEdits = 1
  RedisMayFail = TRUE
  NoSlug = NoSlug
INVARIANTS TypeOK CopiesAgeHonestly InvalidationReachesEveryCopy
PROPERTIES ImplementsStaleReads EveryCallEnds
