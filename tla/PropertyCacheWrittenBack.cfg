SPECIFICATION Spec
CONSTANTS
  villa = villa
  villa2 = villa2
  Listings = {page}
  Details = {villa}
  Longer <- Slugs
  Calls = {c1}
  Hooks = {h1}
  Ttl = 1
  Grace = 1
  FetchTimeout = 1
  MaxEdits = 1
  RedisMayFail = FALSE
  NoSlug = NoSlug
INVARIANT EditsAreVisible
