SPECIFICATION Spec
CONSTANTS
  alice = alice
  bob = bob
  eve = eve
  Users <- Everybody
  Allowed <- TwoAllowed
  Nobody = Nobody
  NoBucket = NoBucket
  PerMinute = 2
  Minute = 3
  MaxTime = 5
  MaxRestarts = 1
INVARIANTS
  RateBounded
  PatienceIsServed
