SPECIFICATION FairSpec
INVARIANTS TypeOK OverrunBounded
PROPERTIES NoPhantomSpike StreamKeepsPin StreamIsCredited
CONSTANTS
  Address <- MCAddress
  MaxPins = 1
  Expire = 3
  Window = 3
  Threshold = 2
  VideoRate = 2
  Chatter = 1
  Foreigners <- MCForeigners
  MaxLate = 2
  MaxEvents = 3
