SPECIFICATION FairSpec
CONSTANTS
  b1 = b1
  b2 = b2
  b3 = b3
  h = h
  Clients = {b1, b2, b3, h}
  Buyers = {b1, b2, b3}
  Dispositions = {"kills", "ignored"}
  WatchdogSec = 3
  MaxLate = 1
INVARIANTS
  ProcessInv
  ReadyMeansListening
PROPERTIES
  ImplementsService
  OnlyHungIsKilled
  HungIsKilled
  ChallengesAreAnswered
  LocalNeedsNoLnd
  StopEnds
