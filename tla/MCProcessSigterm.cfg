SPECIFICATION Spec
CONSTANTS
  b1 = b1
  b2 = b2
  b3 = b3
  h = h
  Clients = {b1, h}
  Buyers = {b1}
  Dispositions = {"kills"}
  WatchdogSec = 3
  MaxLate = 1
INVARIANTS
  StopIsGraceful
