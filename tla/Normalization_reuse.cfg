\* No failure at all: a request reads the book before its publication.
SPECIFICATION Spec
CONSTANTS
  Runs = {r1, r2}
  Requests = {c1, c2}
  Slots = {w1}
  MaxTries = 1
  MaxStalls = 1
  Faults = {}
  MaxFaults = 0
  None = None
PROPERTIES ReadyIsReused
