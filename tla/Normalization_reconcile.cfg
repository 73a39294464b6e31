\* One run whose job waits while the worker is restarted.
SPECIFICATION Spec
CONSTANTS
  Runs = {r1, r2}
  Requests = {c1}
  Slots = {w1}
  MaxTries = 1
  MaxStalls = 1
  Faults = {"worker_stop"}
  MaxFaults = 1
  None = None
PROPERTIES ReconcileOrphansOnly
