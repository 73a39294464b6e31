\* Liveness: requests that may be repeated, two runs, two slots, any one failure.
SPECIFICATION FairSpec
CONSTANTS
  Runs = {r1, r2}
  Requests = {c1}
  Slots = {w1, w2}
  MaxTries = 1
  MaxStalls = 1
  Faults = {"enqueue_error", "enqueue_unacknowledged", "api_crash", "worker_stop", "reconcile_error", "stall", "update_lost"}
  MaxFaults = 1
  None = None
PROPERTIES WorkSettles
