\* Two requests, two runs and two slots, two failures: publication is final.  An attempt: two
\* scripts, two sandboxes, six tool calls.  Documents of six to eight nodes, by vocabulary.
SPECIFICATION MCSpec
CONSTANTS
  Runs = {r1, r2}
  Requests = {c1, c2}
  Slots = {w1, w2}
  MaxTries = 1
  MaxStalls = 1
  Faults = {"enqueue_error", "api_crash", "worker_stop", "reconcile_error", "stall", "update_lost"}
  MaxFaults = 2
  None = None
  Scripts = {s1, s2}
  SoundScripts = {s1}
  SandboxTries = 2
  MaxTurns = 6
  Identities = {r1, r2}
  Tokens = {c1, c2}
  Inputs = {q1, q2}
  Tabs = {w1, w2}
  MaxRequests = 5
  Options = {1, 2, 3, 4}
  Exclusive = 4
  MaxChosen = 2
  Tools = {r1, r2}
  Paths = {c1, c2}
  Contents = {w1, w2}
  MaxEdits = 1
  MaxStarts = 2
  MaxBatch = 2
  MaxBuffer = 3
  MaxEvents = 7
  MaxTree = 5
SYMMETRY Symmetry
INVARIANTS MCTypeOK PackageProvenance CandidateIsAttested AccountIsAgreed PackageIsWhole ReadersAgree EventsAreKept
PROPERTIES PublishedOnce PublishedNotDemoted OutcomesFinal
CHECK_DEADLOCK FALSE
