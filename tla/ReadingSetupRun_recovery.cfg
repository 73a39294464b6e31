\* Three failures against two runs, on two worker slots, when the API process
\* survives and failure handlers are not lost.
CONSTANTS
  Runs = {r1, r2}
  Requests = {c1}
  Workers = {w1, w2}
  Briefs = {}
  Profiles = {}
  Questions = {q1}
  Strategies = {}
  Trials = {}
  Completions = {}
  UserInputs = {"message"}
  Faults = {"enqueue_error", "worker_crash", "stall", "attempt_error", "commit_unacknowledged", "publish_error"}
  MaxFaults = 3
  MaxAttempts = 2
  MaxStalls = 1
  Prose = Prose
  None = None
SPECIFICATION FairSpec
INVARIANTS
  SnapshotFresh
  TerminalEventTruthful
PROPERTIES
  OnlyActiveRunWrites
  RetiredRunsStayRetired
  RunSettles
