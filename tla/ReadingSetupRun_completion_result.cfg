\* One worker whose attempts may throw: is every activation followed by the
\* saved result of complete_reading_setup?  The system stops once the book is
\* active and every product is confirmed.
CONSTANTS
  Runs = {r1, r2, r3}
  Requests = {c1}
  Workers = {w1}
  Briefs = {b1}
  Profiles = {p1}
  Questions = {}
  Strategies = {s1}
  Trials = {t1}
  Completions = {k1}
  UserInputs = {"confirmation"}
  Faults = {"attempt_error"}
  MaxFaults = 1
  MaxAttempts = 1
  MaxStalls = 0
  Prose = Prose
  None = None
SPECIFICATION FairSpec
PROPERTIES
  ActivationResultSaved
CHECK_DEADLOCK FALSE
