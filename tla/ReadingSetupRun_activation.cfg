\* One request at a time and two worker slots, from the first visit of the page to
\* an active book: any two failures that leave attempts, runs or claims behind.
CONSTANTS
  Runs = {r1, r2, r3}
  Requests = {c1}
  Workers = {w1, w2}
  Briefs = {b1}
  Profiles = {p1}
  Questions = {}
  Strategies = {s1}
  Trials = {t1}
  Completions = {k1}
  UserInputs = {"message", "confirmation"}
  Faults = {"api_crash", "stall", "attempt_error", "cleanup_lost"}
  MaxFaults = 2
  MaxAttempts = 1
  MaxStalls = 1
  Prose = Prose
  None = None
SPECIFICATION Spec
SYMMETRY Symmetry
INVARIANTS
  TypeOK
  ActivationAuthorized
  ActivatedOnce
PROPERTIES
  ImplementsContract
