\* Two requests in flight against one worker and every kind of user input; one
\* failure, after which the job has no attempt left.
CONSTANTS
  Runs = {r1, r2, r3}
  Requests = {c1, c2}
  Workers = {w1}
  Briefs = {b1}
  Profiles = {p1}
  Questions = {q1}
  Strategies = {s1}
  Trials = {t1}
  Completions = {k1}
  UserInputs = {"question_answer", "feedback", "confirmation"}
  Faults = {"enqueue_error", "worker_crash", "attempt_error", "commit_unacknowledged"}
  MaxFaults = 1
  MaxAttempts = 1
  MaxStalls = 0
  Prose = Prose
  None = None
SPECIFICATION Spec
SYMMETRY Symmetry
INVARIANTS
  TrialsFollowConsent
  ActiveRunIsHeld
PROPERTIES
  SessionStartOpensHistory
