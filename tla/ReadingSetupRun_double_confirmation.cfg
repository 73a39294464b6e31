\* Two requests in flight: is a product ever confirmed twice?
CONSTANTS
  Runs = {r1, r2, r3}
  Requests = {c1, c2}
  Workers = {w1}
  Briefs = {b1}
  Profiles = {p1}
  Questions = {}
  Strategies = {s1}
  Trials = {}
  Completions = {}
  UserInputs = {"confirmation"}
  Faults = {}
  MaxFaults = 0
  MaxAttempts = 1
  MaxStalls = 0
  Prose = Prose
  None = None
SPECIFICATION Spec
INVARIANTS
  ConfirmationOnce
