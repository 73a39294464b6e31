\* Formal content: a book of two nodes,
\* two requests and two executions, three events.  Questions: two threads, two turns at a
\* time, three requests.  Reading time: five units of the clock, midnight after the third.
SPECIFICATION Spec
ACTION_CONSTRAINT FirstBegins
CONSTANTS
  None = None
  NodeCount = 2
  Eligible = {1, 2}
  WindowSize = 1
  Attempts = 2
  Requests = {1, 2}
  Slots = {1, 2}
  MaxStrategy = 2
  MaxAt = 1
  MaxRows = 3
  FormalEvents = 3
  Threads = {1, 2}
  Turns = {1, 2}
  Keys = {k1, k2}
  Tries = 2
  MaxMessages = 4
  MaxRevisions = 2
  MaxAsks = 3
  NoQuestion = NoQuestion
  NoThread = NoThread
  IdleThreshold = 2
  MaxTick = 1
  MaxSpan = 4
  Midnight = 3
  MaxTime = 5
  Never = Never
  LastPlace = 2
  MaxReports = 3
  MaxOpens = 2
  MaxMoves = 1
  Talks = {1, 2}
  MaxAsked = 2
  MaxFocusing = 1
  MaxNotes = 1
  MaxCalls = 2
INVARIANTS TypeOK LiveRowsAreHeld
  QuestionsAreConsistent EachMomentCountedOnce LastChoiceIsStored ThreadIsOne
PROPERTIES ContentFollowsStrategy DecisionsStand PageFollowsServer
CHECK_DEADLOCK FALSE
