\* The stream: two executions of one run, one failure of any kind anywhere between the
\* agent loop and the page; the stream ends.  The sink: two callers, four events, one
\* barrier.  The page: two runs; the transcript: three texts and three calls.
SPECIFICATION FairSpec
CONSTANTS
  MaxAttempts = 2
  MaxStalls = 0
  MaxEvents = 1
  Faults = {"attempt_error", "publish_error", "stall", "worker_crash", "disconnect", "api_restart", "refetch"}
  MaxFaults = 1
  None = None
  Callers = {c1, c2}
  Texts = {text}
  Tools = {tool}
  Ids = {id1, id2}
  SinkEvents = 4
  SinkFlushes = 1
  MaxRuns = 2
  MaxParts = 3
INVARIANTS MCTypeOK ViewIsTrue SinkIsSound PageFollowsSession TranscriptIsTrue
PROPERTIES ViewNeverGoesBack EndIsSeen ImplementsChannel
CHECK_DEADLOCK FALSE
