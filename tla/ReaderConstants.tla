-------------------------- MODULE ReaderConstants --------------------------
(***************************************************************************)
(* The parameters of the components that serve an active book, and what    *)
(* is assumed of them.  The components are specified one by one and        *)
(* checked in one run (MCReader), which gives these their values.          *)
(***************************************************************************)
EXTENDS Naturals, Null

\* FormalGeneration
CONSTANTS
  NodeCount,    \* nodes of the book
  Eligible,     \* the nodes that get enhanced content
  WindowSize,   \* FORMAL_WINDOW_SIZE
  Attempts,     \* max_attempts of a row and attempts of a job
  Requests,     \* concurrent API requests
  Slots,        \* concurrent executions of the worker
  MaxStrategy,  \* bound on the strategy versions of a behaviour
  MaxAt,        \* bound on the observation times of positions
  MaxRows,      \* bound on the rows
  FormalEvents  \* bound on the requests, failed attempts, crashes and stalls

ASSUME FormalAssumption ==
  /\ NodeCount \in Nat \ {0} /\ Eligible \in SUBSET (1..NodeCount)
  /\ WindowSize \in Nat \ {0} /\ Attempts \in Nat \ {0}
  /\ MaxStrategy \in Nat \ {0} /\ MaxAt \in Nat /\ MaxRows \in Nat
  /\ FormalEvents \in Nat

\* StrategyProposals
CONSTANTS
  Threads,       \* question threads (qa_sessions)
  Turns,         \* concurrent requests of streamQaAnswer
  Keys,          \* idempotency keys of questions
  Tries,         \* rounds of a compare-and-set loop (6)
  MaxMessages,   \* bound on the messages of a thread
  MaxRevisions,  \* bound on the proposal revisions of a behaviour
  MaxAsks,       \* bound on the requests
  NoQuestion,    \* the key of an answer
  NoThread

ASSUME ProposalsAssumption ==
  /\ Tries \in Nat \ {0} /\ MaxMessages \in Nat /\ MaxRevisions \in Nat /\ MaxAsks \in Nat
  /\ NoQuestion \notin Keys /\ NoThread \notin Threads

\* ReadingActivity
CONSTANTS
  IdleThreshold,  \* idleThresholdMs
  MaxTick,        \* maxTickMs
  MaxSpan,        \* MAX_HEARTBEAT_INTERVAL_SECONDS
  Midnight,       \* the local day changes here
  MaxTime,        \* bound on the clock
  Never           \* null

ASSUME ActivityAssumption ==
  /\ IdleThreshold \in Nat /\ MaxTick \in Nat \ {0} /\ MaxSpan \in Nat
  /\ Midnight \in Nat /\ MaxTime \in Nat /\ Never \notin Nat

\* ReaderPosition
CONSTANTS
  LastPlace,   \* the last place of the text
  MaxReports,  \* bound on the reports of a behaviour
  MaxOpens,    \* bound on the openings of the page
  MaxMoves     \* bound on the moves of the reader

ASSUME PositionAssumption ==
  /\ LastPlace \in Nat /\ LastPlace > 1
  /\ MaxReports \in Nat /\ MaxOpens \in Nat /\ MaxMoves \in Nat
  /\ None \notin [place: 0..LastPlace, at: 1..MaxReports]

\* AskAiPanel
CONSTANTS
  Talks,    \* threads of the server
  MaxAsked  \* bound on the questions

\* ReaderContent
CONSTANT MaxFocusing  \* bound on the reports of the position under way

\* ReaderNotes
CONSTANTS
  MaxNotes,  \* bound on the highlights
  MaxCalls   \* bound on the requests under way

ASSUME PageAssumption ==
  /\ MaxAsked \in Nat /\ MaxFocusing \in Nat /\ MaxNotes \in Nat /\ MaxCalls \in Nat
  /\ None \notin Talks \cup Nat
  /\ None \notin [index : Nat \ {0}, question : 1..MaxAsked, thread : Talks \cup {None},
                  stage : {"sent", "open", "heard"}]
=============================================================================
