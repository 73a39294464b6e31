------------------------- MODULE SetupPageConstants -------------------------
(***************************************************************************)
(* The parameters of the components between a run of the reading setup and *)
(* the page that shows it, and what is assumed of them.  The components    *)
(* are specified one by one and checked in one run (MCSetupPage), which    *)
(* gives these their values.                                               *)
(***************************************************************************)
EXTENDS Naturals, Null

\* CoalescingSink
CONSTANTS
  Callers,     \* concurrent calls of emit and flush (tools run in parallel)
  Texts,       \* content slots (contentIndex) of the message that hold text ...
  Tools,       \* ... and those that hold the arguments of a tool call
  Ids,         \* tool call ids
  SinkEvents,  \* bound on the events and barriers of a behaviour
  SinkFlushes  \* bound on its barriers

ASSUME SinkAssumption ==
  /\ SinkEvents \in Nat /\ SinkFlushes \in Nat
  /\ None \notin Texts \cup Tools \cup Ids \cup Callers

\* SetupClient
CONSTANT MaxRuns  \* bound on the runs of a session

\* The first request for a session starts its first run.
ASSUME ClientAssumption ==
  /\ MaxRuns \in Nat \ {0}
  /\ None \notin Nat /\ None \notin [last: 0..MaxRuns, live: BOOLEAN]

\* SetupTranscript
CONSTANT MaxParts  \* bound on the texts and the tool calls of a behaviour

ASSUME TranscriptAssumption == MaxParts \in Nat
=============================================================================
