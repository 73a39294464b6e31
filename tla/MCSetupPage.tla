---------------------------- MODULE MCSetupPage ----------------------------
(***************************************************************************)
(* Instances for TLC of the components between a run of the reading setup  *)
(* and the page that shows it: the event stream with the sink before it,   *)
(* the page's session and its transcript.  They share no state in the      *)
(* models: a behaviour is one of a single component, chosen by focus,      *)
(* while the others stay as they began.                                    *)
(***************************************************************************)
EXTENDS AgentRunStream

VARIABLES
  focus,
  log, queue, active, projected, promise, failed, flushes,
  server, page, query, refresh, post, told, overtaken,
  history, actions, run, shot, order, whole

sink     == <<log, queue, active, projected, promise, failed, flushes>>
client   == <<server, page, query, refresh, post, told, overtaken>>
dialogue == <<history, actions, run, shot, order, whole>>
MCvars   == <<focus, vars, sink, client, dialogue>>

Sink     == INSTANCE CoalescingSink
Client   == INSTANCE SetupClient
Dialogue == INSTANCE SetupTranscript

MCInit ==
  /\ focus \in {"stream", "sink", "client", "dialogue"}
  /\ Init /\ Sink!Init /\ Client!Init /\ Dialogue!Init

MCNext ==
  /\ UNCHANGED focus
  /\ \/ focus = "stream" /\ Next /\ UNCHANGED <<sink, client, dialogue>>
     \/ focus = "sink" /\ Sink!Next /\ UNCHANGED <<vars, client, dialogue>>
     \/ focus = "client" /\ Client!Next /\ UNCHANGED <<vars, sink, dialogue>>
     \/ focus = "dialogue" /\ Dialogue!Next /\ UNCHANGED <<vars, sink, client>>

\* A component is the one of this behaviour; the others are as Init left them.
On(component) == focus = component

MCSpec == MCInit /\ [][MCNext]_MCvars

\* The fairness is the stream's, where a behaviour is one of the stream: the others have no
\* liveness property, and beside them the stream stands still.
FairSpec == MCSpec /\ (On("stream") => Fairness)

(***************************************************************************)
(* The properties of the components, by their names there                  *)
(***************************************************************************)
\* Every component is in a state of its types.
MCTypeOK == /\ On("stream") => TypeOK
            /\ On("sink") => Sink!TypeOK
            /\ On("client") => Client!TypeOK
            /\ On("dialogue") => Dialogue!TypeOK

\* The page shows what was published of its run, and its end (AgentRunStream).
ViewIsTrue == ViewWasPublished /\ EndIsTrue

\* Merging never mixes two content slots or two tool calls, and nobody waits for an item the
\* pump has not got (CoalescingSink).
SinkIsSound == On("sink") => Sink!NoCrossMerge /\ Sink!WaitersAreHeld
\* Events are projected once each, in order, before whoever waits is told (CoalescingSink).
ImplementsChannel == Sink!ImplementsChannel

\* The page observes the run it was told of, and is locked, while it is active (SetupClient).
PageFollowsSession == On("client") => Client!PageFollowsSession

\* What was shown of a run stays as it is when the run ends, and what the page offers is
\* accepted by the server (SetupTranscript).
TranscriptIsTrue == On("dialogue") => Dialogue!LiveBecomesCommitted /\ Dialogue!OffersAreTaken
=============================================================================
