------------------------ MODULE ReadingSetupContract ------------------------
(***************************************************************************)
(* What a reading-setup session promises to its user, with the requests,   *)
(* the queue, the attempts and their failures abstracted away: turns are   *)
(* atomic and happen one at a time, and the book becomes active once, on   *)
(* the strength of confirmations the user gave.                            *)
(*                                                                         *)
(* ReadingSetupRun implements this specification with the same variables.  *)
(***************************************************************************)
CONSTANTS Runs, Strategies, Trials, Prose, None

VARIABLES
  messages,   \* committed calls and prose
  actions,    \* committed user actions
  activeRun,  \* the run whose turn it is
  input,      \* the input each run was admitted with
  workflow,   \* on_shelf or active_reading
  current,    \* the trial and strategy the book was activated from
  finished    \* the terminal events announced for each run

vars == <<messages, actions, activeRun, input, workflow, current, finished>>

NoInput == [type |-> "none", target |-> None]
Committed(r) == \E m \in messages : m.id = Prose /\ m.run = r
ConfirmedIn(history, id) == \E a \in history : a.type = "confirmation" /\ a.target = id

Init ==
  /\ messages = {} /\ actions = {} /\ activeRun = None
  /\ input = [r \in Runs |-> NoInput]
  /\ workflow = "on_shelf" /\ current = None
  /\ finished = [r \in Runs |-> {}]

\* A turn begins: no other is under way, and the opening turn is the first one.
Admit(r) ==
  /\ activeRun = None /\ activeRun' = r
  /\ input[r] = NoInput /\ input'[r] # NoInput
  /\ input'[r].type = "session_start" => messages = {} /\ actions = {}
  /\ input'[r].type = "confirmation" => \E m \in messages : m.id = input'[r].target
  /\ input' = [input EXCEPT ![r] = input'[r]]
  /\ UNCHANGED <<messages, actions, workflow, current, finished>>

\* A turn ends well: everything it produced is appended at once, with the user's
\* action; a trial among it was made with a strategy confirmed by then.
Commit(r) ==
  /\ activeRun = r /\ activeRun' = None
  /\ messages \subseteq messages' /\ actions \subseteq actions'
  /\ [id |-> Prose, refs |-> {}, run |-> r] \in messages'
  /\ \A m \in messages' \ messages :
       /\ m.run = r
       /\ m.id \in Trials =>
            \E s \in Strategies : /\ m.refs = {s}
                                  /\ \E c \in messages' : c.id = s
                                  /\ ConfirmedIn(actions', s)
  /\ \A a \in actions' \ actions : a.run = r /\ [type |-> a.type, target |-> a.target] = input[r]
  /\ input[r].type = "confirmation" => ConfirmedIn(actions', input[r].target)
  /\ UNCHANGED <<input, workflow, current, finished>>

\* A turn fails: nothing of it remains.
Abandon(r) ==
  /\ activeRun = r /\ activeRun' = None
  /\ UNCHANGED <<messages, actions, input, workflow, current, finished>>

\* The book becomes active, during a turn, from a trial of an earlier turn that
\* the user has confirmed, made with a strategy confirmed in an earlier turn.
Activate(r) ==
  /\ activeRun = r
  /\ workflow = "on_shelf" /\ workflow' = "active_reading"
  /\ \E t \in messages, s \in messages :
       /\ current' = [trial |-> t.id, strategy |-> s.id]
       /\ t.id \in Trials /\ s.id \in Strategies /\ t.refs = {s.id}
       /\ ConfirmedIn(actions, s.id)
       /\ \/ ConfirmedIn(actions, t.id)
          \/ input[r] = [type |-> "confirmation", target |-> t.id]
  /\ UNCHANGED <<messages, actions, activeRun, input, finished>>

\* The outcome of a turn is announced after it is settled.
Announce(r) ==
  /\ activeRun # r /\ input[r] # NoInput
  /\ finished' = [finished EXCEPT ![r] = @ \cup {IF Committed(r) THEN "completed" ELSE "failed"}]
  /\ UNCHANGED <<messages, actions, activeRun, input, workflow, current>>

Next == \E r \in Runs : Admit(r) \/ Commit(r) \/ Abandon(r) \/ Activate(r) \/ Announce(r)

Spec == Init /\ [][Next]_vars
=============================================================================
