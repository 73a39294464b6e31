-------------------------- MODULE ReadingSetupRun --------------------------
(***************************************************************************)
(* One agent-driven reading-setup session and the background runs that     *)
(* write it.                                                               *)
(*                                                                         *)
(* API requests (apps/api/src/agent-driven-reading-setup.ts) admit a user  *)
(* input: they read the session, validate the input, check the book, claim *)
(* the session row for a fresh run id and enqueue a BullMQ job.  Workers   *)
(* (apps/worker/src/agent-run) execute the job: an attempt reads the       *)
(* session once, lets the agent call tools against that copy, and writes   *)
(* the extended copy back with one conditional UPDATE.  The tool           *)
(* complete_reading_setup activates the book in a transaction of its own,  *)
(* before the run commits.  Jobs are retried, stall (a second attempt then *)
(* runs beside the first) and processes crash between any two steps.       *)
(***************************************************************************)
EXTENDS Naturals

CONSTANTS
  Runs,          \* run ids (randomUUID), each claimed at most once
  Requests,      \* API requests in flight
  Workers,       \* slots of the agent-run workers
  Briefs,        \* tool-call ids of publish_brief,
  Profiles,      \*   publish_book_reader_profile,
  Questions,     \*   present_question,
  Strategies,    \*   publish_strategy,
  Trials,        \*   generate_trial_slice
  Completions,   \*   and complete_reading_setup
  UserInputs,    \* the input types users submit in this instance
  Faults,        \* the kinds of failure that may happen in this instance
  MaxFaults,     \* bound on the failures of one behaviour
  MaxAttempts,   \* attempts of a job (AGENT_RUN_DEFAULT_JOB_OPTIONS)
  MaxStalls,     \* stalls BullMQ forgives before it fails the job
  Prose,         \* stands for the assistant text and the user prompt of a run
  None           \* SQL NULL

ToolCalls == Briefs \cup Profiles \cup Questions \cup Strategies \cup Trials \cup Completions

InputTypes == {"session_start", "message", "question_answer", "feedback", "confirmation"}

FaultKinds == {"enqueue_error", "api_crash", "worker_crash", "stall", "attempt_error",
               "commit_unacknowledged", "publish_error", "cleanup_lost"}

ASSUME ReadingSetupAssumption ==
  /\ MaxFaults \in Nat /\ MaxAttempts \in Nat \ {0} /\ MaxStalls \in Nat
  /\ UserInputs \subseteq InputTypes \ {"session_start"}
  /\ Faults \subseteq FaultKinds
  /\ None \notin Runs \cup Workers \cup ToolCalls
  /\ Prose \notin ToolCalls
  /\ Strategies \cap (Briefs \cup Profiles \cup Questions \cup Trials \cup Completions) = {}
  /\ Trials \cap (Briefs \cup Profiles \cup Questions \cup Strategies \cup Completions) = {}

VARIABLES
  created,    \* the reading_setup_sessions row exists
  messages,   \* agentState.messages of the row: its successful calls and prose
  actions,    \* agentState.actions of the row
  activeRun,  \* activeRunId of the row
  input,      \* the input each run was claimed for
  workflow,   \* user_books.workflow_status
  current,    \* what user_books.current_strategy_version_id was built from
  versions,   \* number of strategy_versions rows of the book
  job,        \* the BullMQ job of each run
  cleanup,    \* the onTerminalFailure handler of each run
  finished,   \* run_finished events published for each run
  request,    \* the API requests
  attempt,    \* the attempts executing on the workers
  faults      \* failures so far (bound: MaxFaults)

session == <<created, messages, actions, activeRun>>
book    == <<workflow, current, versions>>
queue   == <<job, cleanup>>
vars    == <<session, input, book, queue, finished, request, attempt, faults>>

Input   == [type: InputTypes, target: ToolCalls \cup {None}]
NoInput == [type |-> "none", target |-> None]
Message == [id: ToolCalls \cup {Prose}, refs: SUBSET ToolCalls, run: Runs]
Action  == [type: InputTypes, target: ToolCalls, run: Runs]
Grounds == [trial: Trials, strategy: Strategies]
Job     == [status: {"absent", "waiting", "active", "completed", "failed"},
            owner: Workers \cup {None}, made: 0..MaxAttempts, stalls: 0..(MaxStalls + 1)]
Request == [pc: {"idle", "validated", "eligible", "entering", "initial", "claimed", "undo"},
            input: Input \cup {NoInput}, run: Runs \cup {None}]
Attempt == [pc: {"idle", "looping", "committed"}, run: Runs \cup {None},
            messages: SUBSET Message, actions: SUBSET Action, fresh: SUBSET Message]

NoJob     == [status |-> "absent", owner |-> None, made |-> 0, stalls |-> 0]
NoRequest == [pc |-> "idle", input |-> NoInput, run |-> None]
NoAttempt == [pc |-> "idle", run |-> None, messages |-> {}, actions |-> {}, fresh |-> {}]

TypeOK ==
  /\ created \in BOOLEAN
  /\ messages \in SUBSET Message
  /\ actions \in SUBSET Action
  /\ activeRun \in Runs \cup {None}
  /\ input \in [Runs -> Input \cup {NoInput}]
  /\ workflow \in {"on_shelf", "active_reading"}
  /\ current \in Grounds \cup {None}
  /\ versions \in Nat
  /\ job \in [Runs -> Job]
  /\ cleanup \in [Runs -> {"none", "pending", "cleared"}]
  /\ finished \in [Runs -> SUBSET {"completed", "failed"}]
  /\ request \in [Requests -> Request]
  /\ attempt \in [Workers -> Attempt]
  /\ faults \in 0..MaxFaults

(***************************************************************************)
(* Reading a transcript                                                    *)
(***************************************************************************)
Successful(calls, id) == \E c \in calls : c.id = id

\* The runs whose commit is in the row: each leaves at least its own prose.
Committed(r) == \E m \in messages : m.id = Prose /\ m.run = r

Confirmed(w, id) ==
  \/ input[attempt[w].run] = [type |-> "confirmation", target |-> id]
  \/ \E a \in attempt[w].actions : a.type = "confirmation" /\ a.target = id

History(w) == attempt[w].messages \cup attempt[w].fresh

Fails(kind) == kind \in Faults /\ faults < MaxFaults /\ faults' = faults + 1

Init ==
  /\ created = FALSE /\ messages = {} /\ actions = {} /\ activeRun = None
  /\ input = [r \in Runs |-> NoInput]
  /\ workflow = "on_shelf" /\ current = None /\ versions = 0
  /\ job = [r \in Runs |-> NoJob]
  /\ cleanup = [r \in Runs |-> "none"]
  /\ finished = [r \in Runs |-> {}]
  /\ request = [c \in Requests |-> NoRequest]
  /\ attempt = [w \in Workers |-> NoAttempt]
  /\ faults = 0

(***************************************************************************)
(* API requests                                                            *)
(***************************************************************************)
Goto(c, pc) == request' = [request EXCEPT ![c].pc = pc]
Answer(c)   == request' = [request EXCEPT ![c] = NoRequest]

\* What submitQuestionAnswer, submitFeedback and submitConfirmation accept,
\* judged on the session row as it is at that moment.
Acceptable(in) ==
  CASE in.type = "message" -> in.target = None
    [] in.type = "question_answer" -> in.target \in Questions /\ Successful(messages, in.target)
    [] in.type = "feedback" -> in.target \in Strategies \cup Trials
                               /\ Successful(messages, in.target)
    [] in.type = "confirmation" ->
         /\ in.target \in Strategies \cup Trials
         /\ Successful(messages, in.target)
         /\ ~ \E a \in actions : a.type = "confirmation" /\ a.target = in.target
    [] OTHER -> FALSE

\* submitAction: the session row is read and the input validated against it.
Submit(c, in) ==
  /\ request[c].pc = "idle"
  /\ created
  /\ Acceptable(in)
  /\ request' = [request EXCEPT ![c] = [pc |-> "validated", input |-> in, run |-> None]]
  /\ UNCHANGED <<session, input, book, queue, finished, attempt, faults>>

\* startRun: the book must still be on the shelf, else 409.
CheckEligible(c) ==
  /\ request[c].pc = "validated"
  /\ IF workflow = "on_shelf" THEN Goto(c, "eligible") ELSE Answer(c)
  /\ UNCHANGED <<session, input, book, queue, finished, attempt, faults>>

\* Bound: an instance has Cardinality(Runs) run ids; a request that finds none
\* left is answered without a run, like one that loses the claim.
RunIdsLeft == \E r \in Runs : input[r] = NoInput

\* claimRun: one UPDATE conditional on active_run_id being NULL; a loser is
\* answered with the run that is already active.
ClaimRun(c) ==
  /\ request[c].pc = "eligible"
  /\ IF activeRun = None /\ RunIdsLeft
       THEN \E r \in Runs :
              /\ input[r] = NoInput
              /\ activeRun' = r
              /\ input' = [input EXCEPT ![r] = request[c].input]
              /\ request' = [request EXCEPT ![c] = [pc |-> "claimed", input |-> @.input, run |-> r]]
       ELSE Answer(c) /\ UNCHANGED <<activeRun, input>>
  /\ UNCHANGED <<created, messages, actions, book, queue, finished, attempt, faults>>

\* getOrCreateSession starts with the same eligibility check ...
Enter(c) ==
  /\ request[c].pc = "idle"
  /\ workflow = "on_shelf"
  /\ Goto(c, "entering")
  /\ UNCHANGED <<session, input, book, queue, finished, attempt, faults>>

\* ... reads the session or inserts it (a concurrent insert wins silently), and
\* is done when the row it read already holds history.
LoadOrCreate(c) ==
  /\ request[c].pc = "entering"
  /\ created' = TRUE
  /\ IF messages = {} /\ actions = {} THEN Goto(c, "initial") ELSE Answer(c)
  /\ UNCHANGED <<messages, actions, activeRun, input, book, queue, finished, attempt, faults>>

\* Mutant of ClaimInitialRun: claims like claimRun, without re-checking the history.
ClaimInitialRunLikeAnyOther(c) ==
  /\ request[c].pc = "initial"
  /\ IF activeRun = None /\ RunIdsLeft
       THEN \E r \in Runs :
              /\ input[r] = NoInput
              /\ activeRun' = r
              /\ input' = [input EXCEPT ![r] = [type |-> "session_start", target |-> None]]
              /\ request' = [request EXCEPT ![c] = [pc |-> "claimed", input |-> @.input, run |-> r]]
       ELSE Answer(c) /\ UNCHANGED <<activeRun, input>>
  /\ UNCHANGED <<created, messages, actions, book, queue, finished, attempt, faults>>

\* ensureInitialRun: claimInitialRun re-checks, in the UPDATE, that the history
\* is empty and no run is active.
ClaimInitialRun(c) ==
  /\ request[c].pc = "initial"
  /\ IF activeRun = None /\ messages = {} /\ actions = {} /\ RunIdsLeft
       THEN \E r \in Runs :
              /\ input[r] = NoInput
              /\ activeRun' = r
              /\ input' = [input EXCEPT ![r] = [type |-> "session_start", target |-> None]]
              /\ request' = [request EXCEPT ![c] = [pc |-> "claimed", input |-> @.input, run |-> r]]
       ELSE Answer(c) /\ UNCHANGED <<activeRun, input>>
  /\ UNCHANGED <<created, messages, actions, book, queue, finished, attempt, faults>>

\* enqueueClaimedRun: queue.add with the run id as job id.
Enqueue(c) ==
  /\ request[c].pc = "claimed"
  /\ job' = [job EXCEPT ![request[c].run].status = "waiting"]
  /\ Answer(c)
  /\ UNCHANGED <<session, input, book, cleanup, finished, attempt, faults>>

\* queue.add throws; whether Redis kept the job is unknown.
EnqueueError(c) ==
  /\ request[c].pc = "claimed"
  /\ Fails("enqueue_error")
  /\ \/ UNCHANGED job
     \/ job' = [job EXCEPT ![request[c].run].status = "waiting"]
  /\ Goto(c, "undo")
  /\ UNCHANGED <<session, input, book, cleanup, finished, attempt>>

\* The UPDATE of failRun: the run gives the session up only while it holds it.
Release(r) == activeRun' = IF activeRun = r THEN None ELSE activeRun

\* Mutant of UndoClaim: answers 503 and leaves the claim in the row.
UndoNothing(c) ==
  /\ request[c].pc = "undo"
  /\ Answer(c)
  /\ UNCHANGED <<session, input, book, queue, finished, attempt, faults>>

\* The catch of enqueueClaimedRun: failRun, then 503.
UndoClaim(c) ==
  /\ request[c].pc = "undo"
  /\ Release(request[c].run)
  /\ Answer(c)
  /\ UNCHANGED <<created, messages, actions, input, book, queue, finished, attempt, faults>>

ApiCrash(c) ==
  /\ request[c].pc # "idle"
  /\ Fails("api_crash")
  /\ Answer(c)
  /\ UNCHANGED <<session, input, book, queue, finished, attempt>>

(***************************************************************************)
(* Workers                                                                 *)
(***************************************************************************)
\* A job in another state, with the attempts and stalls it had.
Marked(j, status, owner) == [status |-> status, owner |-> owner, made |-> j.made, stalls |-> j.stalls]

\* A worker takes the job and execute() reads the session row.  If the row no
\* longer names this run the attempt is stale and the job completes.
StartAttempt(w, r) ==
  /\ attempt[w].pc = "idle"
  /\ job[r].status = "waiting"
  /\ IF activeRun = r
       THEN /\ job' = [job EXCEPT ![r] = Marked(@, "active", w)]
            /\ attempt' = [attempt EXCEPT ![w] =
                 [pc |-> "looping", run |-> r, messages |-> messages,
                  actions |-> actions, fresh |-> {}]]
       ELSE /\ job' = [job EXCEPT ![r].status = "completed"]
            /\ UNCHANGED attempt
  /\ UNCHANGED <<session, input, book, cleanup, finished, request, faults>>

\* A tool call that succeeds in the agent loop of attempt w.
Record(w, id, refs) ==
  attempt' = [attempt EXCEPT ![w].fresh =
                @ \cup {[id |-> id, refs |-> refs, run |-> attempt[w].run]}]

\* One turn of the model may hold any number of calls, so that the loop stops
\* after a turn with a successful question, strategy, trial or completion rules
\* out no sequence of calls.
CallTool(w, id) ==
  /\ attempt[w].pc = "looping"
  /\ ~ Successful(History(w), id)

\* publish_brief, publish_book_reader_profile and present_question check nothing.
Publish(w) ==
  \E id \in Briefs \cup Profiles \cup Questions :
    /\ CallTool(w, id)
    /\ Record(w, id, {})
    /\ UNCHANGED <<session, input, book, queue, finished, request, faults>>

\* publish_strategy names a successful brief and a successful profile.
PublishStrategy(w) ==
  \E id \in Strategies, b \in Briefs, p \in Profiles :
    /\ CallTool(w, id)
    /\ Successful(History(w), b)
    /\ Successful(History(w), p)
    /\ Record(w, id, {b, p})
    /\ UNCHANGED <<session, input, book, queue, finished, request, faults>>

\* Mutant of GenerateTrial: a successful strategy is enough, confirmed or not.
GenerateTrialUnconfirmed(w) ==
  \E id \in Trials, s \in Strategies :
    /\ CallTool(w, id)
    /\ \E c \in History(w) : c.id = s /\ \E p \in Profiles \cap c.refs : Successful(History(w), p)
    /\ Record(w, id, {s})
    /\ UNCHANGED <<session, input, book, queue, finished, request, faults>>

\* generate_trial_slice names a successful strategy the user has confirmed,
\* whose profile is successful too.
GenerateTrial(w) ==
  \E id \in Trials, s \in Strategies :
    /\ CallTool(w, id)
    /\ Confirmed(w, s)
    /\ \E c \in History(w) : c.id = s /\ \E p \in Profiles \cap c.refs : Successful(History(w), p)
    /\ Record(w, id, {s})
    /\ UNCHANGED <<session, input, book, queue, finished, request, faults>>

\* Mutant of ActivationChain: the confirmation of the trial is not looked for.
ActivationChainUnconfirmed(w, t, s) ==
  LET seen == attempt[w].messages IN
  /\ Confirmed(w, s)
  /\ \E c \in seen : c.id = t /\ c.refs = {s}
  /\ \E c \in seen : /\ c.id = s
                     /\ \E b \in Briefs \cap c.refs : Successful(seen, b)
                     /\ \E p \in Profiles \cap c.refs : Successful(seen, p)

\* The chain activation walks, in the copy of the session the attempt read:
\* trial, its confirmation, its strategy, its confirmation, brief and profile.
ActivationChain(w, t, s) ==
  LET seen == attempt[w].messages IN
  /\ Confirmed(w, t)
  /\ Confirmed(w, s)
  /\ \E c \in seen : c.id = t /\ c.refs = {s}
  /\ \E c \in seen : /\ c.id = s
                     /\ \E b \in Briefs \cap c.refs : Successful(seen, b)
                     /\ \E p \in Profiles \cap c.refs : Successful(seen, p)

\* Mutant of CompleteSetup: a repeated call activates again.
CompleteSetupAgain(w) ==
  \E id \in Completions, t \in Trials, s \in Strategies :
    /\ CallTool(w, id)
    /\ activeRun = attempt[w].run
    /\ ActivationChain(w, t, s)
    /\ versions' = versions + 1
    /\ current' = [trial |-> t, strategy |-> s]
    /\ workflow' = "active_reading"
    /\ Record(w, id, {t})
    /\ UNCHANGED <<session, input, queue, finished, request, faults>>

\* Mutant of CompleteSetup: the transaction does not ask who holds the session.
CompleteSetupUnfenced(w) ==
  \E id \in Completions, t \in Trials, s \in Strategies :
    /\ CallTool(w, id)
    /\ ActivationChain(w, t, s)
    /\ workflow = "on_shelf"
    /\ versions' = versions + 1
    /\ current' = [trial |-> t, strategy |-> s]
    /\ workflow' = "active_reading"
    /\ Record(w, id, {t})
    /\ UNCHANGED <<session, input, queue, finished, request, faults>>

\* complete_reading_setup: one transaction that holds the session and the book
\* row.  A book that is already active is answered with its current strategy.
CompleteSetup(w) ==
  \E id \in Completions, t \in Trials, s \in Strategies :
    /\ CallTool(w, id)
    /\ activeRun = attempt[w].run
    /\ ActivationChain(w, t, s)
    /\ IF workflow = "active_reading" /\ current # None
         THEN UNCHANGED book
         ELSE /\ workflow = "on_shelf"
              /\ versions' = versions + 1
              /\ current' = [trial |-> t, strategy |-> s]
              /\ workflow' = "active_reading"
    /\ Record(w, id, {t})
    /\ UNCHANGED <<session, input, queue, finished, request, faults>>

\* Mutant of ActionOf: every input is recorded as an action on a target.
ActionOfAnyInput(r) == {[type |-> input[r].type, target |-> input[r].target, run |-> r]}

\* The action a run appends to the history when it commits.
ActionOf(r) ==
  IF input[r].type \in {"question_answer", "feedback", "confirmation"}
  THEN {[type |-> input[r].type, target |-> input[r].target, run |-> r]}
  ELSE {}

Text(r) == [id |-> Prose, refs |-> {}, run |-> r]

\* The worker slot is free; the job settles only if this attempt still owns it.
JobCompletes(w) ==
  LET r == attempt[w].run IN
  job' = IF job[r].owner = w
           THEN [job EXCEPT ![r] = Marked(@, "completed", None)]
           ELSE job

\* The attempt throws.  The owner's job is retried, or fails for good and its
\* 'failed' event starts onTerminalFailure; a former owner changes nothing.
JobThrows(w) ==
  LET r    == attempt[w].run
      last == job[r].made + 1 >= MaxAttempts
  IN  IF job[r].owner = w
        THEN /\ job' = [job EXCEPT ![r] = [status |-> IF last THEN "failed" ELSE "waiting",
                                          owner |-> None, made |-> @.made + 1, stalls |-> @.stalls]]
             /\ cleanup' = IF last THEN [cleanup EXCEPT ![r] = "pending"] ELSE cleanup
        ELSE UNCHANGED queue

Leave(w) == attempt' = [attempt EXCEPT ![w] = NoAttempt]

\* Mutant of CommitRun: the UPDATE does not name the run.
CommitRunUnfenced(w) ==
  LET r == attempt[w].run IN
  /\ attempt[w].pc = "looping"
  /\ messages' = attempt[w].messages \cup attempt[w].fresh \cup {Text(r)}
  /\ actions' = attempt[w].actions \cup ActionOf(r)
  /\ activeRun' = None
  /\ attempt' = [attempt EXCEPT ![w].pc = "committed"]
  /\ UNCHANGED <<created, input, book, queue, finished, request, faults>>

\* Mutant of CommitRun: the UPDATE wants some run to be active, not this one.
CommitRunOfAnyHolder(w) ==
  /\ activeRun # None
  /\ CommitRunUnfenced(w)

\* Mutant of CommitRun: the UPDATE leaves active_run_id alone.
CommitRunKeepsSession(w) ==
  LET r == attempt[w].run IN
  /\ attempt[w].pc = "looping"
  /\ activeRun = r
  /\ messages' = attempt[w].messages \cup attempt[w].fresh \cup {Text(r)}
  /\ actions' = attempt[w].actions \cup ActionOf(r)
  /\ attempt' = [attempt EXCEPT ![w].pc = "committed"]
  /\ UNCHANGED <<created, activeRun, input, book, queue, finished, request, faults>>

\* The loop ends and commitRun, one UPDATE conditional on active_run_id being
\* this run, replaces the whole agent state by the attempt's extended copy.
CommitRun(w) ==
  LET r == attempt[w].run IN
  /\ attempt[w].pc = "looping"
  /\ activeRun = r
  /\ messages' = attempt[w].messages \cup attempt[w].fresh \cup {Text(r)}
  /\ actions' = attempt[w].actions \cup ActionOf(r)
  /\ activeRun' = None
  /\ \/ attempt' = [attempt EXCEPT ![w].pc = "committed"] /\ UNCHANGED <<queue, faults>>
     \/ Fails("commit_unacknowledged") /\ Leave(w) /\ JobThrows(w)
  /\ UNCHANGED <<created, input, book, finished, request>>

\* commitRun matches no row: the outcome is 'stale' and the job completes.
CommitStale(w) ==
  /\ attempt[w].pc = "looping"
  /\ activeRun # attempt[w].run
  /\ Leave(w)
  /\ JobCompletes(w)
  /\ UNCHANGED <<session, input, book, cleanup, finished, request, faults>>

\* The model, a tool, an event publication or the state-size check throws.
AttemptError(w) ==
  /\ attempt[w].pc = "looping"
  /\ Fails("attempt_error")
  /\ Leave(w)
  /\ JobThrows(w)
  /\ UNCHANGED <<session, input, book, finished, request>>

\* executeAgentRun publishes run_finished(completed) after a commit.
PublishCompleted(w) ==
  /\ attempt[w].pc = "committed"
  /\ finished' = [finished EXCEPT ![attempt[w].run] = @ \cup {"completed"}]
  /\ Leave(w)
  /\ JobCompletes(w)
  /\ UNCHANGED <<session, input, book, cleanup, request, faults>>

\* The flush or the publication after the commit throws.
PublishError(w) ==
  /\ attempt[w].pc = "committed"
  /\ Fails("publish_error")
  /\ Leave(w)
  /\ JobThrows(w)
  /\ UNCHANGED <<session, input, book, finished, request>>

WorkerCrash(w) ==
  /\ attempt[w].pc # "idle"
  /\ Fails("worker_crash")
  /\ Leave(w)
  /\ UNCHANGED <<session, input, book, queue, finished, request>>

(***************************************************************************)
(* The queue                                                               *)
(***************************************************************************)
\* Mutant of Requeue: a job that fails by stalling starts no failure handler,
\* because only the attempts made are counted.
RequeueWithoutCleanup(r) ==
  /\ job[r].status = "active"
  /\ job' = [job EXCEPT ![r] = [status |-> IF @.stalls >= MaxStalls THEN "failed" ELSE "waiting",
                                owner |-> None, made |-> @.made, stalls |-> @.stalls + 1]]
  /\ UNCHANGED <<session, input, book, cleanup, finished, request, attempt>>

\* The lock of an active job expires: BullMQ hands the job out again, or fails
\* it with an UnrecoverableError when it stalled more often than it forgives.
Requeue(r) ==
  /\ job[r].status = "active"
  /\ LET last == job[r].stalls >= MaxStalls IN
     /\ job' = [job EXCEPT ![r] = [status |-> IF last THEN "failed" ELSE "waiting",
                                   owner |-> None, made |-> @.made, stalls |-> @.stalls + 1]]
     /\ cleanup' = IF last THEN [cleanup EXCEPT ![r] = "pending"] ELSE cleanup
  /\ UNCHANGED <<session, input, book, finished, request, attempt>>

\* The lock expires although its holder is still working on the job.
Stall(r) ==
  /\ job[r].owner # None /\ attempt[job[r].owner].run = r
  /\ Fails("stall")
  /\ Requeue(r)

\* The lock of a crashed holder expires.
RecoverCrashed(r) ==
  /\ job[r].owner # None /\ attempt[job[r].owner].run # r
  /\ Requeue(r)
  /\ UNCHANGED faults

\* Mutant of FailRun: the failure is announced whatever failRun answered.
FailRunAnyway(r) ==
  /\ cleanup[r] = "pending"
  /\ Release(r)
  /\ cleanup' = [cleanup EXCEPT ![r] = "cleared"]
  /\ UNCHANGED <<created, messages, actions, input, book, job, finished, request, attempt, faults>>

\* failAgentRun, first half: failRun; a run that no longer holds the session is
\* 'stale' and nothing is published.
FailRun(r) ==
  /\ cleanup[r] = "pending"
  /\ Release(r)
  /\ cleanup' = [cleanup EXCEPT ![r] = IF activeRun = r THEN "cleared" ELSE "none"]
  /\ UNCHANGED <<created, messages, actions, input, book, job, finished, request, attempt, faults>>

\* failAgentRun, second half: run_finished(failed).
PublishFailed(r) ==
  /\ cleanup[r] = "cleared"
  /\ finished' = [finished EXCEPT ![r] = @ \cup {"failed"}]
  /\ cleanup' = [cleanup EXCEPT ![r] = "none"]
  /\ UNCHANGED <<session, input, book, job, request, attempt, faults>>

\* onTerminalFailure throws (it is only logged) or its process dies.
CleanupLost(r) ==
  /\ cleanup[r] # "none"
  /\ Fails("cleanup_lost")
  /\ cleanup' = [cleanup EXCEPT ![r] = "none"]
  /\ UNCHANGED <<session, input, book, job, finished, request, attempt>>

(***************************************************************************)
(* Specification                                                           *)
(***************************************************************************)
UserInput == {in \in Input : in.type \in UserInputs}

RequestStep(c) ==
  \/ \E in \in UserInput : Submit(c, in)
  \/ CheckEligible(c) \/ ClaimRun(c)
  \/ Enter(c) \/ LoadOrCreate(c) \/ ClaimInitialRun(c)
  \/ Enqueue(c) \/ EnqueueError(c) \/ UndoClaim(c) \/ ApiCrash(c)

ToolStep(w) == Publish(w) \/ PublishStrategy(w) \/ GenerateTrial(w) \/ CompleteSetup(w)

WorkerStep(w) ==
  \/ \E r \in Runs : StartAttempt(w, r)
  \/ ToolStep(w)
  \/ CommitRun(w) \/ CommitStale(w) \/ AttemptError(w)
  \/ PublishCompleted(w) \/ PublishError(w) \/ WorkerCrash(w)

QueueStep(r) == Stall(r) \/ RecoverCrashed(r) \/ FailRun(r) \/ PublishFailed(r) \/ CleanupLost(r)

Next ==
  \/ \E c \in Requests : RequestStep(c)
  \/ \E w \in Workers : WorkerStep(w)
  \/ \E r \in Runs : QueueStep(r)

Spec == Init /\ [][Next]_vars

\* Fairness of a system that keeps running: an API request proceeds with its
\* next statement, a waiting job is taken, an agent loop ends (nothing bounds
\* its turns: the model provider is trusted to stop), expired locks are found
\* and failure handlers run.  Users owe nothing: Submit and Enter are not fair.
Proceed(c) ==
  \/ CheckEligible(c) \/ ClaimRun(c) \/ LoadOrCreate(c) \/ ClaimInitialRun(c)
  \/ Enqueue(c) \/ UndoClaim(c)

Fairness ==
  /\ \A c \in Requests : WF_vars(Proceed(c))
  /\ \A w \in Workers : WF_vars(CommitRun(w) \/ CommitStale(w))
                       /\ WF_vars(PublishCompleted(w))
  /\ \A r \in Runs : /\ WF_vars(\E w \in Workers : StartAttempt(w, r))
                      /\ WF_vars(RecoverCrashed(r))
                      /\ WF_vars(FailRun(r))
                      /\ WF_vars(PublishFailed(r))

FairSpec == Spec /\ Fairness

(***************************************************************************)
(* Properties                                                              *)
(***************************************************************************)
Consented(id) == \E r \in Runs : input[r] = [type |-> "confirmation", target |-> id]

\* A book is activated only from a trial in the committed history whose user
\* confirmed it, made with a strategy that a committed run saw confirmed
\* (spec.md, "Agent completes Reading Setup": generate_trial_slice and
\* complete_reading_setup check the chain on different copies of the session).
ActivationAuthorized ==
  current # None =>
    /\ Consented(current.trial)
    /\ \E c \in messages : c.id = current.trial /\ c.refs = {current.strategy}
    /\ \E a \in actions : a.type = "confirmation" /\ a.target = current.strategy

\* Whatever attempts of whatever runs call complete_reading_setup, one formal
\* strategy version is inserted, and exactly when the book becomes active.
ActivatedOnce == versions = (IF workflow = "active_reading" THEN 1 ELSE 0)

\* An attempt whose run still holds the session works on the session as it is:
\* commitRun overwrites the whole agent state, so anything else is a lost update.
SnapshotFresh ==
  \A w \in Workers :
    attempt[w].pc = "looping" /\ attempt[w].run = activeRun =>
      attempt[w].messages = messages /\ attempt[w].actions = actions

\* run_finished tells the truth: completed only after the commit, failed only
\* for a run that did not commit and never will (spec.md, "the success event is
\* later than the commit"; the two are published by different handlers).
TerminalEventTruthful ==
  \A r \in Runs :
    /\ "completed" \in finished[r] => Committed(r)
    /\ "failed" \in finished[r] => ~ Committed(r) /\ activeRun # r

\* Every committed trial slice was generated from a strategy whose confirmation
\* is part of the same history.
TrialsFollowConsent ==
  \A c \in messages : c.id \in Trials =>
    \E s \in Strategies :
      c.refs = {s} /\ \E a \in actions : a.type = "confirmation" /\ a.target = s

\* The write fence: history is only ever extended, by entries of the run that
\* holds the session and in the step in which it gives the session up, and no
\* run takes the session from another one.
FencedStep ==
  /\ messages \subseteq messages' /\ actions \subseteq actions'
  /\ activeRun # None => activeRun' \in {activeRun, None}
  /\ <<messages, actions>>' # <<messages, actions>> =>
       /\ activeRun # None /\ activeRun' = None
       /\ \A m \in (messages' \ messages) \cup (actions' \ actions) : m.run = activeRun
OnlyActiveRunWrites == [][FencedStep]_vars

\* A run that gave the session up never gets it back and never commits any more,
\* whatever its leftover attempts do.
RetiredStep ==
  \A r \in Runs :
    input[r] # NoInput /\ activeRun # r => activeRun' # r /\ (Committed(r)' => Committed(r))
RetiredRunsStayRetired == [][RetiredStep]_vars

\* The internal session_start run opens the history: it commits only into an
\* empty session, so it never follows a user's turn and never runs twice.
SessionStartStep ==
  \A r \in Runs :
    input[r].type = "session_start" /\ Committed(r)' /\ ~ Committed(r) =>
      messages = {} /\ actions = {}
SessionStartOpensHistory == [][SessionStartStep]_vars

\* The session is never orphaned: while a run holds it, a request is still
\* enqueueing that run, its job is in the queue or its failure handler is due.
\* Needs an API process that does not die between claim and enqueue and an
\* onTerminalFailure that is not lost: nothing in the code repairs those.
ActiveRunIsHeld ==
  activeRun # None =>
    \/ \E c \in Requests : request[c].run = activeRun /\ request[c].pc \in {"claimed", "undo"}
    \/ job[activeRun].status \in {"waiting", "active"}
    \/ cleanup[activeRun] = "pending"

\* The session implements the contract its user relies on: the requests, the
\* queue, attempts running twice and crashes are invisible except as turns that
\* failed.
Contract == INSTANCE ReadingSetupContract
ImplementsContract == Contract!Spec

\* Every run that claims the session gives it up again: it commits, or its job
\* fails for good and its failure handler releases the session.
RunSettles == \A r \in Runs : (activeRun = r) ~> (activeRun # r)

\* No product is confirmed twice: submitConfirmation answers 409 when the
\* history already holds a confirmation of the target.
ConfirmationOnce ==
  \A a, b \in actions :
    a.type = "confirmation" /\ b.type = "confirmation" /\ a.target = b.target => a = b

\* The activation is documented in the history by the result of the successful
\* complete_reading_setup call.
ActivationResultSaved ==
  (current # None) ~>
    (\E c \in messages : c.id \in Completions /\ c.refs = {current.trial})
=============================================================================
