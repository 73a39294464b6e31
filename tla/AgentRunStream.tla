--------------------------- MODULE AgentRunStream ---------------------------
(***************************************************************************)
(* How one agent run is shown while it goes on: the attempts of its job    *)
(* number and publish display progress (packages/agent-kit/src/runtime/    *)
(* agent-run-projector.ts, apps/worker/src/agent-run/job.ts), Redis keeps  *)
(* the latest progress and streams every one (packages/queue), an API      *)
(* process joins both into one event stream per connection (apps/api/src/  *)
(* agent-run-observation.ts), and the page of the user reduces that stream *)
(* to a view and reconnects (packages/agent-state/src/run-reducer.ts,      *)
(* apps/web/src/reading-setup/session).  The page also takes what it shows *)
(* from the session: the answer to an action names the run, and every      *)
(* response to a request for the session brings a snapshot of its own.     *)
(*                                                                         *)
(* One run is followed: its session is held at first, and what came before *)
(* (SetupClient) and the runs that follow are left out.                    *)
(*                                                                         *)
(* The display of a snapshot is the sequence of the attempts that emitted  *)
(* its events.  The sink between the agent loop and the projector is an    *)
(* EventChannel (see CoalescingSink): in order, and flushed at the end.    *)
(***************************************************************************)
EXTENDS SetupPageConstants, SequencesExt

CONSTANTS
  MaxAttempts,  \* AGENT_RUN_DEFAULT_JOB_OPTIONS.attempts
  MaxStalls,    \* stalls BullMQ forgives before it fails the job
  MaxEvents,    \* bound on the events an attempt emits
  Faults,       \* the kinds of failure that may happen in this instance
  MaxFaults     \* bound on the failures of one behaviour

FaultKinds == {"attempt_error", "publish_error", "stall", "worker_crash", "disconnect",
               "api_restart", "refetch"}

ASSUME StreamAssumption ==
  /\ MaxAttempts \in Nat \ {0} /\ MaxStalls \in Nat
  /\ MaxEvents \in Nat /\ MaxFaults \in Nat
  /\ Faults \subseteq FaultKinds
  /\ None \notin Nat

VARIABLES
  session,    \* the row: does this run hold it, was it committed or released
  job,        \* the BullMQ job of the run
  exec,       \* executions of executeAgentRun
  cleanup,    \* the failure handler of the job
  progress,   \* job.progress in Redis
  stream,     \* the QueueEvents stream of the job
  cursor,     \* how far the API process has read the stream
  observer,   \* the subscription behind the open connection of the page
  wire,       \* events sent to the page and not received yet
  view,       \* activeRun of the page; Queued while it has none
  shown,      \* it has one: activeRun is not null
  claimed,    \* the answer to the action that started the run is under way
  asks,       \* the requests of the page for the session
  known,      \* sessionQuery.data: the last response of this run that was applied
  ahead,      \* history: a response was shown over a connection that goes on
  stale,      \* history: ... and it was read before a reset the connection has brought
  overlapped, \* two attempts, or an attempt and the failure handler, were under way at once
  cut,        \* the announcement of the end was cut off
  faults      \* failures so far (bound: MaxFaults)

worker == <<session, job, exec, cleanup>>
api    == <<cursor, observer>>
reading == <<view, shown, claimed, asks, known, ahead, stale>>
vars   == <<worker, progress, stream, api, wire, reading, overlapped, cut, faults>>

(***************************************************************************)
(* Data                                                                    *)
(***************************************************************************)
Terminal == {"completed", "failed"}
\* The executions of the job, in the order in which workers took it: each but the last
\* ended in an error or in a stall.
Executions == 1..(MaxAttempts + MaxStalls)
Snapshot == [seq: Nat, status: {"queued", "running"} \cup Terminal, content: Seq(Executions)]
Event    == [type: {"delta", "run_finished"}, seq: Nat, by: Executions \cup {0}, status: Terminal \cup {None}]
\* What updateProgress stores and streams; a reset has no event.
Progress == [snapshot: Snapshot, event: Event \cup {None}]
\* What the page receives.
Message  == [type: {"run_snapshot"}, snapshot: Snapshot] \cup Event

\* What a response says of the run: that it is not active, or its snapshot.
Answer   == [live: BOOLEAN, snapshot: Snapshot]
\* The session query, which may be made again and again, and the refresh after the run.
Requests == {"query", "refresh"}

\* No progress, a reset without an event and no response can be told from what there is.
ASSUME DataAssumption == None \notin Event /\ None \notin Progress /\ None \notin Answer

Queued == [seq |-> 0, status |-> "queued", content |-> <<>>]
\* runSnapshot and currentSnapshot: a job without progress is queued.
SnapshotOf(p) == IF p = None THEN Queued ELSE p.snapshot

\* Mutant of Reduce: the status is taken from every event.
ReduceAnyStatus(s, e) ==
  IF e.type = "run_snapshot" THEN e.snapshot
  ELSE IF e.seq <= s.seq THEN s
  ELSE [s EXCEPT !.seq = e.seq, !.status = e.status, !.content = Append(@, e.by)]

\* reduceAgentRunEvent
Reduce(s, e) ==
  IF e.type = "run_snapshot" THEN e.snapshot
  ELSE IF e.seq <= s.seq THEN s
  ELSE IF e.type = "run_finished" THEN [s EXCEPT !.seq = e.seq, !.status = e.status]
  ELSE [s EXCEPT !.seq = e.seq, !.content = Append(@, e.by)]

Job == [status: {"waiting", "active", "completed", "failed"}, owner: Executions \cup {None},
        made: 0..MaxAttempts, stalls: 0..(MaxStalls + 1), taken: 0..(MaxAttempts + MaxStalls)]

NoExec  == [pc |-> "idle", snapshot |-> Queued, started |-> FALSE, inflight |-> None]
NotActive == [live |-> FALSE, snapshot |-> Queued]
Idle    == [pc |-> "idle", answer |-> None]
Asked   == [pc |-> "asked", answer |-> None]
Off     == [pc |-> "off", buffered |-> <<>>, pending |-> <<>>, last |-> 0]

TypeOK ==
  /\ session \in {"held", "committed", "released"}
  /\ job \in Job
  /\ exec \in [Executions -> [pc: {"idle", "taken", "running", "committed"},
                              snapshot: Snapshot, started: BOOLEAN, inflight: Progress \cup {None}]]
  /\ cleanup \in [pc: {"none", "due", "publishing", "done"}, base: Snapshot]
  /\ progress \in Progress \cup {None}
  /\ stream \in Seq(Progress)
  /\ cursor \in 0..Len(stream)
  /\ observer \in [pc: {"off", "listening", "open"}, buffered: Seq(Progress),
                   pending: Seq(Progress), last: Nat]
  /\ wire \in Seq(Message)
  /\ view \in Snapshot /\ shown \in BOOLEAN
  /\ claimed \in BOOLEAN /\ known \in Answer \cup {None}
  /\ asks \in [Requests -> [pc: {"idle", "asked", "row", "answered", "done"}, answer: Answer \cup {None}]]
  /\ ahead \in BOOLEAN /\ stale \in BOOLEAN
  /\ overlapped \in BOOLEAN /\ cut \in BOOLEAN
  /\ faults \in 0..MaxFaults

\* The page makes its first request for the session; the run is in the answer to an action
\* that is still under way, or only in the responses.
Init ==
  /\ session = "held"
  /\ job = [status |-> "waiting", owner |-> None, made |-> 0, stalls |-> 0, taken |-> 0]
  /\ exec = [w \in Executions |-> NoExec]
  /\ cleanup = [pc |-> "none", base |-> Queued]
  /\ progress = None /\ stream = <<>> /\ cursor = 0
  /\ observer = Off /\ wire = <<>>
  /\ view = Queued /\ shown = FALSE /\ known = None /\ ahead = FALSE /\ stale = FALSE
  /\ claimed \in BOOLEAN
  /\ asks = [r \in Requests |-> IF r = "query" THEN Asked ELSE Idle]
  /\ overlapped = FALSE /\ cut = FALSE /\ faults = 0

Fails(kind) == kind \in Faults /\ faults < MaxFaults /\ faults' = faults + 1

(***************************************************************************)
(* The job and its attempts                                                *)
(***************************************************************************)
\* The attempt ends and lets its job go, unless the job was taken from it.
EndJob(w, status) == IF job.owner = w THEN [job EXCEPT !.status = status, !.owner = None] ELSE job

\* A worker takes the job with the progress it has by then (currentSnapshot).
Take(w) ==
  /\ job.status = "waiting" /\ w = job.taken + 1
  /\ job' = [job EXCEPT !.status = "active", !.owner = w, !.taken = w]
  /\ exec' = [exec EXCEPT ![w] = [NoExec EXCEPT !.pc = "taken", !.snapshot = SnapshotOf(progress)]]
  /\ overlapped' = (overlapped \/ \E v \in Executions : exec[v].pc # "idle")
  /\ UNCHANGED <<session, cleanup, progress, stream, api, wire, reading, cut, faults>>

\* The attempt reads the session and is stale unless its run holds it.
Load(w) ==
  /\ exec[w].pc = "taken"
  /\ IF session = "held"
     THEN exec' = [exec EXCEPT ![w].pc = "running"] /\ UNCHANGED job
     ELSE exec' = [exec EXCEPT ![w] = NoExec] /\ job' = EndJob(w, "completed")
  /\ UNCHANGED <<session, cleanup, progress, stream, api, wire, reading, overlapped, cut, faults>>

Free(w) == exec[w].pc \in {"running", "committed"} /\ exec[w].inflight = None

\* Mutant of StartAttempt: the numbering starts over.
StartAttemptAtZero(w) ==
  LET s == [seq |-> 0, status |-> "running", content |-> <<>>] IN
  /\ Free(w) /\ ~exec[w].started
  /\ exec' = [exec EXCEPT ![w].started = TRUE, ![w].snapshot = s,
                          ![w].inflight = [snapshot |-> s, event |-> None]]
  /\ UNCHANGED <<session, job, cleanup, progress, stream, api, wire, reading, overlapped, cut, faults>>

\* Before its first event the attempt publishes an empty display under the sequence
\* number it found (startAttempt).
StartAttempt(w) ==
  LET s == [seq |-> exec[w].snapshot.seq, status |-> "running", content |-> <<>>] IN
  /\ Free(w) /\ ~exec[w].started
  /\ exec' = [exec EXCEPT ![w].started = TRUE, ![w].snapshot = s,
                          ![w].inflight = [snapshot |-> s, event |-> None]]
  /\ UNCHANGED <<session, job, cleanup, progress, stream, api, wire, reading, overlapped, cut, faults>>

\* An event is numbered, reduced and handed to updateProgress.
Numbered(s, type, by, status) == [type |-> type, seq |-> s.seq + 1, by |-> by, status |-> status]
Projected(s, e) == [snapshot |-> Reduce(s, e), event |-> e]

Emit(w) ==
  LET e == Numbered(exec[w].snapshot, "delta", w, None) IN
  /\ exec[w].pc = "running" /\ Free(w) /\ exec[w].started
  /\ Len(exec[w].snapshot.content) < MaxEvents
  /\ exec' = [exec EXCEPT ![w].snapshot = Reduce(@, e), ![w].inflight = Projected(exec[w].snapshot, e)]
  /\ UNCHANGED <<session, job, cleanup, progress, stream, api, wire, reading, overlapped, cut, faults>>

\* updateProgress stores the progress and appends it to the stream, in one script.
Store(p) == progress' = p /\ stream' = Append(stream, p)

Publish(w) ==
  /\ exec[w].inflight # None
  /\ Store(exec[w].inflight)
  /\ exec' = [exec EXCEPT ![w].inflight = None]
  /\ UNCHANGED <<session, job, cleanup, api, wire, reading, overlapped, cut, faults>>

\* The agent loop ends: the session is written if this run still holds it; a stale
\* attempt publishes nothing.
Commit(w) ==
  /\ exec[w].pc = "running" /\ Free(w)
  /\ IF session = "held"
     THEN /\ session' = "committed"
          /\ exec' = [exec EXCEPT ![w].pc = "committed"]
          /\ UNCHANGED job
     ELSE /\ exec' = [exec EXCEPT ![w] = NoExec]
          /\ job' = EndJob(w, "completed")
          /\ UNCHANGED session
  /\ UNCHANGED <<cleanup, progress, stream, api, wire, reading, overlapped, cut, faults>>

\* Mutant of Complete: the end is announced before the session is written.
CompleteEarly(w) ==
  LET e == Numbered(exec[w].snapshot, "run_finished", 0, "completed") IN
  /\ exec[w].pc \in {"running", "committed"} /\ Free(w) /\ exec[w].started
  /\ exec[w].snapshot.status # "completed"
  /\ exec' = [exec EXCEPT ![w].snapshot = Reduce(@, e), ![w].inflight = Projected(exec[w].snapshot, e)]
  /\ UNCHANGED <<session, job, cleanup, progress, stream, api, wire, reading, overlapped, cut, faults>>

\* run_finished(completed), after the commit (completed).
Complete(w) ==
  LET e == Numbered(exec[w].snapshot, "run_finished", 0, "completed") IN
  /\ exec[w].pc = "committed" /\ Free(w) /\ exec[w].started
  /\ exec[w].snapshot.status # "completed"
  /\ exec' = [exec EXCEPT ![w].snapshot = Reduce(@, e), ![w].inflight = Projected(exec[w].snapshot, e)]
  /\ UNCHANGED <<session, job, cleanup, progress, stream, api, wire, reading, overlapped, cut, faults>>

Finish(w) ==
  /\ exec[w].pc = "committed" /\ Free(w) /\ exec[w].snapshot.status = "completed"
  /\ exec' = [exec EXCEPT ![w] = NoExec]
  /\ job' = EndJob(w, "completed")
  /\ UNCHANGED <<session, cleanup, progress, stream, api, wire, reading, overlapped, cut, faults>>

\* The attempt throws: its job is tried again, or has failed for good and its failure
\* handler is due, with the progress the job object holds (base).  A job that was
\* taken from the attempt is not touched.
Throw(w, base) ==
  /\ exec' = [exec EXCEPT ![w] = NoExec]
  /\ IF job.owner # w THEN UNCHANGED <<job, cleanup>>
     ELSE LET final == job.made + 1 = MaxAttempts IN
          /\ job' = [job EXCEPT !.made = @ + 1, !.owner = None,
                                !.status = IF final THEN "failed" ELSE "waiting"]
          /\ cleanup' = IF final THEN [pc |-> "due", base |-> base] ELSE cleanup

AttemptError(w) ==
  /\ exec[w].pc = "running" /\ Free(w)
  /\ Fails("attempt_error")
  /\ Throw(w, exec[w].snapshot)
  /\ UNCHANGED <<session, progress, stream, api, wire, reading, overlapped, cut>>

\* updateProgress throws, whether or not Redis has executed it.  The job object holds
\* the progress in either case.  After the commit the end is then never announced:
\* a retry finds the session no longer held.
PublishError(w) ==
  /\ exec[w].inflight # None
  /\ Fails("publish_error")
  /\ \/ UNCHANGED <<progress, stream>>
     \/ Store(exec[w].inflight)
  /\ Throw(w, exec[w].snapshot)
  /\ cut' = (cut \/ exec[w].pc = "committed")
  /\ UNCHANGED <<session, api, wire, reading, overlapped>>

\* BullMQ requeues a job whose lock expired, or fails it when that happened too often,
\* with the progress Redis has.
Requeue ==
  LET final == job.stalls + 1 > MaxStalls IN
  /\ job' = [job EXCEPT !.stalls = @ + 1, !.owner = None,
                        !.status = IF final THEN "failed" ELSE "waiting"]
  /\ cleanup' = IF final THEN [pc |-> "due", base |-> SnapshotOf(progress)] ELSE cleanup

\* The lock expires although the attempt goes on; the job may have failed with that.
Stall ==
  /\ job.status = "active" /\ exec[job.owner].pc # "idle"
  /\ Fails("stall")
  /\ Requeue
  /\ overlapped' = (overlapped \/ job.stalls + 1 > MaxStalls)
  /\ UNCHANGED <<session, exec, progress, stream, api, wire, reading, cut>>

\* A worker process dies with its attempt, whatever it was about to publish.
WorkerCrash(w) ==
  /\ exec[w].pc # "idle"
  /\ Fails("worker_crash")
  /\ exec' = [exec EXCEPT ![w] = NoExec]
  /\ cut' = (cut \/ exec[w].pc = "committed")
  /\ UNCHANGED <<session, job, cleanup, progress, stream, api, wire, reading, overlapped>>

RecoverCrashed ==
  /\ job.status = "active" /\ exec[job.owner].pc = "idle"
  /\ Requeue
  /\ UNCHANGED <<session, exec, progress, stream, api, wire, reading, overlapped, cut, faults>>

\* failAgentRun: the session is released if this run still holds it ...
FailRun ==
  /\ cleanup.pc = "due"
  /\ IF session = "held" THEN session' = "released" /\ cleanup' = [cleanup EXCEPT !.pc = "publishing"]
     ELSE UNCHANGED session /\ cleanup' = [cleanup EXCEPT !.pc = "done"]
  /\ UNCHANGED <<job, exec, progress, stream, api, wire, reading, overlapped, cut, faults>>

\* ... and only then run_finished(failed) is published.  An error of this publication
\* is only logged; it ends a failed run and is not counted as one more failure.
PublishFailed ==
  LET e == Numbered(cleanup.base, "run_finished", 0, "failed") IN
  /\ cleanup.pc = "publishing"
  /\ cleanup' = [cleanup EXCEPT !.pc = "done"]
  /\ \/ Store(Projected(cleanup.base, e)) /\ UNCHANGED cut
     \/ "publish_error" \in Faults /\ cut' = TRUE /\ UNCHANGED <<progress, stream>>
  /\ UNCHANGED <<session, job, exec, api, wire, reading, overlapped, faults>>

(***************************************************************************)
(* The observation of the run by the API process                           *)
(***************************************************************************)
\* The page opens a connection while it has a run that is not over: the listener is added
\* before the progress is read.
Connect ==
  /\ observer.pc = "off" /\ wire = <<>> /\ shown /\ view.status \notin Terminal
  /\ observer' = [Off EXCEPT !.pc = "listening"]
  /\ UNCHANGED <<worker, progress, stream, cursor, wire, reading, overlapped, cut, faults>>

\* Mutant of ReadSnapshot: the number after the snapshot is taken as sent.
ReadSnapshotAhead ==
  LET s == SnapshotOf(progress) IN
  /\ observer.pc = "listening"
  /\ wire' = Append(wire, [type |-> "run_snapshot", snapshot |-> s])
  /\ observer' = IF s.status \in Terminal THEN Off ELSE [observer EXCEPT !.pc = "open", !.last = s.seq + 1]
  /\ UNCHANGED <<worker, progress, stream, cursor, reading, overlapped, cut, faults>>

\* The stored progress is sent first; a terminal one ends the connection.
ReadSnapshot ==
  LET s == SnapshotOf(progress) IN
  /\ observer.pc = "listening"
  /\ wire' = Append(wire, [type |-> "run_snapshot", snapshot |-> s])
  /\ observer' = IF s.status \in Terminal THEN Off ELSE [observer EXCEPT !.pc = "open", !.last = s.seq]
  /\ UNCHANGED <<worker, progress, stream, cursor, reading, overlapped, cut, faults>>

\* QueueEvents hands the next progress to the listener, if there is one.
Deliver ==
  /\ cursor < Len(stream)
  /\ cursor' = cursor + 1
  /\ observer' = IF observer.pc = "off" THEN observer
                 ELSE [observer EXCEPT !.buffered = Append(@, stream[cursor + 1])]
  /\ UNCHANGED <<worker, progress, stream, wire, reading, overlapped, cut, faults>>

\* Everything buffered is taken at once, sorted by sequence number (stable).
Position(p) == IF p.event = None THEN p.snapshot.seq ELSE p.event.seq
\* The progress that comes before the i-th.
Ahead(b, i) == {j \in DOMAIN b : \/ Position(b[j]) < Position(b[i])
                                 \/ Position(b[j]) = Position(b[i]) /\ j < i}
Sorted(b) ==
  [k \in DOMAIN b |-> b[CHOOSE i \in DOMAIN b : Cardinality(Ahead(b, i)) = k - 1]]

Drain ==
  /\ observer.pc = "open" /\ observer.pending = <<>> /\ observer.buffered # <<>>
  /\ observer' = [observer EXCEPT !.pending = Sorted(observer.buffered), !.buffered = <<>>]
  /\ UNCHANGED <<worker, progress, stream, cursor, wire, reading, overlapped, cut, faults>>

\* Mutant of Relevant: events the snapshot already contains are sent again.
RelevantAlways(p) == p.event # None \/ p.snapshot.seq >= observer.last

\* Mutant of Relevant: a reset is only sent if it is newer.
RelevantNewer(p) == Position(p) > observer.last

\* A reset is sent unless the connection is past it, an event only if it is newer
\* than everything sent; the end of the run ends the connection.
Relevant(p) == IF p.event = None THEN p.snapshot.seq >= observer.last ELSE p.event.seq > observer.last

MessageOf(p) == IF p.event = None THEN [type |-> "run_snapshot", snapshot |-> p.snapshot] ELSE p.event
EndsStream(p) == IF p.event = None THEN p.snapshot.status \in Terminal ELSE p.event.type = "run_finished"

Yield ==
  LET p == Head(observer.pending) IN
  /\ observer.pc = "open" /\ observer.pending # <<>>
  /\ IF ~Relevant(p)
     THEN /\ observer' = [observer EXCEPT !.pending = Tail(@)]
          /\ UNCHANGED wire
     ELSE /\ wire' = Append(wire, MessageOf(p))
          /\ observer' = IF EndsStream(p) THEN Off
                         ELSE [observer EXCEPT !.pending = Tail(@), !.last = Position(p)]
  /\ UNCHANGED <<worker, progress, stream, cursor, reading, overlapped, cut, faults>>

(***************************************************************************)
(* The page                                                                *)
(***************************************************************************)
\* The connection is given up, with what was on its way.
GiveUp == observer' = Off /\ wire' = <<>>

\* The message is of the end of the run: the session is refreshed, once.
OfEnd(e) == IF e.type = "run_snapshot" THEN e.snapshot.status \in Terminal ELSE e.type = "run_finished"
Refreshed(e) == IF OfEnd(e) /\ asks["refresh"] = Idle THEN [asks EXCEPT !["refresh"] = Asked] ELSE asks

\* An event is reduced into the view.  The effect that owns the connection depends on
\* the status of the run: when that changes, the connection is given up.
Receive ==
  LET e == Head(wire)
      next == Reduce(view, e)
      fresh == e.type = "run_snapshot" IN
  /\ wire # <<>>
  /\ view' = next /\ asks' = Refreshed(e)
  /\ IF next.status = view.status THEN wire' = Tail(wire) /\ UNCHANGED observer ELSE GiveUp
  /\ ahead' = (ahead /\ ~fresh /\ next.status = view.status)
  /\ stale' = (stale /\ ~fresh)
  /\ UNCHANGED <<worker, progress, stream, cursor, shown, claimed, known, overlapped, cut, faults>>

\* The connection breaks, or the user makes the page open it again (retryConnection);
\* what was on its way is lost.
Disconnect ==
  /\ observer.pc # "off" \/ wire # <<>>
  /\ Fails("disconnect")
  /\ GiveUp /\ ahead' = FALSE
  /\ UNCHANGED <<worker, progress, stream, cursor, view, shown, claimed, asks, known, stale,
                 overlapped, cut>>

(***************************************************************************)
(* What the page takes from the session                                    *)
(***************************************************************************)
\* On focus, mount or retryConnection; a query under way is not doubled.
QueryStarts ==
  /\ asks["query"] = Idle
  /\ Fails("refetch")
  /\ asks' = [asks EXCEPT !["query"] = Asked]
  /\ UNCHANGED <<worker, progress, stream, api, wire, view, shown, claimed, known, ahead, stale,
                 overlapped, cut>>

\* The API process reads the row of the session ...
ReadRow(r) ==
  /\ asks[r].pc = "asked"
  /\ asks' = [asks EXCEPT ![r] = IF session = "held" THEN [@ EXCEPT !.pc = "row"]
                                 ELSE [pc |-> "answered", answer |-> NotActive]]
  /\ UNCHANGED <<worker, progress, stream, api, wire, view, shown, claimed, known, ahead, stale,
                 overlapped, cut, faults>>

\* ... and then, if this run is active there, its progress.
ReadRun(r) ==
  /\ asks[r].pc = "row"
  /\ asks' = [asks EXCEPT ![r] = [pc |-> "answered", answer |-> [live |-> TRUE, snapshot |-> SnapshotOf(progress)]]]
  /\ UNCHANGED <<worker, progress, stream, api, wire, view, shown, claimed, known, ahead, stale,
                 overlapped, cut, faults>>

\* The connection has sent its snapshot and goes on.
Begun == observer.pc = "open" \/ wire # <<>>

\* replaceActiveRun: a run of the same status keeps its connection.
Replace(s) ==
  /\ view' = s /\ shown' = TRUE
  /\ IF shown /\ s.status = view.status
     THEN /\ ahead' = (Begun /\ (ahead \/ s # view))
          /\ stale' = (Begun /\ s.seq = view.seq /\ s.content # <<>>
                        /\ (stale \/ view.content = <<>>))
          /\ UNCHANGED <<observer, wire>>
     ELSE ahead' = FALSE /\ stale' = FALSE /\ GiveUp

\* replaceActiveRun(null)
Hide == view' = Queued /\ shown' = FALSE /\ ahead' = FALSE /\ stale' = FALSE /\ GiveUp

KeepsView == UNCHANGED <<view, shown, ahead, stale, observer, wire>>

\* Mutant of QueryApplied: a response is shown whatever the page has seen since.
QueryAppliedAlways ==
  LET a == asks["query"].answer IN
  /\ asks["query"].pc = "answered"
  /\ known' = a /\ asks' = [asks EXCEPT !["query"] = Idle]
  /\ IF a = known THEN KeepsView
     ELSE IF ~a.live THEN Hide
     ELSE Replace(a.snapshot)
  /\ UNCHANGED <<worker, progress, stream, cursor, claimed, overlapped, cut, faults>>

\* The response to the query becomes the data of the page.  If that has changed it is
\* shown, unless the page has seen a later event of the same run.
QueryApplied ==
  LET a == asks["query"].answer IN
  /\ asks["query"].pc = "answered"
  /\ known' = a /\ asks' = [asks EXCEPT !["query"] = Idle]
  /\ IF a = known \/ (a.live /\ shown /\ view.seq > a.snapshot.seq) THEN KeepsView
     ELSE IF a.live THEN Replace(a.snapshot)
     ELSE Hide
  /\ UNCHANGED <<worker, progress, stream, cursor, claimed, overlapped, cut, faults>>

\* refreshSessionAfterRun shows what it reads in any case.
RefreshApplied ==
  LET a == asks["refresh"].answer IN
  /\ asks["refresh"].pc = "answered"
  /\ known' = a /\ asks' = [asks EXCEPT !["refresh"].pc = "done"]
  /\ IF a.live THEN Replace(a.snapshot) ELSE Hide
  /\ UNCHANGED <<worker, progress, stream, cursor, claimed, overlapped, cut, faults>>

\* The answer to the action (submitAction): the run is shown from its beginning.
AnswerArrives ==
  /\ claimed /\ claimed' = FALSE
  /\ Replace(Queued)
  /\ UNCHANGED <<worker, progress, stream, cursor, asks, known, overlapped, cut, faults>>

\* The API process restarts: a new QueueEvents reads only what comes after.
ApiRestart ==
  /\ Fails("api_restart")
  /\ GiveUp /\ ahead' = FALSE /\ cursor' = Len(stream)
  /\ UNCHANGED <<worker, progress, stream, view, shown, claimed, asks, known, stale, overlapped, cut>>

Next ==
  \/ \E w \in Executions :
       \/ Take(w) \/ Load(w) \/ StartAttempt(w) \/ Emit(w) \/ Publish(w) \/ Commit(w) \/ Complete(w) \/ Finish(w)
       \/ AttemptError(w) \/ PublishError(w) \/ WorkerCrash(w)
  \/ Stall \/ RecoverCrashed
  \/ FailRun \/ PublishFailed
  \/ Connect \/ ReadSnapshot \/ Deliver \/ Drain \/ Yield
  \/ Receive \/ Disconnect \/ ApiRestart
  \/ QueryStarts \/ QueryApplied \/ RefreshApplied \/ AnswerArrives
  \/ \E r \in Requests : ReadRow(r) \/ ReadRun(r)

Spec == Init /\ [][Next]_vars

\* What goes on by itself: every step but a failure, an event of the agent and a new query.
Proceeds ==
  \/ \E w \in Executions :
       Take(w) \/ Load(w) \/ StartAttempt(w) \/ Publish(w) \/ Commit(w) \/ Complete(w) \/ Finish(w)
  \/ RecoverCrashed \/ FailRun \/ PublishFailed
  \/ Connect \/ ReadSnapshot \/ Deliver \/ Drain \/ Yield \/ Receive
  \/ \E r \in Requests : ReadRow(r) \/ ReadRun(r)
  \/ QueryApplied \/ RefreshApplied \/ AnswerArrives

\* As long as anything can go on, something does: no more is needed, since a run, its
\* connections and its requests are finite.
Fairness == WF_vars(Proceeds)

(***************************************************************************)
(* Properties                                                              *)
(***************************************************************************)
Published == {SnapshotOf(None)} \cup {stream[i].snapshot : i \in 1..Len(stream)}

\* What the page shows is a display the worker published: no event is missing, none
\* is applied twice, and none of a former attempt is left, whatever connections broke,
\* attempts were repeated and responses of the session came in between.  Excepted are two
\* attempts beside each other, or one beside the failure handler of its job; the end of a
\* failed run, whose number may follow one that was never published; and, until the next
\* snapshot, a response that was read before a reset and arrived after it.
ViewWasPublished == overlapped \/ stale \/ view.status = "failed" \/ view \in Published

\* The page never goes back to an older display: not when a connection begins again, nor
\* when a response of the session arrives late.  Excepted are a snapshot of the connection
\* that follows a response which was ahead of it, the answer to the action, and the end of
\* showing the run.
ViewNeverGoesBack ==
  [][view'.seq < view.seq => overlapped' \/ ahead \/ ~shown' \/ claimed' # claimed]_vars

\* The page is told that a run ended only after its outcome is in the session.
EndIsTrue ==
  /\ view.status = "completed" => session = "committed"
  /\ view.status = "failed" => session = "released"

\* Once the outcome is in the session the page learns of the end, from the run or from the
\* session, unless the announcement itself was cut off.
EndIsSeen == (session # "held") ~> (view.status \in Terminal \/ known = NotActive \/ cut \/ overlapped)
=============================================================================
