---------------------------- MODULE Normalization ----------------------------
(***************************************************************************)
(* The normalization of one shared book: the import and retry requests     *)
(* that start runs (apps/api/src/book-imports.ts), the normalization queue, *)
(* the executions of its jobs with their attempts and the publication of a  *)
(* package (apps/worker/src/normalization), and the reconciliation a worker *)
(* process does before it consumes the queue.                               *)
(*                                                                         *)
(* A request is a READ COMMITTED transaction: it reads the book, reads the  *)
(* running run, then inserts a run and updates the book, each statement on  *)
(* what is committed at that moment.  A job that stalls is executed a       *)
(* second time while the first execution goes on, and the failure of a run  *)
(* and of its book are two statements.                                      *)
(***************************************************************************)
EXTENDS Naturals, Sequences, Null

CONSTANTS
  Runs,        \* run ids (randomUUID)
  Requests,    \* API requests in flight
  Slots,       \* concurrent executions of the worker process
  MaxTries,    \* attempts of one execution (normalizationMaxAttempts)
  MaxStalls,   \* stalls BullMQ forgives before it fails the job
  Faults,      \* the kinds of failure that may happen in this instance
  MaxFaults    \* bound on the failures of one behaviour

FaultKinds == {"enqueue_error", "enqueue_unacknowledged", "api_crash", "worker_stop",
               "reconcile_error", "stall", "update_lost"}

ASSUME NormalizationAssumption ==
  /\ MaxTries \in Nat \ {0} /\ MaxStalls \in Nat /\ MaxFaults \in Nat
  /\ Faults \subseteq FaultKinds
  /\ None \notin Runs \cup Slots
  /\ None \notin Runs \X (Nat \ {0})

VARIABLES
  status,    \* shared_books.status
  package,   \* shared_books.current_package_id: the attempt that produced it
  run,       \* normalization_runs.status of each run
  attempts,  \* normalization_attempts.status of each run, by attempt_no
  job,       \* the BullMQ job of each run
  request,   \* the API requests
  worker,    \* the worker process
  exec,      \* its executions of executeNormalizationRun
  lost,      \* a statement that was still owed to a run or its book was cut off
  faults     \* failures so far (bound: MaxFaults)

book == <<status, package>>
vars == <<book, run, attempts, job, request, worker, exec, lost, faults>>

\* The four steps between queued and ready are one status here.
InProgress == {"queued", "processing"}
Package == Runs \X (Nat \ {0})
Job     == [status: {"absent", "waiting", "active", "completed", "failed"},
            owner: Slots \cup {None}, stalls: 0..(MaxStalls + 1)]
Request == [pc: {"idle", "read", "checked", "inserted", "undo"}, run: Runs \cup {None}]
Stages  == {"loaded", "trying", "agent", "validating", "validated", "indexing",
            "analyzed", "uploaded", "gated"}
Execution == [pc: Stages \cup {"idle", "failing", "run_failed"}, run: Runs \cup {None},
              tries: 0..MaxTries, no: Nat]

NoJob       == [status |-> "absent", owner |-> None, stalls |-> 0]
NoRequest   == [pc |-> "idle", run |-> None]
NoExecution == [pc |-> "idle", run |-> None, tries |-> 0, no |-> 0]

TypeOK ==
  /\ status \in {"absent", "ready", "failed"} \cup InProgress
  /\ package \in Package \cup {None}
  /\ run \in [Runs -> {"none", "running", "completed", "failed"}]
  /\ attempts \in [Runs -> Seq({"running", "succeeded", "failed"})]
  /\ job \in [Runs -> Job]
  /\ request \in [Requests -> Request]
  /\ worker \in {"down", "reconciling", "up"}
  /\ exec \in [Slots -> Execution]
  /\ lost \in BOOLEAN
  /\ faults \in 0..MaxFaults

Fails(kind) == kind \in Faults /\ faults < MaxFaults /\ faults' = faults + 1

RunOf(w) == exec[w].run

\* Statements on shared_books carry "where current_package_id is null".
UnlessPublished(s) == status' = IF package = None THEN s ELSE status

AnyRunning == \E r \in Runs : run[r] = "running"

Init ==
  /\ status = "absent" /\ package = None
  /\ run = [r \in Runs |-> "none"]
  /\ attempts = [r \in Runs |-> <<>>]
  /\ job = [r \in Runs |-> NoJob]
  /\ request = [c \in Requests |-> NoRequest]
  /\ worker \in {"down", "up"}
  /\ exec = [w \in Slots |-> NoExecution]
  /\ lost = FALSE /\ faults = 0

(***************************************************************************)
(* API requests: importBook and retryBook                                  *)
(***************************************************************************)
Goto(c, pc) == request' = [request EXCEPT ![c].pc = pc]
Answer(c)   == request' = [request EXCEPT ![c] = NoRequest]

\* The book row is inserted unless it exists, and read; a ready book is the
\* answer.  A concurrent first import waits at the insert for the first one's
\* commit, so the row appears together with the first run: see InsertRun.
ReadBook(c) ==
  /\ request[c].pc = "idle"
  /\ status = "absent" => \A d \in Requests : request[d].pc \notin {"read", "checked"}
  /\ IF status = "ready" /\ package # None THEN UNCHANGED request ELSE Goto(c, "read")
  /\ UNCHANGED <<book, run, attempts, job, worker, exec, lost, faults>>

\* A request that finds a running run answers with it.
FindActiveRun(c) ==
  /\ request[c].pc = "read"
  /\ IF AnyRunning THEN Answer(c) ELSE Goto(c, "checked")
  /\ UNCHANGED <<book, run, attempts, job, worker, exec, lost, faults>>

\* The run is inserted, under the unique index on running runs, and the book
\* set to queued; the commit makes both visible.
InsertRun(c) ==
  /\ request[c].pc = "checked"
  /\ ~ AnyRunning
  /\ \E r \in Runs :
       /\ run[r] = "none"
       /\ run' = [run EXCEPT ![r] = "running"]
       /\ request' = [request EXCEPT ![c] = [pc |-> "inserted", run |-> r]]
  /\ status' = "queued"
  /\ UNCHANGED <<package, attempts, job, worker, exec, lost, faults>>

\* The transaction aborts: the unique index refused the run, or an error.
RequestAborts(c) ==
  /\ request[c].pc \in {"read", "checked"}
  /\ Answer(c)
  /\ UNCHANGED <<book, run, attempts, job, worker, exec, lost, faults>>

Add(r) == job' = [job EXCEPT ![r].status = "waiting"]

Enqueue(c) ==
  /\ request[c].pc = "inserted"
  /\ Add(request[c].run)
  /\ Answer(c)
  /\ UNCHANGED <<book, run, attempts, worker, exec, lost, faults>>

\* queue.add throws, with or without the job in Redis.
EnqueueError(c) ==
  /\ request[c].pc = "inserted"
  /\ \/ Fails("enqueue_error") /\ UNCHANGED job
     \/ Fails("enqueue_unacknowledged") /\ Add(request[c].run)
  /\ Goto(c, "undo")
  /\ UNCHANGED <<book, run, attempts, worker, exec, lost>>

\* The catch of enqueueNormalization: run and book fail, whatever they are.
UndoRun(c) ==
  /\ request[c].pc = "undo"
  /\ run' = [run EXCEPT ![request[c].run] = "failed"]
  /\ status' = "failed"
  /\ Answer(c)
  /\ UNCHANGED <<package, attempts, job, worker, exec, lost, faults>>

\* The API process dies between the commit and queue.add, or in the catch.
ApiCrash(c) ==
  /\ request[c].pc \in {"inserted", "undo"}
  /\ Fails("api_crash")
  /\ Answer(c)
  /\ lost' = TRUE
  /\ UNCHANGED <<book, run, attempts, job, worker, exec>>

(***************************************************************************)
(* The executions of the worker                                            *)
(***************************************************************************)
At(w, pc)  == exec[w].pc = pc
Move(w, pc) == exec' = [exec EXCEPT ![w].pc = pc]

\* The end of a job, if its lock is still this slot's (attempts: 1).
JobEnds(w, how) ==
  job' = IF job[RunOf(w)].owner = w /\ job[RunOf(w)].status = "active"
         THEN [job EXCEPT ![RunOf(w)] = [status |-> how, owner |-> None, stalls |-> @.stalls]]
         ELSE job
Leave(w) == exec' = [exec EXCEPT ![w] = NoExecution]

Take(w, r) ==
  /\ worker = "up" /\ At(w, "idle")
  /\ job[r].status = "waiting"

\* Mutant of Load: the package of the book is not looked at.
LoadPublished(w, r) ==
  /\ Take(w, r)
  /\ run[r] = "running"
  /\ job' = [job EXCEPT ![r] = [status |-> "active", owner |-> w, stalls |-> @.stalls]]
  /\ exec' = [exec EXCEPT ![w] = [pc |-> "loaded", run |-> r, tries |-> 0, no |-> 0]]
  /\ UNCHANGED <<book, run, attempts, request, worker, lost, faults>>

\* A job is taken and its run is worth executing.
Load(w, r) ==
  /\ Take(w, r)
  /\ run[r] = "running" /\ package = None
  /\ job' = [job EXCEPT ![r] = [status |-> "active", owner |-> w, stalls |-> @.stalls]]
  /\ exec' = [exec EXCEPT ![w] = [pc |-> "loaded", run |-> r, tries |-> 0, no |-> 0]]
  /\ UNCHANGED <<book, run, attempts, request, worker, lost, faults>>

\* A job is taken whose run is settled, or whose book already has a package: the
\* error is thrown before the try, so that nothing marks the run.
Reject(w, r) ==
  /\ Take(w, r)
  /\ ~ (run[r] = "running" /\ package = None)
  /\ job' = [job EXCEPT ![r] = [status |-> IF run[r] = "completed" THEN "completed" ELSE "failed",
                                owner |-> None, stalls |-> @.stalls]]
  /\ UNCHANGED <<book, run, attempts, request, worker, exec, lost, faults>>

\* The book is shown as in progress, even when the run failed meanwhile.
MarkNormalizing(w) ==
  /\ At(w, "loaded")
  /\ UnlessPublished("processing")
  /\ Move(w, "trying")
  /\ UNCHANGED <<package, run, attempts, job, request, worker, lost, faults>>

AttemptActive(r) == \E i \in DOMAIN attempts[r] : attempts[r][i] = "running"

\* Mutant of StartAttempt: one try too many.
StartOneMore(w) ==
  /\ At(w, "trying") /\ exec[w].tries <= MaxTries
  /\ LET r == RunOf(w) IN
     IF run[r] = "running" /\ ~ AttemptActive(r)
     THEN /\ attempts' = [attempts EXCEPT ![r] = Append(@, "running")]
          /\ exec' = [exec EXCEPT ![w] = [pc |-> "agent", run |-> r, tries |-> exec[w].tries + 1,
                                          no |-> Len(attempts[r]) + 1]]
     ELSE Move(w, "failing") /\ UNCHANGED attempts
  /\ UNCHANGED <<book, run, job, request, worker, lost, faults>>

\* startAttempt inserts the attempt; what it throws ends the execution.
StartAttempt(w) ==
  /\ At(w, "trying") /\ exec[w].tries < MaxTries
  /\ LET r == RunOf(w) IN
     IF run[r] = "running" /\ ~ AttemptActive(r)
     THEN /\ attempts' = [attempts EXCEPT ![r] = Append(@, "running")]
          /\ exec' = [exec EXCEPT ![w] = [pc |-> "agent", run |-> r, tries |-> exec[w].tries + 1,
                                          no |-> Len(attempts[r]) + 1]]
     ELSE Move(w, "failing") /\ UNCHANGED attempts
  /\ UNCHANGED <<book, run, job, request, worker, lost, faults>>

\* All tries are used up: the last error is thrown.
GiveUp(w) ==
  /\ At(w, "trying") /\ exec[w].tries >= MaxTries
  /\ Move(w, "failing")
  /\ UNCHANGED <<book, run, attempts, job, request, worker, lost, faults>>

Own(w) == attempts[RunOf(w)][exec[w].no]

Following == [agent |-> "validating", validated |-> "indexing",
              indexing |-> "analyzed", analyzed |-> "uploaded"]

\* advanceStep and advanceToIndexing between the stages: of a running run only.
\* (The publication's first advanceStep repeats advanceToIndexing.)
\* Before the first, recordAgentFinish needs the attempt to be running.
Advance(w) ==
  /\ exec[w].pc \in DOMAIN Following
  /\ run[RunOf(w)] = "running"
  /\ At(w, "agent") => Own(w) = "running"
  /\ UnlessPublished("processing")
  /\ Move(w, Following[exec[w].pc])
  /\ UNCHANGED <<package, run, attempts, job, request, worker, lost, faults>>

SetOwn(w, s) == attempts' = [attempts EXCEPT ![RunOf(w)] = [@ EXCEPT ![exec[w].no] = s]]

\* The worker's own validation passed: completeAttempt.
CompleteAttempt(w) ==
  /\ At(w, "validating") /\ Own(w) = "running"
  /\ SetOwn(w, "succeeded")
  /\ Move(w, "validated")
  /\ UNCHANGED <<book, run, job, request, worker, lost, faults>>

\* Agent, sandbox, validation or a guarded statement failed: failAttempt and the next try.
\* An error of failAttempt is swallowed, and the attempt left running.
AttemptFails(w) ==
  /\ exec[w].pc \in {"agent", "validating", "validated"}
  /\ \/ Own(w) = "running" /\ SetOwn(w, "failed")
     \/ UNCHANGED attempts
  /\ Move(w, "trying")
  /\ UNCHANGED <<book, run, job, request, worker, lost, faults>>

\* Outside the try of an attempt, an error ends the execution: so does one between startAttempt
\* and the try, which leaves the attempt running.
StageFails(w) ==
  /\ exec[w].pc \in {"loaded", "trying", "agent", "indexing", "analyzed", "uploaded", "gated"}
  /\ Move(w, "failing")
  /\ UNCHANGED <<book, run, attempts, job, request, worker, lost, faults>>

\* The first statement of the publishing transaction.
Gate(w) ==
  /\ At(w, "uploaded")
  /\ run[RunOf(w)] = "running" /\ Own(w) = "succeeded"
  /\ Move(w, "gated")
  /\ UNCHANGED <<book, run, attempts, job, request, worker, lost, faults>>

\* Mutant of Publish: the run is completed without looking whether it runs.
PublishAnyway(w) ==
  /\ At(w, "gated")
  /\ package' = <<RunOf(w), exec[w].no>>
  /\ status' = "ready"
  /\ run' = [run EXCEPT ![RunOf(w)] = IF @ = "running" THEN "completed" ELSE @]
  /\ JobEnds(w, "completed")
  /\ Leave(w)
  /\ UNCHANGED <<attempts, request, worker, lost, faults>>

\* Its commit: the package row, the pointer of the book and the completion of
\* the run, which must still be running.
Publish(w) ==
  /\ At(w, "gated")
  /\ run[RunOf(w)] = "running"
  /\ package' = <<RunOf(w), exec[w].no>>
  /\ status' = "ready"
  /\ run' = [run EXCEPT ![RunOf(w)] = "completed"]
  /\ JobEnds(w, "completed")
  /\ Leave(w)
  /\ UNCHANGED <<attempts, request, worker, lost, faults>>

\* Mutant of FailRun: a settled run fails as well.
FailAnyRun(w) ==
  /\ At(w, "failing")
  /\ run' = [run EXCEPT ![RunOf(w)] = "failed"]
  /\ Move(w, "run_failed")
  /\ UNCHANGED <<book, attempts, job, request, worker, lost, faults>>

\* Mutant of FailRun: the failure of the run is forgotten.
FailRunForgotten(w) ==
  /\ At(w, "failing")
  /\ Move(w, "run_failed")
  /\ UNCHANGED <<book, run, attempts, job, request, worker, lost, faults>>

\* The catch of executeNormalizationRun: the run fails unless it is settled.
FailRun(w) ==
  /\ At(w, "failing")
  /\ run' = [run EXCEPT ![RunOf(w)] = IF @ = "running" THEN "failed" ELSE @]
  /\ Move(w, "run_failed")
  /\ UNCHANGED <<book, attempts, job, request, worker, lost, faults>>

\* Mutant of FailBook: the book fails although it has a package.
FailAnyBook(w) ==
  /\ At(w, "run_failed")
  /\ status' = "failed"
  /\ JobEnds(w, "failed")
  /\ Leave(w)
  /\ UNCHANGED <<package, run, attempts, request, worker, lost, faults>>

\* ... and then the book, unless it has a package.
FailBook(w) ==
  /\ At(w, "run_failed")
  /\ UnlessPublished("failed")
  /\ JobEnds(w, "failed")
  /\ Leave(w)
  /\ UNCHANGED <<package, run, attempts, request, worker, lost, faults>>

\* The error of one of the two statements is swallowed.
UpdateLost(w) ==
  /\ exec[w].pc \in {"failing", "run_failed"}
  /\ Fails("update_lost")
  /\ lost' = TRUE
  /\ \/ At(w, "failing") /\ Move(w, "run_failed") /\ UNCHANGED job
     \/ At(w, "run_failed") /\ JobEnds(w, "failed") /\ Leave(w)
  /\ UNCHANGED <<book, run, attempts, request, worker>>

(***************************************************************************)
(* The queue and the worker process                                        *)
(***************************************************************************)
\* The lock of an active job expires: it is handed out again, or fails when it
\* stalled more often than BullMQ forgives.  No handler marks the run then.
Requeue(r) ==
  job' = [job EXCEPT ![r] = [status |-> IF @.stalls >= MaxStalls THEN "failed" ELSE "waiting",
                             owner |-> None, stalls |-> @.stalls + 1]]

HeldBySlot(r) == job[r].owner # None /\ exec[job[r].owner].run = r

Stall(r) ==
  /\ job[r].status = "active" /\ HeldBySlot(r)
  /\ Fails("stall")
  /\ Requeue(r)
  /\ UNCHANGED <<book, run, attempts, request, worker, exec, lost>>

RecoverStopped(r) ==
  /\ job[r].status = "active" /\ ~ HeldBySlot(r)
  /\ worker = "up"
  /\ Requeue(r)
  /\ UNCHANGED <<book, run, attempts, request, worker, exec, lost, faults>>

\* A deployment, a crash or the forced exit of the shutdown ends the process.
\* The books of running runs are reconciled; an execution whose run is settled
\* leaves its book as it is at that moment.
WorkerStops ==
  /\ worker # "down"
  /\ Fails("worker_stop")
  /\ worker' = "down"
  /\ exec' = [w \in Slots |-> NoExecution]
  /\ lost' = (\/ lost \/ worker = "reconciling"
              \/ \E w \in Slots : ~ At(w, "idle") /\ run[RunOf(w)] # "running")
  /\ UNCHANGED <<book, run, attempts, job, request>>

\* Mutant of Reconcile: the books of the orphaned runs are left as they are.
ReconcileRunsOnly ==
  /\ worker = "down"
  /\ run' = [r \in Runs |-> IF run[r] = "running" THEN "failed" ELSE run[r]]
  /\ worker' = "up"
  /\ UNCHANGED <<book, attempts, job, request, exec, lost, faults>>

\* reconcileOrphanedNormalizationRuns: every running run fails ...
Reconcile ==
  /\ worker = "down"
  /\ run' = [r \in Runs |-> IF run[r] = "running" THEN "failed" ELSE run[r]]
  /\ worker' = IF AnyRunning THEN "reconciling" ELSE "up"
  /\ UNCHANGED <<book, attempts, job, request, exec, lost, faults>>

\* ... and then their books that have no package.
ReconcileBooks ==
  /\ worker = "reconciling"
  /\ UnlessPublished("failed")
  /\ worker' = "up"
  /\ UNCHANGED <<package, run, attempts, job, request, exec, lost, faults>>

\* One of the two statements throws: the error is logged and the worker starts.
ReconcileError ==
  /\ worker \in {"down", "reconciling"}
  /\ Fails("reconcile_error")
  /\ worker' = "up"
  /\ lost' = TRUE
  /\ UNCHANGED <<book, run, attempts, job, request, exec>>

(***************************************************************************)
(* Specification                                                           *)
(***************************************************************************)
RequestStep(c) ==
  \/ ReadBook(c) \/ FindActiveRun(c) \/ InsertRun(c) \/ RequestAborts(c)
  \/ Enqueue(c) \/ EnqueueError(c) \/ UndoRun(c) \/ ApiCrash(c)

AttemptStep(w) == StartAttempt(w) \/ GiveUp(w) \/ CompleteAttempt(w) \/ AttemptFails(w)

ExecutionStep(w) ==
  \/ \E r \in Runs : Load(w, r) \/ Reject(w, r)
  \/ MarkNormalizing(w) \/ AttemptStep(w) \/ Advance(w) \/ StageFails(w)
  \/ Gate(w) \/ Publish(w) \/ FailRun(w) \/ FailBook(w) \/ UpdateLost(w)

ProcessStep == WorkerStops \/ Reconcile \/ ReconcileBooks \/ ReconcileError

Next ==
  \/ \E c \in Requests : RequestStep(c)
  \/ \E w \in Slots : ExecutionStep(w)
  \/ \E r \in Runs : Stall(r) \/ RecoverStopped(r)
  \/ ProcessStep

Spec == Init /\ [][Next]_vars

\* An execution proceeds: its agents have a time limit, and what does not
\* succeed fails.  A request proceeds, a waiting job is taken, an expired lock
\* is found, and systemd starts a worker that stopped.  Users owe nothing.
Work(w) ==
  \/ MarkNormalizing(w) \/ AttemptStep(w) \/ Advance(w) \/ StageFails(w)
  \/ Gate(w) \/ Publish(w) \/ FailRun(w) \/ FailBook(w)

Fairness ==
  /\ \A c \in Requests : WF_vars(Enqueue(c) \/ UndoRun(c))
  /\ \A w \in Slots : WF_vars(Work(w))
  /\ \A r \in Runs : /\ WF_vars(\E w \in Slots : Load(w, r) \/ Reject(w, r))
                      /\ WF_vars(RecoverStopped(r))
  /\ WF_vars(Reconcile \/ ReconcileBooks)

FairSpec == Spec /\ Fairness

(***************************************************************************)
(* Properties                                                              *)
(***************************************************************************)
\* The package a book points to comes from an attempt that passed the worker's
\* own validation, of the run that is completed with it
\* (technical_architecture.md:271, "ready points to a package that passed").
PackageProvenance ==
  package # None =>
    /\ run[package[1]] = "completed"
    /\ package[2] \in DOMAIN attempts[package[1]]
    /\ attempts[package[1]][package[2]] = "succeeded"

\* A published package is never replaced, whatever zombies, retries or
\* imports that read the book too early go on to do.
PublishedOnce == [][package # None => package' = package]_vars

\* No late failure handler, reconciliation or leftover execution of the worker
\* turns a published book into a failed or unfinished one: only a request that
\* read the book before its publication can (see ReadyIsReused).
PublishedNotDemoted ==
  [][package # None /\ request' = request => status' = status]_vars

\* A run that ended stays as it ended: a failed run is not completed by the
\* execution that goes on, a completed one is not failed by another.
OutcomesFinal ==
  [][\A r \in Runs : run[r] \in {"completed", "failed"} => run'[r] = run[r]]_vars

\* Every run of a book without a package settles, unless a statement was cut off.
RunSettles ==
  \A r \in Runs : (run[r] = "running" /\ package = None) ~> (run[r] # "running" \/ lost)

\* A book without a package does not stay in progress: it is published or
\* failed, so that the user can retry, unless a statement was cut off.
BookSettles ==
  (status \in InProgress /\ package = None) ~> (status \notin InProgress \/ lost)

\* Nothing is left in progress for good.
WorkSettles == RunSettles /\ BookSettles

\* "Runs that are still running when the worker starts are orphans of the
\* previous process" (reconcile.ts:6-7): reconciliation fails no run whose job
\* is still waiting to be executed.
ReconcileOrphansOnly ==
  [][\A r \in Runs :
       worker = "down" /\ worker' # "down" /\ run[r] = "running" /\ run'[r] = "failed"
         => job[r].status # "waiting"]_vars

\* "An existing ready package is reused" (technical_architecture.md:448): no run
\* is inserted for a book that has a package.
ReadyIsReused ==
  [][\A r \in Runs : run[r] = "none" /\ run'[r] = "running" => package = None]_vars
=============================================================================
