------------------------- MODULE FormalGeneration -------------------------
(***************************************************************************)
(* The enhanced content of one active book: the requests of the reading    *)
(* page that move the position, mark nodes read, open the book or switch   *)
(* its strategy (apps/api/src/user-books.ts), the rows of node_generations *)
(* they ask for, the BullMQ job of each row, and the worker that executes  *)
(* the jobs (apps/worker/src/tailoring/job.ts).                            *)
(*                                                                         *)
(* A request is a chain of statements, each of its own transaction unless  *)
(* an action says otherwise, and other requests and workers run between    *)
(* any two of them.  The strategy versions of the book are numbered in the *)
(* order of their confirmation; a node stands for its order in the book.   *)
(***************************************************************************)
EXTENDS ReaderConstants, FiniteSets, Sequences

VARIABLES
  current,   \* user_books.current_strategy_version_id
  position,  \* reader_states: the node and when the client was there (at = 0: no row)
  pin,       \* reader_read_nodes: the strategy a read node keeps (0: not read)
  rows,      \* node_generations of scope formal, in the order of their creation
  jobs,      \* the BullMQ job of each row
  request,   \* the statement each API request has reached, and what it has read
  slot,      \* the same for each execution of a job
  events     \* requests and faults so far (bound: FormalEvents)

vars == <<current, position, pin, rows, jobs, request, slot, events>>

Nodes == 1..NodeCount
Strategies == 1..MaxStrategy

\* No status but these is ever written ('retrying' is only read).
Live == {"queued", "generating"}
Row  == [node: Nodes, strategy: Strategies,
         status: Live \cup {"ready", "failed", "superseded"}, attempt: 0..Attempts]

\* "failed": out of attempts, onTerminalFailure is under way; "settled": it is done;
\* "lost": it threw or died, or the job stalled out and it is not called.  shared:
\* the job was given to a second execution while the first went on.
Job == [state: {"none", "waiting", "active", "completed", "failed", "settled", "lost"},
        made: 0..Attempts, stalled: 0..1, shared: BOOLEAN, error: 0..Attempts]
NoJob == [state |-> "none", made |-> 0, stalled |-> 0, shared |-> FALSE, error |-> 0]

Position == [node: 0..NodeCount, at: 0..MaxAt]
Pins == [Nodes -> 0..MaxStrategy]

Idle == [step |-> "idle", strategy |-> 0, node |-> 0, at |-> 0, moved |-> FALSE]
Free == [step |-> "idle", gen |-> 0, seen |-> 0, claimed |-> 0, holder |-> FALSE]

TypeOK ==
  /\ current \in Strategies
  /\ position \in Position
  /\ pin \in Pins
  /\ rows \in Seq(Row) /\ jobs \in Seq(Job) /\ Len(jobs) = Len(rows)
  /\ request \in [Requests ->
       [step: {"idle", "prior", "position", "repin", "recover", "resume", "window",
               "enqueue", "mark"},
        strategy: 0..MaxStrategy, node: 0..NodeCount, at: 0..MaxAt, moved: BOOLEAN]]
  /\ slot \in [Slots ->
       [step: {"idle", "load", "check", "claim", "generate", "return", "throw"},
        gen: 0..Len(rows), seen: 0..Attempts, claimed: 0..Attempts, holder: BOOLEAN]]
  /\ events \in 0..FormalEvents

Init ==
  /\ current = 1 /\ position = [node |-> 0, at |-> 0] /\ pin = [n \in Nodes |-> 0]
  /\ rows = <<>> /\ jobs = <<>>
  /\ request = [r \in Requests |-> Idle] /\ slot = [s \in Slots |-> Free]
  /\ events = 0

\* The strategy whose content a node shows: a read node the reader has left keeps the
\* one it was read with.
Expected(n) == IF n = position.node \/ pin[n] = 0 THEN current ELSE pin[n]

\* The next eligible nodes from the reader's place on, or the last ones of the book.
Window(n) ==
  LET ahead == {m \in Eligible : m >= n} IN
  IF ahead # {} THEN {m \in ahead : Cardinality({k \in ahead : k < m}) < WindowSize}
  ELSE {m \in Eligible : Cardinality({k \in Eligible : k > m}) < WindowSize}

NewRow(n, s) == [node |-> n, strategy |-> s, status |-> "queued", attempt |-> 0]

\* The nodes of W for which the partial unique index lets a row of strategy s in.
Missing(rs, W, s) ==
  {n \in W : \A g \in 1..Len(rs) :
     rs[g].node = n /\ rs[g].strategy = s => rs[g].status = "superseded"}

\* The one listing of a set of nodes in their order.
Listings(W) == {q \in [1..Cardinality(W) -> W] :
                  \A i, j \in 1..Cardinality(W) : i < j => q[i] < q[j]}

\* The rows rs with those added that are missing of W.
Inserted(rs, W, s) ==
  {rs \o [i \in 1..Len(new) |-> NewRow(new[i], s)] : new \in Listings(Missing(rs, W, s))}

\* Jobs are added for the rows G that have none; any existing job stays as it is.
Added(G) == [g \in 1..Len(jobs) |->
  IF g \in G /\ jobs[g].state = "none" THEN [jobs[g] EXCEPT !.state = "waiting"] ELSE jobs[g]]

(***************************************************************************)
(* The requests of the reading page                                        *)
(***************************************************************************)
Count == events < FormalEvents /\ events' = events + 1

Goto(r, step) == request' = [request EXCEPT ![r].step = step]
Done(r) == request' = [request EXCEPT ![r] = Idle]

\* A request begins: it reads the book, and its strategy with it.
Begin(r, step, n, at) ==
  /\ request[r] = Idle /\ Count
  /\ request' = [request EXCEPT ![r] =
       [step |-> step, strategy |-> current, node |-> n, at |-> at, moved |-> FALSE]]
  /\ UNCHANGED <<current, position, pin, rows, jobs, slot>>

ReportReaderFocus(r, n, at) == Begin(r, "prior", n, at)
OpenReader(r) == Begin(r, "recover", 0, 0)
MarkReadNode(r, n) == Begin(r, "mark", n, 0)

\* reportReaderFocus reads where the reader was.
ReadPrior(r) ==
  /\ request[r].step = "prior"
  /\ request' = [request EXCEPT ![r].step = "position",
                                ![r].moved = position.node # request[r].node]
  /\ UNCHANGED <<current, position, pin, rows, jobs, slot, events>>

\* The position is stored unless a later observation is; it is skipped when it does not
\* match the manifest or the statement fails.
PersistReaderPosition(r) ==
  /\ request[r].step = "position"
  /\ \/ /\ request[r].at >= position.at
        /\ position' = [node |-> request[r].node, at |-> request[r].at]
     \/ UNCHANGED position
  /\ Goto(r, "repin")
  /\ UNCHANGED <<current, pin, rows, jobs, slot, events>>

\* Mutant of RepinFocus: the strategy read at the start of the request is written.
RepinFocusOwned(r) ==
  /\ request[r].step = "repin"
  /\ \/ /\ pin[request[r].node] # 0
        /\ pin' = [pin EXCEPT ![request[r].node] = request[r].strategy]
     \/ UNCHANGED pin
  /\ IF request[r].moved THEN Goto(r, "window") ELSE Done(r)
  /\ UNCHANGED <<current, position, rows, jobs, slot, events>>

\* One transaction under the lock of the book: the focused node, if it was read, takes
\* the strategy of now.  It may fail.  The window moves only with the node.
RepinFocus(r) ==
  /\ request[r].step = "repin"
  /\ \/ /\ pin[request[r].node] # 0
        /\ pin' = [pin EXCEPT ![request[r].node] = current]
     \/ UNCHANGED pin
  /\ IF request[r].moved THEN Goto(r, "window") ELSE Done(r)
  /\ UNCHANGED <<current, position, rows, jobs, slot, events>>

\* Opening the book enqueues the queued rows that are still expected; the tables are
\* read at once, a row that has left 'queued' by the time of its job ends it at once.
EnqueuePendingFormalGenerations(r) ==
  /\ request[r].step = "recover"
  /\ \E G \in SUBSET {g \in 1..Len(rows) :
                        rows[g].status = "queued" /\ rows[g].strategy = Expected(rows[g].node)} :
       jobs' = Added(G)
  /\ Goto(r, "resume")
  /\ UNCHANGED <<current, position, pin, rows, slot, events>>

\* The window of an opened book starts at the stored position.
ReadResume(r) ==
  /\ request[r].step = "resume"
  /\ request' = [request EXCEPT ![r].step = "window",
                                ![r].node = IF position.node = 0 THEN 1 ELSE position.node]
  /\ UNCHANGED <<current, position, pin, rows, jobs, slot, events>>

\* ensureFormalWindow inserts what is missing of the window, with the strategy read at
\* the start of the request ...
InsertFormalWindow(r) ==
  /\ request[r].step = "window"
  /\ \E new \in Inserted(rows, Window(request[r].node), request[r].strategy) :
     /\ Len(new) <= MaxRows
     /\ rows' = new
     /\ jobs' = jobs \o [i \in 1..(Len(new) - Len(rows)) |-> NoJob]
  /\ Goto(r, "enqueue")
  /\ UNCHANGED <<current, position, pin, slot, events>>

\* ... and enqueues its queued rows; each enqueue may fail.
EnqueueWindow(r) ==
  /\ request[r].step = "enqueue"
  /\ \E G \in SUBSET {g \in 1..Len(rows) :
                        /\ rows[g].status = "queued" /\ rows[g].strategy = request[r].strategy
                        /\ rows[g].node \in Window(request[r].node)} :
       jobs' = Added(G)
  /\ Done(r)
  /\ UNCHANGED <<current, position, pin, rows, slot, events>>

\* markReadNode: a node is read once, with the strategy read before the insert.
InsertReadNode(r) ==
  /\ request[r].step = "mark"
  /\ pin' = [pin EXCEPT ![request[r].node] = IF @ = 0 THEN request[r].strategy ELSE @]
  /\ Done(r)
  /\ UNCHANGED <<current, position, rows, jobs, slot, events>>

\* A statement throws or the API process dies: the rest of the request stays undone.
Abandon(r) ==
  /\ request[r] # Idle
  /\ Done(r)
  /\ UNCHANGED <<current, position, pin, rows, jobs, slot, events>>

\* Work on nodes whose content is no longer wanted: all but the nodes read and left.
Superseded(rs, kept) == [g \in 1..Len(rs) |->
  IF rs[g].status \in Live /\ rs[g].node \notin kept
  THEN [rs[g] EXCEPT !.status = "superseded"] ELSE rs[g]]

\* confirmProposal for the effect it has here, one transaction under the lock of the
\* book: a new strategy takes over at the reader's node n (the node of the question when
\* there is no position), and its window is inserted.  StrategyProposals has the rest.
ConfirmProposal(r, n) ==
  LET s    == current + 1
      kept == {m \in Nodes \ {n} : pin[m] # 0} IN
  /\ request[r] = Idle /\ Count /\ s \in Strategies
  /\ position.node # 0 => n = position.node
  /\ current' = s
  /\ pin' = [pin EXCEPT ![n] = IF @ = 0 THEN 0 ELSE s]
  /\ \E new \in Inserted(Superseded(rows, kept), Window(n), s) :
     /\ Len(new) <= MaxRows
     /\ rows' = new
     /\ jobs' = jobs \o [i \in 1..(Len(new) - Len(rows)) |-> NoJob]
  /\ request' = [request EXCEPT ![r] =
       [step |-> "enqueue", strategy |-> s, node |-> n, at |-> 0, moved |-> FALSE]]
  /\ UNCHANGED <<position, slot>>

(***************************************************************************)
(* The worker                                                              *)
(***************************************************************************)
Step(s, step) == slot' = [slot EXCEPT ![s].step = step]
RowOf(s) == rows[slot[s].gen]
Write(s, status) == rows' = [rows EXCEPT ![slot[s].gen].status = status]

\* BullMQ hands a waiting job to an execution.
Take(s, g) ==
  /\ slot[s] = Free /\ jobs[g].state = "waiting"
  /\ jobs' = [jobs EXCEPT ![g].state = "active"]
  /\ slot' = [slot EXCEPT ![s] = [Free EXCEPT !.step = "load", !.gen = g, !.holder = TRUE]]
  /\ UNCHANGED <<current, position, pin, rows, request, events>>

\* executeContentGeneration reads the row; a finished one needs nothing.
Load(s) ==
  /\ slot[s].step = "load"
  /\ slot' = [slot EXCEPT ![s].seen = RowOf(s).attempt,
                          ![s].step = IF RowOf(s).status \in Live THEN "check" ELSE "return"]
  /\ UNCHANGED <<current, position, pin, rows, jobs, request, events>>

Unexpected(s) == RowOf(s).strategy # Expected(RowOf(s).node)

\* discardUnexpectedFormalGeneration, one transaction that shares the locks of the book,
\* the position and the pin: content nobody will see is not generated.
Check(s) ==
  /\ slot[s].step = "check"
  /\ IF Unexpected(s) /\ RowOf(s).status \in Live
     THEN Write(s, "superseded") /\ Step(s, "return")
     ELSE Step(s, "claim") /\ UNCHANGED rows
  /\ UNCHANGED <<current, position, pin, jobs, request, events>>

\* Mutant of Claim: the limit of the attempts is left to the queue.
ClaimUnlimited(s) ==
  /\ slot[s].step = "claim"
  /\ IF RowOf(s).attempt = slot[s].seen /\ RowOf(s).status \in Live
     THEN /\ rows' = [rows EXCEPT ![slot[s].gen].status = "generating", ![slot[s].gen].attempt = @ + 1]
          /\ slot' = [slot EXCEPT ![s].step = "generate", ![s].claimed = slot[s].seen + 1]
     ELSE Step(s, "return") /\ UNCHANGED rows
  /\ UNCHANGED <<current, position, pin, jobs, request, events>>

\* The next attempt is claimed if the row has not moved since it was read.
Claim(s) ==
  /\ slot[s].step = "claim"
  /\ IF slot[s].seen = Attempts
     THEN /\ slot' = [slot EXCEPT ![s].step = "throw", ![s].claimed = slot[s].seen]
          /\ UNCHANGED rows
     ELSE IF RowOf(s).attempt = slot[s].seen /\ RowOf(s).status \in Live
     THEN /\ rows' = [rows EXCEPT ![slot[s].gen].status = "generating", ![slot[s].gen].attempt = @ + 1]
          /\ slot' = [slot EXCEPT ![s].step = "generate", ![s].claimed = slot[s].seen + 1]
     ELSE Step(s, "return") /\ UNCHANGED rows
  /\ UNCHANGED <<current, position, pin, jobs, request, events>>

\* Mutant of Finalize: the content is saved whatever the reader's strategy is now.
FinalizeUnchecked(s) ==
  /\ slot[s].step = "generate"
  /\ IF RowOf(s).status = "generating" /\ RowOf(s).attempt = slot[s].claimed
     THEN Write(s, "ready") ELSE UNCHANGED rows
  /\ Step(s, "return")
  /\ UNCHANGED <<current, position, pin, jobs, request, events>>

\* finalizeContentGeneration, one transaction: the check again, under the locks, and the
\* result of the latest attempt.
Finalize(s) ==
  /\ slot[s].step = "generate"
  /\ IF Unexpected(s) /\ RowOf(s).status \in Live THEN Write(s, "superseded")
     ELSE IF RowOf(s).status = "generating" /\ RowOf(s).attempt = slot[s].claimed
     THEN Write(s, "ready") ELSE UNCHANGED rows
  /\ Step(s, "return")
  /\ UNCHANGED <<current, position, pin, jobs, request, events>>

\* Reading profiles, the package and the node, or generating, throws.
Throw(s) ==
  /\ slot[s].step \in {"load", "check", "claim", "generate"} /\ Count
  /\ Step(s, "throw")
  /\ UNCHANGED <<current, position, pin, rows, jobs, request>>

\* The job ends as its handler did; an execution that has lost the lock changes nothing.
JobReturns(s) ==
  /\ slot[s].step = "return"
  /\ jobs' = IF slot[s].holder THEN [jobs EXCEPT ![slot[s].gen].state = "completed"] ELSE jobs
  /\ slot' = [slot EXCEPT ![s] = Free]
  /\ UNCHANGED <<current, position, pin, rows, request, events>>

JobThrows(s) ==
  LET g == slot[s].gen
      last == jobs[g].made + 1 >= Attempts IN
  /\ slot[s].step = "throw"
  /\ jobs' = IF slot[s].holder
             THEN [jobs EXCEPT ![g].made = @ + 1, ![g].error = slot[s].claimed,
                               ![g].state = IF last THEN "failed" ELSE "waiting"]
             ELSE jobs
  /\ slot' = [slot EXCEPT ![s] = Free]
  /\ UNCHANGED <<current, position, pin, rows, request, events>>

\* Mutant of FailContentGeneration: only a row that is being generated is marked.
FailContentGenerationStarted(g) ==
  /\ jobs[g].state = "failed"
  /\ IF rows[g].status = "generating" /\ jobs[g].error \in {0, rows[g].attempt}
     THEN rows' = [rows EXCEPT ![g].status = "failed"] ELSE UNCHANGED rows
  /\ jobs' = [jobs EXCEPT ![g].state = "settled"]
  /\ UNCHANGED <<current, position, pin, request, slot, events>>

\* failContentGeneration: the row fails with the attempt that did; an error from before
\* the claim fails any attempt.
FailContentGeneration(g) ==
  /\ jobs[g].state = "failed"
  /\ IF rows[g].status \in Live /\ jobs[g].error \in {0, rows[g].attempt}
     THEN rows' = [rows EXCEPT ![g].status = "failed"] ELSE UNCHANGED rows
  /\ jobs' = [jobs EXCEPT ![g].state = "settled"]
  /\ UNCHANGED <<current, position, pin, request, slot, events>>

(***************************************************************************)
(* Faults                                                                  *)
(***************************************************************************)
\* The write of the terminal failure throws, or its process dies.
CleanupLost(g) ==
  /\ jobs[g].state = "failed"
  /\ jobs' = [jobs EXCEPT ![g].state = "lost"]
  /\ UNCHANGED <<current, position, pin, rows, request, slot, events>>

\* The worker dies under an execution.
WorkerCrash(s) ==
  /\ slot[s].step # "idle" /\ Count
  /\ slot' = [slot EXCEPT ![s] = Free]
  /\ UNCHANGED <<current, position, pin, rows, jobs, request>>

\* The job goes back to the queue once; the second time it fails with an
\* UnrecoverableError and attempts to spare, for which onTerminalFailure is not called.
Requeued(job, alive) ==
  IF job.stalled = 0
  THEN [job EXCEPT !.state = "waiting", !.stalled = 1, !.shared = job.shared \/ alive]
  ELSE [job EXCEPT !.state = "lost", !.shared = job.shared \/ alive]

Holders(g) == {s \in Slots : slot[s].gen = g /\ slot[s].holder}

\* The stalled check finds the lock of an active job expired ...
RecoverCrashed(g) ==
  /\ jobs[g].state = "active" /\ Holders(g) = {}
  /\ jobs' = [jobs EXCEPT ![g] = Requeued(jobs[g], FALSE)]
  /\ UNCHANGED <<current, position, pin, rows, request, slot, events>>

\* ... although its execution is alive, which goes on without it.
Stall(s) ==
  /\ slot[s].holder /\ Count
  /\ jobs' = [jobs EXCEPT ![slot[s].gen] = Requeued(jobs[slot[s].gen], TRUE)]
  /\ slot' = [slot EXCEPT ![s].holder = FALSE]
  /\ UNCHANGED <<current, position, pin, rows, request>>

Next ==
  \/ \E r \in Requests :
       \/ \E n \in Nodes : \/ \E at \in 1..MaxAt : ReportReaderFocus(r, n, at)
                           \/ MarkReadNode(r, n) \/ ConfirmProposal(r, n)
       \/ OpenReader(r) \/ ReadPrior(r) \/ PersistReaderPosition(r) \/ RepinFocus(r)
       \/ EnqueuePendingFormalGenerations(r) \/ ReadResume(r)
       \/ InsertFormalWindow(r) \/ EnqueueWindow(r) \/ InsertReadNode(r) \/ Abandon(r)
  \/ \E s \in Slots :
       \/ \E g \in 1..Len(jobs) : Take(s, g)
       \/ Load(s) \/ Check(s) \/ Claim(s) \/ Finalize(s) \/ Throw(s)
       \/ JobReturns(s) \/ JobThrows(s) \/ WorkerCrash(s) \/ Stall(s)
  \/ \E g \in 1..Len(jobs) :
       FailContentGeneration(g) \/ CleanupLost(g) \/ RecoverCrashed(g)

Spec == Init /\ [][Next]_vars

(***************************************************************************)
(* Properties                                                              *)
(***************************************************************************)
\* Content becomes visible only for the strategy its node is read with at that moment,
\* whatever was confirmed or marked while it was generated, and only from the attempt
\* that claimed the row last (finalizeContentGeneration); what is ready stays as it is.
FinishesAsExpected ==
  \A g \in 1..Len(rows) :
    /\ rows'[g].status = "ready" /\ rows[g].status # "ready" =>
         /\ rows[g].strategy = Expected(rows[g].node)
         /\ \E s \in Slots : slot[s].gen = g /\ slot[s].claimed = rows[g].attempt
    /\ rows[g].status = "ready" => rows'[g] = rows[g]

ReadyIsExpected == [][FinishesAsExpected]_vars

\* A strategy confirmed while a node is focused or marked is never undone there: a pin
\* only moves to a newer strategy (the transaction of reportReaderFocus, user-books.ts
\* 1867-1892, against confirmProposal and markReadNode).
PinsAdvance == \A n \in Nodes : pin'[n] >= pin[n]

PinsNeverGoBack == [][PinsAdvance]_vars

Excused(g) == jobs[g].state = "lost" \/ jobs[g].shared

\* Unless its job stalled under a live execution or its terminal failure was not
\* recorded, content that is asked for is on its way: the row waits for the next visit
\* to enqueue it, or its job or the record of its failure is still to come.
LiveRowsAreHeld ==
  \A g \in 1..Len(rows) :
    rows[g].status \in Live /\ ~Excused(g) =>
      \/ rows[g].status = "queued" /\ jobs[g].state = "none"
      \/ jobs[g].state \in {"waiting", "active", "failed"}
=============================================================================
