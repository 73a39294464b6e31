# Verification of readtailor

TLA+ models of readtailor (an API server, a worker process, BullMQ queues on Redis,
a PostgreSQL database, object storage and a web client), TLC runs that check them
on small instances, and TLAPS proofs for every value of the constants. Paths are
relative to `src/`.

What is modelled follows a book from its EPUB to the reader: its **import and
normalization** and the immutable packages they publish, the **reading setup** (the
dialogue that tailors the book, with the event stream that shows it), the
**content** generated for an active book, and the **reader** with its positions,
reading time, highlights and questions. Beside these stand accounts and profiles,
and the html of a book itself, which three programs cut into the same numbered
blocks.

## Running

    tlc -config ReadingSetupRun_activation.cfg MCReadingSetupRun
    tlc -config SetupPage_observation.cfg MCSetupPage
    tlc -config Normalization_publication.cfg MCNormalization
    tlc -config Reader_components.cfg MCReader
    tlapm ReadingSetupRunProofs.tla
    tlapm LibraryProofs.tla
    tlapm StrategyProposalsProofs.tla
    tlapm MCSetupPageProofs.tla
    tlapm MCTranscriptProofs.tla
    tlapm MCNormalizationProofs.tla
    tlapm MCReaderProofs.tla
    tlapm MCReaderPageProofs.tla

`PROJECT.json` lists the runs, the source lines every definition stands for, the
hazards, the findings and, for every checked property, a mutant of the model
(defined next to the original) under which TLC finds the property violated.

## Inventory

| Component | State | Operations | What is hard | What makes it correct |
|---|---|---|---|---|
| Reading-setup session and runs (`apps/api/src/agent-driven-reading-setup.ts`, `packages/database/src/reading-setup-session-store.ts`, `apps/worker/src/agent-run/`) | one session row (agent state, `activeRunId`), the jobs of its runs, the book | submit an input, first visit, claim, enqueue; execute, retry, commit, fail | attempts of one run beside each other; retries on an old copy; crashes between statements | only the run that holds the session writes it; it is given up again; terminal events are true |
| Agent loop and tools (`packages/agent-kit`, `agent-run/*-tool*.ts`, `reading-setup-activation.ts`) | the transcript of the turn; activation in its own transaction | publish, trial, complete | checks judged on the copy, effects on the row | consent precedes trial and activation; one activation |
| Agent-run event stream (`agent-run-projector.ts`, `coalescing-agent-event-sink.ts`, `agent-run-observation.ts`, `run-reducer.ts`) | sequence number, job progress, observers' buffers, the sink's queue | emit, merge, flush, snapshot, subscribe, catch up | reconnects, two attempts publishing at once, lost terminal events, a projection that fails | the view is one that was published, never goes back, and ends; events are projected once, in order |
| Reading-setup page (`apps/web/src/reading-setup`) | session, active run, action under way; committed, live and optimistic transcript | load, send, retry, refresh, follow a run | responses that overtake each other; live and committed messages are two projections | the page observes the run it was told of; what was shown stays when the run ends |
| Book import and normalization (`apps/api/src/book-imports.ts`, `apps/worker/src/normalization/`) | shared book, runs, attempts, package pointer; the sandbox of an attempt | import, retry, execute, validate, publish, reconcile; the agent's tools | read-then-write requests, zombie executions, failures of two statements, remote writes that fail after they were done | a package is validated, published once, never taken back; nothing stays in progress |
| Packages (`packages/storage`, `packages/normalized-book`, `tools/preset-import`, `ingest-epub.ts`) | write-once objects, the package of a book | put if absent, verify, publish, insert | two writers of one key, directories that change meanwhile | what the row records is what the storage has |
| The html of a book (`tools/build_reading_nodes.py`, `packages/tailoring/src/source.ts`, `packages/reader-core`, `apps/web/src/reader/content.ts`) | none: the manifest, computed once | cut into nodes and blocks, validate, slice; map selections, marks and positions | three parsers must number the same blocks; boundaries of texts, breaks, nested lists | one place of the book has one address, and leads back to it |
| Formal content generation (`apps/worker/src/tailoring/job.ts`, `user-books.ts`) | node generations, windows, pins | ensure window, generate, retry, mark read | strategy changes in flight; jobs that stall out | content is shown for the strategy its node is read with; nothing waits for ever |
| QA and proposals (`user-books.ts`, `ask-ai-engine.ts`, `AskAiPanel.tsx`) | threads, messages, proposals; the panel's turns | ask, answer, revise, confirm, reject; restore, retry | two answers at once; two decisions at once; answers of another thread | message sequence; one decision per proposal; the panel shows one thread |
| Reading time (`reader/session.ts`, `user-books.ts`) | the tracker; sessions, slices, totals | tick, send, retry, record | timers that fire late, slices lost, repeated and reordered, midnight | each moment counts once |
| Positions, content, highlights and settings of the page (`reader/ReaderPage.tsx`, `reader/api.ts`, `user-books.ts`) | the page's layout and caches; reader state, read nodes, highlights | restore, report, poll, mark read, highlight, change settings | late images, answers in any order, caches that outlive the page | the last choice is stored; what was shown stays; copies agree |
| Accounts and profiles (`auth.ts`, `profiles.ts`, `AuthProvider.tsx`, `OnboardingPage.tsx`) | users, sessions, profiles; what each tab knows | register, log in, log out, onboard, save a version | tabs that share a cookie; answers applied late; a repeated onboarding | what a tab is told agrees with the account |
| Performance log (`packages/observability`) | bounded buffer, batch, timer | record, flush, close | overflow, failing inserts, events during a flush | every event is accounted for |
| Routes, contracts, system chat, deployment, other tools | wiring | - | - | - |

The parts meet through shared rows (a run id written by the API is the job id of
the queue and the fence of the worker's UPDATE), through job states (a job that
fails for good calls a failure handler that writes the row), through published
events, and, in the reader, through block points `(blockIndex, offset)` that are
computed by one program and read by another.

## Modules

| Module | What it is |
|---|---|
| `ReadingSetupRun` | the session, its API requests, its jobs and attempts, the tools that write history or activate the book, and their failures |
| `ReadingSetupContract` | what the session promises: atomic turns one at a time, one authorised activation, true announcements |
| `AgentRunStream` | one run as it is shown: attempts, projector, job progress, queue events, observer, page |
| `EventChannel`, `CoalescingSink` | what a loop may expect of the sink of its events, and the sink that implements it |
| `SetupClient` | the session as a page knows it: query, refreshes, actions, the run it observes |
| `SetupTranscript` | what the page shows of the conversation and offers to do |
| `Normalization` | import and retry requests, the normalization queue, executions with their attempts, publication, reconciliation |
| `NormalizationAttempt` | one attempt: the agent's tools in the sandbox, the gate, the worker's own check |
| `PackagePublication` | the storage, the publication of a package, the preset importer and `ingest-epub` |
| `BookTree` | a book's html as a tree |
| `ReadingNodes`, `NodeSource`, `ReaderDom` | the three programs that number its blocks: importer, server, page |
| `ReaderCore` | points, ranges and the manifest's rules |
| `PublishedBook` | a book from its html to the open page, and what the three must agree on |
| `Accounts`, `Questionnaire` | accounts, sessions, profiles and tabs; a question with several answers |
| `PerfBuffer` | the performance log of a process |
| `FormalGeneration` | the enhanced content of an active book |
| `StrategyProposals`, `AskAiPanel` | question threads and proposals at the server; the panel |
| `ReadingActivity` | reading time from the tracker to the totals |
| `ReaderPosition`, `ReaderContent`, `ReaderNotes` | the page's position; its content and read nodes; highlights and settings |
| `MCReadingSetupRun`, `MCSetupPage`, `MCNormalization`, `MCReader` | instances for TLC |
| `SetupPageConstants`, `LibraryConstants`, `ReaderConstants`, `Null` | parameters with their assumptions, shared by the modules of one instance |
| `LibraryParts` | the instances of five components of `MCNormalization`, apart, so that they can be proved about without the rest |
| `ReadingSetupRunProofs`, `StrategyProposalsProofs` | theorems about one module |
| `LibraryProofs` | theorems about `Normalization`; the inductive invariants of the components of `LibraryParts` |
| `MCSetupPageProofs`, `MCTranscriptProofs`, `MCNormalizationProofs`, `MCReaderProofs`, `MCReaderPageProofs` | theorems about the components of a composed run |

`MCSetupPage`, `MCNormalization` and `MCReader` each check several components in
one run. The components share no state in the models, so that a behaviour is one of
a single component, chosen by the variable `focus`; the others stay as they began
(or hold `None`, so that they cost nothing). Their properties are conjoined under a
name of the MC module where they answer one question.

## The modules and the code

### ReadingSetupRun

`session` is the row of `reading_setup_sessions`. A transcript is the set of its
successful tool calls and of one `Prose` entry per run (prompt and answer): which
calls exist, what they refer to and which run wrote them decides every check of
the code; their order and text do not. Each request is a program counter that
goes through the code's own database statements: `Submit` (read and validate the
input), `CheckEligible`, `ClaimRun` (one conditional UPDATE), `Enqueue`,
`UndoClaim`; `Enter`, `LoadOrCreate`, `ClaimInitialRun` for the first visit.

An attempt (`attempt[w]`) reads the session once (`StartAttempt`), lets the agent
call tools against that copy (`Publish`, `PublishStrategy`, `GenerateTrial`,
`CompleteSetup`) and writes it back with `CommitRun`, the UPDATE fenced by
`activeRunId`, or ends as stale. `CompleteSetup` locks the book and activates it
in its own transaction, on checks made on the copy (`ActivationChain`). Then come
`PublishCompleted`, or `AttemptError` and another attempt.

BullMQ is modelled from how the code uses it: a waiting job is taken by a worker
under a lock; a lock that expires under a live holder (`Stall`) or a dead one
(`RecoverCrashed`) requeues the job, so that a second attempt runs beside the
first, or fails it when it stalled too often. A job that failed for good gets its
failure handler (`FailRun`, `PublishFailed`), unless that is lost.

Failures are named kinds (`Faults`), each at the place where it can happen:
`enqueue_error` (with or without the job in Redis), `api_crash` between claim and
enqueue, `worker_crash`, `stall`, `attempt_error`, `commit_unacknowledged`,
`publish_error`, `cleanup_lost`.

### Normalization

One shared book: `status` and `package` are its row, `run` and `attempts` the rows
of `normalization_runs` and `normalization_attempts`. A request is a READ
COMMITTED transaction with one action per statement that reads what others write:
`ReadBook`, `FindActiveRun`, then `InsertRun` (the insert under the partial unique
index and the update of the book, visible at the commit), `Enqueue`, and `UndoRun`
for the catch. `importBook` and `retryBook` have the same steps.

An execution takes its job (`Load`, or `Reject` before the try), marks the book
(`MarkNormalizing`), tries attempts (`StartAttempt`, `CompleteAttempt`,
`AttemptFails`, which leaves the attempt running when `failAttempt` itself fails,
`GiveUp`), moves through the stages guarded by the run's status
(`Advance`), and publishes: `Gate` is the first statement of the publishing
transaction, `Publish` its commit. Any error outside the `try` of an
attempt, one between `startAttempt` and that `try` included (`StageFails`), goes to `FailRun` and then
`FailBook`, two statements whose own errors are swallowed (`UpdateLost`). A worker
that starts fails every running run, then their books (`Reconcile`,
`ReconcileBooks`).

The statuses `queued`, `normalizing`, `validating`, `indexing` and `analyzing`
are two here (`InProgress`): no guard tells the last four apart.
`lost` records that a statement that would have settled a run or a book was cut
off (a swallowed error, a process that died at that point). The first
`advanceStep('indexing')` of the publication is one action with the
`advanceToIndexing` before it.
Reading the run and inserting the attempt is one step: two executions that both
find no active attempt are decided by the unique indexes of
`normalization_attempts`, with the same outcome.

### AgentRunStream, EventChannel, CoalescingSink

`AgentRunStream` follows one run from the agent loop to the page. An execution
starts an attempt from the snapshot stored in `job.progress` (`StartAttempt`: the
content is reset, the sequence number is kept), projects and publishes each event
together with its snapshot (`Publish`), commits, and ends with `run_finished`
(`Complete`, `PublishFailed`). The observer subscribes first, then reads the
snapshot, sorts what it buffered and drops what is not newer (`Connect`,
`ReadSnapshot`, `Drain`, `Yield`); the page applies what it receives (`Receive`).
An event is its number and the length of the display it belongs to, so that a
display is a value that was or was not published. Two attempts side by side
publish equal numbers, against `spec.md:77`; `ViewIsTrue` states what the page
shows all the same and excuses such overlaps (`overlapped`): two attempts, or an
attempt that goes on beside the failure handler of its job, which a stall too many
brings about.

The page has three more writers of what it shows, beside the connection and in any
order with it. The session query (`QueryStarts`, on focus, on mount or by
`retryConnection`, which also opens a new connection: `Disconnect`) and the refresh
after the end are read by the API process in two statements, the row (`ReadRow`) and
then the progress of the run it names (`ReadRun`). A changed response of the query
replaces the view unless the page has seen a later event (`QueryApplied`), the
response of the refresh replaces it always (`RefreshApplied`), and the answer to the
action that started the run shows it from its beginning (`AnswerArrives`, while
`claimed`). `asks` has the requests, `known` the last response that was applied,
`shown` whether the page has an active run. A view whose status changes gives its
connection up (the effect depends on it); one that keeps its status keeps the
connection and what is on the wire. Two kinds of views this makes are real flaws of
the code, marked in the model and excused by name:

- `stale`: a response that was read before the reset of a repeated attempt and applied
  after it has the number of the reset, counts as not older, and puts the former
  attempt's content back; the deltas that follow are appended to it, until the next
  snapshot.
- `ahead`: a response is newer than the connection, and a `run_snapshot` that was
  already on the wire is reduced whatever its number; it takes the page back.

React's commit is one step with the state change that causes it, a request that fails
counts as not made, and a session that has another active run as one where this run
is not active. What a page does after it has left for the reader, and the runs that
follow, are left out.

`CoalescingSink` is the queue before the projector: deltas of one content slot or
one tool call are merged into its tail, a pump projects the head, waiters are told
afterwards. `EventChannel` is what the loop relies on: accepted events are
projected once, in order, and whoever waits is told after everything accepted
before, or that it failed. `ImplementsChannel` is the refinement.

### SetupClient, SetupTranscript

`SetupClient` is the page's session query, the refreshes after each run, the
actions that send an input and the run the page observes; what it shows of that run
is in `AgentRunStream`. Responses carry the
state of the server when they were computed and are applied when they arrive.
`SetupTranscript` projects a turn twice, as the worker commits it and as the live
events show it, and adds the optimistic entry of an action; a text is a token and
a trial is treated as a strategy. Runs follow each other, a batch with
`publish_strategy` is executed in sequence, and turns cut off by an error are left
out: the loop commits a cut-off answer as it stands, and a response of the session
during a run drops an optimistic entry (`useReadingSetupSession.ts:169`).

### NormalizationAttempt, PackagePublication

`NormalizationAttempt` is one attempt of the worker: the agent writes scripts,
runs the normalizer, `nb_check` and the manifest builder in a sandbox, each with
its file writes, reads and artifacts, any of which may fail after it was done; the
gate and the worker's own validation follow. A file is the script and the output
it came from. A failed command other than a write ends the attempt
(`AttemptFails`). A workspace that cannot be made (`WorkspaceFails`,
`coordinator.ts:159-161`) ends the execution outside the `try` and leaves the row
running, as an error of `failAttempt` does; the next `startAttempt` of the run then
fails (`RowActive`).

`PackagePublication` has a storage with or without conditional writes, several
executions of the preset importer and of `ingest-epub` on one directory that may be
edited between its readings, and crashes anywhere. A file is the content it has;
hashes are contents. The fallback without conditional writes is excused together
with edits, which it does not detect.

### BookTree, ReadingNodes, NodeSource, ReaderDom, ReaderCore, PublishedBook

A document is a sequence of tags with depths; a character is identified by the text
node and its position, so that "the same character" is equality. `ReadingNodes` is
`build_reading_nodes.py` (segments, blocks, lengths, outline), `NodeSource` is the
server's extraction, its slices and the annotations of generated content,
`ReaderDom` the page's: blocks, texts, selections to points, points to boundaries,
marks, the nearest line to a position. `ReaderCore` is the shared package of points,
ranges and manifest rules. `PublishedBook` writes documents node by node from one
of ten vocabularies, builds the manifest, publishes it if it is valid and opens
the page; `Sound` conjoins nine statements on what the programs must agree on
(every node is found by the server with the same blocks, a place has one address
and leads back to it, a highlight covers what was selected, an annotation marks
its quotation, and so on).

The disagreements that are left are named there and excused by name: a figure
around text (`content.ts:335` counts it, the manifest does not, and the page then
refuses the whole book, although `reading_contract.md:86` calls a figure a medium
without text), a heading directly in a region (a node for the importer only), a
section without content (built with a warning, refused at publication), text in
two blocks (an item in a cell, a quotation in a caption) and selections that begin
in a nested item that is no block. Left out: attributes, notes, asset paths,
comments (the importer takes them for text), table rows, several marks at a time,
more than one region, and the display of trial fragments. Two more differences are
outside the model: `sliceNodeSource` repeats the html of a nested item, and
repeated quotations are anchored at their first occurrence.

### Accounts, Questionnaire, PerfBuffer

`Accounts` has the tabs of one browser, which share a cookie, and the calls each
has under way: `/session`, the forms (one at a time per tab), the onboarding,
which is authenticated first (`Authenticate`), then reads `user` and writes the profile,
or is refused if the user was disabled in between (`OnboardRefused`, a 404), and the versions of the profile. One
identity is one user; hashes, tokens and Google's checks are identities, the shelf
of presets is left out. A tab that something else overtook is marked in `behind`.
`Questionnaire` is the toggle of a question with several answers and an exclusive
one, against the server's validation. `PerfBuffer` is the buffer with its timer,
its batch and its closing.

### FormalGeneration, StrategyProposals, AskAiPanel

`FormalGeneration` has the rows of generated content with their jobs, the requests
that grow the window, retry, mark a node as read and confirm a strategy, each with
one action per statement whose result another transaction may change, and the
worker's executions. `StrategyProposals` has the threads, the idempotent requests
of questions, the turns with their transactions, and the decisions on proposals;
the version of the profile in a strategy is left out. `AskAiPanel` is the panel:
its queue of questions, the stream of the running one, restores of earlier threads
and the feedback on a proposal. What it saves on the server is over-approximated.

### ReadingActivity, ReaderPosition, ReaderContent, ReaderNotes

`ReadingActivity` is the tracker with its ticks, flushes and visibility, the slices
on their way, which are lost, repeated and reordered, and the transaction that
adds them up and splits them at midnight. `ReaderPosition` places a unit line per
place, images that load late and a guide; it restores, reports, debounces, jumps
and closes, and the server orders reports by the time they state. `excused` marks
behaviours in which the reader left before the restore had ended or a report was
lost. `ReaderContent` is one node with its generations as bootstraps, reports and
polls show them, and the read mark. `ReaderNotes` is one highlight and one setting
with all requests on their way.

## Runs

| Run | Instance | Question | Outcome |
|---|---|---|---|
| `activation` | 3 runs, 1 request, 2 workers, 2 failures of 4 kinds | is the book activated once, on confirmed products, and does everything implement the contract? | holds, 386,600 states |
| `recovery` | 2 runs, 2 workers, up to 2 attempts and 1 forgiven stall per job, 3 failures of 6 kinds, fairness | can leftover attempts write, do events tell the truth, does every run settle? | holds, 274,940 states |
| `races` | 2 requests, 3 runs, 1 worker, 1 failure of 4 kinds | is the session ever orphaned, does the opening run stay first, do trials follow consent? | holds, 356,350 states |
| `observation` | stream: 2 executions, 1 failure of 7 kinds; sink: 2 callers, 4 events or barriers; page: 2 runs; transcript: 3 parts | does the page show what was published, and its end; does the sink implement the channel; does the page follow the session? | holds, 615,721 states |
| `publication` | runs: 2 requests, 2 runs, 2 slots, 2 failures; attempt: 2 scripts, 6 tool calls; packages: 2 tools, 2 paths, 2 starts; tabs: 2 with 5 requests; html: documents of 6 to 8 nodes | is a package attested, whole, published once, never taken back; do the readers of the html agree; what of accounts and of the log? | holds, 920,554 states |
| `settles` | 1 request, 2 runs, 2 slots, 1 failure of 7 kinds, fairness | does every run and every book settle? | holds, 144,673 states |
| `reader` | content: 2 nodes, 2 requests, 2 executions; questions: 2 threads, 3 requests; time: 5 units; position: 3 reports, 2 openings; panel: 2 talks; notes: 2 calls | does content follow the strategy, do decisions stand, is time counted once, is the last choice stored, does the page agree with the server? | holds, 1,219,322 states |
| `double_confirmation` | 2 requests, no failure | is a product confirmed once? | violated |
| `completion_result` | 1 worker, 1 failing attempt, fairness | is every activation followed by its saved result? | violated |
| `reconcile` | 1 restart | does reconciliation only fail orphans? | violated |
| `reuse` | 2 requests, no failure | is a published book reused? | violated |
| `reading_time` | the instance of `reader` | does only credited time count as reading? | violated |

The composite runs divide into their components: of `publication`, the runs are
566,859 states, accounts 229,832, the packages 41,220, an attempt 42,783,
documents 30,905, the log 8,797 and the questionnaire 158; of `reader`,
formal content is 416,174 states, content of the page 292,826, position 187,072,
questions 158,562, time 110,404, panel 36,058 and notes 18,226; of `observation`,
the stream is 439,489 and, each counted twice because the stream may begin in two ways,
transcript 41,775, sink 33,714 and page 12,627.

### What the violated runs show

- `double_confirmation`: `submitConfirmation` refuses a second confirmation of a
  product with 409, judged on a read made before `claimRun`. A request that read
  before the first confirmation committed and claims after it commits the second.
- `completion_result`: the specification says that the result of
  `complete_reading_setup` is saved by the successful tool call. The activation is
  a transaction of its own; when the attempt then fails for good, the book is
  active and refuses further runs, and the transcript never shows the call.
- `reconcile`: the comment in `reconcile.ts` says that a run still `running` at
  the start of the worker is certainly an orphan. A run is `running` from its
  insert, so one whose job only waits in the queue is failed too.
- `reuse`: the architecture document says that a ready package is reused. The book
  and its running run are read by two statements; a publication between them lets
  the import insert a run for the published book and set it back to `queued`. Its
  job is rejected before the `try` that would fail the run, and only a publication
  sets `ready`.
- `reading_time`: the comment at `session.ts:56` says that the credit of a tick is
  capped so that a timer that fires late cannot add a huge delta. The tick is
  capped, but the slice that is sent runs from its start to the last tick
  (`session.ts:253`), and the server counts its span.

### Bounds

For the reading setup and the normalization: run ids are never reused, so their number bounds the admitted inputs: two runs
show one run against the next one, three are what an activation needs: a turn that
publishes the products and a strategy, the confirmation of the strategy with the
trial, the confirmation of the trial with the activation. Two workers or slots are what a stall needs: an
execution beside its successor. One id per tool suffices for the checks, which
compare ids for equality; `CompleteSetup` relates one trial and one strategy.
`MaxFaults` bounds the failures of a behaviour and the kinds are split over the
runs so that those that interact are in one run: failures that leave attempts
behind with those that fence them, the loss of a failure handler only where no
liveness is asked. `MaxAttempts = 2` and `MaxStalls = 1` reach every branch of
retry (a second attempt, a forgiven stall, a stall too many); in `activation`
one attempt suffices, a forgiven stall provides the second. `MaxTries = 1`
replaces the three tries of a normalization, since a second execution of the job
already produces later attempts of the run. The theorems remove these bounds for
the safety properties.

In `observation` two attempts of one event each, beside the resets and the end, and one
failure of any kind anywhere between the loop and the page reach every branch of the
observer and of the page's other writers: the first request for the session and the
answer to the action are under way from the start and cost no failure, so that a
response may cross a repeated attempt or a broken connection; a stall is
a stall too many (`MaxStalls = 0`: a forgiven one gives a second execution as an error
does, and was checked once with the same result); the sink's queue needs four events of two
kinds to have a head, a tail and something between. In `publication`,
`MaxTurns = 6` is one sequence of write, normalize, check, manifest, check with one
repetition; `MaxStarts = 2` gives two executions side by side or one after a crash
(three were checked once, with 589,346 states for the packages); `MaxEvents = 7` overflows a buffer of three twice. `MaxTree` bounds the
documents; the vocabularies that need depth (lists in cells or lists) have up to
two nodes more and fewer tags, so that every pair of constructs that may nest
occurs, with text before, inside and after it. In `reader`, five units of time
with midnight after the third and an idle threshold of two have slices on both
sides; three reports and two openings have a report of the first opening arrive in
the second; larger instances of the panel (`MaxAsked = 3`, 2.2 million states) and
of the notes (`MaxNotes = 2`, 1.2 million) were checked once with the same result.
`FirstBegins` orders interchangeable requests, ends behaviours that a property
excuses for good, and lets highlights and settings change in different behaviours.
The model values of `publication` are shared between its components so that one
symmetry serves all: no component compares values of another.

TLC checks deadlock in the runs of the reading setup (except `completion_result`)
and in `settles`, `reconcile` and `reuse`; the other components stop when their
bounded inputs are used up.

### Fairness

Weak fairness of what the processes do on their own: a request proceeds with its
next statement, a waiting job is taken by a worker, the queue finds expired locks,
failure handlers run, a worker is started again (systemd restarts it on failure).
For the reading setup it includes the end of the agent loop: the code does not
bound its turns, so this is trust in the model provider, stated as an assumption;
for normalization the code has a time limit per attempt. Users owe nothing: no
submission, import or retry is fair. `RunSettles` of the reading setup is checked
where API processes survive and failure handlers are not lost: nothing in the code
repairs those two. `WorkSettles` of the normalization (every run and every book
settles) excuses exactly the behaviours in which a settling statement was cut off (`lost`).
For the stream, in the behaviours that are the stream's (`FairSpec` of `MCSetupPage`;
the theorems are about `MCSpec`, which states no fairness): as long as anything but a
failure, an event of the agent or a new query can happen, something does: the worker takes jobs, publishes, commits and
finishes, expired locks are found, failure handlers run, the observer and the
page connect again and take what was delivered, and requests are answered. Since a
run, its connections and its requests are finite, no more is needed. `EndIsSeen` is the only property
that uses it.

The other components have no liveness property: a report, a slice or a poll may
always be lost, and the code does not promise that a reader's page stays open.

## Proofs

### ReadingSetupRunProofs

From `ReadingSetupAssumption` alone (bounds are numbers, ids of different kinds
differ, `None` and `Prose` are no ids), with every kind and any number of failures:

| Theorem | Property |
|---|---|
| `TypeCorrect` | `TypeOK` |
| `SnapshotsAreFresh` | `SnapshotFresh` |
| `OnlyTheActiveRunWrites` | `OnlyActiveRunWrites` |
| `RetiredRuns` | `RetiredRunsStayRetired` |
| `TerminalEvents` | `TerminalEventTruthful` |
| `ActivatedAtMostOnce` | `ActivatedOnce` |
| `ActivationsAuthorized` | `ActivationAuthorized` |
| `TrialsConsented` | `TrialsFollowConsent` |
| `SessionStartIsFirst` | `SessionStartOpensHistory` |
| `SessionNeverOrphaned` | `ActiveRunIsHeld`, when `api_crash` and `cleanup_lost` do not happen |
| `SessionImplementsContract` | `ImplementsContract` |

The argument is layered, each invariant used by the next. `TypeInv` adds to the
types that claims and attempts belong to runs that were claimed. `HistoryInv` adds
that an attempt of the run that holds the session works on exactly what is
committed (`SnapshotFresh`), that its new entries are its own, and that a
committed run has given the session up; it is inductive because the commit both
writes and releases, so that the copy of any other attempt becomes one of a
retired run. `TerminalInv` follows the failure handler. `ConsentInv` follows the
chain strategy, confirmation, trial, confirmation, activation through the copies:
what a fresh copy shows is committed, and history only grows, so a check on the
copy is a check on the row. `OpeningInv` says that a `session_start` run holds the
session only while it is empty. Lemmas that say who writes what (`HistoryWriters`,
`SessionWriters`, `AttemptWriters`, `FinishedWriters`, `BookWriters`) reduce the
actions to the few that matter before each invariant is proved.

The refinement maps the variables to themselves and forgets the rest: claims are
`Admit`, commits `Commit`, releases `Abandon`, the transaction of
`complete_reading_setup` is `Activate`, and everything else stutters.

### LibraryProofs: Normalization

From `NormalizationAssumption`:

| Theorem | Property |
|---|---|
| `NormalizationTypeCorrect` | `TypeOK` |
| `PackagePublishedOnce` | `PublishedOnce` |
| `PublishedBookKept` | `PublishedNotDemoted` |
| `OutcomesAreFinal` | `OutcomesFinal`, without `enqueue_unacknowledged` |
| `PackagesAreValidated` | `PackageProvenance`, without `enqueue_unacknowledged` |

The key to the first two safety theorems is `NothingLeftToPublish`: once the book
has a package, no execution is left whose run still runs. It needs that at most
one run of a book runs (the unique index), that an execution never changes its
run, and that one begins only for a book without a package. So a run inserted late
by a request that read too early is harmless to the package: it is never executed.
`HeldInv` says that a request on its way to the queue holds a run of its own that
the queue does not know, so that the catch of a failed enqueue fails no completed
run. With `enqueue_unacknowledged` (`queue.add` throws although Redis has the job)
that is false: the job may be executed, and published, before the catch marks run
and book as failed unconditionally. Hence the assumption, and the absence of that
kind from the `publication` run; the `settles` run includes it.

### The composed runs, and what is lifted into them

`MCSetupPage`, `MCNormalization` and `MCReader` run components that share no
variable: `focus` picks one of them, and the others stay as they began. A theorem about
such a run says `On("x") => ...`. Its proof shows that `focus` never changes, so
that `On("x") => XInv` is inductive when `XInv` is inductive for the component.
`StrategyProposals` is proved in a module of its own; its theorems are carried over by
one lemma per definition, which says that the instance of the run and the instance of
the proof agree on it (`Same...` in `MCReaderProofs`), and by the fact that a behaviour
with the focus on a component is a behaviour of that component. The other invariants are
proved on the instances of the run themselves: those of the library in `LibraryProofs`,
which knows the instances (`LibraryParts`) and not the run.

Every theorem below holds for any number of processes, requests, rows, events,
failures and steps: the bounds of the runs occur only in the assumptions that they
are numbers. Induction over lists of unknown length is avoided in the sink by a
least-number lemma (`MCSetupPageProofs`), and in `StrategyProposals` and
`FormalGeneration` by invariants on each element. Where it is needed, for the turns of the
panel and the lists of the transcript, it is stated with a set instead of a predicate.

### MCSetupPageProofs

From `SinkAssumption` (the sink), `ClientAssumption` (the page's session: a session
may have at least one run, and `None` is no number and no session), `StreamAssumption`
and `DataAssumption` (the stream: bounds are numbers, at least one attempt, and `None`
is no number, no event and no progress):

| Theorem | Property |
|---|---|
| `SinkTypeCorrect` | the types of the sink |
| `MergingIsSound` | `SinkIsSound` |
| `SinkIsChannel` | `ImplementsChannel`: `CoalescingSink` implements `EventChannel` |
| `ClientTypeCorrect` | the types of the page's session and its requests |
| `PageFollowsItsSession` | `PageFollowsSession` |
| `StreamTypeCorrect` | the types of the event stream |
| `PageShowsThePublished` | `ViewIsTrue` |
| `PageNeverGoesBack` | `ViewNeverGoesBack` |

`SinkInv` numbers the events. What was projected is a prefix of what was accepted,
the active item carries the events that follow, and the items of the queue lay out
the rest one after the other (`Laid`, with a function that gives each item the
number of its last event). An item carries events of one slot and of at most one
tool call (`WellFormed`), and the caller that waits for an item waits for exactly
the number it ends with (`Awaited`). So the pump may resolve a caller when it passes
its item: everything accepted before was projected. In the refinement `AcceptDelta`
is an `Offer`, whether it merges or not, `Accept` and `Flush` are `OfferAndWait` (a
flush with nothing to wait for answers at once), `Sunk` is `Project` with every
answer that the barriers behind the item give, and `SinkFails` is `Break`.

`ClientInv` says what every copy of the session is worth. The page's data and each
response on its way, by the query or by a refresh, is something the session was: no
later than it is now, and if it is of the latest run and that run goes on, it says so
(`Past`). The page knows of no run that was not claimed (`RunsArePast`), and a run whose
end it has seen has ended (`EndIsPast`), since a run never becomes active again. The
exception of the property is inductive only with what it costs: a response that
overtook the answer is still the page's data, and older than the run
(`OvertakenIsOld`). Otherwise the page could already have the session's data, and a
response that says the same again, which changes nothing, would clear `overtaken` while
the page still observes another run.

`StreamInv` follows a display from the attempt that makes it to the page. Whatever
happens, an end that somebody holds - an execution, Redis, a buffer, the wire, the page -
is in the session (`Told`), since it is announced after the session was written and the
outcome is final. While nothing overlaps: an attempt works alone, and nobody works once
the job has failed (`Alone`); what it holds follows what was published last
(`WorkFits`, `Fits`); so the stream is a chain in which every event takes its
predecessor to its own display, in the order of their numbers, and displays of one number
differ only by a reset that comes later (`StreamFits`); what the API process has read and
not yet sent is a segment of the stream that ends at its cursor (`Segment`), which is why
sorting changes nothing (`SortedIs`). And there is a path through the stream from what
the page shows over the messages on the wire to what the observer has counted as sent
(`ViewFits`, `Shows`): a snapshot on the wire jumps forward, an event goes one step, and
what is still to be sent begins no later than the path ends. Every response brings a
display that was published (`ReadingTold`), so a response only moves the page forward
along the stream: the view is where the path begins or, while it is `ahead`, at a later
display (`Stands`), and while it is `stale` it has the number and the status of such a
display. A page without a run has no connection (`Hidden`). So a progress that is
dropped as old is one the path has passed, and one that is sent is the next. Once an
attempt and a failure handler overlap the numbers are no longer unique, and nothing but
`Told` and the types remains. TLC checked `StreamInv` on larger
instances too: with a forgiven stall beside the two attempts (3.5 million states), and with
two failures (0.87 million).

### MCTranscriptProofs

From `ClientAssumption` and `TranscriptAssumption` (bounds are numbers), and from the
theorems of `MCSetupPageProofs` for the types of the other components:

| Theorem | Property |
|---|---|
| `TranscriptStaysTrue` | `TranscriptIsTrue`: `LiveBecomesCommitted` and `OffersAreTaken` |
| `SetupPageTypeCorrect` | `MCTypeOK` |

The model selects from lists and flattens lists of lists with `FlattenSeq`, which is a
recursive function (that one exists is proved too, `FlatteningExists`). What it does to a
list is shown by an induction over lists: a set of lists that holds the empty one, and
each list with one more element, holds all (`AllLists`). Hence `FlattenSeq` distributes
over concatenation, and going through a list (`Through`) piece by piece, or twice, is
going through it once. No other fact about recursion is needed.

`DialogueInv` keeps both projections of a turn side by side. The calls of a run have
ids of their own, apart from those of the history, and decisions name a call of the
history (`IdsFit`); what the agent said has no message of the user, and decisions are of
runs before this one (`UsersFit`). The snapshot shows every call as it stands now, with
the arguments and the outcome the loop has recorded, and each call that was said in a
finished message has settled (`ToolsFit`). And the steps the live view has followed are
those that were made: all in one order for a page that followed every event, the texts
and the calls each in theirs for one that went on with a snapshot (`StepsFit`). At the
end of a run the entries of both views are then the same function of the same steps
(`BecomesCommitted`), since a commit only adds messages whose ids are new and so changes
no entry of the history but the mark of a confirmed strategy. `OffersTaken` needs the
ids alone: the page and the API index the same calls.

### LibraryProofs: the other components, and MCNormalizationProofs

From the assumptions of `LibraryConstants` and `NormalizationAssumption`. `LibraryProofs`
shows that the invariant of each component holds at its start and after each of its
steps, `MCNormalizationProofs` what follows for the run:

| Theorem | Property |
|---|---|
| `PerfTypeCorrect` | the types and bounds of the log |
| `EventsAreAccountedFor` | `EventsAreKept` |
| `PackagesTypeCorrect` | the types of the packages |
| `PackagesAreWhole` | `PackageIsWhole` |
| `AttemptTypeCorrect` | the types of an attempt |
| `CandidatesAreAttested` | `CandidateIsAttested` |
| `AccountsTypeCorrect`, `QuestionTypeCorrect` | the types of accounts, tabs and answers |
| `AccountsAreAgreed` | `AccountIsAgreed` |
| `HtmlTypeCorrect` | the types of a document and its manifest |
| `LibraryTypeCorrect` | `MCTypeOK` |

`PerfInv` adds to `EventsAreKept` that the events of the buffer are in the order of
their names, each once, and that a flush has exactly the first `MaxBatch` events of the
batch in hand (`BatchInHand`): otherwise a failed insert, which drops what the flush
had in hand, and an insert, which writes it, could not be told apart from losing or
doubling events.

`AttemptInv` follows a script from the sandbox to the row. What the worker remembers
of the sandbox is what is in it, up to the writes that failed for the worker and were
done all the same: with none, script and output agree with what is remembered; with
one, the output is of the script remembered or of the one that is there
(`ScriptIsKnown`, `OutputIsKnown`); with two nothing is known, and the property
excuses that case. `ReportIsLast` and `BindingFits` say the same of the report under
its key and of the binding that `finish_normalization` made, `RowFits` of the row
while the worker downloads, validates and completes. A row that is not the last one
never changes.

`WholeInv`: objects are never overwritten with something else. With a conditional put
the storage refuses; without one, and without edits of the directory, the key tells
the content (`KeysTellContents`), so that a second writer writes the same. Hence what
a tool has verified stays verified (`VerifiedIsStored`) until it writes the row
(`BookIsStored`).

`AccountsInv` says of every call of every tab what its answer is worth (`CallOK`). An
onboarding that was authenticated acts for that user whatever happens to the session
(`ProfileChanged` marks what its commit outdates, `OnboardRefused` changes nothing). A call
that is not outdated was sent with the cookie of now, and its answer tells of the reader
of now, as the rows say (`SessionFits`, `FormFits`); the steps that change the cookie or
such a row mark the calls they outdate. An answer of 401 to such a call means that nobody
is logged in, so that the page that clears its reader shows the truth (`OnboardFits`,
`ProfileFits`). Rows are never deleted, and an account that has a profile keeps it
(`RowsKept`), which is why the answer of an onboarding stays true however late it comes.
A page that is not behind shows the reader of the cookie, or is about to: its onboarding
was accepted, its logout was answered, or the session could not be read and the page
shows nobody (`PageFits`); a change made for one tab leaves the others behind.

`QuestionInv` says that the selection has each option once, at most `MaxChosen`, and
`Exclusive` alone, and that what is stored is a set of options in its order. The same set
in another order is therefore recognized, and another set is not: `Ascending` lists every
number of a finite set, and each once (`AscendingIs`). It is defined by counting for that
reason; a sort by comparison is a recursive definition, of which the prover knows nothing.

`HtmlInv` adds that a document is a sequence of nodes with a depth; what the three
programs compute of it is left to TLC.

### StrategyProposalsProofs

From `ProposalsAssumption`; beside each theorem, the one that states it of `MCReader`:

| Theorem | In `MCReaderProofs` | Property |
|---|---|---|
| `ProposalsTypeCorrect` | | the types of threads and proposals |
| `ThreadsStayConsistent`, `NoChangeIsLost` | `QuestionsStayConsistent` | `QuestionsAreConsistent` |
| `NoDecisionIsReopened` | `DecisionsAreFinal` | `DecisionsStand`: what was decided is not pending again, what was confirmed stays as it is |

`ThreadInv` says what a request may rely on after it has read: as long as the version
of the thread is the one it has seen, its question (before the compare-and-set) and
its answer (after it) are not stored. That is why the compare-and-set on
`conversation_version` suffices. `ProposalInv` says that a pending proposal is alone,
was made under the strategy of now and holds an unconfirmed draft (`RowFits`,
`OnePending`), that each later strategy version was made by exactly one confirmation
(`EachMade`, `MadeOnce`), and that a request that holds the lock of the book has the
pending proposal of now in hand, or one that was rejected meanwhile (`LockedRight`):
a rejection does not take that lock, a confirmation does.

### MCReaderProofs

From `FormalAssumption` for the formal content, `PageAssumption` for the panel, and the
other assumptions of `ReaderConstants` for what is lifted. `PageAssumption` says that
`None`, which stands for null, is no thread, no number and no stream:

| Theorem | Property |
|---|---|
| `FormalTypeCorrect` | the types of the formal content |
| `WantedContentIsHeld` | `LiveRowsAreHeld` |
| `ShownContentIsExpected` | `ContentFollowsStrategy` |
| `PanelShowsOneThread` | `ThreadIsOne` |
| `RestoredAnswersAreShown` | each answer of a stored thread is shown when it is restored |
| `ReaderTypeCorrect` | `TypeOK` |

`BookInv`: no pin, and no strategy that a request has read, is newer than the strategy
of the book. `WorkInv` ties each execution to its row and its job: at most one
execution holds a job (`OneHolder`); the holder of a job that was not shared knows the
attempt of its row (`SlotFits`); and a row that is waited for has a job that
is neither done nor given up, or that failed for the attempt the row is in (`Waits`), so
that the failure handler settles it. A job that was shared, by a stall whose first
execution goes on, breaks exactly that, which is why the property excuses it.

`PanelInv` says which turn an answer under way belongs to: the stream of a question knows
the place of its turn, a turn that is neither stored nor another's (`StreamFits`), and the
thread on show is the one the question goes to; feedback that is under way comes back to
the turns it left (`FeedbackFits`); a turn that counts as stored shows an answer of the
thread on show (`TurnFits`). That holds because a thread cannot be opened while an answer
runs, and ends (`crossed`) where something is asked under an answer of the server that may
still replace the turns, which is what the property excuses. Threads are `Whole`: they say
nothing twice and answer only what they were asked.

A restore pairs the answers with the questions by their order (`AskAiPanel.tsx:152`).
`RestoredAnswersAreShown` says that an answer then always finds a turn that waits for one,
so that the turn without a question which the code makes otherwise
(`AskAiPanel.tsx:153-164`) never occurs. It is an induction over the messages of a thread:
after `n` of them there are as many waiting turns as questions exceed answers (`Filled`).
The induction is stated with a set of numbers that holds 0, and each number with the one
before it (`UpToAll`), and the recursive function is unfolded once (`TurnsAre`).

### MCReaderPageProofs

From `FormalAssumption`, `PageAssumption`, `PositionAssumption` and
`ActivityAssumption`:

| Theorem | Property |
|---|---|
| `PageIsNotBehind` | `PageFollowsServer` |
| `MomentsCountOnce` | `EachMomentCountedOnce` |
| `PositionTypeCorrect` | the types of the reading position |
| `LastChoiceIsKept` | `LastChoiceIsStored` |

`ContentInv`: an answer that shows the node as read was made after it was read
(`Honest`), whatever became of the answer since. `NotesInv`: for each highlight the
calls under way and answered say where the row will end, which is what the page shows
(`NoteFits`); a highlight that is being made has no other call, and one note at a time
is under way (`Lonely`); the settings on show are the last that were sent
(`SettingFits`). `ActivityInv`: the slices, sent or recorded, follow each other in the
order of their numbers without overlap (`Chained`), the tracker's open slice
comes behind them (`Behind`), and the totals are the numbers of moments covered: a new
slice covers moments of its own, and one that arrives again adds none.

`PositionInv` follows the choice of the reader from the page to the row and back. What
is known of it is the row and the reports on their way: they state different times, none
later than the page's clock (`OwnTimes`), so one of them is the newest whatever order
they arrive in, and a lost one matters only if it was that one. While the page is closed
or restores a position, the newest place known is a choice, and so is the target of the
restore (`TargetIsChosen`); otherwise the choice is what is shown, or what a jump glides
to (`ChoiceIsHeld`). As long as nothing is known there is but one choice (`OneChoice`),
the one with which the page opens. The steps need what the layout does: the text at the
anchor line is unique and follows from the heights (`TopIs`, `PlaceAtIs`), a place that
can be scrolled to is shown once the page has scrolled to it (`TopIsShown`), and a guide
that arrives moves the text and the scroll position alike (`GuideMoves`). The largest
place above the line and the newest report are chosen from finite sets of numbers, which
have a greatest element because numbers are well-founded (`LeastNumber`).

### Only model-checked

- Liveness (`RunSettles`, `WorkSettles`, `EndIsSeen`), and anything about ENABLED, is
  beyond the prover.
- `ReadersAgree` says what three recursive readings of a document compute, an induction
  over trees.
- The violated properties are shown by TLC's behaviours.

## Not modelled

- The language model: any call the tools accept may happen at any point of a turn.
  Nothing bounds the turns of the agent loop (`reading-setup-session.ts:113`);
  liveness assumes that every loop ends.
- Texts, prompts, trial contents, hashes, file formats; the read-only book tools;
  the parsing of a model's answer.
- Other users and books: sessions, runs and packages are per book, and no
  statement of these components relates two of them (a reconciliation over
  several books is the same two statements).
- Changes of the reader profile during a setup. (The code deletes no book.)
- Time: timeouts are the nondeterministic failures above. The heartbeat of a
  normalization run is read by `ingest-epub` alone, which fails a run whose heartbeat
  is 45 minutes old (`ingest-epub.ts:223`): in `PackagePublication` a run that is
  failed (`ExpireRun`). Reading heartbeats (`recordHeartbeat`) are sent by no client. The classification of a slice as
  reading or skimming and the speed estimate are arithmetic on positions.
- A database that fails at the first read of a normalization execution: like
  `Reject`, it ends the job without marking the run (`normalization/job.ts:51`).
- A PostgreSQL deadlock between the catch of an enqueue (run, then book) and the
  publishing transaction (book, then run), which aborts one of the two.
- The snapshot of the session reads the session and then its run
  (`agent-driven-reading-setup.ts:85`): two actions of `AgentRunStream`, one of
  `SetupClient`. A run that ends in between is shown as active and completed until
  the next refresh; a completed run that only a response shows is not refreshed.
- `getManifestMeta` keeps an empty answer after an exception
  (`user-books.ts:526`); progress is then shown without totals until a restart.
- Restored answers are paired with questions by order although the rows link them
  (`AskAiPanel.tsx:152`); a proposal that was rejected while its thread was
  answering may be rewritten (`user-books.ts:1612`).
- Crash of Redis with loss of jobs.
- Operator endpoints (system chat, system jobs, health), routes that only parse
  and map errors, deployment scripts, the offline linter `nb_check.py`, design
  bundles and prototypes, mock sources of the web client, the library page.

## Plan

Done since the first version: the stream, the page of the reading setup, an
attempt of the normalization, packages, accounts, the performance log, formal
content, questions and proposals, reading time, positions, the page's content and
notes, and the html of a book. Next, in this order:

1. Liveness of the formal content: with the failure handlers assumed, every row in
   `queued` or `generating` settles.
2. `ReaderContent` with two nodes, so that a report moves the reader between nodes with
   pins of their own.
