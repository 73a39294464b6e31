---------------------------- MODULE MCReaderProofs ----------------------------
(***************************************************************************)
(* Theorems about the run of the components that serve an active book, for *)
(* every value of their constants.  A behaviour whose focus is a component *)
(* is one of the component alone: what FormalGeneration promises is proved *)
(* here from the invariant FormalInv of its variables, what AskAiPanel     *)
(* promises from PanelInv; what StrategyProposals promises is carried over *)
(* from the theorems of StrategyProposalsProofs.                           *)
(***************************************************************************)
EXTENDS MCReaderPageProofs, TLAPS

LEMMA Bounds ==
  /\ NodeCount \in Nat \ {0} /\ Eligible \in SUBSET (1..NodeCount)
  /\ Attempts \in Nat \ {0} /\ MaxStrategy \in Nat \ {0} /\ MaxAt \in Nat /\ FormalEvents \in Nat
BY FormalAssumption

LEMMA SameCardinality == ASSUME NEW S PROVE Formal!Cardinality(S) = Cardinality(S)
BY DEF Formal!Cardinality, Cardinality

LEMMA ListOf ==
  ASSUME NEW S, NEW n \in Nat, NEW list \in [1..n -> S]
  PROVE  list \in Seq(S) /\ Len(list) = n
OBVIOUS

LEMMA OneWritten ==
  ASSUME NEW S, NEW n \in Nat, NEW list \in [1..n -> S], NEW i \in 1..n, NEW new \in S
  PROVE  /\ [list EXCEPT ![i] = new] \in [1..n -> S]
         /\ [list EXCEPT ![i] = new][i] = new
         /\ \A j \in 1..n \ {i} : [list EXCEPT ![i] = new][j] = list[j]
OBVIOUS

(***************************************************************************)
(* The book and its requests                                               *)
(***************************************************************************)
RequestSteps == {"idle", "prior", "position", "repin", "recover", "resume", "window", "enqueue", "mark"}

\* A request under a book whose strategy is c.
Asking(c) ==
  [step: RequestSteps, strategy: 0..c, node: 0..NodeCount, at: 0..MaxAt, moved: BOOLEAN]

\* A request under way has read a strategy, and has a node where it is about to use one.
AskFits(own) ==
  /\ own.step = "idle" => own = Formal!Idle
  /\ own.step # "idle" => own.strategy # 0
  /\ own.step \notin {"idle", "recover", "resume"} => own.node \in Formal!Nodes

\* No node is pinned to a strategy, and no request has read one, that is not confirmed yet.
BookInv ==
  /\ current \in Formal!Strategies /\ position \in Formal!Position
  /\ pin \in Formal!Pins /\ \A n \in Formal!Nodes : pin[n] <= current
  /\ request \in [Requests -> Asking(current)]
  /\ \A r \in Requests : AskFits(request[r])
  /\ events \in 0..FormalEvents

LEMMA BookInvInit == Formal!Init => BookInv
<1> SUFFICES ASSUME Formal!Init PROVE BookInv
  OBVIOUS
<1>1. current \in Formal!Strategies /\ position \in Formal!Position /\ events \in 0..FormalEvents
  BY Bounds DEF Formal!Init, Formal!Strategies, Formal!Position
<1>2. pin \in Formal!Pins /\ \A n \in Formal!Nodes : pin[n] <= current
  BY Bounds DEF Formal!Init, Formal!Pins, Formal!Nodes
<1>3. request \in [Requests -> Asking(current)]
  BY Bounds DEF Formal!Init, Asking, Formal!Idle, RequestSteps
<1>4. \A r \in Requests : AskFits(request[r])
  BY DEF Formal!Init, AskFits, Formal!Idle
<1>5. QED
  BY <1>1, <1>2, <1>3, <1>4 DEF BookInv

\* What the steps write into a request.
LEMMA AskStepWritten ==
  ASSUME NEW c, NEW own \in Asking(c), NEW step \in RequestSteps
  PROVE  [own EXCEPT !.step = step] \in Asking(c)
BY DEF Asking

LEMMA AskMovedWritten ==
  ASSUME NEW c, NEW own \in Asking(c), NEW step \in RequestSteps, NEW moved \in BOOLEAN
  PROVE  [own EXCEPT !.step = step, !.moved = moved] \in Asking(c)
BY DEF Asking

LEMMA AskNodeWritten ==
  ASSUME NEW c, NEW own \in Asking(c), NEW step \in RequestSteps, NEW n \in 0..NodeCount
  PROVE  [own EXCEPT !.step = step, !.node = n] \in Asking(c)
BY DEF Asking

LEMMA AskIdle == ASSUME NEW c \in Nat PROVE Formal!Idle \in Asking(c) /\ AskFits(Formal!Idle)
BY Bounds DEF Formal!Idle, Asking, RequestSteps, AskFits

\* One request goes on, under the strategy of now.
LEMMA RequestsGoOn ==
  ASSUME BookInv, NEW r \in Requests, NEW own \in Asking(current), AskFits(own),
         request' = [request EXCEPT ![r] = own]
  PROVE  request' \in [Requests -> Asking(current)] /\ \A q \in Requests : AskFits(request'[q])
BY DEF BookInv

\* The steps of a request that leave the strategy, the rows and the jobs alone.
LEMMA BeginKeeps ==
  ASSUME BookInv, NEW r \in Requests, NEW step \in {"prior", "recover", "mark"},
         NEW n \in 0..NodeCount, NEW at \in 0..MaxAt, step # "recover" => n \in Formal!Nodes,
         Formal!Begin(r, step, n, at)
  PROVE  BookInv' /\ UNCHANGED <<current, pin, rows, jobs, slot>>
<1> DEFINE own == [step |-> step, strategy |-> current, node |-> n, at |-> at, moved |-> FALSE]
<1>1. current \in Nat \ {0} /\ events \in Nat
  BY DEF BookInv, Formal!Strategies
<1>2. own \in Asking(current)
  BY <1>1 DEF Asking, RequestSteps
<1>3. AskFits(own)
  BY <1>1 DEF AskFits
<1>4. request' = [request EXCEPT ![r] = own] /\ UNCHANGED <<current, position, pin, rows, jobs, slot>>
  BY DEF Formal!Begin
<1> HIDE DEF own
<1>5. request' \in [Requests -> Asking(current)] /\ \A q \in Requests : AskFits(request'[q])
  BY <1>2, <1>3, <1>4, RequestsGoOn
<1>6. events' \in 0..FormalEvents
  BY <1>1, Bounds DEF Formal!Begin, Formal!Count
<1>7. QED
  BY <1>4, <1>5, <1>6 DEF BookInv

LEMMA ReadPriorKeeps ==
  ASSUME BookInv, NEW r \in Requests, Formal!ReadPrior(r)
  PROVE  BookInv' /\ UNCHANGED <<current, pin, rows, jobs, slot>>
<1> DEFINE own == [request[r] EXCEPT !.step = "position", !.moved = position.node # request[r].node]
<1>1. request[r] \in Asking(current) /\ AskFits(request[r]) /\ request[r].step = "prior"
  BY DEF BookInv, Formal!ReadPrior
<1>2. own \in Asking(current)
  BY <1>1, AskMovedWritten DEF RequestSteps
<1>3. AskFits(own)
  BY <1>1 DEF AskFits, Asking
<1>4. request' = [request EXCEPT ![r] = own] /\ UNCHANGED <<current, position, pin, rows, jobs, slot, events>>
  BY DEF Formal!ReadPrior, BookInv
<1> HIDE DEF own
<1>5. request' \in [Requests -> Asking(current)] /\ \A q \in Requests : AskFits(request'[q])
  BY <1>2, <1>3, <1>4, RequestsGoOn
<1>6. QED
  BY <1>4, <1>5 DEF BookInv

LEMMA PositionKeeps ==
  ASSUME BookInv, NEW r \in Requests, Formal!PersistReaderPosition(r)
  PROVE  BookInv' /\ UNCHANGED <<current, pin, rows, jobs, slot>>
<1> DEFINE own == [request[r] EXCEPT !.step = "repin"]
<1>1. request[r] \in Asking(current) /\ AskFits(request[r]) /\ request[r].step = "position"
  BY DEF BookInv, Formal!PersistReaderPosition
<1>2. own \in Asking(current)
  BY <1>1, AskStepWritten DEF RequestSteps
<1>3. AskFits(own)
  BY <1>1 DEF AskFits, Asking
<1>4. request' = [request EXCEPT ![r] = own] /\ UNCHANGED <<current, pin, rows, jobs, slot, events>>
  BY DEF Formal!PersistReaderPosition, Formal!Goto, BookInv
<1>5. position' \in Formal!Position
  BY <1>1 DEF Formal!PersistReaderPosition, BookInv, Formal!Position, Asking
<1> HIDE DEF own
<1>6. request' \in [Requests -> Asking(current)] /\ \A q \in Requests : AskFits(request'[q])
  BY <1>2, <1>3, <1>4, RequestsGoOn
<1>7. QED
  BY <1>4, <1>5, <1>6 DEF BookInv

LEMMA RepinKeeps ==
  ASSUME BookInv, NEW r \in Requests, Formal!RepinFocus(r)
  PROVE  BookInv' /\ Formal!PinsAdvance /\ UNCHANGED <<current, position, rows, jobs, slot>>
<1> DEFINE own == IF request[r].moved THEN [request[r] EXCEPT !.step = "window"] ELSE Formal!Idle
<1>1. request[r] \in Asking(current) /\ AskFits(request[r]) /\ request[r].step = "repin"
      /\ current \in Nat /\ current \in 0..MaxStrategy
  BY DEF BookInv, Formal!RepinFocus, Formal!Strategies
<1>2. own \in Asking(current)
  BY <1>1, AskStepWritten, AskIdle DEF RequestSteps
<1>3. AskFits(own)
  BY <1>1, AskIdle DEF AskFits, Asking
<1>4. request' = [request EXCEPT ![r] = own] /\ UNCHANGED <<current, position, rows, jobs, slot, events>>
  BY DEF Formal!RepinFocus, Formal!Goto, Formal!Done, BookInv
<1>5. pin' \in Formal!Pins /\ (\A n \in Formal!Nodes : pin'[n] <= current) /\ Formal!PinsAdvance
  <2>1. request[r].node \in Formal!Nodes /\ pin \in [Formal!Nodes -> 0..MaxStrategy] /\ \A n \in Formal!Nodes : pin[n] <= current
    BY <1>1 DEF AskFits, BookInv, Formal!Pins
  <2>2. pin' = [pin EXCEPT ![request[r].node] = current] \/ pin' = pin
    BY DEF Formal!RepinFocus
  <2>3. QED
    BY <1>1, <2>1, <2>2 DEF Formal!Pins, Formal!PinsAdvance
<1> HIDE DEF own
<1>6. request' \in [Requests -> Asking(current)] /\ \A q \in Requests : AskFits(request'[q])
  BY <1>2, <1>3, <1>4, RequestsGoOn
<1>7. QED
  BY <1>4, <1>5, <1>6 DEF BookInv

LEMMA ResumeKeeps ==
  ASSUME BookInv, NEW r \in Requests, Formal!ReadResume(r)
  PROVE  BookInv' /\ UNCHANGED <<current, pin, rows, jobs, slot>>
<1> DEFINE n == IF position.node = 0 THEN 1 ELSE position.node
           own == [request[r] EXCEPT !.step = "window", !.node = n]
<1>1. request[r] \in Asking(current) /\ AskFits(request[r]) /\ request[r].step = "resume"
  BY DEF BookInv, Formal!ReadResume
<1>2. n \in Formal!Nodes /\ n \in 0..NodeCount
  BY Bounds DEF BookInv, Formal!Position, Formal!Nodes
<1> HIDE DEF n
<1>3. own \in Asking(current)
  BY <1>1, <1>2, AskNodeWritten DEF RequestSteps
<1>4. AskFits(own)
  BY <1>1, <1>2 DEF AskFits, Asking
<1>5. request' = [request EXCEPT ![r] = own] /\ UNCHANGED <<current, position, pin, rows, jobs, slot, events>>
  BY DEF Formal!ReadResume, BookInv, n
<1> HIDE DEF own
<1>6. request' \in [Requests -> Asking(current)] /\ \A q \in Requests : AskFits(request'[q])
  BY <1>3, <1>4, <1>5, RequestsGoOn
<1>7. QED
  BY <1>5, <1>6 DEF BookInv

LEMMA MarkKeeps ==
  ASSUME BookInv, NEW r \in Requests, Formal!InsertReadNode(r)
  PROVE  BookInv' /\ Formal!PinsAdvance /\ UNCHANGED <<current, position, rows, jobs, slot>>
<1>1. request[r] \in Asking(current) /\ AskFits(request[r]) /\ request[r].step = "mark"
      /\ current \in Nat /\ current <= MaxStrategy
  BY Bounds DEF BookInv, Formal!InsertReadNode, Formal!Strategies
<1>2. request' = [request EXCEPT ![r] = Formal!Idle] /\ UNCHANGED <<current, position, rows, jobs, slot, events>>
  BY DEF Formal!InsertReadNode, Formal!Done
<1>3. pin' \in Formal!Pins /\ (\A n \in Formal!Nodes : pin'[n] <= current) /\ Formal!PinsAdvance
  <2>1. /\ request[r].node \in Formal!Nodes /\ pin \in [Formal!Nodes -> 0..MaxStrategy] /\ \A n \in Formal!Nodes : pin[n] <= current
        /\ request[r].strategy \in 0..current
    BY <1>1 DEF AskFits, BookInv, Formal!Pins, Asking
  <2> DEFINE new == IF pin[request[r].node] = 0 THEN request[r].strategy ELSE pin[request[r].node]
  <2>2. pin' = [pin EXCEPT ![request[r].node] = new]
    BY DEF Formal!InsertReadNode
  <2>3. new \in 0..MaxStrategy /\ new <= current /\ new >= pin[request[r].node]
    BY <1>1, <2>1, Bounds
  <2> HIDE DEF new
  <2>4. QED
    BY <1>1, <2>1, <2>2, <2>3, Bounds DEF Formal!Pins, Formal!PinsAdvance
<1>4. request' \in [Requests -> Asking(current)] /\ \A q \in Requests : AskFits(request'[q])
  BY <1>1, <1>2, RequestsGoOn, AskIdle
<1>5. QED
  BY <1>2, <1>3, <1>4 DEF BookInv

\* The end of a request, whatever else the step does.
LEMMA DoneKeeps ==
  ASSUME BookInv, NEW r \in Requests, Formal!Done(r), UNCHANGED <<current, position, pin, events>>
  PROVE  BookInv'
<1>1. request' = [request EXCEPT ![r] = Formal!Idle] /\ current \in Nat
  BY DEF Formal!Done, BookInv, Formal!Strategies
<1>2. request' \in [Requests -> Asking(current)] /\ \A q \in Requests : AskFits(request'[q])
  BY <1>1, RequestsGoOn, AskIdle
<1>3. QED
  BY <1>2 DEF BookInv

LEMMA GotoKeeps ==
  ASSUME BookInv, NEW r \in Requests,
         NEW step \in RequestSteps, Formal!Goto(r, step), request[r].step # "idle",
         step \in {"resume", "enqueue"}, step = "enqueue" => request[r].node \in Formal!Nodes,
         UNCHANGED <<current, position, pin, events>>
  PROVE  BookInv'
<1> DEFINE own == [request[r] EXCEPT !.step = step]
<1>1. request[r] \in Asking(current) /\ AskFits(request[r])
  BY DEF BookInv
<1>2. own \in Asking(current)
  BY <1>1, AskStepWritten
<1>3. AskFits(own)
  BY <1>1 DEF AskFits, Asking
<1>4. request' = [request EXCEPT ![r] = own]
  BY DEF Formal!Goto, BookInv
<1> HIDE DEF own
<1>5. request' \in [Requests -> Asking(current)] /\ \A q \in Requests : AskFits(request'[q])
  BY <1>2, <1>3, <1>4, RequestsGoOn
<1>6. QED
  BY <1>5 DEF BookInv

LEMMA ConfirmBook ==
  ASSUME BookInv, NEW r \in Requests, NEW n \in Formal!Nodes, Formal!ConfirmProposal(r, n)
  PROVE  BookInv' /\ Formal!PinsAdvance
<1>1. /\ current' = current + 1 /\ current' \in Formal!Strategies /\ UNCHANGED <<position>>
      /\ pin' = [pin EXCEPT ![n] = IF @ = 0 THEN 0 ELSE current + 1]
      /\ request' = [request EXCEPT ![r] =
           [step |-> "enqueue", strategy |-> current + 1, node |-> n, at |-> 0, moved |-> FALSE]]
      /\ events < FormalEvents /\ events' = events + 1
  BY DEF Formal!ConfirmProposal, Formal!Count
<1>2. current \in Nat \ {0} /\ current + 1 <= MaxStrategy
  BY <1>1, Bounds DEF BookInv, Formal!Strategies
<1> DEFINE own == [step |-> "enqueue", strategy |-> current + 1, node |-> n, at |-> 0, moved |-> FALSE]
<1>3. own \in Asking(current + 1) /\ AskFits(own)
  BY <1>2, Bounds DEF Asking, RequestSteps, AskFits, Formal!Nodes
<1>4. Asking(current) \subseteq Asking(current + 1)
  BY <1>2 DEF Asking
<1>5. request' = [request EXCEPT ![r] = own]
  BY <1>1
<1> HIDE DEF own
<1>6. request' \in [Requests -> Asking(current')] /\ \A q \in Requests : AskFits(request'[q])
  BY <1>1, <1>3, <1>4, <1>5 DEF BookInv
<1>7. pin' \in Formal!Pins /\ (\A m \in Formal!Nodes : pin'[m] <= current') /\ Formal!PinsAdvance
  <2>1. pin \in [Formal!Nodes -> 0..MaxStrategy] /\ \A m \in Formal!Nodes : pin[m] <= current
    BY DEF BookInv, Formal!Pins
  <2> DEFINE new == IF pin[n] = 0 THEN 0 ELSE current + 1
  <2>2. pin' = [pin EXCEPT ![n] = new]
    BY <1>1
  <2>3. new \in 0..MaxStrategy /\ new <= current + 1 /\ new >= pin[n]
    BY <1>2, <2>1, Bounds
  <2> HIDE DEF new
  <2>4. QED
    BY <1>1, <1>2, <2>1, <2>2, <2>3, Bounds DEF Formal!Pins, Formal!PinsAdvance
<1>8. events' \in 0..FormalEvents
  BY <1>1, Bounds DEF BookInv
<1>9. QED
  BY <1>1, <1>6, <1>7, <1>8 DEF BookInv

(***************************************************************************)
(* The rows, their jobs and the executions                                 *)
(***************************************************************************)
SlotSteps == {"idle", "load", "check", "claim", "generate", "return", "throw"}

\* An execution while there are n rows.
Slot(n) ==
  [step: SlotSteps, gen: 0..n, seen: 0..Attempts, claimed: 0..Attempts, holder: BOOLEAN]

\* An execution of a job nobody else has been given: it holds the lock, and what it has read of
\* its row is still there.
Runs(own, row) ==
  /\ own.holder
  /\ own.step \in {"check", "claim"} => own.seen = row.attempt
  /\ row.status \in Formal!Live =>
       /\ own.step = "generate" => row.status = "generating" /\ row.attempt = own.claimed
       /\ own.step = "throw" => own.claimed \in {0, row.attempt}
       /\ own.step # "return"

\* An execution, its row and its job.
Works(own, row, job) ==
  /\ own.holder => job.state = "active"
  /\ own.step \in {"load", "check", "claim"} => own.claimed = 0
  /\ ~job.shared => Runs(own, row)

SlotFits(own) ==
  /\ own.step = "idle" => own = Formal!Free
  /\ own.step # "idle" => own.gen \in 1..Len(rows) /\ Works(own, rows[own.gen], jobs[own.gen])

\* A row and its job: while the content is wanted, something is going to write how it ended.
Waits(row, job) ==
  /\ job.state \in {"none", "waiting", "active"} => job.made < Attempts
  /\ ~job.shared /\ row.status \in Formal!Live =>
       /\ job.state \notin {"completed", "settled"}
       /\ job.state = "none" => row.status = "queued"
       /\ job.state = "failed" => job.error \in {0, row.attempt}

OneHolder ==
  \A s, u \in Slots : slot[s].holder /\ slot[u].holder /\ slot[s].gen = slot[u].gen => s = u

WorkTyped ==
  /\ rows \in Seq(Formal!Row) /\ jobs \in Seq(Formal!Job) /\ Len(jobs) = Len(rows)
  /\ slot \in [Slots -> Slot(Len(rows))]

WorkInv ==
  /\ WorkTyped /\ OneHolder
  /\ \A s \in Slots : SlotFits(slot[s])
  /\ \A g \in 1..Len(rows) : Waits(rows[g], jobs[g])

LEMMA WorkInvInit == Formal!Init => WorkInv
<1> SUFFICES ASSUME Formal!Init PROVE WorkInv
  OBVIOUS
<1>1. rows = <<>> /\ jobs = <<>> /\ Len(rows) = 0 /\ slot = [s \in Slots |-> Formal!Free]
  BY DEF Formal!Init
<1>2. Formal!Free \in Slot(0)
  BY Bounds DEF Formal!Free, Slot, SlotSteps
<1>3. WorkTyped
  BY <1>1, <1>2 DEF WorkTyped
<1>4. OneHolder /\ \A s \in Slots : SlotFits(slot[s])
  BY <1>1 DEF OneHolder, SlotFits, Formal!Free
<1>5. QED
  BY <1>1, <1>3, <1>4 DEF WorkInv

LEMMA WorkIs ==
  ASSUME WorkInv
  PROVE  /\ Len(rows) \in Nat /\ rows \in [1..Len(rows) -> Formal!Row] /\ jobs \in [1..Len(rows) -> Formal!Job]
         /\ rows \in Seq(Formal!Row) /\ jobs \in Seq(Formal!Job) /\ Len(jobs) = Len(rows)
         /\ slot \in [Slots -> Slot(Len(rows))] /\ Formal!Free \in Slot(Len(rows))
BY Bounds DEF WorkInv, WorkTyped, Formal!Free, Slot, SlotSteps

LEMMA ExecutionIs ==
  ASSUME WorkInv, NEW s \in Slots, slot[s].step # "idle"
  PROVE  /\ slot[s] \in Slot(Len(rows)) /\ slot[s].gen \in 1..Len(rows)
         /\ Formal!RowOf(s) \in Formal!Row /\ Formal!RowOf(s) = rows[slot[s].gen] /\ jobs[slot[s].gen] \in Formal!Job
         /\ Works(slot[s], Formal!RowOf(s), jobs[slot[s].gen]) /\ Waits(Formal!RowOf(s), jobs[slot[s].gen])
<1>1. slot[s] \in Slot(Len(rows)) /\ slot[s].gen \in 1..Len(rows)
  BY WorkIs DEF WorkInv, SlotFits
<1>2. QED
  BY <1>1, WorkIs DEF WorkInv, SlotFits, Formal!RowOf

\* Nobody else holds the lock of the job.
Alone(s, g) == \A u \in Slots \ {s} : ~(slot[u].holder /\ slot[u].gen = g)

LEMMA AloneWithLock ==
  ASSUME WorkInv, NEW s \in Slots, slot[s].step # "idle",
         slot[s].holder \/ ~jobs[slot[s].gen].shared \/ jobs[slot[s].gen].state # "active"
  PROVE  Alone(s, slot[s].gen)
<1>1. CASE slot[s].holder
  BY <1>1 DEF Alone, WorkInv, OneHolder
<1>2. CASE ~jobs[slot[s].gen].shared
  BY <1>2, ExecutionIs DEF Alone, WorkInv, OneHolder, Works, Runs
<1>3. CASE jobs[slot[s].gen].state # "active"
  <2>1. \A u \in Slots : slot[u].holder => slot[u].step # "idle"
    BY DEF WorkInv, SlotFits, Formal!Free
  <2>2. QED
    BY <1>3, <2>1 DEF Alone, WorkInv, SlotFits, Works
<1>4. QED
  BY <1>1, <1>2, <1>3

\* One step of one execution, on its row and its job.
LEMMA ExecutionSteps ==
  ASSUME WorkInv, NEW s \in Slots, NEW g \in 1..Len(rows),
         NEW row \in Formal!Row, rows' = [rows EXCEPT ![g] = row],
         NEW job \in Formal!Job, jobs' = [jobs EXCEPT ![g] = job],
         NEW own \in Slot(Len(rows)), slot' = [slot EXCEPT ![s] = own],
         own = Formal!Free \/ (own.step # "idle" /\ own.gen = g /\ Works(own, row, job)),
         Waits(row, job),
         ~job.shared \/ job.state # "active" \/ own.holder => Alone(s, g),
         ~job.shared => ~jobs[g].shared
  PROVE  WorkInv'
<1>1. /\ rows' \in Seq(Formal!Row) /\ Len(rows') = Len(rows) /\ rows'[g] = row
      /\ \A h \in 1..Len(rows) \ {g} : rows'[h] = rows[h]
  BY WorkIs, OneWritten, ListOf
<1>2. /\ jobs' \in Seq(Formal!Job) /\ Len(jobs') = Len(rows) /\ jobs'[g] = job
      /\ \A h \in 1..Len(rows) \ {g} : jobs'[h] = jobs[h]
  BY WorkIs, OneWritten, ListOf
<1>3. /\ slot' \in [Slots -> Slot(Len(rows))] /\ slot'[s] = own
      /\ \A u \in Slots \ {s} : slot'[u] = slot[u]
  BY WorkIs
<1>4. WorkTyped'
  BY <1>1, <1>2, <1>3 DEF WorkTyped
<1>5. \A h \in 1..Len(rows') : Waits(rows'[h], jobs'[h])
  BY <1>1, <1>2 DEF WorkInv
<1>6. OneHolder'
  BY <1>3 DEF WorkInv, OneHolder, Alone, Formal!Free
<1>7. ASSUME NEW u \in Slots PROVE SlotFits(slot[u])'
  <2>1. CASE u = s
    BY <1>1, <1>2, <1>3, <2>1 DEF SlotFits, Formal!Free
  <2>2. CASE u # s
    <3>1. slot'[u] = slot[u] /\ SlotFits(slot[u])
      BY <1>3, <2>2 DEF WorkInv
    <3>2. CASE slot[u].step = "idle"
      BY <3>1, <3>2 DEF SlotFits, Formal!Free
    <3>3. CASE slot[u].step # "idle"
      <4>1. slot[u].gen \in 1..Len(rows) /\ Works(slot[u], rows[slot[u].gen], jobs[slot[u].gen])
        BY <3>1, <3>3 DEF SlotFits
      <4>2. CASE slot[u].gen # g
        BY <1>1, <1>2, <3>1, <4>1, <4>2, <3>3 DEF SlotFits
      <4>3. CASE slot[u].gen = g
        <5>1. slot[u].holder => job.state = "active"
          BY <2>2, <4>3 DEF Alone
        <5>2. job.shared
          BY <2>2, <4>1, <4>3 DEF Alone, Works, Runs
        <5>3. Works(slot[u], row, job)
          BY <4>1, <5>1, <5>2 DEF Works
        <5>4. QED
          BY <1>1, <1>2, <3>1, <3>3, <4>1, <4>3, <5>3 DEF SlotFits
      <4>4. QED
        BY <4>2, <4>3
    <3>4. QED
      BY <3>2, <3>3
  <2>3. QED
    BY <2>1, <2>2
<1>8. QED
  BY <1>4, <1>5, <1>6, <1>7 DEF WorkInv

\* One step on a row whose job nobody executes.
LEMMA JobSteps ==
  ASSUME WorkInv, NEW g \in 1..Len(rows),
         NEW row \in Formal!Row, rows' = [rows EXCEPT ![g] = row],
         NEW job \in Formal!Job, jobs' = [jobs EXCEPT ![g] = job],
         UNCHANGED slot, Waits(row, job), job.shared = jobs[g].shared,
         \A u \in Slots : ~(slot[u].holder /\ slot[u].gen = g)
  PROVE  WorkInv'
<1>1. /\ rows' \in Seq(Formal!Row) /\ Len(rows') = Len(rows) /\ rows'[g] = row
      /\ \A h \in 1..Len(rows) \ {g} : rows'[h] = rows[h]
  BY WorkIs, OneWritten, ListOf
<1>2. /\ jobs' \in Seq(Formal!Job) /\ Len(jobs') = Len(rows) /\ jobs'[g] = job
      /\ \A h \in 1..Len(rows) \ {g} : jobs'[h] = jobs[h]
  BY WorkIs, OneWritten, ListOf
<1>3. WorkTyped'
  BY <1>1, <1>2, WorkIs DEF WorkTyped
<1>4. \A h \in 1..Len(rows') : Waits(rows'[h], jobs'[h])
  BY <1>1, <1>2 DEF WorkInv
<1>5. OneHolder'
  BY DEF WorkInv, OneHolder
<1>6. ASSUME NEW u \in Slots PROVE SlotFits(slot[u])'
  <2>1. SlotFits(slot[u]) /\ slot'[u] = slot[u]
    BY DEF WorkInv
  <2>2. CASE slot[u].step = "idle"
    BY <2>1, <2>2 DEF SlotFits, Formal!Free
  <2>3. CASE slot[u].step # "idle"
    <3>1. slot[u].gen \in 1..Len(rows) /\ Works(slot[u], rows[slot[u].gen], jobs[slot[u].gen])
      BY <2>1, <2>3 DEF SlotFits
    <3>2. CASE slot[u].gen # g
      BY <1>1, <1>2, <2>1, <2>3, <3>1, <3>2 DEF SlotFits
    <3>3. CASE slot[u].gen = g
      <4>1. ~slot[u].holder /\ job.shared
        BY <3>1, <3>3 DEF Works, Runs
      <4>2. Works(slot[u], row, job)
        BY <3>1, <4>1 DEF Works
      <4>3. QED
        BY <1>1, <1>2, <2>1, <2>3, <3>1, <3>3, <4>2 DEF SlotFits
    <3>4. QED
      BY <3>2, <3>3
  <2>4. QED
    BY <2>2, <2>3
<1>7. QED
  BY <1>3, <1>4, <1>5, <1>6 DEF WorkInv

\* New rows, without jobs, while work on others is called off; and jobs for rows without one.
LEMMA RowsGrow ==
  ASSUME WorkInv, rows' \in Seq(Formal!Row), jobs' \in Seq(Formal!Job), Len(jobs') = Len(rows'),
         Len(rows) <= Len(rows'), UNCHANGED slot,
         \A g \in 1..Len(rows) :
           /\ jobs'[g] = jobs[g] \/ (jobs[g].state = "none" /\ jobs'[g] = [jobs[g] EXCEPT !.state = "waiting"])
           /\ rows'[g].attempt = rows[g].attempt
           /\ rows'[g].status = rows[g].status \/ rows'[g].status \notin Formal!Live,
         \A g \in 1..Len(rows') : g \notin 1..Len(rows) => rows'[g].status = "queued" /\ jobs'[g] = Formal!NoJob
  PROVE  WorkInv'
<1>1. Len(rows) \in Nat /\ Len(rows') \in Nat /\ slot \in [Slots -> Slot(Len(rows))]
      /\ jobs \in [1..Len(rows) -> Formal!Job]
  BY WorkIs
<1>2. Slot(Len(rows)) \subseteq Slot(Len(rows'))
  BY <1>1 DEF Slot
<1>3. slot' \in [Slots -> Slot(Len(rows'))]
  BY <1>1, <1>2
<1>4. WorkTyped'
  BY <1>3 DEF WorkTyped
<1>5. OneHolder'
  BY DEF WorkInv, OneHolder
<1>6. ASSUME NEW g \in 1..Len(rows)
      PROVE  /\ jobs'[g].shared = jobs[g].shared /\ jobs'[g].made = jobs[g].made /\ jobs'[g].error = jobs[g].error
             /\ jobs'[g].state = jobs[g].state \/ (jobs[g].state = "none" /\ jobs'[g].state = "waiting")
  BY <1>1 DEF Formal!Job
<1>7. ASSUME NEW g \in 1..Len(rows') PROVE Waits(rows'[g], jobs'[g])
  <2>1. CASE g \in 1..Len(rows)
    <3>1. Waits(rows[g], jobs[g])
      BY <2>1 DEF WorkInv
    <3>2. QED
      BY <1>6, <2>1, <3>1 DEF Waits
  <2>2. CASE g \notin 1..Len(rows)
    BY <2>2, Bounds DEF Waits, Formal!NoJob, Formal!Live
  <2>3. QED
    BY <2>1, <2>2
<1>8. ASSUME NEW s \in Slots PROVE SlotFits(slot[s])'
  <2>1. SlotFits(slot[s]) /\ slot'[s] = slot[s]
    BY DEF WorkInv
  <2>2. CASE slot[s].step = "idle"
    BY <2>1, <2>2 DEF SlotFits, Formal!Free
  <2>3. CASE slot[s].step # "idle"
    <3>1. slot[s].gen \in 1..Len(rows) /\ Works(slot[s], rows[slot[s].gen], jobs[slot[s].gen])
      BY <2>1, <2>3 DEF SlotFits
    <3>2. Works(slot[s], rows'[slot[s].gen], jobs'[slot[s].gen])
      BY <1>6, <3>1 DEF Works, Runs
    <3>3. slot[s].gen \in 1..Len(rows')
      BY <1>1, <3>1
    <3>4. QED
      BY <2>1, <2>3, <3>2, <3>3 DEF SlotFits
  <2>4. QED
    BY <2>2, <2>3
<1>9. QED
  BY <1>4, <1>5, <1>7, <1>8 DEF WorkInv

LEMMA SameWritten ==
  ASSUME NEW S, NEW n, NEW list \in [1..n -> S], NEW i \in 1..n
  PROVE  [list EXCEPT ![i] = list[i]] = list
OBVIOUS

\* What the steps write into an execution, a row and a job.
LEMMA SlotStepWritten ==
  ASSUME NEW n, NEW own \in Slot(n), NEW step \in SlotSteps
  PROVE  [own EXCEPT !.step = step] \in Slot(n)
BY DEF Slot

LEMMA SeenWritten ==
  ASSUME NEW n, NEW own \in Slot(n), NEW step \in SlotSteps, NEW seen \in 0..Attempts
  PROVE  [own EXCEPT !.seen = seen, !.step = step] \in Slot(n)
BY DEF Slot

LEMMA ClaimedWritten ==
  ASSUME NEW n, NEW own \in Slot(n), NEW step \in SlotSteps, NEW claimed \in 0..Attempts
  PROVE  [own EXCEPT !.step = step, !.claimed = claimed] \in Slot(n)
BY DEF Slot

RowStatuses == Formal!Live \cup {"ready", "failed", "superseded"}
JobStates == {"none", "waiting", "active", "completed", "failed", "settled", "lost"}

LEMMA RowStatusWritten ==
  ASSUME NEW row \in Formal!Row, NEW status \in RowStatuses
  PROVE  [row EXCEPT !.status = status] \in Formal!Row
BY DEF Formal!Row, RowStatuses

LEMMA RowAttemptWritten ==
  ASSUME NEW row \in Formal!Row, NEW status \in RowStatuses, NEW attempt \in 0..Attempts
  PROVE  [row EXCEPT !.status = status, !.attempt = attempt] \in Formal!Row
BY DEF Formal!Row, RowStatuses

LEMMA StateWritten ==
  ASSUME NEW job \in Formal!Job, NEW state \in JobStates
  PROVE  [job EXCEPT !.state = state] \in Formal!Job
BY DEF Formal!Job, JobStates

\* An execution goes on, with its row and its job as they are.
LEMMA ExecutionGoesOn ==
  ASSUME WorkInv, NEW s \in Slots, slot[s].step # "idle", UNCHANGED <<rows, jobs>>,
         NEW own \in Slot(Len(rows)), slot' = [slot EXCEPT ![s] = own],
         own = Formal!Free \/ (own.step # "idle" /\ own.gen = slot[s].gen /\ (own.holder => slot[s].holder)
                        /\ Works(own, Formal!RowOf(s), jobs[slot[s].gen]))
  PROVE  WorkInv'
<1> DEFINE g == slot[s].gen
<1>1. /\ g \in 1..Len(rows) /\ rows[g] \in Formal!Row /\ jobs[g] \in Formal!Job /\ Formal!RowOf(s) = rows[g]
      /\ Waits(rows[g], jobs[g])
  BY ExecutionIs
<1>2. rows' = [rows EXCEPT ![g] = rows[g]] /\ jobs' = [jobs EXCEPT ![g] = jobs[g]]
  BY <1>1, WorkIs, SameWritten
<1>3. ~jobs[g].shared \/ jobs[g].state # "active" \/ own.holder => Alone(s, g)
  BY AloneWithLock DEF Formal!Free
<1>4. own = Formal!Free \/ (own.step # "idle" /\ own.gen = g /\ Works(own, rows[g], jobs[g]))
  BY <1>1
<1> HIDE DEF g
<1>5. QED
  BY <1>1, <1>2, <1>3, <1>4, ExecutionSteps

LEMMA LoadKeeps ==
  ASSUME WorkInv, NEW s \in Slots, Formal!Load(s)
  PROVE  WorkInv' /\ UNCHANGED <<current, position, pin, rows, jobs, request, events>>
<1> DEFINE step == IF Formal!RowOf(s).status \in Formal!Live THEN "check" ELSE "return"
           own  == [slot[s] EXCEPT !.seen = Formal!RowOf(s).attempt, !.step = step]
<1>1. slot[s].step = "load" /\ UNCHANGED <<current, position, pin, rows, jobs, request, events>>
  BY DEF Formal!Load
<1>2. /\ slot[s] \in Slot(Len(rows)) /\ Formal!RowOf(s) \in Formal!Row
      /\ Works(slot[s], Formal!RowOf(s), jobs[slot[s].gen])
  BY <1>1, ExecutionIs
<1>3. own \in Slot(Len(rows))
  BY <1>2, SeenWritten DEF SlotSteps, Formal!Row
<1>4. slot' = [slot EXCEPT ![s] = own]
  BY <1>1, <1>2, WorkIs DEF Formal!Load
<1>5. /\ own.step = step /\ own.gen = slot[s].gen /\ own.holder = slot[s].holder
      /\ own.claimed = slot[s].claimed /\ own.seen = Formal!RowOf(s).attempt
  BY <1>2 DEF Slot
<1> HIDE DEF own
<1>6. own.step # "idle" /\ Works(own, Formal!RowOf(s), jobs[slot[s].gen])
  BY <1>1, <1>2, <1>5 DEF Works, Runs
<1>7. QED
  BY <1>1, <1>3, <1>4, <1>5, <1>6, ExecutionGoesOn

LEMMA ThrowKeeps ==
  ASSUME WorkInv, NEW s \in Slots, Formal!Throw(s)
  PROVE  WorkInv' /\ UNCHANGED <<current, position, pin, rows, jobs, request>>
<1> DEFINE own == [slot[s] EXCEPT !.step = "throw"]
<1>1. /\ slot[s].step \in {"load", "check", "claim", "generate"}
      /\ UNCHANGED <<current, position, pin, rows, jobs, request>>
  BY DEF Formal!Throw
<1>2. /\ slot[s] \in Slot(Len(rows)) /\ Works(slot[s], Formal!RowOf(s), jobs[slot[s].gen])
  BY <1>1, ExecutionIs
<1>3. own \in Slot(Len(rows))
  BY <1>2, SlotStepWritten DEF SlotSteps
<1>4. slot' = [slot EXCEPT ![s] = own]
  BY <1>1, <1>2, WorkIs DEF Formal!Throw, Formal!Step
<1>5. /\ own.step = "throw" /\ own.gen = slot[s].gen /\ own.holder = slot[s].holder
      /\ own.claimed = slot[s].claimed
  BY <1>2 DEF Slot
<1> HIDE DEF own
<1>6. Works(own, Formal!RowOf(s), jobs[slot[s].gen])
  BY <1>1, <1>2, <1>5 DEF Works, Runs
<1>7. QED
  BY <1>1, <1>3, <1>4, <1>5, <1>6, ExecutionGoesOn

LEMMA CrashKeeps ==
  ASSUME WorkInv, NEW s \in Slots, Formal!WorkerCrash(s)
  PROVE  WorkInv' /\ UNCHANGED <<current, position, pin, rows, jobs, request>>
BY WorkIs, ExecutionGoesOn DEF Formal!WorkerCrash

LEMMA CheckKeeps ==
  ASSUME WorkInv, NEW s \in Slots, Formal!Check(s)
  PROVE  /\ WorkInv' /\ UNCHANGED <<current, position, pin, jobs, request, events>>
         /\ Formal!FinishesAsExpected
<1> DEFINE g == slot[s].gen
<1>1. slot[s].step = "check" /\ UNCHANGED <<current, position, pin, jobs, request, events>>
  BY DEF Formal!Check
<1>2. /\ slot[s] \in Slot(Len(rows)) /\ g \in 1..Len(rows) /\ rows[g] \in Formal!Row /\ jobs[g] \in Formal!Job
      /\ Formal!RowOf(s) = rows[g] /\ Works(slot[s], rows[g], jobs[g]) /\ Waits(rows[g], jobs[g])
  BY <1>1, ExecutionIs
<1>3. CASE Formal!Unexpected(s) /\ Formal!RowOf(s).status \in Formal!Live
  <2> DEFINE own == [slot[s] EXCEPT !.step = "return"]
             row == [rows[g] EXCEPT !.status = "superseded"]
  <2>1. rows' = [rows EXCEPT ![g] = row] /\ slot' = [slot EXCEPT ![s] = own]
    BY <1>2, <1>3, WorkIs DEF Formal!Check, Formal!Write, Formal!Step
  <2>2. own \in Slot(Len(rows)) /\ row \in Formal!Row
    BY <1>2, SlotStepWritten, RowStatusWritten DEF SlotSteps, RowStatuses
  <2>3. /\ own.step = "return" /\ own.gen = g /\ own.holder = slot[s].holder
        /\ row.status = "superseded" /\ row.status \notin Formal!Live
    BY <1>2 DEF Slot, Formal!Row, Formal!Live
  <2> HIDE DEF own, row
  <2>4. Works(own, row, jobs[g]) /\ Waits(row, jobs[g])
    BY <1>2, <2>3 DEF Works, Runs, Waits
  <2>5. jobs' = [jobs EXCEPT ![g] = jobs[g]]
    BY <1>1, <1>2, WorkIs, SameWritten
  <2>6. ~jobs[g].shared \/ jobs[g].state # "active" \/ own.holder => Alone(s, g)
    BY <1>1, <2>3, AloneWithLock
  <2>a. own.step # "idle"
    BY <2>3
  <2>7. Formal!FinishesAsExpected
    <3>1. /\ rows'[g] = row /\ rows[g].status # "ready"
          /\ \A h \in 1..Len(rows) \ {g} : rows'[h] = rows[h]
      BY <1>2, <1>3, <2>1, <2>2, WorkIs, OneWritten DEF Formal!Live
    <3>2. QED
      BY <2>3, <3>1 DEF Formal!FinishesAsExpected
  <2> HIDE DEF g
  <2>8. WorkInv'
    BY <1>2, <2>1, <2>2, <2>3, <2>4, <2>5, <2>6, <2>a, ExecutionSteps
  <2>9. QED
    BY <1>1, <2>7, <2>8
<1>4. CASE ~(Formal!Unexpected(s) /\ Formal!RowOf(s).status \in Formal!Live)
  <2> DEFINE own == [slot[s] EXCEPT !.step = "claim"]
  <2>1. UNCHANGED rows /\ slot' = [slot EXCEPT ![s] = own]
    BY <1>2, <1>4, WorkIs DEF Formal!Check, Formal!Step
  <2>2. own \in Slot(Len(rows))
    BY <1>2, SlotStepWritten DEF SlotSteps
  <2>3. /\ own.step = "claim" /\ own.gen = g /\ own.holder = slot[s].holder
        /\ own.claimed = slot[s].claimed /\ own.seen = slot[s].seen
    BY <1>2 DEF Slot
  <2> HIDE DEF own
  <2>4. Works(own, Formal!RowOf(s), jobs[g])
    BY <1>1, <1>2, <2>3 DEF Works, Runs
  <2>5. WorkInv'
    BY <1>1, <2>1, <2>2, <2>3, <2>4, ExecutionGoesOn
  <2>6. QED
    BY <1>1, <2>1, <2>5 DEF Formal!FinishesAsExpected
<1>5. QED
  BY <1>3, <1>4

LEMMA ClaimKeeps ==
  ASSUME WorkInv, NEW s \in Slots, Formal!Claim(s)
  PROVE  /\ WorkInv' /\ UNCHANGED <<current, position, pin, jobs, request, events>>
         /\ Formal!FinishesAsExpected
<1> DEFINE g == slot[s].gen
<1>1. slot[s].step = "claim" /\ UNCHANGED <<current, position, pin, jobs, request, events>>
  BY DEF Formal!Claim
<1>2. /\ slot[s] \in Slot(Len(rows)) /\ g \in 1..Len(rows) /\ rows[g] \in Formal!Row /\ jobs[g] \in Formal!Job
      /\ Formal!RowOf(s) = rows[g] /\ Works(slot[s], rows[g], jobs[g]) /\ Waits(rows[g], jobs[g])
  BY <1>1, ExecutionIs
<1>a. slot[s].seen \in 0..Attempts
  BY <1>2 DEF Slot
<1>3. CASE slot[s].seen = Attempts
  <2> DEFINE own == [slot[s] EXCEPT !.step = "throw", !.claimed = slot[s].seen]
  <2>1. UNCHANGED rows /\ slot' = [slot EXCEPT ![s] = own]
    BY <1>2, <1>3, WorkIs DEF Formal!Claim
  <2>2. own \in Slot(Len(rows))
    BY <1>2, <1>a, ClaimedWritten DEF SlotSteps
  <2>3. /\ own.step = "throw" /\ own.gen = g /\ own.holder = slot[s].holder
        /\ own.claimed = slot[s].seen
    BY <1>2 DEF Slot
  <2> HIDE DEF own
  <2>4. Works(own, Formal!RowOf(s), jobs[g])
    BY <1>1, <1>2, <2>3 DEF Works, Runs
  <2>5. WorkInv'
    BY <1>1, <2>1, <2>2, <2>3, <2>4, ExecutionGoesOn
  <2>6. QED
    BY <1>1, <2>1, <2>5 DEF Formal!FinishesAsExpected
<1>4. CASE slot[s].seen # Attempts /\ Formal!RowOf(s).attempt = slot[s].seen /\ Formal!RowOf(s).status \in Formal!Live
  <2> DEFINE own == [slot[s] EXCEPT !.step = "generate", !.claimed = slot[s].seen + 1]
             row == [rows[g] EXCEPT !.status = "generating", !.attempt = rows[g].attempt + 1]
  <2>1. rows' = [rows EXCEPT ![g] = row] /\ slot' = [slot EXCEPT ![s] = own]
    BY <1>2, <1>4, WorkIs DEF Formal!Claim
  <2>b. slot[s].seen + 1 \in 0..Attempts /\ rows[g].attempt + 1 = slot[s].seen + 1
    BY <1>2, <1>4, <1>a, Bounds
  <2>2. own \in Slot(Len(rows)) /\ row \in Formal!Row
    BY <1>2, <2>b, ClaimedWritten, RowAttemptWritten DEF SlotSteps, RowStatuses, Formal!Live
  <2>3. /\ own.step = "generate" /\ own.gen = g /\ own.holder = slot[s].holder
        /\ own.claimed = slot[s].seen + 1
        /\ row.status = "generating" /\ row.attempt = slot[s].seen + 1
    BY <1>2, <2>b DEF Slot, Formal!Row
  <2> HIDE DEF own, row
  <2>4. Works(own, row, jobs[g])
    BY <1>2, <2>3 DEF Works, Runs
  <2>c. Waits(row, jobs[g])
    BY <1>1, <1>2, <1>4, <2>3 DEF Works, Runs, Waits, Formal!Live
  <2>5. jobs' = [jobs EXCEPT ![g] = jobs[g]]
    BY <1>1, <1>2, WorkIs, SameWritten
  <2>6. ~jobs[g].shared \/ jobs[g].state # "active" \/ own.holder => Alone(s, g)
    BY <1>1, <2>3, AloneWithLock
  <2>a. own.step # "idle"
    BY <2>3
  <2>7. Formal!FinishesAsExpected
    <3>1. /\ rows'[g] = row /\ rows[g].status # "ready"
          /\ \A h \in 1..Len(rows) \ {g} : rows'[h] = rows[h]
      BY <1>2, <1>4, <2>1, <2>2, WorkIs, OneWritten DEF Formal!Live
    <3>2. QED
      BY <2>3, <3>1 DEF Formal!FinishesAsExpected
  <2> HIDE DEF g
  <2>8. WorkInv'
    BY <1>2, <2>1, <2>2, <2>3, <2>4, <2>5, <2>6, <2>a, <2>c, ExecutionSteps
  <2>9. QED
    BY <1>1, <2>7, <2>8
<1>5. CASE slot[s].seen # Attempts /\ ~(Formal!RowOf(s).attempt = slot[s].seen /\ Formal!RowOf(s).status \in Formal!Live)
  <2> DEFINE own == [slot[s] EXCEPT !.step = "return"]
  <2>1. UNCHANGED rows /\ slot' = [slot EXCEPT ![s] = own]
    BY <1>2, <1>5, WorkIs DEF Formal!Claim, Formal!Step
  <2>2. own \in Slot(Len(rows))
    BY <1>2, SlotStepWritten DEF SlotSteps
  <2>3. own.step = "return" /\ own.gen = g /\ own.holder = slot[s].holder
    BY <1>2 DEF Slot
  <2> HIDE DEF own
  <2>4. Works(own, Formal!RowOf(s), jobs[g])
    BY <1>1, <1>2, <1>5, <2>3 DEF Works, Runs
  <2>5. WorkInv'
    BY <1>1, <2>1, <2>2, <2>3, <2>4, ExecutionGoesOn
  <2>6. QED
    BY <1>1, <2>1, <2>5 DEF Formal!FinishesAsExpected
<1>6. QED
  BY <1>3, <1>4, <1>5

LEMMA FinalizeKeeps ==
  ASSUME WorkInv, NEW s \in Slots, Formal!Finalize(s)
  PROVE  /\ WorkInv' /\ UNCHANGED <<current, position, pin, jobs, request, events>>
         /\ Formal!FinishesAsExpected
<1> DEFINE g   == slot[s].gen
           own == [slot[s] EXCEPT !.step = "return"]
<1>1. slot[s].step = "generate" /\ UNCHANGED <<current, position, pin, jobs, request, events>>
  BY DEF Formal!Finalize
<1>2. /\ slot[s] \in Slot(Len(rows)) /\ g \in 1..Len(rows) /\ rows[g] \in Formal!Row /\ jobs[g] \in Formal!Job
      /\ Formal!RowOf(s) = rows[g] /\ Works(slot[s], rows[g], jobs[g]) /\ Waits(rows[g], jobs[g])
  BY <1>1, ExecutionIs
<1>3. own \in Slot(Len(rows)) /\ slot' = [slot EXCEPT ![s] = own]
  BY <1>2, SlotStepWritten DEF SlotSteps, Formal!Finalize, Formal!Step
<1>4. own.step = "return" /\ own.step # "idle" /\ own.gen = g /\ own.holder = slot[s].holder
  BY <1>2 DEF Slot
<1> HIDE DEF own
<1>5. ASSUME NEW status \in {"superseded", "ready"}, Formal!Write(s, status),
             rows[g].status # "ready", status = "ready" => /\ ~Formal!Unexpected(s)
                                                           /\ rows[g].attempt = slot[s].claimed
      PROVE  WorkInv' /\ Formal!FinishesAsExpected
  <2> DEFINE row == [rows[g] EXCEPT !.status = status]
  <2>1. rows' = [rows EXCEPT ![g] = row]
    BY <1>2, <1>5, WorkIs DEF Formal!Write
  <2>2. row \in Formal!Row
    BY <1>2, <1>5, RowStatusWritten DEF RowStatuses
  <2>3. row.status = status /\ row.status \notin Formal!Live
    BY <1>2, <1>5 DEF Formal!Row, Formal!Live
  <2> HIDE DEF row
  <2>4. Works(own, row, jobs[g]) /\ Waits(row, jobs[g])
    BY <1>2, <1>4, <2>3 DEF Works, Runs, Waits
  <2>5. jobs' = [jobs EXCEPT ![g] = jobs[g]]
    BY <1>1, <1>2, WorkIs, SameWritten
  <2>6. ~jobs[g].shared \/ jobs[g].state # "active" \/ own.holder => Alone(s, g)
    BY <1>1, <1>4, AloneWithLock
  <2>7. Formal!FinishesAsExpected
    <3>1. rows'[g] = row /\ \A h \in 1..Len(rows) \ {g} : rows'[h] = rows[h]
      BY <1>2, <2>1, <2>2, WorkIs, OneWritten
    <3>2. row.status = "ready" =>
            /\ rows[g].strategy = Formal!Expected(rows[g].node)
            /\ slot[s].gen = g /\ slot[s].claimed = rows[g].attempt
      BY <1>2, <1>5, <2>3 DEF Formal!Unexpected
    <3>3. QED
      BY <1>5, <3>1, <3>2 DEF Formal!FinishesAsExpected
  <2> HIDE DEF g
  <2>8. WorkInv'
    BY <1>2, <1>3, <1>4, <2>1, <2>2, <2>4, <2>5, <2>6, ExecutionSteps
  <2>9. QED
    BY <2>7, <2>8
<1>6. ASSUME UNCHANGED rows, ~(Formal!RowOf(s).status = "generating" /\ Formal!RowOf(s).attempt = slot[s].claimed)
      PROVE  WorkInv' /\ Formal!FinishesAsExpected
  <2>1. Works(own, Formal!RowOf(s), jobs[g])
    BY <1>1, <1>2, <1>4, <1>6 DEF Works, Runs
  <2>2. WorkInv'
    BY <1>1, <1>3, <1>4, <1>6, <2>1, ExecutionGoesOn
  <2>3. QED
    BY <1>6, <2>2 DEF Formal!FinishesAsExpected
<1>7. \/ Formal!Write(s, "superseded") /\ Formal!RowOf(s).status \in Formal!Live
      \/ /\ Formal!Write(s, "ready") /\ Formal!RowOf(s).status = "generating" /\ Formal!RowOf(s).attempt = slot[s].claimed
         /\ ~(Formal!Unexpected(s) /\ Formal!RowOf(s).status \in Formal!Live)
      \/ UNCHANGED rows /\ ~(Formal!RowOf(s).status = "generating" /\ Formal!RowOf(s).attempt = slot[s].claimed)
  BY DEF Formal!Finalize
<1>8. QED
  BY <1>1, <1>2, <1>5, <1>6, <1>7 DEF Formal!Live

LEMMA ReturnKeeps ==
  ASSUME WorkInv, NEW s \in Slots, Formal!JobReturns(s)
  PROVE  WorkInv' /\ UNCHANGED <<current, position, pin, rows, request, events>>
<1> DEFINE g   == slot[s].gen
           job == IF slot[s].holder THEN [jobs[g] EXCEPT !.state = "completed"] ELSE jobs[g]
<1>1. slot[s].step = "return" /\ UNCHANGED <<current, position, pin, rows, request, events>>
      /\ slot' = [slot EXCEPT ![s] = Formal!Free]
  BY DEF Formal!JobReturns
<1>2. /\ slot[s] \in Slot(Len(rows)) /\ g \in 1..Len(rows) /\ rows[g] \in Formal!Row /\ jobs[g] \in Formal!Job
      /\ Works(slot[s], rows[g], jobs[g]) /\ Waits(rows[g], jobs[g])
  BY <1>1, ExecutionIs
<1>3. jobs' = [jobs EXCEPT ![g] = job]
  BY <1>2, WorkIs, SameWritten DEF Formal!JobReturns
<1>4. job \in Formal!Job
  BY <1>2, StateWritten DEF JobStates
<1>5. /\ job.shared = jobs[g].shared
      /\ slot[s].holder => job.state = "completed"
      /\ ~slot[s].holder => job = jobs[g]
  BY <1>2 DEF Formal!Job
<1> HIDE DEF job
<1>6. Waits(rows[g], job)
  BY <1>1, <1>2, <1>5 DEF Waits, Works, Runs
<1>7. ~job.shared \/ job.state # "active" \/ Formal!Free.holder => Alone(s, g)
  BY <1>1, <1>5, AloneWithLock DEF Formal!Free
<1>8. rows' = [rows EXCEPT ![g] = rows[g]]
  BY <1>1, <1>2, WorkIs, SameWritten
<1>9. Formal!Free \in Slot(Len(rows))
  BY WorkIs
<1> HIDE DEF g
<1>10. WorkInv'
  BY <1>1, <1>2, <1>3, <1>4, <1>5, <1>6, <1>7, <1>8, <1>9, ExecutionSteps
<1>11. QED
  BY <1>1, <1>10

LEMMA JobThrowsKeeps ==
  ASSUME WorkInv, NEW s \in Slots, Formal!JobThrows(s)
  PROVE  WorkInv' /\ UNCHANGED <<current, position, pin, rows, request, events>>
<1> DEFINE g   == slot[s].gen
           state == IF jobs[g].made + 1 >= Attempts THEN "failed" ELSE "waiting"
           job == IF slot[s].holder
                  THEN [jobs[g] EXCEPT !.made = jobs[g].made + 1, !.error = slot[s].claimed, !.state = state]
                  ELSE jobs[g]
<1>1. slot[s].step = "throw" /\ UNCHANGED <<current, position, pin, rows, request, events>>
      /\ slot' = [slot EXCEPT ![s] = Formal!Free]
  BY DEF Formal!JobThrows
<1>2. /\ slot[s] \in Slot(Len(rows)) /\ g \in 1..Len(rows) /\ rows[g] \in Formal!Row /\ jobs[g] \in Formal!Job
      /\ Works(slot[s], rows[g], jobs[g]) /\ Waits(rows[g], jobs[g])
  BY <1>1, ExecutionIs
<1>3. jobs' = [jobs EXCEPT ![g] = job]
  <2>1. CASE slot[s].holder
    BY <1>2, <2>1, WorkIs DEF Formal!JobThrows
  <2>2. CASE ~slot[s].holder
    BY <1>2, <2>2, WorkIs, SameWritten DEF Formal!JobThrows
  <2>3. QED
    BY <2>1, <2>2
<1>a. jobs[g].made \in Nat /\ slot[s].claimed \in 0..Attempts /\ state \in {"failed", "waiting"}
  BY <1>2 DEF Formal!Job, Slot
<1>b. slot[s].holder => jobs[g].made < Attempts
  BY <1>2 DEF Works, Waits
<1>c. slot[s].holder => jobs[g].made + 1 \in 0..Attempts
  BY <1>a, <1>b, Bounds
<1>4. job \in Formal!Job
  BY <1>2, <1>a, <1>c DEF Formal!Job
<1>5. /\ job.shared = jobs[g].shared
      /\ slot[s].holder => job.state = state /\ job.error = slot[s].claimed /\ job.made = jobs[g].made + 1
      /\ ~slot[s].holder => job = jobs[g]
  BY <1>2 DEF Formal!Job
<1>d. state = "waiting" => jobs[g].made + 1 < Attempts
  BY <1>a, Bounds
<1> HIDE DEF job, state
<1>6. Waits(rows[g], job)
  BY <1>1, <1>2, <1>5, <1>a, <1>d DEF Waits, Works, Runs
<1>7. ~job.shared \/ job.state # "active" \/ Formal!Free.holder => Alone(s, g)
  BY <1>1, <1>5, AloneWithLock DEF Formal!Free
<1>8. rows' = [rows EXCEPT ![g] = rows[g]]
  BY <1>1, <1>2, WorkIs, SameWritten
<1>9. Formal!Free \in Slot(Len(rows))
  BY WorkIs
<1> HIDE DEF g
<1>10. WorkInv'
  BY <1>1, <1>2, <1>3, <1>4, <1>5, <1>6, <1>7, <1>8, <1>9, ExecutionSteps
<1>11. QED
  BY <1>1, <1>10

LEMMA RequeuedIs ==
  ASSUME NEW job \in Formal!Job, NEW alive \in BOOLEAN
  PROVE  /\ Formal!Requeued(job, alive) \in Formal!Job /\ Formal!Requeued(job, alive).state \in {"waiting", "lost"}
         /\ Formal!Requeued(job, alive).made = job.made /\ Formal!Requeued(job, alive).error = job.error
         /\ alive => Formal!Requeued(job, alive).shared = TRUE
         /\ ~alive => Formal!Requeued(job, alive).shared = job.shared
<1> DEFINE shared == job.shared \/ alive
<1>1. shared \in BOOLEAN
  OBVIOUS
<1>2. alive => shared = TRUE
  OBVIOUS
<1>3. ~alive => shared = job.shared
  <2>1. job.shared \in BOOLEAN
    BY DEF Formal!Job
  <2>2. QED
    BY <2>1, Zenon
<1>4. Formal!Requeued(job, alive) =
        IF job.stalled = 0 THEN [job EXCEPT !.state = "waiting", !.stalled = 1, !.shared = shared]
                           ELSE [job EXCEPT !.state = "lost", !.shared = shared]
  BY DEF Formal!Requeued
<1> HIDE DEF shared
<1>5. CASE job.stalled = 0
  <2> DEFINE new == [job EXCEPT !.state = "waiting", !.stalled = 1, !.shared = shared]
  <2>1. new \in Formal!Job
    <3>1. 1 \in 0..1 /\ "waiting" \in JobStates
      BY DEF JobStates
    <3>2. QED
      BY <1>1, <3>1 DEF Formal!Job, JobStates
  <2>2. new.state = "waiting" /\ new.made = job.made /\ new.error = job.error /\ new.shared = shared
    BY DEF Formal!Job
  <2>3. Formal!Requeued(job, alive) = new
    BY <1>4, <1>5
  <2> HIDE DEF new
  <2>4. QED
    BY <1>2, <1>3, <2>1, <2>2, <2>3
<1>6. CASE job.stalled # 0
  <2> DEFINE new == [job EXCEPT !.state = "lost", !.shared = shared]
  <2>1. new \in Formal!Job
    BY <1>1 DEF Formal!Job
  <2>2. new.state = "lost" /\ new.made = job.made /\ new.error = job.error /\ new.shared = shared
    BY DEF Formal!Job
  <2>3. Formal!Requeued(job, alive) = new
    BY <1>4, <1>6
  <2> HIDE DEF new
  <2>4. QED
    BY <1>2, <1>3, <2>1, <2>2, <2>3
<1>7. QED
  BY <1>5, <1>6

LEMMA StallKeeps ==
  ASSUME WorkInv, NEW s \in Slots, Formal!Stall(s)
  PROVE  WorkInv' /\ UNCHANGED <<current, position, pin, rows, request>>
<1> DEFINE g   == slot[s].gen
           job == Formal!Requeued(jobs[g], TRUE)
           own == [slot[s] EXCEPT !.holder = FALSE]
<1>1. slot[s].holder /\ UNCHANGED <<current, position, pin, rows, request>>
  BY DEF Formal!Stall
<1>2. slot[s].step # "idle"
  BY <1>1 DEF WorkInv, SlotFits, Formal!Free
<1>3. /\ slot[s] \in Slot(Len(rows)) /\ g \in 1..Len(rows) /\ rows[g] \in Formal!Row /\ jobs[g] \in Formal!Job
      /\ Works(slot[s], rows[g], jobs[g]) /\ Waits(rows[g], jobs[g])
  BY <1>2, ExecutionIs
<1>4. jobs' = [jobs EXCEPT ![g] = job] /\ slot' = [slot EXCEPT ![s] = own]
  BY <1>3, WorkIs DEF Formal!Stall
<1>5. job \in Formal!Job /\ job.state \in {"waiting", "lost"} /\ job.made = jobs[g].made /\ job.shared
  BY <1>3, RequeuedIs
<1>6. /\ own \in Slot(Len(rows)) /\ own.step = slot[s].step /\ own.gen = g /\ own.claimed = slot[s].claimed
      /\ ~own.holder
  BY <1>3 DEF Slot
<1> HIDE DEF own, job
<1>7. Works(own, rows[g], job) /\ Waits(rows[g], job)
  BY <1>1, <1>3, <1>5, <1>6 DEF Works, Waits
<1>8. Alone(s, g)
  BY <1>1, <1>2, AloneWithLock
<1>9. rows' = [rows EXCEPT ![g] = rows[g]] /\ own.step # "idle"
  BY <1>1, <1>2, <1>3, <1>6, WorkIs, SameWritten
<1> HIDE DEF g
<1>10. WorkInv'
  BY <1>3, <1>4, <1>5, <1>6, <1>7, <1>8, <1>9, ExecutionSteps
<1>11. QED
  BY <1>1, <1>10

LEMMA TakeKeeps ==
  ASSUME WorkInv, NEW s \in Slots, NEW g \in 1..Len(jobs), Formal!Take(s, g)
  PROVE  WorkInv' /\ UNCHANGED <<current, position, pin, rows, request, events>>
<1> DEFINE job == [jobs[g] EXCEPT !.state = "active"]
           own == [Formal!Free EXCEPT !.step = "load", !.gen = g, !.holder = TRUE]
<1>1. /\ slot[s] = Formal!Free /\ jobs[g].state = "waiting"
      /\ UNCHANGED <<current, position, pin, rows, request, events>>
  BY DEF Formal!Take
<1>2. g \in 1..Len(rows) /\ rows[g] \in Formal!Row /\ jobs[g] \in Formal!Job /\ Waits(rows[g], jobs[g])
  BY WorkIs DEF WorkInv
<1>3. jobs' = [jobs EXCEPT ![g] = job] /\ slot' = [slot EXCEPT ![s] = own]
  BY <1>2, WorkIs DEF Formal!Take
<1>4. /\ job \in Formal!Job /\ job.state = "active" /\ job.made = jobs[g].made
      /\ job.shared = jobs[g].shared
  BY <1>2 DEF Formal!Job
<1>5. /\ own \in Slot(Len(rows)) /\ own.step = "load" /\ own.gen = g /\ own.claimed = 0
      /\ own.holder
  <2> DEFINE free == Formal!Free
  <2>1. free \in Slot(Len(rows)) /\ free.claimed = 0
    BY WorkIs DEF Formal!Free
  <2>2. own = [free EXCEPT !.step = "load", !.gen = g, !.holder = TRUE]
    OBVIOUS
  <2> HIDE DEF free, own
  <2>3. g \in 0..Len(rows) /\ "load" \in SlotSteps
    BY <1>2, WorkIs DEF SlotSteps
  <2>4. QED
    BY <2>1, <2>2, <2>3 DEF Slot
<1> HIDE DEF own, job
<1>6. Works(own, rows[g], job) /\ Waits(rows[g], job)
  BY <1>1, <1>2, <1>4, <1>5 DEF Works, Runs, Waits
<1>7. Alone(s, g)
  BY <1>1 DEF Alone, WorkInv, SlotFits, Works, Formal!Free
<1>8. rows' = [rows EXCEPT ![g] = rows[g]] /\ own.step # "idle"
  BY <1>1, <1>2, <1>5, WorkIs, SameWritten
<1>9. WorkInv'
  BY <1>2, <1>3, <1>4, <1>5, <1>6, <1>7, <1>8, ExecutionSteps
<1>10. QED
  BY <1>1, <1>9

\* Nobody executes a job that is not active.
LEMMA NotHeld ==
  ASSUME WorkInv, NEW g \in 1..Len(rows), jobs[g].state # "active"
  PROVE  \A u \in Slots : ~(slot[u].holder /\ slot[u].gen = g)
BY DEF WorkInv, SlotFits, Works, Formal!Free

LEMMA FailKeeps ==
  ASSUME WorkInv, NEW g \in 1..Len(jobs), Formal!FailContentGeneration(g)
  PROVE  /\ WorkInv' /\ UNCHANGED <<current, position, pin, request, slot, events>>
         /\ Formal!FinishesAsExpected
<1> DEFINE fails == rows[g].status \in Formal!Live /\ jobs[g].error \in {0, rows[g].attempt}
           row == IF fails THEN [rows[g] EXCEPT !.status = "failed"] ELSE rows[g]
           job == [jobs[g] EXCEPT !.state = "settled"]
<1>1. jobs[g].state = "failed" /\ UNCHANGED <<current, position, pin, request, slot, events>>
  BY DEF Formal!FailContentGeneration
<1>2. g \in 1..Len(rows) /\ rows[g] \in Formal!Row /\ jobs[g] \in Formal!Job /\ Waits(rows[g], jobs[g])
  BY WorkIs DEF WorkInv
<1>3. rows' = [rows EXCEPT ![g] = row] /\ jobs' = [jobs EXCEPT ![g] = job]
  BY <1>2, WorkIs, SameWritten DEF Formal!FailContentGeneration
<1>4. row \in Formal!Row /\ job \in Formal!Job
  BY <1>2, RowStatusWritten, StateWritten DEF RowStatuses, JobStates
<1>5. /\ fails => row.status = "failed"
      /\ ~fails => row = rows[g]
      /\ job.state = "settled" /\ job.shared = jobs[g].shared
  BY <1>2 DEF Formal!Row, Formal!Job
<1> HIDE DEF row, job
<1>6. Waits(row, job)
  BY <1>1, <1>2, <1>5 DEF Waits, Formal!Live
<1>7. \A u \in Slots : ~(slot[u].holder /\ slot[u].gen = g)
  BY <1>1, <1>2, NotHeld
<1>8. Formal!FinishesAsExpected
  <2>1. rows'[g] = row /\ \A h \in 1..Len(rows) \ {g} : rows'[h] = rows[h]
    BY <1>2, <1>3, <1>4, WorkIs, OneWritten
  <2>2. QED
    BY <1>5, <2>1 DEF Formal!FinishesAsExpected, Formal!Live
<1>9. WorkInv'
  BY <1>1, <1>2, <1>3, <1>4, <1>5, <1>6, <1>7, JobSteps
<1>10. QED
  BY <1>1, <1>8, <1>9

LEMMA LostKeeps ==
  ASSUME WorkInv, NEW g \in 1..Len(jobs), Formal!CleanupLost(g)
  PROVE  WorkInv' /\ UNCHANGED <<current, position, pin, rows, request, slot, events>>
<1> DEFINE job == [jobs[g] EXCEPT !.state = "lost"]
<1>1. jobs[g].state = "failed" /\ UNCHANGED <<current, position, pin, rows, request, slot, events>>
  BY DEF Formal!CleanupLost
<1>2. g \in 1..Len(rows) /\ rows[g] \in Formal!Row /\ jobs[g] \in Formal!Job /\ Waits(rows[g], jobs[g])
  BY WorkIs DEF WorkInv
<1>3. rows' = [rows EXCEPT ![g] = rows[g]] /\ jobs' = [jobs EXCEPT ![g] = job]
  BY <1>1, <1>2, WorkIs, SameWritten DEF Formal!CleanupLost
<1>4. job \in Formal!Job /\ job.state = "lost" /\ job.shared = jobs[g].shared
  BY <1>2 DEF Formal!Job
<1> HIDE DEF job
<1>5. Waits(rows[g], job)
  BY <1>2, <1>4 DEF Waits
<1>6. \A u \in Slots : ~(slot[u].holder /\ slot[u].gen = g)
  BY <1>1, <1>2, NotHeld
<1>7. WorkInv'
  BY <1>1, <1>2, <1>3, <1>4, <1>5, <1>6, JobSteps
<1>8. QED
  BY <1>1, <1>7

LEMMA RecoverKeeps ==
  ASSUME WorkInv, NEW g \in 1..Len(jobs), Formal!RecoverCrashed(g)
  PROVE  WorkInv' /\ UNCHANGED <<current, position, pin, rows, request, slot, events>>
<1> DEFINE job == Formal!Requeued(jobs[g], FALSE)
<1>1. jobs[g].state = "active" /\ UNCHANGED <<current, position, pin, rows, request, slot, events>>
  BY DEF Formal!RecoverCrashed
<1>2. g \in 1..Len(rows) /\ rows[g] \in Formal!Row /\ jobs[g] \in Formal!Job /\ Waits(rows[g], jobs[g])
  BY WorkIs DEF WorkInv
<1>3. rows' = [rows EXCEPT ![g] = rows[g]] /\ jobs' = [jobs EXCEPT ![g] = job]
  BY <1>1, <1>2, WorkIs, SameWritten DEF Formal!RecoverCrashed
<1>4. job \in Formal!Job /\ job.state \in {"waiting", "lost"} /\ job.made = jobs[g].made /\ job.shared = jobs[g].shared
  BY <1>2, RequeuedIs DEF Formal!Job
<1> HIDE DEF job
<1>5. Waits(rows[g], job)
  BY <1>1, <1>2, <1>4 DEF Waits
<1>6. \A u \in Slots : ~(slot[u].holder /\ slot[u].gen = g)
  BY <1>2 DEF Formal!RecoverCrashed, Formal!Holders
<1>7. WorkInv'
  BY <1>1, <1>2, <1>3, <1>4, <1>5, <1>6, JobSteps
<1>8. QED
  BY <1>1, <1>7

\* Jobs for rows without one.
LEMMA AddedKeeps ==
  ASSUME WorkInv, NEW G, jobs' = Formal!Added(G), UNCHANGED <<rows, slot>>
  PROVE  WorkInv'
<1>1. Len(rows) \in Nat /\ jobs \in [1..Len(rows) -> Formal!Job] /\ Len(jobs) = Len(rows) /\ rows \in Seq(Formal!Row)
  BY WorkIs
<1>2. \A g \in 1..Len(rows) :
        \/ jobs'[g] = jobs[g]
        \/ jobs[g].state = "none" /\ jobs'[g] = [jobs[g] EXCEPT !.state = "waiting"]
  BY <1>1 DEF Formal!Added
<1>3. jobs' \in [1..Len(rows) -> Formal!Job]
  <2>1. \A g \in 1..Len(rows) : [jobs[g] EXCEPT !.state = "waiting"] \in Formal!Job
    BY <1>1, StateWritten DEF JobStates
  <2>2. QED
    BY <1>1, <2>1 DEF Formal!Added
<1>4. jobs' \in Seq(Formal!Job) /\ Len(jobs') = Len(rows)
  BY <1>1, <1>3, ListOf
<1>5. rows' \in Seq(Formal!Row) /\ Len(rows') = Len(rows) /\ UNCHANGED slot
      /\ \A g \in 1..Len(rows) : rows'[g].attempt = rows[g].attempt /\ rows'[g].status = rows[g].status
  BY <1>1
<1>6. QED
  BY <1>1, <1>2, <1>4, <1>5, RowsGrow

\* A list and another after it.
LEMMA Appended ==
  ASSUME NEW S, NEW a \in Seq(S), NEW b \in Seq(S)
  PROVE  /\ a \o b \in Seq(S) /\ Len(a) \in Nat /\ Len(b) \in Nat /\ Len(a \o b) = Len(a) + Len(b)
         /\ \A g \in 1..Len(a) : (a \o b)[g] = a[g]
         /\ \A g \in 1..Len(a \o b) :
              g \notin 1..Len(a) => g - Len(a) \in 1..Len(b) /\ (a \o b)[g] = b[g - Len(a)]
<1>1. a \o b \in Seq(S)
  OBVIOUS
<1>2. Len(a) \in Nat /\ Len(b) \in Nat /\ Len(a \o b) = Len(a) + Len(b)
  OBVIOUS
<1>3. \A g \in 1..Len(a) : (a \o b)[g] = a[g]
  OBVIOUS
<1>4. \A g \in 1..(Len(a) + Len(b)) :
        g \notin 1..Len(a) => g - Len(a) \in 1..Len(b) /\ (a \o b)[g] = b[g - Len(a)]
  OBVIOUS
<1>5. QED
  BY <1>1, <1>2, <1>3, <1>4

\* A window is a finite set of eligible nodes.
LEMMA WindowIs == ASSUME NEW n PROVE Formal!Window(n) \in SUBSET Formal!Nodes
BY Bounds DEF Formal!Window, Formal!Nodes

\* What inserting leaves of the rows, and what it adds.
Longer(rs, new) ==
  /\ new \in Seq(Formal!Row) /\ Len(rs) <= Len(new) /\ Len(rs) \in Nat /\ Len(new) \in Nat
  /\ \A g \in 1..Len(rs) : new[g] = rs[g]
  /\ \A g \in 1..Len(new) : g \notin 1..Len(rs) => new[g].status = "queued"

LEMMA InsertedIs ==
  ASSUME NEW rs \in Seq(Formal!Row), NEW W \in SUBSET Formal!Nodes, NEW s \in Formal!Strategies,
         NEW new \in Formal!Inserted(rs, W, s)
  PROVE  Longer(rs, new)
<1> DEFINE M == Formal!Missing(rs, W, s)  c == Cardinality(M)
<1>1. M \subseteq Formal!Nodes
  BY DEF Formal!Missing
<1>2. c \in Nat
  <2>1. IsFiniteSet(1..NodeCount)
    BY Bounds, FS_Interval
  <2>2. IsFiniteSet(M)
    BY <1>1, <2>1, FS_Subset DEF Formal!Nodes
  <2>3. QED
    BY <2>2, FS_CardinalityType
<1>3. PICK q \in Formal!Listings(M) : new = rs \o [i \in 1..Len(q) |-> Formal!NewRow(q[i], s)]
  BY DEF Formal!Inserted
<1> HIDE DEF M, c
<1>4. q \in [1..c -> M]
  BY <1>3, SameCardinality DEF Formal!Listings, c
<1>5. Len(q) = c
  BY <1>2, <1>4, ListOf
<1> DEFINE more == [i \in 1..c |-> Formal!NewRow(q[i], s)]
<1>6. \A i \in 1..c : q[i] \in Formal!Nodes
  BY <1>1, <1>4
<1>7. \A i \in 1..c : Formal!NewRow(q[i], s) \in Formal!Row /\ Formal!NewRow(q[i], s).status = "queued"
  BY <1>6, Bounds DEF Formal!NewRow, Formal!Row, Formal!Live
<1>8. more \in [1..c -> Formal!Row] /\ \A i \in 1..c : more[i].status = "queued"
  BY <1>7
<1>9. new = rs \o more
  BY <1>3, <1>5
<1> HIDE DEF more
<1>10. more \in Seq(Formal!Row) /\ Len(more) = c
  BY <1>2, <1>8, ListOf
<1>11. /\ new \in Seq(Formal!Row) /\ Len(new) = Len(rs) + c /\ Len(rs) \in Nat
       /\ \A g \in 1..Len(rs) : new[g] = rs[g]
  BY <1>2, <1>9, <1>10, Appended
<1>12. \A g \in 1..Len(new) : g \notin 1..Len(rs) => g - Len(rs) \in 1..c /\ new[g] = more[g - Len(rs)]
  BY <1>2, <1>9, <1>10, <1>11, Appended
<1>13. QED
  BY <1>2, <1>8, <1>11, <1>12 DEF Longer

LEMMA SupersededIs ==
  ASSUME NEW rs \in Seq(Formal!Row), NEW left
  PROVE  /\ Formal!Superseded(rs, left) \in Seq(Formal!Row) /\ Len(Formal!Superseded(rs, left)) = Len(rs)
         /\ \A g \in 1..Len(rs) :
              \/ Formal!Superseded(rs, left)[g] = rs[g]
              \/ rs[g].status \in Formal!Live /\ Formal!Superseded(rs, left)[g] = [rs[g] EXCEPT !.status = "superseded"]
<1>1. Len(rs) \in Nat /\ \A g \in 1..Len(rs) : rs[g] \in Formal!Row
  OBVIOUS
<1>2. \A g \in 1..Len(rs) : [rs[g] EXCEPT !.status = "superseded"] \in Formal!Row
  BY <1>1, RowStatusWritten DEF RowStatuses
<1>3. Formal!Superseded(rs, left) \in [1..Len(rs) -> Formal!Row]
  BY <1>1, <1>2 DEF Formal!Superseded
<1>4. Formal!Superseded(rs, left) \in Seq(Formal!Row) /\ Len(Formal!Superseded(rs, left)) = Len(rs)
  BY <1>1, <1>3, ListOf
<1>5. QED
  BY <1>4 DEF Formal!Superseded

\* Rows are inserted, after others have been superseded or not.
LEMMA InsertKeeps ==
  ASSUME WorkInv, NEW rs \in Seq(Formal!Row), Len(rs) = Len(rows),
         \A g \in 1..Len(rows) :
           rs[g] = rows[g] \/ (rows[g].status \in Formal!Live /\ rs[g] = [rows[g] EXCEPT !.status = "superseded"]),
         NEW W \in SUBSET Formal!Nodes, NEW s \in Formal!Strategies, NEW new \in Formal!Inserted(rs, W, s),
         rows' = new, jobs' = jobs \o [i \in 1..(Len(new) - Len(rows)) |-> Formal!NoJob], UNCHANGED slot
  PROVE  WorkInv' /\ Formal!FinishesAsExpected
<1>1. /\ new \in Seq(Formal!Row) /\ Len(rows) <= Len(new) /\ Len(new) \in Nat
      /\ \A g \in 1..Len(rows) : new[g] = rs[g]
      /\ \A g \in 1..Len(new) : g \notin 1..Len(rows) => new[g].status = "queued"
  <2>1. /\ new \in Seq(Formal!Row) /\ Len(rs) <= Len(new) /\ Len(new) \in Nat
        /\ \A g \in 1..Len(rs) : new[g] = rs[g]
        /\ \A g \in 1..Len(new) : g \notin 1..Len(rs) => new[g].status = "queued"
    <3>1. Longer(rs, new)
      BY InsertedIs
    <3>2. QED
      BY <3>1 DEF Longer
  <2>2. QED
    BY <2>1
<1>2. /\ Len(rows) \in Nat /\ jobs \in Seq(Formal!Job) /\ Len(jobs) = Len(rows) /\ rows \in [1..Len(rows) -> Formal!Row]
  BY WorkIs
<1>3. \A g \in 1..Len(rows) : /\ new[g].attempt = rows[g].attempt
                              /\ new[g] = rows[g] \/ (rows[g].status \in Formal!Live /\ new[g].status = "superseded")
  <2>1. \A g \in 1..Len(rows) :
          /\ [rows[g] EXCEPT !.status = "superseded"].attempt = rows[g].attempt
          /\ [rows[g] EXCEPT !.status = "superseded"].status = "superseded"
    <3>1. \A row \in Formal!Row : /\ [row EXCEPT !.status = "superseded"].attempt = row.attempt
                           /\ [row EXCEPT !.status = "superseded"].status = "superseded"
      BY DEF Formal!Row
    <3>2. QED
      BY <1>2, <3>1
  <2>2. QED
    BY <1>1, <2>1
<1> DEFINE c == Len(new) - Len(rows)  more == [i \in 1..c |-> Formal!NoJob]
<1>4. c \in Nat /\ Formal!NoJob \in Formal!Job
  BY <1>1, <1>2, Bounds DEF Formal!NoJob, Formal!Job
<1>5. more \in [1..c -> Formal!Job] /\ \A i \in 1..c : more[i] = Formal!NoJob
  BY <1>4
<1> HIDE DEF more
<1>6. more \in Seq(Formal!Job) /\ Len(more) = c
  BY <1>4, <1>5, ListOf
<1>7. /\ jobs' \in Seq(Formal!Job) /\ Len(jobs') = Len(new)
      /\ \A g \in 1..Len(rows) : jobs'[g] = jobs[g]
      /\ \A g \in 1..Len(new) : g \notin 1..Len(rows) => g - Len(rows) \in 1..c /\ jobs'[g] = more[g - Len(rows)]
  <2>1. jobs' = jobs \o more
    BY DEF more
  <2>2. /\ jobs \o more \in Seq(Formal!Job) /\ Len(jobs \o more) = Len(jobs) + Len(more)
        /\ \A g \in 1..Len(jobs) : (jobs \o more)[g] = jobs[g]
        /\ \A g \in 1..Len(jobs \o more) :
             g \notin 1..Len(jobs) => g - Len(jobs) \in 1..Len(more) /\ (jobs \o more)[g] = more[g - Len(jobs)]
    BY <1>2, <1>6, Appended
  <2>3. Len(jobs) = Len(rows) /\ Len(more) = Len(new) - Len(rows) /\ Len(jobs) + Len(more) = Len(new)
    BY <1>1, <1>2, <1>6
  <2>4. QED
    BY <2>1, <2>2, <2>3
<1>8. \A g \in 1..Len(new) : g \notin 1..Len(rows) => jobs'[g] = Formal!NoJob
  BY <1>5, <1>7
<1>9. WorkInv'
  <2>1. rows' \in Seq(Formal!Row) /\ jobs' \in Seq(Formal!Job) /\ Len(jobs') = Len(rows') /\ Len(rows) <= Len(rows')
    BY <1>1, <1>7
  <2>2. \A g \in 1..Len(rows) : /\ jobs'[g] = jobs[g] /\ rows'[g].attempt = rows[g].attempt
                                /\ rows'[g].status = rows[g].status \/ rows'[g].status \notin Formal!Live
    BY <1>3, <1>7 DEF Formal!Live
  <2>3. \A g \in 1..Len(rows') : g \notin 1..Len(rows) => rows'[g].status = "queued" /\ jobs'[g] = Formal!NoJob
    BY <1>1, <1>8
  <2>4. QED
    BY <2>1, <2>2, <2>3, RowsGrow
<1>10. Formal!FinishesAsExpected
  BY <1>3 DEF Formal!FinishesAsExpected, Formal!Live
<1>11. QED
  BY <1>9, <1>10

(***************************************************************************)
(* Every step                                                              *)
(***************************************************************************)
FormalInv == BookInv /\ WorkInv

LEMMA BookAlone ==
  ASSUME BookInv, UNCHANGED <<current, position, pin, request>>, events' \in 0..FormalEvents
  PROVE  BookInv' /\ Formal!PinsAdvance
<1>1. \A n \in Formal!Nodes : pin[n] \in Nat
  BY Bounds DEF BookInv, Formal!Pins
<1>2. Formal!PinsAdvance
  BY <1>1 DEF Formal!PinsAdvance
<1>3. QED
  BY <1>2 DEF BookInv

LEMMA PinsAlone ==
  ASSUME BookInv, UNCHANGED pin
  PROVE  Formal!PinsAdvance
<1>1. \A n \in Formal!Nodes : pin[n] \in Nat
  BY Bounds DEF BookInv, Formal!Pins
<1>2. QED
  BY <1>1 DEF Formal!PinsAdvance

LEMMA WorkAlone ==
  ASSUME WorkInv, UNCHANGED <<rows, jobs, slot>>
  PROVE  WorkInv' /\ Formal!FinishesAsExpected
BY DEF WorkInv, WorkTyped, OneHolder, SlotFits, Formal!FinishesAsExpected

LEMMA Counted ==
  ASSUME BookInv, Formal!Count
  PROVE  events' \in 0..FormalEvents
BY Bounds DEF BookInv, Formal!Count

Kept == FormalInv' /\ Formal!FinishesAsExpected /\ Formal!PinsAdvance

LEMMA RequestStep ==
  ASSUME FormalInv, NEW r \in Requests,
         \/ \E n \in Formal!Nodes : \/ \E at \in 1..MaxAt : Formal!ReportReaderFocus(r, n, at)
                             \/ Formal!MarkReadNode(r, n) \/ Formal!ConfirmProposal(r, n)
         \/ Formal!OpenReader(r) \/ Formal!ReadPrior(r) \/ Formal!PersistReaderPosition(r) \/ Formal!RepinFocus(r)
         \/ Formal!EnqueuePendingFormalGenerations(r) \/ Formal!ReadResume(r)
         \/ Formal!InsertFormalWindow(r) \/ Formal!EnqueueWindow(r) \/ Formal!InsertReadNode(r) \/ Formal!Abandon(r)
  PROVE  Kept
<1>a. BookInv /\ WorkInv
  BY DEF FormalInv
<1>b. ASSUME BookInv', UNCHANGED <<rows, jobs, slot>>, UNCHANGED pin \/ Formal!PinsAdvance PROVE Kept
  BY <1>a, <1>b, WorkAlone, PinsAlone DEF Kept, FormalInv
<1>1. ASSUME NEW n \in Formal!Nodes, NEW at \in 1..MaxAt, Formal!ReportReaderFocus(r, n, at) PROVE Kept
  <2>1. Formal!Begin(r, "prior", n, at) /\ n \in 0..NodeCount /\ at \in 0..MaxAt
    BY <1>1, Bounds DEF Formal!ReportReaderFocus, Formal!Nodes
  <2>2. QED
    BY <1>a, <1>b, <2>1, BeginKeeps
<1>2. ASSUME NEW n \in Formal!Nodes, Formal!MarkReadNode(r, n) PROVE Kept
  <2>1. Formal!Begin(r, "mark", n, 0) /\ n \in 0..NodeCount /\ 0 \in 0..MaxAt
    BY <1>2, Bounds DEF Formal!MarkReadNode, Formal!Nodes
  <2>2. QED
    BY <1>a, <1>b, <2>1, BeginKeeps
<1>3. CASE Formal!OpenReader(r)
  <2>1. Formal!Begin(r, "recover", 0, 0) /\ 0 \in 0..NodeCount /\ 0 \in 0..MaxAt
    BY <1>3, Bounds DEF Formal!OpenReader
  <2>2. QED
    BY <1>a, <1>b, <2>1, BeginKeeps
<1>4. CASE Formal!ReadPrior(r) \/ Formal!PersistReaderPosition(r) \/ Formal!ReadResume(r)
  BY <1>4, <1>a, <1>b, ReadPriorKeeps, PositionKeeps, ResumeKeeps
<1>5. CASE Formal!RepinFocus(r) \/ Formal!InsertReadNode(r)
  BY <1>5, <1>a, <1>b, RepinKeeps, MarkKeeps
<1>6. CASE Formal!Abandon(r)
  <2>1. BookInv' /\ UNCHANGED <<rows, jobs, slot, pin>>
    BY <1>6, <1>a, DoneKeeps DEF Formal!Abandon
  <2>2. QED
    BY <1>b, <2>1
<1>7. CASE Formal!EnqueuePendingFormalGenerations(r) \/ Formal!EnqueueWindow(r)
  <2>1. /\ UNCHANGED <<current, position, pin, rows, slot, events>>
        /\ \E G : jobs' = Formal!Added(G)
    BY <1>7 DEF Formal!EnqueuePendingFormalGenerations, Formal!EnqueueWindow
  <2>2. BookInv'
    <3>1. CASE Formal!EnqueuePendingFormalGenerations(r)
      <4>1. Formal!Goto(r, "resume") /\ request[r].step # "idle" /\ "resume" \in RequestSteps
        BY <3>1 DEF Formal!EnqueuePendingFormalGenerations, RequestSteps
      <4>2. QED
        BY <1>a, <2>1, <4>1, GotoKeeps
    <3>2. CASE Formal!EnqueueWindow(r)
      BY <1>a, <2>1, <3>2, DoneKeeps DEF Formal!EnqueueWindow
    <3>3. QED
      BY <1>7, <3>1, <3>2
  <2>3. WorkInv'
    BY <1>a, <2>1, AddedKeeps
  <2>4. QED
    BY <1>a, <2>1, <2>2, <2>3, PinsAlone DEF Kept, FormalInv, Formal!FinishesAsExpected
<1>8. CASE Formal!InsertFormalWindow(r)
  <2> DEFINE W == Formal!Window(request[r].node)  s == request[r].strategy
  <2>1. /\ request[r].step = "window" /\ Formal!Goto(r, "enqueue")
        /\ UNCHANGED <<current, position, pin, slot, events>>
        /\ \E new \in Formal!Inserted(rows, W, s) :
             rows' = new /\ jobs' = jobs \o [i \in 1..(Len(new) - Len(rows)) |-> Formal!NoJob]
    BY <1>8 DEF Formal!InsertFormalWindow
  <2>2. /\ request[r] \in Asking(current) /\ request[r].node \in Formal!Nodes /\ s # 0 /\ current \in Formal!Strategies
    BY <1>a, <2>1 DEF BookInv, AskFits
  <2>3. s \in Formal!Strategies /\ W \in SUBSET Formal!Nodes
    BY <2>2, WindowIs, Bounds DEF Asking, Formal!Strategies
  <2>4. BookInv'
    BY <1>a, <2>1, <2>2, GotoKeeps DEF RequestSteps
  <2> HIDE DEF W, s
  <2>5. WorkInv' /\ Formal!FinishesAsExpected
    BY <1>a, <2>1, <2>3, WorkIs, InsertKeeps
  <2>6. QED
    BY <1>a, <2>1, <2>4, <2>5, PinsAlone DEF Kept, FormalInv
<1>9. ASSUME NEW n \in Formal!Nodes, Formal!ConfirmProposal(r, n) PROVE Kept
  <2> DEFINE s == current + 1  rs == Formal!Superseded(rows, {m \in Formal!Nodes \ {n} : pin[m] # 0})
  <2>1. /\ s \in Formal!Strategies /\ UNCHANGED slot
        /\ \E new \in Formal!Inserted(rs, Formal!Window(n), s) :
             rows' = new /\ jobs' = jobs \o [i \in 1..(Len(new) - Len(rows)) |-> Formal!NoJob]
    BY <1>9 DEF Formal!ConfirmProposal
  <2>2. /\ rs \in Seq(Formal!Row) /\ Len(rs) = Len(rows)
        /\ \A g \in 1..Len(rows) :
             rs[g] = rows[g] \/ (rows[g].status \in Formal!Live /\ rs[g] = [rows[g] EXCEPT !.status = "superseded"])
    BY <1>a, WorkIs, SupersededIs
  <2>3. BookInv' /\ Formal!PinsAdvance
    BY <1>9, <1>a, ConfirmBook
  <2> HIDE DEF s, rs
  <2>4. Formal!Window(n) \in SUBSET Formal!Nodes
    BY WindowIs
  <2>5. WorkInv' /\ Formal!FinishesAsExpected
    BY <1>a, <2>1, <2>2, <2>4, InsertKeeps
  <2>6. QED
    BY <2>3, <2>5 DEF Kept, FormalInv
<1>10. QED
  BY <1>1, <1>2, <1>3, <1>4, <1>5, <1>6, <1>7, <1>8, <1>9

LEMMA WorkerStep ==
  ASSUME FormalInv,
         \/ \E s \in Slots :
              \/ \E g \in 1..Len(jobs) : Formal!Take(s, g)
              \/ Formal!Load(s) \/ Formal!Check(s) \/ Formal!Claim(s) \/ Formal!Finalize(s) \/ Formal!Throw(s)
              \/ Formal!JobReturns(s) \/ Formal!JobThrows(s) \/ Formal!WorkerCrash(s) \/ Formal!Stall(s)
         \/ \E g \in 1..Len(jobs) :
              Formal!FailContentGeneration(g) \/ Formal!CleanupLost(g) \/ Formal!RecoverCrashed(g)
  PROVE  Kept
<1>a. BookInv /\ WorkInv /\ events \in 0..FormalEvents
  BY DEF FormalInv, BookInv
<1>b. ASSUME WorkInv', UNCHANGED <<current, position, pin, request>>, UNCHANGED events \/ Formal!Count,
             UNCHANGED rows \/ Formal!FinishesAsExpected
      PROVE  Kept
  <2>1. events' \in 0..FormalEvents
    BY <1>a, <1>b, Counted
  <2>2. BookInv' /\ Formal!PinsAdvance
    BY <1>a, <1>b, <2>1, BookAlone
  <2>3. UNCHANGED rows => Formal!FinishesAsExpected
    BY DEF Formal!FinishesAsExpected
  <2>4. QED
    BY <1>b, <2>2, <2>3 DEF Kept, FormalInv
<1>1. ASSUME NEW s \in Slots, NEW g \in 1..Len(jobs), Formal!Take(s, g) PROVE Kept
  BY <1>1, <1>a, <1>b, TakeKeeps
<1>2. ASSUME NEW s \in Slots, Formal!Load(s) \/ Formal!JobReturns(s) \/ Formal!JobThrows(s) PROVE Kept
  BY <1>2, <1>a, <1>b, LoadKeeps, ReturnKeeps, JobThrowsKeeps
<1>3. ASSUME NEW s \in Slots, Formal!Check(s) \/ Formal!Claim(s) \/ Formal!Finalize(s) PROVE Kept
  BY <1>3, <1>a, <1>b, CheckKeeps, ClaimKeeps, FinalizeKeeps
<1>4. ASSUME NEW s \in Slots, Formal!Throw(s) \/ Formal!WorkerCrash(s) \/ Formal!Stall(s) PROVE Kept
  <2>1. Formal!Count
    BY <1>4 DEF Formal!Throw, Formal!WorkerCrash, Formal!Stall
  <2>2. QED
    BY <1>4, <1>a, <1>b, <2>1, ThrowKeeps, CrashKeeps, StallKeeps
<1>5. ASSUME NEW g \in 1..Len(jobs), Formal!FailContentGeneration(g) \/ Formal!CleanupLost(g) \/ Formal!RecoverCrashed(g)
      PROVE  Kept
  BY <1>5, <1>a, <1>b, FailKeeps, LostKeeps, RecoverKeeps
<1>6. QED
  BY <1>1, <1>2, <1>3, <1>4, <1>5

LEMMA FormalStep ==
  ASSUME FormalInv, Formal!Next
  PROVE  Kept
BY RequestStep, WorkerStep DEF Formal!Next

LEMMA FormalRests ==
  ASSUME FormalInv, UNCHANGED formal
  PROVE  FormalInv'
<1>1. BookInv /\ WorkInv
  BY DEF FormalInv
<1>2. UNCHANGED <<current, position, pin, request, rows, jobs, slot, events>>
  BY DEF formal
<1>3. BookInv'
  BY <1>1, <1>2 DEF BookInv
<1>4. QED
  BY <1>1, <1>2, <1>3, WorkAlone DEF FormalInv

LEMMA HeldRows == ASSUME FormalInv PROVE Formal!LiveRowsAreHeld
<1> SUFFICES ASSUME NEW g \in 1..Len(rows), rows[g].status \in Formal!Live, ~Formal!Excused(g)
             PROVE  \/ rows[g].status = "queued" /\ jobs[g].state = "none"
                    \/ jobs[g].state \in {"waiting", "active", "failed"}
  BY DEF Formal!LiveRowsAreHeld
<1>1. jobs[g] \in Formal!Job /\ Waits(rows[g], jobs[g])
  BY WorkIs DEF FormalInv, WorkInv
<1>2. QED
  BY <1>1 DEF Formal!Excused, Waits, Formal!Job

LEMMA FormalTyped == ASSUME FormalInv PROVE Formal!TypeOK
<1>1. /\ current \in Formal!Strategies /\ position \in Formal!Position /\ pin \in Formal!Pins
      /\ events \in 0..FormalEvents
      /\ request \in [Requests -> Asking(current)]
      /\ rows \in Seq(Formal!Row) /\ jobs \in Seq(Formal!Job) /\ Len(jobs) = Len(rows)
      /\ slot \in [Slots -> Slot(Len(rows))]
  BY DEF FormalInv, BookInv, WorkInv, WorkTyped
<1>2. Asking(current) \subseteq Asking(MaxStrategy)
  <2>1. 0..current \subseteq 0..MaxStrategy
    BY <1>1, Bounds DEF Formal!Strategies
  <2>2. QED
    BY <2>1 DEF Asking
<1>3. request \in [Requests -> Asking(MaxStrategy)]
  BY <1>1, <1>2
<1>4. QED
  BY <1>1, <1>3 DEF Formal!TypeOK, Asking, RequestSteps, Slot, SlotSteps

\* With the focus on formal generation its variables satisfy the invariant, and with the focus
\* elsewhere they are not looked at.
FormalHolds == On("formal") => FormalInv

LEMMA FormalStarts == Init => FormalHolds
BY BookInvInit, WorkInvInit DEF Init, On, FormalHolds, FormalInv

LEMMA FormalGoesOn ==
  ASSUME FormalHolds, [Next]_vars
  PROVE  FormalHolds' /\ [On("formal") => Formal!FinishesAsExpected /\ Formal!PinsAdvance]_formal
<1>1. CASE ~On("formal")
  BY <1>1 DEF On, FormalHolds, Next, vars
<1>2. ASSUME On("formal"), Formal!Next PROVE Kept
  BY <1>2, FormalStep DEF FormalHolds
<1>3. ASSUME On("formal"), UNCHANGED formal PROVE FormalInv'
  BY <1>3, FormalRests DEF FormalHolds
<1>4. CASE On("formal")
  <2>1. Formal!Next \/ UNCHANGED formal
    BY <1>4 DEF Next, vars, On
  <2>2. QED
    BY <1>2, <1>3, <1>4, <2>1 DEF Kept, FormalHolds
<1>5. QED
  BY <1>1, <1>4

LEMMA FormalAlways == Spec => []FormalHolds
BY FormalStarts, FormalGoesOn, PTL DEF Spec

\* Rows, jobs, requests and executions of formal generation keep their types.
THEOREM FormalTypeCorrect == Spec => [](On("formal") => Formal!TypeOK)
<1>1. FormalHolds => (On("formal") => Formal!TypeOK)
  BY FormalTyped DEF FormalHolds
<1>2. QED
  BY <1>1, FormalAlways, PTL

\* Content that is asked for is on its way, however executions crash, stall and overtake each
\* other, unless its job was shared or its failure could not be recorded.
THEOREM WantedContentIsHeld == Spec => []LiveRowsAreHeld
<1>1. FormalHolds => LiveRowsAreHeld
  BY HeldRows DEF FormalHolds, LiveRowsAreHeld
<1>2. QED
  BY <1>1, FormalAlways, PTL

\* Content becomes visible only for the strategy its node is read with, from the attempt that
\* claimed the row, and stays; the pin of a node only moves to a newer strategy.
THEOREM ShownContentIsExpected == Spec => ContentFollowsStrategy
BY FormalAlways, FormalGoesOn, PTL DEF Spec, ContentFollowsStrategy

(***************************************************************************)
(* StrategyProposals, whose theorems are those of another instance of the  *)
(* same module: their definitions are equal, one by one                    *)
(***************************************************************************)
QuestionProofs == INSTANCE StrategyProposalsProofs

LEMMA SameCount == ASSUME NEW S PROVE Question!Cardinality(S) = QuestionProofs!Cardinality(S)
BY DEF Question!Cardinality, QuestionProofs!Cardinality

LEMMA SameThreadFree ==
  ASSUME NEW th
  PROVE  Question!ThreadFree(th) <=> QuestionProofs!ThreadFree(th)
BY DEF Question!ThreadFree, QuestionProofs!ThreadFree

LEMMA SameBookFree == Question!BookFree <=> QuestionProofs!BookFree
BY DEF Question!BookFree, QuestionProofs!BookFree

LEMMA SameAsk ==
  ASSUME NEW t, NEW th, NEW key
  PROVE  Question!Ask(t, th, key) <=> QuestionProofs!Ask(t, th, key)
BY DEF Question!Ask, QuestionProofs!Ask, Question!Idle, QuestionProofs!Idle

LEMMA SameReadForQuestion ==
  ASSUME NEW t
  PROVE  Question!ReadForQuestion(t) <=> QuestionProofs!ReadForQuestion(t)
BY DEF Question!ReadForQuestion, QuestionProofs!ReadForQuestion, Question!Asked,
       QuestionProofs!Asked, Question!MessagesOf, QuestionProofs!MessagesOf,
       Question!SameQuestion, QuestionProofs!SameQuestion, Question!VersionOf,
       QuestionProofs!VersionOf

LEMMA SameCommitQuestion ==
  ASSUME NEW t
  PROVE  Question!CommitQuestion(t) <=> QuestionProofs!CommitQuestion(t)
BY SameThreadFree, SameCount DEF Question!CommitQuestion, QuestionProofs!CommitQuestion,
       Question!VersionOf, QuestionProofs!VersionOf, Question!MessagesOf,
       QuestionProofs!MessagesOf, Question!Appended, QuestionProofs!Appended, Question!Lost,
       QuestionProofs!Lost, Question!Idle, QuestionProofs!Idle

LEMMA SameFindQaAnswer ==
  ASSUME NEW t
  PROVE  Question!FindQaAnswer(t) <=> QuestionProofs!FindQaAnswer(t)
BY DEF Question!FindQaAnswer, QuestionProofs!FindQaAnswer, Question!Answered,
       QuestionProofs!Answered, Question!MessagesOf, QuestionProofs!MessagesOf, Question!End,
       QuestionProofs!End, Question!Idle, QuestionProofs!Idle, Question!Goto,
       QuestionProofs!Goto

LEMMA SameRunTurn ==
  ASSUME NEW t
  PROVE  Question!RunTurn(t) <=> QuestionProofs!RunTurn(t)
BY DEF Question!RunTurn, QuestionProofs!RunTurn

LEMMA SameAbandon ==
  ASSUME NEW t
  PROVE  Question!Abandon(t) <=> QuestionProofs!Abandon(t)
BY DEF Question!Abandon, QuestionProofs!Abandon, Question!Idle, QuestionProofs!Idle,
       Question!End, QuestionProofs!End

LEMMA SameReadForAnswer ==
  ASSUME NEW t
  PROVE  Question!ReadForAnswer(t) <=> QuestionProofs!ReadForAnswer(t)
BY DEF Question!ReadForAnswer, QuestionProofs!ReadForAnswer, Question!Answered,
       QuestionProofs!Answered, Question!MessagesOf, QuestionProofs!MessagesOf, Question!Idle,
       QuestionProofs!Idle, Question!VersionOf, QuestionProofs!VersionOf

LEMMA SameSaveAnswer ==
  ASSUME NEW t
  PROVE  Question!SaveAnswer(t) <=> QuestionProofs!SaveAnswer(t)
BY SameThreadFree, SameCount DEF Question!SaveAnswer, QuestionProofs!SaveAnswer, Question!Wins,
       QuestionProofs!Wins, Question!VersionOf, QuestionProofs!VersionOf, Question!MessagesOf,
       QuestionProofs!MessagesOf, Question!Appended, QuestionProofs!Appended,
       Question!AnswerMessage, QuestionProofs!AnswerMessage, Question!End, QuestionProofs!End,
       Question!Idle, QuestionProofs!Idle

LEMMA SameLoseAnswer ==
  ASSUME NEW t
  PROVE  Question!LoseAnswer(t) <=> QuestionProofs!LoseAnswer(t)
BY SameThreadFree DEF Question!LoseAnswer, QuestionProofs!LoseAnswer, Question!VersionOf,
       QuestionProofs!VersionOf, Question!Lost, QuestionProofs!Lost, Question!Idle,
       QuestionProofs!Idle

LEMMA SameLockBook ==
  ASSUME NEW t
  PROVE  Question!LockBook(t) <=> QuestionProofs!LockBook(t)
BY SameThreadFree, SameBookFree, SameCount DEF Question!LockBook, QuestionProofs!LockBook,
       Question!Wins, QuestionProofs!Wins, Question!VersionOf, QuestionProofs!VersionOf,
       Question!MessagesOf, QuestionProofs!MessagesOf, Question!Locked, QuestionProofs!Locked,
       Question!ReadPending, QuestionProofs!ReadPending, Question!Pending,
       QuestionProofs!Pending, Question!End, QuestionProofs!End, Question!Idle,
       QuestionProofs!Idle

LEMMA SameSaveProposal ==
  ASSUME NEW t
  PROVE  Question!SaveProposal(t) <=> QuestionProofs!SaveProposal(t)
BY DEF Question!SaveProposal, QuestionProofs!SaveProposal, Question!Dropped,
       QuestionProofs!Dropped, Question!Appended, QuestionProofs!Appended,
       Question!AnswerMessage, QuestionProofs!AnswerMessage, Question!VersionOf,
       QuestionProofs!VersionOf, Question!End, QuestionProofs!End, Question!Idle,
       QuestionProofs!Idle

LEMMA SameFeedbackProposal ==
  ASSUME NEW p
  PROVE  Question!FeedbackProposal(p) <=> QuestionProofs!FeedbackProposal(p)
BY DEF Question!FeedbackProposal, QuestionProofs!FeedbackProposal

LEMMA SameRejectProposal ==
  ASSUME NEW p
  PROVE  Question!RejectProposal(p) <=> QuestionProofs!RejectProposal(p)
BY DEF Question!RejectProposal, QuestionProofs!RejectProposal, Question!Dropped,
       QuestionProofs!Dropped

LEMMA SameConfirmProposal ==
  ASSUME NEW p
  PROVE  Question!ConfirmProposal(p) <=> QuestionProofs!ConfirmProposal(p)
BY SameBookFree DEF Question!ConfirmProposal, QuestionProofs!ConfirmProposal

LEMMA SameNext == Question!Next <=> QuestionProofs!Next
BY SameAsk, SameReadForQuestion, SameCommitQuestion, SameFindQaAnswer, SameRunTurn, SameAbandon,
   SameReadForAnswer, SameSaveAnswer, SameLoseAnswer, SameLockBook, SameSaveProposal,
   SameFeedbackProposal, SameRejectProposal, SameConfirmProposal DEF Question!Next,
   QuestionProofs!Next

LEMMA SameInit == Question!Init <=> QuestionProofs!Init
BY DEF Question!Init, QuestionProofs!Init, Question!Idle, QuestionProofs!Idle

LEMMA SameVars == QuestionProofs!vars = question
BY DEF QuestionProofs!vars, question

LEMMA SameThreads == Question!ThreadIsConsistent <=> QuestionProofs!ThreadIsConsistent
BY DEF Question!ThreadIsConsistent, QuestionProofs!ThreadIsConsistent

LEMMA SameVersions == Question!VersionsBuildOnEachOther <=> QuestionProofs!VersionsBuildOnEachOther
BY SameCount DEF Question!VersionsBuildOnEachOther, QuestionProofs!VersionsBuildOnEachOther

LEMMA SameDecided == Question!DecidedStays <=> QuestionProofs!DecidedStays
BY DEF Question!DecidedStays, QuestionProofs!DecidedStays

\* The focus stays where it is.
LEMMA QuestionFocus == Spec => []On("question") \/ []~On("question")
<1>1. On("question") /\ [Next]_vars => On("question")'
  BY DEF Next, vars, On
<1>2. ~On("question") /\ [Next]_vars => ~On("question")'
  BY DEF Next, vars, On
<1>3. QED
  BY <1>1, <1>2, PTL DEF Spec

\* A behaviour whose focus are the questions is one of StrategyProposals.
LEMMA QuestionSpec == Spec /\ []On("question") => QuestionProofs!Spec
<1>1. Init /\ On("question") => QuestionProofs!Init
  BY SameInit DEF Init, On
<1>2. On("question") /\ [Next]_vars => [QuestionProofs!Next]_(QuestionProofs!vars)
  <2>1. ASSUME On("question"), Next PROVE QuestionProofs!Next
    BY <2>1, SameNext DEF Next, On
  <2>2. ASSUME UNCHANGED vars PROVE UNCHANGED QuestionProofs!vars
    BY <2>2, SameVars DEF vars, question, QuestionProofs!vars
  <2>3. QED
    BY <2>1, <2>2
<1>3. QED
  BY <1>1, <1>2, PTL DEF Spec, QuestionProofs!Spec

\* However many requests, retries and turns write to a thread, its messages are numbered without
\* gap and its questions are asked and answered once; and no confirmed change of the strategy is
\* lost.
THEOREM QuestionsStayConsistent == Spec => []QuestionsAreConsistent
<1>1. QuestionProofs!Spec => []QuestionProofs!ThreadIsConsistent
  BY FormalAssumption, ProposalsAssumption, ActivityAssumption, PositionAssumption, PageAssumption,
     QuestionProofs!ThreadsStayConsistent
<1>2. QuestionProofs!Spec => []QuestionProofs!VersionsBuildOnEachOther
  BY FormalAssumption, ProposalsAssumption, ActivityAssumption, PositionAssumption, PageAssumption,
     QuestionProofs!NoChangeIsLost
<1>3. QuestionProofs!ThreadIsConsistent /\ QuestionProofs!VersionsBuildOnEachOther =>
        QuestionsAreConsistent
  BY SameThreads, SameVersions DEF QuestionsAreConsistent
<1>4. ~On("question") => QuestionsAreConsistent
  BY DEF QuestionsAreConsistent
<1>5. QED
  BY <1>1, <1>2, <1>3, <1>4, QuestionFocus, QuestionSpec, PTL

\* A proposal that was confirmed or rejected is never pending again, and a confirmed one is
\* not changed by an answer that is still on its way (of a rejected one nothing more is said).
THEOREM DecisionsAreFinal == Spec => DecisionsStand
<1>1. QuestionProofs!Spec => QuestionProofs!DecisionsStand
  BY FormalAssumption, ProposalsAssumption, ActivityAssumption, PositionAssumption, PageAssumption,
     QuestionProofs!NoDecisionIsReopened
<1>2. [QuestionProofs!DecidedStays]_(QuestionProofs!vars) =>
        [On("question") => Question!DecidedStays]_question
  <2>1. QuestionProofs!DecidedStays => Question!DecidedStays
    BY SameDecided
  <2>2. UNCHANGED QuestionProofs!vars => UNCHANGED question
    BY DEF QuestionProofs!vars, question
  <2>3. QED
    BY <2>1, <2>2
<1>3. ~On("question") => [On("question") => Question!DecidedStays]_question
  OBVIOUS
<1>4. QED
  BY <1>1, <1>2, <1>3, QuestionFocus, QuestionSpec, PTL
     DEF DecisionsStand, QuestionProofs!DecisionsStand

(***************************************************************************)
(* AskAiPanel: the turns of a stored thread                                *)
(***************************************************************************)

\* A set of numbers up to n that holds 0, and each number with the one before it, holds all of
\* them: the least that is missing would be neither 0 nor a successor.
LEMMA UpToAll ==
  ASSUME NEW n \in Nat, NEW S, 0 \in S, \A k \in 1..n : k - 1 \in S => k \in S
  PROVE  0..n \subseteq S
<1> DEFINE T == {k \in 0..n : k \notin S}
<1>1. CASE T = {}
  BY <1>1
<1>2. ASSUME T # {} PROVE FALSE
  <2>1. T \in SUBSET Nat
    OBVIOUS
  <2>2. PICK k \in T : \A l \in T : k <= l
    BY <1>2, <2>1, LeastNumber
  <2>3. k # 0 /\ k \in 1..n /\ k - 1 \in 0..n
    OBVIOUS
  <2>4. k - 1 \notin T
    BY <2>2, <2>3
  <2>5. k - 1 \in S
    BY <2>3, <2>4
  <2>6. QED
    BY <2>3, <2>5
<1>3. QED
  BY <1>1, <1>2

\* The turns after the first n messages of a thread, each placed among those before it.
Placing(f, list, n) ==
  f = [k \in 0..n |-> IF k = 0 THEN <<>> ELSE Panel!Placed(f[k - 1], list[k])]

LEMMA PlacingExists ==
  ASSUME NEW list, NEW n \in Nat
  PROVE  \E f : Placing(f, list, n)
<1> DEFINE S == {k \in 0..n : \E f : Placing(f, list, k)}
<1>1. 0 \in S
  <2>1. Placing([k \in 0..0 |-> <<>>], list, 0)
    BY DEF Placing
  <2>2. QED
    BY <2>1
<1>2. ASSUME NEW k \in 1..n, k - 1 \in S PROVE k \in S
  <2>1. PICK f : Placing(f, list, k - 1)
    BY <1>2
  <2> DEFINE g == [l \in 0..k |-> IF l = k THEN Panel!Placed(f[k - 1], list[k]) ELSE f[l]]
  <2>2. ASSUME NEW l \in 0..k
        PROVE  g[l] = IF l = 0 THEN <<>> ELSE Panel!Placed(g[l - 1], list[l])
    <3>1. CASE l = k
      <4>1. g[k] = Panel!Placed(f[k - 1], list[k])
        OBVIOUS
      <4>2. k - 1 \in 0..k /\ k - 1 # k /\ k # 0
        OBVIOUS
      <4>3. g[k - 1] = f[k - 1]
        BY <4>2
      <4>4. QED
        BY <3>1, <4>1, <4>2, <4>3
    <3>2. CASE l # k
      <4>1. l \in 0..k - 1
        BY <3>2
      <4>2. g[l] = f[l]
        BY <3>2
      <4>3. f[l] = IF l = 0 THEN <<>> ELSE Panel!Placed(f[l - 1], list[l])
        BY <2>1, <4>1, Zenon DEF Placing
      <4>4. l # 0 => l - 1 \in 0..k /\ l - 1 # k
        BY <4>1
      <4>5. l # 0 => g[l - 1] = f[l - 1]
        BY <4>4
      <4>6. QED
        BY <4>2, <4>3, <4>5
    <3>3. QED
      BY <3>1, <3>2
  <2>3. g = [l \in 0..k |-> IF l = 0 THEN <<>> ELSE Panel!Placed(g[l - 1], list[l])]
    <3> HIDE DEF g
    <3>1. g = [l \in 0..k |-> g[l]]
      BY DEF g
    <3>2. QED
      BY <2>2, <3>1, Zenon
  <2>4. Placing(g, list, k)
    BY <2>3, Zenon DEF Placing
  <2>5. k \in 0..n
    OBVIOUS
  <2>6. QED
    BY <2>4, <2>5
<1>3. 0..n \subseteq S
  <2> HIDE DEF S
  <2>1. QED
    BY <1>1, <1>2, UpToAll
<1>4. n \in 0..n
  OBVIOUS
<1>5. QED
  BY <1>3, <1>4

LEMMA TurnsAre ==
  ASSUME NEW list, Len(list) \in Nat
  PROVE  \E f : Placing(f, list, Len(list)) /\ Panel!TurnsFrom(list) = f[Len(list)]
<1> DEFINE f == CHOOSE f : f = [k \in 0..Len(list) |->
                                  IF k = 0 THEN <<>> ELSE Panel!Placed(f[k - 1], list[k])]
<1>1. \E g : g = [k \in 0..Len(list) |->
                    IF k = 0 THEN <<>> ELSE Panel!Placed(g[k - 1], list[k])]
  BY PlacingExists DEF Placing
<1>2. f = [k \in 0..Len(list) |-> IF k = 0 THEN <<>> ELSE Panel!Placed(f[k - 1], list[k])]
  BY <1>1, Zenon
<1>3. Panel!TurnsFrom(list) = f[Len(list)]
  BY Zenon DEF Panel!TurnsFrom
<1> HIDE DEF f
<1>4. QED
  BY <1>2, <1>3, Zenon DEF Placing

\* The parts of the turns after n messages, one by one.
LEMMA PlacingSteps ==
  ASSUME NEW list, NEW n \in Nat, NEW f, Placing(f, list, n)
  PROVE  /\ f[0] = <<>>
         /\ \A k \in 1..n : f[k] = Panel!Placed(f[k - 1], list[k])
<1>1. \A k \in 0..n : f[k] = IF k = 0 THEN <<>> ELSE Panel!Placed(f[k - 1], list[k])
  BY Zenon DEF Placing
<1>2. 0 \in 0..n /\ \A k \in 1..n : k \in 0..n /\ k # 0
  OBVIOUS
<1>3. QED
  BY <1>1, <1>2, Zenon

\* The answers of the first n messages of a thread.
AnswersOf(list, n) == {q \in Panel!Asked : \E i \in 1..n : list[i] = Panel!Answers(q)}

\* A turn of the history is not under way, and its answer, if it has one, is of the thread.
OfHistory(turnShown, answered) ==
  /\ turnShown \in Panel!Turn /\ ~turnShown.retry /\ ~turnShown.streaming
  /\ turnShown.saved => turnShown.answer \in answered

LEMMA AnswerWritten ==
  ASSUME NEW list \in Seq(Panel!Turn), NEW m, NEW q \in Panel!Asked
  PROVE  LET written == [list EXCEPT ![m].answer = q, ![m].saved = TRUE]
         IN  written \in Seq(Panel!Turn) /\ DOMAIN written = DOMAIN list
<1> DEFINE written == [list EXCEPT ![m].answer = q, ![m].saved = TRUE]
<1>1. DOMAIN written = DOMAIN list /\ DOMAIN list = 1..Len(list) /\ Len(list) \in Nat
  OBVIOUS
<1>2. ASSUME NEW i \in DOMAIN list PROVE written[i] \in Panel!Turn
  <2>1. list[i] \in Panel!Turn
    OBVIOUS
  <2>2. CASE i # m
    BY <2>1, <2>2
  <2>3. CASE i = m
    <3>1. written[i] = [list[i] EXCEPT !.answer = q, !.saved = TRUE]
      BY <2>3
    <3>2. QED
      BY <2>1, <3>1 DEF Panel!Turn
  <2>4. QED
    BY <2>2, <2>3
<1>3. written = [i \in DOMAIN list |-> written[i]]
  OBVIOUS
<1> HIDE DEF written
<1>4. \A i \in 1..Len(list) : written[i] \in Panel!Turn
  BY <1>1, <1>2, Zenon
<1>5. written \in [1..Len(list) -> Panel!Turn]
  BY <1>1, <1>3, <1>4, Zenon
<1>6. written \in Seq(Panel!Turn)
  BY <1>1, <1>5
<1>7. QED
  BY <1>1, <1>6 DEF written

LEMMA PlacedIs ==
  ASSUME NEW list \in Seq(Panel!Turn), NEW message \in Panel!Message,
         NEW answered, NEW more, answered \subseteq more,
         message.kind = "answer" => message.question \in more,
         \A i \in DOMAIN list : OfHistory(list[i], answered)
  PROVE  /\ Panel!Placed(list, message) \in Seq(Panel!Turn)
         /\ \A i \in DOMAIN Panel!Placed(list, message) :
              OfHistory(Panel!Placed(list, message)[i], more)
<1>1. message.kind \in {"question", "answer"} /\ message.question \in Panel!Asked
  BY DEF Panel!Message
<1>2. CASE message.kind = "question"
  <2>1. Panel!Placed(list, message) = Append(list, Panel!Stored(message.question))
    BY <1>2 DEF Panel!Placed
  <2>2. OfHistory(Panel!Stored(message.question), more)
    BY <1>1 DEF Panel!Stored, OfHistory, Panel!Turn
  <2>3. Panel!Stored(message.question) \in Panel!Turn
    BY <2>2 DEF OfHistory
  <2>4. \A i \in DOMAIN list : OfHistory(list[i], more)
    BY DEF OfHistory
  <2> DEFINE st == Panel!Stored(message.question)
  <2> HIDE DEF st
  <2>5. /\ Append(list, st) \in Seq(Panel!Turn)
        /\ \A i \in DOMAIN Append(list, st) : OfHistory(Append(list, st)[i], more)
    <3>1. st \in Panel!Turn /\ OfHistory(st, more)
      BY <2>2, <2>3 DEF st
    <3>2. QED
      BY <2>4, <3>1
  <2>6. QED
    BY <2>1, <2>5 DEF st
<1>3. CASE message.kind = "answer"
  <2> DEFINE m == Panel!Max(Panel!Open(list))
             answeredList == [list EXCEPT ![m].answer = message.question, ![m].saved = TRUE]
  <2>1. Panel!Placed(list, message) = answeredList
    BY <1>3 DEF Panel!Placed
  <2> HIDE DEF m
  <2>2. answeredList \in Seq(Panel!Turn) /\ DOMAIN answeredList = DOMAIN list
    BY <1>1, AnswerWritten
  <2>3. ASSUME NEW i \in DOMAIN list PROVE OfHistory(answeredList[i], more)
    <3>1. OfHistory(list[i], answered)
      OBVIOUS
    <3>2. CASE i # m
      BY <3>1, <3>2 DEF OfHistory
    <3>3. CASE i = m
      <4>1. answeredList[i] = [list[i] EXCEPT !.answer = message.question, !.saved = TRUE]
        BY <3>3
      <4>2. list[i] \in Panel!Turn
        OBVIOUS
      <4>3. QED
        BY <1>1, <1>3, <3>1, <4>1, <4>2 DEF OfHistory, Panel!Turn
    <3>4. QED
      BY <3>2, <3>3
  <2>4. QED
    BY <2>1, <2>2, <2>3
<1>4. QED
  BY <1>1, <1>2, <1>3

LEMMA RestoredTurns ==
  ASSUME NEW list \in Seq(Panel!Message)
  PROVE  /\ Panel!TurnsFrom(list) \in Seq(Panel!Turn)
         /\ \A i \in DOMAIN Panel!TurnsFrom(list) :
              OfHistory(Panel!TurnsFrom(list)[i], AnswersOf(list, Len(list)))
<1> DEFINE n == Len(list)
<1>1. n \in Nat
  OBVIOUS
<1>2. PICK f : Placing(f, list, n) /\ Panel!TurnsFrom(list) = f[n]
  BY <1>1, TurnsAre
<1> DEFINE S == {k \in 0..n : /\ f[k] \in Seq(Panel!Turn)
                              /\ \A i \in DOMAIN f[k] : OfHistory(f[k][i], AnswersOf(list, k))}
<1>3. f[0] = <<>> /\ \A k \in 1..n : f[k] = Panel!Placed(f[k - 1], list[k])
  BY <1>1, <1>2, PlacingSteps
<1>4. 0 \in S
  <2>1. <<>> \in Seq(Panel!Turn) /\ DOMAIN (<<>>) = {} /\ 0 \in 0..n
    OBVIOUS
  <2>2. f[0] \in Seq(Panel!Turn) /\ \A i \in DOMAIN f[0] : OfHistory(f[0][i], AnswersOf(list, 0))
    BY <1>3, <2>1
  <2>3. QED
    BY <2>1, <2>2
<1>5. ASSUME NEW k \in 1..n, k - 1 \in S PROVE k \in S
  <2>1. list[k] \in Panel!Message
    OBVIOUS
  <2>2. AnswersOf(list, k - 1) \subseteq AnswersOf(list, k)
    BY DEF AnswersOf
  <2>3. list[k].kind = "answer" => list[k].question \in AnswersOf(list, k)
    <3>1. SUFFICES ASSUME list[k].kind = "answer" PROVE list[k].question \in AnswersOf(list, k)
      OBVIOUS
    <3>2. list[k] = Panel!Answers(list[k].question) /\ list[k].question \in Panel!Asked
      BY <2>1, <3>1 DEF Panel!Message, Panel!Answers
    <3>3. k \in 1..k
      OBVIOUS
    <3>4. QED
      BY <3>2, <3>3 DEF AnswersOf
  <2>4. f[k - 1] \in Seq(Panel!Turn) /\ \A i \in DOMAIN f[k - 1] : OfHistory(f[k - 1][i], AnswersOf(list, k - 1))
    BY <1>5
  <2>5. f[k] = Panel!Placed(f[k - 1], list[k])
    BY <1>3
  <2>6. k \in 0..n
    OBVIOUS
  <2>7. QED
    BY <2>1, <2>2, <2>3, <2>4, <2>5, <2>6, PlacedIs
<1>6. 0..n \subseteq S
  <2> HIDE DEF S
  <2>1. QED
    BY <1>1, <1>4, <1>5, UpToAll
<1>7. n \in S
  BY <1>1, <1>6
<1>8. QED
  BY <1>2, <1>7

(***************************************************************************)
(* AskAiPanel: one conversation                                            *)
(***************************************************************************)

Holds(list, message) == \E i \in DOMAIN list : list[i] = message

\* A thread asks and answers each question once, and first asks it.
Whole(list) ==
  /\ \A i, j \in DOMAIN list : list[i] = list[j] => i = j
  /\ \A i \in DOMAIN list :
       list[i].kind = "answer" => \E j \in 1..i - 1 : list[j] = Panel!Asks(list[i].question)

Feeding == action # None /\ action.kind = "feedback"

\* The turn the stream writes to is the one of its question, and the thread on show is the one the
\* question goes to.
StreamFits ==
  stream # None =>
    /\ restores = {}
    /\ stream.index \in DOMAIN turns
    /\ turns[stream.index].question = stream.question
    /\ turns[stream.index].retry /\ ~turns[stream.index].saved
    /\ shown # None => stream.thread = shown
    /\ stream.stage = "heard" => stream.thread = shown

\* Feedback under way comes back to the turns it left.
FeedbackFits == Feeding => restores = {} /\ stream = None /\ action.index = Len(turns) + 1

TurnFits(i) ==
  /\ turns[i].retry => turns[i].answer \in {None, turns[i].question}
  /\ turns[i].saved => shown # None /\ Holds(kept[shown], Panel!Answers(turns[i].answer))
  /\ turns[i].streaming => stream # None /\ stream.index = i /\ stream.question = turns[i].question

Settled == StreamFits /\ FeedbackFits /\ \A i \in DOMAIN turns : TurnFits(i)

PanelInv ==
  /\ Panel!TypeOK
  /\ \A t \in Talks : Whole(kept[t])
  /\ Feeding => asked < MaxAsked
  /\ stream # None /\ stream.stage # "sent" => stream.thread # None
  /\ ~crossed => Settled

LEMMA PanelBounds ==
  /\ MaxAsked \in Nat /\ None \notin Talks /\ None \notin Nat /\ None \notin Panel!Stream
  /\ Panel!Asked \subseteq Nat /\ None \notin Panel!Asked
BY PageAssumption DEF Panel!Stream, Panel!Asked

LEMMA EachThread == ASSUME NEW S, NEW e \in S PROVE [t \in Talks |-> e] \in [Talks -> S]
OBVIOUS

LEMMA PanelInvInit == Panel!Init => PanelInv
<1> SUFFICES ASSUME Panel!Init PROVE PanelInv
  OBVIOUS
<1>1. <<>> \in Seq(Panel!Message) /\ <<>> \in Seq(Panel!Turn) /\ DOMAIN (<<>>) = {}
  OBVIOUS
<1>2. Panel!TypeOK
  <2>1. kept \in [Talks -> Seq(Panel!Message)] /\ turns \in Seq(Panel!Turn)
    <3>1. [t \in Talks |-> <<>>] \in [Talks -> Seq(Panel!Message)]
      BY <1>1, EachThread, Zenon
    <3>2. QED
      BY <1>1, <3>1 DEF Panel!Init
  <2>2. asked \in 0..MaxAsked /\ crossed \in BOOLEAN /\ restores \subseteq Talks
    <3>1. 0 \in 0..MaxAsked
      BY PanelBounds
    <3>2. asked = 0 /\ crossed = FALSE /\ restores = {}
      BY DEF Panel!Init
    <3>3. QED
      BY <3>1, <3>2
  <2>3. QED
    BY <2>1, <2>2 DEF Panel!Init, Panel!TypeOK
<1>3. \A t \in Talks : Whole(kept[t])
  BY <1>1 DEF Panel!Init, Whole
<1>4. QED
  BY <1>1, <1>2, <1>3 DEF Panel!Init, PanelInv, Feeding, Settled, StreamFits, FeedbackFits

LEMMA PanelMeans ==
  ASSUME PanelInv PROVE Panel!ThreadIsOne
<1>1. CASE crossed
  BY <1>1 DEF Panel!ThreadIsOne
<1>2. ASSUME ~crossed, NEW i \in DOMAIN turns
      PROVE  /\ turns[i].retry => turns[i].answer \in {None, turns[i].question}
             /\ turns[i].saved => shown # None /\ Panel!Has(shown, Panel!Answers(turns[i].answer))
             /\ turns[i].streaming => /\ stream # None
                                      /\ stream.index = i /\ stream.question = turns[i].question
  BY <1>2 DEF PanelInv, Settled, TurnFits, Holds, Panel!Has
<1>3. QED
  BY <1>1, <1>2 DEF Panel!ThreadIsOne

(***************************************************************************)
(* The threads of the server                                               *)
(***************************************************************************)

\* A message that is not in a thread is added to it, an answer to a question that is there.
LEMMA MessageAdded ==
  ASSUME NEW list \in Seq(Panel!Message), Whole(list), NEW m \in Panel!Message, ~Holds(list, m),
         m.kind = "answer" => Holds(list, Panel!Asks(m.question))
  PROVE  /\ Append(list, m) \in Seq(Panel!Message) /\ Whole(Append(list, m))
         /\ \A x : Holds(list, x) => Holds(Append(list, m), x)
<1> DEFINE longer == Append(list, m)
<1>1. /\ Len(list) \in Nat /\ DOMAIN list = 1..Len(list) /\ DOMAIN longer = 1..Len(list) + 1
      /\ \A i \in 1..Len(list) : longer[i] = list[i] /\ i \in DOMAIN longer
      /\ longer[Len(list) + 1] = m /\ longer \in Seq(Panel!Message)
  OBVIOUS
<1>2. ASSUME NEW i \in DOMAIN longer PROVE i \in DOMAIN list \/ i = Len(list) + 1
  BY <1>1
<1> HIDE DEF longer
<1>3. ASSUME NEW i \in DOMAIN longer, NEW j \in DOMAIN longer, longer[i] = longer[j] PROVE i = j
  BY <1>1, <1>2, <1>3 DEF Whole, Holds
<1>4. ASSUME NEW i \in DOMAIN longer, longer[i].kind = "answer"
      PROVE  \E j \in 1..i - 1 : longer[j] = Panel!Asks(longer[i].question)
  <2>1. CASE i \in DOMAIN list
    <3>1. PICK j \in 1..i - 1 : list[j] = Panel!Asks(list[i].question)
      BY <1>1, <1>4, <2>1 DEF Whole
    <3>2. j \in 1..Len(list)
      BY <1>1, <2>1, <3>1
    <3>3. QED
      BY <1>1, <2>1, <3>1, <3>2
  <2>2. CASE i = Len(list) + 1
    <3>1. PICK j \in DOMAIN list : list[j] = Panel!Asks(m.question)
      BY <1>1, <1>4, <2>2 DEF Holds
    <3>2. j \in 1..i - 1
      BY <1>1, <2>2, <3>1
    <3>3. QED
      BY <1>1, <2>2, <3>1, <3>2
  <2>3. QED
    BY <1>2, <2>1, <2>2
<1>5. Whole(longer)
  BY <1>3, <1>4 DEF Whole
<1>6. \A x : Holds(list, x) => Holds(longer, x)
  BY <1>1 DEF Holds
<1>7. QED
  BY <1>1, <1>5, <1>6 DEF longer

\* Threads only grow.
Grown ==
  /\ kept' \in [Talks -> Seq(Panel!Message)] /\ \A t \in Talks : Whole(kept'[t])
  /\ \A t \in Talks : \A x : Holds(kept[t], x) => Holds(kept'[t], x)

LEMMA KeptGrows ==
  ASSUME PanelInv, NEW t \in Talks, NEW m \in Panel!Message, ~Panel!Has(t, m),
         m.kind = "answer" => Panel!Has(t, Panel!Asks(m.question)),
         kept' = [kept EXCEPT ![t] = Append(@, m)]
  PROVE  Grown
<1>1. kept \in [Talks -> Seq(Panel!Message)] /\ \A s \in Talks : Whole(kept[s])
  BY DEF PanelInv, Panel!TypeOK
<1>2. /\ Append(kept[t], m) \in Seq(Panel!Message) /\ Whole(Append(kept[t], m))
      /\ \A x : Holds(kept[t], x) => Holds(Append(kept[t], m), x)
  <2>1. kept[t] \in Seq(Panel!Message) /\ Whole(kept[t]) /\ ~Holds(kept[t], m)
    BY <1>1 DEF Panel!Has, Holds
  <2>2. m.kind = "answer" => Holds(kept[t], Panel!Asks(m.question))
    BY DEF Panel!Has, Holds
  <2>3. QED
    BY <2>1, <2>2, MessageAdded
<1>3. kept' \in [Talks -> Seq(Panel!Message)]
  BY <1>1, <1>2
<1>4. ASSUME NEW s \in Talks
      PROVE Whole(kept'[s]) /\ \A x : Holds(kept[s], x) => Holds(kept'[s], x)
  <2>1. CASE s = t
    BY <1>1, <1>2, <2>1
  <2>2. CASE s # t
    <3>1. kept'[s] = kept[s]
      BY <1>1, <2>2
    <3>2. QED
      BY <1>1, <3>1
  <2>3. QED
    BY <2>1, <2>2
<1>5. QED
  BY <1>3, <1>4 DEF Grown

LEMMA KeptRests == ASSUME PanelInv, UNCHANGED kept PROVE Grown
BY DEF PanelInv, Panel!TypeOK, Grown

LEMMA QuestionKept ==
  ASSUME PanelInv, NEW t \in Talks, NEW q \in Panel!Asked, kept' = Panel!With(t, q)
  PROVE  Grown
<1>1. kept \in [Talks -> Seq(Panel!Message)]
  BY DEF PanelInv, Panel!TypeOK
<1>2. CASE Panel!Has(t, Panel!Asks(q))
  <2>1. kept' = kept
    BY <1>1, <1>2 DEF Panel!With
  <2>2. QED
    BY <2>1, KeptRests
<1>3. CASE ~Panel!Has(t, Panel!Asks(q))
  <2>1. kept' = [kept EXCEPT ![t] = Append(@, Panel!Asks(q))]
    BY <1>1, <1>3 DEF Panel!With
  <2>2. Panel!Asks(q) \in Panel!Message /\ Panel!Asks(q).kind # "answer"
    BY DEF Panel!Asks, Panel!Message
  <2>3. QED
    BY <1>3, <2>1, <2>2, KeptGrows
<1>4. QED
  BY <1>2, <1>3

LEMMA AnswerKept ==
  ASSUME PanelInv, NEW t \in Talks, NEW q \in Panel!Asked, Panel!Save(t, q)
  PROVE  Grown
<1>1. Panel!Answers(q) \in Panel!Message /\ Panel!Answers(q).question = q
  BY DEF Panel!Answers, Panel!Message
<1>2. QED
  BY <1>1, KeptGrows DEF Panel!Save

(***************************************************************************)
(* The steps                                                               *)
(***************************************************************************)

LEMMA PanelTypes ==
  ASSUME PanelInv
  PROVE  /\ kept \in [Talks -> Seq(Panel!Message)] /\ turns \in Seq(Panel!Turn)
         /\ Len(turns) \in Nat /\ DOMAIN turns = 1..Len(turns)
         /\ \A i \in DOMAIN turns : turns[i] \in Panel!Turn
         /\ shown \in Talks \cup {None} /\ restores \subseteq Talks
         /\ stream # None => stream \in Panel!Stream
         /\ action # None => action \in Panel!Action
         /\ asked \in 0..MaxAsked /\ asked \in Nat /\ crossed \in BOOLEAN
BY PanelBounds DEF PanelInv, Panel!TypeOK

\* A question that is asked gets the turn behind the others.
LEMMA EnqueueKeeps ==
  ASSUME PanelInv, asked < MaxAsked, stream = None, Panel!Enqueue(Len(turns) + 1), UNCHANGED <<kept, shown>>
  PROVE  /\ turns' \in Seq(Panel!Turn) /\ asked' \in 0..MaxAsked /\ stream' \in Panel!Stream
         /\ stream'.stage = "sent"
         /\ restores' = {} => StreamFits'
         /\ (\A i \in DOMAIN turns : TurnFits(i)) => (\A i \in DOMAIN turns' : TurnFits(i)')
<1> DEFINE new == Panel!New(asked + 1)
<1>1. asked + 1 \in Panel!Asked
  BY PanelTypes, PanelBounds DEF Panel!Asked
<1>2. /\ new \in Panel!Turn /\ new.question = asked + 1 /\ new.retry /\ ~new.saved /\ new.answer = None
  BY <1>1 DEF Panel!New, Panel!Turn
<1>3. /\ turns' = Append(turns, new) /\ asked' = asked + 1
      /\ stream' = [index |-> Len(turns) + 1, question |-> asked + 1, thread |-> shown, stage |-> "sent"]
  BY DEF Panel!Enqueue, Panel!RunTurn
<1> HIDE DEF new
<1>4. /\ turns' \in Seq(Panel!Turn) /\ DOMAIN turns' = 1..Len(turns) + 1
      /\ \A i \in DOMAIN turns : turns'[i] = turns[i]
      /\ turns'[Len(turns) + 1] = new
      /\ Len(turns) + 1 \in DOMAIN turns'
      /\ \A i \in DOMAIN turns' : i \in DOMAIN turns \/ i = Len(turns) + 1
  BY <1>2, <1>3, PanelTypes
<1>5. stream' \in Panel!Stream
  BY <1>1, <1>3, PanelTypes DEF Panel!Stream
<1>6. stream' # None
  BY <1>5, PanelBounds
<1>7. restores' = {} => StreamFits'
  BY <1>2, <1>3, <1>4 DEF StreamFits
<1>8. ASSUME \A i \in DOMAIN turns : TurnFits(i), NEW i \in DOMAIN turns'
      PROVE  TurnFits(i)'
  <2>1. CASE i \in DOMAIN turns
    <3>1. turns'[i] = turns[i] /\ TurnFits(i) /\ ~turns[i].streaming
      BY <1>4, <1>8, <2>1 DEF TurnFits
    <3>2. QED
      BY <3>1 DEF TurnFits
  <2>2. CASE i = Len(turns) + 1
    BY <1>2, <1>3, <1>4, <1>6, <2>2 DEF TurnFits
  <2>3. QED
    BY <1>4, <2>1, <2>2
<1>9. asked' \in 0..MaxAsked
  BY <1>3, PanelTypes, PanelBounds
<1>10. QED
  BY <1>3, <1>4, <1>5, <1>7, <1>8, <1>9

LEMMA SubmitStep == ASSUME PanelInv, Panel!Submit PROVE PanelInv'
<1>1. /\ stream = None /\ action = None /\ asked < MaxAsked
      /\ Panel!Enqueue(Len(turns) + 1)
      /\ crossed' = (crossed \/ restores # {}) /\ UNCHANGED <<kept, shown, proposal, restores, action>>
  BY DEF Panel!Submit, Panel!Free
<1>2. /\ turns' \in Seq(Panel!Turn) /\ asked' \in 0..MaxAsked /\ stream' \in Panel!Stream
      /\ stream'.stage = "sent"
      /\ restores' = {} => StreamFits'
      /\ (\A i \in DOMAIN turns : TurnFits(i)) => (\A i \in DOMAIN turns' : TurnFits(i)')
  BY <1>1, EnqueueKeeps
<1>3. Panel!TypeOK'
  BY <1>1, <1>2 DEF PanelInv, Panel!TypeOK
<1>4. ~crossed' => Settled'
  BY <1>1, <1>2 DEF PanelInv, Settled, FeedbackFits, Feeding
<1>5. QED
  BY <1>1, <1>2, <1>3, <1>4 DEF PanelInv, Feeding

LEMMA SubmitFeedbackStep == ASSUME PanelInv, Panel!SubmitFeedback PROVE PanelInv'
<1>1. /\ stream = None /\ action = None /\ asked < MaxAsked
      /\ action' = [kind |-> "feedback", index |-> Len(turns) + 1]
      /\ crossed' = (crossed \/ restores # {})
      /\ UNCHANGED <<kept, turns, shown, proposal, stream, restores, asked>>
  BY DEF Panel!SubmitFeedback, Panel!Free
<1>2. action' \in Panel!Action
  BY <1>1, PanelTypes DEF Panel!Action
<1>3. Panel!TypeOK'
  BY <1>1, <1>2 DEF PanelInv, Panel!TypeOK
<1>4. ASSUME ~crossed' PROVE Settled'
  <2>1. Settled /\ restores = {}
    BY <1>1, <1>4 DEF PanelInv
  <2>2. FeedbackFits'
    BY <1>1, <2>1 DEF FeedbackFits
  <2>3. StreamFits'
    BY <1>1 DEF StreamFits
  <2>4. \A i \in DOMAIN turns' : TurnFits(i)'
    BY <1>1, <2>1 DEF Settled, TurnFits
  <2>5. QED
    BY <2>2, <2>3, <2>4 DEF Settled
<1>5. QED
  BY <1>1, <1>3, <1>4 DEF PanelInv, Feeding

LEMMA FeedbackAnsweredStep == ASSUME PanelInv, Panel!FeedbackAnswered PROVE PanelInv'
<1>1. /\ action # None /\ action.kind = "feedback" /\ Feeding /\ asked < MaxAsked
      /\ action' = None /\ UNCHANGED <<kept, shown, proposal, restores, crossed>>
      /\ Panel!Enqueue(action.index) \/ UNCHANGED <<asked, turns, stream>>
  BY DEF Panel!FeedbackAnswered, PanelInv, Feeding
<1>2. CASE UNCHANGED <<asked, turns, stream>>
  <2>1. Panel!TypeOK'
    BY <1>1, <1>2 DEF PanelInv, Panel!TypeOK
  <2>2. ~crossed' => Settled'
    BY <1>1, <1>2 DEF PanelInv, Settled, FeedbackFits, Feeding, StreamFits, TurnFits
  <2>3. QED
    BY <1>1, <1>2, <2>1, <2>2 DEF PanelInv, Feeding
<1>3. CASE Panel!Enqueue(action.index)
  <2>1. action.index \in Nat \ {0}
    BY <1>1, PanelTypes DEF Panel!Action
  <2>8. asked + 1 \in Panel!Asked
    BY <1>1, PanelTypes, PanelBounds DEF Panel!Asked
  <2>2. Panel!New(asked + 1) \in Panel!Turn
    BY <2>8 DEF Panel!New, Panel!Turn
  <2>3. turns' \in Seq(Panel!Turn) /\ asked' \in 0..MaxAsked
    <3>1. turns' = Append(turns, Panel!New(asked + 1)) /\ asked' = asked + 1
      BY <1>3 DEF Panel!Enqueue
    <3>2. \A new \in Panel!Turn : Append(turns, new) \in Seq(Panel!Turn)
      BY PanelTypes
    <3>3. asked + 1 \in 0..MaxAsked
      BY <1>1, PanelTypes, PanelBounds
    <3>4. QED
      BY <2>2, <3>1, <3>2, <3>3
  <2>4. stream' \in Panel!Stream /\ stream'.stage = "sent"
    BY <1>1, <1>3, <2>1, PanelTypes, PanelBounds DEF Panel!Enqueue, Panel!RunTurn, Panel!Stream, Panel!Asked
  <2>5. Panel!TypeOK'
    BY <1>1, <2>3, <2>4 DEF PanelInv, Panel!TypeOK
  <2>6. ASSUME ~crossed' PROVE Settled'
    <3>1. Settled /\ restores = {} /\ stream = None /\ action.index = Len(turns) + 1
      BY <1>1, <2>6 DEF PanelInv, Settled, FeedbackFits
    <3>2. Panel!Enqueue(Len(turns) + 1)
      BY <1>3, <3>1
    <3>3. StreamFits' /\ \A i \in DOMAIN turns' : TurnFits(i)'
      BY <1>1, <3>1, <3>2, EnqueueKeeps DEF Settled
    <3>4. QED
      BY <1>1, <3>3 DEF Settled, FeedbackFits, Feeding
  <2>7. QED
    BY <1>1, <2>4, <2>5, <2>6 DEF PanelInv, Feeding
<1>4. QED
  BY <1>1, <1>2, <1>3

LEMMA RetryStep == ASSUME PanelInv, NEW i \in DOMAIN turns, Panel!Retry(i) PROVE PanelInv'
<1> DEFINE new == Panel!New(turns[i].question)
<1>1. /\ stream = None /\ turns' = [j \in DOMAIN turns |-> IF j = i THEN new ELSE turns[j]]
      /\ stream' = [index |-> i, question |-> turns[i].question, thread |-> shown, stage |-> "sent"]
      /\ crossed' = (crossed \/ restores # {} \/ action # None)
      /\ UNCHANGED <<kept, shown, proposal, restores, action, asked>>
  BY DEF Panel!Retry, Panel!Patched, Panel!RunTurn
<1>2. turns[i] \in Panel!Turn /\ turns[i].question \in Panel!Asked /\ i \in Nat \ {0}
  BY PanelTypes DEF Panel!Turn
<1>3. new \in Panel!Turn /\ new.question = turns[i].question /\ new.retry /\ ~new.saved /\ new.answer = None
  BY <1>2 DEF Panel!New, Panel!Turn
<1> HIDE DEF new
<1>4. /\ turns' \in Seq(Panel!Turn) /\ DOMAIN turns' = DOMAIN turns /\ Len(turns') = Len(turns)
      /\ turns'[i] = new
      /\ \A j \in DOMAIN turns : j # i => turns'[j] = turns[j]
  <2>1. turns' \in [1..Len(turns) -> Panel!Turn]
    BY <1>1, <1>3, PanelTypes
  <2>2. QED
    BY <1>1, <2>1, PanelTypes
<1>5. stream' \in Panel!Stream /\ stream' # None /\ stream'.stage = "sent"
  BY <1>1, <1>2, PanelTypes, PanelBounds DEF Panel!Stream
<1>6. Panel!TypeOK'
  BY <1>1, <1>4, <1>5 DEF PanelInv, Panel!TypeOK
<1>7. ASSUME ~crossed' PROVE Settled'
  <2>1. Settled /\ restores = {} /\ action = None
    BY <1>1, <1>7 DEF PanelInv
  <2>2. StreamFits'
    BY <1>1, <1>3, <1>4, <2>1 DEF StreamFits
  <2>3. ASSUME NEW j \in DOMAIN turns' PROVE TurnFits(j)'
    <3>1. CASE j = i
      BY <1>1, <1>3, <1>4, <1>5, <3>1 DEF TurnFits
    <3>2. CASE j # i
      <4>1. turns'[j] = turns[j] /\ TurnFits(j) /\ ~turns[j].streaming
        BY <1>1, <1>4, <2>1, <3>2 DEF Settled, TurnFits
      <4>2. QED
        BY <1>1, <4>1 DEF TurnFits
    <3>3. QED
      BY <3>1, <3>2
  <2>4. QED
    BY <1>1, <2>1, <2>2, <2>3 DEF Settled, FeedbackFits, Feeding
<1>8. QED
  BY <1>1, <1>5, <1>6, <1>7 DEF PanelInv, Feeding

\* What a step leaves of the conversation if it changes neither the turns nor where they belong.
LEMMA ConversationRests ==
  ASSUME PanelInv, Settled, Grown, UNCHANGED <<turns, shown>>,
         stream # None => /\ stream' # None /\ stream'.index = stream.index
                          /\ stream'.question = stream.question
  PROVE  \A i \in DOMAIN turns' : TurnFits(i)'
<1> SUFFICES ASSUME NEW i \in DOMAIN turns PROVE TurnFits(i)'
  OBVIOUS
<1>1. TurnFits(i)
  BY DEF Settled
<1>2. turns[i].saved => shown # None /\ shown \in Talks /\ Holds(kept'[shown], Panel!Answers(turns[i].answer))
  BY <1>1, PanelTypes DEF TurnFits, Grown
<1>3. QED
  BY <1>1, <1>2 DEF TurnFits

LEMMA CommitStep == ASSUME PanelInv, NEW t \in Talks, Panel!Commit(t) PROVE PanelInv'
<1>1. /\ stream # None /\ stream.stage = "sent" /\ Panel!Target(t)
      /\ kept' = Panel!With(t, stream.question)
      /\ stream' = [stream EXCEPT !.thread = t, !.stage = "open"]
      /\ UNCHANGED <<turns, shown, proposal, restores, action, asked, crossed>>
  BY DEF Panel!Commit
<1>2. stream \in Panel!Stream /\ stream.question \in Panel!Asked
  BY <1>1, PanelTypes DEF Panel!Stream
<1>3. Grown
  BY <1>1, <1>2, QuestionKept
<1>4. /\ stream' \in Panel!Stream /\ stream'.index = stream.index
      /\ stream'.question = stream.question /\ stream'.thread = t /\ stream'.stage = "open"
  BY <1>1, <1>2 DEF Panel!Stream
<1>5. stream' # None /\ t # None
  BY <1>4, PanelBounds
<1>6. Panel!TypeOK'
  BY <1>1, <1>3, <1>4 DEF PanelInv, Panel!TypeOK, Grown
<1>7. ASSUME ~crossed' PROVE Settled'
  <2>1. Settled
    BY <1>1, <1>7 DEF PanelInv
  <2>2. \A i \in DOMAIN turns' : TurnFits(i)'
    BY <1>1, <1>3, <1>4, <1>5, <2>1, ConversationRests
  <2>3. shown # None => t = shown
    BY <1>1, <2>1 DEF Settled, StreamFits, Panel!Target
  <2>4. StreamFits'
    BY <1>1, <1>4, <2>1, <2>3 DEF Settled, StreamFits
  <2>5. QED
    BY <1>1, <2>1, <2>2, <2>4 DEF Settled, FeedbackFits, Feeding
<1>8. QED
  BY <1>1, <1>3, <1>4, <1>5, <1>6, <1>7 DEF PanelInv, Feeding, Grown

LEMMA PanelSaveStep ==
  ASSUME PanelInv, NEW t \in Talks, NEW q \in Panel!Asked, Panel!Save(t, q) PROVE PanelInv'
<1>1. UNCHANGED <<turns, shown, proposal, stream, restores, action, asked, crossed>>
  BY DEF Panel!Save
<1>2. Grown
  BY AnswerKept
<1>3. Panel!TypeOK'
  BY <1>1, <1>2 DEF PanelInv, Panel!TypeOK, Grown
<1>4. ASSUME ~crossed' PROVE Settled'
  <2>1. Settled
    BY <1>1, <1>4 DEF PanelInv
  <2>2. \A i \in DOMAIN turns' : TurnFits(i)'
    BY <1>1, <1>2, <2>1, ConversationRests
  <2>3. QED
    BY <1>1, <2>1, <2>2 DEF Settled, FeedbackFits, Feeding, StreamFits
<1>5. QED
  BY <1>1, <1>2, <1>3, <1>4 DEF PanelInv, Feeding, Grown

LEMMA OnSessionStep == ASSUME PanelInv, Panel!OnSession PROVE PanelInv'
<1>1. /\ stream # None /\ stream.stage = "open" /\ shown' = stream.thread
      /\ stream' = [stream EXCEPT !.stage = "heard"]
      /\ UNCHANGED <<kept, turns, proposal, restores, action, asked, crossed>>
  BY DEF Panel!OnSession
<1>2. /\ stream \in Panel!Stream /\ stream.thread # None /\ stream.thread \in Talks
  BY <1>1, PanelTypes DEF Panel!Stream, PanelInv
<1>3. /\ stream' \in Panel!Stream /\ stream'.index = stream.index
      /\ stream'.question = stream.question /\ stream'.thread = stream.thread /\ stream'.stage = "heard"
  BY <1>1, <1>2 DEF Panel!Stream
<1>4. stream' # None
  BY <1>3, PanelBounds
<1>5. Panel!TypeOK'
  BY <1>1, <1>2, <1>3 DEF PanelInv, Panel!TypeOK
<1>6. ASSUME ~crossed' PROVE Settled'
  <2>1. Settled
    BY <1>1, <1>6 DEF PanelInv
  <2>2. shown # None => stream.thread = shown
    BY <1>1, <2>1 DEF Settled, StreamFits
  <2>3. ASSUME NEW i \in DOMAIN turns PROVE TurnFits(i)'
    BY <1>1, <1>3, <1>4, <2>1, <2>2 DEF Settled, TurnFits
  <2>4. StreamFits'
    BY <1>1, <1>3, <2>1 DEF Settled, StreamFits
  <2>5. QED
    BY <1>1, <2>1, <2>3, <2>4 DEF Settled, FeedbackFits, Feeding
<1>7. QED
  BY <1>1, <1>2, <1>3, <1>5, <1>6 DEF PanelInv, Feeding

LEMMA TurnWritten ==
  ASSUME PanelInv, NEW i \in DOMAIN turns, NEW written \in Panel!Turn,
         turns' = [j \in DOMAIN turns |-> IF j = i THEN written ELSE turns[j]]
  PROVE  /\ turns' \in Seq(Panel!Turn) /\ DOMAIN turns' = DOMAIN turns /\ Len(turns') = Len(turns)
         /\ turns'[i] = written
         /\ \A j \in DOMAIN turns : j # i => turns'[j] = turns[j]
<1>1. turns' \in [1..Len(turns) -> Panel!Turn]
  BY PanelTypes
<1>2. QED
  BY <1>1, PanelTypes

LEMMA OnAnswerStep == ASSUME PanelInv, Panel!OnAnswer PROVE PanelInv'
<1> DEFINE i == stream.index
           written == [turns[i] EXCEPT !.answer = stream.question]
<1>1. /\ stream # None /\ stream.stage = "heard" /\ i \in DOMAIN turns
      /\ turns' = [turns EXCEPT ![i].answer = stream.question]
      /\ UNCHANGED <<kept, shown, proposal, stream, restores, action, asked, crossed>>
  BY DEF Panel!OnAnswer, Panel!Listening
<1>2. stream.question \in Panel!Asked /\ turns[i] \in Panel!Turn
  BY <1>1, PanelTypes DEF Panel!Stream
<1>3. /\ written \in Panel!Turn /\ written.answer = stream.question
      /\ written.question = turns[i].question /\ written.saved = turns[i].saved
      /\ written.retry = turns[i].retry /\ written.streaming = turns[i].streaming
  BY <1>2 DEF Panel!Turn
<1>4. turns' = [j \in DOMAIN turns |-> IF j = i THEN written ELSE turns[j]]
  BY <1>1, PanelTypes
<1> HIDE DEF written, i
<1>5. /\ turns' \in Seq(Panel!Turn) /\ DOMAIN turns' = DOMAIN turns /\ Len(turns') = Len(turns)
      /\ turns'[i] = written /\ \A j \in DOMAIN turns : j # i => turns'[j] = turns[j]
  BY <1>1, <1>3, <1>4, TurnWritten
<1>6. Panel!TypeOK'
  BY <1>1, <1>5 DEF PanelInv, Panel!TypeOK
<1>7. ASSUME ~crossed' PROVE Settled'
  <2>1. Settled
    BY <1>1, <1>7 DEF PanelInv
  <2>2. turns[i].question = stream.question /\ turns[i].retry /\ ~turns[i].saved
    BY <1>1, <2>1 DEF Settled, StreamFits, i
  <2>3. ASSUME NEW j \in DOMAIN turns PROVE TurnFits(j)'
    <3>1. CASE j = i
      BY <1>1, <1>3, <1>5, <2>1, <2>2, <3>1 DEF Settled, TurnFits
    <3>2. CASE j # i
      BY <1>1, <1>5, <2>1, <3>2 DEF Settled, TurnFits
    <3>3. QED
      BY <3>1, <3>2
  <2>4. StreamFits'
    BY <1>1, <1>3, <1>5, <2>1 DEF Settled, StreamFits, i
  <2>5. QED
    BY <1>1, <1>5, <2>1, <2>3, <2>4 DEF Settled, FeedbackFits, Feeding
<1>8. QED
  BY <1>1, <1>6, <1>7 DEF PanelInv, Feeding

LEMMA ProposalSteps ==
  ASSUME PanelInv, Panel!OnProposal \/ Panel!Decide \/ Panel!Decided PROVE PanelInv'
<1>1. /\ UNCHANGED <<kept, turns, shown, stream, restores, asked, crossed>>
      /\ proposal' \in Panel!Proposal \cup {None}
      /\ Feeding' => Feeding /\ UNCHANGED action
      /\ action' \in Panel!Action \cup {None}
  <2>1. CASE Panel!OnProposal
    BY <2>1 DEF Panel!OnProposal, Panel!Proposal, PanelInv, Panel!TypeOK, Feeding
  <2>2. CASE Panel!Decide
    BY <2>2 DEF Panel!Decide, Panel!Proposal, PanelInv, Panel!TypeOK, Feeding, Panel!Action
  <2>3. CASE Panel!Decided
    BY <2>3 DEF Panel!Decided, Panel!Proposal, PanelInv, Panel!TypeOK, Feeding
  <2>4. QED
    BY <2>1, <2>2, <2>3
<1>2. Panel!TypeOK'
  BY <1>1 DEF PanelInv, Panel!TypeOK
<1>3. ASSUME ~crossed' PROVE Settled'
  <2>1. Settled
    BY <1>1, <1>3 DEF PanelInv
  <2>2. \A i \in DOMAIN turns' : TurnFits(i)'
    BY <1>1, <2>1, ConversationRests, KeptRests
  <2>3. QED
    BY <1>1, <2>1, <2>2 DEF Settled, StreamFits, FeedbackFits
<1>4. QED
  BY <1>1, <1>2, <1>3 DEF PanelInv

LEMMA EndedStep ==
  ASSUME PanelInv, stream # None, Grown, NEW failed \in BOOLEAN, Panel!Ended(failed),
         ~failed => stream.stage = "heard" /\ Panel!Has(stream.thread, Panel!Answers(stream.question)),
         UNCHANGED <<shown, proposal, restores, action, asked, crossed>>
  PROVE  PanelInv'
<1> DEFINE i == stream.index
           written == Panel!EndedTurn(turns[i], failed)
<1>1. /\ turns' = [j \in DOMAIN turns |-> IF j = i THEN Panel!EndedTurn(turns[j], failed) ELSE turns[j]]
      /\ stream' = None
  BY DEF Panel!Ended
<1>2. stream.question \in Panel!Asked
  BY PanelTypes DEF Panel!Stream
<1>3. ASSUME NEW turnShown \in Panel!Turn
      PROVE  /\ Panel!EndedTurn(turnShown, failed) \in Panel!Turn
             /\ Panel!EndedTurn(turnShown, failed).question = turnShown.question
             /\ Panel!EndedTurn(turnShown, failed).retry = turnShown.retry
             /\ ~Panel!EndedTurn(turnShown, failed).streaming
             /\ failed => /\ Panel!EndedTurn(turnShown, failed).saved = turnShown.saved
                          /\ Panel!EndedTurn(turnShown, failed).answer = turnShown.answer
             /\ ~failed => Panel!EndedTurn(turnShown, failed).answer = stream.question
  BY <1>2 DEF Panel!EndedTurn, Panel!Turn
<1>4. turns' = [j \in DOMAIN turns |-> IF j = i THEN written ELSE turns[j]]
  BY <1>1
<1>5. CASE i \notin DOMAIN turns
  <2>1. turns' = turns
    BY <1>4, <1>5, PanelTypes
  <2>2. Panel!TypeOK'
    BY <1>1, <2>1 DEF PanelInv, Panel!TypeOK, Grown
  <2>3. crossed'
    BY <1>5, PanelTypes DEF PanelInv, Settled, StreamFits
  <2>4. QED
    BY <1>1, <2>2, <2>3 DEF PanelInv, Feeding, Grown
<1>6. CASE i \in DOMAIN turns
  <2>1. turns[i] \in Panel!Turn
    BY <1>6, PanelTypes
  <2>2. written \in Panel!Turn
    BY <1>3, <2>1
  <2>3. /\ turns' \in Seq(Panel!Turn) /\ DOMAIN turns' = DOMAIN turns /\ Len(turns') = Len(turns)
        /\ turns'[i] = written /\ \A j \in DOMAIN turns : j # i => turns'[j] = turns[j]
    <3> HIDE DEF written
    <3>1. QED
      BY <1>4, <1>6, <2>2, TurnWritten
  <2>4. Panel!TypeOK'
    BY <1>1, <2>3 DEF PanelInv, Panel!TypeOK, Grown
  <2>5. ASSUME ~crossed' PROVE Settled'
    <3>1. Settled
      BY <2>5 DEF PanelInv
    <3>2. turns[i].question = stream.question /\ turns[i].retry /\ ~turns[i].saved
      BY <3>1 DEF Settled, StreamFits
    <3>3. ASSUME NEW j \in DOMAIN turns PROVE TurnFits(j)'
      <4>1. CASE j # i
        <5>1. turns'[j] = turns[j] /\ TurnFits(j) /\ ~turns[j].streaming
          BY <2>3, <3>1, <4>1 DEF Settled, TurnFits
        <5>2. turns[j].saved => shown # None /\ shown \in Talks /\ Holds(kept'[shown], Panel!Answers(turns[j].answer))
          BY <5>1, PanelTypes DEF TurnFits, Grown
        <5>3. QED
          BY <5>1, <5>2 DEF TurnFits
      <4>2. ASSUME j = i, failed PROVE TurnFits(j)'
        <5>1. turns[j].retry => turns[j].answer \in {None, turns[j].question}
          BY <3>1 DEF Settled, TurnFits
        <5>2. /\ ~turns'[j].streaming /\ ~turns'[j].saved /\ turns'[j].answer = turns[j].answer
              /\ turns'[j].retry = turns[j].retry /\ turns'[j].question = turns[j].question
          <6>1. turns'[j] = Panel!EndedTurn(turns[j], failed) /\ turns[j] \in Panel!Turn
            BY <2>1, <2>3, <4>2
          <6>2. ~turns[j].saved
            BY <3>2, <4>2
          <6> DEFINE ended == Panel!EndedTurn(turns[j], failed)
          <6>3. /\ ended.question = turns[j].question /\ ended.retry = turns[j].retry
                /\ ~ended.streaming /\ ended.saved = turns[j].saved /\ ended.answer = turns[j].answer
            BY <1>3, <4>2, <6>1, Zenon
          <6> HIDE DEF ended
          <6>4. turns'[j] = ended
            BY <6>1 DEF ended
          <6>5. QED
            BY <6>2, <6>3, <6>4
        <5>3. QED
          BY <5>1, <5>2 DEF TurnFits
      <4>3. ASSUME j = i, ~failed PROVE TurnFits(j)'
        <5>1. /\ ~turns'[j].streaming /\ turns'[j].answer = stream.question
              /\ turns'[j].question = stream.question
          BY <1>3, <2>1, <2>3, <3>2, <4>3
        <5>2. stream.thread = shown /\ shown # None /\ shown \in Talks
          BY <3>1, <4>3, PanelTypes DEF Settled, StreamFits, PanelInv
        <5>3. Holds(kept[shown], Panel!Answers(stream.question))
          BY <4>3, <5>2 DEF Holds, Panel!Has
        <5>4. Holds(kept'[shown], Panel!Answers(stream.question))
          BY <5>2, <5>3 DEF Grown
        <5>5. QED
          BY <5>1, <5>2, <5>4 DEF TurnFits
      <4>4. QED
        BY <4>1, <4>2, <4>3
    <3>4. QED
      BY <1>1, <2>3, <3>1, <3>3 DEF Settled, StreamFits, FeedbackFits, Feeding
  <2>6. QED
    BY <1>1, <2>4, <2>5 DEF PanelInv, Feeding, Grown
<1>7. QED
  BY <1>5, <1>6

LEMMA OnDoneStep == ASSUME PanelInv, Panel!OnDone PROVE PanelInv'
<1>1. /\ stream # None /\ stream.stage = "heard"
      /\ Panel!Has(stream.thread, Panel!Answers(stream.question)) /\ Panel!Ended(FALSE)
      /\ UNCHANGED <<kept, shown, proposal, restores, action, asked, crossed>>
  BY DEF Panel!OnDone, Panel!Listening
<1>2. QED
  BY <1>1, EndedStep, KeptRests

\* The question of a stream that breaks off may have been written.
LEMMA MaybeKept ==
  ASSUME PanelInv,
         \/ UNCHANGED kept
         \/ \E t \in Talks : /\ stream # None /\ stream.stage = "sent" /\ Panel!Target(t)
                             /\ kept' = Panel!With(t, stream.question)
  PROVE  Grown
<1>1. CASE UNCHANGED kept
  BY <1>1, KeptRests
<1>2. ASSUME NEW t \in Talks, stream # None, kept' = Panel!With(t, stream.question) PROVE Grown
  <2>1. stream.question \in Panel!Asked
    BY <1>2, PanelTypes DEF Panel!Stream
  <2>2. QED
    BY <1>2, <2>1, QuestionKept
<1>3. QED
  BY <1>1, <1>2

LEMMA OnErrorStep == ASSUME PanelInv, Panel!OnError PROVE PanelInv'
<1>1. /\ stream # None /\ Panel!Ended(TRUE)
      /\ UNCHANGED <<shown, proposal, restores, action, asked, crossed>>
      /\ \/ UNCHANGED kept
         \/ \E t \in Talks : /\ stream # None /\ stream.stage = "sent" /\ Panel!Target(t)
                             /\ kept' = Panel!With(t, stream.question)
  BY DEF Panel!OnError
<1>2. Grown
  BY <1>1, MaybeKept
<1>3. QED
  BY <1>1, <1>2, EndedStep

LEMMA RestoreStep == ASSUME PanelInv, NEW t \in Talks, Panel!Restore(t) PROVE PanelInv'
<1>1. /\ stream = None /\ restores' = restores \cup {t} /\ crossed' = (crossed \/ action # None)
      /\ UNCHANGED <<kept, turns, shown, proposal, stream, action, asked>>
  BY DEF Panel!Restore
<1>2. Panel!TypeOK'
  BY <1>1 DEF PanelInv, Panel!TypeOK
<1>3. ASSUME ~crossed' PROVE Settled'
  <2>1. Settled /\ action = None
    BY <1>1, <1>3 DEF PanelInv
  <2>2. \A i \in DOMAIN turns' : TurnFits(i)'
    BY <1>1, <2>1, ConversationRests, KeptRests
  <2>3. QED
    BY <1>1, <2>1, <2>2 DEF Settled, StreamFits, FeedbackFits, Feeding
<1>4. QED
  BY <1>1, <1>2, <1>3 DEF PanelInv, Feeding

LEMMA RestoredStep == ASSUME PanelInv, NEW t \in Talks, Panel!Restored(t) PROVE PanelInv'
<1>1. /\ t \in restores /\ restores' = restores \ {t}
      /\ UNCHANGED <<kept, stream, action, asked, crossed>>
  BY DEF Panel!Restored
<1>2. CASE UNCHANGED <<turns, shown, proposal>>
  <2>1. Panel!TypeOK'
    BY <1>1, <1>2 DEF PanelInv, Panel!TypeOK
  <2>2. ASSUME ~crossed' PROVE Settled'
    <3>1. Settled
      BY <1>1, <2>2 DEF PanelInv
    <3>2. \A i \in DOMAIN turns' : TurnFits(i)'
      BY <1>1, <1>2, <3>1, ConversationRests, KeptRests
    <3>3. QED
      BY <1>1, <1>2, <3>1, <3>2 DEF Settled, StreamFits, FeedbackFits, Feeding
  <2>3. QED
    BY <1>1, <1>2, <2>1, <2>2 DEF PanelInv, Feeding
<1>3. CASE turns' = Panel!TurnsFrom(kept[t]) /\ shown' = t /\ proposal' \in Panel!Proposal \cup {None}
  <2>1. kept[t] \in Seq(Panel!Message)
    BY PanelTypes
  <2>2. /\ turns' \in Seq(Panel!Turn)
        /\ \A i \in DOMAIN turns' : OfHistory(turns'[i], AnswersOf(kept[t], Len(kept[t])))
    BY <1>3, <2>1, RestoredTurns
  <2>3. Panel!TypeOK'
    BY <1>1, <1>3, <2>2 DEF PanelInv, Panel!TypeOK
  <2>4. ASSUME ~crossed' PROVE Settled'
    <3>1. Settled /\ stream = None /\ ~Feeding
      BY <1>1, <2>4 DEF PanelInv, Settled, StreamFits, FeedbackFits
    <3>2. ASSUME NEW i \in DOMAIN turns' PROVE TurnFits(i)'
      <4>1. OfHistory(turns'[i], AnswersOf(kept[t], Len(kept[t])))
        BY <2>2
      <4>2. ASSUME turns'[i].saved PROVE Holds(kept[t], Panel!Answers(turns'[i].answer))
        <5>1. PICK j \in 1..Len(kept[t]) : kept[t][j] = Panel!Answers(turns'[i].answer)
          BY <4>1, <4>2 DEF OfHistory, AnswersOf
        <5>2. j \in DOMAIN kept[t]
          BY <2>1, <5>1
        <5>3. QED
          BY <5>1, <5>2 DEF Holds
      <4>3. t # None
        BY PanelBounds
      <4>4. QED
        BY <1>1, <1>3, <4>1, <4>2, <4>3 DEF TurnFits, OfHistory
    <3>3. QED
      BY <1>1, <3>1, <3>2 DEF Settled, StreamFits, FeedbackFits, Feeding
  <2>5. QED
    BY <1>1, <2>3, <2>4 DEF PanelInv, Feeding
<1>4. QED
  BY <1>2, <1>3 DEF Panel!Restored

LEMMA NewSessionStep == ASSUME PanelInv, Panel!NewSession PROVE PanelInv'
<1>1. /\ turns' = <<>> /\ shown' = None /\ proposal' = None /\ stream' = None
      /\ crossed' = (crossed \/ action # None) /\ UNCHANGED <<restores, action, asked>>
      /\ \/ UNCHANGED kept
         \/ \E t \in Talks : /\ stream # None /\ stream.stage = "sent" /\ Panel!Target(t)
                             /\ kept' = Panel!With(t, stream.question)
  BY DEF Panel!NewSession
<1>2. Grown
  BY <1>1, MaybeKept
<1>3. turns' \in Seq(Panel!Turn) /\ DOMAIN turns' = {}
  BY <1>1
<1>4. Panel!TypeOK'
  BY <1>1, <1>2, <1>3 DEF PanelInv, Panel!TypeOK, Grown
<1>5. ~crossed' => Settled'
  BY <1>1, <1>3 DEF Settled, StreamFits, FeedbackFits, Feeding
<1>6. QED
  BY <1>1, <1>2, <1>4, <1>5 DEF PanelInv, Feeding, Grown

LEMMA PanelStep == ASSUME PanelInv, Panel!Next PROVE PanelInv'
BY SubmitStep, SubmitFeedbackStep, FeedbackAnsweredStep, RetryStep, CommitStep, RestoreStep,
   RestoredStep, PanelSaveStep, OnSessionStep, OnAnswerStep, ProposalSteps, OnDoneStep,
   OnErrorStep, NewSessionStep DEF Panel!Next

LEMMA PanelRests == ASSUME PanelInv, UNCHANGED panel PROVE PanelInv'
<1>1. UNCHANGED <<kept, turns, shown, proposal, stream, restores, action, asked, crossed>>
  BY DEF panel
<1>2. Panel!TypeOK'
  BY <1>1 DEF PanelInv, Panel!TypeOK
<1>3. Settled => Settled'
  BY <1>1 DEF Settled, StreamFits, FeedbackFits, Feeding, TurnFits
<1>4. QED
  BY <1>1, <1>2, <1>3 DEF PanelInv, Feeding

PanelHolds == On("panel") => PanelInv

LEMMA PanelStarts == Init => PanelHolds
BY PanelInvInit DEF Init, On, PanelHolds

LEMMA PanelGoesOn == ASSUME PanelHolds, [Next]_vars PROVE PanelHolds'
<1>1. CASE ~On("panel")
  BY <1>1 DEF On, PanelHolds, Next, vars
<1>2. CASE On("panel")
  <2>1. Panel!Next \/ UNCHANGED panel
    BY <1>2 DEF Next, vars, On
  <2>2. PanelInv
    BY <1>2 DEF PanelHolds
  <2>3. QED
    BY <2>1, <2>2, PanelStep, PanelRests DEF PanelHolds
<1>3. QED
  BY <1>1, <1>2

LEMMA PanelAlways == Spec => []PanelHolds
BY PanelStarts, PanelGoesOn, PTL DEF Spec

\* What the panel shows is one conversation of the server, whatever is restored, asked again,
\* left in the middle of an answer or begun anew, unless something was asked under an answer of
\* the server that could still replace the turns.
THEOREM PanelShowsOneThread == Spec => []ThreadIsOne
<1>1. PanelHolds => ThreadIsOne
  BY PanelMeans DEF PanelHolds, ThreadIsOne
<1>2. QED
  BY <1>1, PanelAlways, PTL

(***************************************************************************)
(* AskAiPanel: every answer that is restored has a turn                    *)
(***************************************************************************)

QuestionsOf(list, n) == {q \in Panel!Asked : \E i \in 1..n : list[i] = Panel!Asks(q)}

\* The turns after n messages: those that wait are as many as the questions without an answer, and
\* the others show the answers.
Filled(list, n, done) ==
  /\ done \in Seq(Panel!Turn)
  /\ Cardinality(Panel!Open(done)) + Cardinality(AnswersOf(list, n)) = Cardinality(QuestionsOf(list, n))
  /\ \A q \in AnswersOf(list, n) : \E i \in DOMAIN done : done[i].answer = q

LEMMA CountsOf ==
  ASSUME NEW list, NEW n, NEW done \in Seq(Panel!Turn)
  PROVE  /\ IsFiniteSet(QuestionsOf(list, n)) /\ Cardinality(QuestionsOf(list, n)) \in Nat
         /\ IsFiniteSet(AnswersOf(list, n)) /\ Cardinality(AnswersOf(list, n)) \in Nat
         /\ IsFiniteSet(Panel!Open(done)) /\ Cardinality(Panel!Open(done)) \in Nat
         /\ Panel!Open(done) \in SUBSET (1..Len(done))
<1>1. IsFiniteSet(Panel!Asked)
  BY PanelBounds, FS_Interval DEF Panel!Asked
<1>2. Panel!Open(done) \in SUBSET (1..Len(done)) /\ Len(done) \in Nat
  BY DEF Panel!Open
<1>3. IsFiniteSet(1..Len(done))
  BY <1>2, FS_Interval
<1>4. QuestionsOf(list, n) \subseteq Panel!Asked /\ AnswersOf(list, n) \subseteq Panel!Asked
  BY DEF QuestionsOf, AnswersOf
<1>5. IsFiniteSet(QuestionsOf(list, n)) /\ IsFiniteSet(AnswersOf(list, n)) /\ IsFiniteSet(Panel!Open(done))
  BY <1>1, <1>2, <1>3, <1>4, FS_Subset
<1>6. QED
  BY <1>2, <1>5, FS_CardinalityType

\* A turn waits for each answer that comes next.
LEMMA TurnWaits ==
  ASSUME NEW list \in Seq(Panel!Message), Whole(list), NEW n \in DOMAIN list, NEW done,
         Filled(list, n - 1, done), list[n].kind = "answer"
  PROVE  /\ list[n].question \notin AnswersOf(list, n - 1)
         /\ Panel!Max(Panel!Open(done)) \in Panel!Open(done)
<1> DEFINE q == list[n].question
<1>1. n \in 1..Len(list) /\ Len(list) \in Nat /\ list[n] \in Panel!Message
  OBVIOUS
<1>2. q \in Panel!Asked /\ list[n] = Panel!Answers(q)
  BY <1>1 DEF Panel!Message, Panel!Answers
<1>3. q \notin AnswersOf(list, n - 1)
  <2>1. SUFFICES ASSUME NEW i \in 1..n - 1, list[i] = Panel!Answers(q) PROVE FALSE
    BY DEF AnswersOf
  <2>2. i \in DOMAIN list /\ i # n
    BY <1>1
  <2>3. QED
    BY <1>2, <2>1, <2>2 DEF Whole
<1>4. ASSUME NEW i \in 1..n, NEW p \in Panel!Asked, list[i] = Panel!Answers(p)
      PROVE  p \in QuestionsOf(list, n - 1)
  <2>1. i \in DOMAIN list /\ list[i].kind = "answer" /\ list[i].question = p
    BY <1>1, <1>4 DEF Panel!Answers
  <2>2. PICK j \in 1..i - 1 : list[j] = Panel!Asks(p)
    BY <2>1 DEF Whole
  <2>3. j \in 1..n - 1
    BY <1>1, <2>2
  <2>4. QED
    BY <2>2, <2>3 DEF QuestionsOf
<1>5. AnswersOf(list, n - 1) \subseteq QuestionsOf(list, n - 1) /\ q \in QuestionsOf(list, n - 1)
  <2>1. n \in 1..n /\ 1..n - 1 \subseteq 1..n
    BY <1>1
  <2>2. QED
    BY <1>2, <1>4, <2>1 DEF AnswersOf
<1>6. done \in Seq(Panel!Turn)
  BY DEF Filled
<1>7. /\ IsFiniteSet(QuestionsOf(list, n - 1)) /\ Cardinality(QuestionsOf(list, n - 1)) \in Nat
      /\ Cardinality(AnswersOf(list, n - 1)) \in Nat
      /\ IsFiniteSet(Panel!Open(done)) /\ Cardinality(Panel!Open(done)) \in Nat
      /\ Panel!Open(done) \in SUBSET (1..Len(done)) /\ Len(done) \in Nat
  BY <1>6, CountsOf, LenProperties, Zenon
<1>8. Cardinality(AnswersOf(list, n - 1)) < Cardinality(QuestionsOf(list, n - 1))
  <2>1. AnswersOf(list, n - 1) # QuestionsOf(list, n - 1)
    BY <1>3, <1>5
  <2>2. QED
    BY <1>5, <1>7, <2>1, FS_Subset
<1>9. Panel!Open(done) # {}
  <2>1. Cardinality(Panel!Open(done)) # 0
    BY <1>7, <1>8 DEF Filled
  <2>2. QED
    BY <1>7, <2>1, FS_EmptySet
<1>10. \E x \in Panel!Open(done) : \A y \in Panel!Open(done) : x >= y
  <2>1. Panel!Open(done) \in SUBSET (0..Len(done))
    BY <1>7
  <2>2. PICK x \in Panel!Open(done) : \A y \in Panel!Open(done) : y <= x
    BY <1>7, <1>9, <2>1, GreatestNumber
  <2>3. \A y \in Panel!Open(done) : x >= y
    BY <1>7, <2>2
  <2>4. QED
    BY <2>3
<1>11. Panel!Max(Panel!Open(done)) \in Panel!Open(done)
  BY <1>10, Zenon DEF Panel!Max
<1>12. QED
  BY <1>3, <1>11

LEMMA FilledStep ==
  ASSUME NEW list \in Seq(Panel!Message), Whole(list), NEW n \in DOMAIN list, NEW done,
         Filled(list, n - 1, done)
  PROVE  Filled(list, n, Panel!Placed(done, list[n]))
<1> DEFINE q == list[n].question
           next == Panel!Placed(done, list[n])
<1>1. n \in 1..Len(list) /\ Len(list) \in Nat /\ list[n] \in Panel!Message
  OBVIOUS
<1>2. q \in Panel!Asked /\ list[n].kind \in {"question", "answer"} /\ done \in Seq(Panel!Turn)
  BY <1>1 DEF Panel!Message, Filled
<1>3. /\ IsFiniteSet(QuestionsOf(list, n - 1)) /\ Cardinality(QuestionsOf(list, n - 1)) \in Nat
      /\ IsFiniteSet(AnswersOf(list, n - 1)) /\ Cardinality(AnswersOf(list, n - 1)) \in Nat
      /\ IsFiniteSet(Panel!Open(done)) /\ Cardinality(Panel!Open(done)) \in Nat
      /\ Panel!Open(done) \in SUBSET (1..Len(done)) /\ Len(done) \in Nat
  BY <1>2, CountsOf, LenProperties, Zenon
<1>4. \A i : i \in 1..n <=> (i \in 1..n - 1 \/ i = n)
  BY <1>1
<1>5. CASE list[n].kind = "question"
  <2>1. list[n] = Panel!Asks(q) /\ \A p \in Panel!Asked : list[n] # Panel!Answers(p)
    BY <1>1, <1>2, <1>5 DEF Panel!Message, Panel!Asks, Panel!Answers
  <2>2. AnswersOf(list, n) = AnswersOf(list, n - 1)
    BY <1>4, <2>1 DEF AnswersOf
  <2>3. QuestionsOf(list, n) = QuestionsOf(list, n - 1) \cup {q}
    <3>1. \A p \in Panel!Asked : list[n] = Panel!Asks(p) <=> p = q
      BY <2>1 DEF Panel!Asks
    <3>2. QED
      BY <1>2, <1>4, <3>1 DEF QuestionsOf
  <2>4. q \notin QuestionsOf(list, n - 1)
    <3>1. SUFFICES ASSUME NEW i \in 1..n - 1, list[i] = Panel!Asks(q) PROVE FALSE
      BY DEF QuestionsOf
    <3>2. i \in DOMAIN list /\ i # n
      BY <1>1
    <3>3. QED
      BY <2>1, <3>1, <3>2 DEF Whole
  <2> DEFINE st == Panel!Stored(q)
  <2>5. next = Append(done, st)
    BY <1>5 DEF Panel!Placed
  <2>6. st \in Panel!Turn /\ st.answer = None
    BY <1>2 DEF Panel!Stored, Panel!Turn
  <2> HIDE DEF st, next
  <2>7. /\ next \in Seq(Panel!Turn) /\ DOMAIN next = 1..Len(done) + 1
        /\ \A i \in DOMAIN done : next[i] = done[i] /\ i \in DOMAIN next
        /\ next[Len(done) + 1] = st /\ DOMAIN done = 1..Len(done)
    BY <1>2, <2>5, <2>6
  <2>8. Panel!Open(next) = Panel!Open(done) \cup {Len(done) + 1} /\ Len(done) + 1 \notin Panel!Open(done)
    BY <1>3, <2>6, <2>7 DEF Panel!Open
  <2>9. Cardinality(Panel!Open(next)) = Cardinality(Panel!Open(done)) + 1
    BY <1>3, <2>8, FS_AddElement
  <2>10. Cardinality(QuestionsOf(list, n)) = Cardinality(QuestionsOf(list, n - 1)) + 1
    BY <1>3, <2>3, <2>4, FS_AddElement
  <2>11. \A p \in AnswersOf(list, n) : \E i \in DOMAIN next : next[i].answer = p
    BY <2>2, <2>7 DEF Filled
  <2>12. Cardinality(Panel!Open(next)) + Cardinality(AnswersOf(list, n)) = Cardinality(QuestionsOf(list, n))
    BY <1>3, <2>2, <2>9, <2>10 DEF Filled
  <2>13. QED
    BY <2>7, <2>11, <2>12 DEF Filled, next
<1>6. CASE list[n].kind = "answer"
  <2> DEFINE m == Panel!Max(Panel!Open(done))
  <2>1. list[n] = Panel!Answers(q) /\ \A p \in Panel!Asked : list[n] # Panel!Asks(p)
    BY <1>1, <1>2, <1>6 DEF Panel!Message, Panel!Asks, Panel!Answers
  <2>2. QuestionsOf(list, n) = QuestionsOf(list, n - 1)
    BY <1>4, <2>1 DEF QuestionsOf
  <2>3. AnswersOf(list, n) = AnswersOf(list, n - 1) \cup {q}
    <3>1. \A p \in Panel!Asked : list[n] = Panel!Answers(p) <=> p = q
      BY <2>1 DEF Panel!Answers
    <3>2. QED
      BY <1>2, <1>4, <3>1 DEF AnswersOf
  <2>4. q \notin AnswersOf(list, n - 1) /\ m \in Panel!Open(done)
    BY <1>6, TurnWaits
  <2>5. next = [done EXCEPT ![m].answer = q, ![m].saved = TRUE]
    BY <1>6 DEF Panel!Placed
  <2> HIDE DEF m, next
  <2>6. next \in Seq(Panel!Turn)
    BY <1>2, <2>5, AnswerWritten, Zenon
  <2>7. /\ DOMAIN next = DOMAIN done /\ m \in DOMAIN done /\ done[m].answer = None
        /\ \A i \in DOMAIN done : i # m => next[i] = done[i]
        /\ next[m].answer = q
    <3>1. m \in DOMAIN done /\ done[m].answer = None
      BY <2>4 DEF Panel!Open
    <3>2. done[m] \in Panel!Turn
      BY <1>2, <3>1
    <3>3. next[m] = [done[m] EXCEPT !.answer = q, !.saved = TRUE]
      BY <2>5, <3>1
    <3>4. next[m].answer = q
      BY <3>2, <3>3 DEF Panel!Turn
    <3>5. QED
      BY <2>5, <3>1, <3>4
  <2>8. q # None /\ \A p \in AnswersOf(list, n - 1) : p # None
    BY <1>2, PanelBounds DEF AnswersOf
  <2>9. Panel!Open(next) = Panel!Open(done) \ {m}
    BY <2>7, <2>8 DEF Panel!Open
  <2>10. Cardinality(Panel!Open(next)) = Cardinality(Panel!Open(done)) - 1
    BY <1>3, <2>4, <2>9, FS_RemoveElement
  <2>11. Cardinality(AnswersOf(list, n)) = Cardinality(AnswersOf(list, n - 1)) + 1
    BY <1>3, <2>3, <2>4, FS_AddElement
  <2>12. Cardinality(Panel!Open(next)) + Cardinality(AnswersOf(list, n)) = Cardinality(QuestionsOf(list, n))
    BY <1>3, <2>2, <2>10, <2>11 DEF Filled
  <2>13. ASSUME NEW p \in AnswersOf(list, n) PROVE \E i \in DOMAIN next : next[i].answer = p
    <3>1. CASE p = q
      BY <2>7, <3>1
    <3>2. CASE p # q
      <4>1. PICK i \in DOMAIN done : done[i].answer = p
        BY <2>3, <3>2 DEF Filled
      <4>2. i # m
        BY <2>3, <2>7, <2>8, <3>2, <4>1
      <4>3. QED
        BY <2>7, <4>1, <4>2
    <3>3. QED
      BY <3>1, <3>2
  <2>14. QED
    BY <2>6, <2>12, <2>13 DEF Filled, next
<1>7. QED
  BY <1>2, <1>5, <1>6

LEMMA RestoredAnswers ==
  ASSUME NEW list \in Seq(Panel!Message), Whole(list)
  PROVE  Filled(list, Len(list), Panel!TurnsFrom(list))
<1> DEFINE n == Len(list)
<1>1. n \in Nat /\ DOMAIN list = 1..n
  OBVIOUS
<1>2. PICK f : Placing(f, list, n) /\ Panel!TurnsFrom(list) = f[n]
  BY <1>1, TurnsAre
<1> DEFINE S == {k \in 0..n : Filled(list, k, f[k])}
<1>3. f[0] = <<>> /\ \A k \in 1..n : f[k] = Panel!Placed(f[k - 1], list[k])
  BY <1>1, <1>2, PlacingSteps
<1>4. 0 \in S
  <2>1. <<>> \in Seq(Panel!Turn) /\ DOMAIN (<<>>) = {} /\ 0 \in 0..n /\ 1..0 = {}
    BY <1>1
  <2>2. Panel!Open(<<>>) = {} /\ AnswersOf(list, 0) = {} /\ QuestionsOf(list, 0) = {}
    BY <2>1 DEF Panel!Open, AnswersOf, QuestionsOf
  <2>3. Cardinality({}) = 0
    BY FS_EmptySet
  <2>4. Filled(list, 0, <<>>)
    <3>1. /\ Cardinality(Panel!Open(<<>>)) = 0 /\ Cardinality(AnswersOf(list, 0)) = 0
          /\ Cardinality(QuestionsOf(list, 0)) = 0
      BY <2>2, <2>3, Zenon
    <3>2. \A q \in AnswersOf(list, 0) : FALSE
      BY <2>2
    <3>3. QED
      BY <2>1, <3>1, <3>2 DEF Filled
  <2>5. QED
    BY <1>3, <2>1, <2>4
<1>5. ASSUME NEW k \in 1..n, k - 1 \in S PROVE k \in S
  <2>1. k \in DOMAIN list /\ Filled(list, k - 1, f[k - 1]) /\ k \in 0..n
    BY <1>1, <1>5
  <2>2. QED
    BY <1>3, <2>1, FilledStep
<1>6. 0..n \subseteq S
  <2> HIDE DEF S
  <2>1. QED
    BY <1>1, <1>4, <1>5, UpToAll
<1>7. n \in S
  BY <1>1, <1>6
<1>8. QED
  BY <1>2, <1>7

\* A thread that is restored shows each of its answers: no answer finds every question answered.
THEOREM RestoredAnswersAreShown ==
  Spec => [](On("panel") => \A t \in Talks : \A q \in Panel!Asked :
               Panel!Has(t, Panel!Answers(q)) =>
                 \E i \in DOMAIN Panel!TurnsFrom(kept[t]) : Panel!TurnsFrom(kept[t])[i].answer = q)
<1>1. ASSUME PanelHolds, On("panel"), NEW t \in Talks, NEW q \in Panel!Asked,
             Panel!Has(t, Panel!Answers(q))
      PROVE  \E i \in DOMAIN Panel!TurnsFrom(kept[t]) : Panel!TurnsFrom(kept[t])[i].answer = q
  <2>1. PanelInv
    BY <1>1 DEF PanelHolds
  <2>2. kept[t] \in Seq(Panel!Message) /\ Whole(kept[t])
    BY <2>1, PanelTypes DEF PanelInv
  <2>3. q \in AnswersOf(kept[t], Len(kept[t]))
    BY <1>1, <2>2 DEF Panel!Has, AnswersOf
  <2>4. QED
    BY <2>2, <2>3, RestoredAnswers DEF Filled
<1>2. PanelHolds =>
        (On("panel") => \A t \in Talks : \A q \in Panel!Asked :
           Panel!Has(t, Panel!Answers(q)) =>
             \E i \in DOMAIN Panel!TurnsFrom(kept[t]) : Panel!TurnsFrom(kept[t])[i].answer = q)
  BY <1>1
<1>3. QED
  BY <1>2, PanelAlways, PTL

(***************************************************************************)
(* All components                                                          *)
(***************************************************************************)
LEMMA SameTypes == Question!TypeOK <=> QuestionProofs!TypeOK
BY DEF Question!TypeOK, QuestionProofs!TypeOK, Question!Thread, QuestionProofs!Thread,
       Question!Messages, QuestionProofs!Messages, Question!Proposal, QuestionProofs!Proposal,
       Question!Revision, QuestionProofs!Revision

\* Whatever component serves the reader, its state is of its types: positions, threads, answers,
\* slices, reports and settings are what the code says they are, and no more of them is under way
\* than the page allows.
THEOREM ReaderTypeCorrect == Spec => []TypeOK
<1>1. QuestionProofs!Spec => []QuestionProofs!TypeOK
  BY FormalAssumption, ProposalsAssumption, ActivityAssumption, PositionAssumption, PageAssumption,
     QuestionProofs!ProposalsTypeCorrect
<1>2. Spec => [](On("question") => Question!TypeOK)
  <2>1. QuestionProofs!TypeOK => (On("question") => Question!TypeOK)
    BY SameTypes
  <2>2. ~On("question") => (On("question") => Question!TypeOK)
    OBVIOUS
  <2>3. QED
    BY <1>1, <2>1, <2>2, QuestionFocus, QuestionSpec, PTL
<1>3. PanelHolds => (On("panel") => Panel!TypeOK)
  BY DEF PanelHolds, PanelInv
<1>4. /\ On("formal") => Formal!TypeOK
      /\ On("question") => Question!TypeOK
      /\ On("panel") => Panel!TypeOK
      /\ /\ On("content") => Content!TypeOK
         /\ On("notes") => Notes!TypeOK
         /\ On("activity") => Activity!TypeOK
         /\ On("reading") => Position!TypeOK
      => TypeOK
  BY DEF TypeOK
<1>5. QED
  BY <1>2, <1>3, <1>4, FormalTypeCorrect, PanelAlways, PageTypes, PTL
=============================================================================
