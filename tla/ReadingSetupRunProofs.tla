----------------------- MODULE ReadingSetupRunProofs -----------------------
(***************************************************************************)
(* Theorems about ReadingSetupRun, for every number of runs, requests and  *)
(* workers and every combination of failures.                              *)
(***************************************************************************)
EXTENDS ReadingSetupRun, TLAPS

(***************************************************************************)
(* The inductive invariant, in named parts                                 *)
(***************************************************************************)
Targeted == {"question_answer", "feedback", "confirmation"}

\* Every input that becomes an action names its target, and only the API's own
\* entry creates a session_start input.
InputsAimed ==
  /\ \A r \in Runs : input[r].type \in Targeted => input[r].target \in ToolCalls
  /\ \A c \in Requests :
       /\ request[c].input.type \in Targeted => request[c].input.target \in ToolCalls
       /\ request[c].input.type # "session_start"

\* A request past its claim carries a claimed run of its own; one before it, an input.
RequestsOwnRuns ==
  /\ \A c \in Requests : /\ request[c].pc \in {"validated", "eligible"} => request[c].input # NoInput
                         /\ request[c].pc \in {"claimed", "undo"} => request[c].run \in Runs
                         /\ request[c].run \in Runs => input[request[c].run] # NoInput
                         /\ request[c].pc = "claimed" => job[request[c].run].status = "absent"
  /\ \A c, d \in Requests : /\ request[c].pc = "claimed" /\ request[d].pc = "claimed"
                            /\ request[c].run = request[d].run
                            => c = d

\* A job that may still run has attempts and stalls left, and only an active one
\* has an owner.
JobsBounded ==
  \A r \in Runs :
    /\ job[r].status \in {"absent", "waiting", "active"} =>
         job[r].made < MaxAttempts /\ job[r].stalls <= MaxStalls
    /\ job[r].owner # None => job[r].status = "active"

\* A run id that was never claimed is unknown to the session and to the queue.
UnclaimedUnseen ==
  \A r \in Runs : input[r] = NoInput =>
    /\ activeRun # r
    /\ job[r].status = "absent" /\ cleanup[r] = "none" /\ finished[r] = {}

AttemptsOwnRuns ==
  \A w \in Workers : attempt[w].pc # "idle" =>
    attempt[w].run \in Runs /\ input[attempt[w].run] # NoInput

TypeInv == TypeOK /\ InputsAimed /\ RequestsOwnRuns /\ JobsBounded /\ UnclaimedUnseen /\ AttemptsOwnRuns

LEMMA Bounds == MaxFaults \in Nat /\ MaxAttempts \in Nat \ {0} /\ MaxStalls \in Nat
BY ReadingSetupAssumption

LEMMA NoneIsNoRun == None \notin Runs /\ None \notin Workers /\ None \notin ToolCalls
BY ReadingSetupAssumption

USE DEF Targeted, session, book, queue, Marked

LEMMA TypeInvInit == Init => TypeInv
<1> SUFFICES ASSUME Init PROVE TypeInv
  OBVIOUS
<1>1. TypeOK
  <2>1. input \in [Runs -> Input \cup {NoInput}] /\ activeRun \in Runs \cup {None}
    BY DEF Init
  <2>2. job \in [Runs -> Job]
    BY Bounds DEF Init, NoJob, Job
  <2>3. request \in [Requests -> Request] /\ attempt \in [Workers -> Attempt]
    BY DEF Init, NoRequest, Request, NoAttempt, Attempt
  <2>4. versions \in Nat /\ faults \in 0..MaxFaults
    BY Bounds DEF Init
  <2>5. finished \in [Runs -> SUBSET {"completed", "failed"}] /\ cleanup \in [Runs -> {"none", "pending", "cleared"}]
    BY DEF Init
  <2>6. messages \in SUBSET Message /\ actions \in SUBSET Action /\ created \in BOOLEAN
    BY DEF Init
  <2>7. workflow \in {"on_shelf", "active_reading"} /\ current \in Grounds \cup {None}
    BY DEF Init
  <2> QED
    BY <2>1, <2>2, <2>3, <2>4, <2>5, <2>6, <2>7 DEF TypeOK
<1>2. InputsAimed /\ RequestsOwnRuns
  BY NoneIsNoRun DEF Init, InputsAimed, RequestsOwnRuns, NoInput, NoRequest, Input
<1>3. JobsBounded /\ UnclaimedUnseen /\ AttemptsOwnRuns
  BY Bounds, NoneIsNoRun DEF Init, JobsBounded, UnclaimedUnseen, AttemptsOwnRuns, NoJob, NoAttempt
<1> QED
  BY <1>1, <1>2, <1>3 DEF TypeInv

LEMMA SubmitTypeInv ==
  ASSUME TypeInv, NEW c \in Requests, NEW in \in UserInput, Submit(c, in)
  PROVE  TypeInv'
<1>1. in.type \in Targeted => in.target \in ToolCalls
  BY DEF Submit, Acceptable, ToolCalls, UserInput, Input
<1>2. in \in Input /\ in.type # "session_start" /\ in # NoInput
  BY ReadingSetupAssumption DEF UserInput, Input, InputTypes, NoInput
<1>3. request' \in [Requests -> Request]
  BY <1>2 DEF Submit, TypeInv, TypeOK, Request
<1>4. TypeOK'
  BY <1>3 DEF Submit, TypeInv, TypeOK
<1>5. InputsAimed' /\ RequestsOwnRuns'
  BY <1>1, <1>2, NoneIsNoRun DEF Submit, TypeInv, TypeOK, InputsAimed, RequestsOwnRuns
<1>6. JobsBounded' /\ UnclaimedUnseen' /\ AttemptsOwnRuns'
  BY DEF Submit, TypeInv, JobsBounded, UnclaimedUnseen, AttemptsOwnRuns
<1> QED
  BY <1>4, <1>5, <1>6 DEF TypeInv

LEMMA ClaimRunTypeInv ==
  ASSUME TypeInv, NEW c \in Requests, ClaimRun(c) \/ ClaimInitialRun(c)
  PROVE  TypeInv'
<1>1. CASE Answer(c) /\ UNCHANGED <<activeRun, input, messages, actions, created, book, queue, finished, attempt, faults>>
  BY <1>1, NoneIsNoRun
  DEF Answer, TypeInv, TypeOK, InputsAimed, RequestsOwnRuns, JobsBounded,
      UnclaimedUnseen, AttemptsOwnRuns, NoInput, NoRequest, Request
<1>2. ASSUME NEW r \in Runs, NEW in \in Input, request[c].pc \in {"eligible", "initial"},
             input[r] = NoInput, activeRun' = r, input' = [input EXCEPT ![r] = in],
             request' = [request EXCEPT ![c] = [pc |-> "claimed", input |-> @.input, run |-> r]],
             in.type \in Targeted => in.target \in ToolCalls,
             UNCHANGED <<created, messages, actions, book, queue, finished, attempt, faults>>
      PROVE  TypeInv'
  <2>1. TypeOK'
    <3>1. request' \in [Requests -> Request]
      BY <1>2 DEF TypeInv, TypeOK, Request
    <3>2. input' \in [Runs -> Input \cup {NoInput}]
      BY <1>2 DEF TypeInv, TypeOK
    <3> QED
      BY <1>2, <3>1, <3>2 DEF TypeInv, TypeOK
  <2>2. InputsAimed'
    BY <1>2 DEF TypeInv, TypeOK, InputsAimed, Request
  <2>3. RequestsOwnRuns'
    BY <1>2 DEF TypeInv, TypeOK, RequestsOwnRuns, UnclaimedUnseen, Request, NoInput, Input,
       InputTypes
  <2>4. JobsBounded' /\ UnclaimedUnseen' /\ AttemptsOwnRuns'
    BY <1>2, NoneIsNoRun DEF TypeInv, TypeOK, JobsBounded, UnclaimedUnseen, AttemptsOwnRuns,
       NoInput, Input, InputTypes
  <2> QED
    BY <2>1, <2>2, <2>3, <2>4 DEF TypeInv
<1> QED
  BY <1>1, <1>2 DEF ClaimRun, ClaimInitialRun, TypeInv, TypeOK, RequestsOwnRuns, InputsAimed,
     Request, Input, InputTypes

\* A request that moves on without claiming or enqueueing anything.
LEMMA RequestMovesTypeInv ==
  ASSUME TypeInv, NEW c \in Requests,
         Answer(c) \/ (request[c].pc \notin {"claimed", "undo"} /\ \E pc \in {"entering", "initial"} : Goto(c, pc))
                   \/ (request[c].pc = "validated" /\ Goto(c, "eligible")),
         created' \in BOOLEAN, activeRun' \in {activeRun, None}, faults' \in 0..MaxFaults,
         UNCHANGED <<messages, actions, input, book, queue, finished, attempt>>
  PROVE  TypeInv'
<1>1. request' \in [Requests -> Request]
  BY DEF TypeInv, TypeOK, Goto, Answer, Request, NoRequest
<1>2. TypeOK'
  BY <1>1 DEF TypeInv, TypeOK
<1>a. \A d \in Requests : d # c => request'[d] = request[d]
  BY DEF TypeInv, TypeOK, Goto, Answer
<1>b. \/ request'[c] = NoRequest
      \/ /\ request'[c].pc \in {"entering", "initial"} /\ request'[c].run = request[c].run
         /\ request'[c].input = request[c].input
      \/ /\ request[c].pc = "validated" /\ request'[c].pc = "eligible"
         /\ request'[c].run = request[c].run /\ request'[c].input = request[c].input
  BY DEF TypeInv, TypeOK, Goto, Answer, Request
<1>c. InputsAimed'
  BY <1>a, <1>b DEF TypeInv, InputsAimed, NoRequest, NoInput
<1>d. RequestsOwnRuns'
  BY <1>a, <1>b, NoneIsNoRun DEF TypeInv, RequestsOwnRuns, NoRequest, NoInput
<1>3. InputsAimed' /\ RequestsOwnRuns'
  BY <1>c, <1>d
<1>4. JobsBounded' /\ UnclaimedUnseen' /\ AttemptsOwnRuns'
  BY NoneIsNoRun DEF TypeInv, TypeOK, JobsBounded, UnclaimedUnseen, AttemptsOwnRuns
<1> QED
  BY <1>2, <1>3, <1>4 DEF TypeInv

LEMMA FailsBounded == ASSUME TypeOK, NEW kind, Fails(kind) PROVE faults' \in 0..MaxFaults
BY Bounds DEF TypeOK, Fails

LEMMA EnqueueTypeInv ==
  ASSUME TypeInv, NEW c \in Requests, Enqueue(c) \/ EnqueueError(c)
  PROVE  TypeInv'
<1> DEFINE r == request[c].run
<1>1. /\ request[c].pc = "claimed" /\ r \in Runs /\ input[r] # NoInput /\ job[r].status = "absent"
      /\ faults' \in 0..MaxFaults
  BY FailsBounded DEF TypeInv, TypeOK, RequestsOwnRuns, Enqueue, EnqueueError
<1>2. job' = job \/ job' = [job EXCEPT ![r].status = "waiting"]
  BY DEF Enqueue, EnqueueError
<1>3. Answer(c) \/ Goto(c, "undo")
  BY DEF Enqueue, EnqueueError
<1>4. UNCHANGED <<session, input, book, cleanup, finished, attempt>>
  BY DEF Enqueue, EnqueueError
<1>a. \A d \in Requests : d # c => request'[d] = request[d]
  BY <1>3 DEF TypeInv, TypeOK, Goto, Answer
<1>b. \/ request'[c] = NoRequest
      \/ request'[c].pc = "undo" /\ request'[c].run = r /\ request'[c].input = request[c].input
  BY <1>3 DEF TypeInv, TypeOK, Goto, Answer, Request
<1>c. /\ \A q \in Runs : q # r => job'[q] = job[q]
      /\ job'[r] = job[r] \/ job'[r] = [job[r] EXCEPT !.status = "waiting"]
  BY <1>1, <1>2 DEF TypeInv, TypeOK
<1>d. \A q \in Runs : job'[q].made = job[q].made /\ job'[q].stalls = job[q].stalls /\ job'[q].owner = job[q].owner
  BY <1>1, <1>c DEF TypeInv, TypeOK, Job
<1>5. request' \in [Requests -> Request] /\ job' \in [Runs -> Job]
  <2>1. request' \in [Requests -> Request]
    BY <1>1, <1>3 DEF TypeInv, TypeOK, Goto, Answer, Request, NoRequest
  <2>2. job' \in [Runs -> Job]
    <3>1. job \in [Runs -> Job] /\ job[r] \in Job
      BY <1>1 DEF TypeInv, TypeOK
    <3>2. [job[r] EXCEPT !.status = "waiting"] \in Job
      BY <3>1 DEF Job
    <3>3. QED
      BY <1>1, <1>2, <3>1, <3>2
  <2> QED
    BY <2>1, <2>2
<1>6. TypeOK'
  BY <1>1, <1>4, <1>5 DEF TypeInv, TypeOK
<1>7. InputsAimed'
  BY <1>3, <1>4 DEF TypeInv, TypeOK, InputsAimed, Goto, Answer, Request, NoRequest, NoInput
<1>8. RequestsOwnRuns'
  BY <1>1, <1>a, <1>b, <1>c, <1>4, NoneIsNoRun DEF TypeInv, RequestsOwnRuns, NoRequest, NoInput
<1>e. JobsBounded'
  <2>1. job[r].owner = None
    BY <1>1 DEF TypeInv, JobsBounded
  <2> QED
    BY <1>1, <1>c, <1>d, <2>1 DEF TypeInv, JobsBounded
<1>9. JobsBounded' /\ UnclaimedUnseen' /\ AttemptsOwnRuns'
  BY <1>1, <1>c, <1>4, <1>e DEF TypeInv, UnclaimedUnseen, AttemptsOwnRuns
<1> QED
  BY <1>6, <1>7, <1>8, <1>9 DEF TypeInv

LEMMA StartAttemptTypeInv ==
  ASSUME TypeInv, NEW w \in Workers, NEW r \in Runs, StartAttempt(w, r)
  PROVE  TypeInv'
<1>1. input[r] # NoInput /\ job[r].status = "waiting" /\ job[r].owner = None
  BY DEF StartAttempt, TypeInv, TypeOK, UnclaimedUnseen, JobsBounded
<1>2. \/ /\ job' = [job EXCEPT ![r] = Marked(@, "active", w)]
         /\ attempt' = [attempt EXCEPT ![w] = [pc |-> "looping", run |-> r, messages |-> messages,
                                               actions |-> actions, fresh |-> {}]]
      \/ job' = [job EXCEPT ![r].status = "completed"] /\ attempt' = attempt
  BY DEF StartAttempt
<1>3. UNCHANGED <<session, input, book, cleanup, finished, request, faults>>
  BY DEF StartAttempt
<1>4. job' \in [Runs -> Job] /\ attempt' \in [Workers -> Attempt]
  <2>1. job' \in [Runs -> Job]
    BY <1>2 DEF TypeInv, TypeOK, Job
  <2>2. attempt' \in [Workers -> Attempt]
    BY <1>2 DEF TypeInv, TypeOK, Attempt
  <2> QED
    BY <2>1, <2>2
<1>5. TypeOK'
  BY <1>3, <1>4 DEF TypeInv, TypeOK
<1>6. InputsAimed' /\ RequestsOwnRuns'
  BY <1>1, <1>2, <1>3 DEF TypeInv, TypeOK, InputsAimed, RequestsOwnRuns, Job
<1>a. \A q \in Runs : q # r => job'[q] = job[q]
  BY <1>2 DEF TypeInv, TypeOK
<1>b. /\ job'[r].made = job[r].made /\ job'[r].stalls = job[r].stalls
      /\ job'[r].status = "active" \/ (job'[r].status = "completed" /\ job'[r].owner = None)
  <2>1. job[r] \in Job
    BY DEF TypeInv, TypeOK
  <2>2. job'[r] = Marked(job[r], "active", w) \/ job'[r] = [job[r] EXCEPT !.status = "completed"]
    BY <1>2 DEF TypeInv, TypeOK
  <2>3. CASE job'[r] = Marked(job[r], "active", w)
    BY <2>3
  <2>4. CASE job'[r] = [job[r] EXCEPT !.status = "completed"]
    BY <1>1, <2>1, <2>4 DEF Job
  <2> QED
    BY <2>2, <2>3, <2>4
<1>c. JobsBounded'
  BY <1>1, <1>a, <1>b DEF TypeInv, JobsBounded
<1>7. JobsBounded' /\ UnclaimedUnseen'
  BY <1>1, <1>3, <1>a, <1>c DEF TypeInv, UnclaimedUnseen
<1>8. AttemptsOwnRuns'
  BY <1>1, <1>2, <1>3 DEF TypeInv, TypeOK, AttemptsOwnRuns, Attempt
<1> QED
  BY <1>5, <1>6, <1>7, <1>8 DEF TypeInv

LEMMA RecordTypeInv ==
  ASSUME TypeInv, NEW w \in Workers, NEW id \in ToolCalls, NEW refs \in SUBSET ToolCalls,
         attempt[w].pc = "looping", Record(w, id, refs),
         workflow' \in {"on_shelf", "active_reading"}, current' \in Grounds \cup {None}, versions' \in Nat,
         UNCHANGED <<session, input, queue, finished, request, faults>>
  PROVE  TypeInv'
<1>1. attempt' \in [Workers -> Attempt]
  <2>1. [id |-> id, refs |-> refs, run |-> attempt[w].run] \in Message
    BY DEF TypeInv, TypeOK, AttemptsOwnRuns, Message
  <2> QED
    BY <2>1 DEF TypeInv, TypeOK, Attempt, Record
<1>2. TypeOK'
  BY <1>1 DEF TypeInv, TypeOK
<1>3. AttemptsOwnRuns'
  BY DEF TypeInv, TypeOK, AttemptsOwnRuns, Attempt, Record
<1>4. InputsAimed' /\ RequestsOwnRuns' /\ JobsBounded' /\ UnclaimedUnseen'
  BY DEF TypeInv, InputsAimed, RequestsOwnRuns, JobsBounded, UnclaimedUnseen
<1> QED
  BY <1>2, <1>3, <1>4 DEF TypeInv

LEMMA ToolStepTypeInv ==
  ASSUME TypeInv, NEW w \in Workers, ToolStep(w)
  PROVE  TypeInv'
<1>1. CASE Publish(w)
  BY <1>1, RecordTypeInv DEF Publish, CallTool, TypeInv, TypeOK, ToolCalls
<1>2. CASE PublishStrategy(w)
  BY <1>2, RecordTypeInv DEF PublishStrategy, CallTool, TypeInv, TypeOK, ToolCalls
<1>3. CASE GenerateTrial(w)
  BY <1>3, RecordTypeInv DEF GenerateTrial, CallTool, TypeInv, TypeOK, ToolCalls
<1>4. CASE CompleteSetup(w)
  BY <1>4, RecordTypeInv DEF CompleteSetup, CallTool, TypeInv, TypeOK, ToolCalls, Grounds
<1> QED
  BY <1>1, <1>2, <1>3, <1>4 DEF ToolStep

\* The queue part of the invariant survives an attempt that settles its job ...
LEMMA JobSettles ==
  ASSUME TypeInv, NEW w \in Workers, attempt[w].pc # "idle",
         (JobCompletes(w) /\ UNCHANGED cleanup) \/ JobThrows(w)
  PROVE  /\ job' \in [Runs -> Job] /\ cleanup' \in [Runs -> {"none", "pending", "cleared"}]
         /\ JobsBounded'
         /\ \A q \in Runs : q # attempt[w].run => job'[q] = job[q] /\ cleanup'[q] = cleanup[q]
         /\ \A q \in Runs : job'[q].status = "absent" <=> job[q].status = "absent"
         /\ cleanup' = cleanup \/ cleanup' = [cleanup EXCEPT ![attempt[w].run] = "pending"]
<1> DEFINE r == attempt[w].run
<1>1. r \in Runs /\ job[r] \in Job
  BY DEF TypeInv, TypeOK, AttemptsOwnRuns
<1>2. CASE UNCHANGED queue
  BY <1>2 DEF TypeInv, TypeOK, JobsBounded
<1>3. CASE job[r].owner = w
  <2>1. job[r].status = "active" /\ job[r].made < MaxAttempts /\ job[r].stalls <= MaxStalls
    BY <1>1, <1>3, NoneIsNoRun DEF TypeInv, JobsBounded
  <2>2. \E st \in {"completed", "waiting", "failed"}, n \in Nat :
          /\ job' = [job EXCEPT ![r] = [status |-> st, owner |-> None, made |-> n, stalls |-> @.stalls]]
          /\ st = "waiting" => n < MaxAttempts
          /\ n <= MaxAttempts
    <3>1. job[r].made \in Nat /\ job[r].made + 1 \in Nat /\ job[r].made + 1 <= MaxAttempts
      BY <1>1, <2>1, Bounds DEF Job
    <3>2. CASE JobCompletes(w)
      <4>1. job' = [job EXCEPT ![r] = [status |-> "completed", owner |-> None,
                                       made |-> job[r].made, stalls |-> @.stalls]]
        BY <1>3, <3>2 DEF JobCompletes
      <4>2. job[r].made <= MaxAttempts
        BY <3>1, Bounds
      <4> QED
        BY <3>1, <4>1, <4>2
    <3>3. CASE JobThrows(w)
      <4>1. job' = [job EXCEPT ![r] = [status |-> IF job[r].made + 1 >= MaxAttempts THEN "failed" ELSE "waiting",
                                       owner |-> None, made |-> job[r].made + 1, stalls |-> @.stalls]]
        BY <1>3, <3>3 DEF JobThrows
      <4>2. CASE job[r].made + 1 >= MaxAttempts
        BY <3>1, <4>1, <4>2
      <4>3. CASE ~ job[r].made + 1 >= MaxAttempts
        <5>1. job' = [job EXCEPT ![r] = [status |-> "waiting", owner |-> None,
                                         made |-> job[r].made + 1, stalls |-> @.stalls]]
          BY <4>1, <4>3
        <5>2. job[r].made + 1 < MaxAttempts
          BY <3>1, <4>3, Bounds
        <5> QED
          BY <3>1, <5>1, <5>2
      <4> QED
        BY <4>2, <4>3
    <3> QED
      BY <3>2, <3>3
  <2>a. PICK st \in {"completed", "waiting", "failed"}, n \in Nat :
          /\ job' = [job EXCEPT ![r] = [status |-> st, owner |-> None, made |-> n, stalls |-> @.stalls]]
          /\ st = "waiting" => n < MaxAttempts
          /\ n <= MaxAttempts
    BY <2>2
  <2>3. cleanup' = cleanup \/ cleanup' = [cleanup EXCEPT ![r] = "pending"]
    BY <1>1, <1>3 DEF JobCompletes, JobThrows
  <2>4. job' \in [Runs -> Job]
    BY <1>1, <2>a, Bounds DEF TypeInv, TypeOK, Job
  <2>5. /\ \A q \in Runs : q # r => job'[q] = job[q]
        /\ job'[r] = [status |-> job'[r].status, owner |-> None, made |-> job'[r].made, stalls |-> job[r].stalls]
        /\ job'[r].status \in {"completed", "waiting", "failed"}
        /\ job'[r].status = "waiting" => job'[r].made < MaxAttempts
    BY <1>1, <2>a DEF TypeInv, TypeOK
  <2>6. JobsBounded'
    BY <1>1, <2>1, <2>5 DEF TypeInv, JobsBounded
  <2> QED
    BY <1>1, <2>1, <2>3, <2>4, <2>5, <2>6 DEF TypeInv, TypeOK
<1> QED
  BY <1>2, <1>3 DEF JobCompletes, JobThrows

\* ... and the expiry of its lock.
LEMMA JobRequeues ==
  ASSUME TypeInv, NEW r \in Runs, Requeue(r)
  PROVE  /\ job' \in [Runs -> Job] /\ cleanup' \in [Runs -> {"none", "pending", "cleared"}]
         /\ JobsBounded'
         /\ \A q \in Runs : q # r => job'[q] = job[q] /\ cleanup'[q] = cleanup[q]
         /\ \A q \in Runs : job'[q].status = "absent" <=> job[q].status = "absent"
         /\ input[r] # NoInput
         /\ cleanup' = cleanup \/ cleanup' = [cleanup EXCEPT ![r] = "pending"]
<1>1. job[r] \in Job /\ job[r].status = "active" /\ job[r].made < MaxAttempts /\ job[r].stalls <= MaxStalls
  BY DEF TypeInv, TypeOK, JobsBounded, Requeue
<1> DEFINE st == IF job[r].stalls >= MaxStalls THEN "failed" ELSE "waiting"
<1>2. /\ job' = [job EXCEPT ![r] = [status |-> st, owner |-> None, made |-> job[r].made,
                                    stalls |-> job[r].stalls + 1]]
      /\ st = "waiting" => job[r].stalls + 1 <= MaxStalls
      /\ st \in {"waiting", "failed"}
  <2>1. job' = [job EXCEPT ![r] = [status |-> st, owner |-> None, made |-> job[r].made,
                                    stalls |-> job[r].stalls + 1]]
    BY DEF Requeue
  <2>2. st = "waiting" => job[r].stalls + 1 <= MaxStalls
    BY <1>1, Bounds DEF Job
  <2> QED
    BY <2>1, <2>2
<1> HIDE DEF st
<1>3. job' \in [Runs -> Job]
  BY <1>1, <1>2, Bounds DEF TypeInv, TypeOK, Job
<1>4. /\ \A q \in Runs : q # r => job'[q] = job[q]
      /\ job'[r].status = st /\ job'[r].owner = None
      /\ job'[r].made = job[r].made /\ job'[r].stalls = job[r].stalls + 1
  BY <1>1, <1>2 DEF TypeInv, TypeOK
<1>5. JobsBounded'
  BY <1>1, <1>2, <1>4 DEF TypeInv, JobsBounded
<1>6. cleanup' = cleanup \/ cleanup' = [cleanup EXCEPT ![r] = "pending"]
  BY DEF Requeue
<1>7. input[r] # NoInput
  BY <1>1 DEF TypeInv, UnclaimedUnseen
<1> QED
  BY <1>1, <1>2, <1>3, <1>4, <1>5, <1>6, <1>7 DEF TypeInv, TypeOK

\* An attempt that ends, or goes from its loop to its committed outcome.
LEMMA AttemptEndsTypeInv ==
  ASSUME TypeInv, NEW w \in Workers, attempt[w].pc # "idle",
         Leave(w) \/ attempt' = [attempt EXCEPT ![w].pc = "committed"],
         UNCHANGED queue \/ (JobCompletes(w) /\ UNCHANGED cleanup) \/ JobThrows(w),
         messages' \in SUBSET Message, actions' \in SUBSET Action, activeRun' \in {activeRun, None},
         finished' \in [Runs -> SUBSET {"completed", "failed"}],
         \A r \in Runs : finished'[r] = finished[r] \/ r = attempt[w].run,
         faults' \in 0..MaxFaults,
         UNCHANGED <<created, input, book, request>>
  PROVE  TypeInv'
<1>1. /\ job' \in [Runs -> Job] /\ cleanup' \in [Runs -> {"none", "pending", "cleared"}]
      /\ JobsBounded'
      /\ \A q \in Runs : q # attempt[w].run => job'[q] = job[q] /\ cleanup'[q] = cleanup[q]
      /\ \A q \in Runs : job'[q].status = "absent" <=> job[q].status = "absent"
  <2>1. CASE UNCHANGED queue
    BY <2>1 DEF TypeInv, TypeOK, JobsBounded
  <2>2. CASE (JobCompletes(w) /\ UNCHANGED cleanup) \/ JobThrows(w)
    BY <2>2, JobSettles
  <2> QED
    BY <2>1, <2>2
<1>2. attempt[w].run \in Runs /\ input[attempt[w].run] # NoInput
  BY DEF TypeInv, AttemptsOwnRuns
<1>3. attempt' \in [Workers -> Attempt]
  BY DEF TypeInv, TypeOK, Leave, NoAttempt, Attempt
<1>4. TypeOK'
  BY <1>1, <1>3 DEF TypeInv, TypeOK
<1>5. AttemptsOwnRuns'
  <2>1. \A v \in Workers : v # w => attempt'[v] = attempt[v]
    BY DEF TypeInv, TypeOK, Leave
  <2>2. attempt'[w] = NoAttempt \/ attempt'[w].run = attempt[w].run
    BY DEF TypeInv, TypeOK, Leave, Attempt
  <2> QED
    BY <1>2, <2>1, <2>2 DEF TypeInv, AttemptsOwnRuns, NoAttempt
<1>6. InputsAimed'
  BY DEF TypeInv, InputsAimed
<1>7. RequestsOwnRuns'
  BY <1>1 DEF TypeInv, RequestsOwnRuns
<1>8. UnclaimedUnseen'
  BY <1>1, <1>2, NoneIsNoRun DEF TypeInv, UnclaimedUnseen
<1> QED
  BY <1>1, <1>4, <1>5, <1>6, <1>7, <1>8 DEF TypeInv

LEMMA CommitRunTypeInv ==
  ASSUME TypeInv, NEW w \in Workers, CommitRun(w)
  PROVE  TypeInv'
<1> DEFINE r == attempt[w].run
<1>1. r \in Runs /\ attempt[w].pc = "looping" /\ attempt[w] \in Attempt
  BY DEF TypeInv, TypeOK, AttemptsOwnRuns, CommitRun
<1>2. Text(r) \in Message
  BY <1>1 DEF Text, Message
<1>3. ActionOf(r) \subseteq Action
  BY <1>1 DEF ActionOf, Action, TypeInv, TypeOK, InputsAimed, InputTypes
<1>4. messages' \in SUBSET Message /\ actions' \in SUBSET Action
  BY <1>1, <1>2, <1>3 DEF CommitRun, Attempt
<1>5. UNCHANGED queue \/ JobThrows(w)
  BY DEF CommitRun
<1>6. Leave(w) \/ attempt' = [attempt EXCEPT ![w].pc = "committed"]
  BY DEF CommitRun
<1>7. faults' \in 0..MaxFaults
  BY FailsBounded DEF CommitRun, TypeInv, TypeOK
<1>8. activeRun' = None /\ UNCHANGED <<created, input, book, finished, request>>
  BY DEF CommitRun
<1> QED
  BY <1>1, <1>4, <1>5, <1>6, <1>7, <1>8, AttemptEndsTypeInv DEF TypeInv, TypeOK

LEMMA AttemptStepTypeInv ==
  ASSUME TypeInv, NEW w \in Workers,
         CommitStale(w) \/ AttemptError(w) \/ PublishCompleted(w) \/ PublishError(w) \/ WorkerCrash(w)
  PROVE  TypeInv'
<1>1. /\ attempt[w].pc # "idle" /\ Leave(w)
      /\ UNCHANGED queue \/ (JobCompletes(w) /\ UNCHANGED cleanup) \/ JobThrows(w)
      /\ UNCHANGED <<session, input, book, request>>
      /\ finished' = finished \/ finished' = [finished EXCEPT ![attempt[w].run] = @ \cup {"completed"}]
  BY DEF CommitStale, AttemptError, PublishCompleted, PublishError, WorkerCrash
<1>2. faults' \in 0..MaxFaults
  BY FailsBounded DEF CommitStale, AttemptError, PublishCompleted, PublishError, WorkerCrash,
     TypeInv, TypeOK
<1>3. /\ finished' \in [Runs -> SUBSET {"completed", "failed"}]
      /\ \A r \in Runs : finished'[r] = finished[r] \/ r = attempt[w].run
  BY <1>1 DEF TypeInv, TypeOK
<1> QED
  BY <1>1, <1>2, <1>3, AttemptEndsTypeInv DEF TypeInv, TypeOK

LEMMA RequeueTypeInv ==
  ASSUME TypeInv, NEW r \in Runs, Stall(r) \/ RecoverCrashed(r)
  PROVE  TypeInv'
<1>1. Requeue(r) /\ faults' \in 0..MaxFaults
  BY FailsBounded DEF Stall, RecoverCrashed, TypeInv, TypeOK
<1>2. UNCHANGED <<session, input, book, finished, request, attempt>>
  BY <1>1 DEF Requeue
<1>3. TypeOK' /\ JobsBounded'
  BY <1>1, <1>2, JobRequeues DEF TypeInv, TypeOK
<1>4. InputsAimed' /\ AttemptsOwnRuns'
  BY <1>2 DEF TypeInv, InputsAimed, AttemptsOwnRuns
<1>5. RequestsOwnRuns' /\ UnclaimedUnseen'
  BY <1>1, <1>2, JobRequeues DEF TypeInv, RequestsOwnRuns, UnclaimedUnseen
<1> QED
  BY <1>3, <1>4, <1>5 DEF TypeInv

LEMMA CleanupTypeInv ==
  ASSUME TypeInv, NEW r \in Runs, FailRun(r) \/ PublishFailed(r) \/ CleanupLost(r)
  PROVE  TypeInv'
<1>1. /\ cleanup[r] # "none" /\ input[r] # NoInput
      /\ activeRun' \in {activeRun, None}
      /\ UNCHANGED <<created, messages, actions, input, book, job, request, attempt>>
  BY DEF FailRun, PublishFailed, CleanupLost, Release, TypeInv, UnclaimedUnseen
<1>2. /\ cleanup' \in [Runs -> {"none", "pending", "cleared"}]
      /\ \A q \in Runs : q # r => cleanup'[q] = cleanup[q]
  BY DEF FailRun, PublishFailed, CleanupLost, TypeInv, TypeOK
<1>3. /\ finished' \in [Runs -> SUBSET {"completed", "failed"}]
      /\ \A q \in Runs : q # r => finished'[q] = finished[q]
  BY DEF FailRun, PublishFailed, CleanupLost, TypeInv, TypeOK
<1>4. faults' \in 0..MaxFaults
  BY FailsBounded DEF FailRun, PublishFailed, CleanupLost, TypeInv, TypeOK
<1>5. TypeOK'
  BY <1>1, <1>2, <1>3, <1>4 DEF TypeInv, TypeOK
<1>6. InputsAimed' /\ RequestsOwnRuns' /\ JobsBounded' /\ AttemptsOwnRuns'
  BY <1>1 DEF TypeInv, InputsAimed, RequestsOwnRuns, JobsBounded, AttemptsOwnRuns
<1>7. UnclaimedUnseen'
  BY <1>1, <1>2, <1>3, NoneIsNoRun DEF TypeInv, UnclaimedUnseen
<1> QED
  BY <1>5, <1>6, <1>7 DEF TypeInv

LEMMA TypeInvStep == TypeInv /\ [Next]_vars => TypeInv'
<1> SUFFICES ASSUME TypeInv, [Next]_vars PROVE TypeInv'
  OBVIOUS
<1>1. CASE UNCHANGED vars
  BY <1>1 DEF vars, TypeInv, TypeOK, InputsAimed, RequestsOwnRuns, JobsBounded, UnclaimedUnseen,
     AttemptsOwnRuns
<1>2. ASSUME NEW c \in Requests, RequestStep(c) PROVE TypeInv'
  <2>1. CASE \E in \in UserInput : Submit(c, in)
    BY <2>1, SubmitTypeInv
  <2>2. CASE ClaimRun(c) \/ ClaimInitialRun(c)
    BY <2>2, ClaimRunTypeInv
  <2>3. CASE Enqueue(c) \/ EnqueueError(c)
    BY <2>3, EnqueueTypeInv
  <2>4. CASE CheckEligible(c) \/ Enter(c) \/ LoadOrCreate(c)
    BY <2>4, RequestMovesTypeInv DEF CheckEligible, Enter, LoadOrCreate, TypeInv, TypeOK
  <2>5. CASE UndoClaim(c) \/ ApiCrash(c)
    BY <2>5, RequestMovesTypeInv, FailsBounded DEF UndoClaim, Release, ApiCrash, TypeInv, TypeOK
  <2> QED
    BY <1>2, <2>1, <2>2, <2>3, <2>4, <2>5 DEF RequestStep
<1>3. ASSUME NEW w \in Workers, WorkerStep(w) PROVE TypeInv'
  BY <1>3, StartAttemptTypeInv, ToolStepTypeInv, CommitRunTypeInv, AttemptStepTypeInv
     DEF WorkerStep
<1>4. ASSUME NEW r \in Runs, QueueStep(r) PROVE TypeInv'
  BY <1>4, RequeueTypeInv, CleanupTypeInv DEF QueueStep
<1> QED
  BY <1>1, <1>2, <1>3, <1>4 DEF Next

\* Type correctness: whatever requests, attempts and failures do, every row, job
\* and attempt keeps its shape, and no job uses more attempts or stalls than
\* AGENT_RUN_DEFAULT_JOB_OPTIONS and the worker settings grant.
THEOREM TypeCorrect == Spec => []TypeOK
<1>1. Spec => []TypeInv
  BY TypeInvInit, TypeInvStep, PTL DEF Spec
<1>2. TypeInv => TypeOK
  BY DEF TypeInv
<1> QED
  BY <1>1, <1>2, PTL

(***************************************************************************)
(* Who writes what                                                         *)
(***************************************************************************)
LEMMA HistoryWriters ==
  ASSUME [Next]_vars
  PROVE  UNCHANGED <<messages, actions>> \/ \E w \in Workers : CommitRun(w)
<1>1. ASSUME NEW c \in Requests, RequestStep(c) PROVE UNCHANGED <<messages, actions>>
  BY <1>1
  DEF RequestStep, Submit, CheckEligible, ClaimRun, Enter, LoadOrCreate, ClaimInitialRun, Enqueue,
      EnqueueError, UndoClaim, ApiCrash
<1>2. ASSUME NEW w \in Workers, WorkerStep(w), ~ CommitRun(w) PROVE UNCHANGED <<messages, actions>>
  BY <1>2
  DEF WorkerStep, StartAttempt, ToolStep, Publish, PublishStrategy, GenerateTrial, CompleteSetup,
      CommitStale, AttemptError, PublishCompleted, PublishError, WorkerCrash
<1>3. ASSUME NEW r \in Runs, QueueStep(r) PROVE UNCHANGED <<messages, actions>>
  BY <1>3 DEF QueueStep, Stall, RecoverCrashed, Requeue, FailRun, PublishFailed, CleanupLost
<1> QED
  BY <1>1, <1>2, <1>3 DEF Next, vars

\* Claiming a session: some request takes a run id nobody had, for a session
\* that no run holds.
Claims(c, r) ==
  /\ activeRun = None /\ activeRun' = r
  /\ input[r] = NoInput /\ input' = [input EXCEPT ![r] = input'[r]]
  /\ \/ request[c].pc = "eligible" /\ input'[r] = request[c].input
     \/ /\ request[c].pc = "initial" /\ input'[r] = [type |-> "session_start", target |-> None]
        /\ messages = {} /\ actions = {}
  /\ request' = [request EXCEPT ![c] = [pc |-> "claimed", input |-> @.input, run |-> r]]
  /\ UNCHANGED <<created, messages, actions, book, queue, finished, attempt, faults>>

LEMMA SessionWriters ==
  ASSUME TypeInv, [Next]_vars
  PROVE  \/ activeRun' \in {activeRun, None} /\ UNCHANGED input
         \/ \E c \in Requests, r \in Runs : Claims(c, r)
<1>1. ASSUME NEW c \in Requests, RequestStep(c)
      PROVE  \/ activeRun' \in {activeRun, None} /\ UNCHANGED input
             \/ \E r \in Runs : Claims(c, r)
  <2>1. CASE ClaimRun(c)
    BY <2>1 DEF ClaimRun, Claims, Answer, TypeInv, TypeOK
  <2>2. CASE ClaimInitialRun(c)
    BY <2>2 DEF ClaimInitialRun, Claims, Answer, TypeInv, TypeOK
  <2>3. CASE ~ ClaimRun(c) /\ ~ ClaimInitialRun(c)
    BY <1>1, <2>3
    DEF RequestStep, Submit, CheckEligible, Enter, LoadOrCreate, Enqueue, EnqueueError, UndoClaim,
        Release, ApiCrash
  <2> QED
    BY <2>1, <2>2, <2>3
<1>2. ASSUME NEW w \in Workers, WorkerStep(w) PROVE activeRun' \in {activeRun, None} /\ UNCHANGED input
  BY <1>2
  DEF WorkerStep, StartAttempt, ToolStep, Publish, PublishStrategy, GenerateTrial, CompleteSetup,
      CommitRun, CommitStale, AttemptError, PublishCompleted, PublishError, WorkerCrash
<1>3. ASSUME NEW r \in Runs, QueueStep(r) PROVE activeRun' \in {activeRun, None} /\ UNCHANGED input
  BY <1>3 DEF QueueStep, Stall, RecoverCrashed, Requeue, FailRun, Release, PublishFailed,
     CleanupLost
<1> QED
  BY <1>1, <1>2, <1>3 DEF Next, vars

\* An attempt begins with the copy of the session its run holds.
Begins(w) ==
  /\ attempt' = [attempt EXCEPT ![w] = [pc |-> "looping", run |-> activeRun, messages |-> messages,
                                        actions |-> actions, fresh |-> {}]]
  /\ activeRun \in Runs
  /\ UNCHANGED <<session, input, book, cleanup, finished, request, faults>>

Commits(w) ==
  CommitRun(w) /\ attempt' = [attempt EXCEPT ![w].pc = "committed"] /\ UNCHANGED <<queue, faults>>

LEMMA AttemptWriters ==
  ASSUME [Next]_vars
  PROVE  \/ attempt' = attempt
         \/ \E w \in Workers : Leave(w) \/ Begins(w) \/ ToolStep(w) \/ Commits(w)
<1>1. ASSUME NEW c \in Requests, RequestStep(c) PROVE attempt' = attempt
  BY <1>1
  DEF RequestStep, Submit, CheckEligible, ClaimRun, Enter, LoadOrCreate, ClaimInitialRun, Enqueue,
      EnqueueError, UndoClaim, ApiCrash
<1>2. ASSUME NEW w \in Workers, WorkerStep(w)
      PROVE  attempt' = attempt \/ Leave(w) \/ Begins(w) \/ ToolStep(w) \/ Commits(w)
  <2>1. ASSUME NEW r \in Runs, StartAttempt(w, r) PROVE attempt' = attempt \/ Begins(w)
    BY <2>1 DEF StartAttempt, Begins
  <2>2. CASE CommitRun(w)
    BY <2>2 DEF CommitRun, Commits
  <2>3. CASE CommitStale(w) \/ AttemptError(w) \/ PublishCompleted(w) \/ PublishError(w) \/ WorkerCrash(w)
    BY <2>3 DEF CommitStale, AttemptError, PublishCompleted, PublishError, WorkerCrash
  <2> QED
    BY <1>2, <2>1, <2>2, <2>3 DEF WorkerStep
<1>3. ASSUME NEW r \in Runs, QueueStep(r) PROVE attempt' = attempt
  BY <1>3 DEF QueueStep, Stall, RecoverCrashed, Requeue, FailRun, PublishFailed, CleanupLost
<1> QED
  BY <1>1, <1>2, <1>3 DEF Next, vars

\* What a tool step adds to its attempt.
LEMMA ToolStepRecords ==
  ASSUME TypeInv, NEW w \in Workers, ToolStep(w)
  PROVE  /\ attempt[w].pc = "looping"
         /\ UNCHANGED <<session, input, queue, finished, request, faults>>
         /\ \E id \in ToolCalls, refs \in SUBSET ToolCalls : Record(w, id, refs)
<1>1. CASE Publish(w)
  BY <1>1 DEF Publish, CallTool, ToolCalls
<1>2. CASE PublishStrategy(w)
  BY <1>2 DEF PublishStrategy, CallTool, ToolCalls
<1>3. CASE GenerateTrial(w)
  BY <1>3 DEF GenerateTrial, CallTool, ToolCalls
<1>4. CASE CompleteSetup(w)
  BY <1>4 DEF CompleteSetup, CallTool, ToolCalls
<1> QED
  BY <1>1, <1>2, <1>3, <1>4 DEF ToolStep

\* The same, seen from one attempt.
LEMMA AttemptChanges ==
  ASSUME TypeInv, [Next]_vars, NEW w \in Workers
  PROVE  \/ attempt'[w] = attempt[w]
         \/ attempt'[w] = NoAttempt
         \/ /\ attempt'[w] = [pc |-> "looping", run |-> activeRun, messages |-> messages,
                              actions |-> actions, fresh |-> {}]
            /\ activeRun \in Runs
            /\ UNCHANGED <<session, input>>
         \/ /\ ToolStep(w)
            /\ \E c \in Message : /\ c.id \in ToolCalls /\ c.run = attempt[w].run
                                  /\ attempt'[w] = [attempt[w] EXCEPT !.fresh = @ \cup {c}]
         \/ Commits(w) /\ attempt'[w] = [attempt[w] EXCEPT !.pc = "committed"]
<1>1. CASE attempt' = attempt
  BY <1>1
<1>2. ASSUME NEW v \in Workers, Leave(v) PROVE attempt'[w] \in {attempt[w], NoAttempt}
  BY <1>2 DEF Leave, TypeInv, TypeOK
<1>3. ASSUME NEW v \in Workers, Begins(v)
      PROVE  \/ attempt'[w] = attempt[w]
             \/ /\ attempt'[w] = [pc |-> "looping", run |-> activeRun, messages |-> messages,
                                  actions |-> actions, fresh |-> {}]
                /\ activeRun \in Runs
                /\ UNCHANGED <<session, input>>
  BY <1>3 DEF Begins, TypeInv, TypeOK
<1>4. ASSUME NEW v \in Workers, ToolStep(v)
      PROVE  \/ attempt'[w] = attempt[w]
             \/ /\ ToolStep(w)
                /\ \E c \in Message : /\ c.id \in ToolCalls /\ c.run = attempt[w].run
                                      /\ attempt'[w] = [attempt[w] EXCEPT !.fresh = @ \cup {c}]
  <2>1. /\ attempt[v].pc = "looping"
        /\ \E id \in ToolCalls, refs \in SUBSET ToolCalls : Record(v, id, refs)
    BY <1>4, ToolStepRecords
  <2>2. PICK id \in ToolCalls, refs \in SUBSET ToolCalls : Record(v, id, refs)
    BY <2>1
  <2>3. CASE v = w
    <3> DEFINE c == [id |-> id, refs |-> refs, run |-> attempt[w].run]
    <3>1. c \in Message
      BY <2>1, <2>3 DEF TypeInv, AttemptsOwnRuns, Message
    <3>2. attempt'[w] = [attempt[w] EXCEPT !.fresh = @ \cup {c}]
      BY <2>2, <2>3 DEF Record, TypeInv, TypeOK
    <3> QED
      BY <1>4, <2>3, <3>1, <3>2
  <2>4. CASE v # w
    BY <2>2, <2>4 DEF Record, TypeInv, TypeOK
  <2> QED
    BY <2>3, <2>4
<1>5. ASSUME NEW v \in Workers, Commits(v)
      PROVE  \/ attempt'[w] = attempt[w]
             \/ Commits(w) /\ attempt'[w] = [attempt[w] EXCEPT !.pc = "committed"]
  BY <1>5 DEF Commits, TypeInv, TypeOK
<1> QED
  BY <1>1, <1>2, <1>3, <1>4, <1>5, AttemptWriters

(***************************************************************************)
(* The session's history                                                   *)
(***************************************************************************)
\* What an attempt has produced is its run's own, and an attempt past its commit
\* is recognisable in the row.
AttemptsHonest ==
  \A w \in Workers :
    /\ \A c \in attempt[w].fresh : c.id \in ToolCalls /\ c.run = attempt[w].run
    /\ attempt[w].pc = "committed" => Committed(attempt[w].run)

\* A run commits once: from then on it does not hold the session.
CommittedRunsRetired == \A r \in Runs : Committed(r) => input[r] # NoInput /\ activeRun # r

HistoryInv == TypeInv /\ SnapshotFresh /\ AttemptsHonest /\ CommittedRunsRetired

LEMMA HistoryInvInit == Init => HistoryInv
BY TypeInvInit DEF Init, HistoryInv, SnapshotFresh, AttemptsHonest, CommittedRunsRetired,
   Committed, NoAttempt

\* A commit extends the history, by entries of the run that held the session.
LEMMA CommitExtends ==
  ASSUME HistoryInv, NEW w \in Workers, CommitRun(w)
  PROVE  LET r == attempt[w].run IN
         /\ r \in Runs /\ activeRun = r /\ activeRun' = None
         /\ messages' = messages \cup attempt[w].fresh \cup {Text(r)}
         /\ actions' = actions \cup ActionOf(r)
         /\ \A m \in attempt[w].fresh \cup {Text(r)} \cup ActionOf(r) : m.run = r
         /\ \A q \in Runs : Committed(q)' <=> Committed(q) \/ q = r
<1> DEFINE r == attempt[w].run
<1>1. r \in Runs /\ activeRun = r /\ activeRun' = None
  BY DEF HistoryInv, TypeInv, AttemptsOwnRuns, CommitRun
<1>2. messages' = messages \cup attempt[w].fresh \cup {Text(r)} /\ actions' = actions \cup ActionOf(r)
  BY <1>1 DEF HistoryInv, SnapshotFresh, CommitRun
<1>3. \A m \in attempt[w].fresh \cup {Text(r)} \cup ActionOf(r) : m.run = r
  BY DEF HistoryInv, AttemptsHonest, Text, ActionOf
<1>4. \A c \in attempt[w].fresh : c.id # Prose
  BY ReadingSetupAssumption DEF HistoryInv, AttemptsHonest
<1>5. ASSUME NEW q \in Runs PROVE Committed(q)' <=> Committed(q) \/ q = r
  <2>1. Text(r).id = Prose /\ Text(r).run = r
    BY DEF Text
  <2>2. Committed(q)' <=> \E m \in messages' : m.id = Prose /\ m.run = q
    BY DEF Committed
  <2> HIDE DEF r
  <2> QED
    BY <1>2, <1>4, <2>1, <2>2 DEF Committed
<1> QED
  BY <1>1, <1>2, <1>3, <1>5

LEMMA HistoryInvStep == HistoryInv /\ [Next]_vars => HistoryInv'
<1> SUFFICES ASSUME HistoryInv, [Next]_vars PROVE HistoryInv'
  OBVIOUS
<1>1. TypeInv /\ TypeInv'
  BY TypeInvStep DEF HistoryInv
<1>2. \A r \in Runs : input[r] # NoInput => input'[r] # NoInput /\ (activeRun # r => activeRun' # r)
  BY <1>1, SessionWriters, NoneIsNoRun DEF Claims, TypeInv, TypeOK
<1>3. SnapshotFresh'
  <2> SUFFICES ASSUME NEW w \in Workers, attempt'[w].pc = "looping", attempt'[w].run = activeRun'
               PROVE  attempt'[w].messages = messages' /\ attempt'[w].actions = actions'
    BY DEF SnapshotFresh
  <2>1. activeRun' \in Runs
    BY <1>1 DEF TypeInv, AttemptsOwnRuns
  <2>2. UNCHANGED <<messages, actions>>
    BY <2>1, HistoryWriters, NoneIsNoRun DEF CommitRun
  <2>3. CASE attempt'[w].run = attempt[w].run /\ attempt[w].pc = "looping"
             /\ attempt'[w].messages = attempt[w].messages /\ attempt'[w].actions = attempt[w].actions
    <3>1. input[attempt[w].run] # NoInput
      BY <1>1, <2>3 DEF TypeInv, AttemptsOwnRuns
    <3>2. activeRun = attempt[w].run
      BY <1>2, <2>1, <2>3, <3>1
    <3> QED
      BY <2>2, <2>3, <3>2 DEF HistoryInv, SnapshotFresh
  <2>4. CASE attempt'[w] = [pc |-> "looping", run |-> activeRun, messages |-> messages,
                            actions |-> actions, fresh |-> {}]
    BY <2>2, <2>4
  <2>5. attempt[w] \in Attempt
    BY <1>1 DEF TypeInv, TypeOK
  <2>6. CASE attempt'[w] = attempt[w]
    BY <2>3, <2>6
  <2>7. CASE attempt'[w] = NoAttempt
    BY <2>7 DEF NoAttempt
  <2>8. ASSUME ToolStep(w), NEW c, attempt'[w] = [attempt[w] EXCEPT !.fresh = @ \cup {c}]
        PROVE  attempt'[w].messages = messages' /\ attempt'[w].actions = actions'
    BY <1>1, <2>3, <2>5, <2>8, ToolStepRecords DEF Attempt
  <2>9. CASE attempt'[w] = [attempt[w] EXCEPT !.pc = "committed"]
    BY <2>5, <2>9 DEF Attempt
  <2> QED
    BY <1>1, <2>4, <2>6, <2>7, <2>8, <2>9, AttemptChanges
<1>4. CommittedRunsRetired'
  <2>1. CASE UNCHANGED <<messages, actions>>
    BY <1>2, <2>1 DEF HistoryInv, CommittedRunsRetired, Committed
  <2>2. ASSUME NEW w \in Workers, CommitRun(w) PROVE CommittedRunsRetired'
    BY <1>1, <1>2, <2>2, CommitExtends, NoneIsNoRun
    DEF HistoryInv, CommittedRunsRetired, TypeInv, AttemptsOwnRuns, CommitRun
  <2> QED
    BY <2>1, <2>2, HistoryWriters
<1>5. AttemptsHonest'
  <2>1. \A q \in Runs : Committed(q) => Committed(q)'
    BY HistoryWriters, CommitExtends DEF Committed
  <2> SUFFICES ASSUME NEW w \in Workers
               PROVE  /\ \A c \in attempt'[w].fresh : c.id \in ToolCalls /\ c.run = attempt'[w].run
                      /\ attempt'[w].pc = "committed" => Committed(attempt[w].run)'
    BY DEF AttemptsHonest, Committed
  <2>2. attempt[w] \in Attempt /\ (attempt[w].pc # "idle" => attempt[w].run \in Runs)
    BY <1>1 DEF TypeInv, TypeOK, AttemptsOwnRuns
  <2>3. CASE attempt'[w] = attempt[w]
    BY <2>1, <2>2, <2>3 DEF HistoryInv, AttemptsHonest, Committed
  <2>4. CASE attempt'[w] = NoAttempt
    BY <2>4 DEF NoAttempt
  <2>5. CASE attempt'[w] = [pc |-> "looping", run |-> activeRun, messages |-> messages,
                            actions |-> actions, fresh |-> {}]
    BY <2>5
  <2>6. ASSUME ToolStep(w), NEW c \in Message, c.id \in ToolCalls, c.run = attempt[w].run,
               attempt'[w] = [attempt[w] EXCEPT !.fresh = @ \cup {c}]
        PROVE  /\ \A d \in attempt'[w].fresh : d.id \in ToolCalls /\ d.run = attempt'[w].run
               /\ attempt'[w].pc # "committed"
    BY <1>1, <2>2, <2>6, ToolStepRecords DEF HistoryInv, AttemptsHonest, Attempt
  <2>7. CASE Commits(w) /\ attempt'[w] = [attempt[w] EXCEPT !.pc = "committed"]
    <3>1. \E m \in messages' : m.id = Prose /\ m.run = attempt[w].run
      BY <2>7, CommitExtends DEF Commits, Text
    <3>2. attempt'[w].run = attempt[w].run /\ attempt'[w].fresh = attempt[w].fresh
      BY <2>2, <2>7 DEF Attempt
    <3> QED
      BY <3>1, <3>2 DEF HistoryInv, AttemptsHonest, Committed
  <2> QED
    BY <1>1, <2>3, <2>4, <2>5, <2>6, <2>7, AttemptChanges
<1> QED
  BY <1>1, <1>3, <1>4, <1>5 DEF HistoryInv

LEMMA HistoryInvariant == Spec => []HistoryInv
BY HistoryInvInit, HistoryInvStep, PTL DEF Spec

\* No lost update: commitRun replaces the whole agent state, and the copy it is
\* replaced by was extended from the state the row still has.
THEOREM SnapshotsAreFresh == Spec => []SnapshotFresh
<1>1. HistoryInv => SnapshotFresh
  BY DEF HistoryInv
<1> QED
  BY <1>1, HistoryInvariant, PTL

\* The fence of commitRun and claimRun: only the run named by active_run_id
\* extends the history, once, in the step in which it gives the session up,
\* however many attempts of however many runs are still executing.
THEOREM OnlyTheActiveRunWrites == Spec => OnlyActiveRunWrites
<1>1. ASSUME HistoryInv, [Next]_vars PROVE [FencedStep]_vars
  <2>1. CASE UNCHANGED <<messages, actions>>
    <3>1. activeRun # None => activeRun' \in {activeRun, None}
      BY <1>1, SessionWriters DEF HistoryInv, Claims
    <3> QED
      BY <2>1, <3>1 DEF FencedStep
  <2>2. ASSUME NEW w \in Workers, CommitRun(w) PROVE FencedStep
    BY <1>1, <2>2, CommitExtends, NoneIsNoRun DEF FencedStep
  <2> QED
    BY <1>1, <2>1, <2>2, HistoryWriters
<1> QED
  BY <1>1, HistoryInvariant, PTL DEF Spec, OnlyActiveRunWrites

\* A run that lost the session (it committed, failed, or was undone by the
\* API) never holds it again and never commits again.
THEOREM RetiredRuns == Spec => RetiredRunsStayRetired
<1>1. ASSUME HistoryInv, [Next]_vars PROVE [RetiredStep]_vars
  <2> SUFFICES ASSUME NEW r \in Runs, input[r] # NoInput, activeRun # r
               PROVE  activeRun' # r /\ (Committed(r)' => Committed(r))
    BY DEF RetiredStep
  <2>1. activeRun' # r
    BY <1>1, SessionWriters, NoneIsNoRun DEF HistoryInv, Claims
  <2>2. Committed(r)' => Committed(r)
    BY <1>1, HistoryWriters, CommitExtends DEF Committed
  <2> QED
    BY <2>1, <2>2
<1> QED
  BY <1>1, HistoryInvariant, PTL DEF Spec, RetiredRunsStayRetired

(***************************************************************************)
(* Terminal events                                                         *)
(***************************************************************************)
\* A failure handler between its UPDATE and its event speaks for a run that has
\* given the session up without committing.
FailuresSettled == \A r \in Runs : cleanup[r] = "cleared" => ~ Committed(r) /\ activeRun # r

TerminalInv == FailuresSettled /\ TerminalEventTruthful

LEMMA FinishedWriters ==
  ASSUME [Next]_vars
  PROVE  \/ finished' = finished
         \/ \E w \in Workers : PublishCompleted(w)
         \/ \E r \in Runs : PublishFailed(r)
<1>1. ASSUME NEW c \in Requests, RequestStep(c) PROVE finished' = finished
  BY <1>1
  DEF RequestStep, Submit, CheckEligible, ClaimRun, Enter, LoadOrCreate, ClaimInitialRun, Enqueue,
      EnqueueError, UndoClaim, ApiCrash
<1>2. ASSUME NEW w \in Workers, WorkerStep(w), ~ PublishCompleted(w) PROVE finished' = finished
  BY <1>2
  DEF WorkerStep, StartAttempt, ToolStep, Publish, PublishStrategy, GenerateTrial, CompleteSetup,
      CommitRun, CommitStale, AttemptError, PublishError, WorkerCrash
<1>3. ASSUME NEW r \in Runs, QueueStep(r), ~ PublishFailed(r) PROVE finished' = finished
  BY <1>3 DEF QueueStep, Stall, RecoverCrashed, Requeue, FailRun, CleanupLost
<1> QED
  BY <1>1, <1>2, <1>3 DEF Next, vars

LEMMA CleanupWriters ==
  ASSUME TypeInv, [Next]_vars, NEW r \in Runs, cleanup'[r] = "cleared", cleanup[r] # "cleared"
  PROVE  FailRun(r)
<1>1. ASSUME NEW c \in Requests, RequestStep(c) PROVE FALSE
  BY <1>1
  DEF RequestStep, Submit, CheckEligible, ClaimRun, Enter, LoadOrCreate, ClaimInitialRun, Enqueue,
      EnqueueError, UndoClaim, ApiCrash
<1>2. ASSUME NEW w \in Workers, WorkerStep(w) PROVE FALSE
  <2>1. cleanup' = cleanup \/ JobThrows(w)
    BY <1>2
    DEF WorkerStep, StartAttempt, ToolStep, Publish, PublishStrategy, GenerateTrial, CompleteSetup,
        CommitRun, CommitStale, AttemptError, PublishCompleted, PublishError, WorkerCrash
  <2>2. cleanup' = cleanup \/ cleanup' = [cleanup EXCEPT ![attempt[w].run] = "pending"]
    BY <2>1 DEF JobThrows
  <2> QED
    BY <2>2 DEF TypeInv, TypeOK
<1>3. ASSUME NEW q \in Runs, QueueStep(q) PROVE FailRun(r)
  <2>1. CASE Stall(q) \/ RecoverCrashed(q)
    BY <2>1, JobRequeues DEF Stall, RecoverCrashed, TypeInv, TypeOK
  <2>2. CASE FailRun(q)
    BY <2>2 DEF FailRun, TypeInv, TypeOK
  <2>3. CASE PublishFailed(q) \/ CleanupLost(q)
    BY <2>3 DEF PublishFailed, CleanupLost, TypeInv, TypeOK
  <2> QED
    BY <1>3, <2>1, <2>2, <2>3 DEF QueueStep
<1> QED
  BY <1>1, <1>2, <1>3 DEF Next, vars

LEMMA TerminalInvStep == HistoryInv /\ TerminalInv /\ [Next]_vars => TerminalInv'
<1> SUFFICES ASSUME HistoryInv, TerminalInv, [Next]_vars PROVE TerminalInv'
  OBVIOUS
<1>1. \A r \in Runs : /\ Committed(r) => Committed(r)'
                      /\ input[r] # NoInput /\ activeRun # r => activeRun' # r /\ (Committed(r)' => Committed(r))
  <2>1. ASSUME NEW r \in Runs, input[r] # NoInput, activeRun # r PROVE activeRun' # r
    BY <2>1, SessionWriters, NoneIsNoRun DEF HistoryInv, Claims
  <2>2. ASSUME NEW r \in Runs, activeRun # r, Committed(r)' PROVE Committed(r)
    BY <2>2, HistoryWriters, CommitExtends DEF Committed
  <2>3. ASSUME NEW r \in Runs, Committed(r) PROVE Committed(r)'
    BY <2>3, HistoryWriters, CommitExtends DEF Committed
  <2> QED
    BY <2>1, <2>2, <2>3
<1>2. \A w \in Workers : attempt[w].pc = "committed" => attempt[w].run \in Runs /\ Committed(attempt[w].run)
  BY DEF HistoryInv, AttemptsHonest, TypeInv, AttemptsOwnRuns
<1>3. \A r \in Runs : cleanup[r] # "none" \/ finished[r] # {} => input[r] # NoInput
  BY DEF HistoryInv, TypeInv, UnclaimedUnseen
<1>4. FailuresSettled'
  <2> SUFFICES ASSUME NEW r \in Runs, cleanup'[r] = "cleared"
               PROVE  ~ Committed(r)' /\ activeRun' # r
    BY DEF FailuresSettled
  <2>1. CASE cleanup[r] = "cleared"
    BY <1>1, <1>3, <2>1 DEF TerminalInv, FailuresSettled
  <2>2. CASE FailRun(r)
    <3>1. activeRun = r /\ activeRun' = None
      BY <2>2 DEF FailRun, Release, HistoryInv, TypeInv, TypeOK
    <3>2. ~ Committed(r) /\ UNCHANGED messages
      BY <2>2, <3>1 DEF FailRun, HistoryInv, CommittedRunsRetired
    <3> QED
      BY <3>1, <3>2, NoneIsNoRun DEF Committed
  <2> QED
    BY <2>1, <2>2, CleanupWriters DEF HistoryInv
<1>5. TerminalEventTruthful'
  <2> SUFFICES ASSUME NEW r \in Runs
               PROVE  /\ "completed" \in finished'[r] => Committed(r)'
                      /\ "failed" \in finished'[r] => ~ Committed(r)' /\ activeRun' # r
    BY DEF TerminalEventTruthful
  <2>1. /\ "completed" \in finished'[r] => "completed" \in finished[r] \/ Committed(r)
        /\ "failed" \in finished'[r] => "failed" \in finished[r] \/ cleanup[r] = "cleared"
    <3>1. CASE finished' = finished
      BY <3>1
    <3>2. ASSUME NEW w \in Workers, PublishCompleted(w)
          PROVE  /\ "completed" \in finished'[r] => "completed" \in finished[r] \/ Committed(r)
                 /\ "failed" \in finished'[r] => "failed" \in finished[r]
      BY <1>2, <3>2 DEF PublishCompleted, HistoryInv, TypeInv, TypeOK
    <3>3. ASSUME NEW q \in Runs, PublishFailed(q)
          PROVE  /\ "completed" \in finished'[r] => "completed" \in finished[r]
                 /\ "failed" \in finished'[r] => "failed" \in finished[r] \/ cleanup[r] = "cleared"
      BY <3>3 DEF PublishFailed, HistoryInv, TypeInv, TypeOK
    <3> QED
      BY <3>1, <3>2, <3>3, FinishedWriters
  <2>2. "failed" \in finished[r] \/ cleanup[r] = "cleared" => ~ Committed(r) /\ activeRun # r /\ input[r] # NoInput
    BY <1>3 DEF TerminalInv, FailuresSettled, TerminalEventTruthful
  <2>3. "completed" \in finished[r] => Committed(r)
    BY DEF TerminalInv, TerminalEventTruthful
  <2> QED
    BY <1>1, <2>1, <2>2, <2>3
<1> QED
  BY <1>4, <1>5 DEF TerminalInv

LEMMA TerminalInvariant == Spec => [](HistoryInv /\ TerminalInv)
<1>1. Init => TerminalInv
  BY DEF Init, TerminalInv, FailuresSettled, TerminalEventTruthful
<1> QED
  BY <1>1, HistoryInvInit, HistoryInvStep, TerminalInvStep, PTL DEF Spec

\* run_finished(completed) is only published of a run whose history is saved,
\* run_finished(failed) only of one that saved nothing and never will.
THEOREM TerminalEvents == Spec => []TerminalEventTruthful
<1>1. TerminalInv => TerminalEventTruthful
  BY DEF TerminalInv
<1> QED
  BY <1>1, TerminalInvariant, PTL

(***************************************************************************)
(* Consent and activation                                                  *)
(***************************************************************************)
\* A saved user action is the input its run was claimed for.
ActionsFollowInputs == \A a \in actions : input[a.run] = [type |-> a.type, target |-> a.target]

\* The strategy a trial was generated from, confirmed as the attempt saw it.
FromConfirmed(w, c) ==
  \E s \in Strategies : c.refs = {s} /\ Confirmed(w, s) /\ Successful(History(w), s)

FreshTrialsConfirmed ==
  \A w \in Workers : attempt[w].pc = "looping" =>
    \A c \in attempt[w].fresh : c.id \in Trials => FromConfirmed(w, c)

ConsentInv ==
  ActionsFollowInputs /\ FreshTrialsConfirmed /\ TrialsFollowConsent /\ ActivatedOnce /\ ActivationAuthorized

\* complete_reading_setup finds the book on the shelf and activates it.
Activates(w, t, s) ==
  /\ attempt[w].pc = "looping" /\ activeRun = attempt[w].run /\ ActivationChain(w, t, s)
  /\ workflow = "on_shelf" /\ workflow' = "active_reading"
  /\ versions' = versions + 1 /\ current' = [trial |-> t, strategy |-> s]
  /\ UNCHANGED <<session, input, queue, finished, request, faults>>

LEMMA BookWriters ==
  ASSUME [Next]_vars
  PROVE  \/ UNCHANGED book
         \/ \E w \in Workers, t \in Trials, s \in Strategies : Activates(w, t, s)
<1>1. ASSUME NEW c \in Requests, RequestStep(c) PROVE UNCHANGED book
  BY <1>1
  DEF RequestStep, Submit, CheckEligible, ClaimRun, Enter, LoadOrCreate, ClaimInitialRun, Enqueue,
      EnqueueError, UndoClaim, ApiCrash
<1>2. ASSUME NEW w \in Workers, WorkerStep(w), ~ CompleteSetup(w) PROVE UNCHANGED book
  BY <1>2
  DEF WorkerStep, StartAttempt, ToolStep, Publish, PublishStrategy, GenerateTrial, CommitRun,
      CommitStale, AttemptError, PublishCompleted, PublishError, WorkerCrash
<1>3. ASSUME NEW w \in Workers, CompleteSetup(w)
      PROVE  UNCHANGED book \/ \E t \in Trials, s \in Strategies : Activates(w, t, s)
  BY <1>3 DEF CompleteSetup, CallTool, Activates
<1>4. ASSUME NEW r \in Runs, QueueStep(r) PROVE UNCHANGED book
  BY <1>4 DEF QueueStep, Stall, RecoverCrashed, Requeue, FailRun, PublishFailed, CleanupLost
<1> QED
  BY <1>1, <1>2, <1>3, <1>4 DEF Next, vars

\* generate_trial_slice is the only tool that records a trial.
LEMMA TrialsAreRecordedConfirmed ==
  ASSUME TypeInv, NEW w \in Workers, ToolStep(w)
  PROVE  \E id \in ToolCalls, refs \in SUBSET ToolCalls :
           /\ Record(w, id, refs)
           /\ id \in Trials =>
                \E s \in Strategies : refs = {s} /\ Confirmed(w, s) /\ Successful(History(w), s)
<1>1. CASE Publish(w)
  BY <1>1, ReadingSetupAssumption DEF Publish, ToolCalls
<1>2. CASE PublishStrategy(w)
  BY <1>2, ReadingSetupAssumption DEF PublishStrategy, ToolCalls
<1>3. CASE GenerateTrial(w)
  <2>1. PICK id \in Trials, s \in Strategies :
          /\ Confirmed(w, s) /\ Record(w, id, {s})
          /\ \E c \in History(w) : c.id = s
    BY <1>3 DEF GenerateTrial
  <2> QED
    BY <2>1 DEF Successful, ToolCalls
<1>4. CASE CompleteSetup(w)
  BY <1>4, ReadingSetupAssumption DEF CompleteSetup, ToolCalls
<1> QED
  BY <1>1, <1>2, <1>3, <1>4 DEF ToolStep

\* Once claimed for an input, a run keeps it.
LEMMA InputsStick ==
  ASSUME TypeInv, [Next]_vars, NEW r \in Runs, input[r] # NoInput
  PROVE  input'[r] = input[r]
BY SessionWriters DEF Claims, TypeInv, TypeOK

LEMMA FreshTrialsStep == HistoryInv /\ FreshTrialsConfirmed /\ [Next]_vars => FreshTrialsConfirmed'
<1> SUFFICES ASSUME HistoryInv, FreshTrialsConfirmed, [Next]_vars, NEW w \in Workers,
                    attempt'[w].pc = "looping", NEW c \in attempt'[w].fresh, c.id \in Trials
             PROVE  FromConfirmed(w, c)'
  BY DEF FreshTrialsConfirmed
<1>1. TypeInv /\ attempt[w] \in Attempt
  BY DEF HistoryInv, TypeInv, TypeOK
<1>2. ASSUME attempt[w].pc = "looping", attempt'[w].run = attempt[w].run,
             attempt'[w].messages = attempt[w].messages, attempt'[w].actions = attempt[w].actions,
             attempt[w].fresh \subseteq attempt'[w].fresh, FromConfirmed(w, c)
      PROVE  FromConfirmed(w, c)'
  <2>1. input'[attempt[w].run] = input[attempt[w].run]
    BY <1>1, <1>2, InputsStick DEF TypeInv, AttemptsOwnRuns
  <2>2. \A s : Confirmed(w, s) => Confirmed(w, s)'
    BY <1>2, <2>1 DEF Confirmed
  <2>3. \A s : Successful(History(w), s) => Successful(History(w), s)'
    BY <1>2 DEF Successful, History
  <2> QED
    BY <1>2, <2>2, <2>3 DEF FromConfirmed
<1>3. CASE attempt'[w] = attempt[w]
  BY <1>2, <1>3 DEF FreshTrialsConfirmed
<1>4. CASE attempt'[w] = NoAttempt
  BY <1>4 DEF NoAttempt
<1>5. CASE attempt'[w] = [pc |-> "looping", run |-> activeRun, messages |-> messages,
                          actions |-> actions, fresh |-> {}]
  BY <1>5
<1>6. CASE ToolStep(w)
  <2>1. attempt[w].pc = "looping"
    BY <1>1, <1>6, ToolStepRecords
  <2>2. PICK id \in ToolCalls, refs \in SUBSET ToolCalls :
          /\ Record(w, id, refs)
          /\ id \in Trials =>
               \E s \in Strategies : refs = {s} /\ Confirmed(w, s) /\ Successful(History(w), s)
    BY <1>1, <1>6, TrialsAreRecordedConfirmed
  <2>3. attempt'[w] = [attempt[w] EXCEPT !.fresh = @ \cup {[id |-> id, refs |-> refs, run |-> attempt[w].run]}]
    BY <2>2 DEF Record, HistoryInv, TypeInv, TypeOK
  <2>4. /\ attempt'[w].run = attempt[w].run
        /\ attempt'[w].messages = attempt[w].messages /\ attempt'[w].actions = attempt[w].actions
        /\ attempt'[w].fresh = attempt[w].fresh \cup {[id |-> id, refs |-> refs, run |-> attempt[w].run]}
    BY <1>1, <2>3 DEF Attempt
  <2>5. FromConfirmed(w, c)
    <3>1. CASE c \in attempt[w].fresh
      BY <2>1, <3>1 DEF FreshTrialsConfirmed
    <3>2. CASE c = [id |-> id, refs |-> refs, run |-> attempt[w].run]
      BY <2>2, <3>2 DEF FromConfirmed
    <3> QED
      BY <2>4, <3>1, <3>2
  <2> QED
    BY <1>2, <2>1, <2>4, <2>5
<1>7. CASE attempt'[w] = [attempt[w] EXCEPT !.pc = "committed"]
  BY <1>1, <1>7 DEF Attempt
<1> QED
  BY <1>1, <1>3, <1>4, <1>5, <1>6, <1>7, AttemptChanges

LEMMA CommittedTrialsConfirmed ==
  ASSUME HistoryInv, FreshTrialsConfirmed, NEW w \in Workers, CommitRun(w),
         NEW c \in messages' \ messages, c.id \in Trials
  PROVE  \E s \in Strategies : /\ c.refs = {s} /\ Successful(messages', s)
                               /\ \E a \in actions' : a.type = "confirmation" /\ a.target = s
<1> DEFINE r == attempt[w].run
<1>1. /\ r \in Runs /\ activeRun = r /\ messages' = messages \cup attempt[w].fresh \cup {Text(r)}
      /\ actions' = actions \cup ActionOf(r)
  BY CommitExtends
<1>2. c \in attempt[w].fresh
  BY <1>1, ReadingSetupAssumption DEF Text, ToolCalls
<1>3. attempt[w].pc = "looping" /\ attempt[w].messages = messages /\ attempt[w].actions = actions
  BY <1>1 DEF CommitRun, HistoryInv, SnapshotFresh
<1>4. PICK s \in Strategies : c.refs = {s} /\ Confirmed(w, s) /\ Successful(History(w), s)
  BY <1>2, <1>3 DEF FreshTrialsConfirmed, FromConfirmed
<1>5. Successful(messages', s)
  BY <1>1, <1>3, <1>4 DEF Successful, History
<1>6. \E a \in actions' : a.type = "confirmation" /\ a.target = s
  <2>1. CASE input[r] = [type |-> "confirmation", target |-> s]
    <3> HIDE DEF r
    <3>1. [type |-> "confirmation", target |-> s, run |-> r] \in ActionOf(r)
      BY <2>1 DEF ActionOf
    <3> QED
      BY <1>1, <3>1
  <2>2. CASE \E a \in actions : a.type = "confirmation" /\ a.target = s
    BY <1>1, <2>2
  <2> QED
    BY <1>3, <1>4, <2>1, <2>2 DEF Confirmed
<1> QED
  BY <1>4, <1>5, <1>6

\* What a run that activates the book relies on is in the session's row.
LEMMA ActivationIsGrounded ==
  ASSUME HistoryInv, TrialsFollowConsent, ActionsFollowInputs,
         NEW w \in Workers, NEW t \in Trials, NEW s \in Strategies, Activates(w, t, s)
  PROVE  /\ attempt[w].run \in Runs
         /\ \E c \in messages : c.id = t /\ c.refs = {s}
         /\ \E c \in messages : c.id = s
         /\ \E a \in actions : a.type = "confirmation" /\ a.target = s
         /\ \/ input[attempt[w].run] = [type |-> "confirmation", target |-> t]
            \/ \E a \in actions : a.type = "confirmation" /\ a.target = t
<1>1. /\ attempt[w].run \in Runs
      /\ attempt[w].messages = messages /\ attempt[w].actions = actions
  BY DEF Activates, HistoryInv, SnapshotFresh, TypeInv, AttemptsOwnRuns
<1>2. /\ \E c \in messages : c.id = t /\ c.refs = {s}
      /\ \E c \in messages : c.id = s
      /\ Confirmed(w, t)
  BY <1>1 DEF Activates, ActivationChain
<1>3. \E a \in actions : a.type = "confirmation" /\ a.target = s
  BY <1>2 DEF TrialsFollowConsent
<1> QED
  BY <1>1, <1>2, <1>3 DEF Confirmed

LEMMA ConsentInvStep == HistoryInv /\ ConsentInv /\ [Next]_vars => ConsentInv'
<1> SUFFICES ASSUME HistoryInv, ConsentInv, [Next]_vars PROVE ConsentInv'
  OBVIOUS
<1>1. TypeInv /\ messages \subseteq messages' /\ actions \subseteq actions'
  BY HistoryWriters, CommitExtends DEF HistoryInv
<1>2. ActionsFollowInputs'
  <2> SUFFICES ASSUME NEW a \in actions' PROVE input'[a.run] = [type |-> a.type, target |-> a.target]
    BY DEF ActionsFollowInputs
  <2>1. CASE a \in actions
    <3>1. a.run \in Runs /\ a.type # "none"
      BY <1>1, <2>1 DEF TypeInv, TypeOK, Action, InputTypes
    <3>2. input[a.run] = [type |-> a.type, target |-> a.target] /\ input[a.run] # NoInput
      BY <2>1, <3>1 DEF ConsentInv, ActionsFollowInputs, NoInput
    <3> QED
      BY <1>1, <3>1, <3>2, InputsStick
  <2>2. ASSUME NEW w \in Workers, CommitRun(w), a \in ActionOf(attempt[w].run)
        PROVE  input'[a.run] = [type |-> a.type, target |-> a.target]
    <3>1. input[attempt[w].run] \in Input /\ UNCHANGED input
      BY <1>1, <2>2 DEF TypeInv, TypeOK, AttemptsOwnRuns, CommitRun
    <3> QED
      BY <2>2, <3>1 DEF ActionOf, Input
  <2> QED
    BY <2>1, <2>2, HistoryWriters, CommitExtends
<1>3. FreshTrialsConfirmed'
  BY FreshTrialsStep DEF ConsentInv
<1>4. TrialsFollowConsent'
  <2> SUFFICES ASSUME NEW c \in messages', c.id \in Trials
               PROVE  \E s \in Strategies :
                        c.refs = {s} /\ \E a \in actions' : a.type = "confirmation" /\ a.target = s
    BY DEF TrialsFollowConsent
  <2>1. CASE c \in messages
    BY <1>1, <2>1 DEF ConsentInv, TrialsFollowConsent
  <2>2. CASE c \notin messages
    BY <2>2, HistoryWriters, CommittedTrialsConfirmed DEF ConsentInv
  <2> QED
    BY <2>1, <2>2
<1>5. ActivatedOnce'
  <2>1. CASE UNCHANGED book
    BY <2>1 DEF ConsentInv, ActivatedOnce
  <2>2. ASSUME NEW w \in Workers, NEW t \in Trials, NEW s \in Strategies, Activates(w, t, s)
        PROVE  ActivatedOnce'
    BY <2>2 DEF ConsentInv, ActivatedOnce, Activates
  <2> QED
    BY <2>1, <2>2, BookWriters
<1>6. ActivationAuthorized'
  <2>1. CASE UNCHANGED book
    <3> SUFFICES ASSUME current # None
                 PROVE  /\ Consented(current.trial)'
                        /\ \E c \in messages' : c.id = current.trial /\ c.refs = {current.strategy}
                        /\ \E a \in actions' : a.type = "confirmation" /\ a.target = current.strategy
      BY <2>1 DEF ActivationAuthorized, Consented
    <3>1. PICK r \in Runs : input[r] = [type |-> "confirmation", target |-> current.trial]
      BY DEF ConsentInv, ActivationAuthorized, Consented
    <3>2. input'[r] = input[r]
      BY <1>1, <3>1, InputsStick DEF NoInput
    <3> QED
      BY <1>1, <2>1, <3>1, <3>2 DEF ConsentInv, ActivationAuthorized, Consented
  <2>2. ASSUME NEW w \in Workers, NEW t \in Trials, NEW s \in Strategies, Activates(w, t, s)
        PROVE  ActivationAuthorized'
    <3>1. /\ attempt[w].run \in Runs
          /\ \E c \in messages : c.id = t /\ c.refs = {s}
          /\ \E a \in actions : a.type = "confirmation" /\ a.target = s
          /\ \/ input[attempt[w].run] = [type |-> "confirmation", target |-> t]
             \/ \E a \in actions : a.type = "confirmation" /\ a.target = t
      BY <2>2, ActivationIsGrounded DEF ConsentInv
    <3>2. Consented(t)
      BY <1>1, <3>1 DEF Consented, ConsentInv, ActionsFollowInputs, TypeInv, TypeOK, Action
    <3>3. current' = [trial |-> t, strategy |-> s] /\ UNCHANGED <<messages, actions, input>>
      BY <2>2 DEF Activates
    <3> QED
      BY <3>1, <3>2, <3>3 DEF ActivationAuthorized, Consented
  <2> QED
    BY <2>1, <2>2, BookWriters
<1> QED
  BY <1>2, <1>3, <1>4, <1>5, <1>6 DEF ConsentInv

LEMMA ConsentInvariant == Spec => [](HistoryInv /\ ConsentInv)
<1>1. Init => ConsentInv
  BY DEF Init, ConsentInv, ActionsFollowInputs, FreshTrialsConfirmed, TrialsFollowConsent,
     ActivatedOnce,
         ActivationAuthorized, NoAttempt
<1> QED
  BY <1>1, HistoryInvInit, HistoryInvStep, ConsentInvStep, PTL DEF Spec

\* The book is activated at most once, whatever is retried or runs twice.
THEOREM ActivatedAtMostOnce == Spec => []ActivatedOnce
<1>1. ConsentInv => ActivatedOnce
  BY DEF ConsentInv
<1> QED
  BY <1>1, ConsentInvariant, PTL

\* The checks of generate_trial_slice and complete_reading_setup, made on copies
\* of the session, hold of the session itself: the user confirmed the trial the
\* book was activated from and the strategy that trial was made with.
THEOREM ActivationsAuthorized == Spec => []ActivationAuthorized
<1>1. ConsentInv => ActivationAuthorized
  BY DEF ConsentInv
<1> QED
  BY <1>1, ConsentInvariant, PTL

\* Every saved trial slice has its strategy's confirmation in the same history.
THEOREM TrialsConsented == Spec => []TrialsFollowConsent
<1>1. ConsentInv => TrialsFollowConsent
  BY DEF ConsentInv
<1> QED
  BY <1>1, ConsentInvariant, PTL

(***************************************************************************)
(* The opening run                                                         *)
(***************************************************************************)
\* While a session_start run holds the session, the session has no history.
OpeningInv ==
  \A r \in Runs : activeRun = r /\ input[r].type = "session_start" => messages = {} /\ actions = {}

LEMMA OpeningInvStep == HistoryInv /\ OpeningInv /\ [Next]_vars => OpeningInv'
<1> SUFFICES ASSUME HistoryInv, OpeningInv, [Next]_vars, NEW r \in Runs,
                    activeRun' = r, input'[r].type = "session_start"
             PROVE  messages' = {} /\ actions' = {}
  BY DEF OpeningInv
<1>1. UNCHANGED <<messages, actions>>
  BY HistoryWriters, CommitExtends, NoneIsNoRun
<1>2. CASE activeRun' \in {activeRun, None} /\ UNCHANGED input
  BY <1>1, <1>2, NoneIsNoRun DEF OpeningInv
<1>3. ASSUME NEW c \in Requests, NEW q \in Runs, Claims(c, q) PROVE messages = {} /\ actions = {}
  <2>1. q = r
    BY <1>3 DEF Claims
  <2> QED
    BY <1>3, <2>1 DEF Claims, HistoryInv, TypeInv, InputsAimed
<1> QED
  BY <1>1, <1>2, <1>3, SessionWriters DEF HistoryInv

LEMMA OpeningInvariant == Spec => [](HistoryInv /\ OpeningInv)
<1>1. Init => OpeningInv
  BY DEF Init, OpeningInv
<1> QED
  BY <1>1, HistoryInvInit, HistoryInvStep, OpeningInvStep, PTL DEF Spec

\* ensureInitialRun: of all entries and user inputs racing for an empty session,
\* the session_start run commits only if nothing was committed before it.
THEOREM SessionStartIsFirst == Spec => SessionStartOpensHistory
<1>1. ASSUME HistoryInv, OpeningInv, [Next]_vars PROVE [SessionStartStep]_vars
  <2> SUFFICES ASSUME NEW r \in Runs, input[r].type = "session_start", Committed(r)', ~ Committed(r)
               PROVE  messages = {} /\ actions = {}
    BY DEF SessionStartStep
  <2>1. PICK w \in Workers : CommitRun(w)
    BY <1>1, HistoryWriters DEF Committed
  <2>2. activeRun = r
    BY <1>1, <2>1, CommitExtends
  <2> QED
    BY <1>1, <2>2 DEF OpeningInv
<1> QED
  BY <1>1, OpeningInvariant, PTL DEF Spec, SessionStartOpensHistory

(***************************************************************************)
(* The session is not orphaned                                             *)
(***************************************************************************)
HeldBy(r) ==
  \/ \E c \in Requests : request[c].run = r /\ request[c].pc \in {"claimed", "undo"}
  \/ job[r].status \in {"waiting", "active"}
  \/ cleanup[r] = "pending"

LEMMA RequestsKeepHold ==
  ASSUME "api_crash" \notin Faults, HistoryInv, NEW r \in Runs, activeRun = r, activeRun' = r, HeldBy(r),
         NEW c \in Requests, RequestStep(c)
  PROVE  HeldBy(r)'
<1>1. cleanup' = cleanup
  BY DEF RequestStep, Submit, CheckEligible, ClaimRun, Enter, LoadOrCreate, ClaimInitialRun,
     Enqueue,
         EnqueueError, UndoClaim, ApiCrash
<1>2. CASE Enqueue(c) \/ EnqueueError(c)
  <2>1. /\ request[c].pc = "claimed" /\ request[c].run \in Runs
        /\ Answer(c) \/ Goto(c, "undo")
        /\ job' = job \/ job' = [job EXCEPT ![request[c].run].status = "waiting"]
        /\ Answer(c) => job' = [job EXCEPT ![request[c].run].status = "waiting"]
    BY <1>2, NoneIsNoRun DEF Enqueue, EnqueueError, Answer, Goto, NoRequest, HistoryInv, TypeInv,
       TypeOK,
         RequestsOwnRuns, Request
  <2>2. \A q \in Runs : job'[q].status \in {job[q].status, "waiting"}
    BY <2>1 DEF HistoryInv, TypeInv, TypeOK, Job
  <2>3. job[r].status \in {"waiting", "active"} => job'[r].status \in {"waiting", "active"}
    BY <2>2
  <2>4. ASSUME NEW d \in Requests, request[d].run = r, request[d].pc \in {"claimed", "undo"}
        PROVE  \/ request'[d].run = r /\ request'[d].pc \in {"claimed", "undo"}
               \/ job'[r].status = "waiting"
    <3>1. CASE d # c
      BY <2>1, <2>4, <3>1 DEF Answer, Goto, HistoryInv, TypeInv, TypeOK
    <3>2. CASE d = c /\ Answer(c)
      BY <2>1, <2>4, <3>2 DEF HistoryInv, TypeInv, TypeOK, Job
    <3>3. CASE d = c /\ Goto(c, "undo")
      BY <2>4, <3>3 DEF Goto, HistoryInv, TypeInv, TypeOK, Request
    <3> QED
      BY <2>1, <3>1, <3>2, <3>3
  <2> QED
    BY <1>1, <2>3, <2>4 DEF HeldBy
<1>3. CASE ~ Enqueue(c) /\ ~ EnqueueError(c)
  <2>1. job' = job /\ (UndoClaim(c) \/ request[c].pc \notin {"claimed", "undo"})
    BY <1>3
    DEF RequestStep, Submit, CheckEligible, ClaimRun, Enter, LoadOrCreate, ClaimInitialRun,
       UndoClaim,
        ApiCrash, Fails
  <2>2. \A d \in Requests : d # c => request'[d] = request[d]
    BY <1>3
    DEF RequestStep, Submit, CheckEligible, ClaimRun, Enter, LoadOrCreate, ClaimInitialRun,
       UndoClaim,
        ApiCrash, Goto, Answer, HistoryInv, TypeInv, TypeOK
  <2>3. UndoClaim(c) => request[c].run # r
    BY NoneIsNoRun DEF UndoClaim, Release
  <2> QED
    BY <1>1, <2>1, <2>2, <2>3 DEF HeldBy
<1> QED
  BY <1>2, <1>3

LEMMA WorkersKeepHold ==
  ASSUME HistoryInv, NEW r \in Runs, activeRun = r, activeRun' = r, HeldBy(r),
         NEW w \in Workers, WorkerStep(w)
  PROVE  HeldBy(r)'
<1>1. request' = request
  BY DEF WorkerStep, StartAttempt, ToolStep, Publish, PublishStrategy, GenerateTrial,
     CompleteSetup,
         CommitRun, CommitStale, AttemptError, PublishCompleted, PublishError, WorkerCrash
<1>2. CASE UNCHANGED queue
  BY <1>1, <1>2 DEF HeldBy
<1>3. ASSUME NEW q \in Runs, StartAttempt(w, q) PROVE HeldBy(r)'
  <2>1. UNCHANGED cleanup /\ (job[q].status = "waiting")
    BY <1>3 DEF StartAttempt
  <2>2. CASE q = r
    BY <1>3, <2>2 DEF StartAttempt, HeldBy, HistoryInv, TypeInv, TypeOK
  <2>3. CASE q # r
    <3>1. job'[r] = job[r]
      BY <1>3, <2>3 DEF StartAttempt, HistoryInv, TypeInv, TypeOK
    <3> QED
      BY <1>1, <2>1, <3>1 DEF HeldBy
  <2> QED
    BY <2>2, <2>3
<1>4. CASE attempt[w].pc # "idle" /\ attempt[w].run # r
           /\ ((JobCompletes(w) /\ UNCHANGED cleanup) \/ JobThrows(w))
  <2>1. job'[r] = job[r] /\ cleanup'[r] = cleanup[r]
    BY <1>4, JobSettles DEF HistoryInv
  <2> QED
    BY <1>1, <2>1 DEF HeldBy
<1>5. CASE attempt[w].run = r /\ JobThrows(w)
  <2>1. CASE UNCHANGED queue
    BY <1>2, <2>1
  <2>2. CASE job[r].owner = w
    BY <1>5, <2>2 DEF JobThrows, HeldBy, HistoryInv, TypeInv, TypeOK
  <2> QED
    BY <1>5, <2>1, <2>2 DEF JobThrows
<1>6. CommitStale(w) \/ PublishCompleted(w) =>
        attempt[w].pc # "idle" /\ attempt[w].run # r /\ JobCompletes(w) /\ UNCHANGED cleanup
  BY DEF CommitStale, PublishCompleted, HistoryInv, AttemptsHonest, CommittedRunsRetired, TypeInv,
     AttemptsOwnRuns
<1>7. AttemptError(w) \/ PublishError(w) => attempt[w].pc # "idle" /\ JobThrows(w)
  BY DEF AttemptError, PublishError
<1>8. CommitRun(w) => FALSE
  BY CommitExtends, NoneIsNoRun
<1>9. ToolStep(w) \/ WorkerCrash(w) => UNCHANGED queue
  BY DEF ToolStep, Publish, PublishStrategy, GenerateTrial, CompleteSetup, WorkerCrash
<1> QED
  BY <1>2, <1>3, <1>4, <1>5, <1>6, <1>7, <1>8, <1>9 DEF WorkerStep

LEMMA QueueKeepsHold ==
  ASSUME "cleanup_lost" \notin Faults, HistoryInv, NEW r \in Runs, activeRun = r, activeRun' = r, HeldBy(r),
         NEW q \in Runs, QueueStep(q)
  PROVE  HeldBy(r)'
<1>1. request' = request
  BY DEF QueueStep, Stall, RecoverCrashed, Requeue, FailRun, PublishFailed, CleanupLost
<1>2. CASE Requeue(q)
  <2>1. CASE q = r
    BY <1>2, <2>1 DEF Requeue, HeldBy, HistoryInv, TypeInv, TypeOK
  <2>2. CASE q # r
    <3>1. job'[r] = job[r] /\ cleanup'[r] = cleanup[r]
      BY <1>2, <2>2, JobRequeues DEF HistoryInv
    <3> QED
      BY <1>1, <3>1 DEF HeldBy
  <2> QED
    BY <2>1, <2>2
<1>3. CASE FailRun(q)
  <2>1. q # r
    BY <1>3, NoneIsNoRun DEF FailRun, Release
  <2>2. job' = job /\ cleanup'[r] = cleanup[r]
    BY <1>3, <2>1 DEF FailRun, HistoryInv, TypeInv, TypeOK
  <2> QED
    BY <1>1, <2>2 DEF HeldBy
<1>4. CASE PublishFailed(q)
  <2>1. job' = job /\ (cleanup[r] = "pending" => cleanup'[r] = "pending")
    BY <1>4 DEF PublishFailed, HistoryInv, TypeInv, TypeOK
  <2> QED
    BY <1>1, <2>1 DEF HeldBy
<1> QED
  BY <1>2, <1>3, <1>4 DEF QueueStep, Stall, RecoverCrashed, CleanupLost, Fails

\* While the API process survives the step from claimRun to queue.add and no
\* onTerminalFailure is lost, a session held by a run is on its way to be given up.
THEOREM SessionNeverOrphaned ==
  ASSUME "api_crash" \notin Faults, "cleanup_lost" \notin Faults
  PROVE  Spec => []ActiveRunIsHeld
<1>1. Init => ActiveRunIsHeld
  BY DEF Init, ActiveRunIsHeld
<1>2. HistoryInv /\ ActiveRunIsHeld /\ [Next]_vars => ActiveRunIsHeld'
  <2> SUFFICES ASSUME HistoryInv, ActiveRunIsHeld, [Next]_vars, activeRun' # None PROVE HeldBy(activeRun)'
    BY DEF ActiveRunIsHeld, HeldBy
  <2>1. ASSUME NEW c \in Requests, NEW r \in Runs, Claims(c, r) PROVE HeldBy(activeRun)'
    <3>1. request'[c] = [pc |-> "claimed", input |-> request[c].input, run |-> r] /\ activeRun' = r
      BY <2>1 DEF Claims, HistoryInv, TypeInv, TypeOK
    <3> QED
      BY <3>1 DEF HeldBy
  <2>2. CASE activeRun' = activeRun
    <3>1. PICK r \in Runs : activeRun = r /\ HeldBy(r)
      BY <2>2 DEF ActiveRunIsHeld, HeldBy, HistoryInv, TypeInv, TypeOK
    <3>2. CASE UNCHANGED vars
      BY <2>2, <3>1, <3>2 DEF HeldBy, vars
    <3>3. HeldBy(r)' => HeldBy(activeRun)'
      BY <2>2, <3>1 DEF HeldBy
    <3> QED
      BY <2>2, <3>1, <3>2, <3>3, RequestsKeepHold, WorkersKeepHold, QueueKeepsHold DEF Next
  <2> QED
    BY <2>1, <2>2, SessionWriters DEF HistoryInv
<1> QED
  BY <1>1, <1>2, HistoryInvInit, HistoryInvStep, PTL DEF Spec

(***************************************************************************)
(* Refinement                                                              *)
(***************************************************************************)
\* A confirmation that was admitted is of a saved call (calls are never unsaved).
TargetsSaved ==
  \A c \in Requests : request[c].input.type = "confirmation" =>
    \E m \in messages : m.id = request[c].input.target

LEMMA TargetsSavedStep == HistoryInv /\ TargetsSaved /\ [Next]_vars => TargetsSaved'
<1> SUFFICES ASSUME HistoryInv, TargetsSaved, [Next]_vars, NEW c \in Requests,
                    request'[c].input.type = "confirmation"
             PROVE  \E m \in messages' : m.id = request'[c].input.target
  BY DEF TargetsSaved
<1>1. messages \subseteq messages'
  BY HistoryWriters, CommitExtends
<1>2. CASE request'[c].input = request[c].input
  BY <1>1, <1>2 DEF TargetsSaved
<1>3. ASSUME NEW in \in UserInput, Submit(c, in), request'[c].input = in
      PROVE  \E m \in messages' : m.id = request'[c].input.target
  BY <1>1, <1>3 DEF Submit, Acceptable, Successful
<1>4. ASSUME NEW d \in Requests, RequestStep(d)
      PROVE  \/ request'[c].input \in {request[c].input, NoInput}
             \/ \E in \in UserInput : Submit(c, in) /\ request'[c].input = in
  <2>1. CASE Answer(d) \/ \E pc \in {"eligible", "entering", "initial", "undo"} : Goto(d, pc)
    BY <2>1 DEF Answer, Goto, NoRequest, HistoryInv, TypeInv, TypeOK, Request
  <2>2. ASSUME NEW in \in UserInput, Submit(d, in)
        PROVE  request'[c].input = request[c].input \/ (c = d /\ request'[c].input = in)
    BY <2>2 DEF Submit, HistoryInv, TypeInv, TypeOK
  <2>3. ASSUME NEW r \in Runs,
               request' = [request EXCEPT ![d] = [pc |-> "claimed", input |-> @.input, run |-> r]]
        PROVE  request'[c].input = request[c].input
    BY <2>3 DEF HistoryInv, TypeInv, TypeOK
  <2>4. CASE ClaimRun(d) \/ ClaimInitialRun(d)
    BY <2>1, <2>3, <2>4 DEF ClaimRun, ClaimInitialRun
  <2> QED
    BY <1>4, <2>1, <2>2, <2>4
    DEF RequestStep, CheckEligible, Enter, LoadOrCreate, Enqueue, EnqueueError, UndoClaim, ApiCrash
<1>5. ASSUME NEW w \in Workers, WorkerStep(w) PROVE request' = request
  BY <1>5
  DEF WorkerStep, StartAttempt, ToolStep, Publish, PublishStrategy, GenerateTrial, CompleteSetup,
      CommitRun, CommitStale, AttemptError, PublishCompleted, PublishError, WorkerCrash
<1>6. ASSUME NEW r \in Runs, QueueStep(r) PROVE request' = request
  BY <1>6 DEF QueueStep, Stall, RecoverCrashed, Requeue, FailRun, PublishFailed, CleanupLost
<1> QED
  BY <1>2, <1>3, <1>4, <1>5, <1>6 DEF Next, vars, NoInput

RefinementInv == HistoryInv /\ TerminalInv /\ ConsentInv /\ TargetsSaved

LEMMA RefinementInvariant == Spec => []RefinementInv
<1>1. Init => TargetsSaved
  BY DEF Init, TargetsSaved, NoRequest, NoInput
<1>2. HistoryInv /\ TargetsSaved /\ [Next]_vars => TargetsSaved'
  BY TargetsSavedStep
<1>3. Spec => []TargetsSaved
  BY <1>1, <1>2, HistoryInvariant, PTL DEF Spec
<1>4. HistoryInv /\ TerminalInv /\ HistoryInv /\ ConsentInv /\ TargetsSaved => RefinementInv
  BY DEF RefinementInv
<1> QED
  BY <1>3, <1>4, TerminalInvariant, ConsentInvariant, PTL

LEMMA ContractCommit ==
  ASSUME RefinementInv, NEW w \in Workers, CommitRun(w)
  PROVE  Contract!Commit(attempt[w].run)
<1> DEFINE r == attempt[w].run
<1>1. /\ r \in Runs /\ activeRun = r /\ activeRun' = None
      /\ messages' = messages \cup attempt[w].fresh \cup {Text(r)}
      /\ actions' = actions \cup ActionOf(r)
      /\ \A m \in attempt[w].fresh \cup {Text(r)} \cup ActionOf(r) : m.run = r
  BY CommitExtends DEF RefinementInv
<1>2. [id |-> Prose, refs |-> {}, run |-> r] \in messages'
  BY <1>1 DEF Text
<1>3. ASSUME NEW m \in messages' \ messages, m.id \in Trials
      PROVE  \E s \in Strategies : /\ m.refs = {s}
                                   /\ \E c \in messages' : c.id = s
                                   /\ Contract!ConfirmedIn(actions', s)
  BY <1>3, CommittedTrialsConfirmed DEF RefinementInv, ConsentInv, Successful, Contract!ConfirmedIn
<1>4. \A a \in actions' \ actions : a.run = r /\ [type |-> a.type, target |-> a.target] = input[r]
  <2>1. input[r] \in Input \cup {NoInput}
    BY <1>1 DEF RefinementInv, HistoryInv, TypeInv, TypeOK
  <2> QED
    BY <1>1, <2>1 DEF ActionOf, Input, NoInput
<1>5. input[r].type = "confirmation" => Contract!ConfirmedIn(actions', input[r].target)
  <2>1. input[r].type = "confirmation" =>
          [type |-> input[r].type, target |-> input[r].target, run |-> r] \in ActionOf(r)
    BY DEF ActionOf
  <2> QED
    BY <1>1, <2>1 DEF Contract!ConfirmedIn
<1>6. UNCHANGED <<input, workflow, current, finished>>
  BY DEF CommitRun
<1> QED
  BY <1>1, <1>2, <1>3, <1>4, <1>5, <1>6 DEF Contract!Commit

LEMMA ContractAdmit ==
  ASSUME RefinementInv, NEW c \in Requests, NEW r \in Runs, Claims(c, r)
  PROVE  Contract!Admit(r)
<1>1. input'[r] # NoInput /\ (input'[r].type = "session_start" => messages = {} /\ actions = {})
  BY DEF Claims, RefinementInv, HistoryInv, TypeInv, RequestsOwnRuns, InputsAimed, NoInput
<1>2. input'[r].type = "confirmation" => \E m \in messages : m.id = input'[r].target
  BY DEF Claims, RefinementInv, TargetsSaved
<1> QED
  BY <1>1, <1>2 DEF Claims, Contract!Admit, Contract!NoInput, NoInput

LEMMA ContractActivate ==
  ASSUME RefinementInv, NEW w \in Workers, NEW t \in Trials, NEW s \in Strategies, Activates(w, t, s)
  PROVE  Contract!Activate(attempt[w].run)
<1>1. /\ \E c \in messages : c.id = t /\ c.refs = {s}
      /\ \E c \in messages : c.id = s
      /\ \E a \in actions : a.type = "confirmation" /\ a.target = s
      /\ \/ input[attempt[w].run] = [type |-> "confirmation", target |-> t]
         \/ \E a \in actions : a.type = "confirmation" /\ a.target = t
  BY ActivationIsGrounded DEF RefinementInv, ConsentInv
<1>2. PICK c, d \in messages : c.id = t /\ c.refs = {s} /\ d.id = s
  BY <1>1
<1> QED
  BY <1>1, <1>2 DEF Activates, Contract!Activate, Contract!ConfirmedIn

LEMMA ContractStep == RefinementInv /\ [Next]_vars => [Contract!Next]_(Contract!vars)
<1> SUFFICES ASSUME RefinementInv, [Next]_vars PROVE [Contract!Next]_(Contract!vars)
  OBVIOUS
<1>1. CASE \E w \in Workers : CommitRun(w)
  <2>1. PICK w \in Workers : CommitRun(w)
    BY <1>1
  <2>2. attempt[w].run \in Runs
    BY <2>1, CommitExtends DEF RefinementInv
  <2> QED
    BY <2>1, <2>2, ContractCommit DEF Contract!Next
<1>2. CASE \E w \in Workers, t \in Trials, s \in Strategies : Activates(w, t, s)
  <2>1. PICK w \in Workers, t \in Trials, s \in Strategies : Activates(w, t, s)
    BY <1>2
  <2>2. attempt[w].run \in Runs
    BY <2>1 DEF Activates, RefinementInv, HistoryInv, TypeInv, AttemptsOwnRuns
  <2> QED
    BY <2>1, <2>2, ContractActivate DEF Contract!Next
<1>3. ASSUME NEW w \in Workers, PublishCompleted(w) PROVE [Contract!Next]_(Contract!vars)
  <2> DEFINE r == attempt[w].run
  <2>1. r \in Runs /\ Committed(r) /\ input[r] # NoInput /\ activeRun # r
    BY <1>3 DEF PublishCompleted, RefinementInv, HistoryInv, AttemptsHonest, CommittedRunsRetired,
       TypeInv,
                AttemptsOwnRuns
  <2>2. Contract!Announce(r)
    BY <1>3, <2>1
    DEF PublishCompleted, Contract!Announce, Contract!Committed, Committed, Contract!NoInput,
       NoInput
  <2> QED
    BY <2>1, <2>2 DEF Contract!Next
<1>4. ASSUME NEW r \in Runs, PublishFailed(r) PROVE [Contract!Next]_(Contract!vars)
  <2>1. ~ Committed(r) /\ input[r] # NoInput /\ activeRun # r
    BY <1>4 DEF PublishFailed, RefinementInv, TerminalInv, FailuresSettled, HistoryInv, TypeInv,
       UnclaimedUnseen
  <2>2. Contract!Announce(r)
    BY <1>4, <2>1
    DEF PublishFailed, Contract!Announce, Contract!Committed, Committed, Contract!NoInput, NoInput
  <2> QED
    BY <2>2 DEF Contract!Next
<1>5. CASE UNCHANGED <<messages, actions, book, finished>>
  <2>1. ASSUME NEW c \in Requests, NEW r \in Runs, Claims(c, r) PROVE [Contract!Next]_(Contract!vars)
    BY <2>1, ContractAdmit DEF Contract!Next
  <2>2. CASE activeRun' = activeRun /\ UNCHANGED input
    BY <1>5, <2>2 DEF Contract!vars
  <2>3. CASE activeRun # None /\ activeRun' = None /\ UNCHANGED input
    <3>1. activeRun \in Runs
      BY <2>3 DEF RefinementInv, HistoryInv, TypeInv, TypeOK
    <3>2. Contract!Abandon(activeRun)
      BY <1>5, <2>3 DEF Contract!Abandon
    <3> QED
      BY <3>1, <3>2 DEF Contract!Next
  <2> QED
    BY <2>1, <2>2, <2>3, SessionWriters DEF RefinementInv, HistoryInv
<1> QED
  BY <1>1, <1>2, <1>3, <1>4, <1>5, HistoryWriters, BookWriters, FinishedWriters

\* The session, with its requests, jobs, repeated and concurrent attempts and
\* crashes, implements the contract: atomic turns, one at a time, that either
\* commit as a whole or leave nothing, and one authorised activation.
THEOREM SessionImplementsContract == Spec => ImplementsContract
<1>1. Init => Contract!Init
  BY DEF Init, Contract!Init, Contract!NoInput, NoInput
<1> QED
  BY <1>1, RefinementInvariant, ContractStep, PTL DEF Spec, ImplementsContract, Contract!Spec
=============================================================================
