----------------------------- MODULE LibraryProofs -----------------------------
(***************************************************************************)
(* Theorems about the runs that normalize a book (Normalization), for every*)
(* number of runs, requests, slots, tries and stalls and every combination *)
(* of failures that is not excluded by name; and the inductive invariants  *)
(* of the other components that bring a book into the library              *)
(* (LibraryParts): each holds at the start of its component and after every*)
(* step of it, for every value of the constants.  What follows for the run *)
(* of the components is in MCNormalizationProofs.                          *)
(***************************************************************************)
EXTENDS Normalization, LibraryParts, SequenceTheorems, FiniteSetTheorems, TLAPS

USE DEF book, RunOf, At, Move, Goto, Answer, Leave, Own

(***************************************************************************)
(* Type correctness                                                        *)
(***************************************************************************)
\* A request past its insert holds a run of its own, unknown to the queue until
\* it is enqueued.
RequestsHold ==
  /\ \A c \in Requests : request[c].pc \in {"inserted", "undo"} =>
       request[c].run \in Runs /\ run[request[c].run] # "none"
  /\ \A c \in Requests : request[c].pc = "inserted" => job[request[c].run].status = "absent"
  /\ \A c, d \in Requests :
       request[c].pc = "inserted" /\ request[d].pc = "inserted" /\ request[c].run = request[d].run
         => c = d

\* A job that may still run has stalls left; one of an unclaimed run is absent.
JobsBounded ==
  \A r \in Runs :
    /\ job[r].status \in {"absent", "waiting", "active"} => job[r].stalls <= MaxStalls
    /\ run[r] = "none" => job[r].status = "absent"

HasAttempt == {"agent", "validating", "validated", "indexing", "analyzed", "uploaded", "gated"}

ExecutionsHold ==
  \A w \in Slots :
    /\ exec[w].pc # "idle" => exec[w].run \in Runs
    /\ exec[w].pc \in HasAttempt => exec[w].no \in DOMAIN attempts[exec[w].run]

TypeInv == TypeOK /\ RequestsHold /\ JobsBounded /\ ExecutionsHold

LEMMA Bounds == MaxTries \in Nat \ {0} /\ MaxStalls \in Nat /\ MaxFaults \in Nat
BY NormalizationAssumption

LEMMA NoneIsNoId == None \notin Runs /\ None \notin Slots /\ None \notin Package
BY NormalizationAssumption DEF Package

LEMMA FaultTyped == ASSUME TypeOK, NEW kind, Fails(kind) PROVE faults' \in 0..MaxFaults
BY Bounds DEF TypeOK, Fails

LEMMA TypeInvInit == Init => TypeInv
<1> SUFFICES ASSUME Init PROVE TypeInv
  OBVIOUS
<1>1. job \in [Runs -> Job] /\ JobsBounded
  BY Bounds DEF Init, NoJob, Job, JobsBounded
<1>2. request \in [Requests -> Request] /\ RequestsHold
  BY DEF Init, NoRequest, Request, RequestsHold
<1>3. exec \in [Slots -> Execution] /\ ExecutionsHold
  BY Bounds DEF Init, NoExecution, Execution, Stages, ExecutionsHold, HasAttempt
<1>4. attempts \in [Runs -> Seq({"running", "succeeded", "failed"})]
  BY DEF Init
<1>5. run \in [Runs -> {"none", "running", "completed", "failed"}]
  BY DEF Init
<1>6. faults \in 0..MaxFaults /\ worker \in {"down", "reconciling", "up"}
  BY Bounds DEF Init
<1>8. lost \in BOOLEAN
  BY DEF Init
<1>7. status \in {"absent", "ready", "failed"} \cup InProgress /\ package \in Package \cup {None}
  BY DEF Init
<1> QED
  BY <1>1, <1>2, <1>3, <1>4, <1>5, <1>6, <1>7, <1>8 DEF TypeInv, TypeOK

LEMMA RequestFrame ==
  ASSUME NEW c \in Requests, RequestStep(c)
  PROVE  UNCHANGED <<package, attempts, worker, exec>>
BY DEF RequestStep, ReadBook, FindActiveRun, InsertRun, RequestAborts, Enqueue, EnqueueError,
       UndoRun, ApiCrash

LEMMA AddTyped ==
  ASSUME TypeInv, NEW r \in Runs, Add(r), job[r].status = "absent", run[r] # "none", UNCHANGED run
  PROVE  job' \in [Runs -> Job] /\ JobsBounded'
<1>1. job' = [job EXCEPT ![r] = [@ EXCEPT !.status = "waiting"]]
  BY DEF Add
<1>2. PICK j \in Job : j = job[r]
  BY DEF TypeInv, TypeOK
<1>3. [j EXCEPT !.status = "waiting"] \in Job /\ [j EXCEPT !.status = "waiting"].stalls = j.stalls
  BY DEF Job
<1>4. job' \in [Runs -> Job]
  BY <1>1, <1>2, <1>3 DEF TypeInv, TypeOK
<1>5. j.stalls <= MaxStalls
  BY <1>2 DEF TypeInv, JobsBounded
<1>6. \A s \in Runs : s # r => job'[s] = job[s]
  BY <1>1 DEF TypeInv, TypeOK
<1>7. job'[r] = [j EXCEPT !.status = "waiting"]
  BY <1>1, <1>2 DEF TypeInv, TypeOK
<1> QED
  BY <1>3, <1>4, <1>5, <1>6, <1>7 DEF TypeInv, JobsBounded

\* What a request that claims nothing does to its own record.
LEMMA RequestTyped ==
  ASSUME TypeOK, NEW c \in Requests,
         \/ UNCHANGED request
         \/ \E pc \in {"read", "checked", "undo"} : Goto(c, pc)
         \/ Answer(c)
  PROVE  /\ request' \in [Requests -> Request]
         /\ \A d \in Requests : d # c => request'[d] = request[d]
         /\ request'[c].pc # "inserted" \/ request'[c] = request[c]
         /\ request'[c].pc = "undo" => request'[c].run = request[c].run
<1>1. CASE UNCHANGED request
  BY <1>1 DEF TypeOK, Request
<1>2. ASSUME NEW pc \in {"read", "checked", "undo"}, Goto(c, pc)
      PROVE  /\ request' \in [Requests -> Request]
             /\ \A d \in Requests : d # c => request'[d] = request[d]
             /\ request'[c].pc = pc /\ request'[c].run = request[c].run
  BY <1>2 DEF TypeOK, Request
<1>3. CASE Answer(c)
  BY <1>3 DEF TypeOK, Request, NoRequest
<1> QED
  BY <1>1, <1>2, <1>3

LEMMA RequestTypeInv ==
  ASSUME TypeInv, NEW c \in Requests, RequestStep(c)
  PROVE  TypeInv'
<1> USE DEF TypeInv
<1>0. UNCHANGED <<package, attempts, worker, exec>>
  BY RequestFrame
<1>1. CASE ReadBook(c) \/ FindActiveRun(c) \/ RequestAborts(c)
  <2>1. UNCHANGED request \/ Goto(c, "read") \/ Goto(c, "checked") \/ Answer(c)
    BY <1>1, Zenon DEF ReadBook, FindActiveRun, RequestAborts
  <2>4. request[c].pc \in {"idle", "read", "checked"}
    BY <1>1 DEF ReadBook, FindActiveRun, RequestAborts
  <2>5. request'[c].pc \notin {"inserted", "undo"}
    BY <2>1, <2>4 DEF TypeOK, Request, NoRequest
  <2>2. UNCHANGED <<status, run, job, lost, faults>>
    BY <1>1 DEF ReadBook, FindActiveRun, RequestAborts
  <2>3. request' \in [Requests -> Request] /\ RequestsHold'
    BY <2>1, <2>2, <2>5, RequestTyped DEF RequestsHold
  <2> QED
    BY <1>0, <2>2, <2>3 DEF TypeOK, JobsBounded, ExecutionsHold
<1>2. CASE InsertRun(c)
  <2>1. PICK r \in Runs : /\ run[r] = "none"
                           /\ run' = [run EXCEPT ![r] = "running"]
                           /\ request' = [request EXCEPT ![c] = [pc |-> "inserted", run |-> r]]
    BY <1>2 DEF InsertRun
  <2>2. request' \in [Requests -> Request] /\ RequestsHold'
    <3>1. request' \in [Requests -> Request]
      BY <2>1 DEF TypeOK, Request
    <3>2. request'[c] = [pc |-> "inserted", run |-> r] /\ \A d \in Requests : d # c => request'[d] = request[d]
      BY <2>1 DEF TypeOK
    <3>3. UNCHANGED job /\ job[r].status = "absent" /\ run'[r] # "none"
          /\ \A s \in Runs : s # r => run'[s] = run[s]
      BY <1>2, <2>1 DEF InsertRun, JobsBounded, TypeOK
    <3>4. \A d \in Requests : request[d].pc \in {"inserted", "undo"} => request[d].run # r
      BY <2>1 DEF RequestsHold
    <3> QED
      BY <3>1, <3>2, <3>3, <3>4 DEF RequestsHold
  <2>3. run' \in [Runs -> {"none", "running", "completed", "failed"}] /\ JobsBounded'
    BY <1>2, <2>1 DEF InsertRun, TypeOK, JobsBounded
  <2> QED
    BY <1>0, <1>2, <2>2, <2>3 DEF InsertRun, TypeOK, InProgress, ExecutionsHold
<1>3. CASE Enqueue(c) \/ EnqueueError(c)
  <2>1. request' \in [Requests -> Request]
    BY <1>3, RequestTyped DEF Enqueue, EnqueueError
  <2>2. job' \in [Runs -> Job] /\ JobsBounded'
    <3>1. CASE UNCHANGED job
      BY <1>3, <3>1 DEF Enqueue, EnqueueError, TypeOK, JobsBounded
    <3>2. CASE Add(request[c].run)
      BY <1>3, <3>2, AddTyped DEF Enqueue, EnqueueError, RequestsHold
    <3> QED
      BY <1>3, <3>1, <3>2 DEF Enqueue, EnqueueError
  <2>3. RequestsHold'
    <3>1. request[c].pc = "inserted" /\ (Goto(c, "undo") \/ Answer(c)) /\ UNCHANGED run
      BY <1>3 DEF Enqueue, EnqueueError
    <3>2. request'[c].pc # "inserted"
      BY <3>1 DEF TypeOK, Request, NoRequest
    <3>3. \A r \in Runs : r # request[c].run => job'[r] = job[r]
      BY <1>3 DEF Enqueue, EnqueueError, Add, TypeOK, RequestsHold
    <3>4. \A d \in Requests : d # c => request'[d] = request[d]
      BY <3>1, RequestTyped
    <3>5. request'[c].pc = "undo" => request'[c].run = request[c].run
      BY <3>1, RequestTyped
    <3> QED
      BY <3>1, <3>2, <3>3, <3>4, <3>5 DEF RequestsHold
  <2>4. faults' \in 0..MaxFaults
    BY <1>3, FaultTyped DEF Enqueue, EnqueueError, TypeOK
  <2> QED
    BY <1>0, <1>3, <2>1, <2>2, <2>3, <2>4 DEF Enqueue, EnqueueError, TypeOK, ExecutionsHold
<1>4. CASE UndoRun(c) \/ ApiCrash(c)
  <2>1. request' \in [Requests -> Request]
    BY <1>4, RequestTyped DEF UndoRun, ApiCrash
  <2>2. run' \in [Runs -> {"none", "running", "completed", "failed"}]
    BY <1>4 DEF UndoRun, ApiCrash, TypeOK
  <2>3. RequestsHold' /\ JobsBounded'
    <3>1. Answer(c) /\ UNCHANGED job /\ \A r \in Runs : run'[r] = "none" <=> run[r] = "none"
      BY <1>4 DEF UndoRun, ApiCrash, TypeOK, RequestsHold
    <3>2. request'[c] = NoRequest /\ \A d \in Requests : d # c => request'[d] = request[d]
      BY <3>1 DEF TypeOK
    <3> QED
      BY <3>1, <3>2 DEF RequestsHold, JobsBounded, NoRequest
  <2>4. faults' \in 0..MaxFaults
    BY <1>4, FaultTyped DEF UndoRun, ApiCrash, TypeOK
  <2>5. status' \in {"absent", "ready", "failed"} \cup InProgress /\ UNCHANGED job
    BY <1>4 DEF UndoRun, ApiCrash, TypeOK
  <2>6. lost' \in BOOLEAN
    BY <1>4 DEF UndoRun, ApiCrash, TypeOK
  <2> QED
    BY <1>0, <2>1, <2>2, <2>3, <2>4, <2>5, <2>6 DEF TypeOK, ExecutionsHold
<1> QED
  BY <1>1, <1>2, <1>3, <1>4 DEF RequestStep

PCs == Stages \cup {"idle", "failing", "run_failed"}

LEMMA ExecTyped ==
  ASSUME TypeOK, ExecutionsHold, NEW w \in Slots, NEW e \in Execution,
         exec' = [exec EXCEPT ![w] = e],
         e.pc # "idle" => e.run \in Runs,
         e.pc \in HasAttempt => e.no \in DOMAIN attempts'[e.run],
         \A r \in Runs : DOMAIN attempts[r] \subseteq DOMAIN attempts'[r]
  PROVE  exec' \in [Slots -> Execution] /\ ExecutionsHold'
<1>1. exec' \in [Slots -> Execution]
  BY DEF TypeOK
<1>2. exec'[w] = e /\ \A v \in Slots : v # w => exec'[v] = exec[v]
  BY DEF TypeOK
<1>3. ASSUME NEW v \in Slots, v # w, exec[v].pc \in HasAttempt
      PROVE  exec'[v].no \in DOMAIN attempts'[exec'[v].run]
  <2>1. exec[v].run \in Runs /\ exec[v].no \in DOMAIN attempts[exec[v].run]
    BY <1>3 DEF ExecutionsHold, HasAttempt
  <2> QED
    BY <1>2, <1>3, <2>1
<1> QED
  BY <1>1, <1>2, <1>3 DEF ExecutionsHold

\* A step that only moves an execution on, and may settle its attempt.
LEMMA MoveTyped ==
  ASSUME TypeOK, ExecutionsHold, NEW w \in Slots, NEW pc \in PCs \ {"idle"},
         Move(w, pc), exec[w].pc # "idle",
         pc \in HasAttempt => exec[w].pc \in HasAttempt,
         \A r \in Runs : DOMAIN attempts[r] = DOMAIN attempts'[r]
  PROVE  exec' \in [Slots -> Execution] /\ ExecutionsHold'
<1> DEFINE e == [exec[w] EXCEPT !.pc = pc]
<1>1. exec[w] \in Execution
  BY DEF TypeOK
<1>2. e \in Execution /\ e.pc = pc /\ e.run = exec[w].run /\ e.no = exec[w].no
  BY <1>1 DEF Execution, PCs
<1>3. exec' = [exec EXCEPT ![w] = e]
  BY DEF TypeOK
<1>4. e.run \in Runs
  BY <1>2 DEF ExecutionsHold
<1>5. e.pc \in HasAttempt => e.no \in DOMAIN attempts'[e.run]
  BY <1>2, <1>4 DEF ExecutionsHold
<1> HIDE DEF e
<1> QED
  BY <1>2, <1>3, <1>4, <1>5, ExecTyped

LEMMA LeaveTyped ==
  ASSUME TypeOK, ExecutionsHold, NEW w \in Slots, Leave(w), UNCHANGED attempts
  PROVE  exec' \in [Slots -> Execution] /\ ExecutionsHold'
<1>1. NoExecution \in Execution /\ NoExecution.pc = "idle"
  BY Bounds DEF NoExecution, Execution, Stages
<1> QED
  BY <1>1, ExecTyped DEF HasAttempt

LEMMA JobEndsTyped ==
  ASSUME TypeInv, NEW w \in Slots, exec[w].run \in Runs, NEW how \in {"completed", "failed"},
         JobEnds(w, how)
  PROVE  /\ job' \in [Runs -> Job]
         /\ \A r \in Runs :
              /\ job'[r].status \in {"absent", "waiting", "active"} => job'[r] = job[r]
              /\ job[r].status = "absent" => job'[r] = job[r]
<1> DEFINE r == exec[w].run
           j == [status |-> how, owner |-> None, stalls |-> job[r].stalls]
<1>1. job[r] \in Job
  BY DEF TypeInv, TypeOK
<1>2. j \in Job
  BY <1>1 DEF Job
<1>3. UNCHANGED job \/ (job[r].status = "active" /\ job' = [job EXCEPT ![r] = j])
  BY DEF JobEnds
<1> QED
  BY <1>2, <1>3 DEF TypeInv, TypeOK

LEMMA TakeTyped ==
  ASSUME TypeInv, NEW w \in Slots, NEW r \in Runs, Load(w, r) \/ Reject(w, r)
  PROVE  job' \in [Runs -> Job] /\ JobsBounded'
<1>1. PICK j \in Job : job' = [job EXCEPT ![r] = j] /\ j.stalls = job[r].stalls
  <2>1. job[r] \in Job
    BY DEF TypeInv, TypeOK
  <2>2. CASE Load(w, r)
    <3>1. [status |-> "active", owner |-> w, stalls |-> job[r].stalls] \in Job
      BY <2>1 DEF Job
    <3> QED
      BY <2>2, <3>1 DEF Load
  <2>3. CASE Reject(w, r)
    <3>1. \A s \in {"completed", "failed"} : [status |-> s, owner |-> None, stalls |-> job[r].stalls] \in Job
      BY <2>1 DEF Job
    <3> QED
      BY <2>3, <3>1 DEF Reject
  <2> QED
    BY <2>2, <2>3
<1>2. job[r].status = "waiting" /\ UNCHANGED run
  BY DEF Load, Reject, Take
<1> QED
  BY <1>1, <1>2 DEF TypeInv, TypeOK, JobsBounded

\* The variables an execution never writes, and the bookkeeping it keeps in type.
LEMMA ExecutionFrame ==
  ASSUME TypeInv, NEW w \in Slots, ExecutionStep(w)
  PROVE  /\ UNCHANGED <<request, worker>>
         /\ faults' \in 0..MaxFaults
         /\ lost' \in BOOLEAN
<1>1. UNCHANGED <<request, worker>>
  BY DEF ExecutionStep, AttemptStep, Load, Reject, MarkNormalizing, StartAttempt, GiveUp,
         CompleteAttempt, AttemptFails, Advance, StageFails, Gate, Publish, FailRun, FailBook,
         UpdateLost
<1>2. UNCHANGED faults \/ Fails("update_lost")
  BY DEF ExecutionStep, AttemptStep, Load, Reject, MarkNormalizing, StartAttempt, GiveUp,
         CompleteAttempt, AttemptFails, Advance, StageFails, Gate, Publish, FailRun, FailBook,
         UpdateLost
<1>3. UNCHANGED lost \/ lost' = TRUE
  BY DEF ExecutionStep, AttemptStep, Load, Reject, MarkNormalizing, StartAttempt, GiveUp,
         CompleteAttempt, AttemptFails, Advance, StageFails, Gate, Publish, FailRun, FailBook,
         UpdateLost
<1>4. faults' \in 0..MaxFaults
  BY <1>2, FaultTyped DEF TypeInv, TypeOK
<1>5. lost' \in BOOLEAN
  BY <1>3 DEF TypeInv, TypeOK
<1> QED
  BY <1>1, <1>4, <1>5

\* The parts of the type invariant an execution may disturb.
ExecutionPart ==
  /\ status \in {"absent", "ready", "failed"} \cup InProgress
  /\ package \in Package \cup {None}
  /\ run \in [Runs -> {"none", "running", "completed", "failed"}]
  /\ attempts \in [Runs -> Seq({"running", "succeeded", "failed"})]
  /\ job \in [Runs -> Job]
  /\ exec \in [Slots -> Execution]
  /\ JobsBounded /\ ExecutionsHold

LEMMA MoveTypeInv ==
  ASSUME TypeInv, NEW w \in Slots,
         MarkNormalizing(w) \/ GiveUp(w) \/ Advance(w) \/ StageFails(w) \/ Gate(w)
  PROVE  ExecutionPart' /\ UNCHANGED <<run, job>>
<1>1. UNCHANGED <<package, run, attempts, job>>
  BY DEF MarkNormalizing, GiveUp, Advance, StageFails, Gate
<1>2. exec' \in [Slots -> Execution] /\ ExecutionsHold'
  <2>1. \A r \in Runs : DOMAIN attempts[r] = DOMAIN attempts'[r]
    BY <1>1
  <2>2. CASE Advance(w)
    <3>1. PICK pc \in {"validating", "indexing", "analyzed", "uploaded"} : Move(w, pc) /\ exec[w].pc \in HasAttempt
      <4>1. DOMAIN Following = {"agent", "validated", "indexing", "analyzed"}
        BY DEF Following
      <4>2. \A p \in {"agent", "validated", "indexing", "analyzed"} :
              Following[p] \in {"validating", "indexing", "analyzed", "uploaded"}
        BY DEF Following
      <4>3. exec[w].pc \in DOMAIN Following /\ Move(w, Following[exec[w].pc])
        BY <2>2 DEF Advance
      <4> QED
        BY <4>1, <4>2, <4>3 DEF HasAttempt
    <3> QED
      BY <2>1, <3>1, MoveTyped DEF TypeInv, PCs, Stages, HasAttempt
  <2>3. CASE ~ Advance(w)
    <3>1. \E pc \in {"trying", "failing", "gated"} :
            Move(w, pc) /\ exec[w].pc # "idle" /\ (pc = "gated" => exec[w].pc = "uploaded")
      BY <2>3 DEF MarkNormalizing, GiveUp, StageFails, Gate
    <3> QED
      BY <2>1, <3>1, MoveTyped DEF TypeInv, PCs, Stages, HasAttempt
  <2> QED
    BY <2>2, <2>3
<1>3. status' \in {"absent", "ready", "failed"} \cup InProgress
  BY DEF MarkNormalizing, GiveUp, Advance, StageFails, Gate, UnlessPublished, InProgress, TypeInv,
     TypeOK
<1> QED
  BY <1>1, <1>2, <1>3 DEF ExecutionPart, TypeInv, TypeOK, JobsBounded

LEMMA StartAttemptTypeInv ==
  ASSUME TypeInv, NEW w \in Slots, StartAttempt(w)
  PROVE  ExecutionPart' /\ UNCHANGED <<run, job>>
<1> DEFINE r == exec[w].run
<1>0. UNCHANGED <<status, package, run, job>>
  BY DEF StartAttempt
<1>1. r \in Runs /\ exec[w].pc = "trying" /\ exec[w].tries \in 0..MaxTries /\ exec[w].tries < MaxTries
  BY DEF StartAttempt, TypeInv, TypeOK, ExecutionsHold, Execution
<1>2. CASE Move(w, "failing") /\ UNCHANGED attempts
  <2>1. exec' \in [Slots -> Execution] /\ ExecutionsHold'
    BY <1>1, <1>2, MoveTyped DEF TypeInv, PCs, HasAttempt
  <2> QED
    BY <1>0, <1>2, <2>1 DEF ExecutionPart, TypeInv, TypeOK, JobsBounded
<1>3. ASSUME attempts' = [attempts EXCEPT ![r] = Append(@, "running")],
             exec' = [exec EXCEPT ![w] = [pc |-> "agent", run |-> r, tries |-> exec[w].tries + 1,
                                          no |-> Len(attempts[r]) + 1]]
      PROVE  ExecutionPart'
  <2>1. PICK old \in Seq({"running", "succeeded", "failed"}) : old = attempts[r]
    BY <1>1 DEF TypeInv, TypeOK
  <2>2. Append(old, "running") \in Seq({"running", "succeeded", "failed"})
        /\ DOMAIN Append(old, "running") = 1..(Len(old) + 1) /\ DOMAIN old = 1..Len(old) /\ Len(old) \in Nat
    BY <2>1
  <2>3. attempts' \in [Runs -> Seq({"running", "succeeded", "failed"})]
    BY <1>3, <2>1, <2>2 DEF TypeInv, TypeOK
  <2>4. \A s \in Runs : DOMAIN attempts[s] \subseteq DOMAIN attempts'[s]
    BY <1>1, <1>3, <2>1, <2>2 DEF TypeInv, TypeOK
  <2> DEFINE e == [pc |-> "agent", run |-> r, tries |-> exec[w].tries + 1, no |-> Len(attempts[r]) + 1]
  <2>5. e \in Execution /\ e.pc = "agent" /\ e.run = r /\ e.no = Len(old) + 1
    BY <1>1, <2>1, <2>2, Bounds DEF Execution, Stages
  <2>6. e.no \in DOMAIN attempts'[e.run]
    BY <1>1, <1>3, <2>1, <2>2, <2>5 DEF TypeInv, TypeOK
  <2>7. exec' = [exec EXCEPT ![w] = e]
    BY <1>3
  <2> HIDE DEF e
  <2>8. exec' \in [Slots -> Execution] /\ ExecutionsHold'
    BY <1>1, <2>4, <2>5, <2>6, <2>7, ExecTyped DEF TypeInv
  <2> QED
    BY <1>0, <2>3, <2>8 DEF ExecutionPart, TypeInv, TypeOK, JobsBounded
<1> QED
  BY <1>0, <1>2, <1>3 DEF StartAttempt

LEMMA SettleAttemptTypeInv ==
  ASSUME TypeInv, NEW w \in Slots, CompleteAttempt(w) \/ AttemptFails(w)
  PROVE  ExecutionPart' /\ UNCHANGED <<run, job>>
<1> DEFINE r == exec[w].run
           n == exec[w].no
<1>0. UNCHANGED <<status, package, run, job>>
  BY DEF CompleteAttempt, AttemptFails
<1>1. r \in Runs /\ n \in DOMAIN attempts[r] /\ exec[w].pc \in {"agent", "validating", "validated"}
  BY DEF CompleteAttempt, AttemptFails, TypeInv, ExecutionsHold, HasAttempt
<1>2. attempts' \in [Runs -> Seq({"running", "succeeded", "failed"})]
      /\ \A s \in Runs : DOMAIN attempts[s] = DOMAIN attempts'[s]
  <2>1. PICK old \in Seq({"running", "succeeded", "failed"}) : old = attempts[r]
    BY <1>1 DEF TypeInv, TypeOK
  <2>2. \A s \in {"succeeded", "failed"} :
          [old EXCEPT ![n] = s] \in Seq({"running", "succeeded", "failed"})
          /\ DOMAIN [old EXCEPT ![n] = s] = DOMAIN old
    BY <1>1, <2>1
  <2>3. UNCHANGED attempts \/ \E s \in {"succeeded", "failed"} : SetOwn(w, s)
    BY DEF CompleteAttempt, AttemptFails
  <2>4. CASE UNCHANGED attempts
    BY <2>4 DEF TypeInv, TypeOK
  <2>5. ASSUME NEW s \in {"succeeded", "failed"}, SetOwn(w, s)
        PROVE  attempts' \in [Runs -> Seq({"running", "succeeded", "failed"})]
               /\ \A t \in Runs : DOMAIN attempts[t] = DOMAIN attempts'[t]
    <3>1. attempts' = [attempts EXCEPT ![r] = [old EXCEPT ![n] = s]]
      BY <1>1, <2>1, <2>5 DEF SetOwn, TypeInv, TypeOK
    <3> QED
      BY <1>1, <2>1, <2>2, <3>1 DEF TypeInv, TypeOK
  <2> QED
    BY <2>3, <2>4, <2>5
<1>3. exec' \in [Slots -> Execution] /\ ExecutionsHold'
  <2>1. \E pc \in {"validated", "trying"} : Move(w, pc)
    BY DEF CompleteAttempt, AttemptFails
  <2> QED
    BY <1>1, <1>2, <2>1, MoveTyped DEF TypeInv, PCs, Stages, HasAttempt
<1> QED
  BY <1>0, <1>2, <1>3 DEF ExecutionPart, TypeInv, TypeOK, JobsBounded

LEMMA EndTypeInv ==
  ASSUME TypeInv, NEW w \in Slots, Publish(w) \/ FailRun(w) \/ FailBook(w) \/ UpdateLost(w)
  PROVE  ExecutionPart'
<1>1. exec[w].run \in Runs /\ exec[w].pc \in {"gated", "failing", "run_failed"} /\ UNCHANGED attempts
  BY DEF Publish, FailRun, FailBook, UpdateLost, TypeInv, ExecutionsHold
<1>2. exec' \in [Slots -> Execution] /\ ExecutionsHold'
  <2>1. Leave(w) \/ Move(w, "run_failed")
    BY DEF Publish, FailRun, FailBook, UpdateLost
  <2> QED
    BY <1>1, <2>1, LeaveTyped, MoveTyped DEF TypeInv, PCs, HasAttempt
<1>3. run' \in [Runs -> {"none", "running", "completed", "failed"}]
      /\ \A r \in Runs : run'[r] = "none" => run[r] = "none"
  BY <1>1 DEF Publish, FailRun, FailBook, UpdateLost, TypeInv, TypeOK
<1>4. job' \in [Runs -> Job] /\ JobsBounded'
  <2>1. UNCHANGED job \/ JobEnds(w, "completed") \/ JobEnds(w, "failed")
    BY DEF Publish, FailRun, FailBook, UpdateLost
  <2>2. CASE UNCHANGED job
    BY <1>3, <2>2 DEF TypeInv, TypeOK, JobsBounded
  <2>3. CASE JobEnds(w, "completed") \/ JobEnds(w, "failed")
    BY <1>1, <1>3, <2>3, JobEndsTyped DEF TypeInv, JobsBounded
  <2> QED
    BY <2>1, <2>2, <2>3
<1>5. status' \in {"absent", "ready", "failed"} \cup InProgress
  BY DEF Publish, FailRun, FailBook, UpdateLost, UnlessPublished, TypeInv, TypeOK
<1>6. package' \in Package \cup {None}
  <2>1. CASE Publish(w)
    <3>1. exec[w].no \in Nat \ {0}
      <4>1. exec[w].no \in DOMAIN attempts[exec[w].run]
        BY <2>1 DEF Publish, TypeInv, ExecutionsHold, HasAttempt
      <4>2. attempts[exec[w].run] \in Seq({"running", "succeeded", "failed"})
        BY <1>1 DEF TypeInv, TypeOK
      <4> QED
        BY <4>1, <4>2
    <3> QED
      BY <1>1, <2>1, <3>1 DEF Publish, Package
  <2>2. CASE ~ Publish(w)
    BY <2>2 DEF FailRun, FailBook, UpdateLost, TypeInv, TypeOK
  <2> QED
    BY <2>1, <2>2
<1> QED
  BY <1>1, <1>2, <1>3, <1>4, <1>5, <1>6 DEF ExecutionPart, TypeInv, TypeOK

LEMMA TakeTypeInv ==
  ASSUME TypeInv, NEW w \in Slots, NEW r \in Runs, Load(w, r) \/ Reject(w, r)
  PROVE  ExecutionPart' /\ UNCHANGED run
<1>1. UNCHANGED <<book, run, attempts>>
  BY DEF Load, Reject
<1>2. exec' \in [Slots -> Execution] /\ ExecutionsHold'
  <2>1. CASE Load(w, r)
    <3>1. [pc |-> "loaded", run |-> r, tries |-> 0, no |-> 0] \in Execution
      BY Bounds DEF Execution, Stages
    <3> QED
      BY <1>1, <2>1, <3>1, ExecTyped DEF Load, TypeInv, HasAttempt
  <2>2. CASE Reject(w, r)
    BY <1>1, <2>2 DEF Reject, TypeInv, TypeOK, ExecutionsHold
  <2> QED
    BY <2>1, <2>2
<1> QED
  BY <1>1, <1>2, TakeTyped DEF ExecutionPart, TypeInv, TypeOK

LEMMA ExecutionTypeInv ==
  ASSUME TypeInv, NEW w \in Slots, ExecutionStep(w)
  PROVE  TypeInv'
<1>1. UNCHANGED <<request, worker>> /\ faults' \in 0..MaxFaults /\ lost' \in BOOLEAN
  BY ExecutionFrame
<1>2. ExecutionPart'
  BY MoveTypeInv, StartAttemptTypeInv, SettleAttemptTypeInv, EndTypeInv, TakeTypeInv
  DEF ExecutionStep, AttemptStep
<1>3. \A r \in Runs : (run'[r] = "none" => run[r] = "none") /\ (job[r].status = "absent" => job'[r] = job[r])
  <2>1. CASE Publish(w) \/ FailRun(w) \/ FailBook(w) \/ UpdateLost(w)
    <3>1. exec[w].run \in Runs
      BY <2>1 DEF Publish, FailRun, FailBook, UpdateLost, TypeInv, ExecutionsHold
    <3>2. UNCHANGED job \/ JobEnds(w, "completed") \/ JobEnds(w, "failed")
      BY <2>1 DEF Publish, FailRun, FailBook, UpdateLost
    <3>3. \A r \in Runs : run'[r] = "none" => run[r] = "none"
      BY <2>1, <3>1 DEF Publish, FailRun, FailBook, UpdateLost, TypeInv, TypeOK
    <3> QED
      BY <3>1, <3>2, <3>3, JobEndsTyped
  <2>2. ASSUME NEW s \in Runs, Load(w, s) \/ Reject(w, s)
        PROVE  \A r \in Runs : run'[r] = run[r] /\ (job[r].status = "absent" => job'[r] = job[r])
    <3>1. job[s].status = "waiting" /\ UNCHANGED run
      BY <2>2 DEF Load, Reject, Take
    <3>2. \A r \in Runs : r # s => job'[r] = job[r]
      BY <2>2 DEF Load, Reject, TypeInv, TypeOK
    <3> QED
      BY <3>1, <3>2
  <2>3. CASE UNCHANGED <<run, job>>
    BY <2>3
  <2> QED
    BY <2>1, <2>2, <2>3, MoveTypeInv, StartAttemptTypeInv, SettleAttemptTypeInv
    DEF ExecutionStep, AttemptStep
<1>4. RequestsHold'
  <2>1. \A c \in Requests : request[c].pc = "inserted" => request[c].run \in Runs
    BY DEF TypeInv, RequestsHold
  <2> QED
    BY <1>1, <1>3, <2>1 DEF TypeInv, RequestsHold
<1>5. request' \in [Requests -> Request] /\ worker' \in {"down", "reconciling", "up"}
  BY <1>1 DEF TypeInv, TypeOK
<1> QED
  BY <1>1, <1>2, <1>4, <1>5 DEF TypeInv, TypeOK, ExecutionPart

LEMMA RequeueTypeInv ==
  ASSUME TypeInv, NEW r \in Runs, Stall(r) \/ RecoverStopped(r)
  PROVE  TypeInv'
<1> DEFINE j == [status |-> IF job[r].stalls >= MaxStalls THEN "failed" ELSE "waiting",
                 owner |-> None, stalls |-> job[r].stalls + 1]
<1>1. job[r].status = "active" /\ job[r] \in Job /\ job[r].stalls \in Nat /\ job[r].stalls <= MaxStalls
  BY Bounds DEF Stall, RecoverStopped, TypeInv, TypeOK, JobsBounded, Job
<1>2. UNCHANGED <<book, run, attempts, request, worker, exec, lost>> /\ faults' \in 0..MaxFaults
  BY FaultTyped DEF Stall, RecoverStopped, TypeInv, TypeOK
<1>3. j \in Job /\ (j.status = "waiting" => j.stalls <= MaxStalls) /\ j.status \in {"failed", "waiting"}
  BY <1>1, Bounds DEF Job
<1>4. job' = [job EXCEPT ![r] = j]
  BY DEF Stall, RecoverStopped, Requeue
<1> HIDE DEF j
<1>5. job' \in [Runs -> Job] /\ job'[r] = j /\ \A s \in Runs : s # r => job'[s] = job[s]
  BY <1>3, <1>4 DEF TypeInv, TypeOK
<1>6. JobsBounded' /\ RequestsHold'
  BY <1>1, <1>2, <1>3, <1>5 DEF TypeInv, JobsBounded, RequestsHold
<1> QED
  BY <1>2, <1>5, <1>6 DEF TypeInv, TypeOK, ExecutionsHold

LEMMA ProcessTypeInv ==
  ASSUME TypeInv, ProcessStep
  PROVE  TypeInv'
<1>1. UNCHANGED <<package, attempts, job, request>>
  BY DEF ProcessStep, WorkerStops, Reconcile, ReconcileBooks, ReconcileError
<1>2. exec' \in [Slots -> Execution] /\ ExecutionsHold'
  <2>1. NoExecution \in Execution /\ NoExecution.pc = "idle"
    BY Bounds DEF NoExecution, Execution, Stages
  <2>2. CASE WorkerStops
    BY <2>1, <2>2 DEF WorkerStops, ExecutionsHold, HasAttempt
  <2>3. CASE UNCHANGED exec
    BY <1>1, <2>3 DEF TypeInv, TypeOK, ExecutionsHold
  <2> QED
    BY <2>2, <2>3 DEF ProcessStep, Reconcile, ReconcileBooks, ReconcileError
<1>3. run' \in [Runs -> {"none", "running", "completed", "failed"}]
      /\ \A r \in Runs : run'[r] = "none" <=> run[r] = "none"
  BY DEF ProcessStep, WorkerStops, Reconcile, ReconcileBooks, ReconcileError, TypeInv, TypeOK
<1>4. worker' \in {"down", "reconciling", "up"}
  BY DEF ProcessStep, WorkerStops, Reconcile, ReconcileBooks, ReconcileError, TypeInv, TypeOK
<1>5. status' \in {"absent", "ready", "failed"} \cup InProgress
  BY DEF ProcessStep, WorkerStops, Reconcile, ReconcileBooks, ReconcileError, UnlessPublished,
     TypeInv, TypeOK
<1>6. lost' \in BOOLEAN
  BY DEF ProcessStep, WorkerStops, Reconcile, ReconcileBooks, ReconcileError, TypeInv, TypeOK
<1>7. faults' \in 0..MaxFaults
  BY FaultTyped DEF ProcessStep, WorkerStops, Reconcile, ReconcileBooks, ReconcileError, TypeInv,
     TypeOK
<1>8. RequestsHold' /\ JobsBounded'
  BY <1>1, <1>3 DEF TypeInv, RequestsHold, JobsBounded
<1> QED
  BY <1>1, <1>2, <1>3, <1>4, <1>5, <1>6, <1>7, <1>8 DEF TypeInv, TypeOK

LEMMA TypeInvNext == TypeInv /\ [Next]_vars => TypeInv'
<1>1. ASSUME TypeInv, UNCHANGED vars PROVE TypeInv'
  BY <1>1 DEF vars, TypeInv, TypeOK, RequestsHold, JobsBounded, ExecutionsHold
<1> QED
  BY <1>1, RequestTypeInv, ExecutionTypeInv, RequeueTypeInv, ProcessTypeInv DEF Next

\* Every reachable state of the import, the queue and the worker has its type:
\* tries, stalls and failures stay within their bounds.
THEOREM NormalizationTypeCorrect == Spec => []TypeOK
<1>1. TypeInv => TypeOK
  BY DEF TypeInv
<1> QED
  BY <1>1, TypeInvInit, TypeInvNext, PTL DEF Spec

LEMMA TypeInvHolds == Spec => []TypeInv
BY TypeInvInit, TypeInvNext, PTL DEF Spec

(***************************************************************************)
(* Who writes what                                                         *)
(***************************************************************************)
\* A run starts by an insert that finds none running; after that it only settles.
LEMMA RunWriters ==
  ASSUME TypeInv, [Next]_vars
  PROVE  \/ \E r \in Runs : /\ run[r] = "none" /\ ~ AnyRunning
                            /\ run' = [run EXCEPT ![r] = "running"]
                            /\ UNCHANGED <<package, exec, job, attempts>>
         \/ \A r \in Runs : /\ (run'[r] = "running" => run[r] = "running")
                            /\ (run'[r] = "none" <=> run[r] = "none")
<1>1. CASE \E c \in Requests : InsertRun(c)
  BY <1>1 DEF InsertRun
<1>2. CASE \E c \in Requests : RequestStep(c) /\ ~ InsertRun(c)
  BY <1>2 DEF RequestStep, ReadBook, FindActiveRun, RequestAborts, Enqueue, EnqueueError,
              UndoRun, ApiCrash, TypeInv, TypeOK, RequestsHold
<1>3. CASE \E w \in Slots : Publish(w) \/ FailRun(w)
  BY <1>3 DEF Publish, FailRun, TypeInv, TypeOK, ExecutionsHold
<1>4. CASE \E w \in Slots : ExecutionStep(w) /\ ~ Publish(w) /\ ~ FailRun(w)
  <2>1. UNCHANGED run
    BY <1>4 DEF ExecutionStep, AttemptStep, Load, Reject, MarkNormalizing, StartAttempt, GiveUp,
                CompleteAttempt, AttemptFails, Advance, StageFails, Gate, FailBook, UpdateLost
  <2> QED
    BY <2>1
<1>5. CASE UNCHANGED run
  BY <1>5
<1>6. CASE Reconcile
  BY <1>6 DEF Reconcile, TypeInv, TypeOK
<1> QED
  BY <1>1, <1>2, <1>3, <1>4, <1>5, <1>6
  DEF Next, ProcessStep, WorkerStops, ReconcileBooks, ReconcileError, Stall, RecoverStopped, vars

\* An execution begins with a running run of a book without a package, and keeps it.
LEMMA ExecWriters ==
  ASSUME TypeInv, [Next]_vars, NEW w \in Slots, exec'[w].pc # "idle"
  PROVE  \/ exec[w].pc # "idle" /\ exec'[w].run = exec[w].run
         \/ /\ exec'[w].run \in Runs /\ run[exec'[w].run] = "running" /\ package = None
            /\ job[exec'[w].run].status = "waiting" /\ job'[exec'[w].run].status = "active"
            /\ UNCHANGED <<run, package>>
<1>1. CASE UNCHANGED exec
  <2>1. exec'[w].run = exec[w].run /\ exec[w].pc # "idle"
    BY <1>1
  <2> QED
    BY <2>1
<1>2. ASSUME NEW v \in Slots, NEW r \in Runs, Load(v, r)
      PROVE  \/ exec[w].pc # "idle" /\ exec'[w].run = exec[w].run
             \/ /\ exec'[w].run \in Runs /\ run[exec'[w].run] = "running" /\ package = None
                /\ job[exec'[w].run].status = "waiting" /\ job'[exec'[w].run].status = "active"
                /\ UNCHANGED <<run, package>>
  BY <1>2 DEF Load, Take, TypeInv, TypeOK
<1>3. ASSUME NEW v \in Slots, exec[v].pc # "idle",
             \/ Leave(v)
             \/ \E pc \in PCs : Move(v, pc)
             \/ \E e \in [pc: {"agent"}, run: {exec[v].run}, tries: Nat, no: Nat] : exec' = [exec EXCEPT ![v] = e]
      PROVE  exec[w].pc # "idle" /\ exec'[w].run = exec[w].run
  <2>1. CASE v = w
    BY <1>3, <2>1 DEF TypeInv, TypeOK, Execution, NoExecution
  <2>2. CASE v # w
    BY <1>3, <2>2 DEF TypeInv, TypeOK
  <2> QED
    BY <2>1, <2>2
<1>4. CASE WorkerStops
  BY <1>4 DEF WorkerStops, NoExecution
<1>5. ASSUME NEW v \in Slots, ExecutionStep(v), \A r \in Runs : ~ Load(v, r), ~ UNCHANGED exec
      PROVE  exec[w].pc # "idle" /\ exec'[w].run = exec[w].run
  <2>1. CASE Advance(v)
    <3>1. Following[exec[v].pc] \in PCs /\ exec[v].pc # "idle"
      <4>1. DOMAIN Following = {"agent", "validated", "indexing", "analyzed"}
        BY DEF Following
      <4>2. \A p \in {"agent", "validated", "indexing", "analyzed"} : Following[p] \in PCs
        BY DEF Following, PCs, Stages
      <4> QED
        BY <2>1, <4>1, <4>2 DEF Advance
    <3> QED
      BY <1>3, <2>1, <3>1 DEF Advance
  <2>2. CASE StartAttempt(v)
    <3>1. exec[v].pc # "idle" /\ exec[v].tries + 1 \in Nat
      BY <2>2 DEF StartAttempt, TypeInv, TypeOK, Execution
    <3>2. CASE Move(v, "failing")
      BY <1>3, <3>1, <3>2 DEF PCs
    <3>3. CASE exec' = [exec EXCEPT ![v] = [pc |-> "agent", run |-> exec[v].run,
                          tries |-> exec[v].tries + 1, no |-> Len(attempts[exec[v].run]) + 1]]
      <4>1. exec[v].run \in Runs
        BY <3>1 DEF TypeInv, ExecutionsHold
      <4>2. Len(attempts[exec[v].run]) + 1 \in Nat
        BY <4>1 DEF TypeInv, TypeOK
      <4> QED
        BY <1>3, <3>1, <3>3, <4>2
    <3> QED
      BY <2>2, <3>2, <3>3 DEF StartAttempt
  <2>3. CASE ~ Advance(v) /\ ~ StartAttempt(v)
    <3>1. exec[v].pc # "idle" /\ (Leave(v) \/ \E pc \in {"trying", "failing", "validated", "gated", "run_failed"} : Move(v, pc))
      BY <1>5, <2>3 DEF ExecutionStep, AttemptStep, Reject, MarkNormalizing, GiveUp,
         CompleteAttempt,
                        AttemptFails, StageFails, Gate, Publish, FailRun, FailBook, UpdateLost
    <3> QED
      BY <1>3, <3>1 DEF PCs, Stages
  <2> QED
    BY <2>1, <2>2, <2>3
<1>6. ASSUME NEW c \in Requests, RequestStep(c) PROVE UNCHANGED exec
  BY <1>6, RequestFrame
<1> QED
  BY <1>1, <1>2, <1>4, <1>5, <1>6
  DEF Next, ProcessStep, Reconcile, ReconcileBooks, ReconcileError, Stall, RecoverStopped, vars

LEMMA PackageWriters ==
  ASSUME TypeInv, [Next]_vars
  PROVE  UNCHANGED package \/ \E w \in Slots : Publish(w)
<1>1. ASSUME NEW c \in Requests, RequestStep(c) PROVE UNCHANGED package
  BY <1>1, RequestFrame
<1>2. ASSUME NEW w \in Slots, ExecutionStep(w), ~ Publish(w) PROVE UNCHANGED package
  BY <1>2 DEF ExecutionStep, AttemptStep, Load, Reject, MarkNormalizing, StartAttempt, GiveUp,
              CompleteAttempt, AttemptFails, Advance, StageFails, Gate, FailRun, FailBook,
              UpdateLost
<1> QED
  BY <1>1, <1>2 DEF Next, ProcessStep, WorkerStops, Reconcile, ReconcileBooks, ReconcileError,
                    Stall, RecoverStopped, vars

(***************************************************************************)
(* Publication                                                             *)
(***************************************************************************)
\* The unique index on running runs of a book.
OneRunning == \A r, s \in Runs : run[r] = "running" /\ run[s] = "running" => r = s

ExecutionsClaimed == \A w \in Slots : exec[w].pc # "idle" => run[exec[w].run] # "none"

\* Once the book has a package, no execution is left whose run could publish: a
\* run inserted later by a request that read too early is never executed.
NothingLeftToPublish ==
  package # None => \A w \in Slots : exec[w].pc # "idle" => run[exec[w].run] # "running"

PublicationInv == TypeInv /\ OneRunning /\ ExecutionsClaimed /\ NothingLeftToPublish

LEMMA PublicationInit == Init => PublicationInv
BY TypeInvInit DEF Init, PublicationInv, OneRunning, ExecutionsClaimed, NothingLeftToPublish,
   NoExecution

LEMMA PublicationNext == PublicationInv /\ [Next]_vars => PublicationInv'
<1> SUFFICES ASSUME PublicationInv, [Next]_vars PROVE PublicationInv'
  OBVIOUS
<1>0. TypeInv /\ TypeInv'
  BY TypeInvNext DEF PublicationInv
<1>1. CASE \E r \in Runs : /\ run[r] = "none" /\ ~ AnyRunning
                            /\ run' = [run EXCEPT ![r] = "running"]
                            /\ UNCHANGED <<package, exec, job, attempts>>
  BY <1>0, <1>1 DEF PublicationInv, OneRunning, ExecutionsClaimed, NothingLeftToPublish,
     AnyRunning,
                    TypeInv, TypeOK, ExecutionsHold
<1>2. CASE \A r \in Runs : /\ (run'[r] = "running" => run[r] = "running")
                            /\ (run'[r] = "none" <=> run[r] = "none")
  <2>1. OneRunning'
    BY <1>2 DEF PublicationInv, OneRunning
  <2>2. ExecutionsClaimed'
    BY <1>0, <1>2, ExecWriters DEF PublicationInv, ExecutionsClaimed, TypeInv, ExecutionsHold
  <2>3. NothingLeftToPublish'
    <3>1. ASSUME NEW w \in Slots, Publish(w), NEW v \in Slots, exec'[v].pc # "idle"
          PROVE  run'[exec'[v].run] # "running"
      <4>1. exec[w].run \in Runs /\ run[exec[w].run] = "running" /\ run'[exec[w].run] = "completed"
        BY <1>0, <3>1 DEF Publish, TypeInv, TypeOK, ExecutionsHold
      <4>2. exec[v].pc # "idle" /\ exec'[v].run = exec[v].run /\ exec[v].run \in Runs
        <5>1. ~ UNCHANGED run
          BY <4>1
        <5> QED
          BY <1>0, <3>1, <5>1, ExecWriters DEF TypeInv, ExecutionsHold
      <4> QED
        BY <1>2, <4>1, <4>2 DEF PublicationInv, OneRunning
    <3>2. CASE UNCHANGED package
      BY <1>0, <1>2, <3>2, ExecWriters DEF PublicationInv, NothingLeftToPublish, TypeInv,
         ExecutionsHold
    <3> QED
      BY <1>0, <3>1, <3>2, PackageWriters DEF NothingLeftToPublish
  <2> QED
    BY <1>0, <2>1, <2>2, <2>3 DEF PublicationInv
<1> QED
  BY <1>0, <1>1, <1>2, RunWriters

LEMMA PublicationHolds == Spec => []PublicationInv
BY PublicationInit, PublicationNext, PTL DEF Spec

LEMMA PublishesFirst ==
  ASSUME PublicationInv, NEW w \in Slots, Publish(w)
  PROVE  package = None
BY DEF Publish, PublicationInv, NothingLeftToPublish

\* A published package is never replaced, whatever failures happen: the key is
\* that its publication leaves no execution behind whose run still runs.
THEOREM PackagePublishedOnce == Spec => PublishedOnce
<1>1. PublicationInv /\ [Next]_vars => (package # None => package' = package)
  BY PackageWriters, PublishesFirst DEF PublicationInv
<1>2. PublicationInv /\ [Next]_vars => [package # None => package' = package]_vars
  BY <1>1
<1> QED
  BY <1>2, PublicationHolds, PTL DEF Spec, PublishedOnce

\* No step of the worker changes the status of a published book: every handler
\* that may come late asks for the package in its statement.
THEOREM PublishedBookKept == Spec => PublishedNotDemoted
<1>1. ASSUME PublicationInv, [Next]_vars, package # None, request' = request
      PROVE  status' = status
  <2>1. ASSUME NEW c \in Requests, RequestStep(c) PROVE status' = status
    <3>1. CASE InsertRun(c)
      <4>1. request[c].pc = "checked" /\ request'[c].pc = "inserted"
        BY <1>1, <3>1 DEF InsertRun, PublicationInv, TypeInv, TypeOK
      <4> QED
        BY <1>1, <4>1
    <3>2. CASE UndoRun(c)
      <4>1. request[c].pc = "undo" /\ request'[c].pc = "idle"
        BY <1>1, <3>2 DEF UndoRun, NoRequest, PublicationInv, TypeInv, TypeOK
      <4> QED
        BY <1>1, <4>1
    <3> QED
      BY <2>1, <3>1, <3>2 DEF RequestStep, ReadBook, FindActiveRun, RequestAborts, Enqueue,
         EnqueueError, ApiCrash
  <2>2. ASSUME NEW w \in Slots, ExecutionStep(w) PROVE status' = status
    <3>1. ~ Publish(w)
      BY <1>1, PublishesFirst
    <3> QED
      BY <1>1, <2>2, <3>1
      DEF ExecutionStep, AttemptStep, Load, Reject, MarkNormalizing, StartAttempt, GiveUp,
         CompleteAttempt,
          AttemptFails, Advance, StageFails, Gate, FailRun, FailBook, UpdateLost, UnlessPublished
  <2> QED
    BY <1>1, <2>1, <2>2
    DEF Next, ProcessStep, WorkerStops, Reconcile, ReconcileBooks, ReconcileError, UnlessPublished,
        Stall, RecoverStopped, vars
<1>2. PublicationInv /\ [Next]_vars => [package # None /\ request' = request => status' = status]_vars
  BY <1>1
<1> QED
  BY <1>2, PublicationHolds, PTL DEF Spec, PublishedNotDemoted

(***************************************************************************)
(* Outcomes                                                                *)
(***************************************************************************)
\* The run of a request on its way to the queue is its own and unknown to the
\* queue, so that the undo of a failed enqueue can fail no completed run.
HeldInv ==
  /\ \A c \in Requests : request[c].pc \in {"inserted", "undo"} => job[request[c].run].status = "absent"
  /\ \A c, d \in Requests :
       /\ request[c].pc \in {"inserted", "undo"} /\ request[d].pc \in {"inserted", "undo"}
       /\ request[c].run = request[d].run
       => c = d
  /\ \A r \in Runs : run[r] = "completed" => job[r].status # "absent"
  /\ \A w \in Slots : exec[w].pc # "idle" => job[exec[w].run].status # "absent"

OutcomeInv == TypeInv /\ HeldInv

\* Only an enqueue makes a job, and no step of the queue or the worker removes one.
LEMMA JobWriters ==
  ASSUME TypeInv, NEW w \in Slots, ExecutionStep(w), NEW r \in Runs
  PROVE  job'[r].status = "absent" <=> job[r].status = "absent"
<1>1. CASE Publish(w) \/ FailBook(w) \/ UpdateLost(w)
  <2>1. exec[w].run \in Runs
    BY <1>1 DEF Publish, FailBook, UpdateLost, TypeInv, ExecutionsHold
  <2>2. UNCHANGED job \/ JobEnds(w, "completed") \/ JobEnds(w, "failed")
    BY <1>1 DEF Publish, FailBook, UpdateLost
  <2> QED
    BY <2>1, <2>2, JobEndsTyped
<1>2. ASSUME NEW s \in Runs, Load(w, s) \/ Reject(w, s)
      PROVE  job'[r].status = "absent" <=> job[r].status = "absent"
  <2>1. job[s].status = "waiting" /\ job \in [Runs -> Job]
    BY <1>2 DEF Load, Reject, Take, TypeInv, TypeOK
  <2>2. job'[s].status # "absent"
    BY <1>2, <2>1 DEF Load, Reject
  <2>3. s # r => job'[r] = job[r]
    BY <1>2, <2>1 DEF Load, Reject
  <2> QED
    BY <2>1, <2>2, <2>3
<1>3. CASE UNCHANGED job
  BY <1>3
<1> QED
  BY <1>1, <1>2, <1>3
  DEF ExecutionStep, AttemptStep, MarkNormalizing, StartAttempt, GiveUp, CompleteAttempt,
     AttemptFails,
      Advance, StageFails, Gate, FailRun

LEMMA OutcomeInit == Init => OutcomeInv
BY TypeInvInit DEF Init, OutcomeInv, HeldInv, NoRequest, NoExecution

LEMMA HeldRequests ==
  ASSUME OutcomeInv, "enqueue_unacknowledged" \notin Faults, NEW c \in Requests, RequestStep(c)
  PROVE  HeldInv'
<1>0. TypeInv /\ HeldInv /\ TypeInv' /\ UNCHANGED exec
  BY RequestTypeInv, RequestFrame DEF OutcomeInv
<1>1. CASE ReadBook(c) \/ FindActiveRun(c) \/ RequestAborts(c)
  <2>1. UNCHANGED <<run, job>> /\ (UNCHANGED request \/ Goto(c, "read") \/ Goto(c, "checked") \/ Answer(c))
    BY <1>1, Zenon DEF ReadBook, FindActiveRun, RequestAborts
  <2>2. request[c].pc \in {"idle", "read", "checked"}
    BY <1>1 DEF ReadBook, FindActiveRun, RequestAborts
  <2>3. request'[c].pc \notin {"inserted", "undo"}
    BY <1>0, <2>1, <2>2 DEF NoRequest, TypeInv, TypeOK, Request
  <2>4. \A d \in Requests : d # c => request'[d] = request[d]
    BY <1>0, <2>1, RequestTyped DEF TypeInv
  <2> QED
    BY <1>0, <2>1, <2>3, <2>4 DEF HeldInv
<1>2. CASE InsertRun(c)
  <2>1. PICK r \in Runs : /\ run[r] = "none"
                           /\ run' = [run EXCEPT ![r] = "running"]
                           /\ request' = [request EXCEPT ![c] = [pc |-> "inserted", run |-> r]]
    BY <1>2 DEF InsertRun
  <2>2. request'[c] = [pc |-> "inserted", run |-> r] /\ \A d \in Requests : d # c => request'[d] = request[d]
    BY <1>0, <2>1 DEF TypeInv, TypeOK
  <2>3. job[r].status = "absent" /\ UNCHANGED job
        /\ \A d \in Requests : request[d].pc \in {"inserted", "undo"} => request[d].run # r
    BY <1>0, <1>2, <2>1 DEF InsertRun, TypeInv, JobsBounded, RequestsHold
  <2>4. \A s \in Runs : run'[s] = "completed" => run[s] = "completed"
    BY <1>0, <2>1 DEF TypeInv, TypeOK
  <2> QED
    BY <1>0, <2>2, <2>3, <2>4 DEF HeldInv
<1>3. CASE Enqueue(c)
  <2>1. request[c].pc = "inserted" /\ request[c].run \in Runs /\ UNCHANGED run
    BY <1>0, <1>3 DEF Enqueue, TypeInv, RequestsHold
  <2>2. request'[c].pc = "idle" /\ \A d \in Requests : d # c => request'[d] = request[d]
    BY <1>0, <1>3 DEF Enqueue, NoRequest, TypeInv, TypeOK
  <2>3. job'[request[c].run].status # "absent" /\ \A r \in Runs : r # request[c].run => job'[r] = job[r]
    BY <1>0, <1>3, <2>1 DEF Enqueue, Add, TypeInv, TypeOK, Job
  <2>4. \A w \in Slots : exec[w].pc # "idle" => exec[w].run \in Runs
    BY <1>0 DEF TypeInv, ExecutionsHold
  <2>5. \A d \in Requests : request[d].pc \in {"inserted", "undo"} => request[d].run \in Runs
    BY <1>0 DEF TypeInv, RequestsHold
  <2> QED
    BY <1>0, <2>1, <2>2, <2>3, <2>4, <2>5 DEF HeldInv
<1>4. CASE EnqueueError(c)
  <2>1. request[c].pc = "inserted" /\ Goto(c, "undo") /\ UNCHANGED <<run, job>>
    BY <1>4 DEF EnqueueError, Fails
  <2>2. \A d \in Requests : request'[d].run = request[d].run /\ (d # c => request'[d] = request[d])
    BY <1>0, <2>1 DEF TypeInv, TypeOK, Request
  <2>3. \A d \in Requests : request'[d].pc \in {"inserted", "undo"} => request[d].pc \in {"inserted", "undo"}
    BY <2>1, <2>2
  <2> QED
    BY <1>0, <2>1, <2>2, <2>3 DEF HeldInv
<1>5. CASE UndoRun(c) \/ ApiCrash(c)
  <2>1. request'[c].pc = "idle" /\ \A d \in Requests : d # c => request'[d] = request[d]
    BY <1>0, <1>5 DEF UndoRun, ApiCrash, NoRequest, TypeInv, TypeOK
  <2>2. UNCHANGED job /\ \A s \in Runs : run'[s] = "completed" => run[s] = "completed"
    BY <1>0, <1>5 DEF UndoRun, ApiCrash, TypeInv, TypeOK
  <2> QED
    BY <1>0, <2>1, <2>2 DEF HeldInv
<1> QED
  BY <1>1, <1>2, <1>3, <1>4, <1>5 DEF RequestStep

LEMMA HeldNext ==
  ASSUME "enqueue_unacknowledged" \notin Faults, OutcomeInv, [Next]_vars
  PROVE  OutcomeInv'
<1>0. TypeInv /\ HeldInv /\ TypeInv'
  BY TypeInvNext DEF OutcomeInv
<1>1. ASSUME NEW c \in Requests, RequestStep(c) PROVE HeldInv'
  BY <1>1, HeldRequests
<1>2. ASSUME UNCHANGED request,
             \A r \in Runs : job'[r].status = "absent" <=> job[r].status = "absent",
             \A r \in Runs : run'[r] = "completed" => run[r] = "completed" \/ job[r].status # "absent"
      PROVE  HeldInv'
  <2>1. \A c \in Requests : request[c].pc \in {"inserted", "undo"} => request[c].run \in Runs
    BY <1>0 DEF TypeInv, RequestsHold
  <2>2. ASSUME NEW w \in Slots, exec'[w].pc # "idle"
        PROVE  job'[exec'[w].run].status # "absent"
    <3>1. exec'[w].run \in Runs
      BY <1>0, <2>2 DEF TypeInv, ExecutionsHold
    <3>2. CASE exec[w].pc # "idle" /\ exec'[w].run = exec[w].run
      BY <1>0, <1>2, <3>1, <3>2 DEF HeldInv
    <3>3. CASE job'[exec'[w].run].status = "active"
      BY <3>3
    <3> QED
      BY <1>0, <2>2, <3>2, <3>3, ExecWriters
  <2>3. \A c \in Requests : request'[c].pc \in {"inserted", "undo"} => job'[request'[c].run].status = "absent"
    BY <1>0, <1>2, <2>1 DEF HeldInv
  <2>4. \A r \in Runs : run'[r] = "completed" => job'[r].status # "absent"
    BY <1>0, <1>2 DEF HeldInv
  <2>5. \A c, d \in Requests :
          /\ request'[c].pc \in {"inserted", "undo"} /\ request'[d].pc \in {"inserted", "undo"}
          /\ request'[c].run = request'[d].run
          => c = d
    BY <1>0, <1>2 DEF HeldInv
  <2> QED
    BY <2>2, <2>3, <2>4, <2>5 DEF HeldInv
<1>3. ASSUME NEW w \in Slots, ExecutionStep(w) PROVE HeldInv'
  <2>1. UNCHANGED request
    BY <1>0, <1>3, ExecutionFrame
  <2>2. \A r \in Runs : job'[r].status = "absent" <=> job[r].status = "absent"
    BY <1>0, <1>3, JobWriters
  <2>3. ASSUME NEW r \in Runs, run'[r] = "completed"
        PROVE  run[r] = "completed" \/ job[r].status # "absent"
    <3>1. CASE Publish(w)
      <4>1. exec[w].pc # "idle" /\ exec[w].run \in Runs /\ run' = [run EXCEPT ![exec[w].run] = "completed"]
        BY <1>0, <3>1 DEF Publish, TypeInv, ExecutionsHold
      <4>2. job[exec[w].run].status # "absent"
        BY <1>0, <4>1 DEF HeldInv
      <4>3. r # exec[w].run => run'[r] = run[r]
        BY <1>0, <4>1 DEF TypeInv, TypeOK
      <4> QED
        BY <2>3, <4>2, <4>3
    <3>2. CASE FailRun(w)
      BY <1>0, <2>3, <3>2 DEF FailRun, TypeInv, TypeOK
    <3>3. CASE UNCHANGED run
      BY <2>3, <3>3
    <3> QED
      BY <1>3, <3>1, <3>2, <3>3
      DEF ExecutionStep, AttemptStep, Load, Reject, MarkNormalizing, StartAttempt, GiveUp,
         CompleteAttempt,
          AttemptFails, Advance, StageFails, Gate, FailBook, UpdateLost
  <2> QED
    BY <1>2, <2>1, <2>2, <2>3
<1>4. ASSUME NEW s \in Runs, Stall(s) \/ RecoverStopped(s) PROVE HeldInv'
  <2>1. UNCHANGED <<request, run>> /\ job[s].status = "active" /\ Requeue(s)
    BY <1>4 DEF Stall, RecoverStopped
  <2>2. \A r \in Runs : job'[r].status = "absent" <=> job[r].status = "absent"
    BY <1>0, <2>1 DEF Requeue, TypeInv, TypeOK
  <2> QED
    BY <1>2, <2>1, <2>2
<1>5. ASSUME ProcessStep PROVE HeldInv'
  <2>1. UNCHANGED <<request, job>>
    BY <1>5 DEF ProcessStep, WorkerStops, Reconcile, ReconcileBooks, ReconcileError
  <2>2. \A r \in Runs : run'[r] = "completed" => run[r] = "completed"
    BY <1>0, <1>5 DEF ProcessStep, WorkerStops, Reconcile, ReconcileBooks, ReconcileError, TypeInv,
       TypeOK
  <2>3. \A r \in Runs : job'[r].status = "absent" <=> job[r].status = "absent"
    BY <2>1
  <2> QED
    BY <1>2, <2>1, <2>2, <2>3
<1>6. ASSUME UNCHANGED vars PROVE HeldInv'
  <2>1. UNCHANGED <<request, run, job>>
    BY <1>6 DEF vars
  <2>2. \A r \in Runs : job'[r].status = "absent" <=> job[r].status = "absent"
    BY <2>1
  <2>3. \A r \in Runs : run'[r] = "completed" => run[r] = "completed" \/ job[r].status # "absent"
    BY <2>1
  <2> QED
    BY <1>2, <2>1, <2>2, <2>3
<1> QED
  BY <1>0, <1>1, <1>3, <1>4, <1>5, <1>6 DEF Next, OutcomeInv

\* A settled run keeps its outcome, in every step.
LEMMA SettledKept ==
  ASSUME OutcomeInv, [Next]_vars, NEW r \in Runs, run[r] \in {"completed", "failed"}
  PROVE  run'[r] = run[r]
<1>0. TypeInv /\ HeldInv
  BY DEF OutcomeInv
<1>1. ASSUME NEW c \in Requests, RequestStep(c) PROVE run'[r] = run[r]
  <2>1. CASE InsertRun(c)
    BY <1>0, <2>1 DEF InsertRun, TypeInv, TypeOK
  <2>2. CASE UndoRun(c)
    <3>1. request[c].run \in Runs /\ run[request[c].run] # "completed"
      BY <1>0, <2>2 DEF UndoRun, HeldInv, TypeInv, RequestsHold
    <3> QED
      BY <1>0, <2>2, <3>1 DEF UndoRun, TypeInv, TypeOK
  <2>3. CASE UNCHANGED run
    BY <2>3
  <2> QED
    BY <1>1, <2>1, <2>2, <2>3
    DEF RequestStep, ReadBook, FindActiveRun, RequestAborts, Enqueue, EnqueueError, ApiCrash
<1>2. ASSUME NEW w \in Slots, ExecutionStep(w) PROVE run'[r] = run[r]
  <2>1. CASE Publish(w) \/ FailRun(w)
    BY <1>0, <2>1 DEF Publish, FailRun, TypeInv, TypeOK
  <2>2. CASE UNCHANGED run
    BY <2>2
  <2> QED
    BY <1>2, <2>1, <2>2
    DEF ExecutionStep, AttemptStep, Load, Reject, MarkNormalizing, StartAttempt, GiveUp,
       CompleteAttempt,
        AttemptFails, Advance, StageFails, Gate, FailBook, UpdateLost
<1>3. CASE Reconcile
  BY <1>0, <1>3 DEF Reconcile, TypeInv, TypeOK
<1>4. CASE UNCHANGED run
  BY <1>4
<1> QED
  BY <1>1, <1>2, <1>3, <1>4
  DEF Next, ProcessStep, WorkerStops, ReconcileBooks, ReconcileError, Stall, RecoverStopped, vars

\* A run that ended stays as it ended, unless an enqueue that reached the queue
\* is reported as failed: then the undo fails a run that may be completed.
THEOREM OutcomesAreFinal ==
  ASSUME "enqueue_unacknowledged" \notin Faults
  PROVE  Spec => OutcomesFinal
<1>1. OutcomeInv /\ [Next]_vars
      => [\A r \in Runs : run[r] \in {"completed", "failed"} => run'[r] = run[r]]_vars
  BY SettledKept
<1>2. OutcomeInv /\ [Next]_vars => OutcomeInv'
  BY HeldNext
<1> QED
  BY <1>1, <1>2, OutcomeInit, PTL DEF Spec, OutcomesFinal

(***************************************************************************)
(* Provenance                                                              *)
(***************************************************************************)
\* The gate of the publication looked at the attempt, and nothing takes back an
\* attempt that succeeded, by a second execution of the same job for example.
GatedValidated ==
  \A w \in Slots : exec[w].pc = "gated" => attempts[exec[w].run][exec[w].no] = "succeeded"

ProvenanceInv == OutcomeInv /\ GatedValidated /\ PackageProvenance

LEMMA AttemptsKept ==
  ASSUME TypeInv, [Next]_vars, NEW r \in Runs, NEW i \in DOMAIN attempts[r],
         attempts[r][i] = "succeeded"
  PROVE  i \in DOMAIN attempts'[r] /\ attempts'[r][i] = "succeeded"
<1>1. CASE UNCHANGED attempts
  BY <1>1
<1>2. ASSUME NEW w \in Slots, StartAttempt(w), ~ UNCHANGED attempts
      PROVE  i \in DOMAIN attempts'[r] /\ attempts'[r][i] = "succeeded"
  <2>1. exec[w].run \in Runs /\ attempts' = [attempts EXCEPT ![exec[w].run] = Append(@, "running")]
    BY <1>2 DEF StartAttempt, TypeInv, ExecutionsHold
  <2>2. PICK old \in Seq({"running", "succeeded", "failed"}) : old = attempts[r]
    BY DEF TypeInv, TypeOK
  <2>3. attempts'[r] = old \/ attempts'[r] = Append(old, "running")
    BY <2>1, <2>2 DEF TypeInv, TypeOK
  <2> QED
    BY <2>2, <2>3
<1>3. ASSUME NEW w \in Slots, CompleteAttempt(w) \/ AttemptFails(w), ~ UNCHANGED attempts
      PROVE  i \in DOMAIN attempts'[r] /\ attempts'[r][i] = "succeeded"
  <2>1. exec[w].run \in Runs /\ exec[w].no \in DOMAIN attempts[exec[w].run]
        /\ attempts[exec[w].run][exec[w].no] = "running"
    BY <1>3 DEF CompleteAttempt, AttemptFails, TypeInv, ExecutionsHold, HasAttempt
  <2>2. PICK s \in {"succeeded", "failed"} : SetOwn(w, s)
    BY <1>3 DEF CompleteAttempt, AttemptFails
  <2>3. PICK old \in Seq({"running", "succeeded", "failed"}) : old = attempts[r]
    BY DEF TypeInv, TypeOK
  <2>4. attempts'[r] = old \/ (r = exec[w].run /\ attempts'[r] = [old EXCEPT ![exec[w].no] = s])
    BY <2>1, <2>2, <2>3 DEF SetOwn, TypeInv, TypeOK
  <2>5. r = exec[w].run => i # exec[w].no
    BY <2>1
  <2> QED
    BY <2>3, <2>4, <2>5
<1>4. ASSUME NEW w \in Slots, ExecutionStep(w)
      PROVE  UNCHANGED attempts \/ StartAttempt(w) \/ CompleteAttempt(w) \/ AttemptFails(w)
  BY <1>4 DEF ExecutionStep, AttemptStep, Load, Reject, MarkNormalizing, GiveUp, Advance,
     StageFails, Gate,
              Publish, FailRun, FailBook, UpdateLost
<1>5. ASSUME NEW c \in Requests, RequestStep(c) PROVE UNCHANGED attempts
  BY <1>5, RequestFrame
<1> QED
  BY <1>1, <1>2, <1>3, <1>4, <1>5
  DEF Next, ProcessStep, WorkerStops, Reconcile, ReconcileBooks, ReconcileError, Stall,
     RecoverStopped, vars

\* An execution is past the gate because it was, or by passing it.
LEMMA GateWriters ==
  ASSUME TypeInv, [Next]_vars, NEW w \in Slots, exec'[w].pc = "gated"
  PROVE  /\ exec'[w].run = exec[w].run /\ exec'[w].no = exec[w].no
         /\ exec[w].pc = "gated" \/ (exec[w].pc = "uploaded" /\ attempts[exec[w].run][exec[w].no] = "succeeded")
<1>1. CASE UNCHANGED exec
  BY <1>1
<1>2. CASE WorkerStops
  BY <1>2 DEF WorkerStops, NoExecution
<1>3. ASSUME NEW v \in Slots, ExecutionStep(v), ~ UNCHANGED exec
      PROVE  /\ exec'[w].run = exec[w].run /\ exec'[w].no = exec[w].no
             /\ exec[w].pc = "gated" \/ (exec[w].pc = "uploaded" /\ attempts[exec[w].run][exec[w].no] = "succeeded")
  <2>1. exec \in [Slots -> Execution]
    BY DEF TypeInv, TypeOK
  <2>2. CASE v # w
    <3>1. exec'[w] = exec[w]
      BY <1>3, <2>1, <2>2
      DEF ExecutionStep, AttemptStep, Load, Reject, MarkNormalizing, StartAttempt, GiveUp,
         CompleteAttempt,
          AttemptFails, Advance, StageFails, Gate, Publish, FailRun, FailBook, UpdateLost
    <3> QED
      BY <3>1
  <2>3. CASE v = w /\ Gate(w)
    BY <2>1, <2>3 DEF Gate, Execution
  <2>4. CASE v = w /\ ~ Gate(w)
    <3>1. CASE Advance(w)
      <4>1. Following[exec[w].pc] # "gated" /\ exec' = [exec EXCEPT ![w].pc = Following[exec[w].pc]]
        <5>1. DOMAIN Following = {"agent", "validated", "indexing", "analyzed"}
          BY DEF Following
        <5>2. \A p \in {"agent", "validated", "indexing", "analyzed"} : Following[p] # "gated"
          BY DEF Following
        <5> QED
          BY <3>1, <5>1, <5>2 DEF Advance
      <4> QED
        BY <2>1, <4>1 DEF Execution
    <3>2. CASE ~ Advance(w)
      <4>1. exec'[w].pc # "gated"
        <5>1. CASE Leave(w)
          BY <2>1, <5>1 DEF NoExecution
        <5>2. ASSUME NEW pc \in {"trying", "failing", "validated", "run_failed"}, Move(w, pc)
              PROVE  exec'[w].pc # "gated"
          BY <2>1, <5>2 DEF Execution
        <5>3. CASE StartAttempt(w) /\ ~ Move(w, "failing")
          BY <2>1, <5>3 DEF StartAttempt
        <5>4. ASSUME NEW r \in Runs, Load(w, r) PROVE exec'[w].pc # "gated"
          BY <2>1, <5>4 DEF Load
        <5> QED
          BY <1>3, <2>4, <3>2, <5>1, <5>2, <5>3, <5>4
          DEF ExecutionStep, AttemptStep, Reject, MarkNormalizing, GiveUp, CompleteAttempt,
             AttemptFails,
              StageFails, Publish, FailRun, FailBook, UpdateLost
      <4> QED
        BY <4>1
    <3> QED
      BY <3>1, <3>2
  <2> QED
    BY <1>3, <2>2, <2>3, <2>4
<1>4. ASSUME NEW c \in Requests, RequestStep(c) PROVE UNCHANGED exec
  BY <1>4, RequestFrame
<1> QED
  BY <1>1, <1>2, <1>3, <1>4
  DEF Next, ProcessStep, Reconcile, ReconcileBooks, ReconcileError, Stall, RecoverStopped, vars

LEMMA ProvenanceInit == Init => ProvenanceInv
<1> SUFFICES ASSUME Init PROVE ProvenanceInv
  OBVIOUS
<1>1. package = None /\ \A w \in Slots : exec[w].pc = "idle"
  BY DEF Init, NoExecution
<1> QED
  BY <1>1, OutcomeInit DEF ProvenanceInv, GatedValidated, PackageProvenance

LEMMA ProvenanceNext ==
  ASSUME "enqueue_unacknowledged" \notin Faults, ProvenanceInv, [Next]_vars
  PROVE  ProvenanceInv'
<1>0. OutcomeInv /\ TypeInv /\ GatedValidated /\ PackageProvenance /\ OutcomeInv'
  BY HeldNext DEF ProvenanceInv, OutcomeInv
<1>1. GatedValidated'
  <2> SUFFICES ASSUME NEW w \in Slots, exec'[w].pc = "gated"
               PROVE  attempts'[exec'[w].run][exec'[w].no] = "succeeded"
    BY DEF GatedValidated
  <2>1. /\ exec'[w].run = exec[w].run /\ exec'[w].no = exec[w].no
        /\ exec[w].pc = "gated" \/ (exec[w].pc = "uploaded" /\ attempts[exec[w].run][exec[w].no] = "succeeded")
    BY <1>0, GateWriters
  <2>2. exec[w].run \in Runs /\ exec[w].no \in DOMAIN attempts[exec[w].run]
    BY <1>0, <2>1 DEF TypeInv, ExecutionsHold, HasAttempt
  <2>3. attempts[exec[w].run][exec[w].no] = "succeeded"
    BY <1>0, <2>1 DEF GatedValidated
  <2> QED
    BY <1>0, <2>1, <2>2, <2>3, AttemptsKept
<1>2. PackageProvenance'
  <2>1. ASSUME NEW w \in Slots, Publish(w) PROVE PackageProvenance'
    <3>1. package' = <<exec[w].run, exec[w].no>> /\ exec[w].pc = "gated" /\ UNCHANGED attempts
          /\ run' = [run EXCEPT ![exec[w].run] = "completed"]
      BY <2>1 DEF Publish
    <3>2. exec[w].run \in Runs /\ exec[w].no \in DOMAIN attempts[exec[w].run]
      BY <1>0, <3>1 DEF TypeInv, ExecutionsHold, HasAttempt
    <3>3. run'[exec[w].run] = "completed"
      BY <1>0, <3>1, <3>2 DEF TypeInv, TypeOK
    <3> QED
      BY <1>0, <3>1, <3>2, <3>3 DEF PackageProvenance, GatedValidated
  <2>2. CASE UNCHANGED package /\ package # None
    <3>1. PICK r \in Runs, i \in Nat \ {0} : package = <<r, i>>
      BY <1>0, <2>2 DEF TypeInv, TypeOK, Package
    <3>2. run[r] = "completed" /\ i \in DOMAIN attempts[r] /\ attempts[r][i] = "succeeded"
      BY <1>0, <2>2, <3>1 DEF PackageProvenance
    <3>3. run'[r] = "completed"
      BY <1>0, <3>2, SettledKept
    <3>4. i \in DOMAIN attempts'[r] /\ attempts'[r][i] = "succeeded"
      BY <1>0, <3>2, AttemptsKept
    <3>5. package'[1] = r /\ package'[2] = i
      BY <2>2, <3>1
    <3> QED
      BY <3>3, <3>4, <3>5 DEF PackageProvenance
  <2>3. CASE UNCHANGED package /\ package = None
    BY <2>3 DEF PackageProvenance
  <2> QED
    BY <1>0, <2>1, <2>2, <2>3, PackageWriters
<1> QED
  BY <1>0, <1>1, <1>2 DEF ProvenanceInv

\* The package a book points to comes from a validated attempt of the run that
\* is completed with it, whatever executions, failures and requests intervene.
THEOREM PackagesAreValidated ==
  ASSUME "enqueue_unacknowledged" \notin Faults
  PROVE  Spec => []PackageProvenance
<1>1. ProvenanceInv /\ [Next]_vars => ProvenanceInv'
  BY ProvenanceNext
<1>2. ProvenanceInv => PackageProvenance
  BY DEF ProvenanceInv
<1> QED
  BY <1>1, <1>2, ProvenanceInit, PTL DEF Spec

HIDE DEF book, RunOf, At, Move, Goto, Answer, Leave, Own

(***************************************************************************)
(* Accounts, sessions, profiles and what the tabs know of them             *)
(***************************************************************************)

\* The reader of the browser's cookie.
Reader == Accounts!ShownOf(Accounts!UserOf(cookie))

Truthful(c) == c # None /\ c.answer # None /\ ~c.outdated

\* Rows are never deleted, and whoever names one names one that is there.
RowsStand ==
  /\ \A k \in Tokens : session[k] # None => account[session[k].user] # None
  /\ cookie # None => session[cookie] # None

\* A call knows what it is for, and was sent with the cookie of now unless it is outdated.
CallFits(c, kind) ==
  /\ kind = "session" => c.op = "session"
  /\ kind = "form" => c.op \in Accounts!Forms /\ (c.op # "logout" => c.who # None)
  /\ kind = "onboard" => c.op \in {"onboard", "answers"}
  /\ kind = "profile" => c.op \in {"user", "version"}
  /\ kind # "form" /\ ~c.outdated => c.token = cookie

SessionFits(c) == /\ c.answer # None => c.answer.status = "ok" /\ c.answer.value \in Accounts!Shown
                  /\ Truthful(c) => c.answer.value = Reader

FormFits(c) ==
  c.answer # None =>
    /\ c.op = "logout" => c.answer.status = "ok" /\ c.answer.value = Accounts!Nobody
    /\ c.answer.status = "ok" /\ c.op # "logout" =>
         /\ c.token # None /\ session[c.token] # None /\ c.answer.value \in Accounts!Shown
         /\ ~c.outdated => c.answer.value = Accounts!ShownOf(Accounts!UserOf(c.token))

OnboardFits(c) ==
  /\ c.input \in Inputs
  /\ c.op = "answers" => /\ c.who # None /\ account[c.who] # None
                         /\ ~c.outdated => Accounts!UserOf(cookie) = c.who
  /\ c.answer # None => /\ c.answer.status \in {"ok", "unauthorized", "refused"}
                        /\ c.answer.status = "ok" => \E i \in Identities : account[i] # None
                             /\ account[i].profile = c.answer.value /\ c.answer.value # None
  /\ Truthful(c) => /\ c.answer.status = "ok" => Reader.completed
                    /\ c.answer.status = "unauthorized" => Reader = Accounts!Nobody

ProfileFits(c) ==
  /\ c.op = "version" => c.who # None /\ account[c.who] # None
       /\ (c.seen => account[c.who].profile # None)
  /\ c.answer # None =>
       /\ c.answer.status \in {"ok", "inconsistent"} => c.op = "version"
       /\ c.answer.status = "ok" /\ c.answer.value # None => account[c.who].profile = c.answer.value
       /\ c.answer.status = "inconsistent" => ~c.seen /\ account[c.who].profile # None
  /\ Truthful(c) /\ c.answer.status = "unauthorized" => Reader = Accounts!Nobody

CallOK(c, kind) ==
  c # None =>
    /\ CallFits(c, kind)
    /\ kind = "session" => SessionFits(c)
    /\ kind = "form" => FormFits(c)
    /\ kind = "onboard" => OnboardFits(c)
    /\ kind = "profile" => ProfileFits(c)

CallsFit(t) == \A k \in Accounts!Kinds : CallOK(calls[t][k], k)

\* A page that is not known yet shows nobody and asks for nothing else.
Opens(t) == page[t].known # "known" => /\ page[t].shown = Accounts!Nobody
                                       /\ \A k \in Accounts!Kinds \ {"session"} : calls[t][k] = None
                                       /\ page[t].known = "closed" => calls[t]["session"] = None

PageFits(t) ==
  page[t].known = "known" /\ ~behind[t] =>
    LET form == calls[t]["form"]  onboard == calls[t]["onboard"] IN
    \/ page[t].shown = Reader
    \/ /\ onboard # None /\ onboard.answer # None /\ onboard.answer.status = "ok"
       /\ onboard.outdated \/ page[t].shown.user = Reader.user
    \/ form # None /\ form.op = "logout" /\ form.answer # None
    \/ page[t].error /\ page[t].shown = Accounts!Nobody /\ onboard = None

AccountsInv ==
  Accounts!TypeOK /\ RowsStand /\ \A t \in Tabs : CallsFit(t) /\ Opens(t) /\ PageFits(t)

\* None is nothing that is stored or sent.
LEMMA NoneIsNone ==
  /\ None \notin Identities /\ None \notin Tokens /\ None \notin Inputs
  /\ None \notin Accounts!Account /\ None \notin Accounts!Session /\ None \notin Accounts!Answer
  /\ None \notin Accounts!Call
BY AccountsAssumption DEF Accounts!Account, Accounts!Session, Accounts!Answer, Accounts!Call,
   Accounts!Shown, Accounts!Forms

LEMMA CallFields ==
  ASSUME NEW c \in Accounts!Call
  PROVE  /\ c.op \in Accounts!Forms \cup {"session", "onboard", "answers", "user", "version"}
         /\ c.token \in Tokens \cup {None}
         /\ c.who \in Identities \cup {None} /\ c.input \in Inputs \cup {None} /\ c.seen \in BOOLEAN
         /\ c.answer \in Accounts!Answer \cup {None} /\ c.outdated \in BOOLEAN /\ c # None
BY NoneIsNone DEF Accounts!Call

LEMMA AnswerFields ==
  ASSUME NEW a \in Accounts!Answer
  PROVE  /\ a.status \in {"ok", "unauthorized", "refused", "inconsistent"}
         /\ a.value \in Accounts!Shown \cup Inputs \cup {None} /\ a # None
BY NoneIsNone DEF Accounts!Answer

\* Rows are kept: accounts and sessions stay, and so does a profile.
RowsKept ==
  /\ \A k \in Tokens : session[k] # None => session'[k] # None
  /\ \A i \in Identities : account[i] # None =>
       account'[i] # None /\ (account[i].profile # None => account'[i].profile = account[i].profile)

\* Nothing that is stored changes.
RowsGrow ==
  /\ \A k \in Tokens : session[k] # None => session'[k] = session[k]
  /\ \A i \in Identities : account[i] # None => account'[i] = account[i]

\* The reader of the cookie goes on reading.
SameUser == Accounts!UserOf(cookie)' = Accounts!UserOf(cookie)

LEMMA GrowingKeeps == RowsGrow => RowsKept
BY DEF RowsGrow, RowsKept

LEMMA UserOfIs ==
  ASSUME Accounts!TypeOK, RowsStand, NEW k \in Tokens \cup {None}
  PROVE  /\ Accounts!UserOf(k) \in Identities \cup {None}
         /\ Accounts!UserOf(k) # None => /\ k \in Tokens /\ session[k] # None
                                         /\ Accounts!UserOf(k) = session[k].user
                                         /\ account[Accounts!UserOf(k)] # None
                                         /\ account[Accounts!UserOf(k)] \in Accounts!Account
                                         /\ ~account[Accounts!UserOf(k)].disabled
         /\ Accounts!ShownOf(Accounts!UserOf(k)) \in Accounts!Shown
         /\ Accounts!ShownOf(Accounts!UserOf(k)).user = Accounts!UserOf(k)
         /\ Accounts!UserOf(k) = None => Accounts!ShownOf(Accounts!UserOf(k)) = Accounts!Nobody
         /\ Accounts!UserOf(k) # None =>
              Accounts!ShownOf(Accounts!UserOf(k)) = [user |-> Accounts!UserOf(k),
                completed |-> account[Accounts!UserOf(k)].profile # None]
<1>1. Accounts!UserOf(None) = None
  BY DEF Accounts!UserOf
<1>2. CASE Accounts!UserOf(k) = None
  <2>1. Accounts!ShownOf(Accounts!UserOf(k)) = Accounts!Nobody /\ Accounts!Nobody \in Accounts!Shown
          /\ Accounts!Nobody.user = None
    BY <1>2 DEF Accounts!ShownOf, Accounts!Nobody, Accounts!Shown
  <2>2. QED
    BY <1>2, <2>1
<1>3. CASE Accounts!UserOf(k) # None
  <2>1. k \in Tokens /\ session[k] # None /\ Accounts!UserOf(k) = session[k].user
          /\ ~account[session[k].user].disabled
    BY <1>1, <1>3 DEF Accounts!UserOf
  <2>2. session[k] \in Accounts!Session
    BY <2>1 DEF Accounts!TypeOK
  <2>3. Accounts!UserOf(k) \in Identities /\ account[Accounts!UserOf(k)] # None
    BY <2>1, <2>2 DEF Accounts!Session, RowsStand
  <2>4. account[Accounts!UserOf(k)] \in Accounts!Account
    BY <2>3 DEF Accounts!TypeOK
  <2>5. Accounts!ShownOf(Accounts!UserOf(k)) = [user |-> Accounts!UserOf(k),
          completed |-> account[Accounts!UserOf(k)].profile # None]
    BY <1>3 DEF Accounts!ShownOf, Accounts!PublicUser
  <2>6. Accounts!ShownOf(Accounts!UserOf(k)) \in Accounts!Shown
          /\ Accounts!ShownOf(Accounts!UserOf(k)).user = Accounts!UserOf(k)
    BY <2>3, <2>5 DEF Accounts!Shown
  <2>7. QED
    BY <1>3, <2>1, <2>3, <2>4, <2>5, <2>6
<1>4. QED
  BY <1>2, <1>3

\* What is said of a token that is stored depends on what is stored.
LEMMA SameReader ==
  ASSUME Accounts!TypeOK, RowsStand, RowsGrow, NEW k \in Tokens \cup {None},
         k # None => session[k] # None
  PROVE  Accounts!ShownOf(Accounts!UserOf(k))' = Accounts!ShownOf(Accounts!UserOf(k))
         /\ Accounts!UserOf(k)' = Accounts!UserOf(k)
<1>1. CASE k = None
  BY <1>1 DEF Accounts!UserOf, Accounts!ShownOf, Accounts!Nobody
<1>2. CASE k # None
  <2>1. k \in Tokens /\ session[k] # None /\ session'[k] = session[k]
    BY <1>2 DEF RowsGrow
  <2>2. session[k] \in Accounts!Session /\ session[k].user \in Identities
    BY <2>1 DEF Accounts!TypeOK, Accounts!Session
  <2>3. account'[session[k].user] = account[session[k].user]
    BY <2>1, <2>2 DEF RowsStand, RowsGrow
  <2>4. Accounts!UserOf(k)' = Accounts!UserOf(k)
    BY <2>1, <2>3 DEF Accounts!UserOf
  <2>5. Accounts!UserOf(k) # None => Accounts!UserOf(k) = session[k].user
    BY DEF Accounts!UserOf
  <2>6. QED
    BY <2>3, <2>4, <2>5 DEF Accounts!ShownOf, Accounts!PublicUser, Accounts!Nobody
<1>3. QED
  BY <1>1, <1>2

LEMMA ReaderIs ==
  ASSUME Accounts!TypeOK, RowsStand
  PROVE  /\ Reader \in Accounts!Shown /\ Reader.user = Accounts!UserOf(cookie)
         /\ Accounts!UserOf(cookie) = None => Reader = Accounts!Nobody
         /\ Accounts!UserOf(cookie) # None =>
              Reader = [user |-> Accounts!UserOf(cookie),
                completed |-> account[Accounts!UserOf(cookie)].profile # None]
BY UserOfIs DEF Reader, Accounts!TypeOK

LEMMA ReaderStays ==
  ASSUME Accounts!TypeOK, RowsStand, RowsGrow, UNCHANGED cookie
  PROVE  Reader' = Reader /\ SameUser
<1>1. cookie \in Tokens \cup {None} /\ (cookie # None => session[cookie] # None)
  BY DEF Accounts!TypeOK, RowsStand
<1>2. PICK k \in Tokens \cup {None} : k = cookie
  BY <1>1
<1>3. Accounts!ShownOf(Accounts!UserOf(k))' = Accounts!ShownOf(Accounts!UserOf(k))
        /\ Accounts!UserOf(k)' = Accounts!UserOf(k)
  BY <1>1, <1>2, SameReader
<1>4. cookie' = k
  BY <1>2
<1>5. QED
  BY <1>2, <1>3, <1>4 DEF Reader, SameUser, Accounts!UserOf

\* A call that does not depend on what changed is what it was.
LEMMA CallStays ==
  ASSUME Accounts!TypeOK, RowsStand, RowsKept, NEW c \in Accounts!Call \cup {None},
         NEW kind \in Accounts!Kinds, CallOK(c, kind),
         c # None /\ ~c.outdated => /\ UNCHANGED cookie /\ (c.answer # None => RowsGrow)
                                    /\ c.op = "answers" => RowsGrow \/ SameUser
  PROVE  CallOK(c, kind)'
<1> SUFFICES ASSUME c # None
             PROVE  CallOK(c, kind)'
  BY DEF CallOK
<1>1. c \in Accounts!Call /\ CallFits(c, kind)
  BY DEF CallOK
<1>2. CallFits(c, kind)'
  BY <1>1 DEF CallFits
<1>3. Truthful(c) => Reader' = Reader
  BY ReaderStays DEF Truthful
<1>4. ASSUME kind = "session" PROVE SessionFits(c)'
  BY <1>3, <1>4 DEF CallOK, SessionFits, Truthful
<1>5. ASSUME kind = "form" PROVE FormFits(c)'
  <2>1. FormFits(c) /\ c.token \in Tokens \cup {None}
    BY <1>1, <1>5, CallFields DEF CallOK
  <2>2. c.token # None /\ session[c.token] # None => session'[c.token] # None
    BY <2>1 DEF RowsKept
  <2>3. ASSUME c.answer # None, ~c.outdated, c.token # None, session[c.token] # None
        PROVE  Accounts!ShownOf(Accounts!UserOf(c.token))'
               = Accounts!ShownOf(Accounts!UserOf(c.token))
    BY <2>1, <2>3, SameReader
  <2>4. QED
    BY <2>1, <2>2, <2>3 DEF FormFits
<1>6. ASSUME kind = "onboard" PROVE OnboardFits(c)'
  <2>1. OnboardFits(c) /\ c.who \in Identities \cup {None}
    BY <1>1, <1>6, CallFields DEF CallOK
  <2>2. c.op = "answers" => c.who # None /\ account'[c.who] # None
    BY <2>1 DEF OnboardFits, RowsKept
  <2>3. c.op = "answers" /\ ~c.outdated => Accounts!UserOf(cookie)' = c.who
    BY <2>1, ReaderStays DEF OnboardFits, SameUser
  <2>4. QED
    BY <1>3, <2>1, <2>2, <2>3 DEF OnboardFits, Truthful, RowsKept
<1>7. ASSUME kind = "profile" PROVE ProfileFits(c)'
  <2>1. ProfileFits(c) /\ c.who \in Identities \cup {None}
    BY <1>1, <1>7, CallFields DEF CallOK
  <2>2. c.op = "version" => /\ c.who # None /\ account[c.who] # None /\ account'[c.who] # None
                            /\ account[c.who].profile # None =>
                                 account'[c.who].profile = account[c.who].profile
    BY <2>1 DEF ProfileFits, RowsKept
  <2>3. QED
    BY <1>3, <2>1, <2>2 DEF ProfileFits, Truthful
<1>8. QED
  BY <1>2, <1>4, <1>5, <1>6, <1>7 DEF CallOK

LEMMA CallSet ==
  ASSUME Accounts!TypeOK, NEW t \in Tabs, NEW kind \in Accounts!Kinds, NEW r,
         calls' = [calls EXCEPT ![t][kind] = r]
  PROVE  /\ calls'[t][kind] = r
         /\ \A k \in Accounts!Kinds : k # kind => calls'[t][k] = calls[t][k]
         /\ \A u \in Tabs : u # t => calls'[u] = calls[u]
         /\ r \in Accounts!Call \cup {None} =>
              calls' \in [Tabs -> [Accounts!Kinds -> Accounts!Call \cup {None}]]
<1>1. calls \in [Tabs -> [Accounts!Kinds -> Accounts!Call \cup {None}]]
  BY DEF Accounts!TypeOK
<1>2. calls[t] \in [Accounts!Kinds -> Accounts!Call \cup {None}]
  BY <1>1
<1>3. calls' = [calls EXCEPT ![t] = [calls[t] EXCEPT ![kind] = r]]
  OBVIOUS
<1>4. calls'[t] = [calls[t] EXCEPT ![kind] = r] /\ \A u \in Tabs : u # t => calls'[u] = calls[u]
  BY <1>1, <1>3
<1>5. calls'[t][kind] = r /\ \A k \in Accounts!Kinds : k # kind => calls'[t][k] = calls[t][k]
  BY <1>2, <1>4
<1>6. ASSUME r \in Accounts!Call \cup {None}
      PROVE calls' \in [Tabs -> [Accounts!Kinds -> Accounts!Call \cup {None}]]
  <2>1. [calls[t] EXCEPT ![kind] = r] \in [Accounts!Kinds -> Accounts!Call \cup {None}]
    BY <1>2, <1>6
  <2>2. QED
    BY <1>1, <1>3, <2>1
<1>7. QED
  BY <1>4, <1>5, <1>6

\* The same of the one that changes and of the others.
LEMMA CallsThen ==
  ASSUME Accounts!TypeOK, NEW t \in Tabs, NEW kind \in Accounts!Kinds, NEW r,
         calls' = [calls EXCEPT ![t] = [calls[t] EXCEPT ![kind] = r]]
  PROVE  calls'[t][kind] = r /\ \A k \in Accounts!Kinds : k # kind => calls'[t][k] = calls[t][k]
<1>1. calls[t] \in [Accounts!Kinds -> Accounts!Call \cup {None}]
  BY DEF Accounts!TypeOK
<1>2. calls'[t] = [calls[t] EXCEPT ![kind] = r]
  BY DEF Accounts!TypeOK
<1>3. QED
  BY <1>1, <1>2

LEMMA CallIs ==
  ASSUME Accounts!TypeOK, NEW t \in Tabs, NEW kind \in Accounts!Kinds
  PROVE  /\ calls[t][kind] \in Accounts!Call \cup {None} /\ page[t] \in Accounts!Page
         /\ behind[t] \in BOOLEAN
         /\ (page[t].known \in {"closed", "pending", "known"} /\ page[t].shown \in Accounts!Shown
              /\ page[t].error \in BOOLEAN)
BY DEF Accounts!TypeOK, Accounts!Page

StoreFits ==
  /\ account \in [Identities -> Accounts!Account \cup {None}]
  /\ session \in [Tokens -> Accounts!Session \cup {None}]
  /\ cookie \in Tokens \cup {None} /\ budget \in 0..MaxRequests /\ RowsStand

\* Only one call changes, for a tab whose page may change with it.
LEMMA OneCall ==
  ASSUME AccountsInv, StoreFits', RowsGrow, UNCHANGED cookie, NEW t \in Tabs,
         NEW kind \in Accounts!Kinds,
         NEW r \in Accounts!Call \cup {None}, calls' = [calls EXCEPT ![t][kind] = r],
         CallOK(r, kind)',
         page' \in [Tabs -> Accounts!Page], behind' \in [Tabs -> BOOLEAN],
         \A u \in Tabs : u # t => page'[u] = page[u] /\ behind'[u] = behind[u],
         Opens(t)', PageFits(t)'
  PROVE  AccountsInv'
<1>1. Accounts!TypeOK /\ RowsStand /\ RowsKept
  BY GrowingKeeps DEF AccountsInv
<1>2. /\ calls'[t][kind] = r
      /\ \A k \in Accounts!Kinds : k # kind => calls'[t][k] = calls[t][k]
      /\ \A u \in Tabs : u # t => calls'[u] = calls[u]
      /\ calls' \in [Tabs -> [Accounts!Kinds -> Accounts!Call \cup {None}]]
  BY <1>1, CallSet
<1>3. Accounts!TypeOK' /\ RowsStand'
  BY <1>2 DEF Accounts!TypeOK, StoreFits
<1>4. ASSUME NEW u \in Tabs, NEW k \in Accounts!Kinds PROVE CallOK(calls[u][k], k)'
  <2>1. CASE u = t /\ k = kind
    BY <1>2, <2>1 DEF CallOK, CallFits, SessionFits, FormFits, OnboardFits, ProfileFits, Truthful
  <2>2. CASE ~(u = t /\ k = kind)
    <3>1. PICK c \in Accounts!Call \cup {None} : c = calls[u][k]
      BY <1>1, CallIs
    <3>2. calls'[u][k] = c
      BY <1>2, <2>2, <3>1
    <3>3. CallOK(c, k)
      BY <3>1 DEF AccountsInv, CallsFit
    <3>4. CallOK(c, k)'
      BY <1>1, <3>3, CallStays
    <3>5. QED
      BY <3>2, <3>4 DEF CallOK, CallFits, SessionFits, FormFits, OnboardFits, ProfileFits, Truthful
  <2>3. QED
    BY <2>1, <2>2
<1>5. ASSUME NEW u \in Tabs, u # t PROVE Opens(u)' /\ PageFits(u)'
  <2>1. calls'[u] = calls[u] /\ page'[u] = page[u] /\ behind'[u] = behind[u] /\ Opens(u)
          /\ PageFits(u)
    BY <1>2, <1>5 DEF AccountsInv
  <2>2. Reader' = Reader
    BY <1>1, ReaderStays
  <2>3. QED
    BY <2>1, <2>2 DEF Opens, PageFits
<1>6. QED
  BY <1>3, <1>4, <1>5 DEF AccountsInv, CallsFit

\* Only one call changes, and no page.
LEMMA QuietStep ==
  ASSUME AccountsInv, StoreFits', RowsGrow, UNCHANGED <<cookie, page, behind>>,
         NEW t \in Tabs, NEW kind \in Accounts!Kinds,
         NEW r \in Accounts!Call \cup {None}, calls' = [calls EXCEPT ![t][kind] = r],
         CallOK(r, kind)',
         page[t].known = "known" \/ (kind = "session" /\ page[t].known = "pending"),
         LET c == calls[t][kind] IN
           /\ kind = "onboard" /\ c # None /\ c.answer # None => c.answer.status # "ok"
           /\ kind = "onboard" /\ c = None => ~page[t].error
           /\ kind = "form" /\ c # None /\ c.answer # None => c.op # "logout"
  PROVE  AccountsInv'
<1>1. Accounts!TypeOK /\ RowsStand /\ Reader' = Reader
  BY ReaderStays DEF AccountsInv
<1>2. calls'[t][kind] = r /\ \A k \in Accounts!Kinds : k # kind => calls'[t][k] = calls[t][k]
  BY <1>1, CallSet
<1>3. page' \in [Tabs -> Accounts!Page] /\ behind' \in [Tabs -> BOOLEAN]
  BY DEF AccountsInv, Accounts!TypeOK
<1>4. page[t].known = "known" => page[t].known # "pending" /\ page[t].known # "closed"
  OBVIOUS
<1>5. Opens(t)'
  BY <1>2 DEF AccountsInv, Opens
<1>6. PageFits(t)'
  <2> DEFINE form == calls[t]["form"]
             onboard == calls[t]["onboard"]
  <2>1. SUFFICES ASSUME page[t].known = "known", ~behind[t]
                 PROVE  \/ page[t].shown = Reader
                        \/ /\ calls'[t]["onboard"] # None /\ calls'[t]["onboard"].answer # None
                           /\ calls'[t]["onboard"].answer.status = "ok"
                           /\ calls'[t]["onboard"].outdated \/ page[t].shown.user = Reader.user
                        \/ calls'[t]["form"] # None /\ calls'[t]["form"].op = "logout"
                             /\ calls'[t]["form"].answer # None
                        \/ page[t].error /\ page[t].shown = Accounts!Nobody
                             /\ calls'[t]["onboard"] = None
    BY <1>1 DEF PageFits
  <2>2. "form" \in Accounts!Kinds /\ "onboard" \in Accounts!Kinds
    BY DEF Accounts!Kinds
  <2>3. \/ page[t].shown = Reader
        \/ /\ onboard # None /\ onboard.answer # None /\ onboard.answer.status = "ok"
           /\ onboard.outdated \/ page[t].shown.user = Reader.user
        \/ form # None /\ form.op = "logout" /\ form.answer # None
        \/ page[t].error /\ page[t].shown = Accounts!Nobody /\ onboard = None
    BY <2>1 DEF AccountsInv, PageFits
  <2>4. onboard # None /\ onboard.answer # None /\ onboard.answer.status = "ok" => kind # "onboard"
    OBVIOUS
  <2>5. form # None /\ form.op = "logout" /\ form.answer # None => kind # "form"
    OBVIOUS
  <2>6. page[t].error /\ onboard = None => kind # "onboard"
    OBVIOUS
  <2>7. QED
    BY <1>2, <2>2, <2>3, <2>4, <2>5, <2>6
<1>7. QED
  BY <1>3, <1>5, <1>6, OneCall

LEMMA StoreRests ==
  ASSUME AccountsInv, UNCHANGED <<account, session, cookie>>, budget' \in 0..MaxRequests
  PROVE  StoreFits' /\ RowsGrow /\ Reader' = Reader
<1>1. StoreFits' /\ RowsGrow
  BY DEF AccountsInv, Accounts!TypeOK, StoreFits, RowsStand, RowsGrow
<1>2. QED
  BY <1>1, ReaderStays DEF AccountsInv

LEMMA RequestFits ==
  ASSUME AccountsInv, NEW kind \in Accounts!Kinds, NEW op, NEW who \in Identities \cup {None},
         NEW input \in Inputs \cup {None},
         \/ kind = "session" /\ op = "session"
         \/ kind = "form" /\ op \in Accounts!Forms /\ (op # "logout" => who # None)
         \/ kind = "onboard" /\ op = "onboard" /\ input \in Inputs
         \/ kind = "profile" /\ op = "user"
  PROVE  Accounts!Request(op, who, input) \in Accounts!Call
         /\ CallOK(Accounts!Request(op, who, input), kind)
<1>1. cookie \in Tokens \cup {None}
  BY DEF AccountsInv, Accounts!TypeOK
<1>2. PICK r : r = Accounts!Request(op, who, input)
  OBVIOUS
<1>3. r \in Accounts!Call
  BY <1>1, <1>2 DEF Accounts!Request, Accounts!Call, Accounts!Forms
<1>4. r.op = op /\ r.token = cookie /\ r.who = who /\ r.input = input /\ r.answer = None
  BY <1>2 DEF Accounts!Request
<1>5. CallFits(r, kind) /\ ~Truthful(r)
  BY <1>4 DEF CallFits, Truthful
<1>6. CallOK(r, kind)
  BY <1>4, <1>5 DEF CallOK, SessionFits, FormFits, OnboardFits, ProfileFits, Accounts!Forms
<1>7. QED
  BY <1>2, <1>3, <1>6

LEMMA Sent ==
  ASSUME AccountsInv, NEW t \in Tabs, NEW kind \in Accounts!Kinds, NEW op,
         NEW who \in Identities \cup {None},
         NEW input \in Inputs \cup {None},
         \/ kind = "session" /\ op = "session"
         \/ kind = "form" /\ op \in Accounts!Forms /\ (op # "logout" => who # None)
         \/ kind = "onboard" /\ op = "onboard" /\ input \in Inputs
         \/ kind = "profile" /\ op = "user",
         Accounts!Send(t, kind, Accounts!Request(op, who, input)),
         UNCHANGED <<account, session, cookie, page, behind>>,
         page[t].known = "known", calls[t][kind] = None, kind = "onboard" => ~page[t].error
  PROVE  AccountsInv'
<1>1. PICK r : r = Accounts!Request(op, who, input)
  OBVIOUS
<1>2. r \in Accounts!Call /\ CallOK(r, kind) /\ calls' = [calls EXCEPT ![t][kind] = r]
  BY <1>1, RequestFits DEF Accounts!Send
<1>3. budget' \in 0..MaxRequests
  BY AccountsAssumption DEF Accounts!Send, AccountsInv, Accounts!TypeOK
<1>4. StoreFits' /\ RowsGrow /\ Reader' = Reader
  BY <1>3, StoreRests
<1>5. CallOK(r, kind)'
  BY <1>2, <1>4, GrowingKeeps, CallStays DEF AccountsInv
<1>6. QED
  BY <1>2, <1>4, <1>5, QuietStep

LEMMA SendSteps ==
  ASSUME AccountsInv, NEW t \in Tabs,
         \/ Accounts!Refetch(t) \/ Accounts!Logout(t) \/ Accounts!AskProfile(t)
         \/ \E op \in Accounts!Forms \ {"logout"}, i \in Identities : Accounts!SubmitForm(t, op, i)
         \/ \E input \in Inputs : Accounts!Onboard(t, input)
  PROVE  AccountsInv'
<1>1. "session" \in Accounts!Kinds /\ "form" \in Accounts!Kinds /\ "onboard" \in Accounts!Kinds
        /\ "profile" \in Accounts!Kinds /\ "logout" \in Accounts!Forms
  BY DEF Accounts!Kinds, Accounts!Forms
<1>2. CASE Accounts!Refetch(t)
  BY <1>1, <1>2, Sent DEF Accounts!Refetch
<1>3. CASE Accounts!Logout(t)
  BY <1>1, <1>3, Sent DEF Accounts!Logout, Accounts!Inside
<1>4. CASE Accounts!AskProfile(t)
  BY <1>1, <1>4, Sent DEF Accounts!AskProfile, Accounts!Inside
<1>5. ASSUME NEW op \in Accounts!Forms \ {"logout"}, NEW i \in Identities,
             Accounts!SubmitForm(t, op, i) PROVE AccountsInv'
  BY <1>1, <1>5, NoneIsNone, Sent DEF Accounts!SubmitForm
<1>6. ASSUME NEW input \in Inputs, Accounts!Onboard(t, input) PROVE AccountsInv'
  BY <1>1, <1>6, Sent DEF Accounts!Onboard, Accounts!Inside
<1>7. QED
  BY <1>2, <1>3, <1>4, <1>5, <1>6

\* An answer is put into a call that waits.
LEMMA ReplyIs ==
  ASSUME NEW t \in Tabs, NEW kind \in Accounts!Kinds, NEW op, AccountsInv,
         Accounts!Waiting(t, kind, op),
         NEW st \in {"ok", "unauthorized", "refused", "inconsistent"},
         NEW value \in Accounts!Shown \cup Inputs \cup {None}
  PROVE  \E c \in Accounts!Call, r \in Accounts!Call :
           /\ c = calls[t][kind] /\ c.op = op /\ c.answer = None /\ CallOK(c, kind)
           /\ r.op = c.op /\ r.token = c.token /\ r.who = c.who /\ r.input = c.input
           /\ r.seen = c.seen
           /\ r.outdated = c.outdated /\ r.answer # None /\ r.answer.status = st
           /\ r.answer.value = value
           /\ Accounts!Reply(t, kind, calls, st, value) => calls' = [calls EXCEPT ![t][kind] = r]
           /\ page[t].known = "known" \/ (kind = "session" /\ page[t].known = "pending")
<1>1. PICK c : c = calls[t][kind]
  OBVIOUS
<1>2. c \in Accounts!Call /\ c.op = op /\ c.answer = None /\ CallOK(c, kind) /\ c # None
  BY <1>1, CallIs DEF Accounts!Waiting, AccountsInv, CallsFit
<1>3. PICK a : a = [status |-> st, value |-> value]
  OBVIOUS
<1>4. a \in Accounts!Answer /\ a # None /\ a.status = st /\ a.value = value
  BY <1>3, NoneIsNone DEF Accounts!Answer
<1>5. PICK r : r = [c EXCEPT !.answer = a]
  OBVIOUS
<1>6. /\ r \in Accounts!Call /\ r.op = c.op /\ r.token = c.token /\ r.who = c.who
      /\ r.input = c.input /\ r.seen = c.seen
      /\ r.outdated = c.outdated /\ r.answer = a
  BY <1>2, <1>4, <1>5 DEF Accounts!Call
<1>7. Accounts!Reply(t, kind, calls, st, value) => calls' = [calls EXCEPT ![t][kind] = r]
  BY <1>1, <1>3, <1>5 DEF Accounts!Reply
<1>8. page[t].known = "known" \/ (kind = "session" /\ page[t].known = "pending")
  <2>1. page[t].known \in {"closed", "pending", "known"}
    BY CallIs DEF AccountsInv
  <2>2. Opens(t) /\ c # None
    BY <1>2 DEF AccountsInv
  <2>3. QED
    BY <1>1, <2>1, <2>2 DEF Opens
<1>9. c \in Accounts!Call /\ r \in Accounts!Call
  BY <1>2, <1>6
<1>10. QED
  BY <1>1, <1>2, <1>4, <1>6, <1>7, <1>8, <1>9

LEMMA BudgetRests == ASSUME AccountsInv, UNCHANGED budget PROVE budget' \in 0..MaxRequests
BY DEF AccountsInv, Accounts!TypeOK

\* An answer that fits what is stored, of a request that changes nothing.
LEMMA Served ==
  ASSUME AccountsInv, NEW t \in Tabs, NEW kind \in Accounts!Kinds, NEW op,
         Accounts!Waiting(t, kind, op),
         NEW st \in {"ok", "unauthorized", "refused", "inconsistent"},
         NEW value \in Accounts!Shown \cup Inputs \cup {None},
         Accounts!Reply(t, kind, calls, st, value),
         UNCHANGED <<account, session, cookie, page, behind, budget>>,
         \A c, r \in Accounts!Call :
           (/\ c = calls[t][kind] /\ c.op = op /\ c.answer = None /\ CallOK(c, kind)
            /\ r.op = c.op /\ r.token = c.token /\ r.who = c.who /\ r.input = c.input
            /\ r.seen = c.seen
            /\ r.outdated = c.outdated /\ r.answer # None /\ r.answer.status = st
                 /\ r.answer.value = value)
             => CallOK(r, kind)
  PROVE  AccountsInv'
<1>1. PICK c \in Accounts!Call, r \in Accounts!Call :
        /\ c = calls[t][kind] /\ c.op = op /\ c.answer = None /\ CallOK(c, kind)
        /\ r.op = c.op /\ r.token = c.token /\ r.who = c.who /\ r.input = c.input /\ r.seen = c.seen
        /\ r.outdated = c.outdated /\ r.answer # None /\ r.answer.status = st
        /\ r.answer.value = value
        /\ calls' = [calls EXCEPT ![t][kind] = r]
        /\ page[t].known = "known" \/ (kind = "session" /\ page[t].known = "pending")
  BY ReplyIs
<1>2. CallOK(r, kind)
  BY <1>1
<1>3. StoreFits' /\ RowsGrow
  BY BudgetRests, StoreRests
<1>4. CallOK(r, kind)'
  BY <1>2, <1>3, GrowingKeeps, CallStays DEF AccountsInv
<1>5. c # None
  BY NoneIsNone
<1>6. QED
  BY <1>1, <1>3, <1>4, <1>5, QuietStep

LEMMA ServeSessionStep == ASSUME AccountsInv, NEW t \in Tabs, Accounts!ServeSession(t)
  PROVE AccountsInv'
<1>1. PICK v : v = Accounts!ShownOf(Accounts!UserOf(calls[t]["session"].token))
  OBVIOUS
<1>2. /\ Accounts!Waiting(t, "session", "session") /\ Accounts!Reply(t, "session", calls, "ok", v)
      /\ UNCHANGED <<account, session, cookie, page, behind, budget>>
      /\ "session" \in Accounts!Kinds
  BY <1>1 DEF Accounts!ServeSession, Accounts!Kinds
<1>3. calls[t]["session"] # None /\ calls[t]["session"] \in Accounts!Call
  BY <1>2, CallIs DEF Accounts!Waiting, AccountsInv
<1>4. calls[t]["session"].token \in Tokens \cup {None}
  BY <1>3, CallFields
<1>5. v \in Accounts!Shown
  BY <1>1, <1>4, UserOfIs DEF AccountsInv
<1>6. ASSUME NEW c \in Accounts!Call, NEW r \in Accounts!Call, c = calls[t]["session"],
             c.op = "session", CallOK(c, "session"),
             r.op = c.op, r.token = c.token, r.outdated = c.outdated,
             r.answer # None, r.answer.status = "ok", r.answer.value = v
      PROVE  CallOK(r, "session")
  <2>1. CallFits(c, "session")
    BY <1>3, <1>6 DEF CallOK
  <2>2. ~c.outdated => v = Reader
    BY <1>1, <1>6, <2>1 DEF CallFits, Reader
  <2>3. CallFits(r, "session") /\ SessionFits(r)
    BY <1>5, <1>6, <2>1, <2>2 DEF CallFits, SessionFits, Truthful
  <2>4. QED
    BY <2>3 DEF CallOK
<1>7. QED
  BY <1>2, <1>5, <1>6, Served

LEMMA ReaderTells ==
  ASSUME AccountsInv, Accounts!UserOf(cookie) # None
  PROVE  Reader.completed <=> account[Accounts!UserOf(cookie)].profile # None
<1>1. Reader = [user |-> Accounts!UserOf(cookie),
        completed |-> account[Accounts!UserOf(cookie)].profile # None]
  BY ReaderIs DEF AccountsInv
<1>2. Reader.completed = (account[Accounts!UserOf(cookie)].profile # None)
  BY <1>1
<1>3. QED
  BY <1>2

LEMMA RefusalFits ==
  ASSUME AccountsInv, NEW c \in Accounts!Call, NEW r \in Accounts!Call, CallOK(c, "form"),
         r.op = c.op, c.op # "logout", r.token = c.token, r.who = c.who, r.outdated = c.outdated,
         r.answer # None,
         r.answer.status # "ok"
  PROVE  CallOK(r, "form")
<1>1. CallFits(c, "form")
  BY CallFields DEF CallOK
<1>2. CallFits(r, "form") /\ FormFits(r)
  BY <1>1 DEF CallFits, FormFits
<1>3. QED
  BY <1>2 DEF CallOK

LEMMA RefusalSteps ==
  ASSUME AccountsInv, NEW t \in Tabs, Accounts!RegisterAgain(t) \/ Accounts!LoginRefused(t)
  PROVE  AccountsInv'
<1>1. "form" \in Accounts!Kinds /\ "register" # "logout" /\ "login" # "logout"
  BY DEF Accounts!Kinds
<1>2. ASSUME NEW op \in {"register", "login"}, NEW st \in {"unauthorized", "refused"},
             Accounts!Waiting(t, "form", op), Accounts!Reply(t, "form", calls, st, None),
             UNCHANGED <<account, session, cookie, page, behind, budget>>
      PROVE  AccountsInv'
  BY <1>1, <1>2, RefusalFits, Served
<1>3. CASE Accounts!RegisterAgain(t)
  BY <1>2, <1>3 DEF Accounts!RegisterAgain
<1>4. CASE Accounts!LoginRefused(t)
  BY <1>2, <1>4 DEF Accounts!LoginRefused
<1>5. QED
  BY <1>3, <1>4

\* The reader of a request sent with the cookie of now.
LEMMA Sender ==
  ASSUME AccountsInv, NEW c \in Accounts!Call, NEW kind \in {"session", "onboard", "profile"},
         CallOK(c, kind)
  PROVE  /\ CallFits(c, kind) /\ c.token \in Tokens \cup {None}
         /\ ~c.outdated => Accounts!UserOf(c.token) = Accounts!UserOf(cookie)
<1>1. CallFits(c, kind) /\ c.token \in Tokens \cup {None}
  BY CallFields DEF CallOK
<1>2. QED
  BY <1>1 DEF CallFits

LEMMA UnauthenticatedStep ==
  ASSUME AccountsInv, NEW t \in Tabs,
         Accounts!Unauthenticated(t, "onboard", "onboard")
           \/ Accounts!Unauthenticated(t, "profile", "user")
  PROVE  AccountsInv'
<1>1. "onboard" \in Accounts!Kinds /\ "profile" \in Accounts!Kinds
  BY DEF Accounts!Kinds
<1>2. ASSUME NEW c \in Accounts!Call, NEW r \in Accounts!Call, NEW kind \in {"onboard", "profile"},
             CallOK(c, kind),
             Accounts!UserOf(c.token) = None, r.op = c.op, r.token = c.token, r.who = c.who,
             r.input = c.input,
             r.seen = c.seen, kind = "profile" => c.op = "user",
             r.outdated = c.outdated, r.answer # None, r.answer.status = "unauthorized"
      PROVE  CallOK(r, kind)
  <2>1. CallFits(c, kind) /\ (~c.outdated => Reader = Accounts!Nobody)
    BY <1>2, Sender, ReaderIs DEF AccountsInv
  <2>2. CallFits(r, kind)
    BY <1>2, <2>1 DEF CallFits
  <2>3. ASSUME kind = "onboard" PROVE OnboardFits(r)
    BY <1>2, <2>1, <2>3, CallFields DEF CallOK, OnboardFits, Truthful
  <2>4. ASSUME kind = "profile" PROVE ProfileFits(r)
    BY <1>2, <2>1, <2>4, CallFields DEF CallOK, ProfileFits, Truthful
  <2>5. QED
    BY <2>2, <2>3, <2>4, CallFields DEF CallOK
<1>3. ASSUME Accounts!Unauthenticated(t, "onboard", "onboard") PROVE AccountsInv'
  <2>1. /\ Accounts!Waiting(t, "onboard", "onboard")
        /\ Accounts!UserOf(calls[t]["onboard"].token) = None
        /\ Accounts!Reply(t, "onboard", calls, "unauthorized", None)
        /\ UNCHANGED <<account, session, cookie, page, behind, budget>>
    BY <1>3 DEF Accounts!Unauthenticated
  <2>2. ASSUME NEW c \in Accounts!Call, NEW r \in Accounts!Call, c = calls[t]["onboard"],
               c.op = "onboard", CallOK(c, "onboard"),
               r.op = c.op, r.token = c.token, r.who = c.who, r.input = c.input, r.seen = c.seen,
               r.outdated = c.outdated, r.answer # None, r.answer.status = "unauthorized"
        PROVE  CallOK(r, "onboard")
    BY <1>2, <2>1, <2>2
  <2>3. QED
    BY <1>1, <2>1, <2>2, Served
<1>4. ASSUME Accounts!Unauthenticated(t, "profile", "user") PROVE AccountsInv'
  <2>1. /\ Accounts!Waiting(t, "profile", "user")
        /\ Accounts!UserOf(calls[t]["profile"].token) = None
        /\ Accounts!Reply(t, "profile", calls, "unauthorized", None)
        /\ UNCHANGED <<account, session, cookie, page, behind, budget>>
    BY <1>4 DEF Accounts!Unauthenticated
  <2>2. ASSUME NEW c \in Accounts!Call, NEW r \in Accounts!Call, c = calls[t]["profile"],
               c.op = "user", CallOK(c, "profile"),
               r.op = c.op, r.token = c.token, r.who = c.who, r.input = c.input, r.seen = c.seen,
               r.outdated = c.outdated, r.answer # None, r.answer.status = "unauthorized"
        PROVE  CallOK(r, "profile")
    BY <1>2, <2>1, <2>2
  <2>3. QED
    BY <1>1, <2>1, <2>2, Served
<1>5. QED
  BY <1>3, <1>4

\* A tab with a request under way has been opened.
LEMMA UnderWay ==
  ASSUME AccountsInv, NEW t \in Tabs, NEW kind \in Accounts!Kinds, calls[t][kind] # None
  PROVE  /\ calls[t][kind] \in Accounts!Call /\ CallOK(calls[t][kind], kind)
         /\ CallFits(calls[t][kind], kind)
         /\ page[t].known = "known" \/ (kind = "session" /\ page[t].known = "pending")
<1>1. page[t].known \in {"closed", "pending", "known"} /\ calls[t][kind] \in Accounts!Call
  BY CallIs DEF AccountsInv
<1>2. Opens(t) /\ CallOK(calls[t][kind], kind)
  BY DEF AccountsInv, CallsFit
<1>3. page[t].known = "known" \/ (kind = "session" /\ page[t].known = "pending")
  BY <1>1, <1>2 DEF Opens
<1>4. QED
  BY <1>1, <1>2, <1>3 DEF CallOK

\* A refusal of answers fits whatever is stored.
LEMMA RefusedFits ==
  ASSUME NEW c \in Accounts!Call, NEW r \in Accounts!Call, CallOK(c, "onboard"),
         r.op = c.op, r.token = c.token, r.who = c.who, r.input = c.input,
         r.outdated = c.outdated, r.answer # None, r.answer.status = "refused"
  PROVE  CallOK(r, "onboard")
<1>1. CallFits(c, "onboard") /\ OnboardFits(c)
  BY CallFields DEF CallOK
<1>2. CallFits(r, "onboard") /\ OnboardFits(r)
  BY <1>1 DEF CallFits, OnboardFits, Truthful
<1>3. QED
  BY <1>2 DEF CallOK

\* The user was disabled meanwhile.
LEMMA OnboardRefusedStep == ASSUME AccountsInv, NEW t \in Tabs, Accounts!OnboardRefused(t)
  PROVE AccountsInv'
<1>1. /\ Accounts!Waiting(t, "onboard", "answers") /\ "onboard" \in Accounts!Kinds
      /\ Accounts!Reply(t, "onboard", calls, "refused", None)
      /\ UNCHANGED <<account, session, cookie, page, behind, budget>>
  BY DEF Accounts!OnboardRefused, Accounts!Kinds
<1>2. ASSUME NEW c \in Accounts!Call, NEW r \in Accounts!Call, CallOK(c, "onboard"),
             r.op = c.op, r.token = c.token, r.who = c.who, r.input = c.input,
             r.outdated = c.outdated, r.answer # None, r.answer.status = "refused"
      PROVE  CallOK(r, "onboard")
  BY <1>2, RefusedFits
<1>3. QED
  BY <1>1, <1>2, Served

LEMMA OnboardAgainStep == ASSUME AccountsInv, NEW t \in Tabs, Accounts!OnboardAgain(t)
  PROVE AccountsInv'
<1>1. PICK i : i = calls[t]["onboard"].who
  OBVIOUS
<1>2. PICK p : p = account[i].profile
  OBVIOUS
<1>3. /\ Accounts!Waiting(t, "onboard", "answers") /\ p # None
      /\ IF p = calls[t]["onboard"].input THEN Accounts!Reply(t, "onboard", calls, "ok", p)
                                          ELSE Accounts!Reply(t, "onboard", calls, "refused", None)
      /\ UNCHANGED <<account, session, cookie, page, behind, budget>>
      /\ "onboard" \in Accounts!Kinds
  BY <1>1, <1>2 DEF Accounts!OnboardAgain, Accounts!Kinds
<1>4. calls[t]["onboard"] # None /\ calls[t]["onboard"].op = "answers"
        /\ CallOK(calls[t]["onboard"], "onboard") /\ calls[t]["onboard"] \in Accounts!Call
  BY <1>3, UnderWay DEF Accounts!Waiting
<1>5. OnboardFits(calls[t]["onboard"]) /\ i \in Identities \cup {None}
  BY <1>1, <1>4, CallFields DEF CallOK
<1>6. /\ i \in Identities /\ account[i] # None /\ account[i] \in Accounts!Account
      /\ ~calls[t]["onboard"].outdated => Accounts!UserOf(cookie) = i
  BY <1>1, <1>4, <1>5 DEF OnboardFits, AccountsInv, Accounts!TypeOK
<1>7. p \in Inputs
  BY <1>2, <1>3, <1>6 DEF Accounts!Account
<1>8. CASE p = calls[t]["onboard"].input
  <2>1. ASSUME NEW c \in Accounts!Call, NEW r \in Accounts!Call, c = calls[t]["onboard"],
               c.op = "answers", CallOK(c, "onboard"),
               r.op = c.op, r.token = c.token, r.who = c.who, r.input = c.input,
               r.outdated = c.outdated, r.answer # None, r.answer.status = "ok", r.answer.value = p
        PROVE  CallOK(r, "onboard")
    <3>1. CallFits(c, "onboard") /\ (~c.outdated => Accounts!UserOf(cookie) = i)
      BY <1>6, <2>1, Sender
    <3>2. ~c.outdated => Reader.completed
      BY <1>2, <1>3, <1>6, <3>1, NoneIsNone, ReaderTells
    <3>3. OnboardFits(c)
      BY <2>1, CallFields DEF CallOK
    <3>4. CallFits(r, "onboard")
      BY <2>1, <3>1 DEF CallFits
    <3>5. OnboardFits(r)
      BY <1>2, <1>3, <1>6, <2>1, <3>2, <3>3 DEF OnboardFits, Truthful
    <3>6. QED
      BY <3>4, <3>5 DEF CallOK
  <2>2. Accounts!Reply(t, "onboard", calls, "ok", p)
    BY <1>3, <1>8
  <2>3. QED
    BY <1>3, <1>7, <2>1, <2>2, Served
<1>9. CASE p # calls[t]["onboard"].input
  <2>1. ASSUME NEW c \in Accounts!Call, NEW r \in Accounts!Call, c = calls[t]["onboard"],
               c.op = "answers", CallOK(c, "onboard"),
               r.op = c.op, r.token = c.token, r.who = c.who, r.input = c.input,
               r.outdated = c.outdated, r.answer # None, r.answer.status = "refused",
               r.answer.value = None
        PROVE  CallOK(r, "onboard")
    BY <2>1, RefusedFits
  <2>2. Accounts!Reply(t, "onboard", calls, "refused", None)
    BY <1>3, <1>9
  <2>3. QED
    BY <1>3, <2>1, <2>2, Served
<1>10. QED
  BY <1>8, <1>9

LEMMA ReadVersionStep == ASSUME AccountsInv, NEW t \in Tabs, Accounts!ReadVersion(t)
  PROVE AccountsInv'
<1>1. PICK d : d = calls[t]["profile"]
  OBVIOUS
<1>2. PICK p : p = account[d.who].profile
  OBVIOUS
<1>3. PICK st \in {"ok", "inconsistent"} : st = IF d.seen = (p # None) THEN "ok" ELSE "inconsistent"
  OBVIOUS
<1>4. /\ Accounts!Waiting(t, "profile", "version") /\ Accounts!Reply(t, "profile", calls, st, p)
      /\ UNCHANGED <<account, session, cookie, page, behind, budget>>
      /\ "profile" \in Accounts!Kinds
  BY <1>1, <1>2, <1>3 DEF Accounts!ReadVersion, Accounts!Kinds
<1>5. d # None /\ d \in Accounts!Call /\ d.op = "version" /\ CallOK(d, "profile")
  BY <1>1, <1>4, CallIs DEF Accounts!Waiting, AccountsInv, CallsFit
<1>6. d.who \in Identities \cup {None} /\ d.seen \in BOOLEAN /\ ProfileFits(d)
  BY <1>5, CallFields DEF CallOK
<1>7. d.who \in Identities /\ account[d.who] # None /\ (d.seen => p # None)
  BY <1>2, <1>5, <1>6 DEF ProfileFits
<1>8. account[d.who] \in Accounts!Account
  BY <1>7 DEF AccountsInv, Accounts!TypeOK
<1>9. p \in Inputs \cup {None}
  BY <1>2, <1>8 DEF Accounts!Account
<1>10. st = "inconsistent" => ~d.seen /\ p # None
  BY <1>3, <1>6, <1>7
<1>11. ASSUME NEW c \in Accounts!Call, NEW r \in Accounts!Call, c = calls[t]["profile"],
              CallOK(c, "profile"),
              r.op = c.op, r.token = c.token, r.who = c.who, r.seen = c.seen,
              r.outdated = c.outdated, r.answer # None, r.answer.status = st, r.answer.value = p
       PROVE  CallOK(r, "profile")
  <2>1. CallFits(c, "profile") /\ ProfileFits(c) /\ c = d
    BY <1>1, <1>11, CallFields DEF CallOK
  <2>2. CallFits(r, "profile")
    BY <1>11, <2>1 DEF CallFits
  <2>3. r.op = "version" /\ r.who = d.who /\ r.seen = d.seen
    BY <1>5, <1>11, <2>1
  <2>4. r.answer.status = st /\ r.answer.value = p /\ p = account[r.who].profile
          /\ st # "unauthorized"
    BY <1>2, <1>11, <2>3
  <2>5. r.who # None /\ account[r.who] # None /\ (r.seen => account[r.who].profile # None)
    BY <1>2, <1>5, <1>6, <1>7, <2>3 DEF ProfileFits
  <2>6. st = "inconsistent" => ~r.seen /\ account[r.who].profile # None
    BY <1>10, <2>3, <2>4
  <2>7. ProfileFits(r)
    BY <2>3, <2>4, <2>5, <2>6 DEF ProfileFits, Truthful
  <2>8. QED
    BY <2>2, <2>7 DEF CallOK
<1>12. QED
  BY <1>4, <1>9, <1>11, Served

LEMMA AuthenticateStep == ASSUME AccountsInv, NEW t \in Tabs, Accounts!Authenticate(t)
  PROVE AccountsInv'
<1>1. PICK c : c = calls[t]["onboard"]
  OBVIOUS
<1>2. PICK i : i = Accounts!UserOf(c.token)
  OBVIOUS
<1>4. /\ c # None /\ c.op = "onboard" /\ c.answer = None /\ i # None
      /\ calls' = [calls EXCEPT ![t]["onboard"].op = "answers", ![t]["onboard"].who = i]
      /\ UNCHANGED <<account, session, cookie, page, behind, budget>>
      /\ "onboard" \in Accounts!Kinds
  BY <1>1, <1>2 DEF Accounts!Authenticate, Accounts!Waiting, Accounts!Kinds
<1>5. /\ c \in Accounts!Call /\ CallOK(c, "onboard") /\ page[t].known = "known"
  BY <1>1, <1>4, UnderWay
<1>6. /\ CallFits(c, "onboard") /\ OnboardFits(c) /\ c.token \in Tokens \cup {None}
      /\ ~c.outdated => Accounts!UserOf(cookie) = i
  BY <1>2, <1>5, CallFields, Sender DEF CallOK
<1>7. i \in Identities /\ account[i] # None
  BY <1>2, <1>4, <1>6, UserOfIs DEF AccountsInv
<1>8. PICK r : r = [c EXCEPT !.op = "answers", !.who = i]
  OBVIOUS
<1>9. /\ r \in Accounts!Call /\ r.op = "answers" /\ r.who = i /\ r.token = c.token
      /\ r.input = c.input /\ r.answer = None /\ r.outdated = c.outdated
  BY <1>4, <1>5, <1>7, <1>8 DEF Accounts!Call
<1>10. calls' = [calls EXCEPT ![t]["onboard"] = r]
  <2>1. calls \in [Tabs -> [Accounts!Kinds -> Accounts!Call \cup {None}]]
    BY DEF AccountsInv, Accounts!TypeOK
  <2>2. QED
    BY <1>1, <1>4, <1>5, <1>8, <2>1 DEF Accounts!Call
<1>11. CallFits(r, "onboard") /\ OnboardFits(r)
  BY <1>6, <1>7, <1>9, NoneIsNone DEF CallFits, OnboardFits, Truthful
<1>12. CallOK(r, "onboard")
  BY <1>11 DEF CallOK
<1>13. StoreFits' /\ RowsGrow
  BY <1>4, BudgetRests, StoreRests
<1>14. CallOK(r, "onboard")'
  BY <1>4, <1>9, <1>12, <1>13, GrowingKeeps, CallStays DEF AccountsInv
<1>15. QED
  BY <1>1, <1>4, <1>5, <1>9, <1>10, <1>13, <1>14, QuietStep

LEMMA ReadUserStep == ASSUME AccountsInv, NEW t \in Tabs, Accounts!ReadUser(t) PROVE AccountsInv'
<1>1. PICK c : c = calls[t]["profile"]
  OBVIOUS
<1>2. PICK i : i = Accounts!UserOf(c.token)
  OBVIOUS
<1>3. PICK seen \in BOOLEAN : seen = (account[i].profile # None)
  OBVIOUS
<1>4. /\ c # None /\ c.op = "user" /\ c.answer = None /\ i # None
      /\ calls' = [calls EXCEPT ![t]["profile"].op = "version", ![t]["profile"].who = i,
                                ![t]["profile"].seen = seen]
      /\ UNCHANGED <<account, session, cookie, page, behind, budget>>
      /\ "profile" \in Accounts!Kinds
  BY <1>1, <1>2, <1>3 DEF Accounts!ReadUser, Accounts!Waiting, Accounts!Kinds
<1>5. /\ c \in Accounts!Call /\ CallFits(c, "profile") /\ c.token \in Tokens \cup {None}
      /\ page[t].known = "known"
  BY <1>1, <1>4, UnderWay, CallFields
<1>6. i \in Identities /\ account[i] # None
  BY <1>2, <1>4, <1>5, UserOfIs DEF AccountsInv
<1>7. PICK r : r = [c EXCEPT !.op = "version", !.who = i, !.seen = seen]
  OBVIOUS
<1>8. /\ r \in Accounts!Call /\ r.op = "version" /\ r.who = i /\ r.seen = seen /\ r.token = c.token
      /\ r.answer = None /\ r.outdated = c.outdated
  BY <1>4, <1>5, <1>6, <1>7 DEF Accounts!Call
<1>9. calls' = [calls EXCEPT ![t]["profile"] = r]
  <2>1. calls \in [Tabs -> [Accounts!Kinds -> Accounts!Call \cup {None}]]
    BY DEF AccountsInv, Accounts!TypeOK
  <2>2. QED
    BY <1>1, <1>4, <1>5, <1>7, <2>1 DEF Accounts!Call
<1>10. CallFits(r, "profile") /\ ProfileFits(r)
  BY <1>3, <1>5, <1>6, <1>8, NoneIsNone DEF CallFits, ProfileFits, Truthful
<1>11. CallOK(r, "profile")
  BY <1>10 DEF CallOK
<1>12. StoreFits' /\ RowsGrow
  BY <1>4, BudgetRests, StoreRests
<1>13. CallOK(r, "profile")'
  BY <1>4, <1>8, <1>11, <1>12, GrowingKeeps, CallStays DEF AccountsInv
<1>14. QED
  BY <1>4, <1>5, <1>8, <1>9, <1>12, <1>13, QuietStep

LEMMA AnsweredOnlyStep ==
  ASSUME AccountsInv, NEW t \in Tabs, NEW kind \in Accounts!Kinds, Accounts!AnsweredOnly(t, kind)
  PROVE  AccountsInv'
<1>1. PICK c : c = calls[t][kind]
  OBVIOUS
<1>2. /\ c # None /\ c.answer # None
      /\ c.answer.status \in {"refused", "inconsistent"}
           \/ (kind = "profile" /\ c.answer.status = "ok")
      /\ calls' = [calls EXCEPT ![t][kind] = None]
      /\ UNCHANGED <<account, session, cookie, page, behind, budget>>
  BY <1>1 DEF Accounts!AnsweredOnly, Accounts!Answered, Accounts!Done
<1>3. CallOK(c, kind) /\ (page[t].known = "known" \/ (kind = "session"
        /\ page[t].known = "pending"))
  BY <1>1, <1>2, UnderWay
<1>4. kind = "form" => c.op # "logout"
  BY <1>2, <1>3 DEF CallOK, FormFits
<1>5. StoreFits' /\ RowsGrow
  BY <1>2, BudgetRests, StoreRests
<1>6. PICK n : n = None
  OBVIOUS
<1>7. CallOK(n, kind)' /\ n \in Accounts!Call \cup {None}
  BY <1>6 DEF CallOK
<1>8. calls' = [calls EXCEPT ![t][kind] = n]
  BY <1>2, <1>6
<1>9. kind = "onboard" => c.answer.status # "ok"
  BY <1>2
<1>10. QED
  BY <1>1, <1>2, <1>3, <1>4, <1>5, <1>7, <1>8, <1>9, QuietStep

LEMMA RequestFailsStep ==
  ASSUME AccountsInv, NEW t \in Tabs, NEW kind \in Accounts!Kinds, Accounts!RequestFails(t, kind)
  PROVE  AccountsInv'
<1>1. PICK c : c = calls[t][kind]
  OBVIOUS
<1>2. /\ c # None /\ calls' = [calls EXCEPT ![t][kind] = None]
      /\ behind' = [behind EXCEPT ![t] = behind[t] \/ c.answer # None]
      /\ page' = IF kind = "session" THEN [page EXCEPT ![t].known = "known",
           ![t].error = TRUE] ELSE page
      /\ UNCHANGED <<account, session, cookie, budget>>
  BY <1>1 DEF Accounts!RequestFails, Accounts!Done
<1>3. page[t].known = "known" \/ (kind = "session" /\ page[t].known = "pending")
  BY <1>1, <1>2, UnderWay
<1>4. StoreFits' /\ RowsGrow /\ Reader' = Reader
  BY <1>2, BudgetRests, StoreRests
<1>5. PICK n : n = None
  OBVIOUS
<1>6. CallOK(n, kind)' /\ n \in Accounts!Call \cup {None} /\ calls' = [calls EXCEPT ![t][kind] = n]
  BY <1>2, <1>5 DEF CallOK
<1>7. calls'[t][kind] = None /\ \A k \in Accounts!Kinds : k # kind => calls'[t][k] = calls[t][k]
  BY <1>5, <1>6, CallSet DEF AccountsInv
<1>8. page \in [Tabs -> Accounts!Page] /\ behind \in [Tabs -> BOOLEAN] /\ page[t] \in Accounts!Page
  BY DEF AccountsInv, Accounts!TypeOK
<1>9. PICK p : p = IF kind = "session" THEN [page[t] EXCEPT !.known = "known",
        !.error = TRUE] ELSE page[t]
  OBVIOUS
<1>10. /\ p \in Accounts!Page /\ p.known = "known" /\ p.shown = page[t].shown
       /\ (kind # "session" => p = page[t])
       /\ page[t].error => p.error
       /\ kind = "session" => p.error
  BY <1>3, <1>8, <1>9 DEF Accounts!Page
<1>11. page' = [page EXCEPT ![t] = p]
  BY <1>2, <1>8, <1>9
<1>12. page' \in [Tabs -> Accounts!Page] /\ page'[t] = p
         /\ \A u \in Tabs : u # t => page'[u] = page[u]
  BY <1>8, <1>10, <1>11
<1>13. PICK b \in BOOLEAN : b = (behind[t] \/ c.answer # None)
  OBVIOUS
<1>14. /\ behind' \in [Tabs -> BOOLEAN] /\ behind'[t] = b
       /\ \A u \in Tabs : u # t => behind'[u] = behind[u]
  BY <1>2, <1>8, <1>13
<1>15. Opens(t)'
  BY <1>10, <1>12 DEF Opens
<1>16. PageFits(t)'
  <2>1. SUFFICES ASSUME ~b
                 PROVE  \/ p.shown = Reader
                        \/ /\ calls'[t]["onboard"] # None /\ calls'[t]["onboard"].answer # None
                           /\ calls'[t]["onboard"].answer.status = "ok"
                           /\ calls'[t]["onboard"].outdated \/ p.shown.user = Reader.user
                        \/ calls'[t]["form"] # None /\ calls'[t]["form"].op = "logout"
                             /\ calls'[t]["form"].answer # None
                        \/ p.error /\ p.shown = Accounts!Nobody /\ calls'[t]["onboard"] = None
    BY <1>4, <1>12, <1>14 DEF PageFits
  <2>2. ~behind[t] /\ c.answer = None /\ "form" \in Accounts!Kinds /\ "onboard" \in Accounts!Kinds
    BY <1>13, <2>1 DEF Accounts!Kinds
  <2>3. CASE page[t].known = "known"
    <3>1. \/ page[t].shown = Reader
          \/ /\ calls[t]["onboard"] # None /\ calls[t]["onboard"].answer # None
             /\ calls[t]["onboard"].answer.status = "ok"
             /\ calls[t]["onboard"].outdated \/ page[t].shown.user = Reader.user
          \/ calls[t]["form"] # None /\ calls[t]["form"].op = "logout"
               /\ calls[t]["form"].answer # None
          \/ page[t].error /\ page[t].shown = Accounts!Nobody /\ calls[t]["onboard"] = None
      BY <2>2, <2>3 DEF AccountsInv, PageFits
    <3>2. QED
      BY <1>1, <1>7, <1>10, <2>2, <3>1
  <2>4. CASE kind = "session" /\ page[t].known = "pending"
    <3>1. page[t].shown = Accounts!Nobody /\ calls[t]["onboard"] = None
      BY <2>2, <2>4 DEF AccountsInv, Opens
    <3>2. QED
      BY <1>7, <1>10, <2>2, <2>4, <3>1
  <2>5. QED
    BY <1>3, <2>3, <2>4
<1>17. QED
  BY <1>2, <1>4, <1>6, <1>12, <1>14, <1>15, <1>16, OneCall

\* A user is there, or comes to be, and gets a session.
LEMMA GrowsBy ==
  ASSUME AccountsInv, NEW i \in Identities, NEW a \in Accounts!Account, NEW token \in Tokens,
         account[i] # None => account[i] = a, account' = [account EXCEPT ![i] = a],
         session[token] = None, session' = [session EXCEPT ![token] = [user |-> i, live |-> TRUE]],
         cookie' \in {cookie, token}, UNCHANGED budget
  PROVE  /\ StoreFits' /\ RowsGrow
         /\ session'[token] # None
         /\ ~a.disabled => Accounts!UserOf(token)' = i
              /\ Accounts!ShownOf(Accounts!UserOf(token))' = Accounts!PublicUser(i, a)
<1>1. account \in [Identities -> Accounts!Account \cup {None}]
        /\ session \in [Tokens -> Accounts!Session \cup {None}]
  BY DEF AccountsInv, Accounts!TypeOK
<1>2. PICK s : s = [user |-> i, live |-> TRUE]
  OBVIOUS
<1>3. s \in Accounts!Session /\ s # None /\ s.user = i /\ s.live
  <2>1. s \in Accounts!Session /\ s.user = i
    BY <1>2 DEF Accounts!Session
  <2>2. s.live = TRUE
    BY <1>2
  <2>3. QED
    BY <2>1, <2>2, NoneIsNone
<1>4. a # None
  BY NoneIsNone
<1>5. /\ account' \in [Identities -> Accounts!Account \cup {None}] /\ account'[i] = a
      /\ \A j \in Identities : j # i => account'[j] = account[j]
  BY <1>1
<1>6. /\ session' \in [Tokens -> Accounts!Session \cup {None}] /\ session'[token] = s
      /\ \A k \in Tokens : k # token => session'[k] = session[k]
  BY <1>1, <1>2, <1>3
<1>7. RowsGrow
  BY <1>5, <1>6 DEF RowsGrow
<1>8. ASSUME NEW k \in Tokens, session'[k] # None PROVE account'[session'[k].user] # None
  <2>1. CASE k = token
    BY <1>3, <1>4, <1>5, <1>6, <2>1
  <2>2. CASE k # token
    <3>1. session'[k] = session[k] /\ session[k] # None
      BY <1>6, <1>8, <2>2
    <3>2. session[k].user \in Identities /\ account[session[k].user] # None
      BY <1>1, <3>1 DEF Accounts!Session, AccountsInv, RowsStand
    <3>3. QED
      BY <1>4, <1>5, <3>1, <3>2
  <2>3. QED
    BY <2>1, <2>2
<1>9. cookie' \in Tokens \cup {None} /\ (cookie' # None => session'[cookie'] # None)
  <2>1. cookie \in Tokens \cup {None} /\ (cookie # None => session[cookie] # None)
    BY DEF AccountsInv, Accounts!TypeOK, RowsStand
  <2>2. CASE cookie' = cookie
    BY <1>7, <2>1, <2>2 DEF RowsGrow
  <2>3. CASE cookie' = token
    BY <1>3, <1>6, <2>3
  <2>4. QED
    BY <2>2, <2>3
<1>10. StoreFits'
  BY <1>5, <1>6, <1>8, <1>9, BudgetRests DEF StoreFits, RowsStand
<1>11. ASSUME ~a.disabled
       PROVE  Accounts!UserOf(token)' = i /\ Accounts!ShownOf(Accounts!UserOf(token))'
              = Accounts!PublicUser(i, a)
  <2>1. token # None /\ i # None
    BY NoneIsNone
  <2>2. Accounts!UserOf(token)' = i
    BY <1>3, <1>5, <1>6, <1>11, <2>1 DEF Accounts!UserOf
  <2>3. QED
    BY <1>5, <2>1, <2>2 DEF Accounts!ShownOf, Accounts!PublicUser
<1>12. QED
  BY <1>3, <1>6, <1>7, <1>10, <1>11

LEMMA GrantStep ==
  ASSUME AccountsInv, NEW t \in Tabs, NEW op \in {"register", "login", "development"},
         Accounts!Waiting(t, "form", op), NEW i \in Identities, NEW a \in Accounts!Account,
         i = calls[t]["form"].who,
         ~a.disabled, account[i] # None => account[i] = a, account' = [account EXCEPT ![i] = a],
         Accounts!Grants(t, i, a), UNCHANGED <<cookie, page, behind, budget>>
  PROVE  AccountsInv'
<1>1. PICK token \in Tokens :
        /\ session[token] = None
        /\ session' = [session EXCEPT ![token] = [user |-> i, live |-> TRUE]]
        /\ calls' = [calls EXCEPT ![t]["form"].answer = [status |-> "ok",
             value |-> Accounts!PublicUser(i, a)],
                                  ![t]["form"].token = token]
  BY DEF Accounts!Grants
<1>2. PICK c : c = calls[t]["form"]
  OBVIOUS
<1>3. c # None /\ c.op = op /\ c.answer = None /\ "form" \in Accounts!Kinds
  BY <1>2 DEF Accounts!Waiting, Accounts!Kinds
<1>4. c \in Accounts!Call /\ CallFits(c, "form") /\ page[t].known = "known"
  BY <1>2, <1>3, UnderWay
<1>5. PICK v : v = Accounts!PublicUser(i, a)
  OBVIOUS
<1>6. v \in Accounts!Shown
  BY <1>5 DEF Accounts!PublicUser, Accounts!Shown
<1>7. PICK b : b = [status |-> "ok", value |-> v]
  OBVIOUS
<1>8. b \in Accounts!Answer /\ b # None /\ b.status = "ok" /\ b.value = v
  BY <1>6, <1>7, NoneIsNone DEF Accounts!Answer
<1>9. PICK r : r = [c EXCEPT !.answer = b, !.token = token]
  OBVIOUS
<1>10. r \in Accounts!Call /\ r.op = c.op /\ r.who = c.who /\ r.token = token /\ r.answer = b
         /\ r.outdated = c.outdated
  BY <1>4, <1>8, <1>9 DEF Accounts!Call
<1>11. calls' = [calls EXCEPT ![t]["form"] = r]
  <2>1. calls \in [Tabs -> [Accounts!Kinds -> Accounts!Call \cup {None}]]
    BY DEF AccountsInv, Accounts!TypeOK
  <2>2. QED
    BY <1>1, <1>2, <1>3, <1>4, <1>5, <1>7, <1>9, <2>1 DEF Accounts!Call
<1>12. /\ StoreFits' /\ RowsGrow /\ session'[token] # None
       /\ Accounts!ShownOf(Accounts!UserOf(token))' = v
  BY <1>1, <1>5, GrowsBy
<1>13. CallFits(r, "form")'
  BY <1>3, <1>4, <1>10 DEF CallFits
<1>14. FormFits(r)'
  <2>1. r.op # "logout" /\ r.token # None /\ r.token = token /\ r.answer.value = v
    BY <1>3, <1>8, <1>10, NoneIsNone
  <2>2. QED
    BY <1>6, <1>12, <2>1 DEF FormFits
<1>15. CallOK(r, "form")'
  BY <1>13, <1>14 DEF CallOK
<1>16. QED
  BY <1>2, <1>3, <1>4, <1>10, <1>11, <1>12, <1>15, QuietStep

LEMMA FormWaits ==
  ASSUME AccountsInv, NEW t \in Tabs, NEW op \in {"register", "login", "development"},
         Accounts!Waiting(t, "form", op)
  PROVE  calls[t]["form"].who \in Identities
<1>1. calls[t]["form"] # None /\ "form" \in Accounts!Kinds
  BY DEF Accounts!Waiting, Accounts!Kinds
<1>2. calls[t]["form"] \in Accounts!Call /\ CallFits(calls[t]["form"], "form")
  BY <1>1, UnderWay
<1>3. calls[t]["form"].who \in Identities \cup {None} /\ calls[t]["form"].op # "logout"
  BY <1>2, CallFields DEF Accounts!Waiting
<1>4. QED
  BY <1>2, <1>3 DEF CallFits

LEMMA NewAccountIs == Accounts!NewAccount \in Accounts!Account /\ ~Accounts!NewAccount.disabled
BY DEF Accounts!NewAccount, Accounts!Account

LEMMA RegisterStep == ASSUME AccountsInv, NEW t \in Tabs, Accounts!Register(t) PROVE AccountsInv'
<1>1. PICK i : i = calls[t]["form"].who
  OBVIOUS
<1>2. /\ Accounts!Waiting(t, "form", "register") /\ account[i] = None
      /\ account' = [account EXCEPT ![i] = Accounts!NewAccount]
      /\ Accounts!Grants(t, i, Accounts!NewAccount) /\ UNCHANGED <<cookie, page, behind, budget>>
  BY <1>1 DEF Accounts!Register
<1>3. i \in Identities
  BY <1>1, <1>2, FormWaits
<1>4. QED
  BY <1>1, <1>2, <1>3, NewAccountIs, GrantStep

LEMMA LoginStep == ASSUME AccountsInv, NEW t \in Tabs, Accounts!Login(t) PROVE AccountsInv'
<1>1. PICK i : i = calls[t]["form"].who
  OBVIOUS
<1>2. PICK a : a = account[i]
  OBVIOUS
<1>3. /\ Accounts!Waiting(t, "form", "login") /\ a # None /\ ~a.disabled
      /\ Accounts!Grants(t, i, a) /\ UNCHANGED <<account, cookie, page, behind, budget>>
  BY <1>1, <1>2 DEF Accounts!Login
<1>4. i \in Identities
  BY <1>1, <1>3, FormWaits
<1>5. a \in Accounts!Account /\ account' = [account EXCEPT ![i] = a]
  BY <1>2, <1>3, <1>4 DEF AccountsInv, Accounts!TypeOK
<1>6. QED
  BY <1>1, <1>2, <1>3, <1>4, <1>5, GrantStep

LEMMA UpsertedIs ==
  ASSUME AccountsInv, NEW i \in Identities
  PROVE  /\ Accounts!Upserted(i) \in Accounts!Account
         /\ (account[i] # None => account[i] = Accounts!Upserted(i))
         /\ Accounts!Upserted(i).disabled => account[i] # None
              /\ [account EXCEPT ![i] = Accounts!Upserted(i)] = account
<1>1. account \in [Identities -> Accounts!Account \cup {None}]
  BY DEF AccountsInv, Accounts!TypeOK
<1>2. CASE account[i] = None
  BY <1>2, NewAccountIs DEF Accounts!Upserted
<1>3. CASE account[i] # None
  BY <1>1, <1>3 DEF Accounts!Upserted
<1>4. QED
  BY <1>2, <1>3

LEMMA DevelopmentLoginStep == ASSUME AccountsInv, NEW t \in Tabs, Accounts!DevelopmentLogin(t)
  PROVE AccountsInv'
<1>1. PICK i : i = calls[t]["form"].who
  OBVIOUS
<1>2. PICK a : a = Accounts!Upserted(i)
  OBVIOUS
<1>3. /\ Accounts!Waiting(t, "form", "development") /\ account' = [account EXCEPT ![i] = a]
      /\ IF a.disabled THEN Accounts!Reply(t, "form", calls, "refused", None)
           /\ UNCHANGED session ELSE Accounts!Grants(t, i, a)
      /\ UNCHANGED <<cookie, page, behind, budget>>
  BY <1>1, <1>2 DEF Accounts!DevelopmentLogin, Accounts!UpsertIdentity
<1>4. i \in Identities
  BY <1>1, <1>3, FormWaits
<1>5. /\ a \in Accounts!Account /\ (account[i] # None => account[i] = a)
      /\ a.disabled => [account EXCEPT ![i] = a] = account
  BY <1>2, <1>4, UpsertedIs
<1>6. CASE a.disabled
  <2>1. /\ UNCHANGED <<account, session, cookie, page, behind, budget>>
        /\ Accounts!Reply(t, "form", calls, "refused", None) /\ "form" \in Accounts!Kinds
        /\ "development" # "logout"
    BY <1>3, <1>5, <1>6 DEF Accounts!Kinds
  <2>2. QED
    BY <1>3, <2>1, RefusalFits, Served
<1>7. CASE ~a.disabled
  BY <1>1, <1>3, <1>4, <1>5, <1>7, GrantStep
<1>8. QED
  BY <1>6, <1>7

LEMMA OpenPageStep == ASSUME AccountsInv, NEW t \in Tabs, Accounts!OpenPage(t) PROVE AccountsInv'
<1>1. PICK r : r = Accounts!Request("session", None, None)
  OBVIOUS
<1>2. /\ page[t].known = "closed" /\ page' = [page EXCEPT ![t].known = "pending"]
      /\ calls' = [calls EXCEPT ![t]["session"] = r] /\ budget > 0 /\ budget' = budget - 1
      /\ UNCHANGED <<account, session, cookie, behind>> /\ "session" \in Accounts!Kinds
  BY <1>1 DEF Accounts!OpenPage, Accounts!Send, Accounts!Kinds
<1>3. r \in Accounts!Call /\ CallOK(r, "session")
  BY <1>1, <1>2, RequestFits
<1>4. budget' \in 0..MaxRequests
  BY <1>2, AccountsAssumption DEF AccountsInv, Accounts!TypeOK
<1>5. StoreFits' /\ RowsGrow
  BY <1>2, <1>4, StoreRests
<1>6. CallOK(r, "session")'
  BY <1>2, <1>3, <1>5, GrowingKeeps, CallStays DEF AccountsInv
<1>7. page \in [Tabs -> Accounts!Page] /\ behind \in [Tabs -> BOOLEAN] /\ page[t] \in Accounts!Page
  BY DEF AccountsInv, Accounts!TypeOK
<1>8. PICK p : p = [page[t] EXCEPT !.known = "pending"]
  OBVIOUS
<1>9. p \in Accounts!Page /\ p.known = "pending" /\ p.shown = page[t].shown
  BY <1>7, <1>8 DEF Accounts!Page
<1>10. page' \in [Tabs -> Accounts!Page] /\ page'[t] = p
         /\ \A u \in Tabs : u # t => page'[u] = page[u]
  BY <1>2, <1>7, <1>8, <1>9
<1>11. calls'[t]["session"] = r /\ \A k \in Accounts!Kinds : k # "session" =>
         calls'[t][k] = calls[t][k]
  <2>1. Accounts!TypeOK /\ "session" \in Accounts!Kinds
          /\ calls' = [calls EXCEPT ![t]["session"] = r]
    BY <1>2 DEF AccountsInv
  <2>2. QED
    BY <2>1, CallsThen
<1>12. page[t].shown = Accounts!Nobody /\ \A k \in Accounts!Kinds \ {"session"} : calls[t][k] = None
  BY <1>2 DEF AccountsInv, Opens
<1>13. Opens(t)' /\ PageFits(t)'
  BY <1>9, <1>10, <1>11, <1>12 DEF Opens, PageFits, Accounts!Nobody
<1>14. QED
  BY <1>2, <1>3, <1>5, <1>6, <1>7, <1>10, <1>13, OneCall

\* An answer is taken: the request is over and the page shows something else.
LEMMA Taken ==
  ASSUME AccountsInv, NEW t \in Tabs, NEW kind \in Accounts!Kinds,
         calls' = [calls EXCEPT ![t][kind] = None],
         UNCHANGED <<account, session, cookie, budget>>,
         NEW p \in Accounts!Page, page' = [page EXCEPT ![t] = p], p.known = "known",
         NEW b \in BOOLEAN, behind' = [behind EXCEPT ![t] = b],
         ~b => \/ p.shown = Reader
               \/ /\ kind # "form" /\ calls[t]["form"] # None
                  /\ calls[t]["form"].op = "logout" /\ calls[t]["form"].answer # None
  PROVE  AccountsInv'
<1>1. StoreFits' /\ RowsGrow /\ Reader' = Reader
  BY BudgetRests, StoreRests
<1>2. PICK n : n = None
  OBVIOUS
<1>3. CallOK(n, kind)' /\ n \in Accounts!Call \cup {None} /\ calls' = [calls EXCEPT ![t][kind] = n]
  BY <1>2 DEF CallOK
<1>4. calls'[t][kind] = None /\ \A k \in Accounts!Kinds : k # kind => calls'[t][k] = calls[t][k]
  <2>1. Accounts!TypeOK
    BY DEF AccountsInv
  <2>2. QED
    BY <1>2, <2>1, CallsThen
<1>5. page \in [Tabs -> Accounts!Page] /\ behind \in [Tabs -> BOOLEAN] /\ "form" \in Accounts!Kinds
  BY DEF AccountsInv, Accounts!TypeOK, Accounts!Kinds
<1>6. page' \in [Tabs -> Accounts!Page] /\ page'[t] = p
        /\ \A u \in Tabs : u # t => page'[u] = page[u]
  BY <1>5
<1>7. behind' \in [Tabs -> BOOLEAN] /\ behind'[t] = b
        /\ \A u \in Tabs : u # t => behind'[u] = behind[u]
  BY <1>5
<1>8. Opens(t)' /\ PageFits(t)'
  BY <1>1, <1>4, <1>5, <1>6, <1>7 DEF Opens, PageFits
<1>9. QED
  BY <1>1, <1>3, <1>6, <1>7, <1>8, OneCall

LEMMA SessionAnsweredStep == ASSUME AccountsInv, NEW t \in Tabs, Accounts!SessionAnswered(t)
  PROVE AccountsInv'
<1>1. PICK c : c = calls[t]["session"]
  OBVIOUS
<1>2. PICK p : p = [known |-> "known", shown |-> c.answer.value, error |-> FALSE]
  OBVIOUS
<1>3. /\ c # None /\ c.answer # None /\ page' = [page EXCEPT ![t] = p]
      /\ behind' = [behind EXCEPT ![t] = c.outdated]
      /\ calls' = [calls EXCEPT ![t]["session"] = None]
      /\ UNCHANGED <<account, session, cookie, budget>> /\ "session" \in Accounts!Kinds
  BY <1>1, <1>2 DEF Accounts!SessionAnswered, Accounts!Answered, Accounts!Shows, Accounts!Done,
     Accounts!Kinds
<1>4. c \in Accounts!Call /\ CallOK(c, "session")
  BY <1>1, <1>3, UnderWay
<1>5. SessionFits(c) /\ c.outdated \in BOOLEAN
  BY <1>3, <1>4, CallFields DEF CallOK
<1>6. p \in Accounts!Page /\ p.known = "known" /\ p.shown = c.answer.value
  BY <1>2, <1>3, <1>5 DEF Accounts!Page, SessionFits
<1>7. ~c.outdated => p.shown = Reader
  BY <1>3, <1>5, <1>6 DEF SessionFits, Truthful
<1>8. QED
  BY <1>3, <1>5, <1>6, <1>7, Taken

LEMMA ShownMade ==
  ASSUME NEW s \in Accounts!Shown
  PROVE  /\ s.user \in Identities \cup {None} /\ s.completed \in BOOLEAN
         /\ s = [user |-> s.user, completed |-> s.completed]
BY DEF Accounts!Shown

LEMMA OnboardAnsweredStep == ASSUME AccountsInv, NEW t \in Tabs, Accounts!OnboardAnswered(t)
  PROVE AccountsInv'
<1>1. PICK c : c = calls[t]["onboard"]
  OBVIOUS
<1>2. PICK s : s = IF page[t].shown.user
        = None THEN Accounts!Nobody ELSE [page[t].shown EXCEPT !.completed = TRUE]
  OBVIOUS
<1>3. PICK p : p = [page[t] EXCEPT !.shown = s, !.error = FALSE]
  OBVIOUS
<1>4. page \in [Tabs -> Accounts!Page] /\ page[t] \in Accounts!Page
        /\ page[t].shown \in Accounts!Shown /\ "onboard" \in Accounts!Kinds
  BY DEF AccountsInv, Accounts!TypeOK, Accounts!Page, Accounts!Kinds
<1>5. page' = [page EXCEPT ![t] = p]
  BY <1>2, <1>3, <1>4 DEF Accounts!OnboardAnswered, Accounts!Page
<1>6. PICK b \in BOOLEAN : b = (behind[t] \/ c.outdated)
  OBVIOUS
<1>7. /\ c # None /\ c.answer # None /\ c.answer.status = "ok"
      /\ behind' = [behind EXCEPT ![t] = b] /\ calls' = [calls EXCEPT ![t]["onboard"] = None]
      /\ UNCHANGED <<account, session, cookie, budget>>
  BY <1>1, <1>6 DEF Accounts!OnboardAnswered, Accounts!Answered, Accounts!Done
<1>8. c \in Accounts!Call /\ CallOK(c, "onboard") /\ page[t].known = "known"
  BY <1>1, <1>4, <1>7, UnderWay
<1>9. s \in Accounts!Shown
  BY <1>2, <1>4 DEF Accounts!Shown, Accounts!Nobody
<1>10. p \in Accounts!Page /\ p.known = "known" /\ p.shown = s
  BY <1>3, <1>4, <1>8, <1>9 DEF Accounts!Page
<1>11. ASSUME ~b
       PROVE  \/ s = Reader
              \/ /\ calls[t]["form"] # None /\ calls[t]["form"].op = "logout"
                 /\ calls[t]["form"].answer # None
  <2>1. ~behind[t] /\ ~c.outdated
    BY <1>6, <1>11
  <2>2. Reader.completed
    BY <1>7, <1>8, <2>1 DEF CallOK, OnboardFits, Truthful
  <2>3. Reader \in Accounts!Shown /\ Reader.completed \in BOOLEAN
    BY ReaderIs, ShownMade DEF AccountsInv
  <2>4. Reader.completed = TRUE
    BY <2>2, <2>3
  <2>5. Reader.user # None
    <3>1. Accounts!Nobody.completed = FALSE
      BY DEF Accounts!Nobody
    <3>2. Reader # Accounts!Nobody
      BY <2>4, <3>1
    <3>3. QED
      BY <3>2, ReaderIs DEF AccountsInv
  <2>6. page[t].shown.user = Reader.user => s = Reader
    <3>1. ASSUME page[t].shown.user = Reader.user PROVE s = Reader
      <4>1. s = [user |-> Reader.user, completed |-> TRUE]
        BY <1>2, <1>4, <2>5, <3>1 DEF Accounts!Shown
      <4>2. QED
        BY <2>3, <2>4, <4>1, ShownMade
    <3>2. QED
      BY <3>1
  <2>7. \/ page[t].shown.user = Reader.user
        \/ calls[t]["form"] # None /\ calls[t]["form"].op = "logout"
             /\ calls[t]["form"].answer # None
    BY <1>1, <1>7, <1>8, <2>1 DEF AccountsInv, PageFits
  <2>8. QED
    BY <2>6, <2>7
<1>12. QED
  BY <1>4, <1>5, <1>7, <1>10, <1>11, Taken

LEMMA TurnedAwayStep ==
  ASSUME AccountsInv, NEW t \in Tabs, NEW kind \in Accounts!Kinds, Accounts!TurnedAway(t, kind)
  PROVE  AccountsInv'
<1>1. PICK c : c = calls[t][kind]
  OBVIOUS
<1>2. PICK p : p = [known |-> "known", shown |-> Accounts!Nobody, error |-> FALSE]
  OBVIOUS
<1>3. /\ c # None /\ c.answer # None /\ c.answer.status = "unauthorized"
      /\ page' = [page EXCEPT ![t] = p] /\ calls' = [calls EXCEPT ![t][kind] = None]
      /\ UNCHANGED <<account, session, cookie, budget>>
  BY <1>1, <1>2 DEF Accounts!TurnedAway, Accounts!Answered, Accounts!Shows, Accounts!Done
<1>4. c \in Accounts!Call /\ CallOK(c, kind)
  BY <1>1, <1>3, UnderWay
<1>5. c.outdated \in BOOLEAN /\ behind[t] \in BOOLEAN
  BY <1>4, CallFields DEF AccountsInv, Accounts!TypeOK
<1>6. PICK b \in BOOLEAN : b = IF kind = "form" THEN (behind[t] \/ cookie # None) ELSE c.outdated
  BY <1>5
<1>7. behind' = [behind EXCEPT ![t] = b]
  BY <1>1, <1>6 DEF Accounts!TurnedAway
<1>8. p \in Accounts!Page /\ p.known = "known" /\ p.shown = Accounts!Nobody
  BY <1>2 DEF Accounts!Page, Accounts!Shown, Accounts!Nobody
<1>9. ASSUME ~b PROVE Reader = Accounts!Nobody
  <2>1. CASE kind = "form"
    <3>1. cookie = None
      BY <1>6, <1>9, <2>1
    <3>2. Accounts!UserOf(cookie) = None
      BY <3>1 DEF Accounts!UserOf
    <3>3. QED
      BY <3>2, ReaderIs DEF AccountsInv
  <2>2. CASE kind = "session"
    BY <1>3, <1>4, <2>2 DEF CallOK, SessionFits
  <2>3. CASE kind = "onboard"
    BY <1>3, <1>4, <1>6, <1>9, <2>3 DEF CallOK, OnboardFits, Truthful
  <2>4. CASE kind = "profile"
    BY <1>3, <1>4, <1>6, <1>9, <2>4 DEF CallOK, ProfileFits, Truthful
  <2>5. QED
    BY <2>1, <2>2, <2>3, <2>4 DEF Accounts!Kinds
<1>10. QED
  BY <1>3, <1>7, <1>8, <1>9, Taken

\* A call that is marked as outdated says no more than it did.
LEMMA MarkedCall ==
  ASSUME Accounts!TypeOK, RowsStand, RowsKept, NEW c \in Accounts!Call \cup {None},
         NEW kind \in Accounts!Kinds, CallOK(c, kind),
         NEW hit \in BOOLEAN, NEW d, d = Accounts!Outdated(c, hit),
         c # None /\ ~c.outdated /\ ~hit => /\ UNCHANGED cookie /\ (c.answer # None => RowsGrow)
                                            /\ c.op = "answers" => RowsGrow \/ SameUser
  PROVE  /\ d \in Accounts!Call \cup {None} /\ CallOK(d, kind)' /\ (d = None <=> c = None)
         /\ c # None => /\ d.op = c.op /\ d.token = c.token /\ d.who = c.who /\ d.input = c.input
                        /\ d.seen = c.seen /\ d.answer = c.answer /\ (hit => d.outdated)
                        /\ ~hit => d = c
<1>1. CASE c = None \/ ~hit
  <2>1. d = c
    BY <1>1 DEF Accounts!Outdated
  <2>2. CallOK(c, kind)'
    BY <1>1, CallStays DEF CallOK
  <2>3. CallOK(d, kind)'
    BY <2>1, <2>2 DEF CallOK, CallFits, SessionFits, FormFits, OnboardFits, ProfileFits, Truthful
  <2>4. QED
    BY <1>1, <2>1, <2>3
<1>2. CASE c # None /\ hit
  <2>1. c \in Accounts!Call /\ d = [c EXCEPT !.outdated = TRUE]
    BY <1>2 DEF Accounts!Outdated
  <2>2. /\ d \in Accounts!Call /\ d.op = c.op /\ d.token = c.token /\ d.who = c.who
        /\ d.input = c.input
        /\ d.seen = c.seen /\ d.answer = c.answer /\ d.outdated
    BY <2>1 DEF Accounts!Call
  <2>3. d # None
    BY <2>2, NoneIsNone
  <2>4. CallOK(d, kind)
    BY <1>2, <2>2 DEF CallOK, CallFits, SessionFits, FormFits, OnboardFits, ProfileFits, Truthful
  <2>5. PICK e \in Accounts!Call : e = d
    BY <2>2
  <2>6. CallOK(e, kind)'
    BY <2>2, <2>4, <2>5, CallStays
  <2>7. CallOK(d, kind)'
    BY <2>5, <2>6
  <2>8. QED
    BY <1>2, <2>2, <2>3, <2>7
<1>3. QED
  BY <1>1, <1>2

\* The requests after a change at the server, those marked that it outdates.
LEMMA MarkedCalls ==
  ASSUME AccountsInv, RowsKept, UNCHANGED cookie,
         NEW f, f = Accounts!ServerChanged \/ (f = Accounts!ProfileChanged /\ SameUser)
  PROVE  /\ f \in [Tabs -> [Accounts!Kinds -> Accounts!Call \cup {None}]]
         /\ \A u \in Tabs, k \in Accounts!Kinds :
              /\ CallOK(f[u][k], k)' /\ (f[u][k] = None <=> calls[u][k] = None)
              /\ calls[u][k] # None =>
                   f[u][k].op = calls[u][k].op /\ f[u][k].answer = calls[u][k].answer
<1>1. ASSUME NEW u \in Tabs, NEW k \in Accounts!Kinds
      PROVE  /\ f[u][k] \in Accounts!Call \cup {None}
             /\ CallOK(f[u][k], k)' /\ (f[u][k] = None <=> calls[u][k] = None)
             /\ calls[u][k] # None =>
                  f[u][k].op = calls[u][k].op /\ f[u][k].answer = calls[u][k].answer
  <2>1. PICK c : c = calls[u][k]
    OBVIOUS
  <2>2. c \in Accounts!Call \cup {None} /\ CallOK(c, k) /\ Accounts!TypeOK /\ RowsStand
    BY <2>1, CallIs DEF AccountsInv, CallsFit
  <2>3. PICK d : d = f[u][k]
    OBVIOUS
  <2>4. PICK hit \in BOOLEAN :
          d = Accounts!Outdated(c, hit)
            /\ (c # None /\ ~hit => c.answer = None /\ (c.op = "answers" => SameUser))
    <3>1. CASE f = Accounts!ServerChanged
      <4>1. Accounts!Computed(c) \in BOOLEAN
        BY DEF Accounts!Computed
      <4>2. d = Accounts!Outdated(c, Accounts!Computed(c))
        BY <2>1, <2>3, <3>1 DEF Accounts!ServerChanged
      <4>3. c # None /\ ~Accounts!Computed(c) => c.answer = None /\ c.op # "answers"
        BY DEF Accounts!Computed
      <4>4. QED
        BY <4>1, <4>2, <4>3
    <3>2. CASE f = Accounts!ProfileChanged /\ SameUser
      <4>1. Accounts!Reads(c) \in BOOLEAN
        BY DEF Accounts!Reads
      <4>2. d = Accounts!Outdated(c, Accounts!Reads(c))
        BY <2>1, <2>3, <3>2 DEF Accounts!ProfileChanged
      <4>3. c # None /\ ~Accounts!Reads(c) => c.answer = None
        BY DEF Accounts!Reads, Accounts!Computed
      <4>4. QED
        BY <3>2, <4>1, <4>2, <4>3
    <3>3. QED
      BY <3>1, <3>2
  <2>5. /\ d \in Accounts!Call \cup {None} /\ CallOK(d, k)' /\ (d = None <=> c = None)
        /\ c # None => d.op = c.op /\ d.answer = c.answer
    BY <2>2, <2>4, MarkedCall
  <2>6. CallOK(f[u][k], k)'
    BY <2>3, <2>5 DEF CallOK, CallFits, SessionFits, FormFits, OnboardFits, ProfileFits, Truthful
  <2>7. QED
    BY <2>1, <2>3, <2>5, <2>6
<1>2. f = [u \in Tabs |-> f[u]] /\ \A u \in Tabs : f[u] = [k \in Accounts!Kinds |-> f[u][k]]
  BY DEF Accounts!ServerChanged, Accounts!ProfileChanged
<1>3. \A u \in Tabs : f[u] \in [Accounts!Kinds -> Accounts!Call \cup {None}]
  BY <1>1, <1>2
<1>4. QED
  BY <1>1, <1>2, <1>3

LEMMA CookieCall ==
  ASSUME AccountsInv, RowsKept, NEW u \in Tabs, NEW k \in Accounts!Kinds, NEW d,
         d = Accounts!CookieChanged[u][k]
  PROVE  d \in Accounts!Call \cup {None} /\ CallOK(d, k)' /\ (d = None <=> calls[u][k] = None)
<1>1. PICK c : c = calls[u][k]
  OBVIOUS
<1>2. c \in Accounts!Call \cup {None} /\ CallOK(c, k) /\ Accounts!TypeOK /\ RowsStand
  BY <1>1, CallIs DEF AccountsInv, CallsFit
<1>3. PICK hit \in BOOLEAN : hit = TRUE
  OBVIOUS
<1>4. d = Accounts!Outdated(c, hit)
  BY <1>1, <1>3 DEF Accounts!CookieChanged
<1>5. ~(c # None /\ ~c.outdated /\ ~hit)
  BY <1>3
<1>6. QED
  BY <1>1, <1>2, <1>4, <1>5, MarkedCall

\* Everybody else is behind.
LEMMA ManyCalls ==
  ASSUME AccountsInv, StoreFits', NEW t \in Tabs,
         calls' \in [Tabs -> [Accounts!Kinds -> Accounts!Call \cup {None}]],
         \A u \in Tabs, k \in Accounts!Kinds : CallOK(calls[u][k], k)',
         \A u \in Tabs, k \in Accounts!Kinds : u # t /\ calls[u][k] = None => calls'[u][k] = None,
         page' \in [Tabs -> Accounts!Page], behind' \in [Tabs -> BOOLEAN],
         \A u \in Tabs : u # t => page'[u] = page[u] /\ behind'[u],
         Opens(t)', PageFits(t)'
  PROVE  AccountsInv'
<1>1. Accounts!TypeOK' /\ RowsStand'
  BY DEF Accounts!TypeOK, StoreFits
<1>2. \A u \in Tabs : CallsFit(u)'
  BY DEF CallsFit
<1>3. ASSUME NEW u \in Tabs PROVE Opens(u)' /\ PageFits(u)'
  <2>1. CASE u = t
    BY <2>1
  <2>2. CASE u # t
    <3>1. Opens(u) /\ page'[u] = page[u] /\ behind'[u]
      BY <2>2 DEF AccountsInv
    <3>2. "session" \in Accounts!Kinds
      BY DEF Accounts!Kinds
    <3>3. QED
      BY <2>2, <3>1, <3>2 DEF Opens, PageFits
  <2>3. QED
    BY <2>1, <2>2
<1>4. QED
  BY <1>1, <1>2, <1>3 DEF AccountsInv

\* Something changes at the server for a request of one tab.
LEMMA ServerStep ==
  ASSUME AccountsInv, StoreFits', RowsKept, UNCHANGED <<cookie, page>>,
         NEW t \in Tabs, NEW kind \in Accounts!Kinds, calls[t][kind] # None,
         NEW r \in Accounts!Call, CallOK(r, kind)',
         NEW f, f = Accounts!ServerChanged \/ (f = Accounts!ProfileChanged /\ SameUser),
         calls' = [f EXCEPT ![t][kind] = r],
         behind' = Accounts!OthersBehind(t),
         \/ kind = "form" /\ r.op = "logout" /\ r.answer # None
         \/ /\ kind = "onboard" /\ calls[t][kind].answer = None
            /\ r.answer # None /\ r.answer.status = "ok"
            /\ r.outdated \/ (Accounts!UserOf(cookie)' = Accounts!UserOf(cookie)
                 /\ Reader'.user = Accounts!UserOf(cookie))
  PROVE  AccountsInv'
<1>3. /\ f \in [Tabs -> [Accounts!Kinds -> Accounts!Call \cup {None}]]
      /\ \A u \in Tabs, k \in Accounts!Kinds :
           /\ CallOK(f[u][k], k)' /\ (f[u][k] = None <=> calls[u][k] = None)
           /\ calls[u][k] # None =>
                f[u][k].op = calls[u][k].op /\ f[u][k].answer = calls[u][k].answer
  BY MarkedCalls
<1>4. calls' = [f EXCEPT ![t] = [f[t] EXCEPT ![kind] = r]]
  OBVIOUS
<1>5. /\ calls'[t][kind] = r /\ calls' \in [Tabs -> [Accounts!Kinds -> Accounts!Call \cup {None}]]
      /\ \A u \in Tabs, k \in Accounts!Kinds : ~(u = t /\ k = kind) => calls'[u][k] = f[u][k]
  <2>1. PICK g : g = [f[t] EXCEPT ![kind] = r]
    OBVIOUS
  <2>2. f[t] \in [Accounts!Kinds -> Accounts!Call \cup {None}]
    BY <1>3
  <2>3. g \in [Accounts!Kinds -> Accounts!Call \cup {None}] /\ g[kind] = r
          /\ \A k \in Accounts!Kinds : k # kind => g[k] = f[t][k]
    BY <2>1, <2>2
  <2>4. calls' = [f EXCEPT ![t] = g]
    BY <1>4, <2>1
  <2>5. calls' \in [Tabs -> [Accounts!Kinds -> Accounts!Call \cup {None}]] /\ calls'[t] = g
    BY <1>3, <2>3, <2>4
  <2>6. \A u \in Tabs : u # t => calls'[u] = f[u]
    BY <1>3, <2>4
  <2>7. QED
    BY <2>3, <2>5, <2>6
<1>6. ASSUME NEW u \in Tabs, NEW k \in Accounts!Kinds PROVE CallOK(calls[u][k], k)'
  <2>1. CASE u = t /\ k = kind
    BY <1>5, <2>1 DEF CallOK, CallFits, SessionFits, FormFits, OnboardFits, ProfileFits, Truthful
  <2>2. CASE ~(u = t /\ k = kind)
    <3>1. PICK d : d = f[u][k]
      OBVIOUS
    <3>2. calls'[u][k] = d
      BY <1>5, <2>2, <3>1
    <3>3. CallOK(d, k)'
      BY <1>3, <3>1 DEF CallOK, CallFits, SessionFits, FormFits, OnboardFits, ProfileFits, Truthful
    <3>4. QED
      BY <3>2, <3>3 DEF CallOK, CallFits, SessionFits, FormFits, OnboardFits, ProfileFits, Truthful
  <2>3. QED
    BY <2>1, <2>2
<1>7. \A u \in Tabs, k \in Accounts!Kinds : u # t /\ calls[u][k] = None => calls'[u][k] = None
  BY <1>3, <1>5
<1>8. page \in [Tabs -> Accounts!Page] /\ behind \in [Tabs -> BOOLEAN]
  BY DEF AccountsInv, Accounts!TypeOK
<1>9. /\ page' \in [Tabs -> Accounts!Page] /\ behind' \in [Tabs -> BOOLEAN]
      /\ behind'[t] = behind[t]
      /\ \A u \in Tabs : u # t => page'[u] = page[u] /\ behind'[u]
  BY <1>8 DEF Accounts!OthersBehind
<1>10. page[t].known = "known"
  BY UnderWay
<1>11. Opens(t)'
  BY <1>10 DEF Opens
<1>12. PageFits(t)'
  <2>1. "form" \in Accounts!Kinds /\ "onboard" \in Accounts!Kinds
    BY DEF Accounts!Kinds
  <2>2. CASE kind = "form"
    <3>1. calls'[t]["form"] = r
      BY <1>5, <2>2
    <3>2. r # None
      BY NoneIsNone
    <3>3. QED
      BY <2>2, <3>1, <3>2 DEF PageFits
  <2>3. CASE kind = "onboard"
    <3>1. SUFFICES ASSUME ~behind[t] PROVE PageFits(t)'
      BY <1>9 DEF PageFits
    <3>2. \/ page[t].shown = Reader
          \/ calls[t]["form"] # None /\ calls[t]["form"].op = "logout"
               /\ calls[t]["form"].answer # None
      BY <1>10, <2>3, <3>1 DEF AccountsInv, PageFits
    <3>3. CASE page[t].shown = Reader
      <4>1. r.outdated \/ page[t].shown.user = Reader'.user
        BY <2>3, <3>3, ReaderIs DEF AccountsInv
      <4>2. r # None /\ calls'[t]["onboard"] = r
        BY <1>5, <2>3, NoneIsNone
      <4>3. QED
        BY <2>3, <4>1, <4>2 DEF PageFits
    <3>4. CASE calls[t]["form"] # None /\ calls[t]["form"].op = "logout"
            /\ calls[t]["form"].answer # None
      <4>1. PICK d : d = f[t]["form"]
        OBVIOUS
      <4>2. d # None /\ d.op = "logout" /\ d.answer # None
        BY <1>3, <2>1, <3>4, <4>1
      <4>3. calls'[t]["form"] = d
        BY <1>5, <2>1, <2>3, <4>1
      <4>4. QED
        BY <4>2, <4>3 DEF PageFits
    <3>5. QED
      BY <3>2, <3>3, <3>4
  <2>4. QED
    BY <2>2, <2>3
<1>13. QED
  BY <1>5, <1>6, <1>7, <1>9, <1>11, <1>12, ManyCalls

LEMMA ServeLogoutStep == ASSUME AccountsInv, NEW t \in Tabs, Accounts!ServeLogout(t)
  PROVE AccountsInv'
<1>1. PICK c : c = calls[t]["form"]
  OBVIOUS
<1>2. /\ c # None /\ c.op = "logout" /\ c.answer = None /\ "form" \in Accounts!Kinds
      /\ session' = [k \in Tokens |-> IF k = c.token
           /\ session[k] # None THEN [session[k] EXCEPT !.live = FALSE]
                                      ELSE session[k]]
      /\ calls' = [Accounts!ServerChanged EXCEPT ![t]["form"].answer = [status |-> "ok",
           value |-> Accounts!Nobody]]
      /\ behind' = Accounts!OthersBehind(t) /\ UNCHANGED <<account, cookie, page, budget>>
  BY <1>1 DEF Accounts!ServeLogout, Accounts!Waiting, Accounts!Reply, Accounts!Kinds
<1>3. c \in Accounts!Call /\ CallFits(c, "form")
  BY <1>1, <1>2, UnderWay
<1>4. session \in [Tokens -> Accounts!Session \cup {None}]
  BY DEF AccountsInv, Accounts!TypeOK
<1>5. ASSUME NEW k \in Tokens
      PROVE  /\ session'[k] \in Accounts!Session \cup {None}
             /\ (session'[k] = None <=> session[k] = None)
             /\ session[k] # None => session'[k].user = session[k].user
  <2>1. CASE k = c.token /\ session[k] # None
    <3>1. session[k] \in Accounts!Session /\ session'[k] = [session[k] EXCEPT !.live = FALSE]
      BY <1>2, <1>4, <2>1
    <3>2. session'[k] \in Accounts!Session /\ session'[k].user = session[k].user
      BY <3>1 DEF Accounts!Session
    <3>3. QED
      BY <2>1, <3>2, NoneIsNone
  <2>2. CASE ~(k = c.token /\ session[k] # None)
    BY <1>2, <1>4, <2>2
  <2>3. QED
    BY <2>1, <2>2
<1>6. session' \in [Tokens -> Accounts!Session \cup {None}]
  BY <1>2, <1>5
<1>7. StoreFits' /\ RowsKept
  <2>1. RowsStand'
    BY <1>2, <1>5 DEF AccountsInv, Accounts!TypeOK, RowsStand
  <2>2. RowsKept
    BY <1>2, <1>5 DEF RowsKept
  <2>3. QED
    BY <1>2, <1>6, <2>1, <2>2, BudgetRests DEF StoreFits, AccountsInv, Accounts!TypeOK
<1>8. PICK b : b = [status |-> "ok", value |-> Accounts!Nobody]
  OBVIOUS
<1>9. b \in Accounts!Answer /\ b # None /\ b.status = "ok" /\ b.value = Accounts!Nobody
  <2>1. Accounts!Nobody \in Accounts!Shown
    BY DEF Accounts!Shown, Accounts!Nobody
  <2>2. b \in Accounts!Answer /\ b.status = "ok" /\ b.value = Accounts!Nobody
    BY <1>8, <2>1 DEF Accounts!Answer
  <2>3. QED
    BY <2>2, NoneIsNone
<1>10. PICK d : d = Accounts!ServerChanged[t]["form"]
  OBVIOUS
<1>11. d = c /\ \A u \in Tabs : Accounts!ServerChanged[u] = [k
         \in Accounts!Kinds |-> Accounts!ServerChanged[u][k]]
  <2>1. d = Accounts!Outdated(c, Accounts!Computed(c)) /\ ~Accounts!Computed(c)
    BY <1>1, <1>2, <1>10 DEF Accounts!ServerChanged, Accounts!Computed
  <2>2. QED
    BY <2>1 DEF Accounts!Outdated, Accounts!ServerChanged
<1>12. PICK r : r = [c EXCEPT !.answer = b]
  OBVIOUS
<1>13. r \in Accounts!Call /\ r.op = "logout" /\ r.answer = b /\ r.token = c.token /\ r.who = c.who
  BY <1>2, <1>3, <1>9, <1>12 DEF Accounts!Call
<1>14. calls' = [Accounts!ServerChanged EXCEPT ![t]["form"] = r]
  <2>1. PICK f : f = Accounts!ServerChanged
    OBVIOUS
  <2>2. f[t]["form"] = c
    BY <1>10, <1>11, <2>1
  <2>3. calls' = [f EXCEPT ![t]["form"].answer = b]
    BY <1>2, <1>8, <2>1
  <2>4. calls' = [f EXCEPT ![t]["form"] = r]
    BY <1>12, <2>2, <2>3
  <2>5. QED
    BY <2>1, <2>4
<1>15. CallOK(r, "form")'
  <2>1. r.op = "logout" /\ r.answer # None /\ r.answer.status = "ok"
          /\ r.answer.value = Accounts!Nobody
    BY <1>9, <1>13
  <2>2. CallFits(r, "form")'
    BY <2>1 DEF CallFits, Accounts!Forms
  <2>3. FormFits(r)'
    BY <2>1 DEF FormFits
  <2>4. QED
    BY <2>2, <2>3 DEF CallOK
<1>16. PICK f : f = Accounts!ServerChanged /\ calls' = [f EXCEPT ![t]["form"] = r]
  BY <1>14
<1>17. QED
  BY <1>1, <1>2, <1>7, <1>9, <1>13, <1>15, <1>16, ServerStep

\* The first profile of a user is stored.
LEMMA ProfileMade ==
  ASSUME AccountsInv, NEW i \in Identities, account[i] # None, account[i].profile = None,
         NEW p \in Inputs,
         account' = [account EXCEPT ![i].profile = p], UNCHANGED <<session, cookie, budget>>
  PROVE  /\ StoreFits' /\ RowsKept
         /\ account'[i] # None /\ account'[i].profile = p
         /\ Accounts!UserOf(cookie)' = Accounts!UserOf(cookie)
         /\ Reader'.user = Accounts!UserOf(cookie)
         /\ Accounts!UserOf(cookie) = i => Reader'.completed
<1>1. account \in [Identities -> Accounts!Account \cup {None}] /\ account[i] \in Accounts!Account
  BY DEF AccountsInv, Accounts!TypeOK
<1>2. PICK a : a = [account[i] EXCEPT !.profile = p]
  OBVIOUS
<1>3. a \in Accounts!Account /\ a.disabled = account[i].disabled /\ a.profile = p
  BY <1>1, <1>2 DEF Accounts!Account
<1>4. a # None
  BY <1>3, NoneIsNone
<1>5. account' = [account EXCEPT ![i] = a]
  BY <1>1, <1>2
<1>6. /\ account' \in [Identities -> Accounts!Account \cup {None}] /\ account'[i] = a
      /\ \A j \in Identities : j # i => account'[j] = account[j]
  BY <1>1, <1>3, <1>5
<1>7. \A j \in Identities : account[j] # None => account'[j] # None
        /\ account'[j].disabled = account[j].disabled
  BY <1>3, <1>4, <1>6
<1>8. RowsKept
  BY <1>3, <1>4, <1>6 DEF RowsKept
<1>9. RowsStand'
  <2>1. \A k \in Tokens : session[k] # None => session[k].user \in Identities
          /\ account[session[k].user] # None
    BY DEF AccountsInv, Accounts!TypeOK, Accounts!Session, RowsStand
  <2>2. QED
    BY <1>7, <2>1 DEF AccountsInv, RowsStand
<1>10. StoreFits'
  BY <1>6, <1>9, BudgetRests DEF StoreFits, AccountsInv, Accounts!TypeOK
<1>11. Accounts!UserOf(cookie)' = Accounts!UserOf(cookie)
  <2>1. CASE cookie # None /\ session[cookie] # None
    <3>1. session[cookie].user \in Identities /\ account[session[cookie].user] # None
      BY <2>1 DEF AccountsInv, Accounts!TypeOK, Accounts!Session, RowsStand
    <3>2. account'[session[cookie].user].disabled = account[session[cookie].user].disabled
      BY <1>7, <3>1
    <3>3. QED
      BY <3>2 DEF Accounts!UserOf
  <2>2. CASE ~(cookie # None /\ session[cookie] # None)
    BY <2>2 DEF Accounts!UserOf
  <2>3. QED
    BY <2>1, <2>2
<1>12. Reader'.user = Accounts!UserOf(cookie) /\ (Accounts!UserOf(cookie) = i => Reader'.completed)
  <2>1. i # None /\ p # None
    BY NoneIsNone
  <2>2. PICK j : j = Accounts!UserOf(cookie)
    OBVIOUS
  <2>3. Reader' = IF j = None THEN Accounts!Nobody ELSE [user |-> j,
          completed |-> account'[j].profile # None]
    BY <1>11, <2>2 DEF Reader, Accounts!ShownOf, Accounts!PublicUser
  <2>4. Reader'.user = j
    BY <2>3 DEF Accounts!Nobody
  <2>5. ASSUME j = i PROVE Reader'.completed
    <3>1. Reader'.completed = (account'[i].profile # None)
      BY <2>1, <2>3, <2>5
    <3>2. account'[i].profile # None
      BY <1>3, <1>6, <2>1
    <3>3. QED
      BY <3>1, <3>2
  <2>6. QED
    BY <2>2, <2>4, <2>5
<1>13. QED
  BY <1>3, <1>4, <1>6, <1>8, <1>10, <1>11, <1>12

LEMMA CompleteOnboardingStep == ASSUME AccountsInv, NEW t \in Tabs, Accounts!CompleteOnboarding(t)
  PROVE AccountsInv'
<1>1. PICK c : c = calls[t]["onboard"]
  OBVIOUS
<1>2. PICK i : i = c.who
  OBVIOUS
<1>3. PICK b : b = [status |-> "ok", value |-> c.input]
  OBVIOUS
<1>4. PICK f : f = Accounts!ProfileChanged
  OBVIOUS
<1>5. /\ c # None /\ c.op = "answers" /\ c.answer = None /\ "onboard" \in Accounts!Kinds
      /\ account[i].profile = None /\ account' = [account EXCEPT ![i].profile = c.input]
      /\ calls' = [f EXCEPT ![t]["onboard"].answer = b]
      /\ behind' = Accounts!OthersBehind(t) /\ UNCHANGED <<session, cookie, page, budget>>
  BY <1>1, <1>2, <1>3, <1>4 DEF Accounts!CompleteOnboarding, Accounts!Waiting, Accounts!Reply,
     Accounts!Kinds
<1>6. c \in Accounts!Call /\ CallFits(c, "onboard") /\ CallOK(c, "onboard")
  BY <1>1, <1>5, UnderWay
<1>7. OnboardFits(c) /\ i \in Identities \cup {None}
  BY <1>2, <1>6, CallFields DEF CallOK
<1>8. i \in Identities /\ account[i] # None /\ c.input \in Inputs
        /\ (~c.outdated => Accounts!UserOf(cookie) = i)
  BY <1>2, <1>5, <1>7 DEF OnboardFits
<1>9. /\ StoreFits' /\ RowsKept /\ account'[i] # None /\ account'[i].profile = c.input
      /\ Accounts!UserOf(cookie)' = Accounts!UserOf(cookie)
      /\ Reader'.user = Accounts!UserOf(cookie)
      /\ Accounts!UserOf(cookie) = i => Reader'.completed
  BY <1>5, <1>8, ProfileMade
<1>10. b \in Accounts!Answer /\ b # None /\ b.status = "ok" /\ b.value = c.input
  <2>1. b \in Accounts!Answer /\ b.status = "ok" /\ b.value = c.input
    BY <1>3, <1>8 DEF Accounts!Answer
  <2>2. QED
    BY <2>1, NoneIsNone
<1>11. f[t]["onboard"] = c
  <2>1. ~Accounts!Reads(c) /\ Accounts!ProfileChanged[t]["onboard"] = Accounts!Outdated(c,
          Accounts!Reads(c))
    BY <1>1, <1>5 DEF Accounts!ProfileChanged, Accounts!Reads
  <2>2. QED
    BY <1>4, <2>1 DEF Accounts!Outdated
<1>12. PICK r : r = [c EXCEPT !.answer = b]
  OBVIOUS
<1>13. /\ r \in Accounts!Call /\ r.op = c.op /\ r.answer = b /\ r.token = c.token
       /\ r.who = i /\ r.input = c.input
       /\ r.outdated = c.outdated
  BY <1>2, <1>6, <1>10, <1>12 DEF Accounts!Call
<1>14. calls' = [f EXCEPT ![t]["onboard"] = r]
  BY <1>5, <1>11, <1>12
<1>15. CallFits(r, "onboard")'
  BY <1>5, <1>6, <1>13 DEF CallFits
<1>16. OnboardFits(r)'
  <2>1. r.answer.value = c.input /\ c.input # None /\ r.answer # None /\ r.answer.status = "ok"
          /\ r.input \in Inputs
    BY <1>8, <1>10, <1>13, NoneIsNone
  <2>2. ~r.outdated => Reader'.completed
    BY <1>8, <1>9, <1>13
  <2>3. r.who # None /\ account'[r.who] # None
          /\ (~r.outdated => Accounts!UserOf(cookie)' = r.who)
    BY <1>8, <1>9, <1>13, NoneIsNone
  <2>4. QED
    BY <1>8, <1>9, <2>1, <2>2, <2>3 DEF OnboardFits, Truthful
<1>17. CallOK(r, "onboard")'
  BY <1>15, <1>16 DEF CallOK
<1>18. f = Accounts!ProfileChanged /\ SameUser
  BY <1>4, <1>9 DEF SameUser
<1>19. calls[t]["onboard"] # None /\ calls[t]["onboard"].answer = None
         /\ r.answer # None /\ r.answer.status = "ok"
  BY <1>1, <1>5, <1>10, <1>13
<1>20. QED
  BY <1>5, <1>9, <1>13, <1>14, <1>17, <1>18, <1>19, ServerStep

\* Something changes at the server for no request of these tabs.
LEMMA ElsewhereStep ==
  ASSUME AccountsInv, StoreFits', RowsKept, UNCHANGED <<cookie, page>>,
         calls' = Accounts!ServerChanged,
         behind' = [t \in Tabs |-> TRUE]
  PROVE  AccountsInv'
<1>1. PICK f : f = Accounts!ServerChanged
  OBVIOUS
<1>2. /\ calls' \in [Tabs -> [Accounts!Kinds -> Accounts!Call \cup {None}]]
      /\ \A u \in Tabs, k \in Accounts!Kinds :
           CallOK(f[u][k], k)' /\ calls'[u][k] = f[u][k] /\ (calls[u][k] = None => f[u][k] = None)
  BY <1>1, MarkedCalls
<1>3. Accounts!TypeOK' /\ RowsStand'
  BY <1>2 DEF AccountsInv, Accounts!TypeOK, StoreFits
<1>4. ASSUME NEW u \in Tabs PROVE CallsFit(u)' /\ Opens(u)' /\ PageFits(u)'
  <2>1. ASSUME NEW k \in Accounts!Kinds PROVE CallOK(calls[u][k], k)'
    BY <1>2 DEF CallOK, CallFits, SessionFits, FormFits, OnboardFits, ProfileFits, Truthful
  <2>2. Opens(u) /\ page'[u] = page[u] /\ behind'[u] /\ "session" \in Accounts!Kinds
    BY DEF AccountsInv, Accounts!Kinds
  <2>3. QED
    BY <1>2, <2>1, <2>2 DEF CallsFit, Opens, PageFits
<1>5. QED
  BY <1>3, <1>4 DEF AccountsInv

LEMMA DisableStep == ASSUME AccountsInv, NEW i \in Identities, Accounts!Disable(i)
  PROVE AccountsInv'
<1>1. /\ account[i] # None /\ account' = [account EXCEPT ![i].disabled = TRUE]
      /\ calls' = Accounts!ServerChanged /\ behind' = [t \in Tabs |-> TRUE]
      /\ UNCHANGED <<session, cookie, page, budget>>
  BY DEF Accounts!Disable
<1>2. account \in [Identities -> Accounts!Account \cup {None}] /\ account[i] \in Accounts!Account
  BY <1>1 DEF AccountsInv, Accounts!TypeOK
<1>3. PICK a : a = [account[i] EXCEPT !.disabled = TRUE]
  OBVIOUS
<1>4. a \in Accounts!Account /\ a.profile = account[i].profile
  BY <1>2, <1>3 DEF Accounts!Account
<1>5. a # None
  BY <1>4, NoneIsNone
<1>6. account' = [account EXCEPT ![i] = a]
  BY <1>1, <1>2, <1>3
<1>7. /\ account' \in [Identities -> Accounts!Account \cup {None}] /\ account'[i] = a
      /\ \A j \in Identities : j # i => account'[j] = account[j]
  BY <1>2, <1>4, <1>6
<1>8. RowsKept
  BY <1>1, <1>4, <1>5, <1>7 DEF RowsKept
<1>9. RowsStand'
  <2>1. \A k \in Tokens : session[k] # None => session[k].user \in Identities
          /\ account[session[k].user] # None
    BY DEF AccountsInv, Accounts!TypeOK, Accounts!Session, RowsStand
  <2>2. QED
    BY <1>1, <1>5, <1>7, <2>1 DEF AccountsInv, RowsStand
<1>10. StoreFits'
  BY <1>1, <1>7, <1>9, BudgetRests DEF StoreFits, AccountsInv, Accounts!TypeOK
<1>11. QED
  BY <1>1, <1>8, <1>10, ElsewhereStep

LEMMA ExpireStep == ASSUME AccountsInv, NEW token \in Tokens, Accounts!Expire(token)
  PROVE AccountsInv'
<1>1. /\ session[token] # None /\ session' = [session EXCEPT ![token].live = FALSE]
      /\ calls' = Accounts!ServerChanged /\ behind' = [t \in Tabs |-> TRUE]
      /\ UNCHANGED <<account, cookie, page, budget>>
  BY DEF Accounts!Expire
<1>2. session \in [Tokens -> Accounts!Session \cup {None}] /\ session[token] \in Accounts!Session
  BY <1>1 DEF AccountsInv, Accounts!TypeOK
<1>3. PICK s : s = [session[token] EXCEPT !.live = FALSE]
  OBVIOUS
<1>4. s \in Accounts!Session /\ s.user = session[token].user
  BY <1>2, <1>3 DEF Accounts!Session
<1>5. s # None
  BY <1>4, NoneIsNone
<1>6. session' = [session EXCEPT ![token] = s]
  BY <1>1, <1>2, <1>3
<1>7. /\ session' \in [Tokens -> Accounts!Session \cup {None}] /\ session'[token] = s
      /\ \A k \in Tokens : k # token => session'[k] = session[k]
  BY <1>2, <1>4, <1>6
<1>8. RowsKept
  BY <1>1, <1>5, <1>7 DEF RowsKept
<1>9. RowsStand'
  BY <1>1, <1>4, <1>5, <1>7 DEF AccountsInv, Accounts!TypeOK, RowsStand
<1>10. StoreFits'
  BY <1>1, <1>7, <1>9, BudgetRests DEF StoreFits, AccountsInv, Accounts!TypeOK
<1>11. QED
  BY <1>1, <1>8, <1>10, ElsewhereStep

LEMMA FormAnsweredStep == ASSUME AccountsInv, NEW t \in Tabs, Accounts!FormAnswered(t)
  PROVE AccountsInv'
<1>1. PICK c : c = calls[t]["form"]
  OBVIOUS
<1>2. PICK p : p = [known |-> "known", shown |-> c.answer.value, error |-> FALSE]
  OBVIOUS
<1>3. PICK f : f = Accounts!CookieChanged
  OBVIOUS
<1>4. PICK b \in BOOLEAN : b = (c.op # "logout" /\ c.outdated)
  OBVIOUS
<1>5. /\ c # None /\ c.answer # None /\ c.answer.status = "ok" /\ "form" \in Accounts!Kinds
      /\ cookie' = IF c.op = "logout" THEN None ELSE c.token
      /\ page' = [page EXCEPT ![t] = p] /\ behind' = [Accounts!OthersBehind(t) EXCEPT ![t] = b]
      /\ calls' = [f EXCEPT ![t]["form"] = None] /\ UNCHANGED <<account, session, budget>>
  BY <1>1, <1>2, <1>3, <1>4 DEF Accounts!FormAnswered, Accounts!Answered, Accounts!Shows,
     Accounts!Done, Accounts!Kinds
<1>6. c \in Accounts!Call /\ CallFits(c, "form") /\ CallOK(c, "form")
  BY <1>1, <1>5, UnderWay
<1>7. FormFits(c) /\ c.token \in Tokens \cup {None}
  BY <1>6, CallFields DEF CallOK
<1>8. cookie' \in Tokens \cup {None} /\ (cookie' # None => session[cookie'] # None)
  BY <1>5, <1>7 DEF FormFits
<1>9. StoreFits' /\ RowsGrow /\ RowsKept
  <2>1. StoreFits'
    BY <1>5, <1>8, BudgetRests DEF StoreFits, AccountsInv, Accounts!TypeOK, RowsStand
  <2>2. RowsGrow
    BY <1>5 DEF RowsGrow
  <2>3. QED
    BY <2>1, <2>2, GrowingKeeps
<1>10. c.answer.value \in Accounts!Shown
  <2>1. Accounts!Nobody \in Accounts!Shown
    BY DEF Accounts!Nobody, Accounts!Shown
  <2>2. QED
    BY <1>5, <1>7, <2>1 DEF FormFits
<1>11. ~b => c.answer.value = Reader'
  <2>1. CASE c.op = "logout"
    <3>1. cookie' = None /\ c.answer.value = Accounts!Nobody
      BY <1>5, <1>7, <2>1 DEF FormFits
    <3>2. Reader' = Accounts!Nobody
      BY <3>1 DEF Reader, Accounts!ShownOf, Accounts!UserOf
    <3>3. QED
      BY <3>1, <3>2
  <2>2. CASE c.op # "logout"
    <3>1. ASSUME ~b PROVE c.answer.value = Reader'
      <4>1. c.answer.value = Accounts!ShownOf(Accounts!UserOf(c.token)) /\ cookie' = c.token
        BY <1>4, <1>5, <1>7, <2>2, <3>1 DEF FormFits
      <4>2. Reader' = Accounts!ShownOf(Accounts!UserOf(c.token))
        BY <1>5, <4>1 DEF Reader, Accounts!ShownOf, Accounts!UserOf
      <4>3. QED
        BY <4>1, <4>2
    <3>2. QED
      BY <3>1
  <2>3. QED
    BY <2>1, <2>2
<1>12. p \in Accounts!Page /\ p.known = "known" /\ p.shown = c.answer.value
  BY <1>2, <1>10 DEF Accounts!Page
<1>13. \A u \in Tabs, k \in Accounts!Kinds : f[u][k] \in Accounts!Call \cup {None}
         /\ (calls[u][k] = None => f[u][k] = None)
  BY <1>3, <1>9, CookieCall
<1>14. f \in [Tabs -> [Accounts!Kinds -> Accounts!Call \cup {None}]]
  <2>1. \A u \in Tabs : f[u] = [k \in Accounts!Kinds |-> f[u][k]]
    BY <1>3 DEF Accounts!CookieChanged
  <2>2. \A u \in Tabs : f[u] \in [Accounts!Kinds -> Accounts!Call \cup {None}]
    BY <1>13, <2>1
  <2>3. QED
    BY <1>3, <2>2 DEF Accounts!CookieChanged
<1>15. /\ calls' \in [Tabs -> [Accounts!Kinds -> Accounts!Call \cup {None}]]
       /\ calls'[t]["form"] = None
       /\ \A u \in Tabs, k \in Accounts!Kinds : ~(u = t /\ k = "form") => calls'[u][k] = f[u][k]
  <2>1. PICK g : g = [f[t] EXCEPT !["form"] = None]
    OBVIOUS
  <2>2. f[t] \in [Accounts!Kinds -> Accounts!Call \cup {None}]
    BY <1>14
  <2>3. g \in [Accounts!Kinds -> Accounts!Call \cup {None}] /\ g["form"] = None
          /\ \A k \in Accounts!Kinds : k # "form" => g[k] = f[t][k]
    BY <1>5, <2>1, <2>2
  <2>4. calls' = [f EXCEPT ![t] = g]
    BY <1>5, <2>1
  <2>5. calls' \in [Tabs -> [Accounts!Kinds -> Accounts!Call \cup {None}]] /\ calls'[t] = g
    BY <1>14, <2>3, <2>4
  <2>6. \A u \in Tabs : u # t => calls'[u] = f[u]
    BY <1>14, <2>4
  <2>7. QED
    BY <2>3, <2>5, <2>6
<1>16. ASSUME NEW u \in Tabs, NEW k \in Accounts!Kinds PROVE CallOK(calls[u][k], k)'
  <2>1. CASE u = t /\ k = "form"
    BY <1>15, <2>1 DEF CallOK
  <2>2. CASE ~(u = t /\ k = "form")
    <3>1. PICK d : d = Accounts!CookieChanged[u][k]
      OBVIOUS
    <3>2. CallOK(d, k)'
      BY <1>9, <3>1, CookieCall
    <3>3. calls'[u][k] = d
      BY <1>3, <1>15, <2>2, <3>1
    <3>4. QED
      BY <3>2, <3>3 DEF CallOK, CallFits, SessionFits, FormFits, OnboardFits, ProfileFits, Truthful
  <2>3. QED
    BY <2>1, <2>2
<1>17. \A u \in Tabs, k \in Accounts!Kinds : u # t /\ calls[u][k] = None => calls'[u][k] = None
  BY <1>13, <1>15
<1>18. page \in [Tabs -> Accounts!Page] /\ behind \in [Tabs -> BOOLEAN]
  BY DEF AccountsInv, Accounts!TypeOK
<1>19. /\ page' \in [Tabs -> Accounts!Page] /\ page'[t] = p
       /\ behind' \in [Tabs -> BOOLEAN] /\ behind'[t] = b
       /\ \A u \in Tabs : u # t => page'[u] = page[u] /\ behind'[u]
  BY <1>5, <1>12, <1>18 DEF Accounts!OthersBehind
<1>20. Opens(t)' /\ PageFits(t)'
  BY <1>11, <1>12, <1>19 DEF Opens, PageFits
<1>21. QED
  BY <1>9, <1>15, <1>16, <1>17, <1>19, <1>20, ManyCalls

LEMMA RestsSo ==
  ASSUME AccountsInv, UNCHANGED Accounts!vars
  PROVE  AccountsInv'
<1>1. Accounts!TypeOK' /\ RowsStand'
  <2>1. Accounts!TypeOK'
    BY DEF Accounts!vars, AccountsInv, Accounts!TypeOK
  <2>2. RowsStand'
    BY DEF Accounts!vars, AccountsInv, RowsStand
  <2>3. QED
    BY <2>1, <2>2
<1>2. UNCHANGED <<account, session, cookie, page, calls, behind>> /\ RowsGrow /\ Accounts!TypeOK
        /\ RowsStand
  BY DEF Accounts!vars, RowsGrow, AccountsInv
<1>3. ASSUME NEW t \in Tabs, NEW k \in Accounts!Kinds PROVE CallOK(calls[t][k], k)'
  <2>1. PICK c \in Accounts!Call \cup {None} : c = calls[t][k]
    BY <1>2, CallIs
  <2>2. CallOK(c, k) /\ calls'[t][k] = c
    BY <1>2, <2>1 DEF AccountsInv, CallsFit
  <2>3. CallOK(c, k)'
    BY <1>2, <2>2, GrowingKeeps, CallStays
  <2>4. QED
    BY <2>2, <2>3 DEF CallOK, CallFits, SessionFits, FormFits, OnboardFits, ProfileFits, Truthful
<1>4. \A t \in Tabs : CallsFit(t)'
  BY <1>3 DEF CallsFit
<1>5. \A t \in Tabs : Opens(t)' /\ PageFits(t)'
  BY <1>2, ReaderStays DEF AccountsInv, Opens, PageFits
<1>6. QED
  BY <1>1, <1>4, <1>5 DEF AccountsInv

LEMMA GoogleLoginStep ==
  ASSUME AccountsInv, NEW t \in Tabs, NEW i \in Identities, Accounts!GoogleLogin(t, i)
  PROVE  AccountsInv'
<1>1. PICK a : a = Accounts!Upserted(i)
  OBVIOUS
<1>2. /\ account' = [account EXCEPT ![i] = a] /\ UNCHANGED budget
      /\ IF a.disabled
         THEN UNCHANGED <<session, cookie, page, calls, behind>>
         ELSE \E token \in Tokens :
                /\ session[token] = None
                /\ session' = [session EXCEPT ![token] = [user |-> i, live |-> TRUE]]
                /\ Accounts!ComesBack(t, token)
  BY <1>1 DEF Accounts!GoogleLogin, Accounts!UpsertIdentity
<1>3. /\ a \in Accounts!Account /\ (account[i] # None => account[i] = a)
      /\ a.disabled => [account EXCEPT ![i] = a] = account
  BY <1>1, UpsertedIs
<1>4. CASE a.disabled
  <2>1. UNCHANGED Accounts!vars
    BY <1>2, <1>3, <1>4 DEF Accounts!vars
  <2>2. QED
    BY <2>1, RestsSo
<1>5. CASE ~a.disabled
  <2>1. PICK token \in Tokens :
          /\ session[token] = None
          /\ session' = [session EXCEPT ![token] = [user |-> i, live |-> TRUE]]
          /\ Accounts!ComesBack(t, token)
    BY <1>2, <1>5
  <2>2. PICK f : f = Accounts!CookieChanged
    OBVIOUS
  <2>3. PICK p : p = [known |-> "closed", shown |-> Accounts!Nobody, error |-> FALSE]
    OBVIOUS
  <2>4. /\ cookie' = token /\ calls' = [f EXCEPT ![t] = [k \in Accounts!Kinds |-> None]]
        /\ behind' = [Accounts!OthersBehind(t) EXCEPT ![t] = FALSE]
        /\ page' = [page EXCEPT ![t] = p]
    BY <2>1, <2>2, <2>3 DEF Accounts!ComesBack
  <2>5. StoreFits' /\ RowsGrow
    BY <1>2, <1>3, <2>1, <2>4, GrowsBy
  <2>6. RowsKept
    BY <2>5, GrowingKeeps
  <2>7. \A u \in Tabs, k \in Accounts!Kinds : f[u][k] \in Accounts!Call \cup {None}
          /\ (calls[u][k] = None => f[u][k] = None)
    BY <2>2, <2>6, CookieCall
  <2>8. f \in [Tabs -> [Accounts!Kinds -> Accounts!Call \cup {None}]]
    <3>1. \A u \in Tabs : f[u] = [k \in Accounts!Kinds |-> f[u][k]]
      BY <2>2 DEF Accounts!CookieChanged
    <3>2. \A u \in Tabs : f[u] \in [Accounts!Kinds -> Accounts!Call \cup {None}]
      BY <2>7, <3>1
    <3>3. QED
      BY <2>2, <3>2 DEF Accounts!CookieChanged
  <2>9. /\ calls' \in [Tabs -> [Accounts!Kinds -> Accounts!Call \cup {None}]]
             /\ \A k \in Accounts!Kinds : calls'[t][k] = None
        /\ \A u \in Tabs : u # t => calls'[u] = f[u]
    BY <2>4, <2>8
  <2>10. ASSUME NEW u \in Tabs, NEW k \in Accounts!Kinds PROVE CallOK(calls[u][k], k)'
    <3>1. CASE u = t
      BY <2>9, <3>1 DEF CallOK
    <3>2. CASE u # t
      <4>1. PICK d : d = Accounts!CookieChanged[u][k]
        OBVIOUS
      <4>2. CallOK(d, k)'
        BY <2>6, <4>1, CookieCall
      <4>3. calls'[u][k] = d
        BY <2>2, <2>9, <3>2, <4>1
      <4>4. QED
        BY <4>2, <4>3 DEF CallOK, CallFits, SessionFits, FormFits, OnboardFits, ProfileFits,
           Truthful
    <3>3. QED
      BY <3>1, <3>2
  <2>11. \A u \in Tabs, k \in Accounts!Kinds : u # t /\ calls[u][k] = None => calls'[u][k] = None
    BY <2>7, <2>9
  <2>12. page \in [Tabs -> Accounts!Page] /\ behind \in [Tabs -> BOOLEAN]
    BY DEF AccountsInv, Accounts!TypeOK
  <2>13. p \in Accounts!Page /\ p.known = "closed" /\ p.shown = Accounts!Nobody
    BY <2>3 DEF Accounts!Page, Accounts!Shown, Accounts!Nobody
  <2>14. /\ page' \in [Tabs -> Accounts!Page] /\ page'[t] = p
         /\ behind' \in [Tabs -> BOOLEAN]
         /\ \A u \in Tabs : u # t => page'[u] = page[u] /\ behind'[u]
    BY <2>4, <2>12, <2>13 DEF Accounts!OthersBehind
  <2>15. Opens(t)' /\ PageFits(t)'
    BY <2>9, <2>13, <2>14 DEF Opens, PageFits, Accounts!Kinds, Accounts!Nobody
  <2>16. QED
    BY <2>5, <2>9, <2>10, <2>11, <2>14, <2>15, ManyCalls
<1>6. QED
  BY <1>4, <1>5

LEMMA AccountsInvInit == Accounts!Init => AccountsInv
<1> SUFFICES ASSUME Accounts!Init PROVE AccountsInv
  OBVIOUS
<1>1. Accounts!TypeOK
  BY AccountsAssumption DEF Accounts!Init, Accounts!TypeOK, Accounts!Page, Accounts!Shown,
     Accounts!Nobody
<1>2. RowsStand
  BY DEF Accounts!Init, RowsStand
<1>3. \A t \in Tabs : CallsFit(t) /\ Opens(t) /\ PageFits(t)
  BY DEF Accounts!Init, CallsFit, CallOK, Opens, PageFits, Accounts!Kinds
<1>4. QED
  BY <1>1, <1>2, <1>3 DEF AccountsInv

LEMMA AccountsInvStep == ASSUME AccountsInv, [Accounts!Next]_(Accounts!vars) PROVE AccountsInv'
<1>1. CASE UNCHANGED Accounts!vars
  BY <1>1, RestsSo
<1>2. ASSUME NEW t \in Tabs,
             \/ Accounts!OpenPage(t) \/ Accounts!Refetch(t) \/ Accounts!Logout(t)
                  \/ Accounts!AskProfile(t)
             \/ \E op \in Accounts!Forms \ {"logout"},
                  i \in Identities : Accounts!SubmitForm(t, op, i)
             \/ \E input \in Inputs : Accounts!Onboard(t, input)
             \/ \E i \in Identities : Accounts!GoogleLogin(t, i)
      PROVE  AccountsInv'
  BY <1>2, OpenPageStep, SendSteps, GoogleLoginStep
<1>3. ASSUME NEW t \in Tabs,
             \/ Accounts!ServeSession(t) \/ Accounts!Register(t) \/ Accounts!RegisterAgain(t)
                  \/ Accounts!Login(t) \/ Accounts!LoginRefused(t)
             \/ Accounts!DevelopmentLogin(t) \/ Accounts!ServeLogout(t)
                  \/ Accounts!Authenticate(t) \/ Accounts!CompleteOnboarding(t)
                  \/ Accounts!OnboardAgain(t) \/ Accounts!OnboardRefused(t)
             \/ Accounts!Unauthenticated(t, "onboard", "onboard")
                  \/ Accounts!Unauthenticated(t, "profile", "user")
             \/ Accounts!ReadUser(t) \/ Accounts!ReadVersion(t)
      PROVE  AccountsInv'
  BY <1>3, ServeSessionStep, RegisterStep, RefusalSteps, LoginStep, DevelopmentLoginStep,
     ServeLogoutStep,
     AuthenticateStep, CompleteOnboardingStep, OnboardAgainStep, OnboardRefusedStep,
     UnauthenticatedStep, ReadUserStep, ReadVersionStep
<1>4. ASSUME NEW t \in Tabs,
             \/ Accounts!SessionAnswered(t) \/ Accounts!FormAnswered(t)
                  \/ Accounts!OnboardAnswered(t)
             \/ \E kind \in Accounts!Kinds : Accounts!TurnedAway(t, kind)
                  \/ Accounts!AnsweredOnly(t, kind) \/ Accounts!RequestFails(t, kind)
      PROVE  AccountsInv'
  BY <1>4, SessionAnsweredStep, FormAnsweredStep, OnboardAnsweredStep, TurnedAwayStep,
     AnsweredOnlyStep,
     RequestFailsStep
<1>5. ASSUME NEW i \in Identities, Accounts!Disable(i) PROVE AccountsInv'
  BY <1>5, DisableStep
<1>6. ASSUME NEW token \in Tokens, Accounts!Expire(token) PROVE AccountsInv'
  BY <1>6, ExpireStep
<1>7. QED
  BY <1>1, <1>2, <1>3, <1>4, <1>5, <1>6 DEF Accounts!Next

\* What the tabs are told follows.
LEMMA AccountsAgree == ASSUME AccountsInv PROVE Accounts!AccountIsAgreed
<1>1. Accounts!PageKnowsReader
  <2>1. SUFFICES ASSUME NEW t \in Tabs, page[t].known = "known", ~page[t].error, ~behind[t],
                        \A k \in Accounts!Kinds : calls[t][k] = None
                 PROVE  page[t].shown = Reader
    BY DEF Accounts!PageKnowsReader, Reader
  <2>2. calls[t]["form"] = None /\ calls[t]["onboard"] = None
    BY <2>1 DEF Accounts!Kinds
  <2>3. QED
    BY <2>1, <2>2 DEF AccountsInv, PageFits
<1>2. ASSUME NEW t \in Tabs
      PROVE Accounts!ToldWhatStands(t, "onboard") /\ Accounts!ToldWhatStands(t, "profile")
  <2>1. "onboard" \in Accounts!Kinds /\ "profile" \in Accounts!Kinds
    BY DEF Accounts!Kinds
  <2>2. ASSUME calls[t]["onboard"] # None PROVE OnboardFits(calls[t]["onboard"])
    BY <2>1, <2>2, UnderWay, CallFields DEF CallOK
  <2>3. ASSUME calls[t]["profile"] # None PROVE ProfileFits(calls[t]["profile"])
    BY <2>1, <2>3, UnderWay, CallFields DEF CallOK
  <2>4. Accounts!ToldWhatStands(t, "onboard")
    BY <2>2 DEF Accounts!ToldWhatStands, OnboardFits
  <2>5. Accounts!ToldWhatStands(t, "profile")
    BY <2>3 DEF Accounts!ToldWhatStands, ProfileFits
  <2>6. QED
    BY <2>4, <2>5
<1>3. QED
  BY <1>1, <1>2 DEF Accounts!AccountIsAgreed

(***************************************************************************)
(* A question of the onboarding                                            *)
(***************************************************************************)

\* Questionnaire counts as this module does.
LEMMA SameCount == ASSUME NEW S PROVE Question!Cardinality(S) = Cardinality(S)
BY DEF Question!Cardinality, Cardinality

\* The numbers below one of a set.
Below(numbers, x) == {y \in numbers : y < x}

LEMMA BelowIs ==
  ASSUME NEW N \in SUBSET Nat, IsFiniteSet(N), NEW x \in N, NEW z \in N
  PROVE  /\ Cardinality(Below(N, x)) + 1 \in 1..Cardinality(N)
         /\ Cardinality(Below(N, x)) \in Nat
         /\ Cardinality(Below(N, x)) = Cardinality(Below(N, z)) => x = z
<1>1. \A y \in N : Below(N, y) \in SUBSET N /\ y \notin Below(N, y)
  BY DEF Below
<1>2. Cardinality(N) \in Nat
  BY FS_CardinalityType
<1>3. \A y \in N : IsFiniteSet(Below(N, y)) /\ Cardinality(Below(N, y)) \in Nat
                   /\ Cardinality(Below(N, y)) < Cardinality(N)
  <2>1. TAKE y \in N
  <2>2. IsFiniteSet(Below(N, y)) /\ Cardinality(Below(N, y)) <= Cardinality(N)
        /\ (Cardinality(Below(N, y)) = Cardinality(N) => Below(N, y) = N)
    BY <1>1, FS_Subset
  <2>3. Cardinality(Below(N, y)) \in Nat
    BY <2>2, FS_CardinalityType
  <2>4. Cardinality(Below(N, y)) # Cardinality(N)
    BY <1>1, <2>2
  <2>5. QED
    BY <1>2, <2>2, <2>3, <2>4
<1>4. ASSUME NEW k \in N, NEW m \in N, k < m
      PROVE  Cardinality(Below(N, k)) < Cardinality(Below(N, m))
  <2>1. Below(N, k) \in SUBSET Below(N, m)
    <3>1. \A y \in N : y < k => y < m
      <4>1. TAKE y \in N
      <4>2. y \in Int /\ k \in Int /\ m \in Int
        OBVIOUS
      <4>3. QED
        BY <1>4, <4>2
    <3>2. QED
      BY <3>1 DEF Below
  <2>2. Cardinality(Below(N, k)) <= Cardinality(Below(N, m))
        /\ (Cardinality(Below(N, m)) = Cardinality(Below(N, k)) => Below(N, m) = Below(N, k))
    BY <1>3, <2>1, FS_Subset
  <2>3. Below(N, m) # Below(N, k)
    BY <1>1, <1>4 DEF Below
  <2>4. QED
    BY <1>3, <2>2, <2>3
<1>5. x # z => x < z \/ z < x
  OBVIOUS
<1>6. x # z => Cardinality(Below(N, x)) # Cardinality(Below(N, z))
  <2>1. Cardinality(Below(N, x)) \in Nat /\ Cardinality(Below(N, z)) \in Nat
    BY <1>3
  <2>2. x # z => \/ Cardinality(Below(N, x)) < Cardinality(Below(N, z))
                 \/ Cardinality(Below(N, z)) < Cardinality(Below(N, x))
    BY <1>4, <1>5
  <2>3. QED
    BY <2>1, <2>2
<1>7. Cardinality(Below(N, x)) + 1 \in 1..Cardinality(N)
  BY <1>2, <1>3
<1>8. QED
  BY <1>3, <1>6, <1>7

\* Every number of the set, each once.
LEMMA AscendingIs ==
  ASSUME NEW N \in SUBSET Nat, IsFiniteSet(N)
  PROVE  /\ Cardinality(N) \in Nat
         /\ Question!Ascending(N) \in [1..Cardinality(N) -> N]
         /\ \A i, j \in 1..Cardinality(N) : Question!Ascending(N)[i] = Question!Ascending(N)[j] =>
              i = j
         /\ \A x \in N : \E i \in 1..Cardinality(N) : Question!Ascending(N)[i] = x
<1> DEFINE D == 1..Cardinality(N)
           f == [x \in N |-> Cardinality(Below(N, x)) + 1]
<1>1. Cardinality(N) \in Nat
  BY FS_CardinalityType
<1>2. f \in [N -> D]
  BY BelowIs
<1>3. \A x, z \in N : f[x] = f[z] => x = z
  <2>1. TAKE x, z \in N
  <2>2. Cardinality(Below(N, x)) \in Nat /\ Cardinality(Below(N, z)) \in Nat
    BY BelowIs
  <2>3. f[x] = f[z] => Cardinality(Below(N, x)) = Cardinality(Below(N, z))
    BY <2>2
  <2>4. QED
    BY <2>3, BelowIs
<1>4. f \in Injection(N, D)
  BY <1>2, <1>3 DEF Injection, IsInjective
<1>5. IsFiniteSet(D) /\ Cardinality(D) = Cardinality(N)
  <2>1. PICK c \in Nat : c = Cardinality(N)
    BY <1>1
  <2>2. IsFiniteSet(1..c) /\ Cardinality(1..c) = IF 1 > c THEN 0 ELSE c - 1 + 1
    BY FS_Interval
  <2>3. Cardinality(1..c) = c
    BY <2>2
  <2>4. QED
    BY <2>1, <2>2, <2>3
<1>6. f \in Surjection(N, D)
  BY <1>4, <1>5, FS_Injection
<1>7. \A n \in D : \E x \in N : Cardinality(Below(N, x)) = n - 1
  <2>1. TAKE n \in D
  <2>2. PICK x \in N : f[x] = n
    BY <1>6 DEF Surjection
  <2>3. Cardinality(Below(N, x)) \in Nat /\ Cardinality(Below(N, x)) + 1 = n
    BY <2>2, BelowIs
  <2>4. QED
    BY <2>3
<1>8. Question!Ascending(N) = [n \in D |-> CHOOSE x \in N : Cardinality(Below(N, x)) = n - 1]
  BY DEF Question!Ascending, Below, Question!Cardinality, Cardinality
<1>9. PICK a : a = Question!Ascending(N)
  OBVIOUS
<1>10. \A n \in D : a[n] \in N /\ Cardinality(Below(N, a[n])) = n - 1
  BY <1>7, <1>8, <1>9
<1>11. a \in [D -> N]
  BY <1>8, <1>9, <1>10
<1>12. \A i, j \in D : a[i] = a[j] => i = j
  <2>1. TAKE i, j \in D
  <2>2. i \in Int /\ j \in Int
    BY <1>1
  <2>3. a[i] = a[j] => i - 1 = j - 1
    BY <1>10
  <2>4. QED
    BY <2>2, <2>3
<1>13. \A x \in N : \E i \in D : a[i] = x
  <2>1. TAKE x \in N
  <2>2. PICK i \in D : i = Cardinality(Below(N, x)) + 1
    BY BelowIs
  <2>3. i - 1 = Cardinality(Below(N, x))
    BY <2>2, BelowIs
  <2>4. a[i] \in N /\ Cardinality(Below(N, a[i])) = Cardinality(Below(N, x))
    BY <1>10, <2>3
  <2>5. a[i] = x
    BY <2>4, BelowIs
  <2>6. QED
    BY <2>5
<1>14. QED
  BY <1>1, <1>9, <1>11, <1>12, <1>13

\* What a sequence without repetition holds, and how much that is.
Elements(s) == {s[i] : i \in 1..Len(s)}
Once(s) == \A i, j \in 1..Len(s) : s[i] = s[j] => i = j

LEMMA ElementsOnce ==
  ASSUME NEW s \in Seq(Options)
  PROVE  /\ Len(s) \in Nat /\ DOMAIN s = 1..Len(s) /\ s \in [1..Len(s) -> Options]
         /\ Elements(s) \in SUBSET Options /\ IsFiniteSet(Elements(s))
         /\ Cardinality(Elements(s)) <= Len(s)
         /\ Once(s) => Cardinality(Elements(s)) = Len(s)
<1>1. Len(s) \in Nat /\ DOMAIN s = 1..Len(s) /\ s \in [1..Len(s) -> Options]
  BY LenProperties
<1>2. IsFiniteSet(1..Len(s)) /\ Cardinality(1..Len(s)) = Len(s)
  <2>1. PICK c \in Nat : c = Len(s)
    BY <1>1
  <2>2. IsFiniteSet(1..c) /\ Cardinality(1..c) = IF 1 > c THEN 0 ELSE c - 1 + 1
    BY FS_Interval
  <2>3. Cardinality(1..c) = c
    BY <2>2
  <2>4. QED
    BY <2>1, <2>2, <2>3
<1>3. s \in [1..Len(s) -> Elements(s)] /\ \A x \in Elements(s) : \E i \in 1..Len(s) : s[i] = x
  BY <1>1 DEF Elements
<1>4. s \in Surjection(1..Len(s), Elements(s))
  BY <1>3 DEF Surjection
<1>5. /\ IsFiniteSet(Elements(s)) /\ Cardinality(Elements(s)) <= Cardinality(1..Len(s))
      /\ Cardinality(Elements(s)) = Cardinality(1..Len(s)) <=>
           s \in Injection(1..Len(s), Elements(s))
  BY <1>2, <1>4, FS_Surjection
<1>6. Once(s) => s \in Injection(1..Len(s), Elements(s))
  BY <1>1, <1>3 DEF Once, Injection, IsInjective
<1>7. Elements(s) \in SUBSET Options
  BY <1>1 DEF Elements
<1>8. QED
  BY <1>1, <1>2, <1>5, <1>6, <1>7

LEMMA ChosenIs == ASSUME selected \in Seq(Options) PROVE Question!Chosen = Elements(selected)
BY ElementsOnce DEF Question!Chosen, Question!ToSet, Elements

LEMMA AscendingOf ==
  ASSUME NEW N \in SUBSET Options, IsFiniteSet(N)
  PROVE  /\ Question!Ascending(N) \in Seq(Options) /\ Len(Question!Ascending(N)) = Cardinality(N)
         /\ Elements(Question!Ascending(N)) = N /\ Question!ToSet(Question!Ascending(N)) = N
<1>1. N \in SUBSET Nat
  BY QuestionnaireAssumption
<1>2. PICK a : a = Question!Ascending(N)
  OBVIOUS
<1>3. PICK c : c = Cardinality(N)
  OBVIOUS
<1>4. c \in Nat /\ a \in [1..c -> N] /\ \A x \in N : \E i \in 1..c : a[i] = x
  BY <1>1, <1>2, <1>3, AscendingIs
<1>5. a \in [1..c -> Options]
  BY <1>4
<1>6. a \in Seq(Options)
  BY <1>4, <1>5, SeqDef
<1>7. DOMAIN a = 1..Len(a) /\ DOMAIN a = 1..c /\ Len(a) \in Nat
  BY <1>4, <1>6, LenProperties
<1>8. Len(a) = c
  BY <1>4, <1>7
<1>9. Elements(a) = N
  BY <1>4, <1>8 DEF Elements
<1>10. Question!ToSet(a) = N
  BY <1>7, <1>9 DEF Question!ToSet, Elements
<1>11. QED
  BY <1>2, <1>3, <1>6, <1>8, <1>9, <1>10

LEMMA LengthIs ==
  ASSUME NEW n \in Nat, NEW w \in [1..n -> Options]
  PROVE  Len(w) = n
<1>1. w \in Seq(Options)
  BY SeqDef
<1>2. DOMAIN w = 1..Len(w) /\ DOMAIN w = 1..n /\ Len(w) \in Nat
  BY <1>1, LenProperties
<1>3. QED
  BY <1>2

LEMMA WithoutIs ==
  ASSUME NEW s \in Seq(Options), Once(s), NEW o
  PROVE  /\ Question!Without(s, o) \in Seq(Options) /\ Once(Question!Without(s, o))
         /\ Elements(Question!Without(s, o)) = Elements(s) \ {o}
         /\ Len(Question!Without(s, o)) <= Len(s)
<1> DEFINE K == {i \in 1..Len(s) : s[i] # o}
<1>1. Len(s) \in Nat /\ DOMAIN s = 1..Len(s) /\ s \in [1..Len(s) -> Options]
  BY ElementsOnce
<1>2. K \in SUBSET Nat /\ IsFiniteSet(K) /\ Cardinality(K) <= Len(s)
  <2>1. PICK c \in Nat : c = Len(s)
    BY <1>1
  <2>2. IsFiniteSet(1..c) /\ Cardinality(1..c) = IF 1 > c THEN 0 ELSE c - 1 + 1
    BY FS_Interval
  <2>3. Cardinality(1..c) = c
    BY <2>2
  <2>4. K \in SUBSET (1..c)
    BY <2>1
  <2>5. IsFiniteSet(K) /\ Cardinality(K) <= Cardinality(1..c)
    BY <2>2, <2>4, FS_Subset
  <2>6. QED
    BY <2>1, <2>3, <2>4, <2>5
<1>3. PICK a : a = Question!Ascending(K)
  OBVIOUS
<1>4. PICK c : c = Cardinality(K)
  OBVIOUS
<1>5. /\ c \in Nat /\ a \in [1..c -> K] /\ \A i, j \in 1..c : a[i] = a[j] => i = j
      /\ \A x \in K : \E i \in 1..c : a[i] = x
  BY <1>2, <1>3, <1>4, AscendingIs
<1>6. PICK w : w = [n \in 1..c |-> s[a[n]]]
  OBVIOUS
<1>7. Question!Without(s, o) = w
  <2>1. DOMAIN a = 1..c
    BY <1>5
  <2>2. Question!Without(s, o) = [n \in DOMAIN a |-> s[a[n]]]
    BY <1>1, <1>3 DEF Question!Without
  <2>3. QED
    BY <1>6, <2>1, <2>2
<1>8. \A n \in 1..c : a[n] \in 1..Len(s) /\ s[a[n]] \in Options /\ s[a[n]] # o
  BY <1>1, <1>5
<1>9. w \in [1..c -> Options]
  BY <1>6, <1>8
<1>10. w \in Seq(Options)
  BY <1>5, <1>9, SeqDef
<1>11. Len(w) = c
  BY <1>5, <1>9, LengthIs
<1>12. Once(w)
  <2>1. SUFFICES ASSUME NEW i \in 1..c, NEW j \in 1..c, w[i] = w[j] PROVE i = j
    BY <1>11 DEF Once
  <2>2. s[a[i]] = s[a[j]]
    BY <1>6, <2>1
  <2>3. a[i] = a[j]
    BY <1>8, <2>2 DEF Once
  <2>4. QED
    BY <1>5, <2>3
<1>13. Elements(w) = Elements(s) \ {o}
  <2>1. ASSUME NEW x \in Elements(w) PROVE x \in Elements(s) \ {o}
    BY <1>6, <1>8, <1>11, <2>1 DEF Elements
  <2>2. ASSUME NEW x \in Elements(s) \ {o} PROVE x \in Elements(w)
    <3>1. PICK i \in K : s[i] = x
      BY DEF Elements
    <3>2. PICK n \in 1..c : a[n] = i
      BY <1>5
    <3>3. w[n] = x
      BY <1>6, <3>1, <3>2
    <3>4. QED
      BY <1>11, <3>3 DEF Elements
  <2>3. QED
    BY <2>1, <2>2
<1>14. QED
  BY <1>2, <1>4, <1>7, <1>10, <1>11, <1>12, <1>13

\* What the page holds is a valid answer, or none yet; what is stored is a set of options in its order.
QuestionInv ==
  /\ selected \in Seq(Options) /\ Once(selected) /\ Len(selected) <= MaxChosen
  /\ Exclusive \in Elements(selected) => Len(selected) = 1
  /\ stored = None \/ \E N \in SUBSET Options : IsFiniteSet(N) /\ Cardinality(N) <= MaxChosen
       /\ stored = Question!Ascending(N)
  /\ outcome \in {"none", "accepted", "different"}
  /\ outcome # "none" => (outcome = "accepted" <=> stored = Question!Ascending(Elements(selected)))

LEMMA QuestionInvInit == Question!Init => QuestionInv
<1> SUFFICES ASSUME Question!Init PROVE QuestionInv
  OBVIOUS
<1>1. selected = <<>> /\ stored = None /\ outcome = "none"
  BY DEF Question!Init
<1>2. selected \in Seq(Options) /\ Len(selected) = 0
  BY <1>1, EmptySeq
<1>3. Once(selected) /\ Elements(selected) = {}
  BY <1>2 DEF Once, Elements
<1>4. QED
  BY <1>1, <1>2, <1>3, QuestionnaireAssumption DEF QuestionInv

LEMMA OneOption ==
  ASSUME NEW o \in Options
  PROVE  <<o>> \in Seq(Options) /\ Len(<<o>>) = 1 /\ Once(<<o>>) /\ Elements(<<o>>) = {o}
<1>1. PICK s : s = <<o>>
  OBVIOUS
<1>2. s \in Seq(Options) /\ Len(s) = 1 /\ s[1] = o
  BY <1>1
<1>3. \A i : i \in 1..Len(s) <=> i = 1
  BY <1>2
<1>4. Once(s) /\ Elements(s) = {o}
  BY <1>2, <1>3 DEF Once, Elements
<1>5. QED
  BY <1>1, <1>2, <1>4

LEMMA OneMore ==
  ASSUME NEW s \in Seq(Options), Once(s), NEW o \in Options, o \notin Elements(s)
  PROVE  /\ Append(s, o) \in Seq(Options) /\ Len(Append(s, o)) = Len(s) + 1 /\ Once(Append(s, o))
         /\ Elements(Append(s, o)) = Elements(s) \cup {o}
<1>1. PICK r : r = Append(s, o)
  OBVIOUS
<1>2. PICK n \in Nat : n = Len(s)
  BY LenProperties
<1>3. r \in Seq(Options) /\ Len(r) = n + 1 /\ (\A i \in 1..n : r[i] = s[i]) /\ r[n + 1] = o
  BY <1>1, <1>2, AppendProperties
<1>4. \A i : i \in 1..(n + 1) <=> i \in 1..n \/ i = n + 1
  BY <1>2
<1>5. \A i \in 1..n : s[i] \in Elements(s)
  BY <1>2 DEF Elements
<1>6. Once(r)
  BY <1>2, <1>3, <1>4, <1>5 DEF Once
<1>7. Elements(r) = Elements(s) \cup {o}
  BY <1>2, <1>3, <1>4 DEF Elements
<1>8. QED
  BY <1>1, <1>2, <1>3, <1>6, <1>7

\* An option that is alone.
LEMMA AloneIs ==
  ASSUME NEW s \in Seq(Options), Len(s) = 1, NEW o \in Elements(s)
  PROVE  Elements(s) = {o}
<1>1. \A i : i \in 1..Len(s) <=> i = 1
  OBVIOUS
<1>2. QED
  BY <1>1 DEF Elements

LEMMA ToggleFits ==
  ASSUME QuestionInv, NEW o \in Options, NEW r, r = Question!Toggled(o)
  PROVE  /\ r \in Seq(Options) /\ Once(r) /\ Len(r) <= MaxChosen
         /\ Exclusive \in Elements(r) => Len(r) = 1
<1>1. /\ selected \in Seq(Options) /\ Once(selected) /\ Len(selected) <= MaxChosen
      /\ Exclusive \in Elements(selected) => Len(selected) = 1
      /\ Question!Chosen = Elements(selected) /\ MaxChosen \in Nat \ {0} /\ Exclusive \in Options
      /\ Len(selected) \in Nat
  BY ChosenIs, QuestionnaireAssumption, LenProperties DEF QuestionInv
<1>2. CASE o \in Question!Chosen
  <2>1. r = Question!Without(selected, o)
    BY <1>2 DEF Question!Toggled
  <2>2. r \in Seq(Options) /\ Once(r) /\ Elements(r) = Elements(selected) \ {o}
          /\ Len(r) <= Len(selected)
    BY <1>1, <2>1, WithoutIs
  <2>3. Len(r) \in Nat
    BY <2>2, LenProperties
  <2>4. Exclusive \notin Elements(r)
    BY <1>1, <1>2, <2>2, AloneIs
  <2>5. Len(r) <= MaxChosen
    BY <1>1, <2>2, <2>3
  <2>6. QED
    BY <2>2, <2>4, <2>5
<1>3. CASE o \notin Question!Chosen /\ o = Exclusive
  <2>1. r = <<o>>
    BY <1>3 DEF Question!Toggled
  <2>2. r \in Seq(Options) /\ Len(r) = 1 /\ Once(r)
    BY <2>1, OneOption
  <2>3. QED
    BY <1>1, <2>2
<1>4. CASE o \notin Question!Chosen /\ o # Exclusive
  <2>1. PICK rest : rest = Question!Without(selected, Exclusive)
    OBVIOUS
  <2>2. /\ rest \in Seq(Options) /\ Once(rest) /\ Elements(rest) = Elements(selected) \ {Exclusive}
        /\ Len(rest) <= Len(selected)
    BY <1>1, <2>1, WithoutIs
  <2>3. Len(rest) \in Nat
    BY <2>2, LenProperties
  <2>4. r = IF Len(rest) >= MaxChosen THEN rest ELSE Append(rest, o)
    BY <1>4, <2>1 DEF Question!Toggled
  <2>5. CASE Len(rest) >= MaxChosen
    <3>1. r = rest /\ Len(rest) <= MaxChosen
      BY <1>1, <2>2, <2>3, <2>4, <2>5
    <3>2. QED
      BY <2>2, <3>1
  <2>6. CASE ~(Len(rest) >= MaxChosen)
    <3>1. r = Append(rest, o) /\ Len(rest) + 1 <= MaxChosen
      BY <1>1, <2>3, <2>4, <2>6
    <3>2. /\ r \in Seq(Options) /\ Len(r) = Len(rest) + 1 /\ Once(r)
          /\ Elements(r) = Elements(rest) \cup {o}
      BY <1>1, <1>4, <2>2, <3>1, OneMore
    <3>3. Exclusive \notin Elements(r)
      BY <1>4, <2>2, <3>2
    <3>4. QED
      BY <3>1, <3>2, <3>3
  <2>7. QED
    BY <2>5, <2>6
<1>5. QED
  BY <1>2, <1>3, <1>4

\* Whatever the page holds is a valid answer.
LEMMA HeldIsValid == ASSUME QuestionInv, selected # <<>> PROVE Question!Valid(selected)
<1>1. /\ selected \in Seq(Options) /\ Once(selected) /\ Len(selected) <= MaxChosen
      /\ Exclusive \in Elements(selected) => Len(selected) = 1
      /\ Question!Chosen = Elements(selected) /\ MaxChosen \in Nat \ {0}
      /\ Len(selected) \in Nat /\ DOMAIN selected = 1..Len(selected)
      /\ Elements(selected) \in SUBSET Options
  BY ChosenIs, QuestionnaireAssumption, ElementsOnce DEF QuestionInv
<1>2. Len(selected) # 0
  BY <1>1, EmptySeq
<1>3. Len(selected) \in 1..MaxChosen
  BY <1>1, <1>2
<1>4. Question!IsInjective(selected)
  BY <1>1 DEF Question!IsInjective, Once
<1>5. Question!ToSet(selected) = Elements(selected)
  BY <1>1 DEF Question!Chosen
<1>6. QED
  BY <1>1, <1>3, <1>4, <1>5 DEF Question!Valid

LEMMA SubmitStep == ASSUME QuestionInv, Question!Submit PROVE QuestionInv'
<1>1. Question!Valid(selected)
  BY HeldIsValid DEF Question!Submit
<1>2. PICK N : N = Elements(selected)
  OBVIOUS
<1>3. /\ selected \in Seq(Options) /\ Once(selected) /\ Len(selected) <= MaxChosen
      /\ N \in SUBSET Options /\ IsFiniteSet(N) /\ Cardinality(N) = Len(selected)
      /\ Question!Chosen = N
  BY <1>2, ChosenIs, ElementsOnce DEF QuestionInv
<1>4. PICK a : a = Question!Ascending(N)
  OBVIOUS
<1>5. Question!Normalized(selected) = a
  BY <1>3, <1>4 DEF Question!Normalized, Question!Chosen
<1>6. /\ stored' = IF stored = None THEN a ELSE stored
      /\ outcome' = IF stored' = a THEN "accepted" ELSE "different"
      /\ UNCHANGED selected
  BY <1>1, <1>5 DEF Question!Submit
<1>7. stored' = None \/ \E M \in SUBSET Options : IsFiniteSet(M) /\ Cardinality(M) <= MaxChosen
        /\ stored' = Question!Ascending(M)
  BY <1>3, <1>4, <1>6 DEF QuestionInv
<1>8. outcome' \in {"none", "accepted", "different"} /\ (outcome' = "accepted" <=> stored' = a)
  BY <1>6
<1>9. Question!Ascending(Elements(selected))' = a
  BY <1>2, <1>4, <1>6
<1>10. QED
  BY <1>6, <1>7, <1>8, <1>9 DEF QuestionInv

LEMMA QuestionInvStep == ASSUME QuestionInv, [Question!Next]_(Question!vars) PROVE QuestionInv'
<1>1. CASE Question!Submit
  BY <1>1, SubmitStep
<1>2. CASE Question!Reload
  <2>1. selected' = <<>> /\ outcome' = "none" /\ stored' = stored
    BY <1>2 DEF Question!Reload
  <2>2. PICK e : e = <<>>
    OBVIOUS
  <2>3. e \in Seq(Options) /\ Len(e) = 0
    BY <2>2, EmptySeq
  <2>4. Once(e) /\ Elements(e) = {}
    BY <2>3 DEF Once, Elements
  <2>5. QED
    BY <2>1, <2>2, <2>3, <2>4, QuestionnaireAssumption DEF QuestionInv
<1>3. ASSUME NEW o \in Options, Question!Toggle(o) PROVE QuestionInv'
  <2>1. PICK r : r = Question!Toggled(o)
    OBVIOUS
  <2>2. selected' = r /\ outcome' = "none" /\ stored' = stored
    BY <1>3, <2>1 DEF Question!Toggle
  <2>3. r \in Seq(Options) /\ Once(r) /\ Len(r) <= MaxChosen
          /\ (Exclusive \in Elements(r) => Len(r) = 1)
    BY <2>1, ToggleFits
  <2>4. QED
    BY <2>2, <2>3 DEF QuestionInv
<1>4. CASE UNCHANGED Question!vars
  <2>1. selected' = selected /\ stored' = stored /\ outcome' = outcome
    BY <1>4 DEF Question!vars
  <2>2. QED
    BY <2>1 DEF QuestionInv
<1>5. QED
  BY <1>1, <1>2, <1>3, <1>4 DEF Question!Next

LEMMA QuestionTyped == ASSUME QuestionInv PROVE Question!TypeOK
<1>1. selected \in Seq(Options) /\ Len(selected) <= MaxChosen /\ Len(selected) \in Nat
        /\ MaxChosen \in Nat
  BY LenProperties, QuestionnaireAssumption DEF QuestionInv
<1>2. selected \in Question!BoundedSeq(Options, MaxChosen + 1)
  <2>1. Len(selected) \in 0..(MaxChosen + 1) /\ selected \in [1..Len(selected) -> Options]
    BY <1>1, LenProperties
  <2>2. QED
    BY <2>1 DEF Question!BoundedSeq, Question!SeqOf
<1>3. ASSUME NEW N \in SUBSET Options, IsFiniteSet(N), Cardinality(N) <= MaxChosen
      PROVE  Question!Ascending(N) \in Question!BoundedSeq(Options, MaxChosen)
  <2>1. PICK a : a = Question!Ascending(N)
    OBVIOUS
  <2>2. a \in Seq(Options) /\ Len(a) <= MaxChosen /\ Len(a) \in Nat /\ a \in [1..Len(a) -> Options]
    BY <1>3, <2>1, AscendingOf, LenProperties
  <2>3. Len(a) \in 0..MaxChosen
    BY <1>1, <2>2
  <2>4. a \in Question!BoundedSeq(Options, MaxChosen)
    BY <2>2, <2>3 DEF Question!BoundedSeq, Question!SeqOf
  <2>5. QED
    BY <2>1, <2>4
<1>4. stored \in Question!BoundedSeq(Options, MaxChosen) \cup {None}
  BY <1>3 DEF QuestionInv
<1>5. QED
  BY <1>2, <1>4 DEF QuestionInv, Question!TypeOK

LEMMA QuestionRecognized == ASSUME QuestionInv PROVE Question!ChoiceIsRecognized
<1>1. selected \in Seq(Options) /\ Question!Chosen = Elements(selected)
        /\ IsFiniteSet(Question!Chosen) /\ Question!Chosen \in SUBSET Options
  BY ChosenIs, ElementsOnce DEF QuestionInv
<1>2. SUFFICES ASSUME stored # None, outcome # "none"
               PROVE  (outcome = "accepted") <=> (Question!Chosen = Question!ToSet(stored))
  BY DEF QuestionInv, Question!ChoiceIsRecognized
<1>3. PICK N \in SUBSET Options : IsFiniteSet(N) /\ stored = Question!Ascending(N)
  BY <1>2 DEF QuestionInv
<1>4. Question!ToSet(stored) = N
  BY <1>3, AscendingOf
<1>5. Question!ToSet(Question!Ascending(Question!Chosen)) = Question!Chosen
  BY <1>1, AscendingOf
<1>6. outcome = "accepted" <=> stored = Question!Ascending(Question!Chosen)
  BY <1>1, <1>2 DEF QuestionInv
<1>7. QED
  BY <1>3, <1>4, <1>5, <1>6

(***************************************************************************)
(* The performance log                                                     *)
(***************************************************************************)

LEMMA Sizes == MaxBatch \in Nat \ {0} /\ MaxBuffer \in Nat \ {0} /\ MaxEvents \in Nat
BY PerfAssumption

(***************************************************************************)
(* Events in the order in which they were recorded                         *)
(***************************************************************************)
Ordered(events) == \A i, j \in 1..Len(events) : i < j => events[i].name < events[j].name

LEMMA EventTyped == ASSUME NEW e \in Log!Events
  PROVE e.name \in 1..MaxEvents /\ e.kind \in Log!Kinds
BY DEF Log!Events

LEMMA NamesTyped == ASSUME NEW events \in Seq(Log!Events)
  PROVE Log!Names(events) \subseteq 1..MaxEvents
BY EventTyped DEF Log!Names

\* What is left when the first events are taken or dropped.
LEMMA SuffixProperties ==
  ASSUME NEW events \in Seq(Log!Events), Ordered(events), NEW n \in Nat, n <= Len(events),
         NEW rest, rest = SubSeq(events, n + 1, Len(events))
  PROVE  /\ rest \in Seq(Log!Events) /\ Len(rest) = Len(events) - n /\ Ordered(rest)
         /\ \A i \in 1..Len(rest) : rest[i] = events[n + i]
         /\ Log!Names(rest) = {events[i].name : i \in n + 1..Len(events)}
<1>1. Len(events) \in Nat /\ \A i \in n + 1..Len(events) : events[i] \in Log!Events
  OBVIOUS
<1>2. /\ rest \in Seq(Log!Events) /\ Len(rest) = Len(events) - n
      /\ \A i \in 1..Len(rest) : rest[i] = events[n + i]
  <2>1. /\ rest \in Seq(Log!Events)
        /\ Len(rest) = IF n + 1 <= Len(events) THEN Len(events) - (n + 1) + 1 ELSE 0
        /\ \A i \in 1..Len(events) - (n + 1) + 1 : rest[i] = events[n + 1 + i - 1]
    BY <1>1, SubSeqProperties
  <2>2. QED
    BY <1>1, <2>1
<1>3. Ordered(rest)
  <2> SUFFICES ASSUME NEW i \in 1..Len(rest), NEW j \in 1..Len(rest), i < j
               PROVE  rest[i].name < rest[j].name
    BY DEF Ordered
  <2>1. n + i \in 1..Len(events) /\ n + j \in 1..Len(events) /\ n + i < n + j
    BY <1>1, <1>2
  <2>2. events[n + i].name < events[n + j].name
    BY <2>1 DEF Ordered
  <2>3. QED
    BY <1>2, <2>2
<1>4. Log!Names(rest) = {events[i].name : i \in n + 1..Len(events)}
  <2>1. Log!Names(rest) = {rest[i].name : i \in 1..Len(rest)}
    BY <1>2, LenProperties DEF Log!Names
  <2>2. ASSUME NEW i \in 1..Len(rest)
        PROVE \E k \in n + 1..Len(events) : rest[i].name = events[k].name
    <3>1. n + i \in n + 1..Len(events) /\ rest[i] = events[n + i]
      BY <1>1, <1>2
    <3>2. QED
      BY <3>1
  <2>3. ASSUME NEW k \in n + 1..Len(events)
        PROVE \E i \in 1..Len(rest) : rest[i].name = events[k].name
    <3>1. k - n \in 1..Len(rest) /\ rest[k - n] = events[k]
      BY <1>1, <1>2
    <3>2. QED
      BY <3>1
  <2>4. {rest[i].name : i \in 1..Len(rest)} = {events[i].name : i \in n + 1..Len(events)}
    <3> DEFINE left  == {rest[i].name : i \in 1..Len(rest)}
               right == {events[i].name : i \in n + 1..Len(events)}
    <3>1. ASSUME NEW x \in left PROVE x \in right
      <4>1. PICK i \in 1..Len(rest) : x = rest[i].name
        OBVIOUS
      <4>2. PICK k \in n + 1..Len(events) : rest[i].name = events[k].name
        BY <2>2
      <4>3. QED
        BY <4>1, <4>2
    <3>2. ASSUME NEW x \in right PROVE x \in left
      <4>1. PICK k \in n + 1..Len(events) : x = events[k].name
        OBVIOUS
      <4>2. PICK i \in 1..Len(rest) : rest[i].name = events[k].name
        BY <2>3
      <4>3. QED
        BY <4>1, <4>2
    <3>3. QED
      BY <3>1, <3>2
  <2>5. QED
    BY <2>1, <2>4
<1>5. QED
  BY <1>2, <1>3, <1>4

\* A batch is the first events and the rest the others: no name is in both.
LEMMA TakeAndRest ==
  ASSUME NEW events \in Seq(Log!Events), Ordered(events)
  PROVE  /\ Log!Take(events) \subseteq Log!Events
         /\ Log!Rest(events) \in Seq(Log!Events) /\ Ordered(Log!Rest(events))
         /\ Len(Log!Rest(events)) <= Len(events)
         /\ {e.name : e \in Log!Take(events)} \cup Log!Names(Log!Rest(events)) = Log!Names(events)
         /\ {e.name : e \in Log!Take(events)} \cap Log!Names(Log!Rest(events)) = {}
         /\ \A e, f \in Log!Take(events) : e.name = f.name => e = f
         /\ events # <<>> => Log!Take(events) # {}
<1> DEFINE n == IF Len(events) < MaxBatch THEN Len(events) ELSE MaxBatch
           taken == {e.name : e \in Log!Take(events)}
<1>1. n \in Nat /\ n <= Len(events) /\ 1..Len(events) \cap 1..MaxBatch = 1..n
        /\ (Len(events) # 0 => n # 0)
  BY Sizes
<1>2. Log!Take(events) = {events[i] : i \in 1..n}
  BY <1>1 DEF Log!Take
<1>3. Log!Rest(events) = SubSeq(events, n + 1, Len(events))
  <2>1. CASE Len(events) < MaxBatch
    <3>1. /\ Len(events) < MaxBatch + 1 /\ Len(events) < n + 1
          /\ Len(events) \in Int /\ MaxBatch + 1 \in Int /\ n + 1 \in Int
      BY <2>1, <1>1, Sizes, LenProperties
    <3>2. SubSeq(events, MaxBatch + 1, Len(events)) = <<>>
      BY <3>1, SubSeqEmpty
    <3>3. SubSeq(events, n + 1, Len(events)) = <<>>
      BY <3>1, SubSeqEmpty
    <3>4. QED
      BY <3>2, <3>3 DEF Log!Rest
  <2>2. CASE ~(Len(events) < MaxBatch)
    BY <2>2 DEF Log!Rest
  <2>3. QED
    BY <2>1, <2>2
<1>4. /\ Log!Rest(events) \in Seq(Log!Events) /\ Len(Log!Rest(events)) = Len(events) - n
      /\ Ordered(Log!Rest(events))
      /\ Log!Names(Log!Rest(events)) = {events[i].name : i \in n + 1..Len(events)}
  BY <1>1, <1>3, SuffixProperties
<1>5. taken = {events[i].name : i \in 1..n}
  BY <1>2
<1>6. Log!Names(events) = {events[i].name : i \in 1..Len(events)}
  BY DEF Log!Names
<1>7. taken \cup Log!Names(Log!Rest(events)) = Log!Names(events)
  <2>1. 1..n \cup n + 1..Len(events) = 1..Len(events)
    BY <1>1
  <2>2. QED
    BY <1>4, <1>5, <1>6, <2>1
<1>8. \A i, j \in 1..Len(events) : i # j => events[i].name # events[j].name
  BY EventTyped DEF Ordered
<1>9. taken \cap Log!Names(Log!Rest(events)) = {}
  <2>1. ASSUME NEW i \in 1..n, NEW j \in n + 1..Len(events) PROVE events[i].name # events[j].name
    BY <1>1, <1>8
  <2>2. QED
    BY <1>4, <1>5, <2>1, Zenon
<1>10. \A e, f \in Log!Take(events) : e.name = f.name => e = f
  BY <1>1, <1>2, <1>8
<1>11. Log!Take(events) \subseteq Log!Events
  BY <1>1, <1>2
<1>12. events # <<>> => Log!Take(events) # {}
  <2>1. ASSUME events # <<>> PROVE 1 \in 1..n
    BY <1>1, <2>1, EmptySeq
  <2>2. QED
    BY <1>2, <2>1
<1>13. Len(Log!Rest(events)) <= Len(events)
  BY <1>1, <1>4
<1>14. QED
  BY <1>4, <1>7, <1>9, <1>10, <1>11, <1>12, <1>13

LEMMA KeptProperties ==
  ASSUME NEW events \in Seq(Log!Events), Ordered(events), Len(events) > MaxBuffer
  PROVE  /\ Log!Kept(events) \in Seq(Log!Events) /\ Ordered(Log!Kept(events))
         /\ Len(Log!Kept(events)) = MaxBuffer
         /\ Log!Names(Log!Kept(events)) \subseteq Log!Names(events)
<1> DEFINE n == Len(events) - MaxBuffer
<1>1. n \in Nat /\ n <= Len(events) /\ Log!Kept(events) = SubSeq(events, n + 1, Len(events))
  BY Sizes DEF Log!Kept
<1> HIDE DEF n
<1>2. /\ Log!Kept(events) \in Seq(Log!Events) /\ Len(Log!Kept(events)) = Len(events) - n
      /\ Ordered(Log!Kept(events))
      /\ Log!Names(Log!Kept(events)) = {events[i].name : i \in n + 1..Len(events)}
  BY <1>1, SuffixProperties
<1>3. Log!Names(events) = {events[i].name : i \in 1..Len(events)}
  BY DEF Log!Names
<1>4. n + 1..Len(events) \subseteq 1..Len(events)
  BY <1>1
<1>5. Len(Log!Kept(events)) = MaxBuffer
  BY <1>2, Sizes DEF n
<1>6. QED
  BY <1>2, <1>3, <1>4, <1>5

\* A new event is the last.
LEMMA AppendedProperties ==
  ASSUME NEW events \in Seq(Log!Events), Ordered(events), NEW e \in Log!Events,
         \A x \in Log!Names(events) : x < e.name
  PROVE  /\ Append(events, e) \in Seq(Log!Events) /\ Ordered(Append(events, e))
         /\ Len(Append(events, e)) = Len(events) + 1
         /\ Log!Names(Append(events, e)) = Log!Names(events) \cup {e.name}
<1> DEFINE all == Append(events, e)
<1>1. /\ all \in Seq(Log!Events) /\ Len(all) = Len(events) + 1
      /\ \A i \in 1..Len(events) : all[i] = events[i]
      /\ all[Len(events) + 1] = e
  BY AppendProperties
<1>2. Len(events) \in Nat
  OBVIOUS
<1>3. Log!Names(events) = {events[i].name : i \in 1..Len(events)}
  BY DEF Log!Names
<1>4. Log!Names(all) = {all[i].name : i \in 1..Len(events) + 1}
  BY <1>1, LenProperties DEF Log!Names
<1>5. Log!Names(all) = Log!Names(events) \cup {e.name}
  <2>1. 1..Len(events) + 1 = 1..Len(events) \cup {Len(events) + 1}
    BY <1>2
  <2>2. \A i \in 1..Len(events) : all[i].name = events[i].name
    BY <1>1
  <2>3. QED
    BY <1>1, <1>3, <1>4, <2>1, <2>2
<1>6. Ordered(all)
  <2> SUFFICES ASSUME NEW i \in 1..Len(all), NEW j \in 1..Len(all), i < j
               PROVE  all[i].name < all[j].name
    BY DEF Ordered
  <2>1. i \in 1..Len(events) /\ (j \in 1..Len(events) \/ j = Len(events) + 1)
    BY <1>1, <1>2
  <2>2. events[i].name \in Log!Names(events)
    BY <1>3, <2>1
  <2>3. QED
    BY <1>1, <2>1, <2>2 DEF Ordered
<1>7. QED
  BY <1>1, <1>5, <1>6

(***************************************************************************)
(* Type correctness                                                        *)
(***************************************************************************)
Flushed == {e.name : e \in batch}

\* What a flush has in hand is what it is going to write, and no event is there twice.
BatchInHand ==
  /\ Ordered(buffer)
  /\ \A e, f \in batch : e.name = f.name => e = f
  /\ flushing = "none" <=> batch = {}
  /\ flushing # "none" => flushing = Log!First(batch)

PlacesDisjoint ==
  /\ written \cap dropped = {} /\ written \cap Flushed = {} /\ written \cap Log!Names(buffer) = {}
  /\ dropped \cap Flushed = {} /\ dropped \cap Log!Names(buffer) = {}
  /\ Flushed \cap Log!Names(buffer) = {}

LEMMA AccountedMeans ==
  Log!Accounted <=> written \cup dropped \cup Flushed \cup Log!Names(buffer) = 1..recorded
    /\ PlacesDisjoint
<1> DEFINE places == <<written, dropped, Flushed, Log!Names(buffer)>>
<1>1. UNION {places[i] : i \in 1..4} = written \cup dropped \cup Flushed \cup Log!Names(buffer)
  <2>1. 1..4 = {1, 2, 3, 4}
    OBVIOUS
  <2>2. QED
    BY <2>1
<1>2. (\A i, j \in 1..4 : i # j => places[i] \cap places[j] = {}) <=> PlacesDisjoint
  BY DEF PlacesDisjoint
<1>3. QED
  BY <1>1, <1>2 DEF Log!Accounted, Flushed

PerfInv == Log!TypeOK /\ BatchInHand /\ Log!Accounted /\ Log!Watched

LEMMA PerfInvInit == Log!Init => PerfInv
<1> SUFFICES ASSUME Log!Init PROVE PerfInv
  OBVIOUS
<1>1. buffer = <<>> /\ buffer \in Seq(Log!Events) /\ Len(buffer) = 0
  BY EmptySeq DEF Log!Init
<1>2. Log!Names(buffer) = {} /\ Flushed = {}
  BY <1>1 DEF Log!Init, Log!Names, Flushed
<1>3. Log!TypeOK
  <2>1. recorded \in 0..MaxEvents
    BY Sizes DEF Log!Init
  <2>2. QED
    BY <1>1, <2>1, Zenon DEF Log!Init, Log!TypeOK
<1>4. BatchInHand
  BY <1>1 DEF Log!Init, BatchInHand, Ordered
<1>5. Log!Accounted
  BY <1>2, AccountedMeans DEF Log!Init, PlacesDisjoint
<1>6. Log!Watched
  BY <1>1, Sizes DEF Log!Init, Log!Watched
<1>7. QED
  BY <1>3, <1>4, <1>5, <1>6 DEF PerfInv

(***************************************************************************)
(* Steps                                                                   *)
(***************************************************************************)
\* A batch is taken of these events.
LEMMA StartedFlush ==
  ASSUME NEW events \in Seq(Log!Events), Ordered(events), events # <<>>, Log!StartFlush(events)
  PROVE  /\ buffer' \in Seq(Log!Events) /\ batch' \in SUBSET Log!Events
         /\ Len(buffer') <= Len(events) /\ timer' = FALSE
         /\ flushing' \in Log!Kinds /\ BatchInHand'
         /\ Flushed' \cup Log!Names(buffer)' = Log!Names(events)
         /\ Flushed' \cap Log!Names(buffer)' = {}
<1>1. /\ batch' = Log!Take(events) /\ buffer' = Log!Rest(events)
      /\ flushing' = Log!First(Log!Take(events))
      /\ timer' = FALSE
  BY DEF Log!StartFlush
<1>2. flushing' \in Log!Kinds
  BY <1>1 DEF Log!First, Log!Kinds
<1>3. BatchInHand'
  BY <1>1, <1>2, TakeAndRest DEF BatchInHand, Log!First, Log!Kinds, Ordered
<1>4. Flushed' = {e.name : e \in Log!Take(events)}
        /\ Log!Names(buffer)' = Log!Names(Log!Rest(events))
  BY <1>1 DEF Flushed, Log!Names
<1>5. Flushed' \cup Log!Names(buffer)' = Log!Names(events) /\ Flushed' \cap Log!Names(buffer)' = {}
  BY <1>4, TakeAndRest
<1>6. buffer' \in Seq(Log!Events) /\ batch' \in SUBSET Log!Events /\ Len(buffer') <= Len(events)
  BY <1>1, TakeAndRest
<1>7. QED
  BY <1>1, <1>2, <1>3, <1>5, <1>6

\* The flush that settled leaves these events in the buffer, or begins the next with them.
LEMMA SettledFlush ==
  ASSUME PerfInv, Log!Settled(buffer)
  PROVE  /\ buffer' \in Seq(Log!Events) /\ batch' \in SUBSET Log!Events
         /\ Len(buffer') <= Len(buffer) /\ timer' \in BOOLEAN
         /\ flushing' \in {"none"} \cup Log!Kinds /\ BatchInHand'
         /\ Flushed' \cup Log!Names(buffer)' = Log!Names(buffer)
         /\ Flushed' \cap Log!Names(buffer)' = {}
         /\ closing = "open" /\ buffer' # <<>> => timer' \/ flushing' # "none"
<1>1. buffer \in Seq(Log!Events) /\ Ordered(buffer) /\ timer \in BOOLEAN /\ Len(buffer) \in Nat
  BY LenProperties DEF PerfInv, Log!TypeOK, BatchInHand
<1>2. CASE closing = "open" /\ Len(buffer) >= MaxBatch
  <2>1. buffer # <<>> /\ Log!StartFlush(buffer)
    BY <1>2, Sizes, EmptySeq DEF Log!Settled
  <2>2. QED
    BY <1>1, <2>1, StartedFlush DEF Log!Kinds
<1>3. CASE ~(closing = "open" /\ Len(buffer) >= MaxBatch)
  <2>1. /\ flushing' = "none" /\ batch' = {} /\ buffer' = buffer
        /\ timer' = (timer \/ (closing = "open" /\ buffer # <<>>))
    BY <1>3 DEF Log!Settled
  <2>2. BatchInHand'
    BY <1>1, <2>1 DEF BatchInHand, Ordered
  <2>3. timer' \in BOOLEAN /\ (closing = "open" /\ buffer' # <<>> => timer')
    BY <1>1, <2>1
  <2>4. Flushed' = {} /\ Log!Names(buffer)' = Log!Names(buffer)
    BY <2>1 DEF Flushed, Log!Names
  <2>5. QED
    BY <1>1, <2>1, <2>2, <2>3, <2>4
<1>4. QED
  BY <1>2, <1>3

\* What has to be shown of the state after a step.
LEMMA PerfInvNext ==
  ASSUME Log!TypeOK', BatchInHand', PlacesDisjoint', Log!Watched',
         (written \cup dropped \cup Flushed \cup Log!Names(buffer))' = (1..recorded)'
  PROVE  PerfInv'
<1>1. (Log!Accounted <=> written \cup dropped \cup Flushed \cup Log!Names(buffer) = 1..recorded
        /\ PlacesDisjoint)'
  BY AccountedMeans, PTL
<1>2. QED
  BY <1>1 DEF PerfInv

LEMMA RecordKeeps == ASSUME PerfInv, NEW kind \in Log!Kinds, Log!Record(kind) PROVE PerfInv'
<1> DEFINE e      == [name |-> recorded + 1, kind |-> kind]
           all    == Append(buffer, e)
           events == IF Len(all) > MaxBuffer THEN Log!Kept(all) ELSE all
<1>1. /\ Log!TypeOK /\ BatchInHand /\ Log!Watched /\ PlacesDisjoint
      /\ written \cup dropped \cup Flushed \cup Log!Names(buffer) = 1..recorded
  BY AccountedMeans DEF PerfInv
<1>2. /\ recorded < MaxEvents /\ recorded \in Nat /\ recorded' = recorded + 1 /\ closing = "open"
      /\ closing' = closing /\ written' = written /\ buffer \in Seq(Log!Events) /\ Ordered(buffer)
  BY <1>1 DEF Log!Record, Log!TypeOK, BatchInHand
<1>3. e \in Log!Events /\ e.name = recorded + 1
  BY <1>2, Sizes DEF Log!Events
<1>4. \A x \in Log!Names(buffer) : x < e.name
  BY <1>1, <1>2, <1>3
<1> HIDE DEF e
<1>5. /\ all \in Seq(Log!Events) /\ Ordered(all) /\ Len(all) = Len(buffer) + 1
      /\ Log!Names(all) = Log!Names(buffer) \cup {recorded + 1}
  BY <1>2, <1>3, <1>4, AppendedProperties
<1> HIDE DEF all
<1>6. /\ events \in Seq(Log!Events) /\ Ordered(events) /\ Log!Names(events) \subseteq Log!Names(all)
      /\ Len(events) <= MaxBuffer /\ Len(events) # 0 /\ Len(events) \in Nat
  <2>1. Len(buffer) \in Nat
    BY <1>2, LenProperties
  <2>2. CASE Len(all) > MaxBuffer
    BY <1>5, <2>1, <2>2, KeptProperties, Sizes
  <2>3. CASE ~(Len(all) > MaxBuffer)
    BY <1>5, <2>1, <2>3, Sizes
  <2>4. QED
    BY <2>2, <2>3
<1>7. /\ dropped' = dropped \cup (Log!Names(all) \ Log!Names(events))
      /\ IF flushing = "none" /\ Len(events) >= MaxBatch THEN Log!StartFlush(events)
         ELSE /\ buffer' = events /\ UNCHANGED <<batch, flushing>>
              /\ timer' = (timer \/ Len(events) < MaxBatch)
  BY DEF Log!Record, Log!Enqueue, all, e
<1> HIDE DEF events
<1>8. (1..recorded)' = 1..recorded \cup {recorded + 1} /\ recorded + 1 \notin 1..recorded
  BY <1>2
<1>9. dropped' \subseteq 1..MaxEvents /\ recorded' \in 0..MaxEvents
  <2>1. Log!Names(all) \subseteq 1..MaxEvents
    BY <1>5, NamesTyped
  <2>2. QED
    BY <1>1, <1>2, <1>7, <2>1, Sizes DEF Log!TypeOK
<1>10. CASE flushing = "none" /\ Len(events) >= MaxBatch
  <2>1. Log!StartFlush(events) /\ events # <<>>
    BY <1>6, <1>7, <1>10, EmptySeq
  <2>2. /\ buffer' \in Seq(Log!Events) /\ batch' \in SUBSET Log!Events
        /\ Len(buffer') <= Len(events) /\ timer' = FALSE
        /\ flushing' \in Log!Kinds /\ BatchInHand'
        /\ Flushed' \cup Log!Names(buffer)' = Log!Names(events)
        /\ Flushed' \cap Log!Names(buffer)' = {}
    BY <1>6, <2>1, StartedFlush
  <2>3. Flushed = {}
    BY <1>1, <1>10 DEF BatchInHand, Flushed
  <2>4. Log!TypeOK'
    BY <1>1, <1>2, <1>9, <2>2 DEF Log!TypeOK
  <2>5. Log!Watched'
    BY <1>2, <1>6, <2>2, LenProperties, Sizes DEF Log!Watched, Log!Kinds
  <2>6. /\ (written \cup dropped \cup Flushed \cup Log!Names(buffer))' = (1..recorded)'
        /\ PlacesDisjoint'
    BY <1>1, <1>2, <1>5, <1>6, <1>7, <1>8, <2>2, <2>3 DEF PlacesDisjoint
  <2>7. QED
    BY <2>2, <2>4, <2>5, <2>6, PerfInvNext
<1>11. CASE ~(flushing = "none" /\ Len(events) >= MaxBatch)
  <2>1. /\ buffer' = events /\ batch' = batch /\ flushing' = flushing
        /\ timer' = (timer \/ Len(events) < MaxBatch)
    BY <1>7, <1>11
  <2>2. Flushed' = Flushed /\ Log!Names(buffer)' = Log!Names(events)
    BY <2>1 DEF Flushed, Log!Names
  <2>3. Log!TypeOK'
    BY <1>1, <1>2, <1>6, <1>9, <2>1 DEF Log!TypeOK
  <2>4. BatchInHand'
    BY <1>1, <1>6, <2>1 DEF BatchInHand, Ordered
  <2>5. Log!Watched'
    <3>1. flushing = "none" => Len(events) < MaxBatch
      BY <1>6, <1>11, Sizes
    <3>2. flushing = "none" => timer'
      BY <2>1, <3>1, Zenon
    <3>3. QED
      BY <1>2, <1>6, <2>1, <3>2 DEF Log!Watched
  <2>6. /\ (written \cup dropped \cup Flushed \cup Log!Names(buffer))' = (1..recorded)'
        /\ PlacesDisjoint'
    BY <1>1, <1>2, <1>5, <1>6, <1>7, <1>8, <2>2 DEF PlacesDisjoint
  <2>7. QED
    BY <2>3, <2>4, <2>5, <2>6, PerfInvNext
<1>12. QED
  BY <1>10, <1>11

\* A flush of the buffer, by the timer or by close.
LEMMA FlushKeeps ==
  ASSUME PerfInv, flushing = "none", buffer # <<>>, Log!StartFlush(buffer),
         UNCHANGED <<closing, recorded, written, dropped>>
  PROVE  PerfInv'
<1>1. /\ Log!TypeOK /\ BatchInHand /\ Log!Watched /\ PlacesDisjoint
      /\ written \cup dropped \cup Flushed \cup Log!Names(buffer) = 1..recorded
  BY AccountedMeans DEF PerfInv
<1>2. buffer \in Seq(Log!Events) /\ Ordered(buffer) /\ Flushed = {}
  BY <1>1 DEF Log!TypeOK, BatchInHand, Flushed
<1>3. /\ buffer' \in Seq(Log!Events) /\ batch' \in SUBSET Log!Events
      /\ Len(buffer') <= Len(buffer) /\ timer' = FALSE
      /\ flushing' \in Log!Kinds /\ BatchInHand'
      /\ Flushed' \cup Log!Names(buffer)' = Log!Names(buffer)
      /\ Flushed' \cap Log!Names(buffer)' = {}
  BY <1>2, StartedFlush
<1>4. Log!TypeOK'
  BY <1>1, <1>3 DEF Log!TypeOK
<1>5. Log!Watched'
  BY <1>1, <1>2, <1>3, LenProperties, Sizes DEF Log!Watched, Log!Kinds
<1>6. (written \cup dropped \cup Flushed \cup Log!Names(buffer))' = (1..recorded)'
        /\ PlacesDisjoint'
  BY <1>1, <1>2, <1>3 DEF PlacesDisjoint
<1>7. QED
  BY <1>3, <1>4, <1>5, <1>6, PerfInvNext

\* Where the events are, whatever becomes of the timer and of close.
LEMMA SamePlaces ==
  ASSUME PerfInv, UNCHANGED <<buffer, batch, flushing, recorded, written, dropped>>,
         timer' \in BOOLEAN, closing' \in {"open", "closing", "closed"}
  PROVE  Log!TypeOK' /\ BatchInHand' /\ Log!Accounted'
<1>1. Log!TypeOK /\ BatchInHand /\ Log!Accounted
  BY DEF PerfInv
<1>2. /\ buffer' = buffer /\ batch' = batch /\ flushing' = flushing
      /\ recorded' = recorded /\ written' = written /\ dropped' = dropped
  OBVIOUS
<1>3. Log!TypeOK'
  BY <1>1, <1>2 DEF Log!TypeOK
<1>4. BatchInHand'
  BY <1>1, <1>2, Zenon DEF BatchInHand, Ordered
<1>5. Log!Accounted'
  <2>1. Flushed' = Flushed /\ Log!Names(buffer)' = Log!Names(buffer)
    BY <1>2 DEF Flushed, Log!Names
  <2>2. written \cup dropped \cup Flushed \cup Log!Names(buffer) = 1..recorded /\ PlacesDisjoint
    BY <1>1, AccountedMeans
  <2>3. (written \cup dropped \cup Flushed \cup Log!Names(buffer) = 1..recorded)' /\ PlacesDisjoint'
    BY <1>2, <2>1, <2>2 DEF PlacesDisjoint
  <2>4. (Log!Accounted <=> written \cup dropped \cup Flushed \cup Log!Names(buffer) = 1..recorded
          /\ PlacesDisjoint)'
    BY AccountedMeans, PTL
  <2>5. QED
    BY <2>3, <2>4
<1>6. QED
  BY <1>3, <1>4, <1>5

LEMMA TimerFiresKeeps == ASSUME PerfInv, Log!TimerFires PROVE PerfInv'
<1>1. CASE flushing = "none" /\ buffer # <<>>
  BY <1>1, FlushKeeps DEF Log!TimerFires
<1>2. CASE ~(flushing = "none" /\ buffer # <<>>)
  <2>1. /\ timer' = FALSE /\ buffer' = buffer /\ batch' = batch /\ flushing' = flushing
        /\ UNCHANGED <<closing, recorded, written, dropped>>
    BY <1>2 DEF Log!TimerFires
  <2>2. Log!TypeOK' /\ BatchInHand' /\ Log!Accounted'
    BY <2>1, SamePlaces DEF PerfInv, Log!TypeOK
  <2>3. Log!Watched'
    BY <1>2, <2>1 DEF PerfInv, Log!Watched
  <2>4. QED
    BY <2>2, <2>3 DEF PerfInv
<1>3. QED
  BY <1>1, <1>2

\* The rows under way, and those that wait for them.
LEMMA RowsOfBatch ==
  ASSUME PerfInv, flushing # "none"
  PROVE  /\ batch = Log!Rows("http") \cup Log!Rows("agent") /\ flushing \in Log!Kinds
         /\ flushing = "agent" => Log!Rows("http") = {}
         /\ {e.name : e \in Log!Rows("http")} \cap {e.name : e \in Log!Rows("agent")} = {}
         /\ Flushed = {e.name : e \in Log!Rows("http")} \cup {e.name : e \in Log!Rows("agent")}
<1>1. batch \in SUBSET Log!Events /\ flushing \in Log!Kinds /\ BatchInHand
  BY DEF PerfInv, Log!TypeOK
<1>2. batch = Log!Rows("http") \cup Log!Rows("agent")
  BY <1>1, EventTyped DEF Log!Rows, Log!Kinds
<1>3. flushing = "agent" => Log!Rows("http") = {}
  BY <1>1 DEF BatchInHand, Log!First, Log!Rows
<1>4. {e.name : e \in Log!Rows("http")} \cap {e.name : e \in Log!Rows("agent")} = {}
  BY <1>1 DEF BatchInHand, Log!Rows
<1>5. Flushed = {e.name : e \in Log!Rows("http")} \cup {e.name : e \in Log!Rows("agent")}
  BY <1>2, Zenon DEF Flushed
<1>6. QED
  BY <1>1, <1>2, <1>3, <1>4, <1>5

\* The end of a flush: its events are all in the same place now.
LEMMA SettledKeeps ==
  ASSUME PerfInv, flushing # "none", Log!Settled(buffer), UNCHANGED <<closing, recorded>>,
         written' \cup dropped' = written \cup dropped \cup Flushed,
         written' \cap dropped' = {}
  PROVE  PerfInv'
<1>1. /\ Log!TypeOK /\ BatchInHand /\ Log!Watched /\ PlacesDisjoint
      /\ written \cup dropped \cup Flushed \cup Log!Names(buffer) = 1..recorded
  BY AccountedMeans DEF PerfInv
<1>2. /\ buffer' \in Seq(Log!Events) /\ batch' \in SUBSET Log!Events
      /\ Len(buffer') <= Len(buffer) /\ timer' \in BOOLEAN
      /\ flushing' \in {"none"} \cup Log!Kinds /\ BatchInHand'
      /\ Flushed' \cup Log!Names(buffer)' = Log!Names(buffer)
      /\ Flushed' \cap Log!Names(buffer)' = {}
      /\ closing = "open" /\ buffer' # <<>> => timer' \/ flushing' # "none"
  BY SettledFlush
<1>3. 1..recorded \subseteq 1..MaxEvents
  BY <1>1, Sizes DEF Log!TypeOK
<1>4. Log!TypeOK'
  BY <1>1, <1>2, <1>3 DEF Log!TypeOK
<1>5. closing # "closed"
  BY <1>1 DEF Log!Watched, BatchInHand
<1>6. Log!Watched'
  BY <1>1, <1>2, <1>5, LenProperties, Sizes DEF Log!Watched, Log!TypeOK
<1>7. (written \cup dropped \cup Flushed \cup Log!Names(buffer))' = (1..recorded)'
        /\ PlacesDisjoint'
  BY <1>1, <1>2 DEF PlacesDisjoint
<1>8. QED
  BY <1>2, <1>4, <1>6, <1>7, PerfInvNext

LEMMA InsertedKeeps == ASSUME PerfInv, Log!Inserted PROVE PerfInv'
<1> DEFINE http  == {e.name : e \in Log!Rows("http")}
           agent == {e.name : e \in Log!Rows("agent")}
<1>1. /\ Log!TypeOK /\ BatchInHand /\ Log!Watched /\ PlacesDisjoint
      /\ written \cup dropped \cup Flushed \cup Log!Names(buffer) = 1..recorded
  BY AccountedMeans DEF PerfInv
<1>2. flushing # "none" /\ UNCHANGED <<closing, recorded, dropped>>
  BY DEF Log!Inserted
<1>3. /\ batch = Log!Rows("http") \cup Log!Rows("agent") /\ flushing \in Log!Kinds
      /\ flushing = "agent" => Log!Rows("http") = {}
      /\ http \cap agent = {} /\ Flushed = http \cup agent
  BY <1>2, RowsOfBatch
<1>4. CASE flushing = "http" /\ Log!Rows("agent") # {}
  <2>1. /\ written' = written \cup http /\ flushing' = "agent" /\ batch' = Log!Rows("agent")
        /\ buffer' = buffer /\ timer' = timer
    BY <1>4 DEF Log!Inserted
  <2>2. Flushed' = agent /\ Log!Names(buffer)' = Log!Names(buffer)
    BY <2>1 DEF Flushed, Log!Names
  <2>3. BatchInHand'
    <3>1. Log!First(batch') = "agent" /\ batch' # {} /\ batch' \subseteq batch
      BY <1>3, <1>4, <2>1 DEF Log!First, Log!Rows
    <3>2. QED
      BY <1>1, <2>1, <3>1 DEF BatchInHand, Ordered
  <2>4. Log!TypeOK'
    <3>1. http \subseteq 1..MaxEvents
      BY <1>1, <1>3, EventTyped DEF Log!TypeOK
    <3>2. batch' \in SUBSET Log!Events
      BY <1>1, <1>3, <2>1 DEF Log!TypeOK
    <3>3. written' \subseteq 1..MaxEvents
      BY <1>1, <2>1, <3>1 DEF Log!TypeOK
    <3>4. QED
      BY <1>1, <1>2, <2>1, <3>2, <3>3 DEF Log!TypeOK, Log!Kinds
  <2>5. Log!Watched'
    BY <1>1, <1>2, <1>4, <2>1 DEF Log!Watched, BatchInHand
  <2>6. (written \cup dropped \cup Flushed \cup Log!Names(buffer))' = (1..recorded)'
    BY <1>1, <1>2, <1>3, <2>1, <2>2
  <2>7. PlacesDisjoint'
    BY <1>1, <1>2, <1>3, <2>1, <2>2 DEF PlacesDisjoint
  <2>8. QED
    BY <2>3, <2>4, <2>5, <2>6, <2>7, PerfInvNext
<1>5. CASE ~(flushing = "http" /\ Log!Rows("agent") # {})
  <2>1. Log!Settled(buffer) /\ written' = written \cup {e.name : e \in Log!Rows(flushing)}
    BY <1>5 DEF Log!Inserted
  <2>2. Flushed = {e.name : e \in Log!Rows(flushing)}
    BY <1>3, <1>5, Zenon DEF Log!Kinds, Flushed
  <2>3. written' \cup dropped' = written \cup dropped \cup Flushed /\ written' \cap dropped' = {}
    BY <1>1, <1>2, <2>1, <2>2 DEF PlacesDisjoint
  <2>4. QED
    BY <1>2, <2>1, <2>3, SettledKeeps
<1>6. QED
  BY <1>4, <1>5

LEMMA InsertFailsKeeps == ASSUME PerfInv, Log!InsertFails PROVE PerfInv'
<1>1. PlacesDisjoint
  BY AccountedMeans DEF PerfInv
<1>2. /\ flushing # "none" /\ Log!Settled(buffer) /\ UNCHANGED <<closing, recorded>>
      /\ written' = written /\ dropped' = dropped \cup Flushed
  BY DEF Log!InsertFails, Flushed
<1>3. written' \cup dropped' = written \cup dropped \cup Flushed /\ written' \cap dropped' = {}
  BY <1>1, <1>2 DEF PlacesDisjoint
<1>4. QED
  BY <1>2, <1>3, SettledKeeps

LEMMA ClosingKeeps == ASSUME PerfInv, Log!Close \/ Log!CloseFlushes PROVE PerfInv'
<1>1. CASE Log!Close
  <2>1. Log!TypeOK' /\ BatchInHand' /\ Log!Accounted'
    BY <1>1, SamePlaces DEF Log!Close
  <2>2. Log!Watched'
    BY <1>1 DEF Log!Close, PerfInv, Log!Watched
  <2>3. QED
    BY <2>1, <2>2 DEF PerfInv
<1>2. CASE Log!CloseFlushes /\ buffer # <<>>
  BY <1>2, FlushKeeps DEF Log!CloseFlushes
<1>3. CASE Log!CloseFlushes /\ buffer = <<>>
  <2>1. /\ closing' = "closed" /\ flushing = "none"
        /\ UNCHANGED <<buffer, batch, timer, flushing, recorded, written, dropped>>
    BY <1>3 DEF Log!CloseFlushes
  <2>2. Log!TypeOK' /\ BatchInHand' /\ Log!Accounted'
    BY <2>1, SamePlaces DEF PerfInv, Log!TypeOK
  <2>3. Log!Watched'
    BY <1>3, <2>1 DEF PerfInv, Log!Watched, BatchInHand
  <2>4. QED
    BY <2>2, <2>3 DEF PerfInv
<1>4. QED
  BY <1>1, <1>2, <1>3

LEMMA PerfInvStep == PerfInv /\ [Log!Next]_(Log!vars) => PerfInv'
<1> SUFFICES ASSUME PerfInv, [Log!Next]_(Log!vars) PROVE PerfInv'
  OBVIOUS
<1>1. CASE Log!RecordHttp \/ Log!RecordAgentCall
  BY <1>1, RecordKeeps DEF Log!RecordHttp, Log!RecordAgentCall, Log!Kinds
<1>2. CASE Log!TimerFires
  BY <1>2, TimerFiresKeeps
<1>3. CASE Log!Inserted
  BY <1>3, InsertedKeeps
<1>4. CASE Log!InsertFails
  BY <1>4, InsertFailsKeeps
<1>5. CASE Log!Close \/ Log!CloseFlushes
  BY <1>5, ClosingKeeps
<1>6. CASE UNCHANGED Log!vars
  <2>1. UNCHANGED <<buffer, batch, timer, flushing, closing, recorded, written, dropped>>
    BY <1>6 DEF Log!vars
  <2>2. Log!TypeOK' /\ BatchInHand' /\ Log!Accounted'
    BY <2>1, SamePlaces DEF PerfInv, Log!TypeOK
  <2>3. Log!Watched'
    BY <2>1 DEF PerfInv, Log!Watched
  <2>4. QED
    BY <2>2, <2>3 DEF PerfInv
<1>7. QED
  BY <1>1, <1>2, <1>3, <1>4, <1>5, <1>6 DEF Log!Next

(***************************************************************************)
(* The attempts of a normalization                                         *)
(***************************************************************************)

Working == {"agent", "finished", "validating", "validated", "completed", "returned"}

\* What the worker keeps of an attempt has its types.
WorkTyped ==
  /\ rows \in Seq(Attempt!Row) /\ phase \in Attempt!Phases /\ (phase \in Working => rows # <<>>)
  /\ box \in Attempt!Box /\ remote \in [script : Attempt!Script, files : Attempt!Files]
  /\ reportKey \in Attempt!Files \cup {None} /\ claimed \in Attempt!Binding \cup {None}
  /\ candidate \in Attempt!Files \cup {None}
  /\ unrecorded \in [writes : Nat, reports : Nat]

OthersTyped == runActive \in BOOLEAN /\ turns \in 0..MaxTurns

\* An attempt begins with nothing.
StartsAnew == phase = "idle" => remote = Attempt!NewRemote /\ claimed = None

\* The worker knows the script of the sandbox unless a write was lost; of the output of a run it
\* knows it unless two were, or the file has stayed what it was when the output was made.
ScriptIsKnown ==
  phase = "agent" /\ unrecorded.writes = 0 =>
    /\ box.script = remote.script
    /\ box.run # None => box.run.script = remote.script

OutputIsKnown ==
  phase = "agent" /\ box.run # None /\ remote.files.whole =>
    /\ unrecorded.writes = 0 => remote.files.by = box.run.script
    /\ unrecorded.writes = 1 => remote.files.by \in {box.run.script, remote.script}

\* The report under the key is the one of the last check, and the output of a binding is there
\* or was cleared.
ReportIsLast ==
  phase = "agent" /\ box.validation # None /\ unrecorded.reports = 0 =>
    reportKey = box.validation.files

BindingFits ==
  box.binding # None /\ phase \in {"agent", "finished"} =>
    /\ claimed = box.binding /\ box.binding.files.whole
    /\ remote.files = box.binding.files /\ unrecorded.reports = 0 => reportKey = box.binding.files

ClaimFits ==
  claimed # None /\ unrecorded.writes < 2 => claimed.script = claimed.files.by

\* What the row says of the attempt that goes on.
RowFits ==
  /\ phase \in {"finished", "validating", "validated", "completed"} =>
       claimed # None /\ Attempt!Last.agent = claimed /\ Attempt!Last.agentReport = reportKey
  /\ phase \in {"validating", "validated", "completed"}
       /\ unrecorded.reports = 0 => reportKey = candidate
  /\ phase \in {"validated", "completed"} =>
       Attempt!Last.host = claimed /\ claimed.files = candidate /\ Attempt!Last.upload = candidate
         /\ Attempt!Passes(candidate)
  /\ phase \in {"agent", "finished", "validating", "validated"} => Attempt!Last.status = "running"

AttemptInv ==
  /\ WorkTyped /\ OthersTyped /\ StartsAnew
  /\ ScriptIsKnown /\ OutputIsKnown /\ ReportIsLast /\ BindingFits /\ ClaimFits
  /\ RowFits /\ Attempt!CandidateIsAttested

(***************************************************************************)
(* The rows                                                                *)
(***************************************************************************)
LEMMA LastRow ==
  ASSUME WorkTyped, rows # <<>>
  PROVE  Len(rows) \in Nat \ {0} /\ Len(rows) \in 1..Len(rows) /\ Attempt!Last \in Attempt!Row
BY LenProperties, ElementOfSeq, EmptySeq DEF WorkTyped, Attempt!Last

LEMMA LastIsSet ==
  ASSUME WorkTyped, rows # <<>>, NEW row \in Attempt!Row, Attempt!SetLast(row)
  PROVE  /\ rows' \in Seq(Attempt!Row) /\ Len(rows') = Len(rows) /\ rows' # <<>>
         /\ Attempt!Last' = row
         /\ \A i \in 1..Len(rows) : rows'[i] = IF i = Len(rows) THEN row ELSE rows[i]
<1>1. Len(rows) \in Nat \ {0} /\ Len(rows) \in 1..Len(rows) /\ rows \in Seq(Attempt!Row)
  BY LastRow DEF WorkTyped
<1>2. rows' = [rows EXCEPT ![Len(rows)] = row]
  BY DEF Attempt!SetLast
<1>3. /\ rows' \in Seq(Attempt!Row) /\ Len(rows') = Len(rows)
      /\ \A i \in 1..Len(rows) : rows'[i] = IF i = Len(rows) THEN row ELSE rows[i]
  BY <1>1, <1>2, ExceptSeq
<1>4. rows' # <<>>
  BY <1>1, <1>3, EmptySeq
<1>5. QED
  BY <1>1, <1>3, <1>4 DEF Attempt!Last

\* What is asked of a row, and of the last one besides.
Attested(row) ==
  row.status = "succeeded" =>
    row.host = row.agent /\ row.upload = row.host.files /\ Attempt!Passes(row.upload)

AttestedNow(row) ==
  row.status = "succeeded" =>
    /\ unrecorded.writes < 2 => row.host.script = row.upload.by
    /\ unrecorded.reports = 0 => row.agentReport = row.upload

LEMMA AttestedRows ==
  ASSUME WorkTyped, Attempt!CandidateIsAttested
  PROVE  \A i \in 1..Len(rows) : Attested(rows[i]) /\ (i = Len(rows) => AttestedNow(rows[i]))
<1>1. DOMAIN rows = 1..Len(rows)
  BY LenProperties DEF WorkTyped
<1>2. QED
  BY <1>1 DEF Attempt!CandidateIsAttested, Attested, AttestedNow

LEMMA AttestedNext ==
  ASSUME rows' \in Seq(Attempt!Row), \A i \in 1..Len(rows') : Attested(rows'[i]),
         AttestedNow(rows[Len(rows)])'
  PROVE  Attempt!CandidateIsAttested'
<1>1. DOMAIN rows' = 1..Len(rows')
  BY LenProperties
<1>2. QED
  BY <1>1 DEF Attempt!CandidateIsAttested, Attested, AttestedNow

(***************************************************************************)
(* The tools                                                               *)
(***************************************************************************)
ToolInv == WorkTyped /\ ScriptIsKnown /\ OutputIsKnown /\ ReportIsLast /\ BindingFits /\ ClaimFits

LEMMA TurnKeeps ==
  ASSUME AttemptInv, Attempt!Turn, WorkTyped'
  PROVE  OthersTyped' /\ StartsAnew' /\ RowFits' /\ Attempt!CandidateIsAttested'
<1>1. phase = "agent" /\ UNCHANGED <<runActive, rows, phase, candidate>>
  BY DEF Attempt!Turn
<1>2. turns' \in 0..MaxTurns /\ runActive' \in BOOLEAN
  BY <1>1, AttemptAssumption DEF Attempt!Turn, AttemptInv, OthersTyped
<1>3. RowFits'
  BY <1>1 DEF AttemptInv, RowFits, Attempt!Last
<1>4. \A i \in 1..Len(rows) : Attested(rows[i])
  BY AttestedRows DEF AttemptInv
<1>5. Attempt!Last.status = "running"
  BY <1>1 DEF AttemptInv, RowFits
<1>6. AttestedNow(Attempt!Last)'
  BY <1>1, <1>5 DEF AttestedNow, Attempt!Last
<1>7. Attempt!CandidateIsAttested'
  BY <1>1, <1>4, <1>6, AttestedNext DEF WorkTyped, Attempt!Last
<1>8. QED
  BY <1>1, <1>2, <1>3, <1>7 DEF OthersTyped, StartsAnew

LEMMA AttemptTypes ==
  ASSUME WorkTyped
  PROVE  /\ box \in Attempt!Box /\ remote.script \in Attempt!Script
         /\ remote.files \in Attempt!Files
         /\ remote \in [script : Attempt!Script, files : Attempt!Files]
         /\ unrecorded.writes \in Nat /\ unrecorded.reports \in Nat
         /\ unrecorded \in [writes : Nat, reports : Nat]
         /\ box.script \in Attempt!Script /\ box.sequence \in Nat /\ box.closed \in BOOLEAN
         /\ box.run \in Attempt!Run \cup {None} /\ box.validation \in Attempt!Validation \cup {None}
         /\ box.binding \in Attempt!Binding \cup {None}
BY DEF WorkTyped, Attempt!Box

\* A box with one part replaced is a box, and differs in that part alone.
LEMMA ScriptSet ==
  ASSUME NEW x \in Attempt!Box, NEW v, v \in Attempt!Script
  PROVE  /\ [x EXCEPT !.script = v] \in Attempt!Box
         /\ [x EXCEPT !.script = v].script = v
         /\ [x EXCEPT !.script = v].sequence = x.sequence
         /\ [x EXCEPT !.script = v].run = x.run
         /\ [x EXCEPT !.script = v].validation = x.validation
         /\ [x EXCEPT !.script = v].binding = x.binding
BY DEF Attempt!Box

LEMMA SequenceSet ==
  ASSUME NEW x \in Attempt!Box, NEW v, v \in Nat
  PROVE  /\ [x EXCEPT !.sequence = v] \in Attempt!Box
         /\ [x EXCEPT !.sequence = v].script = x.script
         /\ [x EXCEPT !.sequence = v].sequence = v
         /\ [x EXCEPT !.sequence = v].run = x.run
         /\ [x EXCEPT !.sequence = v].validation = x.validation
         /\ [x EXCEPT !.sequence = v].binding = x.binding
BY DEF Attempt!Box

LEMMA RunSet ==
  ASSUME NEW x \in Attempt!Box, NEW v, v \in Attempt!Run \cup {None}
  PROVE  /\ [x EXCEPT !.run = v] \in Attempt!Box
         /\ [x EXCEPT !.run = v].script = x.script
         /\ [x EXCEPT !.run = v].sequence = x.sequence
         /\ [x EXCEPT !.run = v].run = v
         /\ [x EXCEPT !.run = v].validation = x.validation
         /\ [x EXCEPT !.run = v].binding = x.binding
BY DEF Attempt!Box

LEMMA ValidationSet ==
  ASSUME NEW x \in Attempt!Box, NEW v, v \in Attempt!Validation \cup {None}
  PROVE  /\ [x EXCEPT !.validation = v] \in Attempt!Box
         /\ [x EXCEPT !.validation = v].script = x.script
         /\ [x EXCEPT !.validation = v].sequence = x.sequence
         /\ [x EXCEPT !.validation = v].run = x.run
         /\ [x EXCEPT !.validation = v].validation = v
         /\ [x EXCEPT !.validation = v].binding = x.binding
BY DEF Attempt!Box

LEMMA BindingSet ==
  ASSUME NEW x \in Attempt!Box, NEW v, v \in Attempt!Binding \cup {None}
  PROVE  /\ [x EXCEPT !.binding = v] \in Attempt!Box
         /\ [x EXCEPT !.binding = v].script = x.script
         /\ [x EXCEPT !.binding = v].sequence = x.sequence
         /\ [x EXCEPT !.binding = v].run = x.run
         /\ [x EXCEPT !.binding = v].validation = x.validation
         /\ [x EXCEPT !.binding = v].binding = v
BY DEF Attempt!Box

LEMMA ClosedSet == ASSUME NEW x \in Attempt!Box PROVE [x EXCEPT !.closed = TRUE] \in Attempt!Box
BY DEF Attempt!Box

LEMMA InvalidatedBox ==
  ASSUME WorkTyped, NEW s \in Scripts
  PROVE  /\ Attempt!Invalidated(box, s) \in Attempt!Box /\ Attempt!Invalidated(box, s).script = s
         /\ Attempt!Invalidated(box, s).run = None /\ Attempt!Invalidated(box, s).validation = None
         /\ Attempt!Invalidated(box, s).binding = None
<1> DEFINE scripted == [box EXCEPT !.script = s]
           unrun    == [scripted EXCEPT !.run = None]
           unchecked == [unrun EXCEPT !.validation = None]
           unbound  == [unchecked EXCEPT !.binding = None]
<1>1. Attempt!Invalidated(box, s) = unbound
  BY DEF Attempt!Invalidated
<1>2. scripted \in Attempt!Box /\ scripted.script = s
  BY AttemptTypes, ScriptSet DEF Attempt!Script
<1> HIDE DEF scripted
<1>3. unrun \in Attempt!Box /\ unrun.script = s /\ unrun.run = None
  BY <1>2, RunSet
<1> HIDE DEF unrun
<1>4. unchecked \in Attempt!Box /\ unchecked.script = s /\ unchecked.run = None
        /\ unchecked.validation = None
  BY <1>3, ValidationSet
<1> HIDE DEF unchecked
<1>5. /\ unbound \in Attempt!Box /\ unbound.script = s /\ unbound.run = None
      /\ unbound.validation = None
      /\ unbound.binding = None
  BY <1>4, BindingSet
<1> HIDE DEF unbound
<1>6. QED
  BY <1>1, <1>5

LEMMA ClearedBox ==
  ASSUME WorkTyped
  PROVE  /\ Attempt!Cleared(box) \in Attempt!Box /\ Attempt!Cleared(box).script = box.script
         /\ Attempt!Cleared(box).run = None
         /\ Attempt!Cleared(box).validation = None /\ Attempt!Cleared(box).binding = None
<1> DEFINE counted == [box EXCEPT !.sequence = box.sequence + 1]
           unrun    == [counted EXCEPT !.run = None]
           unchecked == [unrun EXCEPT !.validation = None]
           unbound  == [unchecked EXCEPT !.binding = None]
<1>1. Attempt!Cleared(box) = unbound
  BY DEF Attempt!Cleared
<1>2. counted \in Attempt!Box /\ counted.script = box.script
  <2>1. box \in Attempt!Box /\ box.sequence + 1 \in Nat
    BY AttemptTypes
  <2>2. QED
    BY <2>1, SequenceSet
<1> HIDE DEF counted
<1>3. unrun \in Attempt!Box /\ unrun.script = box.script /\ unrun.run = None
  BY <1>2, RunSet
<1> HIDE DEF unrun
<1>4. unchecked \in Attempt!Box /\ unchecked.script = box.script /\ unchecked.run = None
        /\ unchecked.validation = None
  BY <1>3, ValidationSet
<1> HIDE DEF unchecked
<1>5. /\ unbound \in Attempt!Box /\ unbound.script = box.script /\ unbound.run = None
      /\ unbound.validation = None
      /\ unbound.binding = None
  BY <1>4, BindingSet
<1> HIDE DEF unbound
<1>6. QED
  BY <1>1, <1>5

LEMMA WriteStep == ASSUME ToolInv, Attempt!WriteNormalizer PROVE ToolInv'
<1>1. PICK s \in Scripts : remote' = [remote EXCEPT !.script = s]
        /\ box' = Attempt!Invalidated(box, s)
  BY DEF Attempt!WriteNormalizer
<1>2. UNCHANGED <<rows, phase, candidate, reportKey, claimed, unrecorded>>
  BY DEF Attempt!WriteNormalizer, Attempt!Turn
<1>3. remote' \in [script : Attempt!Script, files : Attempt!Files] /\ remote'.script = s
  BY <1>1, AttemptTypes DEF ToolInv, Attempt!Script
<1>4. /\ box' \in Attempt!Box /\ box'.script = s /\ box'.run = None /\ box'.validation = None
      /\ box'.binding = None
  BY <1>1, InvalidatedBox DEF ToolInv
<1>5. WorkTyped'
  BY <1>2, <1>3, <1>4 DEF ToolInv, WorkTyped
<1>6. QED
  BY <1>2, <1>3, <1>4, <1>5
     DEF ToolInv, ScriptIsKnown, OutputIsKnown, ReportIsLast, BindingFits, ClaimFits

LEMMA WriteFailsStep == ASSUME ToolInv, Attempt!WriteFails PROVE ToolInv'
<1>1. PICK s \in Scripts : remote' = [remote EXCEPT !.script = s]
  BY DEF Attempt!WriteFails
<1>2. UNCHANGED <<rows, phase, candidate, box, reportKey, claimed>> /\ phase = "agent"
      /\ unrecorded' = [unrecorded EXCEPT !.writes = @ + 1]
  BY DEF Attempt!WriteFails, Attempt!Turn
<1>3. remote' \in [script : Attempt!Script, files : Attempt!Files] /\ remote'.files = remote.files
  BY <1>1, AttemptTypes DEF ToolInv, Attempt!Script
<1>4. unrecorded' \in [writes : Nat, reports : Nat] /\ unrecorded'.writes = unrecorded.writes + 1
        /\ unrecorded'.reports = unrecorded.reports
      /\ unrecorded.writes \in Nat
  BY <1>2, AttemptTypes DEF ToolInv
<1>5. WorkTyped'
  BY <1>2, <1>3, <1>4 DEF ToolInv, WorkTyped
<1>6. OutputIsKnown'
  BY <1>2, <1>3, <1>4 DEF ToolInv, OutputIsKnown
<1>7. ScriptIsKnown' /\ ReportIsLast' /\ BindingFits' /\ ClaimFits'
  BY <1>2, <1>3, <1>4 DEF ToolInv, ScriptIsKnown, ReportIsLast, BindingFits, ClaimFits
<1>8. QED
  BY <1>5, <1>6, <1>7 DEF ToolInv

LEMMA RunStep == ASSUME ToolInv, Attempt!RunNormalizer PROVE ToolInv'
<1> DEFINE made == [by |-> remote.script, whole |-> TRUE]
           ran  == [sequence |-> box.sequence + 1, script |-> box.script]
<1>1. /\ UNCHANGED <<rows, phase, candidate, reportKey, claimed, unrecorded>> /\ phase = "agent"
      /\ remote' = [remote EXCEPT !.files = made]
      /\ box' = [Attempt!Cleared(box) EXCEPT !.run = ran]
  BY DEF Attempt!RunNormalizer, Attempt!Turn
<1>2. made \in Attempt!Files /\ made.by = remote.script /\ made.whole
  BY AttemptTypes DEF ToolInv, Attempt!Files, Attempt!Script
<1>3. ran \in Attempt!Run /\ ran.script = box.script
  BY AttemptTypes DEF ToolInv, Attempt!Run
<1> HIDE DEF made, ran
<1>4. remote' \in [script : Attempt!Script, files : Attempt!Files] /\ remote'.files = made
        /\ remote'.script = remote.script
  BY <1>1, <1>2, AttemptTypes DEF ToolInv
<1>5. /\ box' \in Attempt!Box /\ box'.script = box.script /\ box'.run = ran
      /\ box'.validation = None
      /\ box'.binding = None
  BY <1>1, <1>3, ClearedBox DEF ToolInv, Attempt!Box
<1>6. WorkTyped'
  BY <1>1, <1>4, <1>5 DEF ToolInv, WorkTyped
<1>7. ScriptIsKnown' /\ OutputIsKnown'
  BY <1>1, <1>2, <1>3, <1>4, <1>5 DEF ToolInv, ScriptIsKnown, OutputIsKnown
<1>8. ReportIsLast' /\ BindingFits' /\ ClaimFits'
  BY <1>1, <1>5 DEF ToolInv, ReportIsLast, BindingFits, ClaimFits
<1>9. QED
  BY <1>6, <1>7, <1>8 DEF ToolInv

LEMMA RunFailsEarlyStep == ASSUME ToolInv, Attempt!RunFailsEarly PROVE ToolInv'
<1>1. /\ UNCHANGED <<rows, phase, candidate, box, reportKey, claimed, unrecorded>>
      /\ remote' = [remote EXCEPT !.files = Attempt!Empty]
  BY DEF Attempt!RunFailsEarly, Attempt!Turn
<1>2. Attempt!Empty \in Attempt!Files /\ ~Attempt!Empty.whole
  BY DEF Attempt!Empty, Attempt!Files
<1>3. remote' \in [script : Attempt!Script, files : Attempt!Files] /\ remote'.files = Attempt!Empty
        /\ remote'.script = remote.script
  BY <1>1, <1>2, AttemptTypes DEF ToolInv
<1>4. WorkTyped'
  BY <1>1, <1>3 DEF ToolInv, WorkTyped
<1>5. ScriptIsKnown' /\ OutputIsKnown'
  BY <1>1, <1>2, <1>3 DEF ToolInv, ScriptIsKnown, OutputIsKnown
<1>6. ReportIsLast' /\ BindingFits' /\ ClaimFits'
  BY <1>1, <1>2, <1>3 DEF ToolInv, ReportIsLast, BindingFits, ClaimFits
<1>7. QED
  BY <1>4, <1>5, <1>6 DEF ToolInv

LEMMA RunFailsStep == ASSUME ToolInv, Attempt!RunFails PROVE ToolInv'
<1>1. /\ UNCHANGED <<rows, phase, candidate, reportKey, claimed, unrecorded>>
      /\ box' = Attempt!Cleared(box)
  BY DEF Attempt!RunFails, Attempt!Turn
<1>2. PICK whole \in BOOLEAN : remote' = [remote EXCEPT !.files = [by |-> remote.script,
        whole |-> whole]]
  BY DEF Attempt!RunFails
<1>3. [by |-> remote.script, whole |-> whole] \in Attempt!Files
  BY AttemptTypes DEF ToolInv, Attempt!Files, Attempt!Script
<1>4. remote' \in [script : Attempt!Script, files : Attempt!Files] /\ remote'.script = remote.script
  BY <1>2, <1>3, AttemptTypes DEF ToolInv
<1>5. /\ box' \in Attempt!Box /\ box'.script = box.script /\ box'.run = None
      /\ box'.validation = None
      /\ box'.binding = None
  BY <1>1, ClearedBox DEF ToolInv
<1>6. WorkTyped'
  BY <1>1, <1>4, <1>5 DEF ToolInv, WorkTyped
<1>7. QED
  BY <1>1, <1>4, <1>5, <1>6
     DEF ToolInv, ScriptIsKnown, OutputIsKnown, ReportIsLast, BindingFits, ClaimFits

LEMMA CheckStep == ASSUME ToolInv, Attempt!RunNbCheck PROVE ToolInv'
<1> DEFINE checked == [sequence |-> box.run.sequence, script |-> box.run.script,
  files |-> remote.files]
<1>1. /\ UNCHANGED <<rows, phase, candidate, remote, claimed>> /\ phase = "agent" /\ box.run # None
      /\ box' = [box EXCEPT !.validation = checked]
      /\ \/ reportKey' = remote.files /\ UNCHANGED unrecorded
         \/ unrecorded' = [unrecorded EXCEPT !.reports = @ + 1] /\ UNCHANGED reportKey
  BY DEF Attempt!RunNbCheck, Attempt!Turn
<1>2. checked \in Attempt!Validation /\ checked.files = remote.files
  BY <1>1, AttemptTypes DEF ToolInv, Attempt!Run, Attempt!Validation
<1> HIDE DEF checked
<1>3. /\ box' \in Attempt!Box /\ box'.script = box.script /\ box'.run = box.run
      /\ box'.validation = checked
      /\ box'.binding = box.binding
  BY <1>1, <1>2, AttemptTypes DEF ToolInv, Attempt!Box
<1>4. \/ reportKey' = remote.files /\ UNCHANGED unrecorded
      \/ /\ unrecorded' \in [writes : Nat, reports : Nat] /\ unrecorded'.writes = unrecorded.writes
           /\ unrecorded'.reports # 0
         /\ UNCHANGED reportKey
  BY <1>1, AttemptTypes DEF ToolInv
<1>5. WorkTyped'
  BY <1>1, <1>3, <1>4, AttemptTypes DEF ToolInv, WorkTyped
<1>6. unrecorded'.writes = unrecorded.writes
  BY <1>4
<1>7. ScriptIsKnown' /\ OutputIsKnown' /\ ClaimFits'
  BY <1>1, <1>3, <1>6 DEF ToolInv, ScriptIsKnown, OutputIsKnown, ClaimFits
<1>8. ReportIsLast' /\ BindingFits'
  BY <1>1, <1>2, <1>3, <1>4 DEF ToolInv, ReportIsLast, BindingFits
<1>9. QED
  BY <1>5, <1>7, <1>8 DEF ToolInv

LEMMA FinishStep == ASSUME ToolInv, Attempt!FinishNormalization PROVE ToolInv'
<1> DEFINE binding == [script |-> remote.script, files |-> remote.files]
<1>1. /\ UNCHANGED <<rows, phase, candidate, remote, reportKey, unrecorded>> /\ phase = "agent"
      /\ box' = [box EXCEPT !.binding = binding] /\ claimed' = binding
  BY DEF Attempt!FinishNormalization, Attempt!Turn, Attempt!CurrentScript
<1>2. /\ box.run # None /\ box.run.script = remote.script /\ box.validation # None
      /\ remote.files = box.validation.files /\ remote.files.whole
  BY DEF Attempt!FinishNormalization, Attempt!RunIsCurrent, Attempt!ValidationIsCurrent,
     Attempt!CurrentScript, Attempt!Passes
<1>3. binding \in Attempt!Binding /\ binding.script = remote.script /\ binding.files = remote.files
  BY AttemptTypes DEF ToolInv, Attempt!Binding
<1> HIDE DEF binding
<1>4. /\ box' \in Attempt!Box /\ box'.script = box.script /\ box'.run = box.run
      /\ box'.validation = box.validation
      /\ box'.binding = binding
  BY <1>1, <1>3, AttemptTypes DEF ToolInv, Attempt!Box
<1>5. WorkTyped'
  BY <1>1, <1>3, <1>4 DEF ToolInv, WorkTyped
<1>6. ScriptIsKnown' /\ OutputIsKnown' /\ ReportIsLast'
  BY <1>1, <1>4 DEF ToolInv, ScriptIsKnown, OutputIsKnown, ReportIsLast
<1>7. BindingFits'
  BY <1>1, <1>2, <1>3, <1>4 DEF ToolInv, ReportIsLast, BindingFits
<1>8. ClaimFits'
  <2>1. unrecorded.writes < 2 => unrecorded.writes = 0 \/ unrecorded.writes = 1
    BY AttemptTypes DEF ToolInv
  <2>2. unrecorded.writes < 2 => remote.files.by = remote.script
    BY <1>1, <1>2, <2>1 DEF ToolInv, OutputIsKnown
  <2>3. QED
    BY <1>1, <1>3, <2>2 DEF ClaimFits
<1>9. QED
  BY <1>5, <1>6, <1>7, <1>8 DEF ToolInv

LEMMA ToolStep == ASSUME AttemptInv, Attempt!Tool PROVE AttemptInv'
<1>1. ToolInv
  BY DEF AttemptInv, ToolInv
<1>2. ToolInv'
  BY <1>1, WriteStep, WriteFailsStep, RunStep, RunFailsEarlyStep, RunFailsStep, CheckStep,
     FinishStep
     DEF Attempt!Tool
<1>3. Attempt!Turn
  BY DEF Attempt!Tool, Attempt!WriteNormalizer, Attempt!WriteFails, Attempt!RunNormalizer,
     Attempt!RunFailsEarly, Attempt!RunFails, Attempt!RunNbCheck,
         Attempt!FinishNormalization
<1>4. QED
  BY <1>2, <1>3, TurnKeeps DEF ToolInv, AttemptInv

(***************************************************************************)
(* The coordinator                                                         *)
(***************************************************************************)
LEMMA NewTypes ==
  /\ Attempt!NewBox \in Attempt!Box /\ Attempt!NewBox.run = None /\ Attempt!NewBox.validation = None
  /\ Attempt!NewBox.binding = None
  /\ Attempt!NewBox.script = None
  /\ Attempt!ClosedBox \in Attempt!Box /\ Attempt!NewRemote \in [script : Attempt!Script,
       files : Attempt!Files] /\ Attempt!NewRemote.script = None
  /\ Attempt!NewRow \in Attempt!Row /\ Attempt!NewRow.status = "running"
  /\ [writes |-> 0, reports |-> 0] \in [writes : Nat, reports : Nat]
<1>1. /\ Attempt!NewBox \in Attempt!Box /\ Attempt!NewBox.run = None
      /\ Attempt!NewBox.validation = None /\ Attempt!NewBox.binding = None
      /\ Attempt!NewBox.script = None
  BY DEF Attempt!NewBox, Attempt!Box, Attempt!Script
<1>2. Attempt!ClosedBox \in Attempt!Box
  BY <1>1, ClosedSet DEF Attempt!ClosedBox
<1>3. Attempt!Empty \in Attempt!Files
  BY DEF Attempt!Empty, Attempt!Files
<1>4. Attempt!NewRemote \in [script : Attempt!Script, files : Attempt!Files]
        /\ Attempt!NewRemote.script = None
  BY <1>3 DEF Attempt!NewRemote, Attempt!Script
<1>5. Attempt!NewRow \in Attempt!Row /\ Attempt!NewRow.status = "running"
  BY DEF Attempt!NewRow, Attempt!Row
<1>6. QED
  BY <1>1, <1>2, <1>4, <1>5

LEMMA AttemptInvInit == Attempt!Init => AttemptInv
<1> SUFFICES ASSUME Attempt!Init PROVE AttemptInv
  OBVIOUS
<1>1. rows = <<>> /\ phase = "idle" /\ box = Attempt!ClosedBox /\ remote = Attempt!NewRemote
        /\ claimed = None
      /\ reportKey = None /\ candidate = None /\ unrecorded = [writes |-> 0, reports |-> 0]
      /\ turns = 0 /\ runActive = TRUE
  BY DEF Attempt!Init
<1>2. WorkTyped
  BY <1>1, NewTypes, EmptySeq DEF WorkTyped, Attempt!Phases, Working
<1>3. OthersTyped
  BY <1>1, AttemptAssumption DEF OthersTyped
<1>4. StartsAnew /\ ScriptIsKnown /\ OutputIsKnown /\ ReportIsLast /\ BindingFits /\ ClaimFits
        /\ RowFits
  BY <1>1 DEF StartsAnew, ScriptIsKnown, OutputIsKnown, ReportIsLast, BindingFits, ClaimFits,
     RowFits
<1>5. Attempt!CandidateIsAttested
  BY <1>1 DEF Attempt!CandidateIsAttested
<1>6. QED
  BY <1>2, <1>3, <1>4, <1>5 DEF AttemptInv

LEMMA StartStep == ASSUME AttemptInv, Attempt!StartAttempt PROVE AttemptInv'
<1>1. /\ phase = "idle" /\ phase' = "agent" /\ rows' = Append(rows, Attempt!NewRow)
      /\ box' = Attempt!NewBox
      /\ unrecorded' = [writes |-> 0, reports |-> 0]
      /\ UNCHANGED <<runActive, turns, remote, reportKey, claimed, candidate>>
  BY DEF Attempt!StartAttempt
<1>2. WorkTyped /\ OthersTyped /\ remote = Attempt!NewRemote /\ claimed = None
  BY <1>1 DEF AttemptInv, StartsAnew
<1>3. /\ rows' \in Seq(Attempt!Row) /\ Len(rows') = Len(rows) + 1
      /\ rows'[Len(rows) + 1] = Attempt!NewRow
      /\ \A i \in 1..Len(rows) : rows'[i] = rows[i]
      /\ Len(rows) \in Nat
  BY <1>1, <1>2, NewTypes, AppendProperties, LenProperties DEF WorkTyped
<1>4. rows' # <<>>
  BY <1>3, EmptySeq
<1>5. WorkTyped'
  BY <1>1, <1>2, <1>3, <1>4, NewTypes DEF WorkTyped, Attempt!Phases
<1>6. Attempt!Last' = Attempt!NewRow
  BY <1>3 DEF Attempt!Last
<1>7. StartsAnew' /\ ScriptIsKnown' /\ OutputIsKnown' /\ ReportIsLast' /\ BindingFits' /\ ClaimFits'
  BY <1>1, <1>2, NewTypes DEF StartsAnew, ScriptIsKnown, OutputIsKnown, ReportIsLast, BindingFits,
     ClaimFits
<1>8. RowFits'
  BY <1>1, <1>6, NewTypes DEF RowFits
<1>9. ASSUME NEW i \in 1..Len(rows') PROVE Attested(rows'[i])
  <2>1. CASE i = Len(rows) + 1
    BY <1>3, <2>1, NewTypes DEF Attested
  <2>2. CASE i # Len(rows) + 1
    <3>1. i \in 1..Len(rows) /\ rows'[i] = rows[i]
      BY <1>3, <2>2
    <3>2. QED
      BY <1>2, <3>1, AttestedRows DEF AttemptInv
  <2>3. QED
    BY <2>1, <2>2
<1>10. Attempt!CandidateIsAttested'
  <2>1. AttestedNow(rows[Len(rows)])'
    BY <1>3, NewTypes DEF AttestedNow
  <2>2. QED
    BY <1>3, <1>9, <2>1, AttestedNext
<1>11. QED
  BY <1>1, <1>2, <1>5, <1>7, <1>8, <1>10 DEF AttemptInv, OthersTyped

\* Steps that change no row.
LEMMA RowsRest ==
  ASSUME AttemptInv, UNCHANGED <<rows, unrecorded>>
  PROVE  Attempt!CandidateIsAttested'
BY DEF AttemptInv, Attempt!CandidateIsAttested

\* Steps that write the last row.
LEMMA LastRowWritten ==
  ASSUME AttemptInv, rows # <<>>, NEW row \in Attempt!Row, Attempt!SetLast(row),
         UNCHANGED unrecorded,
         Attested(row), AttestedNow(row)
  PROVE  Attempt!CandidateIsAttested'
<1>1. WorkTyped
  BY DEF AttemptInv
<1>2. /\ rows' \in Seq(Attempt!Row) /\ Len(rows') = Len(rows) /\ Len(rows) \in Nat
      /\ \A i \in 1..Len(rows) : rows'[i] = IF i = Len(rows) THEN row ELSE rows[i]
  BY <1>1, LastIsSet, LastRow
<1>3. \A i \in 1..Len(rows) : Attested(rows[i])
  BY <1>1, AttestedRows DEF AttemptInv
<1>4. \A i \in 1..Len(rows') : Attested(rows'[i])
  BY <1>2, <1>3
<1>5. AttestedNow(rows[Len(rows)])'
  <2>1. rows'[Len(rows')] = row
    BY <1>1, <1>2, LastRow
  <2>2. QED
    BY <2>1 DEF AttestedNow
<1>6. QED
  BY <1>2, <1>4, <1>5, AttestedNext

LEMMA AgentFinishesStep == ASSUME AttemptInv, Attempt!AgentFinishes PROVE AttemptInv'
<1> DEFINE row == [Attempt!Last EXCEPT !.agent = claimed, !.agentReport = reportKey]
<1>1. /\ phase = "agent" /\ phase' = "finished" /\ Attempt!SetLast(row) /\ claimed # None
      /\ reportKey # None
      /\ Attempt!Last.status = "running"
      /\ UNCHANGED <<runActive, turns, box, remote, reportKey, claimed, candidate, unrecorded>>
  BY DEF Attempt!AgentFinishes, Attempt!sandbox
<1>2. WorkTyped /\ rows # <<>> /\ Attempt!Last \in Attempt!Row
  BY <1>1, LastRow DEF AttemptInv, WorkTyped, Working
<1>3. row \in Attempt!Row /\ row.agent = claimed /\ row.agentReport = reportKey
        /\ row.status = "running"
  <2>1. claimed \in Attempt!Binding \cup {None} /\ reportKey \in Attempt!Files \cup {None}
    BY <1>2 DEF WorkTyped
  <2>2. QED
    BY <1>1, <1>2, <2>1 DEF Attempt!Row
<1> HIDE DEF row
<1>4. rows' \in Seq(Attempt!Row) /\ rows' # <<>> /\ Attempt!Last' = row
  BY <1>1, <1>2, <1>3, LastIsSet
<1>5. Attempt!CandidateIsAttested'
  <2>1. Attested(row) /\ AttestedNow(row)
    BY <1>3 DEF Attested, AttestedNow
  <2>2. UNCHANGED unrecorded
    BY <1>1
  <2>3. QED
    BY <1>1, <1>2, <1>3, <2>1, <2>2, LastRowWritten
<1>6. WorkTyped'
  BY <1>1, <1>2, <1>4 DEF WorkTyped, Attempt!Phases
<1>7. RowFits'
  BY <1>1, <1>3, <1>4 DEF RowFits
<1>8. StartsAnew' /\ ScriptIsKnown' /\ OutputIsKnown' /\ ReportIsLast' /\ BindingFits' /\ ClaimFits'
  BY <1>1 DEF AttemptInv, StartsAnew, ScriptIsKnown, OutputIsKnown, ReportIsLast, BindingFits,
     ClaimFits
<1>9. QED
  BY <1>1, <1>5, <1>6, <1>7, <1>8 DEF AttemptInv, OthersTyped

LEMMA DownloadStep == ASSUME AttemptInv, Attempt!Download PROVE AttemptInv'
<1>1. /\ phase = "finished" /\ phase' = "validating" /\ candidate' = remote.files
      /\ box.binding # None /\ remote.files = box.binding.files
      /\ UNCHANGED <<runActive, rows, turns, box, remote, reportKey, claimed, unrecorded>>
  BY DEF Attempt!Download
<1>2. WorkTyped'
  BY <1>1, AttemptTypes DEF AttemptInv, WorkTyped, Attempt!Phases, Working
<1>3. unrecorded.reports = 0 => reportKey = remote.files
  BY <1>1 DEF AttemptInv, BindingFits
<1>4. RowFits'
  BY <1>1, <1>3 DEF AttemptInv, RowFits, Attempt!Last
<1>5. StartsAnew' /\ ScriptIsKnown' /\ OutputIsKnown' /\ ReportIsLast' /\ BindingFits' /\ ClaimFits'
  BY <1>1 DEF AttemptInv, StartsAnew, ScriptIsKnown, OutputIsKnown, ReportIsLast, BindingFits,
     ClaimFits
<1>6. QED
  BY <1>1, <1>2, <1>4, <1>5, RowsRest DEF AttemptInv, OthersTyped

LEMMA HostValidatesStep == ASSUME AttemptInv, Attempt!HostValidates PROVE AttemptInv'
<1> DEFINE row == [Attempt!Last EXCEPT !.host = Attempt!HostBinding, !.upload = candidate]
<1>1. /\ phase = "validating" /\ phase' = "validated" /\ Attempt!SetLast(row)
      /\ Attempt!Passes(candidate)
      /\ Attempt!HostBinding = claimed
      /\ UNCHANGED <<runActive, turns, box, remote, reportKey, claimed, candidate, unrecorded>>
  BY DEF Attempt!HostValidates, Attempt!sandbox
<1>2. WorkTyped /\ rows # <<>> /\ Attempt!Last \in Attempt!Row /\ RowFits
  BY <1>1, LastRow DEF AttemptInv, WorkTyped, Working
<1>3. claimed.files = candidate /\ claimed # None /\ claimed \in Attempt!Binding
  BY <1>1, <1>2 DEF Attempt!HostBinding, RowFits, WorkTyped
<1>4. /\ row \in Attempt!Row /\ row.agent = Attempt!Last.agent
      /\ row.agentReport = Attempt!Last.agentReport
      /\ row.status = Attempt!Last.status /\ row.host = claimed /\ row.upload = candidate
  <2>1. claimed \in Attempt!Binding \cup {None} /\ candidate \in Attempt!Files \cup {None}
    BY <1>2 DEF WorkTyped
  <2>2. QED
    BY <1>1, <1>2, <2>1 DEF Attempt!Row
<1> HIDE DEF row
<1>5. rows' \in Seq(Attempt!Row) /\ rows' # <<>> /\ Attempt!Last' = row
  BY <1>1, <1>2, <1>4, LastIsSet
<1>6. Attempt!Last.status = "running"
  BY <1>1, <1>2 DEF RowFits
<1>7. Attempt!CandidateIsAttested'
  <2>1. Attested(row) /\ AttestedNow(row)
    BY <1>4, <1>6 DEF Attested, AttestedNow
  <2>2. UNCHANGED unrecorded
    BY <1>1
  <2>3. QED
    BY <1>1, <1>2, <1>4, <2>1, <2>2, LastRowWritten
<1>8. WorkTyped'
  BY <1>1, <1>2, <1>5 DEF WorkTyped, Attempt!Phases
<1>9. RowFits'
  BY <1>1, <1>2, <1>3, <1>4, <1>5, <1>6 DEF RowFits, Attempt!Passes
<1>10. StartsAnew' /\ ScriptIsKnown' /\ OutputIsKnown' /\ ReportIsLast' /\ BindingFits'
         /\ ClaimFits'
  BY <1>1 DEF AttemptInv, StartsAnew, ScriptIsKnown, OutputIsKnown, ReportIsLast, BindingFits,
     ClaimFits
<1>11. QED
  BY <1>1, <1>7, <1>8, <1>9, <1>10 DEF AttemptInv, OthersTyped

LEMMA CompleteStep == ASSUME AttemptInv, Attempt!CompleteAttempt PROVE AttemptInv'
<1> DEFINE row == [Attempt!Last EXCEPT !.status = "succeeded"]
<1>1. /\ phase = "validated" /\ phase' = "completed" /\ Attempt!SetLast(row)
      /\ UNCHANGED <<runActive, turns, box, remote, reportKey, claimed, candidate, unrecorded>>
  BY DEF Attempt!CompleteAttempt, Attempt!sandbox
<1>2. WorkTyped /\ rows # <<>> /\ Attempt!Last \in Attempt!Row /\ RowFits /\ ClaimFits
  BY <1>1, LastRow DEF AttemptInv, WorkTyped, Working
<1>3. /\ row \in Attempt!Row /\ row.agent = Attempt!Last.agent
      /\ row.agentReport = Attempt!Last.agentReport
      /\ row.host = Attempt!Last.host /\ row.upload = Attempt!Last.upload
  BY <1>2 DEF Attempt!Row
<1> HIDE DEF row
<1>4. rows' \in Seq(Attempt!Row) /\ rows' # <<>> /\ Attempt!Last' = row
  BY <1>1, <1>2, <1>3, LastIsSet
<1>5. /\ claimed # None /\ Attempt!Last.agent = claimed /\ Attempt!Last.agentReport = reportKey
      /\ Attempt!Last.host = claimed /\ claimed.files = candidate /\ Attempt!Last.upload = candidate
      /\ Attempt!Passes(candidate)
      /\ unrecorded.reports = 0 => reportKey = candidate
  BY <1>1, <1>2 DEF RowFits
<1>6. Attempt!CandidateIsAttested'
  <2>1. Attested(row) /\ AttestedNow(row)
    BY <1>2, <1>3, <1>5 DEF Attested, AttestedNow, ClaimFits
  <2>2. UNCHANGED unrecorded
    BY <1>1
  <2>3. QED
    BY <1>1, <1>2, <1>3, <2>1, <2>2, LastRowWritten
<1>7. WorkTyped'
  BY <1>1, <1>2, <1>4 DEF WorkTyped, Attempt!Phases
<1>8. RowFits'
  BY <1>1, <1>3, <1>4, <1>5 DEF RowFits, Attempt!Passes
<1>9. StartsAnew' /\ ScriptIsKnown' /\ OutputIsKnown' /\ ReportIsLast' /\ BindingFits' /\ ClaimFits'
  BY <1>1 DEF AttemptInv, StartsAnew, ScriptIsKnown, OutputIsKnown, ReportIsLast, BindingFits,
     ClaimFits
<1>10. QED
  BY <1>1, <1>6, <1>7, <1>8, <1>9 DEF AttemptInv, OthersTyped

LEMMA AttemptFailsStep == ASSUME AttemptInv, Attempt!AttemptFails PROVE AttemptInv'
<1> DEFINE row == [Attempt!Last EXCEPT !.status = "failed"]
<1>1. /\ phase \in {"agent", "finished", "validating", "validated", "completed"} /\ phase' = "idle"
      /\ Attempt!SetLast(row) \/ UNCHANGED rows
      /\ turns' = 0
      /\ box' = Attempt!ClosedBox /\ remote' = Attempt!NewRemote
      /\ reportKey' = None /\ claimed' = None /\ candidate' = None
      /\ UNCHANGED <<runActive, unrecorded>>
  BY DEF Attempt!AttemptFails
<1>2. WorkTyped /\ rows # <<>> /\ Attempt!Last \in Attempt!Row
  BY <1>1, LastRow DEF AttemptInv, WorkTyped, Working
<1>3. row \in Attempt!Row /\ row.status = "failed"
  BY <1>2 DEF Attempt!Row
<1> HIDE DEF row
<1>4. UNCHANGED unrecorded
  BY <1>1
<1>5. rows' \in Seq(Attempt!Row) /\ Attempt!CandidateIsAttested'
  <2>1. CASE UNCHANGED rows
    BY <1>2, <1>4, <2>1, RowsRest DEF WorkTyped
  <2>2. CASE Attempt!SetLast(row)
    <3>1. Attested(row) /\ AttestedNow(row)
      BY <1>3 DEF Attested, AttestedNow
    <3>2. QED
      BY <1>2, <1>3, <1>4, <2>2, <3>1, LastIsSet, LastRowWritten
  <2>3. QED
    BY <1>1, <2>1, <2>2
<1>6. WorkTyped'
  BY <1>1, <1>2, <1>5, NewTypes DEF WorkTyped, Attempt!Phases, Working
<1>7. OthersTyped'
  BY <1>1, AttemptAssumption DEF AttemptInv, OthersTyped
<1>8. StartsAnew' /\ ScriptIsKnown' /\ OutputIsKnown' /\ ReportIsLast' /\ BindingFits' /\ ClaimFits'
        /\ RowFits'
  BY <1>1 DEF StartsAnew, ScriptIsKnown, OutputIsKnown, ReportIsLast, BindingFits, ClaimFits,
     RowFits
<1>9. QED
  BY <1>5, <1>6, <1>7, <1>8 DEF AttemptInv

LEMMA WorkspaceFailsStep == ASSUME AttemptInv, Attempt!WorkspaceFails PROVE AttemptInv'
<1>1. phase' = "thrown" /\ box' = Attempt!ClosedBox
      /\ UNCHANGED <<runActive, rows, turns, remote, reportKey, claimed, candidate, unrecorded>>
  BY DEF Attempt!WorkspaceFails
<1>2. WorkTyped' /\ OthersTyped'
  BY <1>1, NewTypes DEF AttemptInv, WorkTyped, OthersTyped, Attempt!Phases, Working
<1>3. StartsAnew' /\ ScriptIsKnown' /\ OutputIsKnown' /\ ReportIsLast' /\ BindingFits' /\ ClaimFits'
        /\ RowFits'
  BY <1>1 DEF AttemptInv, StartsAnew, ScriptIsKnown, OutputIsKnown, ReportIsLast, BindingFits,
     ClaimFits, RowFits
<1>4. QED
  BY <1>1, <1>2, <1>3, RowsRest DEF AttemptInv

LEMMA EndsStep == ASSUME AttemptInv, Attempt!GiveUp \/ Attempt!Return \/ Attempt!Reconcile
  PROVE AttemptInv'
<1>1. ASSUME Attempt!GiveUp PROVE AttemptInv'
  <2>1. phase = "idle" /\ phase' = "thrown" /\ UNCHANGED <<runActive, rows, turns, box, remote,
          reportKey, claimed, candidate, unrecorded>>
    BY <1>1 DEF Attempt!GiveUp, Attempt!sandbox
  <2>2. WorkTyped' /\ OthersTyped'
    BY <2>1 DEF AttemptInv, WorkTyped, OthersTyped, Attempt!Phases, Working
  <2>3. StartsAnew' /\ ScriptIsKnown' /\ OutputIsKnown' /\ ReportIsLast' /\ BindingFits'
          /\ ClaimFits' /\ RowFits'
    BY <2>1 DEF AttemptInv, StartsAnew, ScriptIsKnown, OutputIsKnown, ReportIsLast, BindingFits,
       ClaimFits, RowFits
  <2>4. QED
    BY <2>1, <2>2, <2>3, RowsRest DEF AttemptInv
<1>2. ASSUME Attempt!Return PROVE AttemptInv'
  <2>1. phase = "completed" /\ phase' = "returned" /\ box' = [box EXCEPT !.closed = TRUE]
        /\ UNCHANGED <<runActive, rows, turns, remote, reportKey, claimed, candidate, unrecorded>>
    BY <1>2 DEF Attempt!Return
  <2>2. box' \in Attempt!Box
    <3>1. box \in Attempt!Box
      BY AttemptTypes DEF AttemptInv
    <3>2. QED
      BY <2>1, <3>1, ClosedSet
  <2>3. WorkTyped' /\ OthersTyped'
    BY <2>1, <2>2 DEF AttemptInv, WorkTyped, OthersTyped, Attempt!Phases, Working
  <2>4. StartsAnew' /\ ScriptIsKnown' /\ OutputIsKnown' /\ ReportIsLast' /\ BindingFits'
          /\ ClaimFits' /\ RowFits'
    BY <2>1 DEF AttemptInv, StartsAnew, ScriptIsKnown, OutputIsKnown, ReportIsLast, BindingFits,
       ClaimFits, RowFits
  <2>5. QED
    BY <2>1, <2>3, <2>4, RowsRest DEF AttemptInv
<1>3. ASSUME Attempt!Reconcile PROVE AttemptInv'
  <2>1. runActive' = FALSE /\ UNCHANGED <<rows, phase, turns, box, remote, reportKey, claimed,
          candidate, unrecorded>>
    BY <1>3 DEF Attempt!Reconcile, Attempt!sandbox
  <2>2. WorkTyped' /\ OthersTyped'
    <3>1. WorkTyped'
      BY <2>1 DEF AttemptInv, WorkTyped
    <3>2. runActive' \in BOOLEAN
      BY <2>1
    <3>3. QED
      BY <2>1, <3>1, <3>2 DEF AttemptInv, OthersTyped
  <2>3. StartsAnew' /\ ScriptIsKnown' /\ OutputIsKnown' /\ ReportIsLast' /\ BindingFits'
          /\ ClaimFits' /\ RowFits'
    BY <2>1 DEF AttemptInv, StartsAnew, ScriptIsKnown, OutputIsKnown, ReportIsLast, BindingFits,
       ClaimFits, RowFits, Attempt!Last
  <2>4. QED
    BY <2>1, <2>2, <2>3, RowsRest DEF AttemptInv
<1>4. QED
  BY <1>1, <1>2, <1>3

LEMMA AttemptInvStep == ASSUME AttemptInv, Attempt!Next PROVE AttemptInv'
BY ToolStep, StartStep, AgentFinishesStep, DownloadStep, HostValidatesStep, CompleteStep,
   AttemptFailsStep, WorkspaceFailsStep, EndsStep DEF Attempt!Next

LEMMA AttemptRests ==
  ASSUME AttemptInv, UNCHANGED <<runActive, rows, phase, turns, box, remote, reportKey, claimed,
         candidate, unrecorded>>
  PROVE  AttemptInv'
<1>1. WorkTyped' /\ OthersTyped'
  BY DEF AttemptInv, WorkTyped, OthersTyped
<1>2. StartsAnew' /\ ScriptIsKnown' /\ OutputIsKnown' /\ ReportIsLast' /\ BindingFits' /\ ClaimFits'
        /\ RowFits'
  BY DEF AttemptInv, StartsAnew, ScriptIsKnown, OutputIsKnown, ReportIsLast, BindingFits,
     ClaimFits, RowFits, Attempt!Last
<1>3. QED
  BY <1>1, <1>2, RowsRest DEF AttemptInv

(***************************************************************************)
(* The packages of books                                                   *)
(***************************************************************************)

USE DEF Packages!At, Packages!Become, Packages!Goto, Packages!Key, Packages!Expected,
   Packages!Absent, Packages!Same, Packages!Written, Packages!Begins, Packages!Publish,
   Packages!RunCreated

(***************************************************************************)
(* Type correctness                                                        *)
(***************************************************************************)
Publishing == {"uploading", "putting", "verifying", "published"}

\* A tool has what its next step reads: the book, once it has been loaded, and a package.
ToolsHold ==
  \A t \in Tools :
    /\ Packages!At(t, "loaded") \/ Packages!RunCreated(t) => sharedBook \in Packages!Book
    /\ tool[t].pc \in {"preflighted"} \cup Publishing => tool[t].prefix \in Packages!Prefixes
    /\ tool[t].pc \in Publishing => tool[t].inventory \in Packages!Inventories
    /\ Packages!At(t, "putting") => tool[t].file \in Paths

PackagesTyped == Packages!TypeOK /\ ToolsHold

LEMMA PackagesTypedInit == Packages!Init => PackagesTyped
<1> SUFFICES ASSUME Packages!Init PROVE PackagesTyped
  OBVIOUS
<1>1. tool \in [Tools -> Packages!Tool]
  BY DEF Packages!Init, Packages!Idle, Packages!Tool
<1>2. DOMAIN objects \subseteq Packages!Keys /\ objects \in [DOMAIN objects -> Contents]
  BY DEF Packages!Init
<1>3. edits \in 0..MaxEdits /\ starts \in 0..MaxStarts
  BY PackageAssumption DEF Packages!Init
<1>4. conditional \in BOOLEAN /\ directory \in Packages!Inventories
        /\ sharedBook \in Packages!Book \cup {None} /\ ingestRun \in Tools \cup {None}
  BY DEF Packages!Init
<1>5. ToolsHold
  BY DEF Packages!Init, Packages!Idle, ToolsHold, Publishing
<1>6. QED
  BY <1>1, <1>2, <1>3, <1>4, <1>5 DEF PackagesTyped, Packages!TypeOK

LEMMA ToolsTyped ==
  ASSUME PackagesTyped, NEW t \in Tools
  PROVE  tool[t] \in Packages!Tool /\ tool \in [Tools -> Packages!Tool]
BY DEF PackagesTyped, Packages!TypeOK

LEMMA WrittenTyped ==
  ASSUME PackagesTyped, NEW t \in Tools, NEW f \in Paths, tool[t].pc \in Publishing
  PROVE  /\ DOMAIN Packages!Written(t, f) \subseteq Packages!Keys
         /\ Packages!Written(t, f) \in [DOMAIN Packages!Written(t, f) -> Contents]
BY ToolsTyped DEF PackagesTyped, Packages!TypeOK, ToolsHold, Packages!Keys, Packages!Inventories

LEMMA IdleTyped == Packages!Idle \in Packages!Tool
BY DEF Packages!Idle, Packages!Tool

LEMMA PackagesTypedStep == PackagesTyped /\ [Packages!Next]_(Packages!vars) => PackagesTyped'
<1> SUFFICES ASSUME PackagesTyped, [Packages!Next]_(Packages!vars) PROVE PackagesTyped'
  OBVIOUS
<1> USE DEF PackagesTyped
<1>1. ASSUME NEW t \in Tools, NEW f \in Paths, Packages!Upload(t, f) PROVE PackagesTyped'
  <2>1. tool' \in [Tools -> Packages!Tool]
    BY <1>1, ToolsTyped DEF Packages!Upload, Packages!PutIfAbsent, Packages!Tool
  <2>2. DOMAIN objects' \subseteq Packages!Keys /\ objects' \in [DOMAIN objects' -> Contents]
    BY <1>1, WrittenTyped DEF Packages!Upload, Packages!PutIfAbsent, Packages!TypeOK, Publishing
  <2>3. ToolsHold'
    BY <1>1, ToolsTyped DEF Packages!Upload, Packages!PutIfAbsent, ToolsHold, Publishing,
       Packages!Tool
  <2>4. QED
    BY <1>1, <2>1, <2>2, <2>3 DEF Packages!Upload, Packages!TypeOK
<1>2. ASSUME NEW t \in Tools, NEW f \in Paths, Packages!Head(t, f) PROVE PackagesTyped'
  <2>1. CASE Packages!Become(t, [tool[t] EXCEPT !.pc = "putting", !.file = f])
    <3>1. tool' \in [Tools -> Packages!Tool]
      BY <2>1, ToolsTyped DEF Packages!Tool
    <3>2. ToolsHold'
      BY <1>2, <2>1, ToolsTyped DEF Packages!Head, ToolsHold, Publishing, Packages!Tool
    <3>3. QED
      BY <1>2, <3>1, <3>2 DEF Packages!Head, Packages!TypeOK
  <2>2. CASE Packages!Become(t, [tool[t] EXCEPT !.left = @ \ {f}])
    <3>1. tool' \in [Tools -> Packages!Tool]
      BY <2>2, ToolsTyped DEF Packages!Tool
    <3>2. ToolsHold'
      BY <1>2, <2>2, ToolsTyped DEF Packages!Head, ToolsHold, Publishing, Packages!Tool
    <3>3. QED
      BY <1>2, <3>1, <3>2 DEF Packages!Head, Packages!TypeOK
  <2>3. QED
    BY <1>2, <2>1, <2>2 DEF Packages!Head
<1>3. ASSUME NEW t \in Tools, Packages!Put(t) PROVE PackagesTyped'
  <2>1. tool' \in [Tools -> Packages!Tool]
    BY <1>3, ToolsTyped DEF Packages!Put, Packages!Tool
  <2>2. DOMAIN objects' \subseteq Packages!Keys /\ objects' \in [DOMAIN objects' -> Contents]
    BY <1>3, WrittenTyped DEF Packages!Put, ToolsHold, Publishing
  <2>3. ToolsHold'
    BY <1>3, ToolsTyped DEF Packages!Put, ToolsHold, Publishing, Packages!Tool
  <2>4. QED
    BY <1>3, <2>1, <2>2, <2>3 DEF Packages!Put, Packages!TypeOK
<1>4. ASSUME NEW t \in Tools, Packages!Uploaded(t) PROVE PackagesTyped'
  <2>1. tool' \in [Tools -> Packages!Tool]
    BY <1>4, ToolsTyped DEF Packages!Uploaded, Packages!Tool
  <2>2. ToolsHold'
    BY <1>4, ToolsTyped DEF Packages!Uploaded, ToolsHold, Publishing, Packages!Tool
  <2>3. QED
    BY <1>4, <2>1, <2>2 DEF Packages!Uploaded, Packages!TypeOK
<1>5. ASSUME NEW t \in Tools, NEW f \in Paths, Packages!Verify(t, f) PROVE PackagesTyped'
  <2>1. tool' \in [Tools -> Packages!Tool]
    BY <1>5, ToolsTyped DEF Packages!Verify, Packages!Tool
  <2>2. ToolsHold'
    BY <1>5, ToolsTyped DEF Packages!Verify, ToolsHold, Publishing, Packages!Tool
  <2>3. QED
    BY <1>5, <2>1, <2>2 DEF Packages!Verify, Packages!TypeOK
<1>6. ASSUME NEW t \in Tools, Packages!Verified(t) PROVE PackagesTyped'
  <2>1. tool' \in [Tools -> Packages!Tool]
    BY <1>6, ToolsTyped DEF Packages!Verified, Packages!Tool
  <2>2. ToolsHold'
    BY <1>6, ToolsTyped DEF Packages!Verified, ToolsHold, Publishing, Packages!Tool
  <2>3. QED
    BY <1>6, <2>1, <2>2 DEF Packages!Verified, Packages!TypeOK
<1>7. ASSUME NEW t \in Tools, Packages!FindExistingBooks(t) PROVE PackagesTyped'
  <2>1. tool' \in [Tools -> Packages!Tool]
    BY <1>7, ToolsTyped DEF Packages!FindExistingBooks, Packages!Tool
  <2>2. ToolsHold'
    BY <1>7, ToolsTyped DEF Packages!FindExistingBooks, ToolsHold, Publishing, Packages!Tool
  <2>3. QED
    BY <1>7, <2>1, <2>2, PackageAssumption DEF Packages!FindExistingBooks, Packages!TypeOK
<1>8. ASSUME NEW t \in Tools, Packages!Preflight(t) PROVE PackagesTyped'
  <2>1. [kind |-> "preset", hash |-> directory] \in Packages!Prefixes
    BY DEF Packages!TypeOK, Packages!Prefixes
  <2>2. tool' \in [Tools -> Packages!Tool]
    BY <1>8, <2>1, ToolsTyped DEF Packages!Preflight, Packages!Tool
  <2>3. ToolsHold'
    BY <1>8, <2>1, ToolsTyped DEF Packages!Preflight, ToolsHold, Publishing, Packages!Tool
  <2>4. QED
    BY <1>8, <2>2, <2>3 DEF Packages!Preflight, Packages!TypeOK
<1>9. ASSUME NEW t \in Tools, Packages!PublishPreset(t) PROVE PackagesTyped'
  <2>1. tool[t].prefix \in Packages!Prefixes /\ directory \in Packages!Inventories
    BY <1>9 DEF Packages!PublishPreset, ToolsHold, Packages!TypeOK
  <2>2. tool' \in [Tools -> Packages!Tool]
    BY <1>9, <2>1, ToolsTyped DEF Packages!PublishPreset, Packages!Tool
  <2>3. ToolsHold'
    BY <1>9, <2>1, ToolsTyped DEF Packages!PublishPreset, ToolsHold, Publishing, Packages!Tool
  <2>4. QED
    BY <1>9, <2>2, <2>3 DEF Packages!PublishPreset, Packages!TypeOK
<1>10. ASSUME NEW t \in Tools, Packages!InsertReadyPresetBook(t) PROVE PackagesTyped'
  <2>1. sharedBook' \in Packages!Book
    BY <1>10, ToolsTyped DEF Packages!InsertReadyPresetBook, ToolsHold, Publishing, Packages!Book,
       Packages!Package, Packages!Row
  <2>2. tool' \in [Tools -> Packages!Tool]
    BY <1>10, IdleTyped, ToolsTyped DEF Packages!InsertReadyPresetBook
  <2>3. ToolsHold'
    BY <1>10, <2>1, ToolsTyped DEF Packages!InsertReadyPresetBook, ToolsHold, Publishing,
       Packages!Idle
  <2>4. QED
    BY <1>10, <2>1, <2>2, <2>3 DEF Packages!InsertReadyPresetBook, Packages!TypeOK
<1>11. ASSUME NEW f \in Paths, NEW c \in Contents, Packages!Edit(f, c) PROVE PackagesTyped'
  <2>1. directory' \in Packages!Inventories
    BY <1>11 DEF Packages!Edit, Packages!TypeOK, Packages!Inventories
  <2>2. edits' \in 0..MaxEdits
    BY <1>11, PackageAssumption DEF Packages!Edit, Packages!TypeOK
  <2>3. QED
    BY <1>11, <2>1, <2>2 DEF Packages!Edit, Packages!TypeOK, ToolsHold
<1>12. ASSUME NEW t \in Tools, Packages!FindReady(t) PROVE PackagesTyped'
  <2>1. tool' \in [Tools -> Packages!Tool]
    BY <1>12, ToolsTyped DEF Packages!FindReady, Packages!Tool
  <2>2. ToolsHold'
    BY <1>12, ToolsTyped DEF Packages!FindReady, ToolsHold, Publishing, Packages!Tool
  <2>3. QED
    BY <1>12, <2>1, <2>2, PackageAssumption DEF Packages!FindReady, Packages!TypeOK
<1>13. ASSUME NEW t \in Tools, Packages!LoadBook(t) PROVE PackagesTyped'
  <2>1. sharedBook' \in Packages!Book
    BY <1>13 DEF Packages!LoadBook, Packages!TypeOK, Packages!Book
  <2>2. PICK loaded \in BOOLEAN : Packages!Become(t, [tool[t] EXCEPT !.pc = "loaded",
          !.loaded = loaded])
    BY <1>13, Zenon DEF Packages!LoadBook
  <2>3. tool' \in [Tools -> Packages!Tool] /\ ToolsHold'
    <3>1. tool' \in [Tools -> Packages!Tool]
      BY <2>2, ToolsTyped DEF Packages!Tool
    <3>2. ToolsHold'
      BY <1>13, <2>1, <2>2, ToolsTyped DEF Packages!LoadBook, ToolsHold, Publishing, Packages!Tool
    <3>3. QED
      BY <3>1, <3>2
  <2>4. QED
    BY <1>13, <2>1, <2>3 DEF Packages!LoadBook, Packages!TypeOK
<1>14. ASSUME NEW t \in Tools, Packages!ExpireRun(t) PROVE PackagesTyped'
  BY <1>14 DEF Packages!ExpireRun, Packages!TypeOK, ToolsHold
<1>15. ASSUME NEW t \in Tools, NEW output \in Packages!Inventories, Packages!StartRun(t, output)
       PROVE PackagesTyped'
  <2>1. [kind |-> "ingest", hash |-> output] \in Packages!Prefixes
    BY DEF Packages!Prefixes
  <2>2. sharedBook' \in Packages!Book
    BY <1>15 DEF Packages!StartRun, ToolsHold, Packages!Book
  <2>3. tool' \in [Tools -> Packages!Tool]
    BY <1>15, <2>1, ToolsTyped DEF Packages!StartRun, Packages!Tool
  <2>4. ToolsHold'
    BY <1>15, <2>1, <2>2, ToolsTyped DEF Packages!StartRun, ToolsHold, Publishing, Packages!Tool
  <2>5. QED
    BY <1>15, <2>2, <2>3, <2>4 DEF Packages!StartRun, Packages!TypeOK
<1>16. ASSUME NEW t \in Tools, Packages!PublishRun(t) PROVE PackagesTyped'
  <2>1. sharedBook' \in Packages!Book
    BY <1>16, ToolsTyped DEF Packages!PublishRun, ToolsHold, Publishing, Packages!Book,
       Packages!Package, Packages!Row
  <2>2. tool' \in [Tools -> Packages!Tool]
    BY <1>16, IdleTyped, ToolsTyped DEF Packages!PublishRun
  <2>3. ToolsHold'
    BY <1>16, <2>1, ToolsTyped DEF Packages!PublishRun, ToolsHold, Publishing, Packages!Idle
  <2>4. QED
    BY <1>16, <2>1, <2>2, <2>3 DEF Packages!PublishRun, Packages!TypeOK
<1>17. ASSUME NEW t \in Tools, Packages!Fails(t) PROVE PackagesTyped'
  <2>1. sharedBook' \in Packages!Book \cup {None}
          /\ (sharedBook \in Packages!Book => sharedBook' \in Packages!Book)
    BY <1>17 DEF Packages!Fails, ToolsHold, Packages!Book, Packages!TypeOK
  <2>2. tool' \in [Tools -> Packages!Tool]
    BY <1>17, IdleTyped, ToolsTyped DEF Packages!Fails
  <2>3. ToolsHold'
    BY <1>17, <2>1, ToolsTyped DEF Packages!Fails, ToolsHold, Publishing, Packages!Idle
  <2>4. ingestRun' \in Tools \cup {None}
    BY <1>17 DEF Packages!Fails, Packages!TypeOK
  <2>5. QED
    BY <1>17, <2>1, <2>2, <2>3, <2>4 DEF Packages!Fails, Packages!TypeOK
<1>18. ASSUME NEW t \in Tools, Packages!Crash(t) PROVE PackagesTyped'
  <2>1. tool' \in [Tools -> Packages!Tool]
    BY <1>18, IdleTyped, ToolsTyped DEF Packages!Crash
  <2>2. ToolsHold'
    BY <1>18, ToolsTyped DEF Packages!Crash, ToolsHold, Publishing, Packages!Idle
  <2>3. QED
    BY <1>18, <2>1, <2>2 DEF Packages!Crash, Packages!TypeOK
<1>19. CASE UNCHANGED Packages!vars
  BY <1>19 DEF Packages!vars, Packages!TypeOK, ToolsHold
<1>20. QED
  BY <1>1, <1>2, <1>3, <1>4, <1>5, <1>6, <1>7, <1>8, <1>9, <1>10, <1>11, <1>12, <1>13, <1>14,
     <1>15, <1>16, <1>17, <1>18, <1>19 DEF Packages!Next

(***************************************************************************)
(* A published package is whole                                            *)
(***************************************************************************)
\* The property speaks of behaviours that keep to this; once they do not, they never do again.
Sheltered == conditional \/ edits = 0

\* Without a conditional put, and without edits, the key of an object tells its content: whoever
\* writes it writes the same.
KeysTellContents ==
  ~conditional /\ edits = 0 =>
    /\ \A t \in Tools : Packages!At(t, "preflighted") => tool[t].prefix.hash = directory
    /\ \A t \in Tools : tool[t].pc \in Publishing => tool[t].inventory = tool[t].prefix.hash
    /\ \A k \in DOMAIN objects : objects[k] = k[1].hash[k[2]]

PutsAreBare == conditional => \A t \in Tools : ~Packages!At(t, "putting")

\* What a tool has verified is in the storage, and so is the package of the book.
VerifiedIsStored ==
  Sheltered => \A t \in Tools, f \in Paths :
    \/ Packages!At(t, "published")
    \/ Packages!At(t, "verifying") /\ f \notin tool[t].left
    => Packages!Same(t, f)

\* There is a row of the book, as a tool that loaded it knows.
Present == sharedBook # None \/ \E t \in Tools : Packages!At(t, "loaded") \/ Packages!RunCreated(t)

Stored(bundle) ==
  \A f \in Paths : /\ <<bundle.prefix, f>> \in DOMAIN objects
                   /\ objects[<<bundle.prefix, f>>] = bundle.fileHashes[f]

BookIsStored == Sheltered /\ Present /\ sharedBook.package # None => Stored(sharedBook.package)

WholeInv == PackagesTyped /\ KeysTellContents /\ PutsAreBare /\ VerifiedIsStored /\ BookIsStored

LEMMA WholeInvInit == Packages!Init => WholeInv
<1> SUFFICES ASSUME Packages!Init PROVE WholeInv
  OBVIOUS
<1>1. KeysTellContents /\ PutsAreBare /\ VerifiedIsStored
  BY DEF Packages!Init, Packages!Idle, KeysTellContents, PutsAreBare, VerifiedIsStored, Publishing
<1>2. BookIsStored
  BY DEF Packages!Init, Packages!Idle, BookIsStored, Present
<1>3. QED
  BY <1>1, <1>2, PackagesTypedInit DEF WholeInv

\* Edits are not taken back.
LEMMA ShelteredBefore == ASSUME PackagesTyped, [Packages!Next]_(Packages!vars), Sheltered'
  PROVE Sheltered
<1>1. edits \in Nat
  BY PackageAssumption DEF PackagesTyped, Packages!TypeOK
<1>2. conditional' = conditional
  BY DEF Packages!Next, Packages!vars, Packages!Upload, Packages!Head, Packages!Put,
     Packages!Uploaded, Packages!Verify, Packages!Verified, Packages!FindExistingBooks,
     Packages!Preflight,
         Packages!PublishPreset, Packages!InsertReadyPresetBook, Packages!Edit, Packages!FindReady,
         Packages!LoadBook, Packages!ExpireRun, Packages!StartRun,
         Packages!PublishRun, Packages!Fails, Packages!Crash
<1>3. edits' = edits \/ edits' = edits + 1
  BY DEF Packages!Next, Packages!vars, Packages!Upload, Packages!Head, Packages!Put,
     Packages!Uploaded, Packages!Verify, Packages!Verified, Packages!FindExistingBooks,
     Packages!Preflight,
         Packages!PublishPreset, Packages!InsertReadyPresetBook, Packages!Edit, Packages!FindReady,
         Packages!LoadBook, Packages!ExpireRun, Packages!StartRun,
         Packages!PublishRun, Packages!Fails, Packages!Crash
<1>4. QED
  BY <1>1, <1>2, <1>3 DEF Sheltered

\* Who writes an object: the two actions of a tool that uploads.
LEMMA ObjectWriters ==
  ASSUME [Packages!Next]_(Packages!vars)
  PROVE  \/ UNCHANGED objects
         \/ \E t \in Tools, f \in Paths : Packages!Upload(t, f)
         \/ \E t \in Tools : Packages!Put(t)
BY DEF Packages!Next, Packages!vars, Packages!Head, Packages!Uploaded, Packages!Verify,
   Packages!Verified, Packages!FindExistingBooks, Packages!Preflight,
       Packages!PublishPreset, Packages!InsertReadyPresetBook, Packages!Edit, Packages!FindReady,
       Packages!LoadBook, Packages!ExpireRun, Packages!StartRun,
       Packages!PublishRun, Packages!Fails, Packages!Crash

\* What is in the storage stays as it is.
ObjectsKept == \A k \in DOMAIN objects : k \in DOMAIN objects' /\ objects'[k] = objects[k]

LEMMA ObjectsAreKept == ASSUME WholeInv, [Packages!Next]_(Packages!vars), Sheltered'
  PROVE ObjectsKept
<1>1. Sheltered
  BY ShelteredBefore DEF WholeInv
<1>2. ASSUME NEW t \in Tools, NEW f \in Paths, Packages!Upload(t, f) PROVE ObjectsKept
  BY <1>2 DEF Packages!Upload, Packages!PutIfAbsent, ObjectsKept
<1>3. ASSUME NEW t \in Tools, Packages!Put(t) PROVE ObjectsKept
  <2> DEFINE key == Packages!Key(t, tool[t].file)
  <2>1. ~conditional /\ edits = 0
    BY <1>1, <1>3 DEF Sheltered, WholeInv, PutsAreBare, Packages!Put
  <2>2. tool[t].inventory = tool[t].prefix.hash
    BY <1>3, <2>1 DEF WholeInv, KeysTellContents, Packages!Put, Publishing
  <2>3. key \in DOMAIN objects => objects[key] = tool[t].inventory[tool[t].file]
    BY <2>1, <2>2 DEF WholeInv, KeysTellContents
  <2>4. QED
    BY <1>3, <2>3 DEF Packages!Put, ObjectsKept
<1>4. QED
  BY <1>2, <1>3, ObjectWriters DEF ObjectsKept

LEMMA PutsAreBareStep == WholeInv /\ [Packages!Next]_(Packages!vars) => PutsAreBare'
<1> SUFFICES ASSUME WholeInv, [Packages!Next]_(Packages!vars) PROVE PutsAreBare'
  OBVIOUS
<1> USE ToolsTyped DEF WholeInv, PutsAreBare, Packages!Tool
<1>1. ASSUME NEW t \in Tools, NEW f \in Paths, Packages!Upload(t, f) PROVE PutsAreBare'
  BY <1>1 DEF Packages!Upload, Packages!PutIfAbsent
<1>2. ASSUME NEW t \in Tools, NEW f \in Paths, Packages!Head(t, f) PROVE PutsAreBare'
  <2>1. CASE Packages!Become(t, [tool[t] EXCEPT !.pc = "putting", !.file = f])
    BY <1>2, <2>1 DEF Packages!Head
  <2>2. CASE Packages!Become(t, [tool[t] EXCEPT !.left = @ \ {f}])
    BY <1>2, <2>2 DEF Packages!Head
  <2>3. QED
    BY <1>2, <2>1, <2>2 DEF Packages!Head
<1>3. ASSUME NEW t \in Tools, Packages!Put(t) PROVE PutsAreBare'
  BY <1>3 DEF Packages!Put
<1>4. ASSUME NEW t \in Tools, Packages!Uploaded(t) PROVE PutsAreBare'
  BY <1>4 DEF Packages!Uploaded
<1>5. ASSUME NEW t \in Tools, NEW f \in Paths, Packages!Verify(t, f) PROVE PutsAreBare'
  BY <1>5 DEF Packages!Verify
<1>6. ASSUME NEW t \in Tools, Packages!Verified(t) PROVE PutsAreBare'
  BY <1>6 DEF Packages!Verified
<1>7. ASSUME NEW t \in Tools, Packages!FindExistingBooks(t) PROVE PutsAreBare'
  BY <1>7 DEF Packages!FindExistingBooks
<1>8. ASSUME NEW t \in Tools, Packages!Preflight(t) PROVE PutsAreBare'
  BY <1>8 DEF Packages!Preflight
<1>9. ASSUME NEW t \in Tools, Packages!PublishPreset(t) PROVE PutsAreBare'
  BY <1>9 DEF Packages!PublishPreset
<1>10. ASSUME NEW t \in Tools, Packages!InsertReadyPresetBook(t) PROVE PutsAreBare'
  BY <1>10 DEF Packages!InsertReadyPresetBook, Packages!Idle
<1>11. ASSUME NEW f \in Paths, NEW c \in Contents, Packages!Edit(f, c) PROVE PutsAreBare'
  BY <1>11 DEF Packages!Edit
<1>12. ASSUME NEW t \in Tools, Packages!FindReady(t) PROVE PutsAreBare'
  BY <1>12 DEF Packages!FindReady
<1>13. ASSUME NEW t \in Tools, Packages!LoadBook(t) PROVE PutsAreBare'
  BY <1>13 DEF Packages!LoadBook
<1>14. ASSUME NEW t \in Tools, Packages!ExpireRun(t) PROVE PutsAreBare'
  BY <1>14 DEF Packages!ExpireRun
<1>15. ASSUME NEW t \in Tools, NEW output \in Packages!Inventories, Packages!StartRun(t, output)
       PROVE PutsAreBare'
  BY <1>15 DEF Packages!StartRun
<1>16. ASSUME NEW t \in Tools, Packages!PublishRun(t) PROVE PutsAreBare'
  BY <1>16 DEF Packages!PublishRun, Packages!Idle
<1>17. ASSUME NEW t \in Tools, Packages!Fails(t) PROVE PutsAreBare'
  BY <1>17 DEF Packages!Fails, Packages!Idle
<1>18. ASSUME NEW t \in Tools, Packages!Crash(t) PROVE PutsAreBare'
  BY <1>18 DEF Packages!Crash, Packages!Idle
<1>19. CASE UNCHANGED Packages!vars
  BY <1>19 DEF Packages!vars
<1>20. QED
  BY <1>1, <1>2, <1>3, <1>4, <1>5, <1>6, <1>7, <1>8, <1>9, <1>10, <1>11, <1>12, <1>13, <1>14,
     <1>15, <1>16, <1>17, <1>18, <1>19 DEF Packages!Next

LEMMA KeysTellContentsStep == WholeInv /\ [Packages!Next]_(Packages!vars) => KeysTellContents'
<1> SUFFICES ASSUME WholeInv, [Packages!Next]_(Packages!vars), ~conditional', edits' = 0
             PROVE KeysTellContents'
  BY DEF KeysTellContents
<1> USE ToolsTyped DEF WholeInv, Packages!Tool, Publishing
<1>a. edits \in Nat
  BY PackageAssumption DEF PackagesTyped, Packages!TypeOK
<1>1. ASSUME NEW t \in Tools, NEW f \in Paths, Packages!Upload(t, f) PROVE KeysTellContents'
  BY <1>1 DEF Packages!Upload, Packages!PutIfAbsent
<1>2. ASSUME NEW t \in Tools, NEW f \in Paths, Packages!Head(t, f) PROVE KeysTellContents'
  <2>1. CASE Packages!Become(t, [tool[t] EXCEPT !.pc = "putting", !.file = f])
    BY <1>2, <2>1 DEF Packages!Head, KeysTellContents
  <2>2. CASE Packages!Become(t, [tool[t] EXCEPT !.left = @ \ {f}])
    BY <1>2, <2>2 DEF Packages!Head, KeysTellContents
  <2>3. QED
    BY <1>2, <2>1, <2>2 DEF Packages!Head
<1>3. ASSUME NEW t \in Tools, Packages!Put(t) PROVE KeysTellContents'
  BY <1>3 DEF Packages!Put, KeysTellContents
<1>4. ASSUME NEW t \in Tools, Packages!Uploaded(t) PROVE KeysTellContents'
  BY <1>4 DEF Packages!Uploaded, KeysTellContents
<1>5. ASSUME NEW t \in Tools, NEW f \in Paths, Packages!Verify(t, f) PROVE KeysTellContents'
  BY <1>5 DEF Packages!Verify, KeysTellContents
<1>6. ASSUME NEW t \in Tools, Packages!Verified(t) PROVE KeysTellContents'
  BY <1>6 DEF Packages!Verified, KeysTellContents
<1>7. ASSUME NEW t \in Tools, Packages!FindExistingBooks(t) PROVE KeysTellContents'
  BY <1>7 DEF Packages!FindExistingBooks, KeysTellContents
<1>8. ASSUME NEW t \in Tools, Packages!Preflight(t) PROVE KeysTellContents'
  BY <1>8 DEF Packages!Preflight, KeysTellContents
<1>9. ASSUME NEW t \in Tools, Packages!PublishPreset(t) PROVE KeysTellContents'
  BY <1>9 DEF Packages!PublishPreset, KeysTellContents
<1>10. ASSUME NEW t \in Tools, Packages!InsertReadyPresetBook(t) PROVE KeysTellContents'
  BY <1>10 DEF Packages!InsertReadyPresetBook, Packages!Idle, KeysTellContents
<1>11. ASSUME NEW f \in Paths, NEW c \in Contents, Packages!Edit(f, c) PROVE KeysTellContents'
  BY <1>11, <1>a DEF Packages!Edit
<1>12. ASSUME NEW t \in Tools, Packages!FindReady(t) PROVE KeysTellContents'
  BY <1>12 DEF Packages!FindReady, KeysTellContents
<1>13. ASSUME NEW t \in Tools, Packages!LoadBook(t) PROVE KeysTellContents'
  BY <1>13 DEF Packages!LoadBook, KeysTellContents
<1>14. ASSUME NEW t \in Tools, Packages!ExpireRun(t) PROVE KeysTellContents'
  BY <1>14 DEF Packages!ExpireRun, KeysTellContents
<1>15. ASSUME NEW t \in Tools, NEW output \in Packages!Inventories, Packages!StartRun(t, output)
       PROVE KeysTellContents'
  BY <1>15 DEF Packages!StartRun, KeysTellContents
<1>16. ASSUME NEW t \in Tools, Packages!PublishRun(t) PROVE KeysTellContents'
  BY <1>16 DEF Packages!PublishRun, Packages!Idle, KeysTellContents
<1>17. ASSUME NEW t \in Tools, Packages!Fails(t) PROVE KeysTellContents'
  BY <1>17 DEF Packages!Fails, Packages!Idle, KeysTellContents
<1>18. ASSUME NEW t \in Tools, Packages!Crash(t) PROVE KeysTellContents'
  BY <1>18 DEF Packages!Crash, Packages!Idle, KeysTellContents
<1>19. CASE UNCHANGED Packages!vars
  BY <1>19 DEF Packages!vars, KeysTellContents
<1>20. QED
  BY <1>1, <1>2, <1>3, <1>4, <1>5, <1>6, <1>7, <1>8, <1>9, <1>10, <1>11, <1>12, <1>13, <1>14,
     <1>15, <1>16, <1>17, <1>18, <1>19 DEF Packages!Next

LEMMA VerifiedIsStoredStep == WholeInv /\ [Packages!Next]_(Packages!vars) => VerifiedIsStored'
<1> SUFFICES ASSUME WholeInv, [Packages!Next]_(Packages!vars), Sheltered' PROVE VerifiedIsStored'
  BY DEF VerifiedIsStored
<1> USE ToolsTyped DEF WholeInv, Packages!Tool
<1>a. Sheltered /\ ObjectsKept
  BY ShelteredBefore, ObjectsAreKept
<1> USE <1>a DEF ObjectsKept
<1>1. ASSUME NEW t \in Tools, NEW f \in Paths, Packages!Upload(t, f) PROVE VerifiedIsStored'
  BY <1>1 DEF Packages!Upload, Packages!PutIfAbsent, VerifiedIsStored
<1>2. ASSUME NEW t \in Tools, NEW f \in Paths, Packages!Head(t, f) PROVE VerifiedIsStored'
  <2>1. CASE Packages!Become(t, [tool[t] EXCEPT !.pc = "putting", !.file = f])
    BY <1>2, <2>1 DEF Packages!Head, VerifiedIsStored
  <2>2. CASE Packages!Become(t, [tool[t] EXCEPT !.left = @ \ {f}])
    BY <1>2, <2>2 DEF Packages!Head, VerifiedIsStored
  <2>3. QED
    BY <1>2, <2>1, <2>2 DEF Packages!Head
<1>3. ASSUME NEW t \in Tools, Packages!Put(t) PROVE VerifiedIsStored'
  BY <1>3 DEF Packages!Put, VerifiedIsStored
<1>4. ASSUME NEW t \in Tools, Packages!Uploaded(t) PROVE VerifiedIsStored'
  BY <1>4 DEF Packages!Uploaded, VerifiedIsStored
<1>5. ASSUME NEW t \in Tools, NEW f \in Paths, Packages!Verify(t, f) PROVE VerifiedIsStored'
  BY <1>5 DEF Packages!Verify, VerifiedIsStored
<1>6. ASSUME NEW t \in Tools, Packages!Verified(t) PROVE VerifiedIsStored'
  BY <1>6 DEF Packages!Verified, VerifiedIsStored
<1>7. ASSUME NEW t \in Tools, Packages!FindExistingBooks(t) PROVE VerifiedIsStored'
  BY <1>7 DEF Packages!FindExistingBooks, VerifiedIsStored
<1>8. ASSUME NEW t \in Tools, Packages!Preflight(t) PROVE VerifiedIsStored'
  BY <1>8 DEF Packages!Preflight, VerifiedIsStored
<1>9. ASSUME NEW t \in Tools, Packages!PublishPreset(t) PROVE VerifiedIsStored'
  BY <1>9 DEF Packages!PublishPreset, VerifiedIsStored
<1>10. ASSUME NEW t \in Tools, Packages!InsertReadyPresetBook(t) PROVE VerifiedIsStored'
  BY <1>10 DEF Packages!InsertReadyPresetBook, Packages!Idle, VerifiedIsStored
<1>11. ASSUME NEW f \in Paths, NEW c \in Contents, Packages!Edit(f, c) PROVE VerifiedIsStored'
  BY <1>11 DEF Packages!Edit, VerifiedIsStored
<1>12. ASSUME NEW t \in Tools, Packages!FindReady(t) PROVE VerifiedIsStored'
  BY <1>12 DEF Packages!FindReady, VerifiedIsStored
<1>13. ASSUME NEW t \in Tools, Packages!LoadBook(t) PROVE VerifiedIsStored'
  BY <1>13 DEF Packages!LoadBook, VerifiedIsStored
<1>14. ASSUME NEW t \in Tools, Packages!ExpireRun(t) PROVE VerifiedIsStored'
  BY <1>14 DEF Packages!ExpireRun, VerifiedIsStored
<1>15. ASSUME NEW t \in Tools, NEW output \in Packages!Inventories, Packages!StartRun(t, output)
       PROVE VerifiedIsStored'
  BY <1>15 DEF Packages!StartRun, VerifiedIsStored
<1>16. ASSUME NEW t \in Tools, Packages!PublishRun(t) PROVE VerifiedIsStored'
  BY <1>16 DEF Packages!PublishRun, Packages!Idle, VerifiedIsStored
<1>17. ASSUME NEW t \in Tools, Packages!Fails(t) PROVE VerifiedIsStored'
  BY <1>17 DEF Packages!Fails, Packages!Idle, VerifiedIsStored
<1>18. ASSUME NEW t \in Tools, Packages!Crash(t) PROVE VerifiedIsStored'
  BY <1>18 DEF Packages!Crash, Packages!Idle, VerifiedIsStored
<1>19. CASE UNCHANGED Packages!vars
  BY <1>19 DEF Packages!vars, VerifiedIsStored
<1>20. QED
  BY <1>1, <1>2, <1>3, <1>4, <1>5, <1>6, <1>7, <1>8, <1>9, <1>10, <1>11, <1>12, <1>13, <1>14,
     <1>15, <1>16, <1>17, <1>18, <1>19 DEF Packages!Next

LEMMA BookIsStoredStep == WholeInv /\ [Packages!Next]_(Packages!vars) => BookIsStored'
<1> SUFFICES ASSUME WholeInv, [Packages!Next]_(Packages!vars), Sheltered', Present',
                    sharedBook'.package # None
             PROVE  Stored(sharedBook.package)'
  BY DEF BookIsStored
<1> USE ToolsTyped DEF WholeInv, Packages!Tool
<1>a. Sheltered /\ ObjectsKept
  BY ShelteredBefore, ObjectsAreKept
<1> USE <1>a DEF ObjectsKept, BookIsStored, Stored
<1>1. ASSUME NEW t \in Tools, NEW f \in Paths, Packages!Upload(t, f)
      PROVE Stored(sharedBook.package)'
  BY <1>1 DEF Packages!Upload, Packages!PutIfAbsent, Present
<1>2. ASSUME NEW t \in Tools, NEW f \in Paths, Packages!Head(t, f) PROVE Stored(sharedBook.package)'
  <2>1. CASE Packages!Become(t, [tool[t] EXCEPT !.pc = "putting", !.file = f])
    BY <1>2, <2>1 DEF Packages!Head, Present
  <2>2. CASE Packages!Become(t, [tool[t] EXCEPT !.left = @ \ {f}])
    BY <1>2, <2>2 DEF Packages!Head, Present
  <2>3. QED
    BY <1>2, <2>1, <2>2 DEF Packages!Head
<1>3. ASSUME NEW t \in Tools, Packages!Put(t) PROVE Stored(sharedBook.package)'
  BY <1>3 DEF Packages!Put, Present
<1>4. ASSUME NEW t \in Tools, Packages!Uploaded(t) PROVE Stored(sharedBook.package)'
  BY <1>4 DEF Packages!Uploaded, Present
<1>5. ASSUME NEW t \in Tools, NEW f \in Paths, Packages!Verify(t, f)
      PROVE Stored(sharedBook.package)'
  BY <1>5 DEF Packages!Verify, Present
<1>6. ASSUME NEW t \in Tools, Packages!Verified(t) PROVE Stored(sharedBook.package)'
  BY <1>6 DEF Packages!Verified, Present
<1>7. ASSUME NEW t \in Tools, Packages!FindExistingBooks(t) PROVE Stored(sharedBook.package)'
  BY <1>7 DEF Packages!FindExistingBooks, Present
<1>8. ASSUME NEW t \in Tools, Packages!Preflight(t) PROVE Stored(sharedBook.package)'
  BY <1>8 DEF Packages!Preflight, Present
<1>9. ASSUME NEW t \in Tools, Packages!PublishPreset(t) PROVE Stored(sharedBook.package)'
  BY <1>9 DEF Packages!PublishPreset, Present
<1>10. ASSUME NEW t \in Tools, Packages!InsertReadyPresetBook(t) PROVE Stored(sharedBook.package)'
  <2>1. \A f \in Paths : Packages!Same(t, f)
    BY <1>10 DEF Packages!InsertReadyPresetBook, VerifiedIsStored
  <2>2. sharedBook'.package = Packages!Package(t) /\ UNCHANGED objects
    BY <1>10 DEF Packages!InsertReadyPresetBook
  <2>3. QED
    BY <2>1, <2>2 DEF Packages!Package
<1>11. ASSUME NEW f \in Paths, NEW c \in Contents, Packages!Edit(f, c)
       PROVE Stored(sharedBook.package)'
  BY <1>11 DEF Packages!Edit, Present
<1>12. ASSUME NEW t \in Tools, Packages!FindReady(t) PROVE Stored(sharedBook.package)'
  BY <1>12 DEF Packages!FindReady, Present
<1>13. ASSUME NEW t \in Tools, Packages!LoadBook(t) PROVE Stored(sharedBook.package)'
  BY <1>13 DEF Packages!LoadBook, Present
<1>14. ASSUME NEW t \in Tools, Packages!ExpireRun(t) PROVE Stored(sharedBook.package)'
  BY <1>14 DEF Packages!ExpireRun, Present
<1>15. ASSUME NEW t \in Tools, NEW output \in Packages!Inventories, Packages!StartRun(t, output)
       PROVE  Stored(sharedBook.package)'
  BY <1>15 DEF Packages!StartRun, Present
<1>16. ASSUME NEW t \in Tools, Packages!PublishRun(t) PROVE Stored(sharedBook.package)'
  <2>1. \A f \in Paths : Packages!Same(t, f)
    BY <1>16 DEF Packages!PublishRun, VerifiedIsStored
  <2>2. sharedBook'.package = Packages!Package(t) /\ UNCHANGED objects
    BY <1>16 DEF Packages!PublishRun
  <2>3. QED
    BY <2>1, <2>2 DEF Packages!Package
<1>17. ASSUME NEW t \in Tools, Packages!Fails(t) PROVE Stored(sharedBook.package)'
  <2>1. sharedBook' = sharedBook
    BY <1>17 DEF Packages!Fails, PackagesTyped, ToolsHold, Packages!Book
  <2>2. QED
    BY <1>17, <2>1 DEF Packages!Fails, Packages!Idle, Present
<1>18. ASSUME NEW t \in Tools, Packages!Crash(t) PROVE Stored(sharedBook.package)'
  BY <1>18 DEF Packages!Crash, Packages!Idle, Present
<1>19. CASE UNCHANGED Packages!vars
  BY <1>19 DEF Packages!vars, Present
<1>20. QED
  BY <1>1, <1>2, <1>3, <1>4, <1>5, <1>6, <1>7, <1>8, <1>9, <1>10, <1>11, <1>12, <1>13, <1>14,
     <1>15, <1>16, <1>17, <1>18, <1>19 DEF Packages!Next

LEMMA WholeInvStep == WholeInv /\ [Packages!Next]_(Packages!vars) => WholeInv'
BY PackagesTypedStep, PutsAreBareStep, KeysTellContentsStep, VerifiedIsStoredStep, BookIsStoredStep
   DEF WholeInv
================================================================================
