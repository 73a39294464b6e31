----------------------- MODULE StrategyProposalsProofs -----------------------
(***************************************************************************)
(* Theorems about StrategyProposals, for any number of threads, requests,  *)
(* questions and proposals.                                                *)
(***************************************************************************)
EXTENDS StrategyProposals, FiniteSetTheorems, TLAPS

LEMMA ListOf ==
  ASSUME NEW S, NEW n \in Nat, NEW list \in [1..n -> S]
  PROVE  list \in Seq(S) /\ Len(list) = n
OBVIOUS

LEMMA OneWritten ==
  ASSUME NEW S, NEW n \in Nat, NEW list \in [1..n -> S], NEW i \in 1..n, NEW new \in S
  PROVE  /\ [list EXCEPT ![i] = new] \in [1..n -> S]
         /\ [list EXCEPT ![i] = new][i] = new
         /\ \A j \in 1..n \ {i} : [list EXCEPT ![i] = new][j] = list[j]
OBVIOUS

LEMMA Bounds == Tries \in Nat \ {0} /\ NoQuestion \notin Keys /\ NoThread \notin Threads
BY ProposalsAssumption

(***************************************************************************)
(* Type correctness                                                        *)
(***************************************************************************)
Steps == {"idle", "ask", "commit", "find", "run", "save", "advance", "locked"}

\* The variables of a request while there are n proposals.
Turn(n) ==
  [step: Steps, thread: Threads \cup {NoThread}, key: Keys \cup {NoQuestion}, q: Nat, seen: Nat,
   observed: Nat, pending: 0..n, tries: 0..Tries]

\* A request knows its thread and its question, and has a try left where it is about to use one.
TurnsTyped ==
  \A t \in Turns :
    /\ turn[t].step = "idle" => turn[t] = Idle
    /\ turn[t].step # "idle" => turn[t].thread \in Threads /\ turn[t].key \in Keys
    /\ turn[t].step \in {"ask", "find", "run", "save"} => turn[t].tries < Tries

\* A proposal has a revision, and a revision its proposal.
RowsTyped ==
  \A p \in 1..Len(proposals) : proposals[p].revision \in 1..Len(revisions)

TypeInv == TypeOK /\ TurnsTyped /\ RowsTyped

LEMMA TypeInvInit == Init => TypeInv
<1> SUFFICES ASSUME Init PROVE TypeInv
  OBVIOUS
<1>1. thread \in [Threads -> Thread]
  BY DEF Init, Thread
<1>2. turn \in [Turns -> Turn(Len(proposals))]
  BY Bounds DEF Init, Idle, Turn, Steps
<1>3. TurnsTyped /\ RowsTyped
  BY DEF Init, Idle, TurnsTyped, RowsTyped
<1>4. strategy \in Nat \ {0} /\ proposals \in Seq(Proposal) /\ revisions \in Seq(Revision) /\ asks \in Nat
  BY DEF Init
<1>5. QED
  BY <1>1, <1>2, <1>3, <1>4 DEF TypeInv, TypeOK, Turn, Steps

LEMMA Typed ==
  ASSUME TypeInv, NEW t \in Turns
  PROVE  /\ turn \in [Turns -> Turn(Len(proposals))]
         /\ turn[t] \in Turn(Len(proposals))
         /\ turn[t].step # "idle" =>
              /\ turn[t].thread \in Threads /\ turn[t].key \in Keys
              /\ thread[turn[t].thread] \in Thread
              /\ VersionOf(t) \in Nat /\ MessagesOf(t) \in SUBSET Messages
BY DEF TypeInv, TypeOK, TurnsTyped, Turn, Steps, Thread, VersionOf, MessagesOf

\* What an appended message does to the threads.
LEMMA AppendedIs ==
  ASSUME TypeInv, NEW t \in Turns, turn[t].step # "idle", NEW message \in Messages
  PROVE  /\ Appended(t, message) \in [Threads -> Thread]
         /\ Appended(t, message)[turn[t].thread].version = VersionOf(t) + 1
         /\ Appended(t, message)[turn[t].thread].messages = MessagesOf(t) \cup {message}
         /\ \A th \in Threads \ {turn[t].thread} : Appended(t, message)[th] = thread[th]
<1> DEFINE th == turn[t].thread
<1>1. /\ thread \in [Threads -> Thread] /\ th \in Threads /\ thread[th] \in Thread
      /\ VersionOf(t) = thread[th].version /\ MessagesOf(t) = thread[th].messages
  BY Typed DEF VersionOf, MessagesOf, TypeInv, TypeOK
<1> DEFINE first == [thread EXCEPT ![th].version = @ + 1]
<1>2. /\ first \in [Threads -> Thread]
      /\ first[th].version = VersionOf(t) + 1 /\ first[th].messages = MessagesOf(t)
      /\ \A u \in Threads \ {th} : first[u] = thread[u]
  BY <1>1 DEF Thread
<1>3. Appended(t, message) = [first EXCEPT ![th].messages = @ \cup {message}]
  BY <1>1 DEF Appended
<1> HIDE DEF first
<1>4. QED
  BY <1>1, <1>2, <1>3 DEF Thread

LEMMA AnswerTyped ==
  ASSUME TypeInv, NEW t \in Turns, turn[t].step # "idle"
  PROVE  AnswerMessage(t) \in Messages
BY Typed DEF AnswerMessage, Messages, Turn

\* A longer list of proposals does no harm to the requests.
LEMMA TurnWidens ==
  ASSUME NEW m \in Nat, NEW n \in Nat, m <= n
  PROVE  Turn(m) \subseteq Turn(n)
BY DEF Turn

\* What the steps write into a request.
LEMMA StepWritten ==
  ASSUME NEW n \in Nat, NEW own \in Turn(n), NEW step \in Steps
  PROVE  [own EXCEPT !.step = step] \in Turn(n)
BY DEF Turn

LEMMA QuestionWritten ==
  ASSUME NEW n \in Nat, NEW own \in Turn(n), NEW step \in Steps, NEW q \in Nat
  PROVE  [own EXCEPT !.step = step, !.q = q] \in Turn(n)
BY DEF Turn

LEMMA TriesWritten ==
  ASSUME NEW n \in Nat, NEW own \in Turn(n), NEW step \in Steps, NEW tries \in 0..Tries
  PROVE  [own EXCEPT !.step = step, !.tries = tries] \in Turn(n)
BY DEF Turn

LEMMA SeenWritten ==
  ASSUME NEW n \in Nat, NEW own \in Turn(n), NEW step \in Steps, NEW seen \in Nat,
         NEW tries \in 0..Tries
  PROVE  [own EXCEPT !.step = step, !.seen = seen, !.tries = tries] \in Turn(n)
BY DEF Turn

LEMMA QuestionCommitted ==
  ASSUME NEW n \in Nat, NEW own \in Turn(n), NEW step \in Steps, NEW q \in Nat, NEW tries \in 0..Tries
  PROVE  [own EXCEPT !.step = step, !.q = q, !.tries = tries] \in Turn(n)
BY DEF Turn

LEMMA PendingWritten ==
  ASSUME NEW n \in Nat, NEW own \in Turn(n), NEW step \in Steps, NEW pending \in 0..n
  PROVE  [own EXCEPT !.step = step, !.pending = pending] \in Turn(n)
BY DEF Turn

LEMMA IdleTyped == ASSUME NEW n \in Nat PROVE Idle \in Turn(n)
BY Bounds DEF Idle, Turn, Steps

LEMMA DroppedTyped ==
  ASSUME TypeInv, NEW d \in 1..Len(revisions)
  PROVE  /\ Dropped(d) \in Seq(Revision) /\ Len(Dropped(d)) = Len(revisions)
         /\ \A e \in 1..Len(revisions) :
              /\ Dropped(d)[e].proposal = revisions[e].proposal
              /\ Dropped(d)[e].observed = revisions[e].observed
              /\ Dropped(d)[e].draft =
                   IF e = d /\ revisions[e].draft = "draft" THEN "superseded" ELSE revisions[e].draft
<1>1. revisions \in Seq(Revision)
  BY DEF TypeInv, TypeOK
<1>2. \A e \in 1..Len(revisions) : revisions[e] \in Revision
  BY <1>1
<1>3. revisions \in [1..Len(revisions) -> Revision] /\ Len(revisions) \in Nat
  BY <1>1
<1>4. /\ Dropped(d) \in [1..Len(revisions) -> Revision]
      /\ \A e \in 1..Len(revisions) \ {d} : Dropped(d)[e] = revisions[e]
      /\ Dropped(d)[d] = [revisions[d] EXCEPT !.draft = IF @ = "draft" THEN "superseded" ELSE @]
  BY <1>3 DEF Dropped, Revision
<1>5. Dropped(d) \in Seq(Revision) /\ Len(Dropped(d)) = Len(revisions)
  BY <1>3, <1>4
<1>6. QED
  BY <1>2, <1>4, <1>5 DEF Revision

\* Steps that leave threads, proposals and revisions alone, a lost compare-and-set among them.
CommitLoses(t) == CommitQuestion(t) /\ VersionOf(t) # turn[t].seen

Quiet(t) ==
  \/ CommitLoses(t) \/ ReadForQuestion(t) \/ FindQaAnswer(t) \/ RunTurn(t) \/ Abandon(t)
  \/ ReadForAnswer(t) \/ LoseAnswer(t) \/ LockBook(t)

\* What a quiet step makes of its request.
LEMMA QuietTurn ==
  ASSUME TypeInv, NEW t \in Turns, Quiet(t)
  PROVE  /\ UNCHANGED <<strategy, thread, proposals, revisions, asks>>
         /\ turn[t].step # "idle"
         /\ \E own \in Turn(Len(proposals)) :
              /\ turn' = [turn EXCEPT ![t] = own]
              /\ own = Idle \/ (own.step # "idle" /\ own.thread = turn[t].thread
                                /\ own.key = turn[t].key /\ own.observed = turn[t].observed)
              /\ own.step \in {"ask", "find", "run", "save"} => own.tries < Tries
<1>a. /\ Len(proposals) \in Nat /\ Idle \in Turn(Len(proposals)) /\ turn[t] \in Turn(Len(proposals))
      /\ Idle.step = "idle" /\ (turn[t].step = "idle" => turn[t] = Idle)
      /\ turn[t].step \in {"ask", "find", "run", "save"} => turn[t].tries < Tries
  BY Typed, IdleTyped DEF TypeInv, TypeOK, TurnsTyped, Idle
<1>c. turn[t].tries \in 0..Tries
  BY <1>a DEF Turn
<1>b. turn[t].step # "idle" => VersionOf(t) \in Nat /\ MessagesOf(t) \in SUBSET Messages
  BY Typed
<1>1. CASE ReadForQuestion(t)
  <2> DEFINE own == IF Asked(t) # {}
                    THEN [turn[t] EXCEPT !.step = "find", !.q = SameQuestion(t).sequence]
                    ELSE [turn[t] EXCEPT !.step = "commit", !.seen = VersionOf(t), !.tries = @ + 1]
  <2>1. /\ UNCHANGED <<strategy, thread, proposals, revisions, asks>> /\ turn[t].step # "idle"
        /\ turn' = [turn EXCEPT ![t] = own]
    BY <1>1 DEF ReadForQuestion
  <2>2. own \in Turn(Len(proposals))
    <3>1. Asked(t) # {} => SameQuestion(t).sequence \in Nat
      BY <2>1, <1>b DEF Asked, SameQuestion, Messages
    <3>2. turn[t].tries + 1 \in 0..Tries
      BY <1>1, <1>a, <1>c, Bounds DEF ReadForQuestion
    <3>3. "find" \in Steps /\ "commit" \in Steps
      BY DEF Steps
    <3>4. QED
      BY <2>1, <3>1, <3>2, <3>3, <1>a, <1>b, QuestionWritten, SeenWritten
  <2>3. /\ own = Idle \/ (own.step # "idle" /\ own.thread = turn[t].thread
                          /\ own.key = turn[t].key /\ own.observed = turn[t].observed)
        /\ own.step \in {"ask", "find", "run", "save"} => own.tries < Tries
    BY <1>1, <2>1, <1>a, Bounds DEF ReadForQuestion, Turn
  <2>4. QED
    BY <2>1, <2>2, <2>3
<1>2. CASE FindQaAnswer(t)
  <2> DEFINE own == IF Answered(t) THEN Idle ELSE [turn[t] EXCEPT !.step = "run"]
  <2>1. /\ UNCHANGED <<strategy, thread, proposals, revisions, asks>> /\ turn[t].step # "idle"
        /\ turn' = [turn EXCEPT ![t] = own]
    BY <1>2 DEF FindQaAnswer, End, Goto
  <2>2. own \in Turn(Len(proposals))
    BY <1>2, <2>1, <1>a, <1>b, Bounds DEF FindQaAnswer, Turn, Steps
  <2>3. /\ own = Idle \/ (own.step # "idle" /\ own.thread = turn[t].thread
                          /\ own.key = turn[t].key /\ own.observed = turn[t].observed)
        /\ own.step \in {"ask", "find", "run", "save"} => own.tries < Tries
    BY <1>2, <2>1, <1>a, Bounds DEF FindQaAnswer, Turn
  <2>4. QED
    BY <2>1, <2>2, <2>3
<1>3. CASE RunTurn(t)
  <2> DEFINE own == [turn[t] EXCEPT !.step = "save", !.tries = 0]
  <2>1. /\ UNCHANGED <<strategy, thread, proposals, revisions, asks>> /\ turn[t].step # "idle"
        /\ turn' = [turn EXCEPT ![t] = own]
    BY <1>3 DEF RunTurn
  <2>2. own \in Turn(Len(proposals))
    <3>1. "save" \in Steps /\ 0 \in 0..Tries
      BY Bounds DEF Steps
    <3>2. QED
      BY <3>1, <1>a, TriesWritten
  <2>3. /\ own = Idle \/ (own.step # "idle" /\ own.thread = turn[t].thread
                          /\ own.key = turn[t].key /\ own.observed = turn[t].observed)
        /\ own.step \in {"ask", "find", "run", "save"} => own.tries < Tries
    BY <1>3, <2>1, <1>a, Bounds DEF RunTurn, Turn
  <2>4. QED
    BY <2>1, <2>2, <2>3
<1>4. CASE Abandon(t)
  <2> DEFINE own == Idle
  <2>1. /\ UNCHANGED <<strategy, thread, proposals, revisions, asks>> /\ turn[t].step # "idle"
        /\ turn' = [turn EXCEPT ![t] = own]
    BY <1>4, <1>a DEF Abandon, End
  <2>2. own \in Turn(Len(proposals))
    BY <1>4, <2>1, <1>a, <1>b, Bounds DEF Abandon, Turn, Steps
  <2>3. /\ own = Idle \/ (own.step # "idle" /\ own.thread = turn[t].thread
                          /\ own.key = turn[t].key /\ own.observed = turn[t].observed)
        /\ own.step \in {"ask", "find", "run", "save"} => own.tries < Tries
    BY <1>4, <2>1, <1>a, Bounds DEF Abandon, Turn
  <2>4. QED
    BY <2>1, <2>2, <2>3
<1>5. CASE ReadForAnswer(t)
  <2> DEFINE own == IF Answered(t) THEN Idle
                    ELSE [turn[t] EXCEPT !.step = "advance", !.seen = VersionOf(t), !.tries = @ + 1]
  <2>1. /\ UNCHANGED <<strategy, thread, proposals, revisions, asks>> /\ turn[t].step # "idle"
        /\ turn' = [turn EXCEPT ![t] = own]
    BY <1>5 DEF ReadForAnswer
  <2>2. own \in Turn(Len(proposals))
    <3>1. turn[t].tries + 1 \in 0..Tries
      BY <1>5, <1>a, <1>c, Bounds DEF ReadForAnswer
    <3>2. "advance" \in Steps
      BY DEF Steps
    <3>3. QED
      BY <2>1, <3>1, <3>2, <1>a, <1>b, SeenWritten
  <2>3. /\ own = Idle \/ (own.step # "idle" /\ own.thread = turn[t].thread
                          /\ own.key = turn[t].key /\ own.observed = turn[t].observed)
        /\ own.step \in {"ask", "find", "run", "save"} => own.tries < Tries
    BY <1>5, <2>1, <1>a, Bounds DEF ReadForAnswer, Turn
  <2>4. QED
    BY <2>1, <2>2, <2>3
<1>6. CASE LoseAnswer(t)
  <2> DEFINE own == IF turn[t].tries < Tries THEN [turn[t] EXCEPT !.step = "save"] ELSE Idle
  <2>1. /\ UNCHANGED <<strategy, thread, proposals, revisions, asks>> /\ turn[t].step # "idle"
        /\ turn' = [turn EXCEPT ![t] = own]
    BY <1>6 DEF LoseAnswer, Lost
  <2>2. own \in Turn(Len(proposals))
    BY <1>6, <2>1, <1>a, <1>b, Bounds DEF LoseAnswer, Turn, Steps
  <2>3. /\ own = Idle \/ (own.step # "idle" /\ own.thread = turn[t].thread
                          /\ own.key = turn[t].key /\ own.observed = turn[t].observed)
        /\ own.step \in {"ask", "find", "run", "save"} => own.tries < Tries
    BY <1>6, <2>1, <1>a, Bounds DEF LoseAnswer, Turn
  <2>4. QED
    BY <2>1, <2>2, <2>3
<1>7. CASE LockBook(t)
  <2> DEFINE own == IF strategy = turn[t].observed THEN Locked(turn[t]) ELSE Idle
  <2>1. /\ UNCHANGED <<strategy, thread, proposals, revisions, asks>> /\ turn[t].step # "idle"
        /\ turn' = [turn EXCEPT ![t] = own]
    BY <1>7 DEF LockBook, Locked, End
  <2>2. own \in Turn(Len(proposals))
    <3>1. ReadPending \in 0..Len(proposals) /\ "locked" \in Steps
      BY <1>a DEF ReadPending, Pending, Steps
    <3>2. QED
      BY <3>1, <1>a, PendingWritten DEF Locked
  <2>3. /\ own = Idle \/ (own.step # "idle" /\ own.thread = turn[t].thread
                          /\ own.key = turn[t].key /\ own.observed = turn[t].observed)
        /\ own.step \in {"ask", "find", "run", "save"} => own.tries < Tries
    BY <1>7, <2>1, <1>a, Bounds DEF LockBook, Turn, Locked
  <2>4. QED
    BY <2>1, <2>2, <2>3
<1>8. CASE CommitLoses(t)
  <2> DEFINE own == IF turn[t].tries < Tries THEN [turn[t] EXCEPT !.step = "ask"] ELSE Idle
  <2>1. /\ UNCHANGED <<strategy, thread, proposals, revisions, asks>> /\ turn[t].step # "idle"
        /\ turn' = [turn EXCEPT ![t] = own]
    BY <1>8 DEF CommitLoses, CommitQuestion, Lost
  <2>2. own \in Turn(Len(proposals))
    BY <1>8, <2>1, <1>a, <1>b, Bounds DEF CommitLoses, Turn, Steps
  <2>3. /\ own = Idle \/ (own.step # "idle" /\ own.thread = turn[t].thread
                          /\ own.key = turn[t].key /\ own.observed = turn[t].observed)
        /\ own.step \in {"ask", "find", "run", "save"} => own.tries < Tries
    BY <1>8, <2>1, <1>a, Bounds DEF CommitLoses, Turn
  <2>4. QED
    BY <2>1, <2>2, <2>3
<1>9. QED
  BY <1>1, <1>2, <1>3, <1>4, <1>5, <1>6, <1>7, <1>8 DEF Quiet

\* A request becomes own, which is typed among n proposals.
Becomes(t, own, n) ==
  /\ turn' = [turn EXCEPT ![t] = own] /\ own \in Turn(n)
  /\ own.step = "idle" => own = Idle
  /\ own.step # "idle" => own.thread \in Threads /\ own.key \in Keys
  /\ own.step \in {"ask", "find", "run", "save"} => own.tries < Tries

LEMMA TurnsKept ==
  ASSUME TypeInv, NEW t \in Turns, NEW n \in Nat, Len(proposals) <= n, NEW own, Becomes(t, own, n)
  PROVE  turn' \in [Turns -> Turn(n)] /\ TurnsTyped'
<1>1. turn \in [Turns -> Turn(Len(proposals))] /\ Len(proposals) \in Nat
  BY Typed DEF TypeInv, TypeOK
<1>2. turn \in [Turns -> Turn(n)]
  BY <1>1, TurnWidens
<1>3. turn' \in [Turns -> Turn(n)]
  BY <1>2 DEF Becomes
<1>4. TurnsTyped'
  BY <1>1 DEF Becomes, TypeInv, TurnsTyped
<1>5. QED
  BY <1>3, <1>4

LEMMA QuietBecomes ==
  ASSUME TypeInv, NEW t \in Turns, Quiet(t)
  PROVE  \E own \in Turn(Len(proposals)) : Becomes(t, own, Len(proposals))
<1>1. PICK own \in Turn(Len(proposals)) :
        /\ turn' = [turn EXCEPT ![t] = own]
        /\ own = Idle \/ (own.step # "idle" /\ own.thread = turn[t].thread
                          /\ own.key = turn[t].key /\ own.observed = turn[t].observed)
        /\ own.step \in {"ask", "find", "run", "save"} => own.tries < Tries
  BY QuietTurn
<1>2. turn[t].step # "idle"
  BY QuietTurn
<1>3. turn[t].thread \in Threads /\ turn[t].key \in Keys
  BY <1>2, Typed
<1>4. QED
  BY <1>1, <1>3 DEF Becomes, Idle

(***************************************************************************)
(* What the other steps do                                                 *)
(***************************************************************************)
AskedBy(t, th, key) ==
  [Idle EXCEPT !.step = "ask", !.thread = th, !.key = key, !.observed = strategy]

LEMMA AskDoes ==
  ASSUME TypeInv, NEW t \in Turns, NEW th \in Threads, NEW key \in Keys, Ask(t, th, key)
  PROVE  /\ Becomes(t, AskedBy(t, th, key), Len(proposals))
         /\ thread' \in [Threads -> Thread]
         /\ \A u \in Threads : thread'[u].version = thread[u].version
                             /\ thread'[u].messages = thread[u].messages
         /\ UNCHANGED <<strategy, proposals, revisions>> /\ asks' \in Nat
<1>1. Len(proposals) \in Nat /\ strategy \in Nat /\ thread \in [Threads -> Thread] /\ asks \in Nat
  BY DEF TypeInv, TypeOK
<1>2. /\ AskedBy(t, th, key) \in Turn(Len(proposals))
      /\ AskedBy(t, th, key).step = "ask" /\ AskedBy(t, th, key).thread = th
      /\ AskedBy(t, th, key).key = key /\ AskedBy(t, th, key).tries = 0
  <2> DEFINE idle == Idle
  <2>1. idle \in Turn(Len(proposals)) /\ "ask" \in Steps /\ idle.tries = 0
    BY <1>1, IdleTyped DEF Steps, Idle
  <2>2. AskedBy(t, th, key) =
          [idle EXCEPT !.step = "ask", !.thread = th, !.key = key, !.observed = strategy]
    BY DEF AskedBy
  <2> HIDE DEF idle
  <2>3. QED
    BY <1>1, <2>1, <2>2 DEF Turn
<1>3. turn' = [turn EXCEPT ![t] = AskedBy(t, th, key)]
  BY DEF Ask, AskedBy
<1>4. Becomes(t, AskedBy(t, th, key), Len(proposals))
  BY <1>2, <1>3, Bounds DEF Becomes
<1>5. /\ thread' \in [Threads -> Thread]
      /\ \A u \in Threads : thread'[u].version = thread[u].version
                          /\ thread'[u].messages = thread[u].messages
  BY <1>1 DEF Ask, Thread
<1>6. QED
  BY <1>1, <1>4, <1>5 DEF Ask

Question(t) == [sequence |-> VersionOf(t) + 1, kind |-> "question", key |-> turn[t].key, q |-> 0]

\* A question that wins its number.
CommitWins(t) == CommitQuestion(t) /\ VersionOf(t) = turn[t].seen

LEMMA CommitDoes ==
  ASSUME TypeInv, NEW t \in Turns, CommitWins(t)
  PROVE  /\ turn[t].step = "commit" /\ ThreadFree(turn[t].thread) /\ VersionOf(t) = turn[t].seen
         /\ thread' = Appended(t, Question(t)) /\ Question(t) \in Messages
         /\ Becomes(t, [turn[t] EXCEPT !.step = "find", !.q = VersionOf(t) + 1, !.tries = 0], Len(proposals))
         /\ UNCHANGED <<strategy, proposals, revisions, asks>>
<1>1. turn[t].step = "commit" /\ VersionOf(t) = turn[t].seen
  BY DEF CommitWins, CommitQuestion
<1>2. /\ Len(proposals) \in Nat /\ turn[t] \in Turn(Len(proposals)) /\ VersionOf(t) + 1 \in Nat
      /\ "find" \in Steps /\ 0 \in 0..Tries /\ turn[t].key \in Keys /\ turn[t].thread \in Threads
  BY <1>1, Typed, Bounds DEF TypeInv, TypeOK, Steps
<1>3. Question(t) \in Messages
  BY <1>2 DEF Question, Messages
<1>4. [turn[t] EXCEPT !.step = "find", !.q = VersionOf(t) + 1, !.tries = 0] \in Turn(Len(proposals))
  BY <1>2, QuestionCommitted
<1>5. Becomes(t, [turn[t] EXCEPT !.step = "find", !.q = VersionOf(t) + 1, !.tries = 0], Len(proposals))
  BY <1>1, <1>2, <1>4, Bounds DEF CommitWins, CommitQuestion, Becomes, Turn
<1>6. QED
  BY <1>1, <1>3, <1>5 DEF CommitWins, CommitQuestion, Question

LEMMA AnswerDoes ==
  ASSUME TypeInv, NEW t \in Turns, SaveAnswer(t)
  PROVE  /\ turn[t].step = "advance" /\ ThreadFree(turn[t].thread) /\ VersionOf(t) = turn[t].seen
         /\ thread' = Appended(t, AnswerMessage(t))
         /\ Becomes(t, Idle, Len(proposals))
         /\ UNCHANGED <<strategy, proposals, revisions, asks>>
BY IdleTyped DEF SaveAnswer, Wins, End, Becomes, Idle, TypeInv, TypeOK

\* The parts of SaveProposal.
Old(t)     == turn[t].pending
Revises(t) == Old(t) # 0 /\ proposals[Old(t)].thread = turn[t].thread
              /\ proposals[Old(t)].base = strategy
Saved(t)   == IF Revises(t) THEN Old(t) ELSE Len(proposals) + 1
KeptRevisions(t) == IF Old(t) = 0 THEN revisions ELSE Dropped(proposals[Old(t)].revision)
NewRevision(t)   == [proposal |-> Saved(t), draft |-> "draft", observed |-> turn[t].observed]
NewProposal(t)   == [thread |-> turn[t].thread, status |-> "pending", revision |-> Len(revisions) + 1,
                     base |-> strategy, feedback |-> FALSE, result |-> 0]

LEMMA SaveProposalDoes ==
  ASSUME TypeInv, NEW t \in Turns, SaveProposal(t)
  PROVE  /\ turn[t].step = "locked" /\ thread' = Appended(t, AnswerMessage(t))
         /\ revisions' = Append(KeptRevisions(t), NewRevision(t))
         /\ Revises(t) =>
              proposals' = [proposals EXCEPT ![Old(t)].revision = Len(revisions) + 1,
                                             ![Old(t)].feedback = FALSE]
         /\ ~Revises(t) /\ Old(t) = 0 => proposals' = Append(proposals, NewProposal(t))
         /\ ~Revises(t) /\ Old(t) # 0 =>
              proposals' = Append([proposals EXCEPT ![Old(t)].status = "superseded"], NewProposal(t))
         /\ turn' = [turn EXCEPT ![t] = Idle]
         /\ UNCHANGED <<strategy, asks>>
BY DEF SaveProposal, Old, Revises, Saved, KeptRevisions, NewRevision, NewProposal, End

\* What the steps write into a proposal.
LEMMA StatusWritten ==
  ASSUME NEW row \in Proposal, NEW status \in {"pending", "confirmed", "rejected", "superseded"}
  PROVE  [row EXCEPT !.status = status] \in Proposal
BY DEF Proposal

LEMMA ResultWritten ==
  ASSUME NEW row \in Proposal, NEW n \in Nat
  PROVE  [row EXCEPT !.status = "confirmed", !.result = n] \in Proposal
BY DEF Proposal

LEMMA RevisionWritten ==
  ASSUME NEW row \in Proposal, NEW n \in Nat
  PROVE  [row EXCEPT !.revision = n, !.feedback = FALSE] \in Proposal
BY DEF Proposal

\* The lists after a saved proposal.
LEMMA KeptTyped ==
  ASSUME TypeInv, NEW t \in Turns, turn[t].step # "idle"
  PROVE  /\ KeptRevisions(t) \in Seq(Revision) /\ Len(KeptRevisions(t)) = Len(revisions)
         /\ Old(t) \in 0..Len(proposals)
         /\ \A e \in 1..Len(revisions) :
              /\ KeptRevisions(t)[e].proposal = revisions[e].proposal
              /\ KeptRevisions(t)[e].observed = revisions[e].observed
              /\ ~(Old(t) # 0 /\ e = proposals[Old(t)].revision) =>
                   KeptRevisions(t)[e].draft = revisions[e].draft
<1>1. Old(t) \in 0..Len(proposals) /\ Len(proposals) \in Nat /\ revisions \in Seq(Revision)
  BY Typed DEF Old, Turn, TypeInv, TypeOK
<1>2. CASE Old(t) = 0
  BY <1>1, <1>2 DEF KeptRevisions
<1>3. CASE Old(t) # 0
  <2>1. Old(t) \in 1..Len(proposals)
    BY <1>1, <1>3
  <2>2. proposals[Old(t)].revision \in 1..Len(revisions)
    BY <2>1 DEF TypeInv, RowsTyped
  <2>3. KeptRevisions(t) = Dropped(proposals[Old(t)].revision)
    BY <1>3 DEF KeptRevisions
  <2> DEFINE d == proposals[Old(t)].revision
  <2>4. d \in 1..Len(revisions) /\ KeptRevisions(t) = Dropped(d)
    BY <2>2, <2>3
  <2> HIDE DEF d
  <2>5. /\ Dropped(d) \in Seq(Revision) /\ Len(Dropped(d)) = Len(revisions)
        /\ \A e \in 1..Len(revisions) :
             /\ Dropped(d)[e].proposal = revisions[e].proposal
             /\ Dropped(d)[e].observed = revisions[e].observed
             /\ e # d => Dropped(d)[e].draft = revisions[e].draft
    BY <2>4, DroppedTyped
  <2>6. QED
    BY <1>1, <1>3, <2>4, <2>5 DEF d
<1>4. QED
  BY <1>2, <1>3

LEMMA RevisionAdded ==
  ASSUME TypeInv, NEW t \in Turns, SaveProposal(t)
  PROVE  /\ revisions' \in Seq(Revision) /\ Len(revisions') = Len(revisions) + 1
         /\ revisions'[Len(revisions) + 1] = NewRevision(t)
         /\ \A e \in 1..Len(revisions) : revisions'[e] = KeptRevisions(t)[e]
<1>1. turn[t].step = "locked" /\ revisions' = Append(KeptRevisions(t), NewRevision(t))
  BY SaveProposalDoes
<1>2. turn[t].step # "idle"
  BY <1>1
<1>3. KeptRevisions(t) \in Seq(Revision) /\ Len(KeptRevisions(t)) = Len(revisions) /\ Old(t) \in 0..Len(proposals)
  BY <1>2, KeptTyped
<1>4. Len(proposals) \in Nat /\ Len(revisions) \in Nat /\ turn[t] \in Turn(Len(proposals))
  BY Typed DEF TypeInv, TypeOK
<1>5. NewRevision(t) \in Revision
  BY <1>3, <1>4 DEF NewRevision, Revision, Saved, Turn
<1>6. QED
  BY <1>1, <1>3, <1>4, <1>5

LEMMA ProposalRevised ==
  ASSUME TypeInv, NEW t \in Turns, SaveProposal(t), Revises(t)
  PROVE  /\ proposals' \in Seq(Proposal) /\ Len(proposals') = Len(proposals)
         /\ Old(t) \in 1..Len(proposals)
         /\ proposals'[Old(t)] =
              [proposals[Old(t)] EXCEPT !.revision = Len(revisions) + 1, !.feedback = FALSE]
         /\ \A p \in 1..Len(proposals) \ {Old(t)} : proposals'[p] = proposals[p]
<1>1. /\ Len(proposals) \in Nat /\ Len(revisions) \in Nat /\ proposals \in [1..Len(proposals) -> Proposal]
  BY DEF TypeInv, TypeOK
<1>2. Old(t) \in 1..Len(proposals)
  BY <1>1, Typed DEF Old, Revises, Turn
<1> DEFINE row == [proposals[Old(t)] EXCEPT !.revision = Len(revisions) + 1, !.feedback = FALSE]
<1>3. row \in Proposal
  <2>1. proposals[Old(t)] \in Proposal /\ Len(revisions) + 1 \in Nat
    BY <1>1, <1>2
  <2>2. QED
    BY <2>1, RevisionWritten
<1>4. proposals' = [proposals EXCEPT ![Old(t)] = row]
  BY <1>1, <1>2, SaveProposalDoes
<1> HIDE DEF row
<1>5. /\ proposals' \in [1..Len(proposals) -> Proposal] /\ proposals'[Old(t)] = row
      /\ \A p \in 1..Len(proposals) \ {Old(t)} : proposals'[p] = proposals[p]
  BY <1>1, <1>2, <1>3, <1>4, OneWritten
<1>6. proposals' \in Seq(Proposal) /\ Len(proposals') = Len(proposals)
  BY <1>1, <1>5, ListOf
<1>7. QED
  BY <1>2, <1>5, <1>6 DEF row

LEMMA ProposalAdded ==
  ASSUME TypeInv, NEW t \in Turns, SaveProposal(t), ~Revises(t)
  PROVE  /\ proposals' \in Seq(Proposal) /\ Len(proposals') = Len(proposals) + 1
         /\ Old(t) \in 0..Len(proposals)
         /\ proposals'[Len(proposals) + 1] = NewProposal(t)
         /\ \A p \in 1..Len(proposals) :
              proposals'[p] = IF p = Old(t) THEN [proposals[p] EXCEPT !.status = "superseded"] ELSE proposals[p]
<1>1. /\ Len(proposals) \in Nat /\ Len(revisions) \in Nat /\ proposals \in [1..Len(proposals) -> Proposal]
      /\ proposals \in Seq(Proposal) /\ strategy \in Nat
  BY DEF TypeInv, TypeOK
<1>2. Old(t) \in 0..Len(proposals) /\ turn[t].thread \in Threads
  BY <1>1, Typed, SaveProposalDoes DEF Old, Turn
<1>3. NewProposal(t) \in Proposal
  BY <1>1, <1>2 DEF NewProposal, Proposal
<1>4. CASE Old(t) = 0
  <2>1. proposals' = Append(proposals, NewProposal(t))
    BY <1>4, SaveProposalDoes
  <2>2. QED
    BY <1>1, <1>3, <1>4, <2>1
<1>5. CASE Old(t) # 0
  <2> DEFINE kept == [proposals EXCEPT ![Old(t)].status = "superseded"]
  <2>1. /\ kept \in [1..Len(proposals) -> Proposal]
        /\ \A p \in 1..Len(proposals) :
             kept[p] = IF p = Old(t) THEN [proposals[p] EXCEPT !.status = "superseded"] ELSE proposals[p]
    BY <1>1, <1>2, <1>5 DEF Proposal
  <2>2. proposals' = Append(kept, NewProposal(t))
    BY <1>5, SaveProposalDoes
  <2> HIDE DEF kept
  <2>3. kept \in Seq(Proposal) /\ Len(kept) = Len(proposals)
    BY <1>1, <2>1
  <2>4. QED
    BY <1>1, <1>2, <1>3, <2>1, <2>2, <2>3
<1>6. QED
  BY <1>4, <1>5

\* The reader's decisions.
LEMMA DecisionDoes ==
  ASSUME TypeInv, NEW p \in 1..Len(proposals),
         FeedbackProposal(p) \/ RejectProposal(p) \/ ConfirmProposal(p)
  PROVE  /\ proposals[p].status = "pending" /\ UNCHANGED <<thread, turn, asks>>
         /\ proposals' \in Seq(Proposal) /\ Len(proposals') = Len(proposals)
         /\ revisions' \in Seq(Revision) /\ Len(revisions') = Len(revisions)
         /\ strategy' \in Nat \ {0}
         /\ proposals'[p] \in Proposal
         /\ proposals'[p].thread = proposals[p].thread /\ proposals'[p].revision = proposals[p].revision
         /\ proposals'[p].base = proposals[p].base
         /\ \A r \in 1..Len(proposals) \ {p} : proposals'[r] = proposals[r]
<1>1. /\ Len(proposals) \in Nat /\ Len(revisions) \in Nat /\ proposals \in [1..Len(proposals) -> Proposal]
      /\ revisions \in [1..Len(revisions) -> Revision] /\ revisions \in Seq(Revision) /\ strategy \in Nat \ {0}
      /\ proposals[p].revision \in 1..Len(revisions) /\ proposals \in Seq(Proposal)
  BY DEF TypeInv, TypeOK, RowsTyped
<1>2. CASE FeedbackProposal(p)
  <2>1. proposals' \in [1..Len(proposals) -> Proposal]
    BY <1>1, <1>2 DEF FeedbackProposal, Proposal
  <2>2. QED
    BY <1>1, <1>2, <2>1 DEF FeedbackProposal, Proposal
<1>3. CASE RejectProposal(p)
  <2>1. proposals' \in [1..Len(proposals) -> Proposal]
    BY <1>1, <1>3 DEF RejectProposal, Proposal
  <2>2. revisions' \in Seq(Revision) /\ Len(revisions') = Len(revisions)
    BY <1>1, <1>3, DroppedTyped DEF RejectProposal
  <2>3. QED
    BY <1>1, <1>3, <2>1, <2>2 DEF RejectProposal, Proposal
<1>4. CASE ConfirmProposal(p)
  <2> DEFINE row == [proposals[p] EXCEPT !.status = "confirmed", !.result = strategy + 1]
  <2>1. row \in Proposal /\ row.thread = proposals[p].thread /\ row.base = proposals[p].base
        /\ row.revision = proposals[p].revision
    <3>1. proposals[p] \in Proposal /\ strategy + 1 \in Nat
      BY <1>1
    <3>2. row \in Proposal
      BY <3>1, ResultWritten
    <3>3. QED
      BY <3>1, <3>2 DEF Proposal
  <2>2. proposals' = [proposals EXCEPT ![p] = row]
    BY <1>1, <1>4 DEF ConfirmProposal
  <2> HIDE DEF row
  <2>3. /\ proposals' \in [1..Len(proposals) -> Proposal] /\ proposals'[p] = row
        /\ \A r \in 1..Len(proposals) \ {p} : proposals'[r] = proposals[r]
    BY <1>1, <2>1, <2>2, OneWritten
  <2>4. revisions' \in [1..Len(revisions) -> Revision]
    BY <1>1, <1>4 DEF ConfirmProposal, Revision
  <2>5. /\ proposals[p].status = "pending" /\ UNCHANGED <<thread, turn, asks>> /\ strategy' = strategy + 1
    BY <1>4 DEF ConfirmProposal
  <2>6. /\ proposals' \in Seq(Proposal) /\ Len(proposals') = Len(proposals)
        /\ revisions' \in Seq(Revision) /\ Len(revisions') = Len(revisions)
    BY <1>1, <2>3, <2>4, ListOf
  <2>7. QED
    BY <1>1, <2>1, <2>3, <2>5, <2>6
<1>5. QED
  BY <1>2, <1>3, <1>4

(***************************************************************************)
(* Every step is one of six kinds                                          *)
(***************************************************************************)
Decides(p) == FeedbackProposal(p) \/ RejectProposal(p) \/ ConfirmProposal(p)

LEMMA StepKinds ==
  ASSUME Next
  PROVE  \/ \E t \in Turns : \/ Quiet(t) \/ CommitWins(t) \/ SaveAnswer(t) \/ SaveProposal(t)
                             \/ \E th \in Threads, key \in Keys : Ask(t, th, key)
         \/ \E p \in 1..Len(proposals) : Decides(p)
BY DEF Next, Quiet, CommitLoses, CommitWins, Decides

LEMMA TypedAfter ==
  ASSUME TypeInv, NEW t \in Turns, NEW own, Becomes(t, own, Len(proposals)),
         thread' \in [Threads -> Thread], UNCHANGED <<strategy, proposals, revisions>>, asks' \in Nat
  PROVE  TypeInv'
<1>1. Len(proposals) \in Nat
  BY DEF TypeInv, TypeOK
<1>2. turn' \in [Turns -> Turn(Len(proposals))] /\ TurnsTyped'
  BY <1>1, TurnsKept
<1>3. turn' \in [Turns -> Turn(Len(proposals'))]
  BY <1>2
<1>4. TypeOK'
  BY <1>3 DEF TypeInv, TypeOK, Turn, Steps
<1>5. RowsTyped'
  BY DEF TypeInv, RowsTyped
<1>6. QED
  BY <1>2, <1>4, <1>5 DEF TypeInv

LEMMA TypeInvStep ==
  ASSUME TypeInv, [Next]_vars
  PROVE  TypeInv'
<1>a. /\ thread \in [Threads -> Thread] /\ asks \in Nat /\ Len(proposals) \in Nat /\ Len(revisions) \in Nat
      /\ strategy \in Nat \ {0}
  BY DEF TypeInv, TypeOK
<1>1. CASE UNCHANGED vars
  BY <1>1 DEF vars, TypeInv, TypeOK, TurnsTyped, RowsTyped
<1>2. ASSUME NEW t \in Turns, Quiet(t) PROVE TypeInv'
  <2>1. PICK own \in Turn(Len(proposals)) : Becomes(t, own, Len(proposals))
    BY <1>2, QuietBecomes
  <2>2. UNCHANGED <<strategy, thread, proposals, revisions, asks>>
    BY <1>2, QuietTurn
  <2>3. thread' \in [Threads -> Thread] /\ asks' \in Nat
    BY <1>a, <2>2
  <2>4. QED
    BY <2>1, <2>2, <2>3, TypedAfter
<1>3. ASSUME NEW t \in Turns, CommitWins(t) PROVE TypeInv'
  <2>1. /\ turn[t].step # "idle" /\ thread' = Appended(t, Question(t)) /\ Question(t) \in Messages
        /\ Becomes(t, [turn[t] EXCEPT !.step = "find", !.q = VersionOf(t) + 1, !.tries = 0], Len(proposals))
        /\ UNCHANGED <<strategy, proposals, revisions, asks>>
    BY <1>3, CommitDoes
  <2>2. thread' \in [Threads -> Thread] /\ asks' \in Nat
    BY <1>a, <2>1, AppendedIs
  <2>3. QED
    BY <2>1, <2>2, TypedAfter
<1>4. ASSUME NEW t \in Turns, SaveAnswer(t) PROVE TypeInv'
  <2>1. /\ turn[t].step # "idle" /\ thread' = Appended(t, AnswerMessage(t))
        /\ Becomes(t, Idle, Len(proposals))
        /\ UNCHANGED <<strategy, proposals, revisions, asks>>
    BY <1>4, AnswerDoes
  <2>2. thread' \in [Threads -> Thread] /\ asks' \in Nat
    BY <1>a, <2>1, AppendedIs, AnswerTyped
  <2>3. QED
    BY <2>1, <2>2, TypedAfter
<1>5. ASSUME NEW t \in Turns, NEW th \in Threads, NEW key \in Keys, Ask(t, th, key) PROVE TypeInv'
  <2>1. /\ Becomes(t, AskedBy(t, th, key), Len(proposals))
        /\ thread' \in [Threads -> Thread] /\ UNCHANGED <<strategy, proposals, revisions>> /\ asks' \in Nat
    BY <1>5, AskDoes
  <2>2. QED
    BY <2>1, TypedAfter
<1>6. ASSUME NEW t \in Turns, SaveProposal(t) PROVE TypeInv'
  <2>1. /\ turn[t].step # "idle" /\ thread' = Appended(t, AnswerMessage(t))
        /\ turn' = [turn EXCEPT ![t] = Idle] /\ UNCHANGED <<strategy, asks>>
    BY <1>6, SaveProposalDoes
  <2>2. thread' \in [Threads -> Thread]
    BY <2>1, AppendedIs, AnswerTyped
  <2>3. /\ revisions' \in Seq(Revision) /\ Len(revisions') = Len(revisions) + 1
    BY <1>6, RevisionAdded
  <2>4. /\ proposals' \in Seq(Proposal) /\ Len(proposals') \in Nat /\ Len(proposals) <= Len(proposals')
        /\ RowsTyped'
    <3>1. CASE Revises(t)
      <4>1. /\ proposals' \in Seq(Proposal) /\ Len(proposals') = Len(proposals)
            /\ Old(t) \in 1..Len(proposals)
            /\ proposals'[Old(t)] =
                 [proposals[Old(t)] EXCEPT !.revision = Len(revisions) + 1, !.feedback = FALSE]
            /\ \A p \in 1..Len(proposals) \ {Old(t)} : proposals'[p] = proposals[p]
        BY <1>6, <3>1, ProposalRevised
      <4>2. proposals[Old(t)] \in Proposal
        BY <4>1 DEF TypeInv, TypeOK
      <4>3. proposals'[Old(t)].revision = Len(revisions) + 1
        BY <4>1, <4>2 DEF Proposal
      <4>4. RowsTyped'
        <5>1. \A p \in 1..Len(proposals) : proposals'[p].revision \in 1..Len(revisions) + 1
          <6>1. \A p \in 1..Len(proposals) : proposals[p].revision \in 1..Len(revisions)
            BY DEF TypeInv, RowsTyped
          <6>2. Len(revisions) + 1 \in 1..Len(revisions) + 1 /\ 1..Len(revisions) \subseteq 1..Len(revisions) + 1
            BY <1>a
          <6>3. QED
            BY <4>1, <4>3, <6>1, <6>2
        <5>2. QED
          BY <2>3, <4>1, <5>1 DEF RowsTyped
      <4>5. QED
        BY <1>a, <4>1, <4>4
    <3>2. CASE ~Revises(t)
      <4>1. /\ proposals' \in Seq(Proposal) /\ Len(proposals') = Len(proposals) + 1
            /\ proposals'[Len(proposals) + 1] = NewProposal(t)
            /\ \A p \in 1..Len(proposals) :
              proposals'[p] = IF p = Old(t) THEN [proposals[p] EXCEPT !.status = "superseded"] ELSE proposals[p]
        BY <1>6, <3>2, ProposalAdded
      <4>2. \A p \in 1..Len(proposals) : proposals[p] \in Proposal
        BY DEF TypeInv, TypeOK
      <4>3. \A p \in 1..Len(proposals) : proposals'[p].revision = proposals[p].revision
        BY <4>1, <4>2 DEF Proposal
      <4>4. proposals'[Len(proposals) + 1].revision = Len(revisions) + 1
        BY <4>1 DEF NewProposal
      <4>5. RowsTyped'
        <5>1. \A p \in 1..Len(proposals') : p \in 1..Len(proposals) \/ p = Len(proposals) + 1
          BY <1>a, <4>1
        <5>2. \A p \in 1..Len(proposals') : proposals'[p].revision \in 1..Len(revisions) + 1
          BY <1>a, <4>3, <4>4, <5>1 DEF TypeInv, RowsTyped
        <5>3. QED
          BY <2>3, <5>2 DEF RowsTyped
      <4>6. QED
        BY <1>a, <4>1, <4>5
    <3>3. QED
      BY <3>1, <3>2
  <2>5. Becomes(t, Idle, Len(proposals'))
    BY <2>1, <2>4, IdleTyped DEF Becomes, Idle
  <2>6. turn' \in [Turns -> Turn(Len(proposals'))] /\ TurnsTyped'
    BY <2>4, <2>5, TurnsKept
  <2>7. TypeOK'
    BY <1>a, <2>1, <2>2, <2>3, <2>4, <2>6 DEF TypeOK, Turn, Steps
  <2>8. QED
    BY <2>4, <2>6, <2>7 DEF TypeInv
<1>7. ASSUME NEW p \in 1..Len(proposals), Decides(p) PROVE TypeInv'
  <2>1. /\ UNCHANGED <<thread, turn, asks>>
        /\ proposals' \in Seq(Proposal) /\ Len(proposals') = Len(proposals)
        /\ revisions' \in Seq(Revision) /\ Len(revisions') = Len(revisions)
        /\ strategy' \in Nat \ {0}
        /\ proposals'[p].revision = proposals[p].revision
        /\ \A r \in 1..Len(proposals) \ {p} : proposals'[r] = proposals[r]
    BY <1>7, DecisionDoes DEF Decides
  <2>2. TypeOK'
    BY <2>1 DEF TypeInv, TypeOK
  <2>3. RowsTyped'
    BY <2>1 DEF TypeInv, RowsTyped
  <2>4. TurnsTyped'
    BY <2>1 DEF TypeInv, TurnsTyped
  <2>5. QED
    BY <2>2, <2>3, <2>4 DEF TypeInv
<1>8. QED
  BY <1>1, <1>2, <1>3, <1>4, <1>5, <1>6, <1>7, StepKinds

(***************************************************************************)
(* The threads                                                             *)
(***************************************************************************)
Consistent(ms, n) ==
  /\ {m.sequence : m \in ms} = 1..n
  /\ \A m, o \in ms : m # o =>
       /\ m.sequence # o.sequence
       /\ ~(m.kind = "question" /\ o.kind = "question" /\ m.key = o.key)
       /\ ~(m.kind = "answer" /\ o.kind = "answer" /\ m.q = o.q)
  /\ \A m \in ms : m.kind = "answer" =>
       \E o \in ms : o.kind = "question" /\ o.sequence = m.q /\ m.q < m.sequence

LEMMA ConsistentThreads ==
  ThreadIsConsistent <=> \A th \in Threads : Consistent(thread[th].messages, thread[th].version)
BY DEF ThreadIsConsistent, Consistent

\* What a request has read of its thread, ms and version n, and what became of it: the
\* question it works on is there, and as long as the version it has seen is the version of
\* now, neither its question (before it commits) nor its answer (after) is there.
Committed == {"find", "run", "save", "advance", "locked"}

Fits(own, ms, n) ==
  /\ own.step \in {"commit", "advance"} => own.seen <= n
  /\ own.step \in Committed => \E m \in ms : m.kind = "question" /\ m.sequence = own.q
  /\ own.step = "commit" /\ own.seen = n => \A m \in ms : ~(m.kind = "question" /\ m.key = own.key)
  /\ own.step \in {"advance", "locked"} /\ own.seen = n =>
       \A m \in ms : ~(m.kind = "answer" /\ m.q = own.q)
  /\ own.step = "locked" => own.seen = n

RequestsFit == \A t \in Turns : turn[t].step # "idle" => Fits(turn[t], MessagesOf(t), VersionOf(t))

OneLocked == \A t, u \in Turns : turn[t].step = "locked" /\ turn[u].step = "locked" => t = u

ThreadInv == TypeInv /\ ThreadIsConsistent /\ RequestsFit /\ OneLocked

LEMMA QuestionAppended ==
  ASSUME NEW ms \in SUBSET Messages, NEW n \in Nat, NEW key \in Keys, Consistent(ms, n),
         \A m \in ms : ~(m.kind = "question" /\ m.key = key)
  PROVE  Consistent(ms \cup {[sequence |-> n + 1, kind |-> "question", key |-> key, q |-> 0]}, n + 1)
<1> DEFINE new == [sequence |-> n + 1, kind |-> "question", key |-> key, q |-> 0]
<1>1. new.sequence = n + 1 /\ new.kind = "question" /\ new.key = key
  OBVIOUS
<1> HIDE DEF new
<1>2. \A m \in ms : m.sequence \in 1..n
  BY DEF Consistent
<1>3. {m.sequence : m \in ms \cup {new}} = {m.sequence : m \in ms} \cup {n + 1}
  BY <1>1
<1>4. {m.sequence : m \in ms \cup {new}} = 1..n + 1
  BY <1>3 DEF Consistent
<1>5. \A m \in ms : m.sequence # new.sequence
  BY <1>1, <1>2
<1>6. Consistent(ms \cup {new}, n + 1)
  BY <1>1, <1>4, <1>5 DEF Consistent
<1>7. QED
  BY <1>6 DEF new

LEMMA AnswerAppended ==
  ASSUME NEW ms \in SUBSET Messages, NEW n \in Nat, NEW q \in Nat, Consistent(ms, n),
         \A m \in ms : ~(m.kind = "answer" /\ m.q = q),
         \E m \in ms : m.kind = "question" /\ m.sequence = q
  PROVE  Consistent(ms \cup {[sequence |-> n + 1, kind |-> "answer", key |-> NoQuestion, q |-> q]}, n + 1)
<1> DEFINE new == [sequence |-> n + 1, kind |-> "answer", key |-> NoQuestion, q |-> q]
<1>1. new.sequence = n + 1 /\ new.kind = "answer" /\ new.q = q
  OBVIOUS
<1> HIDE DEF new
<1>2. \A m \in ms : m.sequence \in 1..n
  BY DEF Consistent
<1>3. {m.sequence : m \in ms \cup {new}} = {m.sequence : m \in ms} \cup {n + 1}
  BY <1>1
<1>4. {m.sequence : m \in ms \cup {new}} = 1..n + 1
  BY <1>3 DEF Consistent
<1>5. \A m \in ms : m.sequence # new.sequence
  BY <1>1, <1>2
<1>6. q < n + 1
  BY <1>2
<1>7. Consistent(ms \cup {new}, n + 1)
  BY <1>1, <1>4, <1>5, <1>6 DEF Consistent
<1>8. QED
  BY <1>7 DEF new

LEMMA FitsLater ==
  ASSUME NEW own, NEW ms, NEW n \in Nat, Fits(own, ms, n), own.step # "locked", NEW message,
         own.seen \in Nat
  PROVE  Fits(own, ms \cup {message}, n + 1)
BY DEF Fits, Committed

LEMMA ThreadInvInit == Init => ThreadInv
<1> SUFFICES ASSUME Init PROVE ThreadInv
  OBVIOUS
<1>1. TypeInv
  BY TypeInvInit
<1>2. ThreadIsConsistent
  BY DEF Init, ThreadIsConsistent
<1>3. RequestsFit /\ OneLocked
  BY DEF Init, Idle, RequestsFit, OneLocked
<1>4. QED
  BY <1>1, <1>2, <1>3 DEF ThreadInv

\* A step that leaves the messages and versions of every thread alone.
LEMMA QuietFits ==
  ASSUME TypeInv, RequestsFit, NEW t \in Turns, Quiet(t), turn'[t].step # "idle"
  PROVE  Fits(turn'[t], MessagesOf(t), VersionOf(t)) /\ turn'[t].thread = turn[t].thread
         /\ (turn'[t].step = "locked" => BookFree)
<1>1. /\ turn \in [Turns -> Turn(Len(proposals))] /\ turn[t] \in Turn(Len(proposals)) /\ turn[t].step # "idle"
      /\ VersionOf(t) \in Nat /\ Idle.step = "idle"
  BY Typed, QuietTurn DEF Idle
<1>2. Fits(turn[t], MessagesOf(t), VersionOf(t))
  BY <1>1 DEF RequestsFit
<1>3. CASE ReadForQuestion(t)
  <2>1. CASE Asked(t) # {}
    <3>1. SameQuestion(t) \in Asked(t)
      BY <2>1 DEF SameQuestion
    <3>2. turn'[t] = [turn[t] EXCEPT !.step = "find", !.q = SameQuestion(t).sequence]
      BY <1>1, <1>3, <2>1 DEF ReadForQuestion
    <3>3. turn'[t].step = "find" /\ turn'[t].q = SameQuestion(t).sequence /\ turn'[t].thread = turn[t].thread
      BY <1>1, <3>2 DEF Turn
    <3>4. QED
      BY <3>1, <3>3 DEF Fits, Asked
  <2>2. CASE Asked(t) = {}
    <3>1. turn'[t] = [turn[t] EXCEPT !.step = "commit", !.seen = VersionOf(t), !.tries = turn[t].tries + 1]
      BY <1>1, <1>3, <2>2 DEF ReadForQuestion
    <3>2. /\ turn'[t].step = "commit" /\ turn'[t].seen = VersionOf(t) /\ turn'[t].thread = turn[t].thread
          /\ turn'[t].key = turn[t].key
      BY <1>1, <3>1 DEF Turn
    <3>3. QED
      BY <1>1, <2>2, <3>2 DEF Fits, Committed, Asked
  <2>3. QED
    BY <2>1, <2>2
<1>4. CASE FindQaAnswer(t)
  <2>1. turn'[t] = [turn[t] EXCEPT !.step = "run"]
    BY <1>1, <1>4 DEF FindQaAnswer, End, Goto
  <2>2. turn'[t].step = "run" /\ turn'[t].q = turn[t].q /\ turn'[t].thread = turn[t].thread
    BY <1>1, <2>1 DEF Turn
  <2>3. QED
    BY <1>2, <1>4, <2>2 DEF Fits, Committed, FindQaAnswer
<1>5. CASE RunTurn(t)
  <2>1. turn'[t] = [turn[t] EXCEPT !.step = "save", !.tries = 0]
    BY <1>1, <1>5 DEF RunTurn
  <2>2. turn'[t].step = "save" /\ turn'[t].q = turn[t].q /\ turn'[t].thread = turn[t].thread
    BY <1>1, <2>1 DEF Turn
  <2>3. QED
    BY <1>2, <1>5, <2>2 DEF Fits, Committed, RunTurn
<1>6. CASE Abandon(t)
  BY <1>1, <1>6 DEF Abandon, End
<1>7. CASE ReadForAnswer(t)
  <2>1. turn'[t] = [turn[t] EXCEPT !.step = "advance", !.seen = VersionOf(t), !.tries = turn[t].tries + 1]
        /\ ~Answered(t)
    BY <1>1, <1>7 DEF ReadForAnswer
  <2>2. /\ turn'[t].step = "advance" /\ turn'[t].seen = VersionOf(t) /\ turn'[t].thread = turn[t].thread
        /\ turn'[t].q = turn[t].q
    BY <1>1, <2>1 DEF Turn
  <2>3. QED
    BY <1>1, <1>2, <1>7, <2>1, <2>2 DEF Fits, Committed, ReadForAnswer, Answered
<1>8. CASE LoseAnswer(t)
  <2>1. turn'[t] = [turn[t] EXCEPT !.step = "save"]
    BY <1>1, <1>8 DEF LoseAnswer, Lost
  <2>2. turn'[t].step = "save" /\ turn'[t].q = turn[t].q /\ turn'[t].thread = turn[t].thread
    BY <1>1, <2>1 DEF Turn
  <2>3. QED
    BY <1>2, <1>8, <2>2 DEF Fits, Committed, LoseAnswer
<1>9. CASE LockBook(t)
  <2>1. turn'[t] = [turn[t] EXCEPT !.step = "locked", !.pending = ReadPending]
    BY <1>1, <1>9 DEF LockBook, Locked, End
  <2>2. /\ turn'[t].step = "locked" /\ turn'[t].seen = turn[t].seen /\ turn'[t].thread = turn[t].thread
        /\ turn'[t].q = turn[t].q
    BY <1>1, <2>1 DEF Turn
  <2>3. turn[t].step = "advance" /\ turn[t].seen = VersionOf(t) /\ BookFree
    BY <1>9 DEF LockBook, Wins
  <2>4. QED
    BY <1>1, <1>2, <2>2, <2>3 DEF Fits, Committed
<1>10. CASE CommitLoses(t)
  <2>1. turn'[t] = [turn[t] EXCEPT !.step = "ask"]
    BY <1>1, <1>10 DEF CommitLoses, CommitQuestion, Lost
  <2>2. turn'[t].step = "ask" /\ turn'[t].thread = turn[t].thread
    BY <1>1, <2>1 DEF Turn
  <2>3. QED
    BY <2>2 DEF Fits, Committed
<1>11. QED
  BY <1>3, <1>4, <1>5, <1>6, <1>7, <1>8, <1>9, <1>10 DEF Quiet

LEMMA ThreadsAlone ==
  ASSUME ThreadInv, NEW t \in Turns, NEW own, turn' = [turn EXCEPT ![t] = own],
         own.step # "idle" => own.thread \in Threads
                              /\ Fits(own, thread[own.thread].messages, thread[own.thread].version),
         own.step = "locked" => BookFree,
         \A th \in Threads : thread'[th].version = thread[th].version
                             /\ thread'[th].messages = thread[th].messages
  PROVE  ThreadIsConsistent' /\ RequestsFit' /\ OneLocked'
<1>1. turn \in [Turns -> Turn(Len(proposals))]
  BY Typed DEF ThreadInv
<1>2. turn'[t] = own /\ \A u \in Turns \ {t} : turn'[u] = turn[u]
  BY <1>1
<1>3. ThreadIsConsistent'
  BY DEF ThreadInv, ThreadIsConsistent
<1>4. ASSUME NEW u \in Turns, turn'[u].step # "idle"
      PROVE  Fits(turn'[u], thread'[turn'[u].thread].messages, thread'[turn'[u].thread].version)
  <2>1. CASE u = t
    BY <1>2, <1>4, <2>1
  <2>2. CASE u # t
    <3>1. turn'[u] = turn[u] /\ turn[u].step # "idle" /\ turn[u].thread \in Threads
      BY <1>2, <1>4, <2>2, Typed DEF ThreadInv
    <3>2. Fits(turn[u], thread[turn[u].thread].messages, thread[turn[u].thread].version)
      BY <3>1 DEF ThreadInv, RequestsFit, MessagesOf, VersionOf
    <3>3. QED
      BY <3>1, <3>2
  <2>3. QED
    BY <2>1, <2>2
<1>5. RequestsFit'
  BY <1>4 DEF RequestsFit, MessagesOf, VersionOf
<1>6. OneLocked'
  BY <1>2 DEF ThreadInv, OneLocked, BookFree
<1>7. QED
  BY <1>3, <1>5, <1>6

LEMMA MessageAppended ==
  ASSUME ThreadInv, NEW t \in Turns, turn[t].step # "idle", NEW message \in Messages,
         thread' = Appended(t, message), NEW own, turn' = [turn EXCEPT ![t] = own],
         Consistent(MessagesOf(t) \cup {message}, VersionOf(t) + 1),
         own.step # "idle" => own.step = "find" /\ own.thread = turn[t].thread
                              /\ own.q = message.sequence /\ message.kind = "question",
         \A u \in Turns \ {t} : turn[u].step = "locked" => turn[u].thread # turn[t].thread
  PROVE  ThreadIsConsistent' /\ RequestsFit' /\ OneLocked'
<1>1. /\ turn \in [Turns -> Turn(Len(proposals))] /\ turn[t].thread \in Threads /\ VersionOf(t) \in Nat
  BY Typed DEF ThreadInv
<1>2. turn'[t] = own /\ \A u \in Turns \ {t} : turn'[u] = turn[u]
  BY <1>1
<1>3. /\ thread'[turn[t].thread].version = VersionOf(t) + 1
      /\ thread'[turn[t].thread].messages = MessagesOf(t) \cup {message}
      /\ \A th \in Threads \ {turn[t].thread} : thread'[th] = thread[th]
  BY AppendedIs DEF ThreadInv
<1>4. ThreadIsConsistent'
  <2>1. \A th \in Threads : Consistent(thread[th].messages, thread[th].version)
    BY ConsistentThreads DEF ThreadInv
  <2>2. \A th \in Threads : Consistent(thread'[th].messages, thread'[th].version)
    BY <1>3, <2>1
  <2>3. QED
    BY <2>2 DEF ThreadIsConsistent, Consistent
<1>5. ASSUME NEW u \in Turns, turn'[u].step # "idle"
      PROVE  Fits(turn'[u], thread'[turn'[u].thread].messages, thread'[turn'[u].thread].version)
  <2>1. CASE u = t
    BY <1>2, <1>3, <1>5, <2>1 DEF Fits, Committed
  <2>2. CASE u # t
    <3>1. turn'[u] = turn[u] /\ turn[u].step # "idle" /\ turn[u].thread \in Threads /\ turn[u].seen \in Nat
      BY <1>2, <1>5, <2>2, Typed DEF ThreadInv, Turn
    <3>2. Fits(turn[u], thread[turn[u].thread].messages, thread[turn[u].thread].version)
      BY <3>1 DEF ThreadInv, RequestsFit, MessagesOf, VersionOf
    <3>3. CASE turn[u].thread = turn[t].thread
      <4>1. turn[u].step # "locked"
        BY <2>2, <3>3
      <4>2. Fits(turn[u], MessagesOf(t), VersionOf(t))
        BY <3>2, <3>3 DEF MessagesOf, VersionOf
      <4>3. Fits(turn[u], MessagesOf(t) \cup {message}, VersionOf(t) + 1)
        BY <1>1, <3>1, <4>1, <4>2, FitsLater
      <4>4. QED
        BY <1>3, <3>1, <3>3, <4>3
    <3>4. CASE turn[u].thread # turn[t].thread
      BY <1>3, <3>1, <3>2, <3>4
    <3>5. QED
      BY <3>3, <3>4
  <2>3. QED
    BY <2>1, <2>2
<1>6. RequestsFit'
  BY <1>5 DEF RequestsFit, MessagesOf, VersionOf
<1>7. OneLocked'
  BY <1>2 DEF ThreadInv, OneLocked
<1>8. QED
  BY <1>4, <1>6, <1>7

LEMMA ThreadInvStep ==
  ASSUME ThreadInv, [Next]_vars
  PROVE  ThreadInv'
<1>a. TypeInv /\ TypeInv' /\ turn \in [Turns -> Turn(Len(proposals))]
  BY TypeInvStep, Typed DEF ThreadInv, TypeInv, TypeOK, Turn, Steps
<1>b. \A t \in Turns : turn[t].step # "idle" => Consistent(MessagesOf(t), VersionOf(t))
  BY <1>a, Typed, ConsistentThreads DEF ThreadInv, MessagesOf, VersionOf
<1> DEFINE Kept == ThreadIsConsistent' /\ RequestsFit' /\ OneLocked'
<1> SUFFICES Kept
  BY <1>a DEF ThreadInv
<1>1. CASE UNCHANGED vars
  BY <1>1 DEF vars, ThreadInv, ThreadIsConsistent, RequestsFit, OneLocked, MessagesOf, VersionOf
<1>2. ASSUME NEW t \in Turns, Quiet(t) PROVE Kept
  <2>1. PICK own \in Turn(Len(proposals)) : Becomes(t, own, Len(proposals))
    BY <1>2, <1>a, QuietBecomes
  <2>2. UNCHANGED thread /\ turn' = [turn EXCEPT ![t] = own] /\ turn'[t] = own /\ turn[t].step # "idle"
    BY <1>2, <1>a, <2>1, QuietTurn DEF Becomes
  <2>3. own.step # "idle" => /\ Fits(own, MessagesOf(t), VersionOf(t)) /\ own.thread = turn[t].thread
                             /\ (own.step = "locked" => BookFree)
    BY <1>2, <1>a, <2>2, QuietFits DEF ThreadInv
  <2>4. own.step # "idle" => own.thread \in Threads
                             /\ Fits(own, thread[own.thread].messages, thread[own.thread].version)
    BY <2>1, <2>3 DEF Becomes, MessagesOf, VersionOf
  <2>5. QED
    BY <2>2, <2>3, <2>4, ThreadsAlone
<1>3. ASSUME NEW t \in Turns, CommitWins(t) PROVE Kept
  <2> DEFINE own == [turn[t] EXCEPT !.step = "find", !.q = VersionOf(t) + 1, !.tries = 0]
  <2>1. /\ turn[t].step = "commit" /\ ThreadFree(turn[t].thread) /\ VersionOf(t) = turn[t].seen
        /\ thread' = Appended(t, Question(t)) /\ Question(t) \in Messages /\ turn' = [turn EXCEPT ![t] = own]
    BY <1>3, <1>a, CommitDoes DEF Becomes
  <2>2. /\ turn[t].step # "idle" /\ turn[t] \in Turn(Len(proposals)) /\ turn[t].key \in Keys /\ VersionOf(t) \in Nat
        /\ MessagesOf(t) \in SUBSET Messages
    BY <1>a, <2>1, Typed
  <2>3. \A m \in MessagesOf(t) : ~(m.kind = "question" /\ m.key = turn[t].key)
    BY <2>1, <2>2 DEF ThreadInv, RequestsFit, Fits
  <2>4. Consistent(MessagesOf(t) \cup {Question(t)}, VersionOf(t) + 1)
    BY <1>b, <2>2, <2>3, QuestionAppended DEF Question
  <2>5. own.step = "find" /\ own.thread = turn[t].thread /\ own.q = VersionOf(t) + 1
    BY <2>2 DEF Turn
  <2>6. Question(t).sequence = VersionOf(t) + 1 /\ Question(t).kind = "question"
    BY DEF Question
  <2>7. \A u \in Turns \ {t} : turn[u].step = "locked" => turn[u].thread # turn[t].thread
    BY <2>1 DEF ThreadFree
  <2> HIDE DEF own
  <2>8. QED
    BY <2>1, <2>2, <2>4, <2>5, <2>6, <2>7, MessageAppended
<1>4. ASSUME NEW t \in Turns, SaveAnswer(t) \/ SaveProposal(t) PROVE Kept
  <2>1. /\ turn[t].step \in {"advance", "locked"} /\ thread' = Appended(t, AnswerMessage(t))
        /\ turn' = [turn EXCEPT ![t] = Idle]
        /\ turn[t].step = "advance" => ThreadFree(turn[t].thread) /\ VersionOf(t) = turn[t].seen
    BY <1>4, <1>a, AnswerDoes, SaveProposalDoes DEF Becomes
  <2>2. /\ turn[t].step # "idle" /\ turn[t] \in Turn(Len(proposals)) /\ VersionOf(t) \in Nat
        /\ MessagesOf(t) \in SUBSET Messages /\ AnswerMessage(t) \in Messages /\ turn[t].q \in Nat
    BY <1>a, <2>1, Typed, AnswerTyped DEF Turn
  <2>3. /\ \A m \in MessagesOf(t) : ~(m.kind = "answer" /\ m.q = turn[t].q)
        /\ \E m \in MessagesOf(t) : m.kind = "question" /\ m.sequence = turn[t].q
    BY <2>1, <2>2 DEF ThreadInv, RequestsFit, Fits, Committed
  <2>4. Consistent(MessagesOf(t) \cup {AnswerMessage(t)}, VersionOf(t) + 1)
    BY <1>b, <2>2, <2>3, AnswerAppended DEF AnswerMessage
  <2>5. \A u \in Turns \ {t} : turn[u].step = "locked" => turn[u].thread # turn[t].thread
    BY <2>1 DEF ThreadFree, ThreadInv, OneLocked
  <2>6. Idle.step = "idle"
    BY DEF Idle
  <2>7. QED
    BY <2>1, <2>2, <2>4, <2>5, <2>6, MessageAppended
<1>5. ASSUME NEW t \in Turns, NEW th \in Threads, NEW key \in Keys, Ask(t, th, key) PROVE Kept
  <2> DEFINE own == AskedBy(t, th, key)
  <2>1. /\ Becomes(t, own, Len(proposals))
        /\ \A u \in Threads : thread'[u].version = thread[u].version
                            /\ thread'[u].messages = thread[u].messages
    BY <1>5, <1>a, AskDoes
  <2>2. own.step = "ask"
    BY DEF AskedBy, Idle
  <2>3. Fits(own, thread[own.thread].messages, thread[own.thread].version)
    BY <2>2 DEF Fits, Committed
  <2> HIDE DEF own
  <2>4. QED
    BY <2>1, <2>2, <2>3, ThreadsAlone DEF Becomes
<1>6. ASSUME NEW p \in 1..Len(proposals), Decides(p) PROVE Kept
  <2>1. UNCHANGED <<thread, turn>>
    BY <1>6, <1>a, DecisionDoes DEF Decides
  <2>2. QED
    BY <2>1 DEF ThreadInv, ThreadIsConsistent, RequestsFit, OneLocked, MessagesOf, VersionOf
<1>7. QED
  BY <1>1, <1>2, <1>3, <1>4, <1>5, <1>6, StepKinds

(***************************************************************************)
(* The proposals                                                           *)
(***************************************************************************)
\* The proposal p, its row and current revision d, while s is the strategy.
RowFits(p, row, d, s) ==
  /\ d.proposal = p /\ d.observed = row.base /\ row.base \in 1..s
  /\ row.status = "confirmed" => row.result = row.base + 1 /\ row.result <= s /\ d.draft = "confirmed"
  /\ row.status # "confirmed" => row.result = 0
  /\ row.status = "pending" => row.base = s /\ d.draft = "draft"

RowsFit ==
  \A p \in 1..Len(proposals) : RowFits(p, proposals[p], revisions[proposals[p].revision], strategy)

OnePending ==
  \A p, r \in 1..Len(proposals) :
    proposals[p].status = "pending" /\ proposals[r].status = "pending" => p = r

EachMade == \A v \in 2..strategy : \E p \in 1..Len(proposals) : proposals[p].result = v

MadeOnce ==
  \A p, r \in 1..Len(proposals) :
    proposals[p].result = proposals[r].result /\ proposals[p].result # 0 => p = r

\* What a request holds to be the pending proposal: no other one is, and if it is not any more
\* then because the reader has rejected it (to confirm it takes the lock of the book).
HeldRight(own) ==
  /\ own.observed = strategy
  /\ \A p \in 1..Len(proposals) : proposals[p].status = "pending" => p = own.pending
  /\ own.pending # 0 => /\ proposals[own.pending].status \in {"pending", "rejected"}
                        /\ proposals[own.pending].base = strategy

LockedRight == \A t \in Turns : turn[t].step = "locked" => HeldRight(turn[t])

ProposalInv == ThreadInv /\ RowsFit /\ OnePending /\ EachMade /\ MadeOnce /\ LockedRight

LEMMA ProposalInvInit == Init => ProposalInv
<1> SUFFICES ASSUME Init PROVE ProposalInv
  OBVIOUS
<1>1. ThreadInv
  BY ThreadInvInit
<1>2. Len(proposals) = 0 /\ strategy = 1
  BY DEF Init
<1>3. RowsFit /\ OnePending /\ EachMade /\ MadeOnce
  BY <1>2 DEF RowsFit, OnePending, EachMade, MadeOnce
<1>4. LockedRight
  BY DEF Init, Idle, LockedRight
<1>5. QED
  BY <1>1, <1>3, <1>4 DEF ProposalInv

LEMMA OwnRevision ==
  ASSUME ProposalInv, NEW p \in 1..Len(proposals), NEW r \in 1..Len(proposals), p # r
  PROVE  proposals[p].revision # proposals[r].revision
BY DEF ProposalInv, RowsFit, RowFits

\* A request that gets its locks.
LEMMA LockHolds ==
  ASSUME ProposalInv, NEW t \in Turns, Quiet(t), turn'[t].step = "locked"
  PROVE  HeldRight(turn'[t])
<1>a. TypeInv /\ turn \in [Turns -> Turn(Len(proposals))] /\ turn[t] \in Turn(Len(proposals))
      /\ Idle.step = "idle"
  BY Typed DEF ProposalInv, ThreadInv, Idle
<1>1. LockBook(t)
  <2>1. ReadForQuestion(t) => turn'[t].step # "locked"
    <3>1. ReadForQuestion(t) =>
            \/ turn'[t] = [turn[t] EXCEPT !.step = "find", !.q = SameQuestion(t).sequence]
            \/ turn'[t] = [turn[t] EXCEPT !.step = "commit", !.seen = VersionOf(t), !.tries = turn[t].tries + 1]
      BY <1>a DEF ReadForQuestion
    <3>2. QED
      BY <1>a, <3>1 DEF Turn
  <2>2. FindQaAnswer(t) => turn'[t].step # "locked"
    <3>1. FindQaAnswer(t) => turn'[t] = Idle \/ turn'[t] = [turn[t] EXCEPT !.step = "run"]
      BY <1>a DEF FindQaAnswer, End, Goto
    <3>2. QED
      BY <1>a, <3>1 DEF Turn
  <2>3. RunTurn(t) \/ Abandon(t) => turn'[t].step # "locked"
    BY <1>a DEF RunTurn, Abandon, End, Idle, Turn
  <2>4. ReadForAnswer(t) => turn'[t].step # "locked"
    BY <1>a DEF ReadForAnswer, Idle, Turn
  <2>5. LoseAnswer(t) \/ CommitLoses(t) => turn'[t].step # "locked"
    BY <1>a DEF LoseAnswer, CommitLoses, CommitQuestion, Lost, Idle, Turn
  <2>6. QED
    BY <2>1, <2>2, <2>3, <2>4, <2>5 DEF Quiet
<1>2. strategy = turn[t].observed /\ turn'[t] = Locked(turn[t])
  BY <1>1, <1>a DEF LockBook, End, Idle
<1>3. turn'[t].observed = strategy /\ turn'[t].pending = ReadPending
  BY <1>2, <1>a DEF Locked, Turn
<1>4. UNCHANGED <<strategy, proposals>>
  BY <1>1 DEF LockBook
<1>5. CASE Pending = {}
  BY <1>3, <1>5 DEF ReadPending, Pending, HeldRight
<1>6. CASE Pending # {}
  <2>1. ReadPending \in Pending
    BY <1>6 DEF ReadPending
  <2>2. /\ ReadPending \in 1..Len(proposals) /\ proposals[ReadPending].status = "pending"
        /\ \A p \in 1..Len(proposals) : proposals[p].status = "pending" => p = ReadPending
    BY <2>1 DEF Pending, ProposalInv, OnePending
  <2>3. proposals[ReadPending].base = strategy
    BY <2>2 DEF ProposalInv, RowsFit, RowFits
  <2>4. QED
    BY <1>3, <2>2, <2>3 DEF HeldRight
<1>7. QED
  BY <1>5, <1>6

\* Steps that leave the proposals alone.
LEMMA ProposalsAlone ==
  ASSUME ProposalInv, ThreadInv', UNCHANGED <<strategy, proposals, revisions>>,
         NEW t \in Turns, NEW own, turn' = [turn EXCEPT ![t] = own], own.step = "locked" => HeldRight(own)
  PROVE  ProposalInv'
<1>1. turn'[t] = own /\ \A u \in Turns \ {t} : turn'[u] = turn[u]
  BY Typed DEF ProposalInv, ThreadInv
<1>2. (RowsFit /\ OnePending /\ EachMade /\ MadeOnce)'
  BY DEF ProposalInv, RowsFit, OnePending, EachMade, MadeOnce
<1>3. LockedRight'
  BY <1>1 DEF ProposalInv, LockedRight, HeldRight
<1>4. QED
  BY <1>2, <1>3 DEF ProposalInv

\* What a saved proposal leaves of the others.
LEMMA OthersKept ==
  ASSUME ProposalInv, NEW t \in Turns, SaveProposal(t), NEW p \in 1..Len(proposals), p # Old(t)
  PROVE  /\ proposals'[p] = proposals[p]
         /\ RowFits(p, proposals'[p], revisions'[proposals'[p].revision], strategy)
         /\ proposals[p].status # "pending"
<1>a. TypeInv /\ turn[t].step = "locked"
  BY SaveProposalDoes DEF ProposalInv, ThreadInv
<1>1. proposals'[p] = proposals[p]
  BY <1>a, ProposalRevised, ProposalAdded
<1> DEFINE d == proposals[p].revision
<1>2. d \in 1..Len(revisions)
  BY <1>a DEF TypeInv, RowsTyped
<1>3. ~(Old(t) # 0 /\ d = proposals[Old(t)].revision)
  <2>1. Old(t) \in 0..Len(proposals) /\ Len(proposals) \in Nat
    BY <1>a, KeptTyped DEF TypeInv, TypeOK
  <2>2. Old(t) # 0 => Old(t) \in 1..Len(proposals)
    BY <2>1
  <2>3. QED
    BY <2>2, OwnRevision
<1> HIDE DEF d
<1>4. /\ revisions'[d].proposal = revisions[d].proposal
      /\ revisions'[d].observed = revisions[d].observed
      /\ revisions'[d].draft = revisions[d].draft
  <2>1. revisions'[d] = KeptRevisions(t)[d]
    BY <1>a, <1>2, RevisionAdded
  <2>2. QED
    BY <1>a, <1>2, <1>3, <2>1, KeptTyped
<1>5. RowFits(p, proposals[p], revisions[d], strategy)
  BY DEF ProposalInv, RowsFit, d
<1>6. RowFits(p, proposals[p], revisions'[d], strategy)
  BY <1>4, <1>5 DEF RowFits
<1>7. proposals[p].status # "pending"
  BY <1>a DEF ProposalInv, LockedRight, HeldRight, Old
<1>8. QED
  BY <1>1, <1>6, <1>7 DEF d

\* A proposal in hand has not been confirmed.
LEMMA OldIs ==
  ASSUME ProposalInv, NEW t \in Turns, turn[t].step = "locked"
  PROVE  /\ Old(t) \in 0..Len(proposals) /\ Len(proposals) \in Nat /\ turn[t].observed = strategy
         /\ Old(t) # 0 => /\ Old(t) \in 1..Len(proposals)
                          /\ proposals[Old(t)].status \in {"pending", "rejected"}
                          /\ proposals[Old(t)].base = strategy /\ proposals[Old(t)].result = 0
<1>1. Old(t) \in 0..Len(proposals) /\ Len(proposals) \in Nat /\ HeldRight(turn[t])
  BY KeptTyped DEF ProposalInv, ThreadInv, TypeInv, TypeOK, LockedRight
<1>2. Old(t) # 0 => /\ Old(t) \in 1..Len(proposals)
                    /\ proposals[Old(t)].status \in {"pending", "rejected"}
                    /\ proposals[Old(t)].base = strategy
  BY <1>1 DEF HeldRight, Old
<1>3. Old(t) # 0 => proposals[Old(t)].result = 0
  BY <1>2 DEF ProposalInv, RowsFit, RowFits
<1>4. QED
  BY <1>1, <1>2, <1>3 DEF HeldRight

\* No request holds the book after a proposal is saved, and no version is made by it.
LEMMA SavedUnlocks ==
  ASSUME ProposalInv, NEW t \in Turns, SaveProposal(t)
  PROVE  LockedRight' /\ strategy' = strategy
<1>1. turn[t].step = "locked" /\ turn' = [turn EXCEPT ![t] = Idle] /\ strategy' = strategy
  BY SaveProposalDoes DEF ProposalInv, ThreadInv
<1>2. turn \in [Turns -> Turn(Len(proposals))]
  BY Typed DEF ProposalInv, ThreadInv, TypeInv, TypeOK, Turn, Steps
<1>3. \A u \in Turns : turn'[u].step # "locked"
  BY <1>1, <1>2 DEF ProposalInv, ThreadInv, OneLocked, Idle
<1>4. QED
  BY <1>1, <1>3 DEF LockedRight

LEMMA ReviseKeeps ==
  ASSUME ProposalInv, ThreadInv', NEW t \in Turns, SaveProposal(t), Revises(t)
  PROVE  ProposalInv'
<1>a. TypeInv /\ turn[t].step = "locked" /\ Len(revisions) \in Nat /\ strategy \in Nat
  <2>1. TypeInv
    BY DEF ProposalInv, ThreadInv
  <2>2. turn[t].step = "locked"
    BY <2>1, SaveProposalDoes
  <2>3. QED
    BY <2>1, <2>2 DEF TypeInv, TypeOK
<1> DEFINE o == Old(t)
<1>1. /\ o \in 1..Len(proposals) /\ proposals[o].status \in {"pending", "rejected"}
      /\ proposals[o].base = strategy /\ proposals[o].result = 0 /\ turn[t].observed = strategy
  BY <1>a, OldIs DEF Revises
<1>2. /\ Len(proposals') = Len(proposals)
      /\ proposals'[o] = [proposals[o] EXCEPT !.revision = Len(revisions) + 1, !.feedback = FALSE]
      /\ \A p \in 1..Len(proposals) \ {o} : proposals'[p] = proposals[p]
  BY <1>a, ProposalRevised
<1>3. proposals[o] \in Proposal
  BY <1>a, <1>1 DEF TypeInv, TypeOK
<1>4. /\ proposals'[o].revision = Len(revisions) + 1 /\ proposals'[o].status = proposals[o].status
      /\ proposals'[o].base = strategy /\ proposals'[o].result = 0
  BY <1>1, <1>2, <1>3 DEF Proposal
<1>5. LockedRight' /\ strategy' = strategy
  BY SavedUnlocks
<1>6. revisions'[Len(revisions) + 1] = [proposal |-> o, draft |-> "draft", observed |-> strategy]
  BY <1>a, <1>1, RevisionAdded DEF NewRevision, Saved
<1>7. RowFits(o, proposals'[o], revisions'[proposals'[o].revision], strategy)
  <2>1. strategy \in 1..strategy
    BY <1>a DEF TypeInv, TypeOK
  <2>2. QED
    BY <1>1, <1>4, <1>6, <2>1 DEF RowFits
<1> HIDE DEF o
<1>8. RowsFit'
  <2>1. \A p \in 1..Len(proposals) : RowFits(p, proposals'[p], revisions'[proposals'[p].revision], strategy)
    BY <1>7, OthersKept DEF o
  <2>2. QED
    BY <1>2, <1>5, <2>1 DEF RowsFit
<1>9. OnePending' /\ EachMade' /\ MadeOnce'
  <2>1. \A p \in 1..Len(proposals) : proposals'[p].status = proposals[p].status
                                   /\ proposals'[p].result = proposals[p].result
    BY <1>1, <1>2, <1>4
  <2>2. QED
    BY <1>2, <1>5, <2>1 DEF ProposalInv, OnePending, EachMade, MadeOnce
<1>10. QED
  BY <1>5, <1>8, <1>9 DEF ProposalInv

LEMMA AddKeeps ==
  ASSUME ProposalInv, ThreadInv', NEW t \in Turns, SaveProposal(t), ~Revises(t)
  PROVE  ProposalInv'
<1>a. TypeInv /\ turn[t].step = "locked" /\ Len(revisions) \in Nat /\ strategy \in Nat \ {0}
  <2>1. TypeInv
    BY DEF ProposalInv, ThreadInv
  <2>2. turn[t].step = "locked"
    BY <2>1, SaveProposalDoes
  <2>3. QED
    BY <2>1, <2>2 DEF TypeInv, TypeOK
<1> DEFINE o == Old(t)  n == Len(proposals) + 1
<1>1. /\ o \in 0..Len(proposals) /\ Len(proposals) \in Nat /\ turn[t].observed = strategy
      /\ o # 0 => /\ o \in 1..Len(proposals) /\ proposals[o].status \in {"pending", "rejected"}
                  /\ proposals[o].base = strategy /\ proposals[o].result = 0
  BY <1>a, OldIs
<1>2. /\ Len(proposals') = n /\ proposals'[n] = NewProposal(t)
      /\ \A p \in 1..Len(proposals) :
           proposals'[p] = IF p = o THEN [proposals[p] EXCEPT !.status = "superseded"] ELSE proposals[p]
  BY <1>a, ProposalAdded
<1>3. o # 0 => proposals[o] \in Proposal
  BY <1>a, <1>1 DEF TypeInv, TypeOK
<1>4. o # 0 => /\ proposals'[o].revision = proposals[o].revision /\ proposals'[o].status = "superseded"
               /\ proposals'[o].base = strategy /\ proposals'[o].result = 0
  BY <1>1, <1>2, <1>3 DEF Proposal
<1>5. LockedRight' /\ strategy' = strategy
  BY SavedUnlocks
<1>6. revisions'[Len(revisions) + 1] = [proposal |-> n, draft |-> "draft", observed |-> strategy]
  BY <1>a, <1>1, RevisionAdded DEF NewRevision, Saved
<1>7. RowFits(n, proposals'[n], revisions'[proposals'[n].revision], strategy)
  <2>1. strategy \in 1..strategy
    BY <1>a
  <2>2. /\ proposals'[n].revision = Len(revisions) + 1 /\ proposals'[n].base = strategy
        /\ proposals'[n].status = "pending" /\ proposals'[n].result = 0
    BY <1>2 DEF NewProposal
  <2>3. QED
    BY <1>6, <2>1, <2>2 DEF RowFits
<1>8. o # 0 => RowFits(o, proposals'[o], revisions'[proposals'[o].revision], strategy)
  <2> SUFFICES ASSUME o # 0
               PROVE  RowFits(o, proposals'[o], revisions'[proposals'[o].revision], strategy)
    OBVIOUS
  <2> DEFINE d == proposals[o].revision
  <2>1. d \in 1..Len(revisions)
    BY <1>a, <1>1 DEF TypeInv, RowsTyped
  <2>2. RowFits(o, proposals[o], revisions[d], strategy)
    BY <1>1 DEF ProposalInv, RowsFit
  <2> HIDE DEF d
  <2>3. revisions'[d] = KeptRevisions(t)[d]
    BY <1>a, <2>1, RevisionAdded
  <2>4. revisions'[d].proposal = revisions[d].proposal /\ revisions'[d].observed = revisions[d].observed
    BY <1>a, <2>1, <2>3, KeptTyped
  <2>5. proposals[o].base \in 1..strategy
    BY <2>2 DEF RowFits
  <2>6. RowFits(o, proposals'[o], revisions'[d], strategy)
    BY <1>1, <1>4, <2>2, <2>4, <2>5 DEF RowFits
  <2>7. QED
    BY <1>4, <2>6 DEF d
<1>b. \A p \in 1..n : p \in 1..Len(proposals) \/ p = n
  BY <1>1
<1>9. RowsFit'
  <2>1. \A p \in 1..n : RowFits(p, proposals'[p], revisions'[proposals'[p].revision], strategy)
    BY <1>7, <1>8, <1>1, <1>b, OthersKept
  <2>2. QED
    BY <1>2, <1>5, <2>1 DEF RowsFit
<1>10. OnePending'
  <2>1. \A p \in 1..Len(proposals) : proposals'[p].status # "pending"
    BY <1>1, <1>2, <1>4, OthersKept
  <2>2. \A p \in 1..Len(proposals') : proposals'[p].status = "pending" => p = n
    BY <1>2, <1>b, <2>1
  <2>3. QED
    BY <2>2 DEF OnePending
<1>11. EachMade' /\ MadeOnce'
  <2>1. \A p \in 1..Len(proposals) : proposals'[p].result = proposals[p].result
    <3>1. ASSUME NEW p \in 1..Len(proposals), p = o PROVE proposals'[p].result = proposals[p].result
      BY <1>1, <1>4, <3>1
    <3>2. ASSUME NEW p \in 1..Len(proposals), p # o PROVE proposals'[p].result = proposals[p].result
      BY <1>2, <3>2
    <3>3. QED
      BY <3>1, <3>2
  <2>2. proposals'[n].result = 0
    BY <1>2 DEF NewProposal
  <2>3. EachMade'
    BY <1>1, <1>2, <1>5, <2>1 DEF ProposalInv, EachMade
  <2>4. MadeOnce'
    BY <1>2, <1>b, <2>1, <2>2 DEF ProposalInv, MadeOnce
  <2>5. QED
    BY <2>3, <2>4
<1>12. QED
  BY <1>5, <1>9, <1>10, <1>11 DEF ProposalInv

LEMMA DecisionKeeps ==
  ASSUME ProposalInv, ThreadInv', NEW p \in 1..Len(proposals), Decides(p)
  PROVE  ProposalInv'
<1>a. /\ Len(proposals) \in Nat /\ Len(revisions) \in Nat /\ strategy \in Nat \ {0}
      /\ \A r \in 1..Len(proposals) : proposals[r] \in Proposal /\ proposals[r].revision \in 1..Len(revisions)
      /\ revisions \in [1..Len(revisions) -> Revision]
      /\ proposals \in [1..Len(proposals) -> Proposal]
  BY DEF ProposalInv, ThreadInv, TypeInv, TypeOK, RowsTyped
<1>b. TypeInv
  BY DEF ProposalInv, ThreadInv
<1>1. /\ proposals[p].status = "pending" /\ UNCHANGED <<thread, turn, asks>>
      /\ Len(proposals') = Len(proposals)
      /\ proposals'[p].revision = proposals[p].revision /\ proposals'[p].base = proposals[p].base
      /\ \A r \in 1..Len(proposals) \ {p} : proposals'[r] = proposals[r]
  BY <1>b, DecisionDoes DEF Decides
<1>2. /\ proposals[p].base = strategy /\ proposals[p].result = 0
      /\ \A r \in 1..Len(proposals) \ {p} : proposals[r].status # "pending"
      /\ \A r \in 1..Len(proposals) \ {p} : proposals[r].revision # proposals[p].revision
  BY <1>1, OwnRevision DEF ProposalInv, RowsFit, RowFits, OnePending
<1>3. \A r \in 1..Len(proposals) : RowFits(r, proposals[r], revisions[proposals[r].revision], strategy)
  BY DEF ProposalInv, RowsFit
<1>4. CASE FeedbackProposal(p)
  <2>1. /\ UNCHANGED <<strategy, revisions>>
        /\ \A r \in 1..Len(proposals) : proposals'[r].status = proposals[r].status
             /\ proposals'[r].result = proposals[r].result /\ proposals'[r].base = proposals[r].base
             /\ proposals'[r].revision = proposals[r].revision
    BY <1>a, <1>1, <1>4 DEF FeedbackProposal, Proposal
  <2>2. RowsFit'
    BY <1>1, <1>3, <2>1 DEF RowsFit, RowFits
  <2>3. OnePending' /\ EachMade' /\ MadeOnce'
    BY <1>1, <2>1 DEF ProposalInv, OnePending, EachMade, MadeOnce
  <2>4. LockedRight'
    <3>1. ASSUME NEW own \in Turn(Len(proposals)), HeldRight(own) PROVE HeldRight(own)'
      <4>1. own.pending # 0 => own.pending \in 1..Len(proposals)
        BY <1>a DEF Turn
      <4>2. QED
        BY <1>1, <2>1, <3>1, <4>1 DEF HeldRight
    <3>2. QED
      BY <1>1, <1>b, <3>1, Typed DEF ProposalInv, LockedRight
  <2>5. QED
    BY <2>2, <2>3, <2>4 DEF ProposalInv
<1>5. CASE RejectProposal(p)
  <2>1. /\ strategy' = strategy /\ proposals'[p].status = "rejected" /\ proposals'[p].result = 0
        /\ revisions' = Dropped(proposals[p].revision)
    BY <1>a, <1>2, <1>5 DEF RejectProposal, Proposal
  <2>2. \A e \in 1..Len(revisions) : /\ revisions'[e].proposal = revisions[e].proposal
                                     /\ revisions'[e].observed = revisions[e].observed
                                     /\ e # proposals[p].revision => revisions'[e].draft = revisions[e].draft
    BY <1>a, <1>b, <2>1, DroppedTyped
  <2>3. RowsFit'
    <3>1. ASSUME NEW r \in 1..Len(proposals) \ {p}
          PROVE  RowFits(r, proposals'[r], revisions'[proposals'[r].revision], strategy)
      <4> DEFINE e == proposals[r].revision
      <4>1. proposals'[r] = proposals[r] /\ e \in 1..Len(revisions) /\ e # proposals[p].revision
        BY <1>a, <1>1, <1>2
      <4>2. /\ revisions'[e].proposal = revisions[e].proposal
            /\ revisions'[e].observed = revisions[e].observed
            /\ revisions'[e].draft = revisions[e].draft
        BY <2>2, <4>1
      <4>3. RowFits(r, proposals[r], revisions[e], strategy)
        BY <1>3
      <4> HIDE DEF e
      <4>4. RowFits(r, proposals[r], revisions'[e], strategy)
        BY <4>2, <4>3 DEF RowFits
      <4>5. QED
        BY <4>1, <4>4 DEF e
    <3>2. RowFits(p, proposals'[p], revisions'[proposals'[p].revision], strategy)
      <4> DEFINE e == proposals[p].revision
      <4>1. /\ proposals'[p].revision = e /\ proposals'[p].base = proposals[p].base
            /\ proposals'[p].status = "rejected" /\ proposals'[p].result = 0
        BY <1>1, <2>1
      <4>2. /\ revisions'[e].proposal = revisions[e].proposal
            /\ revisions'[e].observed = revisions[e].observed
        BY <1>a, <2>2
      <4>3. RowFits(p, proposals[p], revisions[e], strategy)
        BY <1>3
      <4> HIDE DEF e
      <4>4. RowFits(p, proposals'[p], revisions'[e], strategy)
        BY <4>1, <4>2, <4>3 DEF RowFits
      <4>5. QED
        BY <4>1, <4>4
    <3>3. QED
      BY <1>1, <2>1, <3>1, <3>2 DEF RowsFit
  <2>4. OnePending'
    BY <1>1, <1>2, <2>1 DEF OnePending
  <2>5. EachMade' /\ MadeOnce'
    <3>1. \A r \in 1..Len(proposals) : proposals'[r].result = proposals[r].result
      BY <1>1, <1>2, <2>1
    <3>2. QED
      BY <1>1, <2>1, <3>1 DEF ProposalInv, EachMade, MadeOnce
  <2>6. LockedRight'
    <3>1. ASSUME NEW own \in Turn(Len(proposals)), HeldRight(own) PROVE HeldRight(own)'
      <4>1. own.pending # 0 => own.pending \in 1..Len(proposals)
        BY <1>a DEF Turn
      <4>2. \A r \in 1..Len(proposals') : proposals'[r].status # "pending"
        BY <1>1, <1>2, <2>1
      <4>3. own.pending # 0 => /\ proposals'[own.pending].status \in {"pending", "rejected"}
                               /\ proposals'[own.pending].base = strategy
        BY <1>1, <1>2, <2>1, <3>1, <4>1 DEF HeldRight
      <4>4. QED
        BY <2>1, <3>1, <4>2, <4>3 DEF HeldRight
    <3>2. QED
      BY <1>1, <1>b, <3>1, Typed DEF ProposalInv, LockedRight
  <2>7. QED
    BY <2>3, <2>4, <2>5, <2>6 DEF ProposalInv
<1>6. CASE ConfirmProposal(p)
  <2> DEFINE row == [proposals[p] EXCEPT !.status = "confirmed", !.result = strategy + 1]
             d   == proposals[p].revision
  <2>1. /\ strategy' = strategy + 1 /\ BookFree
        /\ revisions' = [revisions EXCEPT ![d].draft = "confirmed"]
        /\ proposals' = [proposals EXCEPT ![p] = row]
    BY <1>a, <1>6 DEF ConfirmProposal
  <2>2. row.status = "confirmed" /\ row.result = strategy + 1
    BY <1>a DEF Proposal
  <2> HIDE DEF row
  <2>3. proposals'[p].status = "confirmed" /\ proposals'[p].result = strategy + 1
    BY <1>a, <2>1, <2>2
  <2>4. d \in 1..Len(revisions)
    BY <1>a
  <2>b. \A r \in 1..Len(proposals) : proposals[r].revision = d => r = p
    BY <1>2
  <2>c. proposals'[p].revision = d
    BY <1>1
  <2> HIDE DEF d
  <2>5. /\ revisions'[d].proposal = revisions[d].proposal /\ revisions'[d].observed = revisions[d].observed
        /\ revisions'[d].draft = "confirmed"
        /\ \A e \in 1..Len(revisions) \ {d} : revisions'[e] = revisions[e]
    BY <1>a, <2>1, <2>4 DEF Revision
  <2>6. RowsFit'
    <3>1. ASSUME NEW r \in 1..Len(proposals), r # p
          PROVE  RowFits(r, proposals'[r], revisions'[proposals'[r].revision], strategy + 1)
      <4>1. proposals'[r] = proposals[r] /\ proposals[r].status # "pending" /\ proposals[r].revision # d
            /\ revisions'[proposals[r].revision] = revisions[proposals[r].revision]
        BY <1>a, <1>1, <1>2, <2>5, <2>b, <3>1
      <4>2. RowFits(r, proposals[r], revisions[proposals[r].revision], strategy)
        BY <1>3
      <4>3. proposals[r].result \in Nat
        BY <1>a DEF Proposal
      <4>4. RowFits(r, proposals[r], revisions[proposals[r].revision], strategy + 1)
        BY <1>a, <4>1, <4>2, <4>3 DEF RowFits
      <4>5. QED
        BY <4>1, <4>4
    <3>2. RowFits(p, proposals'[p], revisions'[proposals'[p].revision], strategy + 1)
      <4>1. RowFits(p, proposals[p], revisions[d], strategy)
        BY <1>3 DEF d
      <4>2. proposals'[p].base = strategy
        BY <1>1, <1>2
      <4>3. strategy \in 1..strategy + 1 /\ strategy + 1 <= strategy + 1
        BY <1>a
      <4>4. RowFits(p, proposals'[p], revisions'[d], strategy + 1)
        BY <1>2, <2>3, <2>5, <4>1, <4>2, <4>3 DEF RowFits
      <4>5. QED
        BY <2>c, <4>4
    <3>3. QED
      BY <1>1, <2>1, <3>1, <3>2 DEF RowsFit
  <2>7. OnePending'
    BY <1>1, <1>2, <2>3 DEF OnePending
  <2>d. \A r \in 1..Len(proposals) : proposals[r].result <= strategy /\ proposals[r].result \in Nat
    BY <1>a, <1>3 DEF RowFits, Proposal
  <2>8. EachMade'
    <3>1. ASSUME NEW v \in 2..strategy + 1
          PROVE  \E r \in 1..Len(proposals) : proposals'[r].result = v
      <4>1. CASE v = strategy + 1
        BY <2>3, <4>1
      <4>2. CASE v # strategy + 1
        <5>1. v \in 2..strategy
          BY <1>a, <4>2
        <5>2. PICK r \in 1..Len(proposals) : proposals[r].result = v
          BY <5>1 DEF ProposalInv, EachMade
        <5>3. r # p
          BY <1>2, <5>1, <5>2
        <5>4. QED
          BY <1>1, <5>2, <5>3
      <4>3. QED
        BY <4>1, <4>2
    <3>2. QED
      BY <1>1, <2>1, <3>1 DEF EachMade
  <2>9. MadeOnce'
    <3>1. \A r \in 1..Len(proposals) \ {p} : proposals'[r].result # strategy + 1
      BY <1>a, <1>1, <2>d
    <3>2. \A r, q \in 1..Len(proposals) :
            proposals'[r].result = proposals'[q].result /\ proposals'[r].result # 0 => r = q
      BY <1>1, <2>3, <3>1 DEF ProposalInv, MadeOnce
    <3>3. QED
      BY <1>1, <3>2 DEF MadeOnce
  <2>10. LockedRight'
    BY <1>1, <2>1 DEF LockedRight, BookFree
  <2>11. QED
    BY <2>6, <2>7, <2>8, <2>9, <2>10 DEF ProposalInv
<1>7. QED
  BY <1>4, <1>5, <1>6 DEF Decides

LEMMA ProposalInvStep ==
  ASSUME ProposalInv, [Next]_vars
  PROVE  ProposalInv'
<1>a. ThreadInv /\ ThreadInv' /\ TypeInv
  BY ThreadInvStep DEF ProposalInv, ThreadInv
<1>1. CASE UNCHANGED vars
  BY <1>a, <1>1 DEF vars, ProposalInv, RowsFit, OnePending, EachMade, MadeOnce, LockedRight,
     HeldRight
<1>2. ASSUME NEW t \in Turns, Quiet(t) PROVE ProposalInv'
  <2>1. PICK own \in Turn(Len(proposals)) : Becomes(t, own, Len(proposals))
    BY <1>2, <1>a, QuietBecomes
  <2>2. UNCHANGED <<strategy, proposals, revisions>> /\ turn' = [turn EXCEPT ![t] = own]
    BY <1>2, <1>a, <2>1, QuietTurn DEF Becomes
  <2>3. turn'[t] = own
    BY <1>a, <2>2, Typed
  <2>4. QED
    BY <1>2, <1>a, <2>2, <2>3, LockHolds, ProposalsAlone
<1>3. ASSUME NEW t \in Turns, CommitWins(t) PROVE ProposalInv'
  <2> DEFINE own == [turn[t] EXCEPT !.step = "find", !.q = VersionOf(t) + 1, !.tries = 0]
  <2>1. turn' = [turn EXCEPT ![t] = own] /\ UNCHANGED <<strategy, proposals, revisions>>
    BY <1>3, <1>a, CommitDoes DEF Becomes
  <2>2. own.step # "locked"
    BY <1>a, Typed DEF Turn
  <2> HIDE DEF own
  <2>3. QED
    BY <1>a, <2>1, <2>2, ProposalsAlone
<1>4. ASSUME NEW t \in Turns, SaveAnswer(t) PROVE ProposalInv'
  <2>1. turn' = [turn EXCEPT ![t] = Idle] /\ UNCHANGED <<strategy, proposals, revisions>> /\ Idle.step # "locked"
    BY <1>4, <1>a, AnswerDoes DEF Becomes, Idle
  <2>2. QED
    BY <1>a, <2>1, ProposalsAlone
<1>5. ASSUME NEW t \in Turns, NEW th \in Threads, NEW key \in Keys, Ask(t, th, key) PROVE ProposalInv'
  <2>1. /\ turn' = [turn EXCEPT ![t] = AskedBy(t, th, key)] /\ UNCHANGED <<strategy, proposals, revisions>>
    BY <1>5, <1>a, AskDoes DEF Becomes
  <2>2. AskedBy(t, th, key).step # "locked"
    BY DEF AskedBy, Idle
  <2>3. QED
    BY <1>a, <2>1, <2>2, ProposalsAlone
<1>6. ASSUME NEW t \in Turns, SaveProposal(t) PROVE ProposalInv'
  BY <1>6, <1>a, ReviseKeeps, AddKeeps
<1>7. ASSUME NEW p \in 1..Len(proposals), Decides(p) PROVE ProposalInv'
  BY <1>7, <1>a, DecisionKeeps
<1>8. QED
  BY <1>1, <1>2, <1>3, <1>4, <1>5, <1>6, <1>7, StepKinds

\* Exactly one confirmation has made each later version.
LEMMA VersionsHold == ASSUME ProposalInv PROVE VersionsBuildOnEachOther
<1>1. ASSUME NEW v \in 2..strategy
      PROVE  Cardinality({p \in 1..Len(proposals) : proposals[p].result = v}) = 1
  <2>1. PICK p \in 1..Len(proposals) : proposals[p].result = v
    BY DEF ProposalInv, EachMade
  <2>2. v # 0
    OBVIOUS
  <2>3. {r \in 1..Len(proposals) : proposals[r].result = v} = {p}
    BY <2>1, <2>2 DEF ProposalInv, MadeOnce
  <2>4. QED
    BY <2>3, FS_Singleton
<1>2. QED
  BY <1>1 DEF ProposalInv, RowsFit, RowFits, VersionsBuildOnEachOther

LEMMA DecisionsStep ==
  ASSUME ProposalInv, [Next]_vars
  PROVE  [DecidedStays]_vars
<1> SUFFICES ASSUME Next PROVE DecidedStays
  BY DEF vars
<1>a. ThreadInv /\ TypeInv
  BY DEF ProposalInv, ThreadInv
<1>1. CASE UNCHANGED proposals
  BY <1>1 DEF DecidedStays
<1>2. ASSUME NEW t \in Turns, SaveProposal(t) PROVE DecidedStays
  <2>1. turn[t].step = "locked"
    BY <1>2, <1>a, SaveProposalDoes
  <2>2. \A p \in 1..Len(proposals) \ {Old(t)} : proposals'[p] = proposals[p]
    BY <1>2, OthersKept
  <2>3. ASSUME Old(t) \in 1..Len(proposals)
        PROVE  /\ proposals[Old(t)].status # "confirmed"
               /\ proposals[Old(t)].status # "pending" => proposals'[Old(t)].status # "pending"
    <3>1. Old(t) # 0 /\ proposals[Old(t)] \in Proposal
      BY <1>a, <2>3 DEF TypeInv, TypeOK
    <3>2. proposals[Old(t)].status \in {"pending", "rejected"}
      BY <2>1, <3>1, OldIs
    <3>3. CASE Revises(t)
      <4>1. proposals'[Old(t)] =
              [proposals[Old(t)] EXCEPT !.revision = Len(revisions) + 1, !.feedback = FALSE]
        BY <1>2, <1>a, <3>3, ProposalRevised
      <4>2. QED
        BY <3>1, <3>2, <4>1 DEF Proposal
    <3>4. CASE ~Revises(t)
      <4>1. proposals'[Old(t)] = [proposals[Old(t)] EXCEPT !.status = "superseded"]
        BY <1>2, <1>a, <2>3, <3>4, ProposalAdded
      <4>2. QED
        BY <3>1, <3>2, <4>1 DEF Proposal
    <3>5. QED
      BY <3>3, <3>4
  <2>4. QED
    BY <2>2, <2>3 DEF DecidedStays
<1>3. ASSUME NEW p \in 1..Len(proposals), Decides(p) PROVE DecidedStays
  BY <1>3, <1>a, DecisionDoes DEF Decides, DecidedStays
<1>4. ASSUME NEW t \in Turns, Quiet(t) \/ CommitWins(t) \/ SaveAnswer(t) PROVE UNCHANGED proposals
  BY <1>4, <1>a, QuietTurn, CommitDoes, AnswerDoes
<1>5. ASSUME NEW t \in Turns, NEW th \in Threads, NEW key \in Keys, Ask(t, th, key)
      PROVE  UNCHANGED proposals
  BY <1>5, <1>a, AskDoes
<1>6. QED
  BY <1>1, <1>2, <1>3, <1>4, <1>5, StepKinds

LEMMA Always == Spec => []ProposalInv
BY ProposalInvInit, ProposalInvStep, PTL DEF Spec

\* The types of the rows and of what a request remembers.
THEOREM ProposalsTypeCorrect == Spec => []TypeOK
<1>1. ProposalInv => TypeOK
  BY DEF ProposalInv, ThreadInv, TypeInv
<1>2. QED
  BY <1>1, Always, PTL

\* However many requests write to one thread, and however often each starts over, messages are
\* numbered without gap, no question is stored twice and none is answered twice
\* (user-books.ts, the compare-and-set of conversation_version).
THEOREM ThreadsStayConsistent == Spec => []ThreadIsConsistent
<1>1. ProposalInv => ThreadIsConsistent
  BY DEF ProposalInv, ThreadInv
<1>2. QED
  BY <1>1, Always, PTL

\* Each strategy version is made by one confirmation, of a draft written with its predecessor in
\* view, and what is pending can be confirmed now.
THEOREM NoChangeIsLost == Spec => []VersionsBuildOnEachOther
BY VersionsHold, Always, PTL

\* A proposal that was confirmed or rejected is never pending again, and a confirmed one is
\* not changed by an answer that is still on its way (of a rejected one nothing more is said).
THEOREM NoDecisionIsReopened == Spec => DecisionsStand
BY Always, DecisionsStep, PTL DEF Spec, DecisionsStand
=============================================================================
