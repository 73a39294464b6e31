------------------------ MODULE StrategyProposals -------------------------
(***************************************************************************)
(* The question threads of one active book and the strategy changes that   *)
(* come out of them (apps/api/src/user-books.ts): a request commits its    *)
(* question, runs a turn of the agent, and saves the answer together with  *)
(* the change the agent proposes, if any; the reader comments, rejects or  *)
(* confirms the pending proposal from another request.                     *)
(*                                                                         *)
(* Statements of one transaction are one action except where another       *)
(* request can come between them: before a compare-and-set, and between    *)
(* the reading of the pending proposal and its update.  An action that     *)
(* would wait for a row lock is not enabled while the lock is held.  The    *)
(* version of the reader profile an answer may bring is left out: nothing  *)
(* here reads it.                                                          *)
(***************************************************************************)
EXTENDS ReaderConstants, FiniteSets, Sequences

VARIABLES
  strategy,   \* user_books.current_strategy_version_id
  thread,     \* qa_sessions: conversation_version (0: not created) and messages
  proposals,  \* strategy_change_proposals, in the order of their creation
  revisions,  \* their revisions, each with its candidate draft
  turn,       \* the statement each request has reached, and what it has read
  asks        \* requests so far (bound: MaxAsks)

vars == <<strategy, thread, proposals, revisions, turn, asks>>

Messages == [sequence: Nat, kind: {"question"}, key: Keys, q: {0}]
            \cup [sequence: Nat, kind: {"answer"}, key: {NoQuestion}, q: Nat]

Thread == [open: BOOLEAN, version: Nat, messages: SUBSET Messages]

\* feedback: the reader's comment on the current revision is set; result: the strategy
\* version a confirmed proposal has made.
Proposal == [thread: Threads, status: {"pending", "confirmed", "rejected", "superseded"},
             revision: Nat, base: Nat, feedback: BOOLEAN, result: Nat]

\* observed: the strategy the agent worked with, kept here to state properties with.
Revision == [proposal: Nat, draft: {"draft", "confirmed", "superseded"}, observed: Nat]

Idle == [step |-> "idle", thread |-> NoThread, key |-> NoQuestion, q |-> 0, seen |-> 0,
         observed |-> 0, pending |-> 0, tries |-> 0]

TypeOK ==
  /\ strategy \in Nat \ {0}
  /\ thread \in [Threads -> Thread]
  /\ proposals \in Seq(Proposal) /\ revisions \in Seq(Revision)
  /\ turn \in [Turns ->
       [step: {"idle", "ask", "commit", "find", "run", "save", "advance", "locked"},
        thread: Threads \cup {NoThread}, key: Keys \cup {NoQuestion}, q: Nat, seen: Nat,
        observed: Nat, pending: 0..Len(proposals), tries: 0..Tries]]
  /\ asks \in Nat

Init ==
  /\ strategy = 1
  /\ thread = [th \in Threads |-> [open |-> FALSE, version |-> 0, messages |-> {}]]
  /\ proposals = <<>> /\ revisions = <<>>
  /\ turn = [t \in Turns |-> Idle] /\ asks = 0

Goto(t, step) == turn' = [turn EXCEPT ![t].step = step]
End(t) == turn' = [turn EXCEPT ![t] = Idle]
MessagesOf(t) == thread[turn[t].thread].messages
VersionOf(t) == thread[turn[t].thread].version

\* A turn that saves a proposal holds the rows of its thread and of the book.
ThreadFree(th) == \A u \in Turns : turn[u].step = "locked" => turn[u].thread # th
BookFree == \A u \in Turns : turn[u].step # "locked"

\* One message is appended with the number the compare-and-set has won.
Appended(t, message) ==
  [thread EXCEPT ![turn[t].thread].version = @ + 1, ![turn[t].thread].messages = @ \cup {message}]

(***************************************************************************)
(* The question                                                            *)
(***************************************************************************)
\* The request reads the book and resolves its thread, or creates one.
Ask(t, th, key) ==
  /\ turn[t] = Idle /\ asks < MaxAsks
  /\ asks' = asks + 1
  /\ thread' = [thread EXCEPT ![th].open = TRUE]
  /\ turn' = [turn EXCEPT ![t] =
       [Idle EXCEPT !.step = "ask", !.thread = th, !.key = key, !.observed = strategy]]
  /\ UNCHANGED <<strategy, proposals, revisions>>

Asked(t) == {m \in MessagesOf(t) : m.kind = "question" /\ m.key = turn[t].key}
SameQuestion(t) == CHOOSE m \in Asked(t) : TRUE
Answered(t) == \E m \in MessagesOf(t) : m.kind = "answer" /\ m.q = turn[t].q

\* A question that is there already is not committed again; otherwise the number to
\* claim is read.
ReadForQuestion(t) ==
  /\ turn[t].step = "ask"
  /\ turn' = [turn EXCEPT ![t] =
       IF Asked(t) # {}
       THEN [@ EXCEPT !.step = "find", !.q = SameQuestion(t).sequence]
       ELSE [@ EXCEPT !.step = "commit", !.seen = VersionOf(t), !.tries = turn[t].tries + 1]]
  /\ UNCHANGED <<strategy, thread, proposals, revisions, asks>>

\* A lost compare-and-set starts the transaction over, a few times.
Lost(t, again) ==
  turn' = [turn EXCEPT ![t] = IF @.tries < Tries THEN [@ EXCEPT !.step = again] ELSE Idle]

\* Mutant of CommitQuestion: the conversation version is not compared.
CommitQuestionBlindly(t) ==
  /\ turn[t].step = "commit" /\ ThreadFree(turn[t].thread)
  /\ LET n == turn[t].seen + 1 IN
     /\ Cardinality(MessagesOf(t)) < MaxMessages
     /\ thread' = [thread EXCEPT ![turn[t].thread].version = n, ![turn[t].thread].messages = @ \cup
          {[sequence |-> n, kind |-> "question", key |-> turn[t].key, q |-> 0]}]
     /\ turn' = [turn EXCEPT ![t] = [@ EXCEPT !.step = "find", !.q = n, !.tries = 0]]
  /\ UNCHANGED <<strategy, proposals, revisions, asks>>

CommitQuestion(t) ==
  /\ turn[t].step = "commit" /\ ThreadFree(turn[t].thread)
  /\ IF VersionOf(t) = turn[t].seen
     THEN /\ Cardinality(MessagesOf(t)) < MaxMessages
          /\ thread' = Appended(t,
               [sequence |-> VersionOf(t) + 1, kind |-> "question", key |-> turn[t].key, q |-> 0])
          /\ turn' = [turn EXCEPT ![t] =
               [@ EXCEPT !.step = "find", !.q = VersionOf(t) + 1, !.tries = 0]]
     ELSE Lost(t, "ask") /\ UNCHANGED thread
  /\ UNCHANGED <<strategy, proposals, revisions, asks>>

\* An answered question is answered from the table, any other runs a turn.
FindQaAnswer(t) ==
  /\ turn[t].step = "find"
  /\ IF Answered(t) THEN End(t) ELSE Goto(t, "run")
  /\ UNCHANGED <<strategy, thread, proposals, revisions, asks>>

\* The agent has finished its turn.
RunTurn(t) ==
  /\ turn[t].step = "run"
  /\ turn' = [turn EXCEPT ![t] = [@ EXCEPT !.step = "save", !.tries = 0]]
  /\ UNCHANGED <<strategy, thread, proposals, revisions, asks>>

\* The turn fails, the reader leaves, or the process dies; a transaction under way is
\* rolled back and its locks are released.
Abandon(t) ==
  /\ turn[t] # Idle
  /\ End(t)
  /\ UNCHANGED <<strategy, thread, proposals, revisions, asks>>

(***************************************************************************)
(* The answer                                                              *)
(***************************************************************************)
\* An answer saved meanwhile is returned; otherwise the number to claim is read.
ReadForAnswer(t) ==
  /\ turn[t].step = "save"
  /\ turn' = [turn EXCEPT ![t] =
       IF Answered(t) THEN Idle
       ELSE [@ EXCEPT !.step = "advance", !.seen = VersionOf(t), !.tries = turn[t].tries + 1]]
  /\ UNCHANGED <<strategy, thread, proposals, revisions, asks>>

AnswerMessage(t) == [sequence |-> VersionOf(t) + 1, kind |-> "answer", key |-> NoQuestion, q |-> turn[t].q]
Wins(t) == VersionOf(t) = turn[t].seen /\ Cardinality(MessagesOf(t)) < MaxMessages

\* An answer that leaves the strategy alone.
SaveAnswer(t) ==
  /\ turn[t].step = "advance" /\ ThreadFree(turn[t].thread) /\ Wins(t)
  /\ thread' = Appended(t, AnswerMessage(t))
  /\ End(t)
  /\ UNCHANGED <<strategy, proposals, revisions, asks>>

LoseAnswer(t) ==
  /\ turn[t].step = "advance" /\ ThreadFree(turn[t].thread) /\ VersionOf(t) # turn[t].seen
  /\ Lost(t, "save")
  /\ UNCHANGED <<strategy, thread, proposals, revisions, asks>>

Pending == {p \in 1..Len(proposals) : proposals[p].status = "pending"}

\* The request holds its locks and has read the pending proposal.
ReadPending == IF Pending = {} THEN 0 ELSE CHOOSE p \in Pending : TRUE
Locked(own) == [own EXCEPT !.step = "locked", !.pending = ReadPending]

\* Mutant of LockBook: the strategy the agent has worked with is not compared.
LockBookUnobserved(t) ==
  /\ turn[t].step = "advance" /\ ThreadFree(turn[t].thread) /\ BookFree /\ Wins(t)
  /\ Len(revisions) < MaxRevisions
  /\ turn' = [turn EXCEPT ![t] = Locked(@)]
  /\ UNCHANGED <<strategy, thread, proposals, revisions, asks>>

\* An answer that proposes a change, as far as its transaction can be overtaken: the
\* number is won, the book is locked and still has the strategy of the turn, and the
\* pending proposal has been read, without a lock on it ...
LockBook(t) ==
  /\ turn[t].step = "advance" /\ ThreadFree(turn[t].thread) /\ BookFree /\ Wins(t)
  /\ Len(revisions) < MaxRevisions
  /\ IF strategy = turn[t].observed
     THEN turn' = [turn EXCEPT ![t] = Locked(@)]
     ELSE End(t)
  /\ UNCHANGED <<strategy, thread, proposals, revisions, asks>>

\* The draft of revision d if it is still a candidate.
Dropped(d) == [revisions EXCEPT ![d].draft = IF @ = "draft" THEN "superseded" ELSE @]

\* ... and the rest: the pending proposal of this thread is revised, that of another one
\* makes room for a new one.  Neither update asks whether it is still pending.
SaveProposal(t) ==
  LET old    == turn[t].pending
      revise == old # 0 /\ proposals[old].thread = turn[t].thread
                /\ proposals[old].base = strategy
      p      == IF revise THEN old ELSE Len(proposals) + 1
      d      == Len(revisions) + 1
      kept   == IF old = 0 THEN revisions ELSE Dropped(proposals[old].revision) IN
  /\ turn[t].step = "locked"
  /\ thread' = Appended(t, AnswerMessage(t))
  /\ revisions' = Append(kept, [proposal |-> p, draft |-> "draft", observed |-> turn[t].observed])
  /\ proposals' =
       IF revise
       THEN [proposals EXCEPT ![old].revision = d, ![old].feedback = FALSE]
       ELSE Append(IF old = 0 THEN proposals
                   ELSE [proposals EXCEPT ![old].status = "superseded"],
                   [thread |-> turn[t].thread, status |-> "pending", revision |-> d,
                    base |-> strategy, feedback |-> FALSE, result |-> 0])
  /\ End(t)
  /\ UNCHANGED <<strategy, asks>>

(***************************************************************************)
(* The reader's decisions, each one transaction under the lock of the      *)
(* proposal.  A repeated command (same idempotency key) reads the stored   *)
(* result and changes nothing, a command on an old revision is refused.    *)
(***************************************************************************)
FeedbackProposal(p) ==
  /\ proposals[p].status = "pending"
  /\ proposals' = [proposals EXCEPT ![p].feedback = TRUE]
  /\ UNCHANGED <<strategy, thread, revisions, turn, asks>>

RejectProposal(p) ==
  /\ proposals[p].status = "pending"
  /\ proposals' = [proposals EXCEPT ![p].status = "rejected"]
  /\ revisions' = Dropped(proposals[p].revision)
  /\ UNCHANGED <<strategy, thread, turn, asks>>

\* Mutant of ConfirmProposal: the book is not locked, as in the other two.
ConfirmProposalUnlocked(p) ==
  /\ proposals[p].status = "pending" /\ proposals[p].base = strategy
  /\ revisions[proposals[p].revision].draft = "draft"
  /\ strategy' = strategy + 1
  /\ revisions' = [revisions EXCEPT ![proposals[p].revision].draft = "confirmed"]
  /\ proposals' = [proposals EXCEPT ![p].status = "confirmed", ![p].result = strategy + 1]
  /\ UNCHANGED <<thread, turn, asks>>

\* Under the lock of the book too: the next strategy version is made of the draft and
\* takes over.  FormalGeneration has what this means for the content of the book.
ConfirmProposal(p) ==
  /\ BookFree
  /\ proposals[p].status = "pending" /\ proposals[p].base = strategy
  /\ revisions[proposals[p].revision].draft = "draft"
  /\ strategy' = strategy + 1
  /\ revisions' = [revisions EXCEPT ![proposals[p].revision].draft = "confirmed"]
  /\ proposals' = [proposals EXCEPT ![p].status = "confirmed", ![p].result = strategy + 1]
  /\ UNCHANGED <<thread, turn, asks>>

Next ==
  \/ \E t \in Turns :
       \/ \E th \in Threads, key \in Keys : Ask(t, th, key)
       \/ ReadForQuestion(t) \/ CommitQuestion(t) \/ FindQaAnswer(t) \/ RunTurn(t)
       \/ ReadForAnswer(t) \/ SaveAnswer(t) \/ LoseAnswer(t) \/ LockBook(t) \/ SaveProposal(t)
       \/ Abandon(t)
  \/ \E p \in 1..Len(proposals) : FeedbackProposal(p) \/ RejectProposal(p) \/ ConfirmProposal(p)

Spec == Init /\ [][Next]_vars

(***************************************************************************)
(* Properties                                                              *)
(***************************************************************************)
\* However many requests, retries and turns write to a thread at once, its messages are
\* numbered without gap or repetition, a question is there once per idempotency key, and
\* it has at most one answer, which comes after it.
ThreadIsConsistent ==
  \A th \in Threads :
    LET ms == thread[th].messages IN
    /\ {m.sequence : m \in ms} = 1..thread[th].version
    /\ \A m, o \in ms : m # o =>
         /\ m.sequence # o.sequence
         /\ ~(m.kind = "question" /\ o.kind = "question" /\ m.key = o.key)
         /\ ~(m.kind = "answer" /\ o.kind = "answer" /\ m.q = o.q)
    /\ \A m \in ms : m.kind = "answer" =>
         \E o \in ms : o.kind = "question" /\ o.sequence = m.q /\ m.q < m.sequence

\* No confirmed change is lost: every strategy version after the first was made by
\* exactly one confirmation, of a draft that was written with its predecessor in view;
\* and what is pending can always still be confirmed, being based on the strategy of now.
VersionsBuildOnEachOther ==
  /\ \A v \in 2..strategy : Cardinality({p \in 1..Len(proposals) : proposals[p].result = v}) = 1
  /\ \A p \in 1..Len(proposals) :
       LET d == revisions[proposals[p].revision] IN
       /\ d.proposal = p /\ d.observed = proposals[p].base
       /\ proposals[p].status = "confirmed" =>
            proposals[p].result = proposals[p].base + 1 /\ d.draft = "confirmed"
       /\ proposals[p].status = "pending" =>
            proposals[p].base = strategy /\ d.draft = "draft"

\* What was decided is not pending again, and a confirmed proposal is not touched again by
\* an answer that had read it as pending (user-books.ts 1612-1724 against 2507-2755).  A
\* rejected one may be: those updates do not ask whether it is still pending.
DecidedStays ==
  \A p \in 1..Len(proposals) :
    /\ proposals[p].status # "pending" => proposals'[p].status # "pending"
    /\ proposals[p].status = "confirmed" => proposals'[p] = proposals[p]

DecisionsStand == [][DecidedStays]_vars
=============================================================================
