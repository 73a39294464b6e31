------------------------------ MODULE AskAiPanel ------------------------------
(***************************************************************************)
(* The conversation panel of the reader (apps/web/src/reader/AskAiPanel.tsx *)
(* and the stream client of reader/api.ts).  A question is streamed into   *)
(* the turn at the index it was asked at; other conversations are restored *)
(* from the history, a new one is begun, a question is asked again after   *)
(* an error, and feedback on a proposal is sent before the question that   *)
(* goes with it.                                                           *)
(*                                                                         *)
(* Of the server (StrategyProposals) only the threads are here: questions  *)
(* and answers in the order they were written, an answer with the question *)
(* it is linked to.  What is revised or decided about a proposal is        *)
(* StrategyProposals', here it is pending or decided.                      *)
(***************************************************************************)
EXTENDS ReaderConstants, Sequences, FiniteSetsExt

VARIABLES
  kept,      \* the threads at the server
  turns,     \* the turns on show
  shown,     \* sessionIdRef: the thread the next question goes to
  proposal,  \* activeProposal
  stream,    \* the answer under way, if any (busy)
  restores,  \* the threads whose restoration was asked for and did not come yet
  action,    \* the feedback or decision under way (proposalBusy)
  asked,     \* number of questions so far: the next one is named so
  crossed    \* history: something was asked while another answer of the server could still
             \* replace the turns

vars == <<kept, turns, shown, proposal, stream, restores, action, asked, crossed>>

Asked     == 1..MaxAsked
Message   == [kind : {"question", "answer"}, question : Asked]
Turn      == [question : Asked, answer : Asked \cup {None}, saved : BOOLEAN,
              streaming : BOOLEAN, error : BOOLEAN, retry : BOOLEAN]
Proposal  == {"pending", "decided"}
Stream    == [index : Nat \ {0}, question : Asked, thread : Talks \cup {None},
              stage : {"sent", "open", "heard"}]
Action    == [kind : {"feedback", "decision"}, index : Nat \ {0}]

TypeOK ==
  /\ kept \in [Talks -> Seq(Message)]
  /\ turns \in Seq(Turn)
  /\ shown \in Talks \cup {None}
  /\ proposal \in Proposal \cup {None}
  /\ stream \in Stream \cup {None}
  /\ restores \subseteq Talks
  /\ action \in Action \cup {None}
  /\ asked \in 0..MaxAsked
  /\ crossed \in BOOLEAN

Init ==
  /\ kept = [t \in Talks |-> <<>>]
  /\ turns = <<>> /\ shown = None /\ proposal = None
  /\ stream = None /\ restores = {} /\ action = None
  /\ asked = 0 /\ crossed = FALSE

(***************************************************************************)
(* Asking                                                                  *)
(***************************************************************************)
New(question) ==
  [question |-> question, answer |-> None, saved |-> FALSE, streaming |-> TRUE,
   error |-> FALSE, retry |-> TRUE]

\* The turn at an index, if there is one, is patched.
Patched(index, turn) == [i \in DOMAIN turns |-> IF i = index THEN turn ELSE turns[i]]

RunTurn(index, question) ==
  stream' = [index |-> index, question |-> question, thread |-> shown, stage |-> "sent"]

Enqueue(index) ==
  /\ asked' = asked + 1
  /\ turns' = Append(turns, New(asked + 1))
  /\ RunTurn(index, asked + 1)

Free == stream = None /\ action = None

Submit ==
  /\ Free /\ asked < MaxAsked
  /\ Enqueue(Len(turns) + 1)
  /\ crossed' = (crossed \/ restores # {})
  /\ UNCHANGED <<kept, shown, proposal, restores, action>>

\* The question waits for the feedback; its index is taken now.
SubmitFeedback ==
  /\ Free /\ asked < MaxAsked /\ proposal = "pending"
  /\ action' = [kind |-> "feedback", index |-> Len(turns) + 1]
  /\ crossed' = (crossed \/ restores # {})
  /\ UNCHANGED <<kept, turns, shown, proposal, stream, restores, asked>>

FeedbackAnswered ==
  /\ action # None /\ action.kind = "feedback"
  /\ \/ Enqueue(action.index)
     \/ UNCHANGED <<asked, turns, stream>>  \* it failed, and so did the submission
  /\ action' = None
  /\ UNCHANGED <<kept, shown, proposal, restores, crossed>>

Retry(i) ==
  /\ stream = None /\ i \in DOMAIN turns /\ turns[i].error /\ turns[i].retry
  /\ turns' = Patched(i, New(turns[i].question))
  /\ RunTurn(i, turns[i].question)
  /\ crossed' = (crossed \/ restores # {} \/ action # None)
  /\ UNCHANGED <<kept, shown, proposal, restores, action, asked>>

(***************************************************************************)
(* The stream of an answer                                                 *)
(***************************************************************************)
Asks(question)    == [kind |-> "question", question |-> question]
Answers(question) == [kind |-> "answer", question |-> question]
Has(thread, message) == \E i \in DOMAIN kept[thread] : kept[thread][i] = message

\* The thread a question is for, or one that was not used yet.
Target(thread) ==
  stream.thread = thread \/ (stream.thread = None /\ kept[thread] = <<>>)

With(thread, question) ==
  [kept EXCEPT ![thread] = IF Has(thread, Asks(question)) THEN @ ELSE Append(@, Asks(question))]

\* The server commits the question before it streams.
Commit(thread) ==
  /\ stream # None /\ stream.stage = "sent" /\ Target(thread)
  /\ kept' = With(thread, stream.question)
  /\ stream' = [stream EXCEPT !.thread = thread, !.stage = "open"]
  /\ UNCHANGED <<turns, shown, proposal, restores, action, asked, crossed>>

\* What the client asked of the stream last is run even if nobody listens any more: the answer may
\* be saved late, or never.
Save(thread, question) ==
  /\ Has(thread, Asks(question)) /\ ~Has(thread, Answers(question))
  /\ kept' = [kept EXCEPT ![thread] = Append(@, Answers(question))]
  /\ UNCHANGED <<turns, shown, proposal, stream, restores, action, asked, crossed>>

Listening == stream # None /\ stream.stage = "heard"

OnSession ==
  /\ stream # None /\ stream.stage = "open"
  /\ shown' = stream.thread
  /\ stream' = [stream EXCEPT !.stage = "heard"]
  /\ UNCHANGED <<kept, turns, proposal, restores, action, asked, crossed>>

OnAnswer ==
  /\ Listening /\ stream.index \in DOMAIN turns
  /\ turns' = [turns EXCEPT ![stream.index].answer = stream.question]
  /\ UNCHANGED <<kept, shown, proposal, stream, restores, action, asked, crossed>>

\* A proposal came with the answer.
OnProposal ==
  /\ Listening /\ proposal # "pending"
  /\ proposal' = "pending"
  /\ UNCHANGED <<kept, turns, shown, stream, restores, action, asked, crossed>>

EndedTurn(turn, failed) ==
  IF failed THEN [turn EXCEPT !.streaming = FALSE, !.error = TRUE]
  ELSE [turn EXCEPT !.streaming = FALSE, !.saved = TRUE, !.error = FALSE, !.answer = stream.question]

\* The turn shows how its answer ended, if the turn is still shown.
Ended(failed) ==
  /\ turns' = [i \in DOMAIN turns |->
                 IF i = stream.index THEN EndedTurn(turns[i], failed) ELSE turns[i]]
  /\ stream' = None

OnDone ==
  /\ Listening /\ Has(stream.thread, Answers(stream.question))
  /\ Ended(FALSE)
  /\ UNCHANGED <<kept, shown, proposal, restores, action, asked, crossed>>

\* An error event, an error of the request, or a stream that ends without either terminal event.
OnError ==
  /\ stream # None
  /\ \/ UNCHANGED kept
     \/ \E t \in Talks : stream.stage = "sent" /\ Target(t) /\ kept' = With(t, stream.question)
  /\ Ended(TRUE)
  /\ UNCHANGED <<shown, proposal, restores, action, asked, crossed>>

(***************************************************************************)
(* Other conversations                                                     *)
(***************************************************************************)
\* The turns of a stored thread: an answer goes to the last question above it that has none.
Stored(question) ==
  [question |-> question, answer |-> None, saved |-> FALSE, streaming |-> FALSE,
   error |-> FALSE, retry |-> FALSE]

Open(list) == {i \in DOMAIN list : list[i].answer = None}

Placed(list, message) ==
  IF message.kind = "question" THEN Append(list, Stored(message.question))
  ELSE [list EXCEPT ![Max(Open(list))].answer = message.question,
                    ![Max(Open(list))].saved = TRUE]

TurnsFrom(thread) ==
  LET upTo[n \in 0..Len(thread)] == IF n = 0 THEN <<>> ELSE Placed(upTo[n - 1], thread[n])
  IN  upTo[Len(thread)]

\* The mutated form: the history can be opened in the middle of an answer.
RestoreBusy(t) ==
  /\ kept[t] # <<>> /\ t \notin restores
  /\ restores' = restores \cup {t}
  /\ UNCHANGED <<kept, turns, shown, proposal, stream, action, asked, crossed>>

Restore(t) ==
  /\ stream = None /\ kept[t] # <<>> /\ t \notin restores
  /\ restores' = restores \cup {t}
  /\ crossed' = (crossed \/ action # None)
  /\ UNCHANGED <<kept, turns, shown, proposal, stream, action, asked>>

\* What the server has of the proposal of the thread is not followed here.
Restored(t) ==
  /\ t \in restores /\ restores' = restores \ {t}
  /\ \/ /\ turns' = TurnsFrom(kept[t]) /\ shown' = t
        /\ proposal' \in Proposal \cup {None}
     \/ UNCHANGED <<turns, shown, proposal>>  \* the request failed
  /\ UNCHANGED <<kept, stream, action, asked, crossed>>

\* The stream is aborted; whether the server has got the question by then is open.
NewSession ==
  /\ turns # <<>> \/ shown # None
  /\ turns' = <<>> /\ shown' = None /\ proposal' = None
  /\ stream' = None
  /\ \/ UNCHANGED kept
     \/ \E t \in Talks : /\ stream # None /\ stream.stage = "sent" /\ Target(t)
                         /\ kept' = With(t, stream.question)
  /\ crossed' = (crossed \/ action # None)
  /\ UNCHANGED <<restores, action, asked>>

Decide ==
  /\ action = None /\ proposal = "pending"
  /\ action' = [kind |-> "decision", index |-> 1]
  /\ UNCHANGED <<kept, turns, shown, proposal, stream, restores, asked, crossed>>

\* The answer changes the proposal if it is still the one on show.
Decided ==
  /\ action # None /\ action.kind = "decision"
  /\ action' = None
  /\ \/ proposal = "pending" /\ proposal' = "decided"
     \/ UNCHANGED proposal
  /\ UNCHANGED <<kept, turns, shown, stream, restores, asked, crossed>>

Next ==
  \/ Submit \/ SubmitFeedback \/ FeedbackAnswered
  \/ \E i \in DOMAIN turns : Retry(i)
  \/ \E t \in Talks : Commit(t) \/ Restore(t) \/ Restored(t) \/ \E q \in Asked : Save(t, q)
  \/ OnSession \/ OnAnswer \/ OnProposal \/ OnDone \/ OnError
  \/ NewSession \/ Decide \/ Decided

Spec == Init /\ [][Next]_vars

(***************************************************************************)
(* Properties                                                              *)
(***************************************************************************)
\* What the panel shows is one conversation of the server: the answer to a question asked here is
\* the one below it, every answer that is complete is in the thread the next question goes to, and
\* a turn that is said to be streaming has the stream under way.  This survives errors, retries,
\* new conversations in the middle of an answer, and what is restored; it is lost where a question
\* is asked before a restoration that was asked for came, and where the turns change while
\* feedback is under way, as the code then writes to the index of a turn that moved.
ThreadIsOne ==
  crossed \/ \A i \in DOMAIN turns :
    /\ turns[i].retry => turns[i].answer \in {None, turns[i].question}
    /\ turns[i].saved => shown # None /\ Has(shown, Answers(turns[i].answer))
    /\ turns[i].streaming => /\ stream # None
                             /\ stream.index = i /\ stream.question = turns[i].question
===============================================================================
