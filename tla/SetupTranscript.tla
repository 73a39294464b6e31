-------------------------- MODULE SetupTranscript --------------------------
(***************************************************************************)
(* What the reading-setup page shows of a conversation, and what it offers *)
(* the user to do: the committed messages (projectPersistedTranscript),    *)
(* the action just sent (projectTranscript) and the run in progress, which *)
(* the page follows event by event (projectLiveTranscript, run-reducer).   *)
(*                                                                         *)
(* One run follows the other.  A run is the loop of reading-setup-session: *)
(* the model streams a message of texts and tool calls, the calls of a     *)
(* finished message are executed side by side, and so on until a message   *)
(* calls no tool or a call that waits for the user has succeeded.  Texts   *)
(* are tokens, numbered as they are streamed, and so are the calls.  Only  *)
(* the kinds of tools that are shown in different ways are told apart: a   *)
(* trial is treated as a strategy is.  The order and the loss of events    *)
(* are the subject of AgentRunStream, the session's refresh of SetupClient.*)
(***************************************************************************)
EXTENDS SetupPageConstants, SequencesExt

VARIABLES
  history,  \* the messages the page has read
  actions,  \* the user's actions it has read
  run,      \* the run in progress
  shot,     \* activeRun: the display snapshot, reduced event by event
  order,    \* liveRunOrder: what is shown of it, in order
  whole     \* history: the page has followed every event of the run

vars == <<history, actions, run, shot, order, whole>>

Names == {"search_book", "present_question", "publish_strategy"}
Numbers == 1..MaxParts

\* Parts of a message, messages and actions.  A message and the action it came with are
\* matched by the time of the run: here its number.
TextPart(t)          == [kind |-> "text", text |-> t]
CallPart(id, name)   == [kind |-> "call", id |-> id, name |-> name]
UserMessage(r)       == [role |-> "user", run |-> r]
AssistantMessage(ps) == [role |-> "assistant", parts |-> ps]
ToolResult(id, ok)   == [role |-> "toolResult", id |-> id, ok |-> ok]

Start            == [type |-> "session_start", target |-> 0, run |-> 1]
Answer(id, r)    == [type |-> "question_answer", target |-> id, run |-> r]
Feedback(id, r)  == [type |-> "feedback", target |-> id, run |-> r]
Confirm(id, r)   == [type |-> "confirmation", target |-> id, run |-> r]

NoShot == [text |-> <<>>, tools |-> <<>>]
Idle   == [pc |-> "idle", number |-> 0, made |-> 0, input |-> Start, said |-> <<>>,
           parts |-> <<>>, exec |-> <<>>, cut |-> FALSE, restarted |-> FALSE]

\* The elements of a list that pass a test, in their order.
Only(list, Test(_)) ==
  FlattenSeq([i \in DOMAIN list |-> IF Test(list[i]) THEN <<list[i]>> ELSE <<>>])

CallsOf(parts) == Only(parts, LAMBDA p : p.kind = "call")

TypeOK ==
  /\ run.pc \in {"idle", "streaming", "executing", "ended"}
  /\ run.number \in 0..MaxRuns /\ run.made \in 0..MaxParts
  /\ {run.cut, run.restarted, whole} \subseteq BOOLEAN
  /\ run.input.type \in {"session_start", "question_answer", "feedback", "confirmation"}
  /\ \A i \in DOMAIN history : history[i].role \in {"user", "assistant", "toolResult"}
  /\ \A i \in DOMAIN run.exec : run.exec[i] \in {"pending", "running", "ok", "error"}
  /\ Len(run.exec) \in {0, Len(CallsOf(run.parts))}
  /\ ToSet(shot.text) \subseteq Numbers
  /\ \A i \in DOMAIN shot.tools :
       shot.tools[i].id \in Numbers /\ shot.tools[i].name \in Names \cup {"unknown"}

(***************************************************************************)
(* indexAgentTranscript                                                    *)
(***************************************************************************)
\* The calls of the assistant's messages in their order.
AllCalls(messages) ==
  FlattenSeq([i \in DOMAIN messages |->
    IF messages[i].role = "assistant" THEN CallsOf(messages[i].parts) ELSE <<>>])

Status(messages, id) ==
  LET results == Only(messages, LAMBDA m : m.role = "toolResult" /\ m.id = id) IN
  IF results = <<>> THEN "pending" ELSE IF Last(results).ok THEN "succeeded" ELSE "failed"

Succeeded(messages, name) ==
  Only(AllCalls(messages), LAMBDA c : c.name = name /\ Status(messages, c.id) = "succeeded")

(***************************************************************************)
(* Entries of the transcript                                               *)
(***************************************************************************)
TextEntries(tokens) == [i \in DOMAIN tokens |-> [kind |-> "assistant", token |-> tokens[i]]]
UserEntry(r)        == [kind |-> "user", run |-> r]

\* A query disappears once it is ready.
projectToolEntry(id, name, state, confirmation, answered) ==
  CASE name = "search_book" ->
         IF state = "ready" THEN <<>> ELSE <<[kind |-> "query", id |-> id, state |-> state]>>
    [] name = "present_question" ->
         <<[kind |-> "question", id |-> id, state |-> state, answered |-> answered]>>
    [] name = "publish_strategy" ->
         <<[kind |-> "strategy", id |-> id, state |-> state, confirmation |-> confirmation]>>
    [] OTHER -> <<[kind |-> "tool", id |-> id, state |-> state]>>

Targets(done, type) == {done[i].target : i \in {j \in DOMAIN done : done[j].type = type}}

\* Mutant of PersistedTool: a later publication is not noticed.
PersistedToolAnyVersion(messages, done, c) ==
  projectToolEntry(c.id, c.name,
    IF Status(messages, c.id) = "failed" THEN "failed" ELSE "ready",
    IF c.id \in Targets(done, "confirmation") THEN "completed" ELSE "available",
    c.id \in Targets(done, "question_answer"))

\* A call without result is shown as one that is ready.
PersistedTool(messages, done, c) ==
  LET latest == Succeeded(messages, c.name)
      status == Status(messages, c.id) IN
  projectToolEntry(c.id, c.name,
    IF status = "failed" THEN "failed" ELSE "ready",
    IF c.id \in Targets(done, "confirmation") THEN "completed"
    ELSE IF status = "succeeded" /\ Last(latest).id # c.id THEN "superseded" ELSE "available",
    c.id \in Targets(done, "question_answer"))

\* What a message adds; the confirmations of the user are not shown.
PersistedMessage(messages, done, m) ==
  CASE m.role = "toolResult" -> <<>>
    [] m.role = "user" ->
         IF \E i \in DOMAIN done : done[i].run = m.run /\ done[i].type = "confirmation"
         THEN <<>> ELSE <<UserEntry(m.run)>>
    [] m.role = "assistant" ->
         FlattenSeq([i \in DOMAIN m.parts |->
           IF m.parts[i].kind = "text" THEN TextEntries(m.parts[i].text)
           ELSE PersistedTool(messages, done, m.parts[i])])

projectPersisted(messages, done) ==
  FlattenSeq([i \in DOMAIN messages |-> PersistedMessage(messages, done, messages[i])])

\* The action under way: a confirmation marks its product, an answer its question, which it
\* follows, and a feedback comes last.
applyOptimistic(entries, action) ==
  LET Of(e, kind) == e.kind = kind /\ e.id = action.target IN
  CASE action.type = "confirmation" ->
         [i \in DOMAIN entries |-> IF Of(entries[i], "strategy")
           THEN [entries[i] EXCEPT !.confirmation = "submitting"] ELSE entries[i]]
    [] action.type = "question_answer" ->
         FlattenSeq([i \in DOMAIN entries |-> IF Of(entries[i], "question")
           THEN <<[entries[i] EXCEPT !.answered = TRUE], UserEntry(action.run)>>
           ELSE <<entries[i]>>])
    [] action.type = "feedback" -> Append(entries, UserEntry(action.run))
    [] OTHER -> entries

(***************************************************************************)
(* Events of the run                                                       *)
(***************************************************************************)
Delta(n)             == [type |-> "assistant_text_delta", n |-> n]
Called(id, name)     == [type |-> "tool_call_started", id |-> id, name |-> name]
Executing(id, name)  == [type |-> "tool_execution_started", id |-> id, name |-> name]
Executed(id, error)  == [type |-> "tool_execution_finished", id |-> id, name |-> "unknown",
                         error |-> error]

\* tool: the display of a call, made when an event first names it.
Displayed(tools, e) ==
  IF \E i \in DOMAIN tools : tools[i].id = e.id
  THEN [i \in DOMAIN tools |-> IF tools[i].id = e.id /\ tools[i].name = "unknown"
                               THEN [tools[i] EXCEPT !.name = e.name] ELSE tools[i]]
  ELSE Append(tools, [id |-> e.id, name |-> e.name, status |-> "pending", error |-> FALSE])

WithTool(tools, e, status, error) ==
  [i \in DOMAIN tools |-> IF tools[i].id = e.id
     THEN [tools[i] EXCEPT !.status = status, !.error = error] ELSE tools[i]]

reduceAgentRunEvent(s, e) ==
  CASE e.type = "assistant_text_delta" -> [s EXCEPT !.text = Append(@, e.n)]
    [] e.type = "tool_call_started" -> [s EXCEPT !.tools = Displayed(@, e)]
    [] e.type = "tool_execution_started" ->
         [s EXCEPT !.tools = WithTool(Displayed(@, e), e, "running", FALSE)]
    [] e.type = "tool_execution_finished" ->
         [s EXCEPT !.tools = WithTool(Displayed(@, e), e, "completed", e.error)]

\* Items of the order: texts, which grow at the end, and calls.
TextItem(tokens) == [kind |-> "assistant", tokens |-> tokens]
ToolItem(id)     == [kind |-> "tool", id |-> id]

\* A snapshot does not tell the order of its texts and its calls: the texts come first.
createLiveRunOrder(s) ==
  (IF s.text = <<>> THEN <<>> ELSE <<TextItem(s.text)>>)
    \o [i \in DOMAIN s.tools |-> ToolItem(s.tools[i].id)]

\* Mutant of reduceLiveRunOrder: a delta joins the last text, whatever came after it.
reduceLiveRunOrderJoined(items, e) ==
  IF e.type = "assistant_text_delta"
  THEN LET texts == {i \in DOMAIN items : items[i].kind = "assistant"}
           last  == CHOOSE i \in texts : \A j \in texts : j <= i IN
       IF texts # {} THEN [items EXCEPT ![last].tokens = Append(@, e.n)]
       ELSE Append(items, TextItem(<<e.n>>))
  ELSE IF \E i \in DOMAIN items : items[i].kind = "tool" /\ items[i].id = e.id THEN items
       ELSE Append(items, ToolItem(e.id))

reduceLiveRunOrder(items, e) ==
  IF e.type = "assistant_text_delta"
  THEN IF items # <<>> /\ Last(items).kind = "assistant"
       THEN [items EXCEPT ![Len(items)].tokens = Append(@, e.n)]
       ELSE Append(items, TextItem(<<e.n>>))
  ELSE IF \E i \in DOMAIN items : items[i].kind = "tool" /\ items[i].id = e.id THEN items
       ELSE Append(items, ToolItem(e.id))

renderState(tool) ==
  CASE tool.status = "completed" -> IF tool.error THEN "failed" ELSE "ready"
    [] tool.status = "running" -> "working"
    [] OTHER -> "streaming"

projectLive(s, items) ==
  LET Tool(id) == Only(s.tools, LAMBDA t : t.id = id)
      Entry(item) ==
        IF item.kind = "assistant" THEN TextEntries(item.tokens)
        ELSE IF Tool(item.id) = <<>> THEN <<>>
        ELSE LET t == Tool(item.id)[1] IN
             projectToolEntry(t.id, t.name, renderState(t), "available", FALSE)
  IN FlattenSeq([i \in DOMAIN items |-> Entry(items[i])])

(***************************************************************************)
(* What the page offers, and what the server takes                         *)
(***************************************************************************)
Ready(e, kind) == e.kind = kind /\ e.state = "ready"
AsksFor(e)     == Ready(e, "question") /\ ~e.answered
MayConfirm(e)  == Ready(e, "strategy") /\ e.confirmation = "available"

Offers(r) ==
  LET entries == ToSet(projectPersisted(history, actions)) IN
  {Answer(e.id, r) : e \in {x \in entries : AsksFor(x)}}
    \cup {Confirm(e.id, r) : e \in {x \in entries : MayConfirm(x)}}
    \cup {Feedback(e.id, r) : e \in {x \in entries : MayConfirm(x)}}

\* requireQuestionArguments and requireActionTarget, and the check of submitConfirmation.
Accepts(messages, done, action) ==
  /\ \E c \in ToSet(AllCalls(messages)) :
       /\ c.id = action.target /\ Status(messages, c.id) = "succeeded"
       /\ c.name = IF action.type = "question_answer" THEN "present_question"
                                                      ELSE "publish_strategy"
  /\ action.type = "confirmation" => action.target \notin Targets(done, "confirmation")

(***************************************************************************)
(* Actions                                                                 *)
(***************************************************************************)
Init ==
  /\ history = <<>> /\ actions = <<>> /\ shot = NoShot /\ order = <<>> /\ whole = TRUE
  /\ run = [Idle EXCEPT !.pc = "streaming", !.number = 1]

\* Progress is published and shown.
Shown(e) ==
  shot' = reduceAgentRunEvent(shot, e) /\ order' = reduceLiveRunOrder(order, e)

\* A run is accepted; nothing of it is shown yet.
UserActs ==
  /\ run.pc = "idle" /\ run.number < MaxRuns
  /\ \E action \in Offers(run.number + 1) :
       /\ Accepts(history, actions, action)
       /\ run' = [Idle EXCEPT !.pc = "streaming", !.number = run.number + 1,
                              !.made = run.made, !.input = action]
  /\ shot' = NoShot /\ order' = <<>> /\ whole' = TRUE
  /\ UNCHANGED <<history, actions>>

\* The text of a message grows at the end, or begins after a call.
Grown(parts, n) ==
  IF parts # <<>> /\ Last(parts).kind = "text"
  THEN [parts EXCEPT ![Len(parts)].text = Append(@, n)] ELSE Append(parts, TextPart(<<n>>))

TextStreamed ==
  /\ run.pc = "streaming" /\ run.made < MaxParts
  /\ LET n == run.made + 1 IN
       /\ run' = [run EXCEPT !.made = n, !.parts = Grown(@, n)]
       /\ Shown(Delta(n))
  /\ UNCHANGED <<history, actions, whole>>

CallStreamed ==
  /\ run.pc = "streaming" /\ run.made < MaxParts
  /\ \E name \in Names :
       /\ run' = [run EXCEPT !.made = @ + 1, !.parts = Append(@, CallPart(run.made + 1, name))]
       /\ Shown(Called(run.made + 1, name))
  /\ UNCHANGED <<history, actions, whole>>

\* A message that calls tools has them executed; any other ends the loop.
MessageEnds ==
  /\ run.pc = "streaming" /\ run.parts # <<>>
  /\ LET calls == CallsOf(run.parts) IN
     run' = IF calls = <<>>
            THEN [run EXCEPT !.pc = "ended", !.parts = <<>>,
                             !.said = Append(@, AssistantMessage(run.parts))]
            ELSE [run EXCEPT !.pc = "executing", !.exec = [i \in DOMAIN calls |-> "pending"]]
  /\ UNCHANGED <<history, actions, shot, order, whole>>

\* The model fails in the middle of a message: the loop returns what there is of it.
MessageCutOff ==
  /\ run.pc = "streaming"
  /\ run' = [run EXCEPT !.pc = "ended", !.parts = <<>>, !.cut = TRUE,
                        !.said = Append(@, AssistantMessage(run.parts))]
  /\ UNCHANGED <<history, actions, shot, order, whole>>

\* The calls start in their order; where one publishes a strategy, one after the other.
OneByOne == \E i \in DOMAIN CallsOf(run.parts) : CallsOf(run.parts)[i].name = "publish_strategy"

ToolStarts(i) ==
  /\ run.pc = "executing" /\ i \in DOMAIN run.exec /\ run.exec[i] = "pending"
  /\ \A j \in 1..(i - 1) :
       run.exec[j] # "pending" /\ (OneByOne => run.exec[j] # "running")
  /\ run' = [run EXCEPT !.exec[i] = "running"]
  /\ LET c == CallsOf(run.parts)[i] IN Shown(Executing(c.id, c.name))
  /\ UNCHANGED <<history, actions, whole>>

ToolEnds(i) ==
  /\ run.pc = "executing" /\ i \in DOMAIN run.exec /\ run.exec[i] = "running"
  /\ \E outcome \in {"ok", "error"} :
       /\ run' = [run EXCEPT !.exec[i] = outcome]
       /\ Shown(Executed(CallsOf(run.parts)[i].id, outcome = "error"))
  /\ UNCHANGED <<history, actions, whole>>

\* The results are added in the order of the calls; shouldStopAfterTurn.
TurnEnds ==
  /\ run.pc = "executing" /\ \A i \in DOMAIN run.exec : run.exec[i] \in {"ok", "error"}
  /\ LET calls   == CallsOf(run.parts)
         results == [i \in DOMAIN calls |-> ToolResult(calls[i].id, run.exec[i] = "ok")]
         stops   == \E i \in DOMAIN calls : run.exec[i] = "ok" /\ calls[i].name # "search_book"
     IN run' = [run EXCEPT !.pc = IF stops THEN "ended" ELSE "streaming",
                           !.parts = <<>>, !.exec = <<>>,
                           !.said = Append(@, AssistantMessage(run.parts)) \o results]
  /\ UNCHANGED <<history, actions, shot, order, whole>>

\* The attempt fails and the job is retried: startAttempt empties the snapshot, which is
\* sent to the page.
AttemptRestarts ==
  /\ run.pc \in {"streaming", "executing"} /\ ~run.restarted
  /\ run' = [run EXCEPT !.pc = "streaming", !.said = <<>>, !.parts = <<>>, !.exec = <<>>,
                        !.restarted = TRUE]
  /\ shot' = NoShot /\ order' = createLiveRunOrder(NoShot) /\ whole' = TRUE
  /\ UNCHANGED <<history, actions>>

\* The page has lost the connection and goes on with a snapshot.
Reconnects ==
  /\ run.pc # "idle" /\ whole
  /\ order' = createLiveRunOrder(shot) /\ whole' = FALSE
  /\ UNCHANGED <<history, actions, run, shot>>

\* commitRun: the message of a session_start is left out.
Committed ==
  [messages |-> history \o (IF run.input = Start THEN <<>> ELSE <<UserMessage(run.number)>>)
                  \o run.said,
   actions  |-> IF run.input = Start THEN actions ELSE Append(actions, run.input)]

\* The page reads the session after the end of a run.
Refreshes ==
  /\ run.pc = "ended"
  /\ history' = Committed.messages /\ actions' = Committed.actions
  /\ run' = [Idle EXCEPT !.number = run.number, !.made = run.made]
  /\ shot' = NoShot /\ order' = <<>> /\ whole' = TRUE

\* The job fails for good: nothing of the run is committed.
RunFails ==
  /\ run.pc \in {"streaming", "executing"}
  /\ run' = [Idle EXCEPT !.number = run.number, !.made = run.made]
  /\ shot' = NoShot /\ order' = <<>> /\ whole' = TRUE
  /\ UNCHANGED <<history, actions>>

Next ==
  \/ UserActs \/ TextStreamed \/ CallStreamed \/ MessageEnds \/ MessageCutOff
  \/ \E i \in Numbers : ToolStarts(i) \/ ToolEnds(i)
  \/ TurnEnds \/ AttemptRestarts \/ Reconnects \/ Refreshes \/ RunFails

Spec == Init /\ [][Next]_vars

(***************************************************************************)
(* Properties                                                              *)
(***************************************************************************)
\* Entries of some kind, and what the agent said and did, without what a click changes.
OfKind(entries, kinds) == Only(entries, LAMBDA e : e.kind \in kinds)
Content(entries) ==
  LET told == Only(entries, LAMBDA e : e.kind # "user") IN
  [i \in DOMAIN told |-> IF told[i].kind = "strategy"
     THEN [told[i] EXCEPT !.confirmation = "any"] ELSE told[i]]

\* projectReadingSetupTranscript
ShownEntries ==
  applyOptimistic(projectPersisted(history, actions), run.input) \o projectLive(shot, order)

ToolKinds == {"query", "question", "strategy", "tool"}

\* What the page has shown of a run by its end is what the session says after the refresh:
\* no entry appears, disappears, moves or changes under the user's eyes.  A page that went
\* on with a snapshot shows the same texts and the same calls, each in their order.  (Not
\* so when the model failed within a message: see the hazards.)
LiveBecomesCommitted ==
  run.pc = "ended" /\ ~run.cut =>
    LET before == ShownEntries
        after  == projectPersisted(Committed.messages, Committed.actions)
        Same(kinds) == Content(OfKind(before, kinds)) = Content(OfKind(after, kinds)) IN
    /\ whole => Content(before) = Content(after)
    /\ Same({"assistant"}) /\ Same(ToolKinds)
    /\ ToSet(OfKind(before, {"user"})) = ToSet(OfKind(after, {"user"}))

\* What the page lets the user do is accepted by the server, and of the strategies only the
\* latest can be confirmed - unless the model failed within a message (see the hazards).
OffersAreTaken ==
  run.pc = "idle" /\ (\A c \in ToSet(AllCalls(history)) : Status(history, c.id) # "pending") =>
    LET offers == Offers(run.number + 1) IN
    /\ \A action \in offers : Accepts(history, actions, action)
    /\ \A a, b \in offers : a.type = "confirmation" /\ b.type = "confirmation" => a = b
=============================================================================
