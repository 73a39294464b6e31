------------------------------ MODULE MCReader ------------------------------
(***************************************************************************)
(* Instances for TLC of the components that serve an active book.  They    *)
(* share no state in the models: a behaviour is one of a single component, *)
(* chosen by focus, while the variables of the others hold nothing.        *)
(***************************************************************************)
EXTENDS ReaderConstants

VARIABLES
  focus,
  current, position, pin, rows, jobs, request, slot, events,
  strategy, thread, proposals, revisions, turn, asks,
  now, tracker, credited, flight, recorded, session, daily, total,
  stored, reports, answers, cache, view, clock, spent, chosen, excused,
  kept, turns, shown, proposal, stream, restores, action, asked, crossed,
  version, here, readWith, made, open, bootstrap, polling, focusing, marked, post,
  noted, saved, mounted, mounts, cached, incoming, shownNotes, setting, calls, timer, puts,
  astray, stray

formal   == <<current, position, pin, rows, jobs, request, slot, events>>
question == <<strategy, thread, proposals, revisions, turn, asks>>
activity == <<now, tracker, credited, flight, recorded, session, daily, total>>
reading  == <<stored, reports, answers, cache, view, clock, spent, chosen, excused>>
panel    == <<kept, turns, shown, proposal, stream, restores, action, asked, crossed>>
content  == <<version, here, readWith, made, open, bootstrap, polling, focusing, marked, post>>
notes    == <<noted, saved, mounted, mounts, cached, incoming, shownNotes, setting, calls, timer, puts,
              astray, stray>>
vars     == <<focus, formal, question, activity, reading, panel, content, notes>>

Formal   == INSTANCE FormalGeneration
Question == INSTANCE StrategyProposals
Activity == INSTANCE ReadingActivity
Position == INSTANCE ReaderPosition
Panel    == INSTANCE AskAiPanel
Content  == INSTANCE ReaderContent WITH cache <- bootstrap
Notes    == INSTANCE ReaderNotes WITH rows <- noted

\* The variables of a component that has not the focus hold nothing.
NoFormal   == /\ current = None /\ position = None /\ pin = None /\ rows = None
              /\ jobs = None /\ request = None /\ slot = None /\ events = None
NoAsking   == /\ strategy = None /\ thread = None /\ proposals = None /\ revisions = None
              /\ turn = None /\ asks = None
NoActivity == /\ now = None /\ tracker = None /\ credited = None /\ flight = None
              /\ recorded = None /\ session = None /\ daily = None /\ total = None
NoReading  == /\ stored = None /\ reports = None /\ answers = None /\ cache = None /\ view = None
              /\ clock = None /\ spent = None /\ chosen = None /\ excused = None
NoPanel    == /\ kept = None /\ turns = None /\ shown = None /\ proposal = None /\ stream = None
              /\ restores = None /\ action = None /\ asked = None /\ crossed = None
NoContent  == /\ version = None /\ here = None /\ readWith = None /\ made = None /\ open = None
              /\ bootstrap = None /\ polling = None /\ focusing = None
              /\ marked = None /\ post = None
NoNotes    == /\ noted = None /\ saved = None /\ mounted = None /\ mounts = None /\ cached = None
              /\ incoming = None /\ shownNotes = None /\ setting = None /\ calls = None
              /\ timer = None /\ puts = None /\ astray = None /\ stray = None

Init ==
  /\ focus \in {"formal", "question", "activity", "reading", "panel", "content", "notes"}
  /\ IF focus = "formal" THEN Formal!Init ELSE NoFormal
  /\ IF focus = "question" THEN Question!Init ELSE NoAsking
  /\ IF focus = "activity" THEN Activity!Init ELSE NoActivity
  /\ IF focus = "reading" THEN Position!Init ELSE NoReading
  /\ IF focus = "panel" THEN Panel!Init ELSE NoPanel
  /\ IF focus = "content" THEN Content!Init ELSE NoContent
  /\ IF focus = "notes" THEN Notes!Init ELSE NoNotes

Next ==
  /\ UNCHANGED focus
  /\ \/ focus = "formal" /\ Formal!Next
        /\ UNCHANGED <<question, activity, reading, panel, content, notes>>
     \/ focus = "question" /\ Question!Next
        /\ UNCHANGED <<formal, activity, reading, panel, content, notes>>
     \/ focus = "activity" /\ Activity!Next
        /\ UNCHANGED <<formal, question, reading, panel, content, notes>>
     \/ focus = "reading" /\ Position!Next
        /\ UNCHANGED <<formal, question, activity, panel, content, notes>>
     \/ focus = "panel" /\ Panel!Next
        /\ UNCHANGED <<formal, question, activity, reading, content, notes>>
     \/ focus = "content" /\ Content!Next
        /\ UNCHANGED <<formal, question, activity, reading, panel, notes>>
     \/ focus = "notes" /\ Notes!Next
        /\ UNCHANGED <<formal, question, activity, reading, panel, content>>

Spec == Init /\ [][Next]_vars

On(component) == focus = component

(***************************************************************************)
(* Restrictions that keep the instance small                               *)
(***************************************************************************)
\* Requests, executions, turns, threads and talks are interchangeable and are numbered here: of
\* those that rest the first one begins (this drops only behaviours which differ from others in
\* these numbers; symmetry sets cost TLC more).
FormalBegins ==
  /\ \A i, j \in Requests : i < j /\ request[i] = Formal!Idle /\ request[j] = Formal!Idle =>
       request'[j] = Formal!Idle
  /\ \A i, j \in Slots : i < j /\ slot[i] = Formal!Free /\ slot[j] = Formal!Free =>
       slot'[j] = Formal!Free
QuestionBegins ==
  /\ \A i, j \in Turns : i < j /\ turn[i] = Question!Idle /\ turn[j] = Question!Idle =>
       turn'[j] = Question!Idle
  /\ \A i, j \in Threads : i < j /\ ~thread[i].open => ~thread'[j].open
TalkBegins == \A i, j \in Talks : i < j /\ kept[i] = <<>> => kept'[j] = <<>>

\* Highlights and settings have nothing to do with each other: only one of them changes.
OneSubject ==
  \/ noted' = Notes!NoNotes /\ calls' = {}
  \/ saved' = "default" /\ setting' = "default" /\ puts' = <<>>

\* Where a component is excused for good, its property says nothing more: it ends there.
FirstBegins ==
  /\ On("formal") => FormalBegins
  /\ On("question") => QuestionBegins
  /\ On("reading") => ~(excused /\ spent.moves = MaxMoves)
  /\ On("panel") => TalkBegins /\ ~crossed
  /\ On("notes") => OneSubject /\ ~astray /\ ~stray

(***************************************************************************)
(* The properties of the components, by their names there                  *)
(***************************************************************************)
\* Every component is in a state of its types.
TypeOK == /\ On("formal") => Formal!TypeOK
          /\ On("question") => Question!TypeOK
          /\ On("activity") => Activity!TypeOK
          /\ On("reading") => Position!TypeOK
          /\ On("panel") => Panel!TypeOK
          /\ On("content") => Content!TypeOK
          /\ On("notes") => Notes!TypeOK

\* Content becomes visible for the strategy its node is read with, and that strategy never goes
\* back (FormalGeneration).
ContentFollowsStrategy ==
  [][On("formal") => Formal!FinishesAsExpected /\ Formal!PinsAdvance]_formal
\* Content that is asked for is on its way (FormalGeneration).
LiveRowsAreHeld == On("formal") => Formal!LiveRowsAreHeld

\* Messages are numbered without gap, asked once, answered once, and no confirmed change of the
\* strategy is lost (StrategyProposals).
QuestionsAreConsistent ==
  On("question") => Question!ThreadIsConsistent /\ Question!VersionsBuildOnEachOther
\* A decided proposal stays decided (StrategyProposals).
DecisionsStand == [][On("question") => Question!DecidedStays]_question

\* No moment of reading is counted twice (ReadingActivity).
EachMomentCountedOnce == On("activity") => Activity!EachMomentCountedOnce
\* What is counted as reading was credited by ticks (ReadingActivity).
OnlyCreditedTimeCounts == On("activity") => Activity!OnlyCreditedTimeCounts

\* A closed page has stored where the reader chose to be (ReaderPosition).
LastChoiceIsStored == On("reading") => Position!LastChoiceIsStored

\* The panel shows one conversation of the server (AskAiPanel).
ThreadIsOne == On("panel") => Panel!ThreadIsOne

\* What the page shows of the server's state does not fall behind it: content that was shown
\* stays, a node taken for read is read (ReaderContent), and the highlights and settings are the
\* server's (ReaderNotes).
PageFollowsServer ==
  /\ [](On("content") => Content!MarkedIsStored)
  /\ [][On("content") => Content!Advances]_content
  /\ [](On("notes") => Notes!CopiesAgree)
=============================================================================
