-------------------------- MODULE MCReaderPageProofs --------------------------
(***************************************************************************)
(* Theorems about the run of the components that serve an active book      *)
(* (MCReader), for what the page keeps of the server's state and what it   *)
(* counts as reading.  While the focus is on a component, its invariant    *)
(* below holds; the focus stays where it is.                               *)
(***************************************************************************)
EXTENDS MCReader, Sequences, SequenceTheorems, FiniteSetTheorems, WellFoundedInduction, TLAPS

(***************************************************************************)
(* ReaderContent                                                           *)
(***************************************************************************)

\* A bootstrap that says that the node is read was made after it was.
Honest(b) == Content!Seen(b) => readWith # None

Holding(asking) == Honest(asking.answer)

ContentTyped ==
  /\ version \in Content!Versions /\ here \in BOOLEAN
  /\ readWith \in Content!Versions \cup {None}
  /\ made \in [Content!Versions -> Content!Status \cup {None}]
  /\ bootstrap \in Content!Bootstrap \cup {None}
  /\ polling \in Content!Request \cup {None}
  /\ focusing \subseteq Content!Request

ContentInv ==
  /\ ContentTyped
  /\ Honest(bootstrap) /\ (polling # None => Holding(polling))
  /\ \A asking \in focusing : Holding(asking)
  /\ Content!MarkedIsStored

LEMMA VersionsAreNumbers ==
  MaxStrategy \in Nat \ {0} /\ \A v \in Content!Versions : v # None /\ v \in Nat
BY FormalAssumption, PageAssumption DEF Content!Versions

LEMMA ContentInvInit == Content!Init => ContentInv
<1> SUFFICES ASSUME Content!Init PROVE ContentInv
  OBVIOUS
<1>1. ContentTyped
  BY VersionsAreNumbers DEF Content!Init, ContentTyped, Content!Versions
<1>2. QED
  BY <1>1 DEF Content!Init, ContentInv, Honest, Holding, Content!Seen, Content!MarkedIsStored

LEMMA AnswerTyped ==
  ASSUME ContentInv, NEW v \in Content!Versions
  PROVE  Content!Answer(v) \in Content!Bootstrap /\ Honest(Content!Answer(v))
<1>1. Content!Expected(v) \in Content!Versions
  BY DEF ContentInv, ContentTyped, Content!Expected
<1>2. made[Content!Expected(v)] \in Content!Status \cup {None}
  BY <1>1 DEF ContentInv, ContentTyped
<1> DEFINE found == IF made[Content!Expected(v)] = None THEN None
                    ELSE [of |-> Content!Expected(v), status |-> made[Content!Expected(v)]]
           isRead == readWith # None
<1>3. found \in Content!Content \cup {None}
  BY <1>1, <1>2 DEF Content!Content
<1>4. Content!Answer(v) = [version |-> v, read |-> isRead, content |-> found]
  BY DEF Content!Answer
<1>5. isRead \in BOOLEAN /\ (isRead => readWith # None)
  OBVIOUS
<1> HIDE DEF found, isRead
<1>6. Content!Answer(v) \in Content!Bootstrap
  BY <1>3, <1>4, <1>5 DEF Content!Bootstrap
<1>7. Content!Seen(Content!Answer(v)) => readWith # None
  BY <1>4, <1>5 DEF Content!Seen
<1>8. QED
  BY <1>6, <1>7 DEF Honest

LEMMA MergeTyped ==
  ASSUME ContentInv, NEW b \in Content!Bootstrap, b # None, Honest(b)
  PROVE  /\ Content!MergeReaderBootstrap(b) \in Content!Bootstrap
         /\ Honest(Content!MergeReaderBootstrap(b))
<1>1. bootstrap \in Content!Bootstrap \cup {None} /\ Honest(bootstrap)
  BY DEF ContentInv, ContentTyped
<1>2. bootstrap # None => [b EXCEPT !.content = bootstrap.content] \in Content!Bootstrap
                      /\ [b EXCEPT !.content = bootstrap.content].read = b.read
  BY <1>1 DEF Content!Bootstrap
<1>3. bootstrap # None => bootstrap.read \in BOOLEAN
  BY <1>1 DEF Content!Bootstrap
<1>4. bootstrap # None => Honest([b EXCEPT !.content = bootstrap.content])
  BY <1>2 DEF Honest, Content!Seen
<1>5. QED
  BY <1>1, <1>2, <1>4 DEF Content!MergeReaderBootstrap

\* What is newer, or ready for the strategy it is shown for, is not replaced.
LEMMA MergeAdvances ==
  ASSUME ContentTyped, NEW b \in Content!Bootstrap, bootstrap # None
  PROVE  LET merged == Content!MergeReaderBootstrap(b) IN
         /\ merged.version >= bootstrap.version
         /\ (/\ merged.version = bootstrap.version
             /\ bootstrap.content # None /\ merged.content # None
             /\ bootstrap.content.of = merged.content.of /\ bootstrap.content.status = "ready")
            => merged.content.status = "ready"
<1>1. bootstrap \in Content!Bootstrap /\ bootstrap.version \in Nat /\ b.version \in Nat
  BY VersionsAreNumbers DEF ContentTyped, Content!Bootstrap
<1> DEFINE ready == [b EXCEPT !.content = bootstrap.content]
<1>2. ready.version = b.version /\ ready.content = bootstrap.content
  BY <1>1 DEF Content!Bootstrap
<1>3. CASE b.version < bootstrap.version
  BY <1>1, <1>3 DEF Content!MergeReaderBootstrap
<1>4. CASE ~(b.version < bootstrap.version)
  <2>1. b.version >= bootstrap.version
    BY <1>1, <1>4
  <2>2. Content!MergeReaderBootstrap(b) = ready \/ Content!MergeReaderBootstrap(b) = b
    BY <1>4 DEF Content!MergeReaderBootstrap
  <2>3. CASE Content!MergeReaderBootstrap(b) = ready
    BY <1>2, <2>1, <2>3
  <2>4. CASE Content!MergeReaderBootstrap(b) # ready
    <3>1. Content!MergeReaderBootstrap(b) = b
      BY <2>2, <2>4
    <3>2. ~(/\ b.version = bootstrap.version /\ bootstrap.content # None /\ b.content # None
            /\ bootstrap.content.of = b.content.of /\ bootstrap.content.status = "ready")
      BY <1>4, <2>4 DEF Content!MergeReaderBootstrap
    <3>3. QED
      BY <2>1, <3>1, <3>2
  <2>5. QED
    BY <2>3, <2>4
<1>5. QED
  BY <1>3, <1>4

\* A row that is there stays: what was honest is.
LEMMA HonestStays ==
  ASSUME NEW b, Honest(b), readWith # None => readWith' # None
  PROVE  Honest(b)'
BY DEF Honest, Content!Seen

LEMMA ContentServerStep ==
  ASSUME ContentInv, Content!ConfirmProposal \/ \E v \in Content!Versions : Content!Generate(v)
  PROVE  ContentInv' /\ UNCHANGED bootstrap
<1>1. CASE Content!ConfirmProposal
  <2>1. /\ version' \in Content!Versions /\ readWith' \in Content!Versions \cup {None}
        /\ readWith # None => readWith' # None
    BY <1>1, VersionsAreNumbers DEF ContentInv, ContentTyped, Content!ConfirmProposal,
       Content!Versions
  <2>2. QED
    BY <1>1, <2>1 DEF ContentInv, ContentTyped, Content!ConfirmProposal, Content!MarkedIsStored,
       Honest, Holding, Content!Seen
<1>2. ASSUME NEW v \in Content!Versions, Content!Generate(v) PROVE ContentInv' /\ UNCHANGED bootstrap
  <2>1. made' \in [Content!Versions -> Content!Status \cup {None}]
    BY <1>2 DEF ContentInv, ContentTyped, Content!Generate
  <2>2. QED
    BY <1>2, <2>1 DEF ContentInv, ContentTyped, Content!Generate, Content!MarkedIsStored, Honest,
       Holding, Content!Seen
<1>3. QED
  BY <1>1, <1>2

LEMMA ContentOpenStep ==
  ASSUME ContentInv, Content!Open
  PROVE  ContentInv' /\ (bootstrap # None => UNCHANGED bootstrap)
<1>1. Content!Answer(version) \in Content!Bootstrap /\ Honest(Content!Answer(version))
  BY AnswerTyped DEF ContentInv, ContentTyped
<1>2. UNCHANGED <<version, here, readWith, made, polling, focusing, post>>
  BY DEF Content!Open, Content!server
<1>3. bootstrap' \in Content!Bootstrap \cup {None} /\ Honest(bootstrap')
  BY <1>1 DEF Content!Open, ContentInv, ContentTyped
<1>4. marked' = Content!Seen(bootstrap')
  BY DEF Content!Open
<1>5. QED
  BY <1>2, <1>3, <1>4 DEF Content!Open, ContentInv, ContentTyped, Content!MarkedIsStored, Honest,
     Holding, Content!Seen

LEMMA ContentCloseStep == ASSUME ContentInv, Content!Close PROVE ContentInv' /\ UNCHANGED bootstrap
<1>1. readWith' \in Content!Versions \cup {None} /\ (readWith # None => readWith' # None)
  BY VersionsAreNumbers DEF ContentInv, ContentTyped, Content!Close, Content!Inserted
<1>2. QED
  BY <1>1 DEF ContentInv, ContentTyped, Content!Close, Content!MarkedIsStored, Honest, Holding,
     Content!Seen

LEMMA CollectStep == ASSUME ContentInv, Content!Collect PROVE ContentInv' /\ bootstrap' = None
BY DEF Content!Collect, Content!server, ContentInv, ContentTyped, Content!MarkedIsStored, Honest,
   Holding, Content!Seen

LEMMA AskedTyped ==
  ASSUME ContentTyped
  PROVE  /\ [version |-> version, answer |-> None] \in Content!Request
                                              /\ Holding([version |-> version, answer |-> None])
BY DEF ContentTyped, Content!Request, Holding, Honest, Content!Seen

LEMMA ReadTyped ==
  ASSUME ContentInv, NEW asking \in Content!Request
  PROVE  /\ [asking EXCEPT !.answer = Content!Answer(asking.version)] \in Content!Request
         /\ Holding([asking EXCEPT !.answer = Content!Answer(asking.version)])
<1>1. asking.version \in Content!Versions
  BY DEF Content!Request
<1>2. Content!Answer(asking.version) \in Content!Bootstrap /\ Honest(Content!Answer(asking.version))
  BY <1>1, AnswerTyped
<1>3. [asking EXCEPT !.answer = Content!Answer(asking.version)].answer = Content!Answer(asking.version)
  BY DEF Content!Request
<1>4. QED
  BY <1>2, <1>3 DEF Content!Request, Holding

\* A request is asked or read; no row changes.
LEMMA AskingStep ==
  ASSUME ContentInv,
         Content!Poll \/ Content!PollRead \/ (\E inNode \in BOOLEAN : Content!ReportReaderFocus(inNode))
           \/ \E asking \in focusing : Content!FocusRead(asking)
  PROVE  ContentInv' /\ UNCHANGED bootstrap
<1>1. CASE Content!Poll
  BY <1>1, AskedTyped DEF Content!Poll, Content!server, ContentInv, ContentTyped,
     Content!MarkedIsStored, Honest, Holding, Content!Seen
<1>2. CASE Content!PollRead
  <2>1. polling' \in Content!Request /\ Holding(polling')
    BY <1>2, ReadTyped DEF Content!PollRead, ContentInv, ContentTyped
  <2>2. QED
    BY <1>2, <2>1 DEF Content!PollRead, Content!server, ContentInv, ContentTyped,
       Content!MarkedIsStored, Honest, Holding, Content!Seen
<1>3. ASSUME NEW inNode \in BOOLEAN, Content!ReportReaderFocus(inNode)
      PROVE  ContentInv' /\ UNCHANGED bootstrap
  <2>1. readWith' \in Content!Versions \cup {None} /\ (readWith # None => readWith' # None)
    BY <1>3, VersionsAreNumbers DEF ContentInv, ContentTyped, Content!ReportReaderFocus
  <2>2. /\ focusing' = focusing \cup {[version |-> version, answer |-> None]} /\ here' = inNode
        /\ UNCHANGED <<version, made, bootstrap, polling, marked, post>>
    BY <1>3 DEF Content!ReportReaderFocus
  <2>3. focusing' \subseteq Content!Request /\ \A asking \in focusing' : Holding(asking)
    BY <2>2, AskedTyped DEF ContentInv, ContentTyped
  <2>4. ContentTyped'
    BY <2>1, <2>2, <2>3 DEF ContentInv, ContentTyped
  <2>5. /\ Honest(bootstrap)' /\ (polling # None => Holding(polling))'
        /\ (\A asking \in focusing : Holding(asking))'
    BY <2>1, <2>2, <2>3 DEF ContentInv, Honest, Holding
  <2>6. Content!MarkedIsStored'
    BY <2>1, <2>2 DEF ContentInv, Content!MarkedIsStored
  <2>7. QED
    BY <2>2, <2>4, <2>5, <2>6 DEF ContentInv
<1>4. ASSUME NEW asking \in focusing, Content!FocusRead(asking) PROVE ContentInv' /\ UNCHANGED bootstrap
  <2>1. /\ [asking EXCEPT !.answer = Content!Answer(asking.version)] \in Content!Request
        /\ Holding([asking EXCEPT !.answer = Content!Answer(asking.version)])
    BY ReadTyped DEF ContentInv, ContentTyped
  <2>2. focusing' = (focusing \ {asking}) \cup {[asking EXCEPT !.answer = Content!Answer(asking.version)]}
        /\ UNCHANGED <<version, here, readWith, made, bootstrap, polling, marked, post>>
    BY <1>4 DEF Content!FocusRead, Content!server
  <2>3. focusing' \subseteq Content!Request /\ \A r \in focusing' : Holding(r)
    BY <2>1, <2>2 DEF ContentInv, ContentTyped
  <2>4. QED
    BY <2>2, <2>3 DEF ContentInv, ContentTyped, Content!MarkedIsStored, Honest, Holding
<1>5. QED
  BY <1>1, <1>2, <1>3, <1>4

\* An answer arrives, or the request fails.
LEMMA ArrivesStep ==
  ASSUME ContentInv, NEW b \in Content!Bootstrap, b # None, Honest(b), Content!Arrives(b),
         UNCHANGED <<Content!server, post>>,
         polling' \in {polling, None}, focusing' \subseteq focusing
  PROVE  ContentInv' /\ Content!Advances
<1>1. bootstrap' \in Content!Bootstrap /\ Honest(bootstrap')
  BY MergeTyped DEF Content!Arrives
<1>2. marked' => marked \/ readWith # None
  <2>1. marked' = (marked \/ (open /\ Content!Seen(bootstrap')))
    BY DEF Content!Arrives
  <2>2. Content!Seen(bootstrap') => readWith # None
    BY <1>1 DEF Honest
  <2>3. QED
    BY <2>1, <2>2
<1>3. ContentTyped'
  BY <1>1 DEF ContentInv, ContentTyped, Content!server
<1>4. QED
  <2>1. readWith' = readWith
    BY DEF Content!server
  <2>2. /\ Honest(bootstrap)' /\ (polling # None => Holding(polling))'
        /\ (\A asking \in focusing : Holding(asking))'
    BY <1>1, <2>1 DEF ContentInv, Honest, Holding, Content!Seen
  <2>3. Content!MarkedIsStored'
    BY <1>2, <2>1 DEF ContentInv, Content!MarkedIsStored
  <2>4. Content!Advances
    BY MergeAdvances DEF ContentInv, Content!Arrives, Content!Advances
  <2>5. QED
    BY <1>3, <2>2, <2>3, <2>4 DEF ContentInv

LEMMA FailsStep ==
  ASSUME ContentInv, UNCHANGED <<Content!server, post, bootstrap, marked>>,
         polling' \in {polling, None}, focusing' \subseteq focusing
  PROVE  ContentInv'
BY DEF Content!server, ContentInv, ContentTyped, Content!MarkedIsStored, Honest, Holding,
   Content!Seen

LEMMA ContentAnsweredStep ==
  ASSUME ContentInv, Content!PollAnswered \/ \E asking \in focusing : Content!FocusAnswered(asking)
  PROVE  ContentInv' /\ (Content!Advances \/ UNCHANGED bootstrap)
<1>1. CASE Content!PollAnswered
  <2>1. CASE polling.answer # None /\ Content!Arrives(polling.answer)
    <3>1. polling.answer \in Content!Bootstrap /\ polling.answer # None /\ Honest(polling.answer)
      BY <1>1, <2>1 DEF Content!PollAnswered, ContentInv, ContentTyped, Content!Request, Holding
    <3>2. QED
      BY <1>1, <2>1, <3>1, ArrivesStep DEF Content!PollAnswered
  <2>2. CASE UNCHANGED <<bootstrap, marked>>
    BY <1>1, <2>2, FailsStep DEF Content!PollAnswered
  <2>3. QED
    BY <1>1, <2>1, <2>2 DEF Content!PollAnswered
<1>2. ASSUME NEW asking \in focusing, Content!FocusAnswered(asking)
      PROVE  ContentInv' /\ (Content!Advances \/ UNCHANGED bootstrap)
  <2>1. CASE asking.answer # None /\ Content!Arrives(asking.answer)
    <3>1. asking.answer \in Content!Bootstrap /\ asking.answer # None /\ Honest(asking.answer)
      BY <1>2, <2>1 DEF ContentInv, ContentTyped, Content!Request, Holding
    <3>2. focusing' \subseteq focusing /\ UNCHANGED <<Content!server, polling, post>>
      BY <1>2 DEF Content!FocusAnswered
    <3>3. QED
      BY <2>1, <3>1, <3>2, ArrivesStep
  <2>2. CASE UNCHANGED <<bootstrap, marked>>
    <3>1. focusing' \subseteq focusing /\ UNCHANGED <<Content!server, polling, post>>
      BY <1>2 DEF Content!FocusAnswered
    <3>2. QED
      BY <2>2, <3>1, FailsStep
  <2>3. QED
    BY <1>2, <2>1, <2>2 DEF Content!FocusAnswered
<1>3. QED
  BY <1>1, <1>2

LEMMA MarkingStep ==
  ASSUME ContentInv, Content!Intersects \/ Content!MarkedRead \/ Content!MarkFailed
  PROVE  ContentInv' /\ UNCHANGED bootstrap
<1>1. UNCHANGED <<version, here, made, bootstrap, polling, focusing>>
  BY DEF Content!Intersects, Content!MarkedRead, Content!MarkFailed, Content!server
<1>2. /\ version \in Content!Versions /\ version # None /\ readWith \in Content!Versions \cup {None}
      /\ Content!MarkedIsStored
  BY VersionsAreNumbers DEF ContentInv, ContentTyped
<1>3. /\ readWith' \in Content!Versions \cup {None} /\ (readWith # None => readWith' # None)
      /\ Content!MarkedIsStored'
  <2>1. CASE Content!Intersects
    BY <1>2, <2>1 DEF Content!Intersects, Content!server, Content!MarkedIsStored
  <2>2. CASE Content!MarkedRead
    BY <1>2, <2>2 DEF Content!MarkedRead, Content!Inserted, Content!server, Content!MarkedIsStored
  <2>3. CASE Content!MarkFailed
    BY <1>2, <2>3 DEF Content!MarkFailed, Content!Inserted, Content!server, Content!MarkedIsStored
  <2>4. QED
    BY <2>1, <2>2, <2>3
<1>4. ContentTyped'
  BY <1>1, <1>3 DEF ContentInv, ContentTyped
<1>5. QED
  BY <1>1, <1>3, <1>4 DEF ContentInv, Honest, Holding

LEMMA ContentStep == ASSUME ContentInv, Content!Next PROVE ContentInv' /\ Content!Advances
<1>1. UNCHANGED bootstrap => Content!Advances
  <2> SUFFICES ASSUME UNCHANGED bootstrap, bootstrap # None PROVE Content!Advances
    BY DEF Content!Advances
  <2>1. bootstrap.version \in Nat
    BY VersionsAreNumbers DEF ContentInv, ContentTyped, Content!Bootstrap
  <2>2. QED
    BY <2>1 DEF Content!Advances
<1>2. bootstrap = None \/ bootstrap' = None => Content!Advances
  BY DEF Content!Advances
<1>3. QED
  BY <1>1, <1>2, ContentServerStep, ContentOpenStep, ContentCloseStep, CollectStep, AskingStep,
     ContentAnsweredStep, MarkingStep DEF Content!Next

LEMMA ContentRests ==
  ASSUME ContentInv, UNCHANGED <<version, here, readWith, made, bootstrap, polling, focusing, marked, post>>
  PROVE  ContentInv'
BY DEF ContentInv, ContentTyped, Content!MarkedIsStored, Honest, Holding, Content!Seen

ContentHolds == On("content") => ContentInv

LEMMA ContentStarts == Init => ContentHolds
BY ContentInvInit DEF Init, On, ContentHolds

LEMMA ContentGoesOn ==
  ASSUME ContentHolds, [Next]_vars
  PROVE  ContentHolds' /\ [On("content") => Content!Advances]_content
<1>1. CASE ~On("content")
  BY <1>1 DEF On, ContentHolds, Next, vars
<1>2. ASSUME On("content"), Content!Next PROVE ContentInv' /\ Content!Advances
  BY <1>2, ContentStep DEF ContentHolds
<1>3. ASSUME On("content"), UNCHANGED content PROVE ContentInv'
  <2>1. UNCHANGED <<version, here, readWith, made, bootstrap, polling, focusing, marked, post>>
    BY <1>3 DEF content
  <2>2. QED
    BY <1>3, <2>1, ContentRests DEF ContentHolds
<1>4. CASE On("content")
  <2>1. Content!Next \/ UNCHANGED content
    BY <1>4 DEF Next, vars, On
  <2>2. QED
    BY <1>2, <1>3, <1>4, <2>1 DEF ContentHolds
<1>5. QED
  BY <1>1, <1>4

(***************************************************************************)
(* ReaderNotes                                                             *)
(***************************************************************************)

DoneCalls(kind, id) == {c \in calls : c.kind = kind /\ c.id = id /\ c.outcome = "ok"}

\* Where the answers under way will take a highlight of the page: to the row.
NoteFits(id) ==
  /\ DoneCalls("delete", id) # {} => noted[id] = None
  /\ DoneCalls("delete", id) = {} =>
       \A c \in DoneCalls("note", id) : noted[id] = IF shownNotes[id] = None THEN None ELSE c.text
  /\ \A c \in DoneCalls("create", id) : noted[id] = c.text
  /\ DoneCalls("delete", id) = {} /\ DoneCalls("note", id) = {} /\ DoneCalls("create", id) = {} =>
       noted[id] = shownNotes[id]

\* A highlight that is made is alone in its calls, and is noted by one at a time.
Lonely(c, d) ==
  c.id = d.id /\ (c.kind = "create" \/ (c.kind = "note" /\ d.kind = "note")) => c = d

NotesTyped ==
  /\ noted \in Notes!Notes /\ shownNotes \in Notes!Notes /\ calls \subseteq Notes!Calls
  /\ cached \in Notes!Snapshot \cup {None} /\ incoming \in Notes!Snapshot \cup {None}
  /\ mounted \in BOOLEAN /\ mounts \in 0..MaxOpens /\ (mounted => mounts # 0)

HighlightsFit ==
  mounted /\ ~astray =>
    /\ \A c \in calls : c.mount = mounts /\ (c.kind = "create" => shownNotes[c.id] = None)
    /\ \A c, d \in calls : Lonely(c, d)
    /\ \A id \in Notes!Ids : NoteFits(id)

\* The last setting that was sent is the one on show.
SettingsTyped == puts \in Seq(Notes!Settings) /\ setting \in Notes!Settings /\ saved \in Notes!Settings
SettingFits ==
  mounted /\ ~stray /\ ~timer => setting = IF puts = <<>> THEN saved ELSE puts[Len(puts)]

NotesInv == NotesTyped /\ HighlightsFit /\ SettingsTyped /\ SettingFits

LEMMA NotesAgree == ASSUME NotesInv PROVE Notes!CopiesAgree
<1>1. ASSUME mounted, calls = {}, ~astray PROVE shownNotes = noted
  <2>1. \A id \in Notes!Ids : noted[id] = shownNotes[id]
    BY <1>1 DEF NotesInv, HighlightsFit, NoteFits, DoneCalls
  <2>2. QED
    BY <2>1 DEF NotesInv, NotesTyped, Notes!Notes
<1>2. ASSUME mounted, ~timer, puts = <<>>, ~stray PROVE setting = saved
  BY <1>2 DEF NotesInv, SettingFits
<1>3. QED
  BY <1>1, <1>2 DEF Notes!CopiesAgree

LEMMA NotesInvInit == Notes!Init => NotesInv
<1> SUFFICES ASSUME Notes!Init PROVE NotesInv
  OBVIOUS
<1>1. NotesTyped
  <2>1. noted \in Notes!Notes /\ shownNotes \in Notes!Notes
    BY DEF Notes!Init, Notes!NoNotes, Notes!Notes
  <2>2. mounts \in 0..MaxOpens /\ mounted = FALSE
    BY PositionAssumption DEF Notes!Init
  <2>3. QED
    BY <2>1, <2>2 DEF Notes!Init, NotesTyped
<1>2. SettingsTyped
  BY DEF Notes!Init, SettingsTyped, Notes!Settings
<1>3. QED
  BY <1>1, <1>2 DEF Notes!Init, NotesInv, HighlightsFit, SettingFits

(***************************************************************************)
(* Highlights                                                              *)
(***************************************************************************)
highlights == <<noted, calls, shownNotes, mounted, mounts, astray>>

LEMMA HighlightsRest ==
  ASSUME HighlightsFit, UNCHANGED highlights
  PROVE  HighlightsFit'
BY DEF highlights, HighlightsFit, NoteFits, DoneCalls, Lonely

\* What changes neither a row nor a copy of the page.
LEMMA FitsStays ==
  ASSUME NEW id, NoteFits(id), noted'[id] = noted[id], shownNotes'[id] = shownNotes[id],
         \A c : c.id = id /\ c.outcome = "ok" => (c \in calls' <=> c \in calls)
  PROVE  NoteFits(id)'
<1>1. /\ DoneCalls("delete", id)' = DoneCalls("delete", id)
      /\ DoneCalls("note", id)' = DoneCalls("note", id)
      /\ DoneCalls("create", id)' = DoneCalls("create", id)
  BY DEF DoneCalls
<1>2. QED
  BY <1>1 DEF NoteFits

LEMMA CallStep ==
  ASSUME NotesTyped, HighlightsFit, NEW kind \in {"create", "note", "delete"}, NEW id \in Notes!Ids,
         NEW text \in Notes!Texts, Notes!Call(kind, id, text), mounts \in 1..MaxOpens,
         kind = "create" => shownNotes[id] = None /\ \A c \in calls : c.id # id,
         kind # "create" => shownNotes[id] # None
  PROVE  calls' \subseteq Notes!Calls /\ HighlightsFit'
<1> DEFINE call == [kind |-> kind, id |-> id, text |-> text, outcome |-> "sent", mount |-> mounts]
<1>1. /\ call \in Notes!Calls /\ call.kind = kind /\ call.id = id /\ call.outcome = "sent"
      /\ call.mount = mounts
  BY DEF Notes!Calls
<1>2. /\ calls' = calls \cup {call} /\ mounted
      /\ astray' = (astray \/ (kind = "note" /\ \E c \in calls : c.kind = "note" /\ c.id = id))
      /\ UNCHANGED <<noted, shownNotes, mounted, mounts>>
  BY DEF Notes!Call, Notes!page
<1> HIDE DEF call
<1>3. ASSUME mounted', ~astray'
      PROVE  /\ \A c \in calls' : c.mount = mounts' /\ (c.kind = "create" => shownNotes'[c.id] = None)
             /\ \A c, d \in calls' : Lonely(c, d)
             /\ (\A i \in Notes!Ids : NoteFits(i))'
  <2>1. mounted /\ ~astray
    BY <1>2, <1>3
  <2>2. \A c \in calls' : c.mount = mounts' /\ (c.kind = "create" => shownNotes'[c.id] = None)
    BY <1>1, <1>2, <2>1 DEF HighlightsFit
  <2>3. ASSUME NEW c \in calls PROVE Lonely(c, call) /\ Lonely(call, c)
    <3>1. kind = "note" /\ c.id = id => c.kind # "note"
      BY <1>2, <1>3
    <3>2. c.kind = "create" => shownNotes[c.id] = None
      BY <2>1 DEF HighlightsFit
    <3>3. QED
      BY <1>1, <3>1, <3>2 DEF Lonely
  <2>4. \A c, d \in calls' : Lonely(c, d)
    BY <1>2, <2>1, <2>3 DEF HighlightsFit, Lonely
  <2>5. ASSUME NEW i \in Notes!Ids PROVE NoteFits(i)'
    BY <1>1, <1>2, <2>1, FitsStays DEF HighlightsFit
  <2>6. QED
    BY <2>2, <2>4, <2>5
<1>4. calls' \subseteq Notes!Calls
  BY <1>1, <1>2 DEF NotesTyped
<1>5. QED
  BY <1>3, <1>4 DEF HighlightsFit

LEMMA ServeStep ==
  ASSUME NotesTyped, HighlightsFit, NEW call \in calls, Notes!Serve(call)
  PROVE  calls' \subseteq Notes!Calls /\ noted' \in Notes!Notes /\ HighlightsFit'
<1> DEFINE found == call.kind = "create" \/ noted[call.id] # None
           served == [call EXCEPT !.outcome = IF found THEN "ok" ELSE "failed"]
           id == call.id
<1>1. /\ call \in Notes!Calls /\ id \in Notes!Ids /\ call.text \in Notes!Texts
      /\ call.outcome = "sent"
      /\ call.kind \in {"create", "note", "delete"}
  BY DEF NotesTyped, Notes!Calls, Notes!Serve
<1>2. /\ served \in Notes!Calls /\ served.id = id /\ served.kind = call.kind
      /\ served.text = call.text
      /\ served.mount = call.mount /\ served.outcome = IF found THEN "ok" ELSE "failed"
  BY <1>1 DEF Notes!Calls
<1>3. /\ calls' = (calls \ {call}) \cup {served}
      /\ noted' = IF ~found THEN noted
                 ELSE [noted EXCEPT ![id] = IF call.kind = "delete" THEN None ELSE call.text]
      /\ UNCHANGED <<shownNotes, mounted, mounts, astray>>
  BY DEF Notes!Serve, Notes!page
<1>4. noted' \in Notes!Notes
  BY <1>1, <1>3 DEF NotesTyped, Notes!Notes
<1>5. /\ \A i \in Notes!Ids : i # id => noted'[i] = noted[i]
      /\ ~found => noted'[id] = noted[id]
      /\ found => noted'[id] = IF call.kind = "delete" THEN None ELSE call.text
  BY <1>1, <1>3 DEF NotesTyped, Notes!Notes
<1> HIDE DEF served, id
<1>6. ASSUME mounted', ~astray'
      PROVE  /\ \A c \in calls' : c.mount = mounts' /\ (c.kind = "create" => shownNotes'[c.id] = None)
             /\ \A c, d \in calls' : Lonely(c, d)
             /\ (\A i \in Notes!Ids : NoteFits(i))'
  <2>1. /\ mounted /\ ~astray
        /\ \A c \in calls : c.mount = mounts /\ (c.kind = "create" => shownNotes[c.id] = None)
        /\ \A c, d \in calls : Lonely(c, d)
        /\ \A i \in Notes!Ids : NoteFits(i)
    BY <1>3, <1>6 DEF HighlightsFit
  <2>2. \A c \in calls' : c.mount = mounts' /\ (c.kind = "create" => shownNotes'[c.id] = None)
    BY <1>2, <1>3, <2>1 DEF id
  <2>3. \A c, d \in calls' : Lonely(c, d)
    BY <1>2, <1>3, <2>1 DEF Lonely, id
  <2>4. ASSUME NEW i \in Notes!Ids, i # id PROVE NoteFits(i)'
    BY <1>1, <1>2, <1>3, <1>5, <2>1, <2>4, FitsStays DEF id
  <2>5. CASE ~found
    <3>1. \A c : c.outcome = "ok" => (c \in calls' <=> c \in calls)
      BY <1>1, <1>2, <1>3, <2>5
    <3>2. NoteFits(id)'
      BY <1>1, <1>3, <1>5, <2>1, <2>5, <3>1, FitsStays
    <3>3. QED
      BY <2>2, <2>3, <2>4, <3>2
  <2>6. CASE found
    <3>1. \A c \in calls : c.id = id /\ c # call /\ c.outcome = "ok" => NoteFits(id)
      BY <1>1, <2>1
    <3>2. NoteFits(id) /\ \A c \in calls : Lonely(c, call) /\ Lonely(call, c)
      BY <1>1, <2>1
    <3>3. CASE call.kind = "delete"
      <4>1. served \in DoneCalls("delete", id)'
        BY <1>2, <1>3, <2>6, <3>3 DEF DoneCalls
      <4>2. \A c \in DoneCalls("create", id) : FALSE
        BY <3>2, <3>3 DEF DoneCalls, Lonely, id
      <4>3. DoneCalls("create", id)' = {}
        BY <1>2, <1>3, <3>3, <4>2 DEF DoneCalls
      <4>4. noted'[id] = None
        BY <1>5, <2>6, <3>3
      <4>5. NoteFits(id)'
        BY <4>1, <4>3, <4>4 DEF NoteFits
      <4>6. QED
        BY <2>2, <2>3, <2>4, <4>5
    <3>4. CASE call.kind = "note"
      <4>1. noted[id] # None
        BY <2>6, <3>4 DEF id
      <4>2. DoneCalls("delete", id) = {} /\ DoneCalls("create", id) = {}
        BY <3>2, <3>4, <4>1 DEF NoteFits, DoneCalls, Lonely, id
      <4>3. DoneCalls("note", id) = {}
        BY <1>1, <3>2, <3>4 DEF DoneCalls, Lonely, id
      <4>4. shownNotes[id] # None
        BY <3>2, <4>1, <4>2, <4>3 DEF NoteFits
      <4>5. /\ DoneCalls("delete", id)' = {} /\ DoneCalls("create", id)' = {}
            /\ DoneCalls("note", id)' = {served}
        BY <1>2, <1>3, <2>6, <3>4, <4>2, <4>3 DEF DoneCalls
      <4>6. noted'[id] = call.text /\ shownNotes'[id] # None
        BY <1>3, <1>5, <2>6, <3>4, <4>4
      <4>7. NoteFits(id)'
        BY <1>2, <4>5, <4>6 DEF NoteFits
      <4>8. QED
        BY <2>2, <2>3, <2>4, <4>7
    <3>5. CASE call.kind = "create"
      <4>1. \A c \in calls : c.id = id => c = call
        BY <3>2, <3>5 DEF Lonely, id
      <4>2. /\ DoneCalls("delete", id)' = {} /\ DoneCalls("note", id)' = {}
            /\ DoneCalls("create", id)' = {served}
        BY <1>2, <1>3, <2>6, <3>5, <4>1 DEF DoneCalls
      <4>3. noted'[id] = call.text
        BY <1>5, <2>6, <3>5
      <4>4. NoteFits(id)'
        BY <1>2, <4>2, <4>3 DEF NoteFits
      <4>5. QED
        BY <2>2, <2>3, <2>4, <4>4
    <3>6. QED
      BY <1>1, <3>3, <3>4, <3>5
  <2>7. QED
    BY <2>5, <2>6
<1>7. calls' \subseteq Notes!Calls
  BY <1>2, <1>3 DEF NotesTyped
<1>8. QED
  BY <1>4, <1>6, <1>7 DEF HighlightsFit

LEMMA NotesAnsweredStep ==
  ASSUME NotesTyped, HighlightsFit, NEW call \in calls, Notes!Answered(call)
  PROVE  shownNotes' \in Notes!Notes /\ HighlightsFit'
<1> DEFINE id == call.id
<1>1. /\ call \in Notes!Calls /\ id \in Notes!Ids /\ call.text \in Notes!Texts
      /\ call.kind \in {"create", "note", "delete"}
  BY DEF NotesTyped, Notes!Calls
<1>2. /\ calls' = calls \ {call} /\ UNCHANGED <<noted, mounted, mounts, astray>>
      /\ shownNotes' = IF mounted /\ call.mount = mounts /\ call.outcome = "ok" THEN Notes!Applied(call)
                       ELSE shownNotes
  BY DEF Notes!Answered
<1>3. /\ Notes!Applied(call) \in Notes!Notes
      /\ \A i \in Notes!Ids : i # id => Notes!Applied(call)[i] = shownNotes[i]
      /\ Notes!Applied(call)[id] = IF call.kind = "create" THEN call.text
                             ELSE IF call.kind = "delete" \/ shownNotes[id] = None THEN None
                             ELSE call.text
  BY <1>1 DEF NotesTyped, Notes!Notes, Notes!Applied
<1>4. shownNotes' \in Notes!Notes
  BY <1>2, <1>3 DEF NotesTyped
<1>5. ASSUME mounted', ~astray'
      PROVE  /\ \A c \in calls' : c.mount = mounts' /\ (c.kind = "create" => shownNotes'[c.id] = None)
             /\ \A c, d \in calls' : Lonely(c, d)
             /\ (\A i \in Notes!Ids : NoteFits(i))'
  <2>1. /\ mounted /\ ~astray
        /\ \A c \in calls : c.mount = mounts /\ (c.kind = "create" => shownNotes[c.id] = None)
        /\ \A c, d \in calls : Lonely(c, d)
        /\ \A i \in Notes!Ids : NoteFits(i)
    BY <1>2, <1>5 DEF HighlightsFit
  <2>2. \A c, d \in calls' : Lonely(c, d)
    BY <1>2, <2>1 DEF Lonely
  <2>3. CASE call.outcome # "ok"
    <3>1. shownNotes' = shownNotes
      BY <1>2, <2>3
    <3>2. \A i \in Notes!Ids : NoteFits(i)'
      BY <1>2, <2>1, <2>3, <3>1, FitsStays
    <3>3. QED
      BY <1>2, <2>1, <2>2, <3>1, <3>2
  <2>4. CASE call.outcome = "ok"
    <3>1. shownNotes' = Notes!Applied(call)
      BY <1>2, <2>1, <2>4
    <3>2. \A i \in Notes!Ids : i # id => NoteFits(i)'
      BY <1>2, <1>3, <2>1, <3>1, FitsStays
    <3> HIDE DEF id
    <3>3. \A c \in calls' : c \in calls /\ c # call
      BY <1>2
    <3>4. \A c \in calls' : c.kind = "create" /\ c.id = id => FALSE
      BY <2>1, <3>3 DEF Lonely, id
    <3>5. \A c \in calls' : c.mount = mounts' /\ (c.kind = "create" => shownNotes'[c.id] = None)
      <4> SUFFICES ASSUME NEW c \in calls', c.kind = "create" PROVE shownNotes'[c.id] = None
        BY <1>2, <2>1
      <4>1. c.id \in Notes!Ids /\ c.id # id /\ shownNotes[c.id] = None
        BY <2>1, <3>3, <3>4 DEF NotesTyped, Notes!Calls
      <4>2. QED
        BY <1>3, <3>1, <4>1
    <3>6. NoteFits(id) /\ DoneCalls("create", id)' = {}
      BY <1>1, <2>1, <3>4 DEF id, DoneCalls
    <3>7. CASE call.kind = "create"
      <4>1. \A c \in calls' : c.id # id
        BY <2>1, <3>3, <3>7 DEF Lonely, id
      <4>2. DoneCalls("delete", id)' = {} /\ DoneCalls("note", id)' = {}
        BY <4>1 DEF DoneCalls
      <4>3. call \in DoneCalls("create", id)
        BY <2>4, <3>7 DEF DoneCalls, id
      <4>4. noted'[id] = call.text /\ shownNotes'[id] = call.text
        BY <1>2, <1>3, <3>1, <3>6, <3>7, <4>3 DEF NoteFits
      <4>5. NoteFits(id)'
        BY <3>6, <4>2, <4>4 DEF NoteFits
      <4>6. QED
        BY <2>2, <3>2, <3>5, <4>5
    <3>8. CASE call.kind = "delete"
      <4>1. call \in DoneCalls("delete", id)
        BY <2>4, <3>8 DEF DoneCalls, id
      <4>2. noted'[id] = None /\ shownNotes'[id] = None
        BY <1>2, <1>3, <3>1, <3>6, <3>8, <4>1 DEF NoteFits
      <4>3. NoteFits(id)'
        BY <3>6, <4>2 DEF NoteFits
      <4>4. QED
        BY <2>2, <3>2, <3>5, <4>3
    <3>9. CASE call.kind = "note"
      <4>1. DoneCalls("note", id)' = {} /\ DoneCalls("delete", id)' = DoneCalls("delete", id)
        BY <1>2, <2>1, <3>3, <3>9 DEF DoneCalls, Lonely, id
      <4>2. call \in DoneCalls("note", id)
        BY <2>4, <3>9 DEF DoneCalls, id
      <4>3. DoneCalls("delete", id) = {} => noted'[id] = shownNotes'[id]
        BY <1>2, <1>3, <3>1, <3>6, <3>9, <4>2 DEF NoteFits
      <4>4. DoneCalls("delete", id) # {} => noted'[id] = None
        BY <1>2, <3>6 DEF NoteFits
      <4>5. NoteFits(id)'
        BY <3>6, <4>1, <4>3, <4>4 DEF NoteFits
      <4>6. QED
        BY <2>2, <3>2, <3>5, <4>5
    <3>10. QED
      BY <1>1, <3>7, <3>8, <3>9
  <2>5. QED
    BY <2>3, <2>4
<1>6. QED
  BY <1>4, <1>5 DEF HighlightsFit

LEMMA NotesLostStep ==
  ASSUME HighlightsFit, NEW call \in calls, Notes!Lost(call)
  PROVE  HighlightsFit'
<1>1. /\ calls' = calls \ {call} /\ astray' = (astray \/ call.outcome = "ok")
      /\ UNCHANGED <<noted, shownNotes, mounted, mounts>>
  BY DEF Notes!Lost, Notes!page
<1>2. CASE call.outcome = "ok"
  BY <1>1, <1>2 DEF HighlightsFit
<1>3. CASE call.outcome # "ok"
  <2>1. \A id : NoteFits(id) => NoteFits(id)'
    BY <1>1, <1>3, FitsStays
  <2>2. QED
    BY <1>1, <1>3, <2>1 DEF HighlightsFit, Lonely
<1>4. QED
  BY <1>2, <1>3

\* A page that is opened beside older calls, or on an older bootstrap, is excused.
LEMMA NotesOpenStep == ASSUME NotesTyped, SettingsTyped, Notes!Open PROVE NotesInv'
<1>1. /\ mounted' = TRUE /\ mounts' = mounts + 1
      /\ UNCHANGED <<noted, saved, incoming, calls, timer, puts>>
      /\ cached' \in Notes!Snapshot \cup {None}
      /\ shownNotes' = cached'.notes /\ setting' = cached'.settings
      /\ astray' = (cached'.notes # noted \/ calls # {})
      /\ stray' = (cached'.settings # saved \/ puts # <<>>)
  BY DEF Notes!Open, NotesTyped, Notes!Now, Notes!Snapshot, SettingsTyped
<1>2. cached' \in Notes!Snapshot
  BY DEF Notes!Open, NotesTyped, Notes!Now, Notes!Snapshot, SettingsTyped
<1>3. NotesTyped' /\ SettingsTyped'
  <2>1. mounts' \in 0..MaxOpens /\ mounts' # 0
    BY <1>1, PositionAssumption DEF Notes!Open, NotesTyped
  <2>2. QED
    BY <1>1, <1>2, <2>1 DEF NotesTyped, SettingsTyped, Notes!Snapshot
<1>4. HighlightsFit'
  BY <1>1 DEF HighlightsFit, NoteFits, DoneCalls
<1>5. SettingFits'
  BY <1>1 DEF SettingFits
<1>6. QED
  BY <1>3, <1>4, <1>5 DEF NotesInv

LEMMA NotesPageStep ==
  ASSUME NotesInv, Notes!Close \/ Notes!Collect \/ Notes!BootstrapRead \/ Notes!BootstrapArrives
  PROVE  NotesInv'
<1>1. UNCHANGED <<noted, saved, mounts, shownNotes, setting, calls, puts, astray, stray>>
  <2>1. CASE Notes!Close
    BY <2>1 DEF Notes!Close
  <2>2. CASE Notes!Collect
    BY <2>2 DEF Notes!Collect, Notes!page
  <2>3. CASE Notes!BootstrapRead
    BY <2>3 DEF Notes!BootstrapRead, Notes!page
  <2>4. CASE Notes!BootstrapArrives
    BY <2>4 DEF Notes!BootstrapArrives, Notes!page
  <2>5. QED
    BY <2>1, <2>2, <2>3, <2>4
<1>2. mounted' = FALSE \/ UNCHANGED <<mounted, timer>>
  <2>1. Notes!Close => mounted' = FALSE
    BY DEF Notes!Close
  <2>2. Notes!Collect => UNCHANGED <<mounted, timer>>
    BY DEF Notes!Collect, Notes!page
  <2>3. Notes!BootstrapRead => UNCHANGED <<mounted, timer>>
    BY DEF Notes!BootstrapRead, Notes!page
  <2>4. Notes!BootstrapArrives => UNCHANGED <<mounted, timer>>
    BY DEF Notes!BootstrapArrives, Notes!page
  <2>5. QED
    BY <2>1, <2>2, <2>3, <2>4
<1>3. cached' \in Notes!Snapshot \cup {None} /\ incoming' \in Notes!Snapshot \cup {None}
  <2>1. /\ Notes!Now \in Notes!Snapshot /\ cached \in Notes!Snapshot \cup {None}
        /\ incoming \in Notes!Snapshot \cup {None}
    BY DEF NotesInv, NotesTyped, SettingsTyped, Notes!Now, Notes!Snapshot
  <2>2. CASE Notes!Close
    BY <2>1, <2>2 DEF Notes!Close
  <2>3. CASE Notes!Collect
    BY <2>1, <2>3 DEF Notes!Collect
  <2>4. CASE Notes!BootstrapRead
    BY <2>1, <2>4 DEF Notes!BootstrapRead
  <2>5. CASE Notes!BootstrapArrives
    BY <2>1, <2>5 DEF Notes!BootstrapArrives
  <2>6. QED
    BY <2>2, <2>3, <2>4, <2>5
<1>4. NotesTyped' /\ SettingsTyped'
  <2>1. CASE mounted' = FALSE
    BY <1>1, <1>3, <2>1 DEF NotesInv, NotesTyped, SettingsTyped
  <2>2. CASE UNCHANGED <<mounted, timer>>
    BY <1>1, <1>3, <2>2 DEF NotesInv, NotesTyped, SettingsTyped
  <2>3. QED
    BY <1>2, <2>1, <2>2
<1>5. HighlightsFit'
  BY <1>1, <1>2 DEF NotesInv, HighlightsFit, NoteFits, DoneCalls, Lonely
<1>6. SettingFits'
  BY <1>1, <1>2 DEF NotesInv, SettingFits
<1>7. QED
  BY <1>4, <1>5, <1>6 DEF NotesInv

\* What concerns the highlights leaves the settings alone.
LEMMA HighlightStep ==
  ASSUME NotesInv,
         \/ \E text \in Notes!Texts : Notes!CommitHighlight(text)
         \/ \E id \in Notes!Ids : Notes!RemoveHighlight(id)
                \/ \E text \in Notes!Texts : Notes!SaveHighlightNote(id, text)
  PROVE  NotesInv'
<1>1. \E kind \in {"create", "note", "delete"}, id \in Notes!Ids, text \in Notes!Texts :
        /\ Notes!Call(kind, id, text)
        /\ kind = "create" => shownNotes[id] = None /\ \A c \in calls : c.id # id
        /\ kind # "create" => shownNotes[id] # None
  <2>1. CASE \E text \in Notes!Texts : Notes!CommitHighlight(text)
    BY <2>1 DEF Notes!CommitHighlight
  <2>2. CASE \E id \in Notes!Ids : Notes!RemoveHighlight(id)
    <3>1. PICK id \in Notes!Ids : shownNotes[id] # None /\ Notes!Call("delete", id, "")
      BY <2>2 DEF Notes!RemoveHighlight
    <3>2. "" \in Notes!Texts
      BY DEF Notes!Texts
    <3>3. QED
      BY <3>1, <3>2
  <2>3. CASE \E id \in Notes!Ids, text \in Notes!Texts : Notes!SaveHighlightNote(id, text)
    BY <2>3 DEF Notes!SaveHighlightNote
  <2>4. QED
    BY <2>1, <2>2, <2>3
<1>2. PICK kind \in {"create", "note", "delete"}, id \in Notes!Ids, text \in Notes!Texts :
        /\ Notes!Call(kind, id, text)
        /\ kind = "create" => shownNotes[id] = None /\ \A c \in calls : c.id # id
        /\ kind # "create" => shownNotes[id] # None
  BY <1>1
<1>3. calls' \subseteq Notes!Calls /\ HighlightsFit'
  <2>1. mounted /\ mounts \in 1..MaxOpens
    BY <1>2, PositionAssumption DEF Notes!Call, NotesInv, NotesTyped
  <2>2. QED
    BY <1>2, <2>1, CallStep DEF NotesInv
<1>4. UNCHANGED <<noted, saved, Notes!page, cached, incoming, timer, puts, stray>>
  BY <1>2 DEF Notes!Call
<1>5. QED
  BY <1>3, <1>4 DEF Notes!page, NotesInv, NotesTyped, SettingsTyped, SettingFits

LEMMA AnswerStep ==
  ASSUME NotesInv, NEW call \in calls, Notes!Serve(call) \/ Notes!Answered(call) \/ Notes!Lost(call)
  PROVE  NotesInv'
<1>1. UNCHANGED <<saved, mounted, mounts, setting, cached, incoming, timer, puts, stray>>
  BY DEF Notes!Serve, Notes!Answered, Notes!Lost, Notes!page
<1>2. SettingsTyped' /\ SettingFits'
  BY <1>1 DEF NotesInv, SettingsTyped, SettingFits
<1>3. CASE Notes!Serve(call)
  <2>1. calls' \subseteq Notes!Calls /\ noted' \in Notes!Notes /\ HighlightsFit'
    BY <1>3, ServeStep DEF NotesInv
  <2>2. QED
    BY <1>1, <1>2, <1>3, <2>1 DEF NotesInv, NotesTyped, Notes!Serve, Notes!page
<1>4. CASE Notes!Answered(call)
  <2>1. shownNotes' \in Notes!Notes /\ HighlightsFit'
    BY <1>4, NotesAnsweredStep DEF NotesInv
  <2>2. QED
    BY <1>1, <1>2, <1>4, <2>1 DEF NotesInv, NotesTyped, Notes!Answered
<1>5. CASE Notes!Lost(call)
  <2>1. HighlightsFit'
    BY <1>5, NotesLostStep DEF NotesInv
  <2>2. QED
    BY <1>1, <1>2, <1>5, <2>1 DEF NotesInv, NotesTyped, Notes!Lost, Notes!page
<1>6. QED
  BY <1>3, <1>4, <1>5

(***************************************************************************)
(* Settings                                                                *)
(***************************************************************************)
\* The settings that are sent are served: the rest stays in order.
LEMMA FirstPut ==
  ASSUME SettingsTyped, NEW i \in DOMAIN puts
  PROVE  /\ Notes!RemoveAt(puts, i) \in Seq(Notes!Settings) /\ puts[i] \in Notes!Settings
         /\ i = 1 => /\ Notes!RemoveAt(puts, i) = <<>> => puts[Len(puts)] = puts[1]
                     /\ Notes!RemoveAt(puts, i) # <<>> =>
                          Notes!RemoveAt(puts, i)[Len(Notes!RemoveAt(puts, i))] = puts[Len(puts)]
<1> DEFINE before == SubSeq(puts, 1, i - 1)
           after  == SubSeq(puts, i + 1, Len(puts))
<1>1. Len(puts) \in Nat /\ i \in 1..Len(puts) /\ puts \in Seq(Notes!Settings)
  BY LenProperties DEF SettingsTyped
<1>2. /\ before \in Seq(Notes!Settings) /\ Len(before) = IF 1 <= i - 1 THEN i - 1 ELSE 0
  BY <1>1, SubSeqProperties
<1>3. /\ after \in Seq(Notes!Settings) /\ Len(after) = IF i + 1 <= Len(puts) THEN Len(puts) - (i + 1) + 1 ELSE 0
      /\ \A k \in 1..Len(puts) - (i + 1) + 1 : after[k] = puts[i + 1 + k - 1]
  BY <1>1, SubSeqProperties
<1>4. Notes!RemoveAt(puts, i) = before \o after
  BY DEF Notes!RemoveAt
<1> HIDE DEF before, after
<1>5. Notes!RemoveAt(puts, i) \in Seq(Notes!Settings) /\ puts[i] \in Notes!Settings
  BY <1>1, <1>2, <1>3, <1>4, ConcatProperties
<1>6. ASSUME i = 1 PROVE Notes!RemoveAt(puts, i) = after
  <2>1. before = <<>>
    BY <1>1, <1>2, <1>6, EmptySeq
  <2>2. QED
    BY <1>3, <1>4, <2>1, ConcatEmptySeq
<1>7. ASSUME i = 1 PROVE after = <<>> => puts[Len(puts)] = puts[1]
  <2>1. after = <<>> => Len(after) = 0
    BY <1>3, EmptySeq
  <2>2. QED
    BY <1>1, <1>3, <1>7, <2>1
<1>8. ASSUME i = 1, after # <<>> PROVE after[Len(after)] = puts[Len(puts)]
  <2>1. Len(after) # 0
    BY <1>3, <1>8, EmptySeq
  <2>2. QED
    BY <1>1, <1>3, <1>8, <2>1
<1>9. QED
  BY <1>5, <1>6, <1>7, <1>8

LEMMA SettingsStep ==
  ASSUME NotesInv, (\E to \in Notes!Settings : Notes!Change(to)) \/ Notes!PutReadingSettings
             \/ \E i \in DOMAIN puts : Notes!Put(i)
  PROVE  NotesInv'
<1>1. UNCHANGED <<noted, mounted, mounts, shownNotes, cached, incoming, calls, astray>>
  BY DEF Notes!Change, Notes!PutReadingSettings, Notes!Put, Notes!page
<1>2. NotesTyped' /\ HighlightsFit'
  BY <1>1, HighlightsRest DEF NotesInv, NotesTyped, highlights
<1>3. SettingsTyped /\ SettingFits
  BY DEF NotesInv
<1>4. ASSUME NEW to \in Notes!Settings, Notes!Change(to) PROVE SettingsTyped' /\ SettingFits'
  BY <1>3, <1>4 DEF Notes!Change, SettingsTyped, SettingFits
<1>5. CASE Notes!PutReadingSettings
  <2>1. /\ puts' \in Seq(Notes!Settings) /\ Len(puts') = Len(puts) + 1
        /\ puts'[Len(puts) + 1] = setting
    BY <1>3, <1>5, AppendProperties DEF Notes!PutReadingSettings, SettingsTyped
  <2>2. puts' # <<>>
    BY <1>3, <2>1, LenProperties, EmptySeq DEF SettingsTyped
  <2>3. UNCHANGED <<mounted, setting, saved, stray>>
    BY <1>5 DEF Notes!PutReadingSettings, Notes!page
  <2>4. SettingFits'
    BY <2>1, <2>2, <2>3 DEF SettingFits
  <2>5. QED
    BY <1>2, <1>3, <2>1, <2>3, <2>4 DEF SettingsTyped, NotesInv
<1>6. ASSUME NEW i \in DOMAIN puts, Notes!Put(i) PROVE SettingsTyped' /\ SettingFits'
  <2>1. puts' = Notes!RemoveAt(puts, i) /\ UNCHANGED <<mounted, setting, timer>>
    BY <1>6 DEF Notes!Put, Notes!page
  <2>2. puts # <<>>
    BY <1>3, LenProperties, EmptySeq DEF SettingsTyped
  <2>3. SettingsTyped'
    BY <1>3, <1>6, <2>1, FirstPut DEF Notes!Put, SettingsTyped
  <2>4. ASSUME ~stray', mounted, ~timer
        PROVE  setting = IF puts' = <<>> THEN saved' ELSE puts'[Len(puts')]
    <3>1. i = 1 /\ ~stray /\ saved' = puts[1]
      BY <1>6, <2>4 DEF Notes!Put
    <3>2. setting = puts[Len(puts)]
      BY <1>3, <2>2, <2>4, <3>1 DEF SettingFits
    <3>3. QED
      BY <1>3, <2>1, <3>1, <3>2, FirstPut
  <2>5. QED
    BY <2>1, <2>3, <2>4 DEF SettingFits
<1>7. QED
  BY <1>2, <1>4, <1>5, <1>6 DEF NotesInv

LEMMA NotesStep == ASSUME NotesInv, Notes!Next PROVE NotesInv'
<1>1. NotesTyped /\ SettingsTyped
  BY DEF NotesInv
<1>2. QED
  BY <1>1, NotesOpenStep, NotesPageStep, HighlightStep, AnswerStep, SettingsStep DEF Notes!Next

LEMMA NotesRest == ASSUME NotesInv, UNCHANGED Notes!vars PROVE NotesInv'
<1>1. UNCHANGED <<noted, saved, cached, incoming, mounted, mounts, shownNotes, setting, calls, timer, puts,
                  astray, stray>>
  BY DEF Notes!vars, Notes!page
<1>2. QED
  BY <1>1, HighlightsRest DEF NotesInv, NotesTyped, SettingsTyped, SettingFits, highlights

NotesHold == On("notes") => NotesInv

LEMMA NotesStart == Init => NotesHold
BY NotesInvInit DEF Init, On, NotesHold

LEMMA NotesGoOn == ASSUME NotesHold, [Next]_vars PROVE NotesHold'
<1>1. CASE ~On("notes")
  BY <1>1 DEF On, NotesHold, Next, vars
<1>2. ASSUME On("notes"), Notes!Next PROVE NotesInv'
  BY <1>2, NotesStep DEF NotesHold
<1>3. ASSUME On("notes"), UNCHANGED notes PROVE NotesInv'
  <2>1. UNCHANGED Notes!vars
    BY <1>3 DEF notes, Notes!vars, Notes!page
  <2>2. QED
    BY <1>3, <2>1, NotesRest DEF NotesHold
<1>4. CASE On("notes")
  <2>1. Notes!Next \/ UNCHANGED notes
    BY <1>4 DEF Next, vars, On
  <2>2. QED
    BY <1>2, <1>3, <1>4, <2>1 DEF NotesHold
<1>5. QED
  BY <1>1, <1>4

\* However answers race, are lost or find the page closed: content that was shown is replaced only
\* by newer content, a node the page takes for read is read, and when no call is under way, the
\* highlights and settings of the page are the server's.
THEOREM PageIsNotBehind == Spec => PageFollowsServer
<1>1. ContentHolds => (On("content") => Content!MarkedIsStored)
  BY DEF ContentHolds, ContentInv
<1>2. NotesHold => (On("notes") => Notes!CopiesAgree)
  BY NotesAgree DEF NotesHold
<1>3. Spec => []ContentHolds /\ [][On("content") => Content!Advances]_content
  BY ContentStarts, ContentGoesOn, PTL DEF Spec
<1>4. Spec => []NotesHold
  BY NotesStart, NotesGoOn, PTL DEF Spec
<1>5. QED
  BY <1>1, <1>2, <1>3, <1>4, PTL DEF PageFollowsServer

(***************************************************************************)
(* ReadingActivity                                                         *)
(***************************************************************************)

\* What a tracker says of its time has been.
Sane(t) ==
  /\ t \in Activity!Tracker
  /\ t.lastTick # Never => t.lastTick <= now
  /\ t.open => /\ t.from \in Nat /\ t.lastCredited \in Nat
               /\ t.from <= t.lastCredited /\ t.lastCredited <= now

Sent == flight \cup recorded

\* Slices follow each other in the order of their numbers.
Chained(slices) ==
  /\ \A s \in slices : s \in Activity!Slice /\ s.from <= s.to /\ s.to <= now
  /\ \A s, r \in slices : /\ s.sequence = r.sequence => s = r
                          /\ s.sequence < r.sequence => s.to <= r.from

Behind(t, slices) == \A s \in slices : s.sequence <= t.sequence /\ (t.open => s.to <= t.from)

ActivityInv ==
  /\ now \in Nat /\ credited \in Nat /\ Sane(tracker)
  /\ Chained(Sent) /\ Behind(tracker, Sent)
  /\ session \in Activity!Session /\ daily \in Activity!Daily /\ total \in Nat
  /\ Activity!EachMomentCountedOnce

LEMMA SameMoments == ASSUME NEW S PROVE Activity!Cardinality(S) = Cardinality(S)
BY DEF Activity!Cardinality, Cardinality

LEMMA ActivityUnits ==
  /\ IdleThreshold \in Nat /\ MaxTick \in Nat \ {0} /\ MaxSpan \in Nat
  /\ Midnight \in Nat /\ MaxTime \in Nat /\ Never \notin Nat
BY ActivityAssumption

(***************************************************************************)
(* The tracker                                                             *)
(***************************************************************************)
LEMMA OpenedSane ==
  ASSUME now \in Nat, NEW t, Sane(t)
  PROVE  /\ Sane(Activity!Opened(t)) /\ Activity!Opened(t).open
         /\ Activity!Opened(t).sequence = t.sequence
         /\ (t.open /\ Activity!Opened(t).from = t.from) \/ Activity!Opened(t).from = now
<1>1. CASE t.open
  BY <1>1 DEF Activity!Opened
<1>2. CASE ~t.open
  <2>1. t \in Activity!Tracker
    BY DEF Sane
  <2>2. Activity!Opened(t) = [t EXCEPT !.open = TRUE, !.from = now, !.lastCredited = now,
                              !.effective = 0, !.lastTick = now]
    BY <1>2 DEF Activity!Opened
  <2>3. Activity!Opened(t) \in Activity!Tracker
    <3>1. now \in Activity!Times /\ 0 \in Nat /\ TRUE \in BOOLEAN
      BY DEF Activity!Times
    <3>2. QED
      BY <2>1, <2>2, <3>1 DEF Activity!Tracker
  <2>4. /\ Activity!Opened(t).lastTick = now /\ Activity!Opened(t).from = now
        /\ Activity!Opened(t).lastCredited = now
        /\ Activity!Opened(t).sequence = t.sequence
    BY <2>1, <2>2 DEF Activity!Tracker
  <2>5. Activity!Opened(t).open
    BY <2>1, <2>2 DEF Activity!Tracker
  <2>6. Sane(Activity!Opened(t))
    BY <2>3, <2>4 DEF Sane
  <2>7. QED
    BY <2>4, <2>5, <2>6
<1>3. QED
  BY <1>1, <1>2

LEMMA ElapsedTyped == ASSUME now \in Nat, NEW t, Sane(t) PROVE Activity!Elapsed(t) \in Nat
<1>1. t.lastTick \in Nat \cup {Never}
  BY DEF Sane, Activity!Tracker, Activity!Times
<1>2. CASE t.lastTick = Never
  BY <1>2 DEF Activity!Elapsed
<1>3. CASE t.lastTick # Never
  BY <1>1, <1>3, ActivityUnits DEF Activity!Elapsed, Sane, Activity!Lower
<1>4. QED
  BY <1>2, <1>3

LEMMA TickedSane ==
  ASSUME now \in Nat, NEW t, Sane(t)
  PROVE  /\ Sane(Activity!Ticked(t)) /\ Activity!Ticked(t).sequence = t.sequence
         /\ Activity!Ticked(t).open => (t.open /\ Activity!Ticked(t).from = t.from)
                \/ Activity!Ticked(t).from = now
         /\ Activity!Credit(t) \in Nat
<1> DEFINE o == Activity!Opened(t)
<1>1. /\ Sane(o) /\ o.open /\ o.sequence = t.sequence
      /\ (t.open /\ o.from = t.from) \/ o.from = now
      /\ Activity!Elapsed(o) \in Nat
  BY OpenedSane, ElapsedTyped
<1> HIDE DEF o
<1>2. CASE Activity!IsActive(t)
  <2> DEFINE e == [o EXCEPT !.lastTick = now, !.lastCredited = now, !.effective = @ + Activity!Elapsed(o)]
  <2>1. Activity!Ticked(t) = e /\ Activity!Credit(t) = Activity!Elapsed(o)
    BY <1>2 DEF Activity!Ticked, Activity!Credit, o
  <2>2. o.effective + Activity!Elapsed(o) \in Nat
    BY <1>1 DEF Sane, Activity!Tracker
  <2>3. e \in Activity!Tracker /\ e.lastTick = now /\ e.lastCredited = now /\ e.from = o.from
            /\ e.open = o.open
        /\ e.sequence = o.sequence
    BY <1>1, <2>2 DEF Sane, Activity!Tracker, Activity!Times
  <2>4. e.from \in Nat /\ e.from <= now
    BY <1>1, <2>3 DEF Sane
  <2>5. Sane(e)
    BY <2>3, <2>4 DEF Sane
  <2>6. QED
    BY <1>1, <2>1, <2>3, <2>5
<1>3. CASE ~Activity!IsActive(t)
  <2> DEFINE e == [t EXCEPT !.lastTick = now]
  <2>1. Activity!Ticked(t) = e /\ Activity!Credit(t) = 0
    BY <1>3 DEF Activity!Ticked, Activity!Credit
  <2>2. e \in Activity!Tracker /\ e.lastTick = now /\ e.open = t.open /\ e.from = t.from
        /\ e.lastCredited = t.lastCredited /\ e.sequence = t.sequence
    BY DEF Sane, Activity!Tracker, Activity!Times
  <2>3. Sane(e)
    BY <2>2 DEF Sane
  <2>4. QED
    BY <2>1, <2>2, <2>3
<1>4. QED
  BY <1>2, <1>3

LEMMA SlicedSane ==
  ASSUME now \in Nat, NEW t, Sane(t)
  PROVE  /\ Sane(Activity!Sliced(t)) /\ Activity!Sliced(t).open = t.open
         /\ Activity!HasSlice(t) => /\ Activity!SliceOf(t) \in Activity!Slice
                                    /\ Activity!SliceOf(t).sequence = t.sequence + 1
                                    /\ Activity!SliceOf(t).from = t.from
                                    /\ Activity!SliceOf(t).to = t.lastCredited
                                    /\ Activity!Sliced(t).sequence = t.sequence + 1
                                    /\ Activity!Sliced(t).from = t.lastCredited
         /\ ~Activity!HasSlice(t) => Activity!Sliced(t) = t
<1>1. CASE Activity!HasSlice(t)
  <2> DEFINE e == [t EXCEPT !.sequence = @ + 1, !.from = t.lastCredited, !.effective = 0]
  <2>1. Activity!Sliced(t) = e /\ t.open
    BY <1>1 DEF Activity!Sliced, Activity!HasSlice
  <2>2. t.sequence + 1 \in Nat /\ t.from \in Nat /\ t.lastCredited \in Nat /\ t.from <= t.lastCredited
        /\ t.lastCredited <= now
    BY <2>1 DEF Sane, Activity!Tracker
  <2>3. e \in Activity!Tracker /\ e.sequence = t.sequence + 1 /\ e.from = t.lastCredited
            /\ e.open = t.open
        /\ e.lastCredited = t.lastCredited /\ e.lastTick = t.lastTick
    BY <2>2 DEF Sane, Activity!Tracker, Activity!Times
  <2>4. Sane(e)
    BY <2>2, <2>3 DEF Sane
  <2>5. Activity!SliceOf(t) = [sequence |-> t.sequence + 1, from |-> t.from, to |-> t.lastCredited]
    BY DEF Activity!SliceOf
  <2>6. Activity!SliceOf(t) \in Activity!Slice /\ Activity!SliceOf(t).sequence = t.sequence + 1
        /\ Activity!SliceOf(t).from = t.from /\ Activity!SliceOf(t).to = t.lastCredited
    BY <2>2, <2>5 DEF Activity!Slice
  <2>7. QED
    BY <1>1, <2>1, <2>3, <2>4, <2>6
<1>2. CASE ~Activity!HasSlice(t)
  BY <1>2 DEF Activity!Sliced
<1>3. QED
  BY <1>1, <1>2

LEMMA EndedSane ==
  ASSUME NEW t, Sane(t)
  PROVE  /\ Sane(Activity!Ended(t)) /\ ~Activity!Ended(t).open
         /\ Activity!Ended(t).sequence = t.sequence
         /\ Sane([Activity!Ended(t) EXCEPT !.wasActive = FALSE])
         /\ ~[Activity!Ended(t) EXCEPT !.wasActive = FALSE].open
         /\ [Activity!Ended(t) EXCEPT !.wasActive = FALSE].sequence = t.sequence
BY DEF Activity!Ended, Sane, Activity!Tracker, Activity!Times

\* The slice that is sent goes on where the former ones have ended.
LEMMA SendChains ==
  ASSUME now \in Nat, Chained(Sent), UNCHANGED <<now, recorded>>, NEW t, Sane(t), Behind(t, Sent),
         Activity!Send(t)
  PROVE  Chained(Sent)' /\ Behind(Activity!Sliced(t), Sent')
<1>1. t \in Activity!Tracker /\ t.sequence \in Nat
  BY DEF Sane, Activity!Tracker
<1>2. CASE ~Activity!HasSlice(t)
  <2>1. Sent' = Sent
    BY <1>2 DEF Activity!Send, Sent
  <2>2. QED
    BY <1>2, <2>1, SlicedSane DEF Chained
<1>3. CASE Activity!HasSlice(t)
  <2> DEFINE new == Activity!SliceOf(t)
  <2>1. Sent' = Sent \cup {new}
    BY <1>3 DEF Activity!Send, Sent
  <2>2. /\ new \in Activity!Slice /\ new.sequence = t.sequence + 1 /\ new.from = t.from
        /\ new.to = t.lastCredited
        /\ Activity!Sliced(t).sequence = t.sequence + 1 /\ Activity!Sliced(t).from = t.lastCredited
        /\ t.open
    BY <1>3, SlicedSane DEF Activity!HasSlice
  <2>3. new.from \in Nat /\ new.to \in Nat /\ new.from <= new.to /\ new.to <= now
    BY <2>2 DEF Sane
  <2> HIDE DEF new
  <2>4. \A s \in Sent : /\ s.sequence \in Nat /\ s.to \in Nat /\ s.sequence < new.sequence
                        /\ s.to <= new.from
    BY <1>1, <2>2 DEF Chained, Activity!Slice, Behind
  <2>5. Chained(Sent)'
    <3>1. \A s \in Sent' : (s \in Activity!Slice /\ s.from <= s.to /\ s.to <= now)'
      BY <2>1, <2>2, <2>3 DEF Chained
    <3>2. ASSUME NEW s \in Sent', NEW r \in Sent'
          PROVE  /\ s.sequence = r.sequence => s = r
                 /\ s.sequence < r.sequence => s.to <= r.from
      <4>1. CASE s \in Sent /\ r \in Sent
        BY <4>1 DEF Chained
      <4>2. CASE s \in Sent /\ r = new
        BY <2>2, <2>4, <4>2 DEF Activity!Slice
      <4>3. CASE s = new /\ r \in Sent
        BY <2>2, <2>4, <4>3 DEF Activity!Slice
      <4>4. QED
        BY <2>1, <2>2, <4>1, <4>2, <4>3 DEF Activity!Slice
    <3>3. QED
      BY <3>1, <3>2 DEF Chained
  <2>6. ASSUME NEW s \in Sent' PROVE s.sequence <= t.sequence + 1 /\ s.to <= t.lastCredited
    <3>1. CASE s \in Sent
      BY <1>1, <2>2, <2>3, <2>4, <3>1
    <3>2. CASE s = new
      BY <1>1, <2>2, <2>3, <3>2
    <3>3. QED
      BY <2>1, <3>1, <3>2
  <2>7. QED
    BY <2>2, <2>5, <2>6 DEF Behind
<1>4. QED
  BY <1>2, <1>3

\* A tracker that opens again does so now.
LEMMA StillBehind ==
  ASSUME now \in Nat, Chained(Sent), NEW t, Sane(t), Behind(t, Sent), NEW u, u.sequence = t.sequence,
         u.open => (t.open /\ u.from = t.from) \/ u.from = now
  PROVE  Behind(u, Sent)
BY DEF Chained, Activity!Slice, Behind

(***************************************************************************)
(* The totals                                                              *)
(***************************************************************************)
Within(s, d) == {m \in 1..now : (m <= Midnight) = (d = 1) /\ s.from < m /\ m <= s.to}

LEMMA PortionSize ==
  ASSUME now \in Nat, NEW s \in Activity!Slice, s.from <= s.to, s.to <= now, NEW d \in Activity!Days
  PROVE  /\ IsFiniteSet(Within(s, d)) /\ Cardinality(Within(s, d)) = Activity!Portion(s, d)
         /\ Activity!Portion(s, d) \in Nat
<1>1. s.from \in Nat /\ s.to \in Nat
  BY DEF Activity!Slice
<1>2. CASE d = 1
  <2> DEFINE a == Activity!Lower(s.from, Midnight)  b == Activity!Lower(s.to, Midnight)
  <2>1. a \in Nat /\ b \in Nat /\ a <= b
    BY <1>1, ActivityUnits DEF Activity!Lower
  <2>2. Within(s, d) = a + 1..b
    BY <1>1, <1>2, ActivityUnits DEF Within, Activity!Lower
  <2>3. Activity!Portion(s, d) = b - a
    BY <1>2 DEF Activity!Portion
  <2> HIDE DEF a, b
  <2>4. IsFiniteSet(a + 1..b) /\ Cardinality(a + 1..b) = IF a + 1 > b THEN 0 ELSE b - (a + 1) + 1
    BY <2>1, FS_Interval
  <2>5. QED
    BY <2>1, <2>2, <2>3, <2>4
<1>3. CASE d # 1
  <2> DEFINE a == Activity!Higher(s.from, Midnight)  b == Activity!Higher(s.to, Midnight)
  <2>1. a \in Nat /\ b \in Nat /\ a <= b
    BY <1>1, ActivityUnits DEF Activity!Higher
  <2>2. Within(s, d) = a + 1..b
    BY <1>1, <1>3, ActivityUnits DEF Within, Activity!Higher
  <2>3. Activity!Portion(s, d) = b - a
    BY <1>3 DEF Activity!Portion
  <2> HIDE DEF a, b
  <2>4. IsFiniteSet(a + 1..b) /\ Cardinality(a + 1..b) = IF a + 1 > b THEN 0 ELSE b - (a + 1) + 1
    BY <2>1, FS_Interval
  <2>5. QED
    BY <2>1, <2>2, <2>3, <2>4
<1>4. QED
  BY <1>2, <1>3

LEMMA PortionsMakeSpan ==
  ASSUME NEW s \in Activity!Slice
  PROVE  Activity!Portion(s, 1) + Activity!Portion(s, 2) = Activity!Span(s)
BY ActivityUnits DEF Activity!Portion, Activity!Span, Activity!Slice, Activity!Lower,
   Activity!Higher

LEMMA MomentsFinite == ASSUME now \in Nat, NEW d PROVE IsFiniteSet(Activity!Moments(d))
<1>1. IsFiniteSet(1..now) /\ Activity!Moments(d) \subseteq 1..now
  BY FS_Interval DEF Activity!Moments
<1>2. QED
  BY <1>1, FS_Subset

\* A slice that is new covers moments of its own.
LEMMA NewMoments ==
  ASSUME ActivityInv, NEW s \in flight, \A r \in recorded : r.sequence # s.sequence,
         recorded' = recorded \cup {s}, now' = now, NEW d \in Activity!Days
  PROVE  Cardinality(Activity!Moments(d)') = Cardinality(Activity!Moments(d)) + Activity!Portion(s, d)
<1>1. /\ now \in Nat /\ s \in Activity!Slice /\ s.from <= s.to /\ s.to <= now /\ s \in Sent
      /\ \A r \in recorded : r \in Sent /\ r \in Activity!Slice
      /\ \A r, q \in Sent : r.sequence < q.sequence => r.to <= q.from
  BY DEF ActivityInv, Chained, Sent
<1>2. Activity!Moments(d)' = Activity!Moments(d) \cup Within(s, d)
  BY DEF Activity!Moments, Within
<1>3. Activity!Moments(d) \cap Within(s, d) = {}
  <2> SUFFICES ASSUME NEW m \in 1..now, NEW r \in recorded, r.from < m, m <= r.to, s.from < m, m <= s.to
               PROVE  FALSE
    BY DEF Activity!Moments, Within
  <2>1. /\ r.sequence \in Nat /\ s.sequence \in Nat /\ r.sequence # s.sequence
        /\ r.from \in Nat /\ r.to \in Nat /\ s.from \in Nat /\ s.to \in Nat
    BY <1>1 DEF Activity!Slice
  <2>2. CASE r.sequence < s.sequence
    <3>1. r.to <= s.from
      BY <1>1, <2>2
    <3>2. QED
      BY <1>1, <2>1, <3>1
  <2>3. CASE s.sequence < r.sequence
    <3>1. s.to <= r.from
      BY <1>1, <2>3
    <3>2. QED
      BY <1>1, <2>1, <3>1
  <2>4. QED
    BY <2>1, <2>2, <2>3
<1>4. /\ IsFiniteSet(Activity!Moments(d)) /\ IsFiniteSet(Within(s, d))
      /\ Cardinality(Within(s, d)) = Activity!Portion(s, d)
  BY <1>1, MomentsFinite, PortionSize
<1>5. Cardinality(Activity!Moments(d) \cup Within(s, d)) =
        Cardinality(Activity!Moments(d)) + Cardinality(Within(s, d))
  <2>1. Cardinality(Activity!Moments(d) \cup Within(s, d)) =
          Cardinality(Activity!Moments(d)) + Cardinality(Within(s, d))
            - Cardinality(Activity!Moments(d) \cap Within(s, d))
    BY <1>4, FS_Union
  <2>2. /\ Cardinality(Activity!Moments(d) \cap Within(s, d)) = 0
        /\ Cardinality(Activity!Moments(d)) \in Nat /\ Cardinality(Within(s, d)) \in Nat
    BY <1>3, <1>4, FS_EmptySet, FS_CardinalityType
  <2>3. QED
    BY <2>1, <2>2
<1>6. QED
  BY <1>2, <1>4, <1>5

LEMMA ServerRests ==
  ASSUME ActivityInv, UNCHANGED Activity!Server, now' = now
  PROVE  /\ session' \in Activity!Session /\ daily' \in Activity!Daily /\ total' \in Nat
         /\ Activity!EachMomentCountedOnce'
BY DEF Activity!Server, ActivityInv, Activity!EachMomentCountedOnce, Activity!Moments

LEMMA RecordStep == ASSUME ActivityInv, NEW s \in flight, Activity!RecordSlice(s) PROVE ActivityInv'
<1> DEFINE new == \A r \in recorded : r.sequence # s.sequence
<1>1. /\ flight' \subseteq flight /\ recorded' \in {recorded, recorded \cup {s}}
      /\ UNCHANGED <<now, tracker, credited>>
  BY DEF Activity!RecordSlice, Activity!Server
<1>2. Sent' \subseteq Sent
  BY <1>1 DEF Sent
<1>3. /\ now' \in Nat /\ credited' \in Nat /\ Sane(tracker)' /\ Chained(Sent)'
      /\ Behind(tracker, Sent)'
  BY <1>1, <1>2 DEF ActivityInv, Sane, Chained, Behind
<1>4. s \in Activity!Slice /\ s.from <= s.to /\ s.to <= now /\ now \in Nat
  BY DEF ActivityInv, Chained, Sent
<1>5. CASE Activity!Span(s) > MaxSpan
  <2>1. UNCHANGED Activity!Server
    BY <1>5 DEF Activity!RecordSlice
  <2>2. QED
    BY <1>1, <1>3, <2>1, ServerRests DEF ActivityInv
<1>6. CASE ~(Activity!Span(s) > MaxSpan)
  <2>1. /\ recorded' = IF new THEN recorded \cup {s} ELSE recorded
        /\ session' = [from |-> IF session.from = Never THEN s.from ELSE Activity!Lower(session.from, s.from),
                       to   |-> IF session.to = Never THEN s.to ELSE Activity!Higher(session.to, s.to),
                       effective |-> session.effective + IF new THEN Activity!Span(s) ELSE 0]
        /\ daily' = [d \in Activity!Days |-> daily[d] + IF new THEN Activity!Portion(s, d) ELSE 0]
        /\ total' = total + IF new THEN Activity!Span(s) ELSE 0
    BY <1>6 DEF Activity!RecordSlice
  <2>2. /\ session.from \in Activity!Times /\ session.to \in Activity!Times
        /\ session.effective \in Nat
        /\ daily \in Activity!Daily /\ total \in Nat /\ Activity!EachMomentCountedOnce
    BY DEF ActivityInv, Activity!Session
  <2>3. Activity!Span(s) \in Nat /\ Activity!Portion(s, 1) \in Nat /\ Activity!Portion(s, 2) \in Nat
        /\ Activity!Portion(s, 1) + Activity!Portion(s, 2) = Activity!Span(s)
    <3>1. Activity!Portion(s, 1) \in Nat /\ Activity!Portion(s, 2) \in Nat
      BY <1>4, PortionSize DEF Activity!Days
    <3>2. QED
      BY <3>1, PortionsMakeSpan, <1>4
  <2>4. session' \in Activity!Session /\ session'.effective = session.effective + IF new THEN Activity!Span(s) ELSE 0
    <3>1. session'.effective \in Nat
      BY <2>1, <2>2, <2>3
    <3>2. session'.from \in Activity!Times /\ session'.to \in Activity!Times
      BY <1>4, <2>1, <2>2 DEF Activity!Times, Activity!Lower, Activity!Higher, Activity!Slice
    <3>3. QED
      BY <2>1, <3>1, <3>2 DEF Activity!Session
  <2>5. daily' \in Activity!Daily /\ \A d \in Activity!Days : daily'[d] = daily[d] + IF new THEN Activity!Portion(s, d) ELSE 0
    BY <2>1, <2>2, <2>3 DEF Activity!Daily, Activity!Days
  <2>6. total' \in Nat
    BY <2>1, <2>2, <2>3
  <2>7. total' = daily'[1] + daily'[2] /\ session'.effective = total'
    <3>1. /\ daily[1] \in Nat /\ daily[2] \in Nat /\ total = daily[1] + daily[2]
          /\ session.effective = total
      BY <2>2 DEF Activity!Daily, Activity!Days, Activity!EachMomentCountedOnce
    <3>2. daily'[1] = daily[1] + (IF new THEN Activity!Portion(s, 1) ELSE 0)
          /\ daily'[2] = daily[2] + (IF new THEN Activity!Portion(s, 2) ELSE 0)
      BY <2>5 DEF Activity!Days
    <3>3. QED
      BY <2>1, <2>3, <2>4, <3>1, <3>2
  <2>8. ASSUME NEW d \in Activity!Days PROVE daily'[d] = Cardinality(Activity!Moments(d)')
    <3>1. daily[d] = Cardinality(Activity!Moments(d))
      BY <2>2, SameMoments DEF Activity!EachMomentCountedOnce
    <3>2. CASE new
      <4>1. Cardinality(Activity!Moments(d)') = Cardinality(Activity!Moments(d)) + Activity!Portion(s, d)
        BY <1>1, <2>1, <3>2, NewMoments
      <4>2. QED
        BY <2>5, <3>1, <3>2, <4>1
    <3>3. CASE ~new
      <4>1. Activity!Moments(d)' = Activity!Moments(d)
        BY <1>1, <2>1, <3>3 DEF Activity!Moments
      <4>2. QED
        BY <2>2, <2>5, <3>1, <3>3, <4>1 DEF Activity!Daily
    <3>4. QED
      BY <3>2, <3>3
  <2>9. Activity!EachMomentCountedOnce'
    BY <2>7, <2>8, SameMoments DEF Activity!EachMomentCountedOnce
  <2>10. QED
    BY <1>3, <2>4, <2>5, <2>6, <2>9 DEF ActivityInv
<1>7. QED
  BY <1>5, <1>6

(***************************************************************************)
(* Steps                                                                   *)
(***************************************************************************)
LEMMA PassStep == ASSUME ActivityInv, Activity!Pass PROVE ActivityInv'
<1>1. /\ now' = now + 1 /\ UNCHANGED <<tracker, credited, flight, recorded, session, daily, total>>
      /\ now \in Nat
  BY DEF Activity!Pass, Activity!Server, ActivityInv
<1>2. Sane(tracker)'
  <2>1. tracker \in Activity!Tracker /\ (tracker.lastTick # Never => tracker.lastTick \in Nat)
    BY DEF ActivityInv, Sane, Activity!Tracker, Activity!Times
  <2>2. QED
    BY <1>1, <2>1 DEF ActivityInv, Sane
<1>3. Chained(Sent)' /\ Behind(tracker, Sent)'
  BY <1>1 DEF ActivityInv, Chained, Behind, Sent, Activity!Slice
<1>4. ASSUME NEW d \in Activity!Days PROVE Activity!Moments(d)' = Activity!Moments(d)
  <2>1. \A s \in recorded : s.to \in Nat /\ s.to <= now
    BY DEF ActivityInv, Chained, Sent, Activity!Slice
  <2>2. QED
    BY <1>1, <2>1 DEF Activity!Moments
<1>5. Activity!EachMomentCountedOnce'
  BY <1>1, <1>4 DEF ActivityInv, Activity!EachMomentCountedOnce
<1>6. QED
  BY <1>1, <1>2, <1>3, <1>5 DEF ActivityInv

\* A step of the page: the tracker and the slices under way.
LEMMA ActivityPageStep ==
  ASSUME ActivityInv, UNCHANGED <<now, Activity!Server>>, credited' \in Nat,
         Sane(tracker'), Chained(Sent)', Behind(tracker', Sent')
  PROVE  ActivityInv'
<1>1. Sane(tracker)'
  BY DEF Sane
<1>2. QED
  BY <1>1, ServerRests DEF ActivityInv, Behind

\* The tracker t, after its slice was sent, as it is or ended.
LEMMA SentStep ==
  ASSUME ActivityInv, UNCHANGED <<now, Activity!Server>>, credited' \in Nat, NEW t, Sane(t),
         Behind(t, Sent),
         Activity!Send(t),
         tracker' \in {Activity!Sliced(t), [Activity!Ended(Activity!Sliced(t)) EXCEPT !.wasActive = FALSE]}
  PROVE  ActivityInv'
<1>1. Chained(Sent)' /\ Behind(Activity!Sliced(t), Sent')
  BY SendChains DEF ActivityInv, Activity!Server
<1>2. Sane(Activity!Sliced(t))
  BY SlicedSane DEF ActivityInv
<1>3. Sane(tracker') /\ tracker'.sequence = Activity!Sliced(t).sequence
      /\ (tracker'.open => tracker' = Activity!Sliced(t))
  BY <1>2, EndedSane
<1>4. Behind(tracker', Sent')
  BY <1>1, <1>3 DEF Behind
<1>5. QED
  BY <1>1, <1>3, <1>4, ActivityPageStep

LEMMA ActiveStep == ASSUME ActivityInv, Activity!RecordActivity PROVE ActivityInv'
<1>1. /\ tracker' = [tracker EXCEPT !.lastActivity = now]
      /\ UNCHANGED <<now, credited, flight, recorded, session, daily, total>>
  BY DEF Activity!RecordActivity, Activity!Server
<1>2. Sane(tracker') /\ tracker'.sequence = tracker.sequence /\ tracker'.open = tracker.open
      /\ tracker'.from = tracker.from
  BY <1>1 DEF ActivityInv, Sane, Activity!Tracker, Activity!Times
<1>3. Sent' = Sent /\ Chained(Sent)' /\ Behind(tracker', Sent')
  BY <1>1, <1>2 DEF ActivityInv, Sent, Chained, Behind
<1>4. QED
  BY <1>1, <1>2, <1>3, ActivityPageStep DEF ActivityInv, Activity!Server

LEMMA TickStep == ASSUME ActivityInv, Activity!TickTimer PROVE ActivityInv'
<1> DEFINE t == Activity!Ticked(tracker)
<1>1. now \in Nat /\ credited \in Nat /\ Sane(tracker) /\ Chained(Sent) /\ Behind(tracker, Sent)
  BY DEF ActivityInv
<1>2. /\ Sane(t) /\ t.sequence = tracker.sequence
      /\ t.open => (tracker.open /\ t.from = tracker.from) \/ t.from = now
      /\ Activity!Credit(tracker) \in Nat
  BY <1>1, TickedSane
<1>3. Behind(t, Sent)
  BY <1>1, <1>2, StillBehind
<1>4. credited' \in Nat /\ UNCHANGED <<now, Activity!Server>>
  BY <1>1, <1>2 DEF Activity!TickTimer
<1>5. \/ Activity!Send(t) /\ tracker' = [Activity!Ended(Activity!Sliced(t)) EXCEPT !.wasActive = FALSE]
      \/ UNCHANGED flight /\ tracker' = [t EXCEPT !.wasActive = Activity!IsActive(tracker)]
  BY DEF Activity!TickTimer
<1> HIDE DEF t
<1>6. CASE UNCHANGED flight /\ tracker' = [t EXCEPT !.wasActive = Activity!IsActive(tracker)]
  <2>1. Activity!IsActive(tracker) \in BOOLEAN
    BY <1>1 DEF Activity!IsActive, Sane, Activity!Tracker
  <2>2. /\ Sane(tracker') /\ tracker'.sequence = t.sequence /\ tracker'.open = t.open
        /\ tracker'.from = t.from
    BY <1>2, <1>6, <2>1 DEF Sane, Activity!Tracker
  <2>3. Sent' = Sent /\ now' = now
    BY <1>4, <1>6 DEF Sent, Activity!Server
  <2>4. Chained(Sent)' /\ Behind(tracker', Sent')
    BY <1>1, <1>3, <2>2, <2>3 DEF Chained, Behind
  <2>5. QED
    BY <1>4, <2>2, <2>4, ActivityPageStep
<1>7. QED
  BY <1>2, <1>3, <1>4, <1>5, <1>6, SentStep

LEMMA FlushStep == ASSUME ActivityInv, Activity!Flush PROVE ActivityInv'
BY SentStep DEF Activity!Flush, ActivityInv

LEMMA LeaveStep == ASSUME ActivityInv, NEW v \in BOOLEAN, Activity!Leave(v) PROVE ActivityInv'
<1> DEFINE s == [tracker EXCEPT !.visible = v]
           t == Activity!Ticked(s)
<1>1. now \in Nat /\ credited \in Nat /\ Sane(tracker) /\ Chained(Sent) /\ Behind(tracker, Sent)
  BY DEF ActivityInv
<1>2. Sane(s) /\ s.sequence = tracker.sequence /\ s.open = tracker.open /\ s.from = tracker.from
  BY <1>1 DEF Sane, Activity!Tracker
<1>3. Behind(s, Sent)
  BY <1>1, <1>2 DEF Behind
<1>4. /\ credited' = credited + Activity!Credit(s) /\ Activity!Send(t)
      /\ tracker' = [Activity!Ended(Activity!Sliced(t)) EXCEPT !.wasActive = FALSE]
      /\ UNCHANGED <<now, Activity!Server>>
  BY DEF Activity!Leave
<1> HIDE DEF s
<1>5. /\ Sane(t) /\ t.sequence = s.sequence
      /\ (t.open => (s.open /\ t.from = s.from) \/ t.from = now)
      /\ Activity!Credit(s) \in Nat
  BY <1>1, <1>2, TickedSane
<1> HIDE DEF t
<1>6. Behind(t, Sent)
  BY <1>1, <1>2, <1>3, <1>5, StillBehind
<1>7. credited' \in Nat
  BY <1>1, <1>4, <1>5
<1>8. QED
  BY <1>4, <1>5, <1>6, <1>7, SentStep

LEMMA VisibleStep ==
  ASSUME ActivityInv, Activity!OnVisibility \/ Activity!OnPageHide
  PROVE  ActivityInv'
<1>1. CASE Activity!OnPageHide
  <2>1. tracker.visible \in BOOLEAN
    BY DEF ActivityInv, Sane, Activity!Tracker
  <2>2. QED
    BY <1>1, <2>1, LeaveStep DEF Activity!OnPageHide
<1>2. CASE tracker.visible /\ Activity!Leave(FALSE)
  BY <1>2, LeaveStep
<1>3. CASE /\ tracker' = [tracker EXCEPT !.visible = TRUE]
           /\ UNCHANGED <<now, credited, flight, Activity!Server>>
  <2>1. Sane(tracker') /\ tracker'.sequence = tracker.sequence /\ tracker'.open = tracker.open
        /\ tracker'.from = tracker.from
    BY <1>3 DEF ActivityInv, Sane, Activity!Tracker
  <2>2. Sent' = Sent /\ Chained(Sent)' /\ Behind(tracker', Sent')
    BY <1>3, <2>1 DEF ActivityInv, Sent, Chained, Behind, Activity!Server
  <2>3. QED
    BY <1>3, <2>1, <2>2, ActivityPageStep DEF ActivityInv
<1>4. QED
  BY <1>1, <1>2, <1>3 DEF Activity!OnVisibility

LEMMA LoseStep == ASSUME ActivityInv, NEW s \in flight, Activity!Lose(s) PROVE ActivityInv'
<1>1. Sent' \subseteq Sent /\ UNCHANGED <<now, tracker, credited, Activity!Server>>
  BY DEF Activity!Lose, Sent, Activity!Server
<1>2. Sane(tracker') /\ Chained(Sent)' /\ Behind(tracker', Sent')
  BY <1>1 DEF ActivityInv, Chained, Behind
<1>3. QED
  BY <1>1, <1>2, ActivityPageStep DEF ActivityInv

LEMMA ActivityStep == ASSUME ActivityInv, Activity!Next PROVE ActivityInv'
BY PassStep, ActiveStep, TickStep, FlushStep, VisibleStep, LoseStep, RecordStep DEF Activity!Next

LEMMA ActivityInvInit == Activity!Init => ActivityInv
<1> SUFFICES ASSUME Activity!Init PROVE ActivityInv
  OBVIOUS
<1>1. now = 0 /\ credited = 0 /\ total = 0 /\ flight = {} /\ recorded = {}
      /\ daily = [d \in Activity!Days |-> 0]
      /\ session = [from |-> Never, to |-> Never, effective |-> 0]
  BY DEF Activity!Init
<1>2. Sane(tracker)
  BY <1>1, ActivityUnits DEF Activity!Init, Sane, Activity!Tracker, Activity!Times
<1>3. Chained(Sent) /\ Behind(tracker, Sent)
  BY <1>1 DEF Sent, Chained, Behind
<1>4. session \in Activity!Session /\ daily \in Activity!Daily
  BY <1>1 DEF Activity!Session, Activity!Daily, Activity!Times
<1>5. Activity!EachMomentCountedOnce
  <2>1. \A d \in Activity!Days : Activity!Moments(d) = {}
    BY <1>1 DEF Activity!Moments
  <2>2. QED
    BY <1>1, <2>1, FS_EmptySet, SameMoments DEF Activity!EachMomentCountedOnce, Activity!Days
<1>6. QED
  BY <1>1, <1>2, <1>3, <1>4, <1>5 DEF ActivityInv

LEMMA ActivityRests == ASSUME ActivityInv, UNCHANGED Activity!vars PROVE ActivityInv'
<1>1. UNCHANGED <<now, tracker, credited, flight, recorded, session, daily, total>>
  BY DEF Activity!vars
<1>2. Sent' = Sent /\ Sane(tracker') /\ Chained(Sent)' /\ Behind(tracker', Sent')
  BY <1>1 DEF ActivityInv, Sent, Chained, Behind
<1>3. QED
  BY <1>1, <1>2, ActivityPageStep DEF ActivityInv, Activity!Server

ActivityHolds == On("activity") => ActivityInv

LEMMA ActivityStarts == Init => ActivityHolds
BY ActivityInvInit DEF Init, On, ActivityHolds

LEMMA ActivityGoesOn == ASSUME ActivityHolds, [Next]_vars PROVE ActivityHolds'
<1>1. CASE ~On("activity")
  BY <1>1 DEF On, ActivityHolds, Next, vars
<1>2. ASSUME On("activity"), Activity!Next PROVE ActivityInv'
  BY <1>2, ActivityStep DEF ActivityHolds
<1>3. ASSUME On("activity"), UNCHANGED activity PROVE ActivityInv'
  <2>1. UNCHANGED Activity!vars
    BY <1>3 DEF activity, Activity!vars
  <2>2. QED
    BY <1>3, <2>1, ActivityRests DEF ActivityHolds
<1>4. CASE On("activity")
  <2>1. Activity!Next \/ UNCHANGED activity
    BY <1>4 DEF Next, vars, On
  <2>2. QED
    BY <1>2, <1>3, <1>4, <2>1 DEF ActivityHolds
<1>5. QED
  BY <1>1, <1>4

\* However late, repeated or lost the slices of a page arrive, the time of a session, a day and a
\* book is the number of moments that the recorded slices cover: each counts once.
THEOREM MomentsCountOnce == Spec => []EachMomentCountedOnce
<1>1. ActivityHolds => EachMomentCountedOnce
  BY DEF ActivityHolds, ActivityInv, EachMomentCountedOnce
<1>2. Spec => []ActivityHolds
  BY ActivityStarts, ActivityGoesOn, PTL DEF Spec
<1>3. QED
  BY <1>1, <1>2, PTL

(***************************************************************************)
(* ReaderPosition                                                          *)
(***************************************************************************)

\* What the server and the reports on their way tell of the position.
Known == reports \cup ({stored} \ {None})

\* The place of the newest of them.
Place(known) == IF known = {} THEN 0 ELSE (CHOOSE r \in known : \A q \in known : q.at <= r.at).place

OwnTimes ==
  /\ \A r \in Known : r.at \in Nat /\ r.at <= clock
  /\ \A r, q \in Known : r.at = q.at => r = q

Layout == view.scroll <= Position!Reach(view.loaded)

\* The choice is what is shown, or what a jump glides to; while the page is closed or restores a
\* position it is the newest that is known.
ChoiceIsHeld ==
  \/ excused
  \/ view.open /\ view.phase # "restoring" /\ (Position!Shown(view) \in chosen \/ view.glide # None)
  \/ (~view.open \/ view.phase = "restoring") /\ Place(Known) \in chosen

TargetIsChosen == excused \/ ~view.open \/ view.phase # "restoring" \/ view.target \in chosen

OneChoice == excused \/ Known # {} \/ \E p \in Position!Places : chosen = {p}

PositionInv == Position!TypeOK /\ OwnTimes /\ Layout /\ ChoiceIsHeld /\ TargetIsChosen /\ OneChoice

(***************************************************************************)
(* The view                                                                *)
(***************************************************************************)
\* All that the invariant says of a view, but whether it is open.
Alike(v, w) ==
  /\ v.phase = w.phase /\ v.target = w.target /\ v.scroll = w.scroll
  /\ v.loaded = w.loaded /\ v.glide = w.glide

LEMMA ViewOpenSet ==
  ASSUME NEW v \in Position!View
  PROVE  /\ [v EXCEPT !.open = TRUE] \in Position!View /\ [v EXCEPT !.open = TRUE].open
         /\ Alike([v EXCEPT !.open = TRUE], v)
BY DEF Position!View, Alike

LEMMA ViewPhaseSet ==
  ASSUME NEW v \in Position!View, NEW x, x \in Position!Phases
  PROVE  /\ [v EXCEPT !.phase = x] \in Position!View /\ ([v EXCEPT !.phase = x].open <=> v.open)
         /\ [v EXCEPT !.phase = x].phase = x
         /\ [v EXCEPT !.phase = x].target = v.target
         /\ [v EXCEPT !.phase = x].scroll = v.scroll
         /\ [v EXCEPT !.phase = x].loaded = v.loaded
         /\ [v EXCEPT !.phase = x].glide = v.glide
BY DEF Position!View

LEMMA ViewTargetSet ==
  ASSUME NEW v \in Position!View, NEW x, x \in Position!Places
  PROVE  /\ [v EXCEPT !.target = x] \in Position!View /\ ([v EXCEPT !.target = x].open <=> v.open)
         /\ [v EXCEPT !.target = x].phase = v.phase
         /\ [v EXCEPT !.target = x].target = x
         /\ [v EXCEPT !.target = x].scroll = v.scroll
         /\ [v EXCEPT !.target = x].loaded = v.loaded
         /\ [v EXCEPT !.target = x].glide = v.glide
BY DEF Position!View

LEMMA ViewScrollSet ==
  ASSUME NEW v \in Position!View, NEW x, x \in Nat
  PROVE  /\ [v EXCEPT !.scroll = x] \in Position!View /\ ([v EXCEPT !.scroll = x].open <=> v.open)
         /\ [v EXCEPT !.scroll = x].phase = v.phase
         /\ [v EXCEPT !.scroll = x].target = v.target
         /\ [v EXCEPT !.scroll = x].scroll = x
         /\ [v EXCEPT !.scroll = x].loaded = v.loaded
         /\ [v EXCEPT !.scroll = x].glide = v.glide
BY DEF Position!View

LEMMA ViewLoadedSet ==
  ASSUME NEW v \in Position!View, NEW x, x \in SUBSET Position!Assets
  PROVE  /\ [v EXCEPT !.loaded = x] \in Position!View /\ ([v EXCEPT !.loaded = x].open <=> v.open)
         /\ [v EXCEPT !.loaded = x].phase = v.phase
         /\ [v EXCEPT !.loaded = x].target = v.target
         /\ [v EXCEPT !.loaded = x].scroll = v.scroll
         /\ [v EXCEPT !.loaded = x].loaded = x
         /\ [v EXCEPT !.loaded = x].glide = v.glide
BY DEF Position!View

LEMMA ViewWroteSet ==
  ASSUME NEW v \in Position!View, NEW x, x \in Nat \cup {None}
  PROVE  /\ [v EXCEPT !.wrote = x] \in Position!View /\ ([v EXCEPT !.wrote = x].open <=> v.open)
         /\ Alike([v EXCEPT !.wrote = x], v)
BY DEF Position!View, Alike

LEMMA ViewScrolledSet ==
  ASSUME NEW v \in Position!View, NEW x, x \in BOOLEAN
  PROVE  /\ [v EXCEPT !.scrolled = x] \in Position!View
         /\ ([v EXCEPT !.scrolled = x].open <=> v.open)
         /\ Alike([v EXCEPT !.scrolled = x], v)
BY DEF Position!View, Alike

LEMMA ViewGlideSet ==
  ASSUME NEW v \in Position!View, NEW x, x \in Nat \cup {None}
  PROVE  /\ [v EXCEPT !.glide = x] \in Position!View /\ ([v EXCEPT !.glide = x].open <=> v.open)
         /\ [v EXCEPT !.glide = x].phase = v.phase
         /\ [v EXCEPT !.glide = x].target = v.target
         /\ [v EXCEPT !.glide = x].scroll = v.scroll
         /\ [v EXCEPT !.glide = x].loaded = v.loaded
         /\ [v EXCEPT !.glide = x].glide = x
BY DEF Position!View

LEMMA ViewTimerSet ==
  ASSUME NEW v \in Position!View, NEW x, x \in BOOLEAN
  PROVE  /\ [v EXCEPT !.timer = x] \in Position!View /\ ([v EXCEPT !.timer = x].open <=> v.open)
         /\ Alike([v EXCEPT !.timer = x], v)
BY DEF Position!View, Alike

LEMMA ViewWarmSet ==
  ASSUME NEW v \in Position!View, NEW x, x \in BOOLEAN
  PROVE  /\ [v EXCEPT !.warm = x] \in Position!View /\ ([v EXCEPT !.warm = x].open <=> v.open)
         /\ Alike([v EXCEPT !.warm = x], v)
BY DEF Position!View, Alike

LEMMA ViewStillSet ==
  ASSUME NEW v \in Position!View, NEW x, x \in 0..2
  PROVE  /\ [v EXCEPT !.still = x] \in Position!View /\ ([v EXCEPT !.still = x].open <=> v.open)
         /\ Alike([v EXCEPT !.still = x], v)
BY DEF Position!View, Alike

LEMMA ViewReadySet ==
  ASSUME NEW v \in Position!View, NEW x, x \in BOOLEAN
  PROVE  /\ [v EXCEPT !.ready = x] \in Position!View /\ ([v EXCEPT !.ready = x].open <=> v.open)
         /\ Alike([v EXCEPT !.ready = x], v)
BY DEF Position!View, Alike

LEMMA Numbers ==
  /\ LastPlace \in Nat /\ LastPlace > 1 /\ MaxReports \in Nat /\ Position!Places \subseteq Nat
  /\ 0 \in Position!Places /\ None \notin Nat
BY PositionAssumption, PageAssumption DEF Position!Places

LEMMA PositionIsNotNone == None \notin Position!Position
BY PositionAssumption DEF Position!Position, Position!Places

LEMMA LeastNumber == ASSUME NEW T \in SUBSET Nat, T # {} PROVE \E x \in T : \A y \in T : x <= y
<1>1. PICK x \in T : \A y \in T : <<y, x>> \notin OpToRel(<, Nat)
  BY WFMin, NatLessThanWellFounded, Zenon
<1>2. \A y \in T : ~(y < x)
  BY <1>1, Zenon DEF OpToRel
<1>3. QED
  BY <1>2

\* A set of numbers that has a bound has a greatest one.
LEMMA GreatestNumber ==
  ASSUME NEW n \in Nat, NEW T \in SUBSET (0..n), T # {}
  PROVE  \E x \in T : \A y \in T : y <= x
<1> DEFINE D == {d \in 0..n : n - d \in T}
<1>1. D \in SUBSET Nat /\ D # {}
  <2>1. PICK y \in T : TRUE
    OBVIOUS
  <2>2. n - y \in 0..n /\ n - (n - y) = y
    OBVIOUS
  <2>3. n - y \in D
    BY <2>2
  <2>4. D \in SUBSET Nat
    OBVIOUS
  <2>5. QED
    BY <2>3, <2>4
<1>2. PICK d \in D : \A e \in D : d <= e
  BY <1>1, LeastNumber
<1>3. n - d \in T
  OBVIOUS
<1>4. ASSUME NEW y \in T PROVE y <= n - d
  <2>1. n - y \in 0..n /\ n - (n - y) = y
    OBVIOUS
  <2>2. n - y \in D
    BY <2>1
  <2>3. d <= n - y
    BY <1>2, <2>2
  <2>4. d \in 0..n
    OBVIOUS
  <2>5. QED
    BY <2>1, <2>3, <2>4
<1>5. QED
  BY <1>3, <1>4

LEMMA SameHeights == ASSUME NEW S PROVE Position!Cardinality(S) = Cardinality(S)
BY DEF Position!Cardinality, Cardinality

(***************************************************************************)
(* The layout                                                              *)
(***************************************************************************)
LEMMA TopIs ==
  ASSUME NEW loaded \in SUBSET Position!Assets, NEW p \in Nat
  PROVE  Position!Top(loaded, p) = p + (IF "image" \in loaded /\ 2 <= p THEN 1 ELSE 0)
                            + (IF "guide" \in loaded /\ 1 <= p THEN 1 ELSE 0)
<1> DEFINE above == {a \in loaded : Position!Before[a] <= p}
           image == "image" \in loaded /\ 2 <= p
           guide == "guide" \in loaded /\ 1 <= p
<1>1. above = (IF image THEN {"image"} ELSE {}) \cup (IF guide THEN {"guide"} ELSE {})
  <2>1. Position!Before["image"] = 2 /\ Position!Before["guide"] = 1
    BY DEF Position!Before
  <2>2. \A a \in loaded : a = "image" \/ a = "guide"
    BY DEF Position!Assets
  <2>3. "image" # "guide"
    OBVIOUS
  <2>4. ASSUME NEW a PROVE a \in above <=> (a = "image" /\ image) \/ (a = "guide" /\ guide)
    BY <2>1, <2>2, <2>3
  <2> HIDE DEF above, image, guide
  <2>5. QED
    BY <2>4
<1>2. Position!Top(loaded, p) = p + Cardinality(above)
  BY SameHeights DEF Position!Top
<1>3. /\ Cardinality({}) = 0 /\ Cardinality({"image"}) = 1 /\ Cardinality({"guide"}) = 1
      /\ IsFiniteSet({"image"})
  BY FS_EmptySet, FS_Singleton
<1>4. Cardinality({"image"} \cup {"guide"}) = 2
  BY <1>3, FS_AddElement
<1> HIDE DEF image, guide, above
<1>5. Cardinality(above) = (IF image THEN 1 ELSE 0) + (IF guide THEN 1 ELSE 0)
  <2>1. CASE image /\ guide
    BY <1>1, <1>4, <2>1
  <2>2. CASE image /\ ~guide
    <3>1. above = {"image"}
      BY <1>1, <2>2
    <3>2. QED
      BY <1>3, <2>2, <3>1
  <2>3. CASE ~image /\ guide
    <3>1. above = {"guide"}
      BY <1>1, <2>3
    <3>2. QED
      BY <1>3, <2>3, <3>1
  <2>4. CASE ~image /\ ~guide
    <3>1. above = {}
      BY <1>1, <2>4
    <3>2. QED
      BY <1>3, <2>4, <3>1
  <2>5. QED
    BY <2>1, <2>2, <2>3, <2>4
<1>6. Position!Top(loaded, p) = p + (IF image THEN 1 ELSE 0) + (IF guide THEN 1 ELSE 0)
  BY <1>2, <1>5
<1>7. QED
  BY <1>6 DEF image, guide

LEMMA TopGrows ==
  ASSUME NEW loaded \in SUBSET Position!Assets, NEW p \in Nat, NEW q \in Nat
  PROVE  /\ Position!Top(loaded, p) \in Nat /\ Position!Top(loaded, 0) = 0
         /\ p <= Position!Top(loaded, p)
         /\ p < q => Position!Top(loaded, p) < Position!Top(loaded, q)
<1>1. Position!Top(loaded, p) = p + (IF "image" \in loaded /\ 2 <= p THEN 1 ELSE 0)
                                  + (IF "guide" \in loaded /\ 1 <= p THEN 1 ELSE 0)
  BY TopIs
<1>2. Position!Top(loaded, q) = q + (IF "image" \in loaded /\ 2 <= q THEN 1 ELSE 0)
                                  + (IF "guide" \in loaded /\ 1 <= q THEN 1 ELSE 0)
  BY TopIs
<1>3. Position!Top(loaded, 0) = 0
  <2>1. Position!Top(loaded, 0) = 0 + (IF "image" \in loaded /\ 2 <= 0 THEN 1 ELSE 0)
                                    + (IF "guide" \in loaded /\ 1 <= 0 THEN 1 ELSE 0)
    BY TopIs
  <2>2. QED
    BY <2>1
<1>4. QED
  BY <1>1, <1>2, <1>3

LEMMA ReachIs ==
  ASSUME NEW loaded \in SUBSET Position!Assets
  PROVE  /\ Position!Reach(loaded) \in Nat
         /\ Position!Reach(loaded) = LastPlace - 1
              + (IF "image" \in loaded THEN 1 ELSE 0) + (IF "guide" \in loaded THEN 1 ELSE 0)
<1>1. /\ LastPlace \in Nat /\ 2 <= LastPlace /\ 1 <= LastPlace
      /\ Position!Top(loaded, LastPlace) = LastPlace
                                           + (IF "image" \in loaded /\ 2 <= LastPlace THEN 1 ELSE 0)
                                           + (IF "guide" \in loaded /\ 1 <= LastPlace THEN 1 ELSE 0)
  BY TopIs, Numbers
<1> DEFINE i == IF "image" \in loaded THEN 1 ELSE 0
           g == IF "guide" \in loaded THEN 1 ELSE 0
<1>2. Position!Top(loaded, LastPlace) = LastPlace + i + g /\ i \in 0..1 /\ g \in 0..1
  BY <1>1
<1> HIDE DEF i, g
<1>3. Position!Reach(loaded) \in Nat /\ Position!Reach(loaded) = LastPlace - 1 + i + g
  BY <1>1, <1>2 DEF Position!Reach, Position!Window
<1>4. QED
  BY <1>3 DEF i, g

LEMMA PlaceAtIs ==
  ASSUME NEW loaded \in SUBSET Position!Assets, NEW s \in Nat
  PROVE  /\ Position!PlaceAt(loaded, s) \in Position!Places
         /\ Position!Top(loaded, Position!PlaceAt(loaded, s)) <= s
         /\ \A q \in Position!Places : Position!Top(loaded, q) <= s => q <= Position!PlaceAt(loaded, s)
         /\ \A p \in Position!Places :
              /\ Position!Top(loaded, p) <= s
              /\ \A q \in Position!Places : Position!Top(loaded, q) <= s => q <= p
              => Position!PlaceAt(loaded, s) = p
<1> DEFINE T == {p \in Position!Places : Position!Top(loaded, p) <= s}
<1>1. T \in SUBSET (0..LastPlace) /\ 0 \in T
  BY TopGrows, Numbers DEF Position!Places
<1>2. Position!PlaceAt(loaded, s) = CHOOSE x \in T : \A y \in T : x >= y
  BY DEF Position!PlaceAt, Position!Max
<1>3. \E x \in T : \A y \in T : x >= y
  <2>1. PICK x \in T : \A y \in T : y <= x
    BY <1>1, Numbers, GreatestNumber
  <2>2. \A y \in T : x >= y
    BY <1>1, <2>1, Numbers DEF Position!Places
  <2>3. QED
    BY <2>2
<1>4. Position!PlaceAt(loaded, s) \in T /\ \A y \in T : Position!PlaceAt(loaded, s) >= y
  BY <1>2, <1>3
<1>5. \A q \in Position!Places : Position!Top(loaded, q) <= s => q <= Position!PlaceAt(loaded, s)
  BY <1>4, Numbers
<1>6. ASSUME NEW p \in Position!Places, Position!Top(loaded, p) <= s,
             \A q \in Position!Places : Position!Top(loaded, q) <= s => q <= p
      PROVE  Position!PlaceAt(loaded, s) = p
  <2>1. p <= Position!PlaceAt(loaded, s) /\ Position!PlaceAt(loaded, s) <= p
    BY <1>4, <1>5, <1>6
  <2>2. p \in Nat /\ Position!PlaceAt(loaded, s) \in Nat
    BY <1>4, Numbers
  <2>3. QED
    BY <2>1, <2>2
<1>7. QED
  BY <1>4, <1>5, <1>6

\* The place whose top is at the anchor line is the one at the anchor line.
LEMMA TopIsShown ==
  ASSUME NEW loaded \in SUBSET Position!Assets, NEW p \in Position!Places
  PROVE  Position!PlaceAt(loaded, Position!Top(loaded, p)) = p /\ Position!PlaceAt(loaded, 0) = 0
<1>1. ASSUME NEW q \in Position!Places, Position!Top(loaded, q) <= Position!Top(loaded, p) PROVE q <= p
  <2>1. p \in Nat /\ q \in Nat
    BY Numbers
  <2>2. /\ Position!Top(loaded, p) \in Nat /\ Position!Top(loaded, q) \in Nat
        /\ (p < q => Position!Top(loaded, p) < Position!Top(loaded, q))
    BY <2>1, TopGrows
  <2>3. QED
    BY <1>1, <2>1, <2>2
<1>2. ASSUME NEW q \in Position!Places, Position!Top(loaded, q) <= 0 PROVE q <= 0
  <2>1. q \in Nat /\ Position!Top(loaded, q) \in Nat /\ q <= Position!Top(loaded, q)
    BY Numbers, TopGrows
  <2>2. QED
    BY <1>2, <2>1
<1>3. /\ Position!Top(loaded, p) \in Nat /\ Position!Top(loaded, p) <= Position!Top(loaded, p)
      /\ Position!Top(loaded, 0) <= 0
  BY TopGrows, Numbers
<1>4. QED
  BY <1>1, <1>2, <1>3, PlaceAtIs, Numbers

\* A guide that gets its height moves what is below it by one, which the page compensates.
LEMMA GuideMoves ==
  ASSUME NEW loaded \in SUBSET Position!Assets, "guide" \notin loaded,
         NEW s \in Nat, s <= Position!Reach(loaded)
  PROVE  LET more  == loaded \cup {"guide"}
             p     == Position!PlaceAt(loaded, s)
             delta == Position!Top(more, p) - Position!Top(loaded, p) IN
         /\ more \in SUBSET Position!Assets /\ delta \in Nat /\ s + delta \in Nat
         /\ s + delta <= Position!Reach(more) /\ Position!PlaceAt(more, s + delta) = p
         /\ s <= Position!Reach(more)
<1> DEFINE more  == loaded \cup {"guide"}
           p     == Position!PlaceAt(loaded, s)
           delta == Position!Top(more, p) - Position!Top(loaded, p)
<1>1. more \in SUBSET Position!Assets
  BY DEF Position!Assets
<1>2. p \in Position!Places /\ Position!Top(loaded, p) <= s
          /\ \A q \in Position!Places : Position!Top(loaded, q) <= s => q <= p
  BY PlaceAtIs
<1>3. \A q \in Nat : Position!Top(more, q) = Position!Top(loaded, q) + (IF 1 <= q THEN 1 ELSE 0)
          /\ Position!Top(loaded, q) \in Nat
  <2> SUFFICES ASSUME NEW q \in Nat
    PROVE  Position!Top(more, q) = Position!Top(loaded, q) + (IF 1 <= q THEN 1 ELSE 0)
               /\ Position!Top(loaded, q) \in Nat
    OBVIOUS
  <2>1. "guide" \in more /\ ("image" \in more <=> "image" \in loaded)
    OBVIOUS
  <2> HIDE DEF more
  <2> DEFINE i == IF "image" \in loaded /\ 2 <= q THEN 1 ELSE 0
  <2>2. Position!Top(more, q) = q + i + (IF 1 <= q THEN 1 ELSE 0)
    BY <1>1, <2>1, TopIs
  <2>3. Position!Top(loaded, q) = q + i + 0
    BY TopIs
  <2>4. i \in Nat
    OBVIOUS
  <2> HIDE DEF i
  <2>5. QED
    BY <2>2, <2>3, <2>4
<1>4. Position!Reach(more) = Position!Reach(loaded) + 1 /\ Position!Reach(loaded) \in Nat
  <2>1. LastPlace \in Nat /\ 1 <= LastPlace
    BY Numbers
  <2> HIDE DEF more
  <2>2. /\ Position!Top(more, LastPlace) = Position!Top(loaded, LastPlace) + 1
        /\ Position!Top(loaded, LastPlace) \in Nat
    BY <1>3, <2>1
  <2>3. Position!Reach(loaded) \in Nat
    BY ReachIs
  <2>4. QED
    BY <2>2, <2>3 DEF Position!Reach, Position!Window
<1> HIDE DEF more, p
<1>5. delta = (IF 1 <= p THEN 1 ELSE 0) /\ p \in Nat /\ Position!Top(more, p) \in Nat
  BY <1>2, <1>3, Numbers
<1>6. Position!Top(more, p) <= s + delta
  BY <1>2, <1>3, <1>5
<1>7. ASSUME NEW q \in Position!Places, Position!Top(more, q) <= s + delta PROVE q <= p
  <2>1. /\ q \in Nat /\ Position!Top(loaded, q) \in Nat
        /\ Position!Top(more, q) = Position!Top(loaded, q) + (IF 1 <= q THEN 1 ELSE 0)
    BY <1>3, Numbers
  <2>2. CASE 1 <= q
    BY <1>2, <1>5, <1>7, <2>1, <2>2
  <2>3. CASE q = 0
    BY <1>5, <2>3
  <2>4. QED
    BY <2>1, <2>2, <2>3
<1>8. s + delta \in Nat /\ s + delta <= Position!Reach(more) /\ s <= Position!Reach(more)
  BY <1>4, <1>5
<1>9. Position!PlaceAt(more, s + delta) = p
  <2> HIDE DEF delta
  <2>1. QED
    BY <1>1, <1>2, <1>6, <1>7, <1>8, PlaceAtIs
<1>10. QED
  BY <1>1, <1>5, <1>8, <1>9 DEF more, p

LEMMA ImageMoves ==
  ASSUME NEW loaded \in SUBSET Position!Assets, NEW s \in Nat, s <= Position!Reach(loaded)
  PROVE  /\ loaded \cup {"image"} \in SUBSET Position!Assets
         /\ s <= Position!Reach(loaded \cup {"image"})
<1> DEFINE more == loaded \cup {"image"}
<1>1. /\ more \in SUBSET Position!Assets /\ "image" \in more
      /\ ("guide" \in more <=> "guide" \in loaded)
  BY DEF Position!Assets
<1> HIDE DEF more
<1>2. /\ Position!Reach(loaded) <= Position!Reach(more) /\ Position!Reach(loaded) \in Nat
      /\ Position!Reach(more) \in Nat
  BY <1>1, ReachIs, Numbers
<1>3. QED
  BY <1>1, <1>2 DEF more

LEMMA ClampedIs ==
  ASSUME NEW loaded \in SUBSET Position!Assets, NEW s \in Nat
  PROVE  /\ Position!Clamped(loaded, s) \in Nat
         /\ Position!Clamped(loaded, s) <= Position!Reach(loaded)
         /\ s <= Position!Reach(loaded) => Position!Clamped(loaded, s) = s
BY ReachIs DEF Position!Clamped

(***************************************************************************)
(* What the page does to its view                                          *)
(***************************************************************************)
LEMMA ViewTypes ==
  ASSUME NEW v \in Position!View
  PROVE  /\ v.open \in BOOLEAN /\ v.phase \in Position!Phases /\ v.target \in Position!Places
         /\ v.scroll \in Nat
         /\ v.loaded \in SUBSET Position!Assets /\ v.glide \in Nat \cup {None}
         /\ Position!Shown(v) \in Position!Places
BY PlaceAtIs DEF Position!View, Position!Shown

LEMMA AlikeShow ==
  ASSUME NEW v, NEW w, Alike(v, w)
  PROVE  /\ v.phase = w.phase /\ v.target = w.target /\ v.scroll = w.scroll
         /\ v.loaded = w.loaded /\ v.glide = w.glide /\ Position!Shown(v) = Position!Shown(w)
BY DEF Alike, Position!Shown

LEMMA WrittenIs ==
  ASSUME NEW v \in Position!View, NEW s \in Nat
  PROVE  /\ Position!Written(v, s) \in Position!View /\ (Position!Written(v, s).open <=> v.open)
         /\ Position!Written(v, s).phase = v.phase /\ Position!Written(v, s).target = v.target
         /\ Position!Written(v, s).loaded = v.loaded /\ Position!Written(v, s).glide = None
         /\ Position!Written(v, s).scroll = Position!Clamped(v.loaded, s)
<1> DEFINE c  == Position!Clamped(v.loaded, s)
           b  == v.scrolled \/ c # v.scroll
           v1 == [v EXCEPT !.scroll = c]
           v2 == [v1 EXCEPT !.wrote = c]
           v3 == [v2 EXCEPT !.glide = None]
           v4 == [v3 EXCEPT !.scrolled = b]
<1>1. c \in Nat /\ b \in BOOLEAN
  BY ClampedIs, ViewTypes DEF Position!View
<1>2. Position!Written(v, s) = v4
  BY DEF Position!Written
<1> HIDE DEF c, b
<1>3. /\ v1 \in Position!View /\ (v1.open <=> v.open) /\ v1.phase = v.phase /\ v1.target = v.target
      /\ v1.loaded = v.loaded /\ v1.scroll = c
  BY <1>1, ViewScrollSet
<1> HIDE DEF v1
<1>4. v2 \in Position!View /\ (v2.open <=> v.open) /\ Alike(v2, v1)
  BY <1>1, <1>3, ViewWroteSet
<1> HIDE DEF v2
<1>5. /\ v3 \in Position!View /\ (v3.open <=> v.open) /\ v3.phase = v.phase /\ v3.target = v.target
      /\ v3.loaded = v.loaded /\ v3.scroll = c /\ v3.glide = None
  BY <1>3, <1>4, AlikeShow, ViewGlideSet
<1> HIDE DEF v3
<1>6. v4 \in Position!View /\ (v4.open <=> v.open) /\ Alike(v4, v3)
  BY <1>1, <1>5, ViewScrolledSet
<1> HIDE DEF v4
<1>7. QED
  BY <1>2, <1>5, <1>6, AlikeShow DEF c

\* A frame puts the target to the anchor line, if the text goes on so far.
LEMMA CorrectedIs ==
  ASSUME NEW v \in Position!View, v.scroll <= Position!Reach(v.loaded)
  PROVE  /\ Position!Corrected(v) \in Position!View /\ (Position!Corrected(v).open <=> v.open)
         /\ Position!Corrected(v).phase = v.phase /\ Position!Corrected(v).target = v.target
         /\ Position!Corrected(v).loaded = v.loaded
         /\ Position!Corrected(v).scroll <= Position!Reach(v.loaded)
         /\ Position!Top(v.loaded, v.target) <= Position!Reach(v.loaded) =>
                Position!Corrected(v).scroll = Position!Top(v.loaded, v.target)
<1> DEFINE s == Position!Top(v.loaded, v.target)
           w == Position!Written(v, s)
           n == IF v.still < 2 THEN v.still + 1 ELSE v.still
<1>1. s \in Nat /\ v.loaded \in SUBSET Position!Assets
  BY ViewTypes, Numbers, TopGrows
<1>2. CASE s # v.scroll
  <2>1. Position!Corrected(v) = [w EXCEPT !.still = 0]
    BY <1>2 DEF Position!Corrected
  <2>2. /\ w \in Position!View /\ (w.open <=> v.open) /\ w.phase = v.phase /\ w.target = v.target
        /\ w.loaded = v.loaded /\ w.scroll = Position!Clamped(v.loaded, s)
    BY <1>1, WrittenIs
  <2> HIDE DEF w
  <2>3. /\ Position!Corrected(v) \in Position!View /\ (Position!Corrected(v).open <=> w.open)
        /\ Alike(Position!Corrected(v), w)
    BY <2>1, <2>2, ViewStillSet
  <2>4. QED
    BY <1>1, <2>2, <2>3, AlikeShow, ClampedIs
<1>3. CASE s = v.scroll
  <2>1. Position!Corrected(v) = [v EXCEPT !.still = n]
    BY <1>3 DEF Position!Corrected
  <2>2. n \in 0..2
    BY DEF Position!View
  <2> HIDE DEF n
  <2>3. /\ Position!Corrected(v) \in Position!View /\ (Position!Corrected(v).open <=> v.open)
        /\ Alike(Position!Corrected(v), v)
    BY <2>1, <2>2, ViewStillSet
  <2>4. QED
    BY <1>3, <2>3, AlikeShow
<1>4. QED
  BY <1>2, <1>3

LEMMA StoppedIs ==
  ASSUME NEW v \in Position!View, NEW phase \in Position!Phases
  PROVE  /\ Position!Stopped(v, phase) \in Position!View
         /\ (Position!Stopped(v, phase).open <=> v.open)
         /\ Position!Stopped(v, phase).phase = phase /\ Position!Stopped(v, phase).scroll = v.scroll
         /\ Position!Stopped(v, phase).loaded = v.loaded
         /\ Position!Stopped(v, phase).glide = v.glide
<1> DEFINE v1 == [v EXCEPT !.phase = phase]
           v2 == [v1 EXCEPT !.target = 0]
           v3 == [v2 EXCEPT !.still = 0]
           v4 == [v3 EXCEPT !.ready = FALSE]
<1>1. Position!Stopped(v, phase) = v4
  BY DEF Position!Stopped
<1>2. /\ v1 \in Position!View /\ (v1.open <=> v.open) /\ v1.phase = phase /\ v1.scroll = v.scroll
      /\ v1.loaded = v.loaded /\ v1.glide = v.glide
  BY ViewPhaseSet
<1> HIDE DEF v1
<1>3. /\ v2 \in Position!View /\ (v2.open <=> v.open) /\ v2.phase = phase /\ v2.scroll = v.scroll
      /\ v2.loaded = v.loaded /\ v2.glide = v.glide
  BY <1>2, Numbers, ViewTargetSet
<1> HIDE DEF v2
<1>4. v3 \in Position!View /\ (v3.open <=> v2.open) /\ Alike(v3, v2)
  BY <1>3, ViewStillSet
<1> HIDE DEF v3
<1>5. v4 \in Position!View /\ (v4.open <=> v3.open) /\ Alike(v4, v3)
  BY <1>4, ViewReadySet
<1> HIDE DEF v4
<1>6. QED
  BY <1>1, <1>3, <1>4, <1>5, AlikeShow

LEMMA CancelledIs ==
  ASSUME NEW v \in Position!View
  PROVE  /\ Position!Cancelled(v) \in Position!View /\ (Position!Cancelled(v).open <=> v.open)
         /\ Position!Cancelled(v).phase # "restoring" /\ Position!Cancelled(v).scroll = v.scroll
         /\ Position!Cancelled(v).loaded = v.loaded /\ Position!Cancelled(v).glide = v.glide
BY StoppedIs DEF Position!Cancelled, Position!Phases

LEMMA ClosedIs ==
  /\ Position!Closed \in Position!View /\ ~Position!Closed.open /\ Position!Closed.phase = "normal"
  /\ Position!Closed.scroll = 0 /\ Position!Closed.loaded = {}
BY Numbers DEF Position!Closed, Position!View, Position!Phases

\* An opened page shows the begin of the text, or restores the position it has.
LEMMA StartedIs ==
  ASSUME NEW v \in Position!View, v.phase = "normal", v.scroll = 0, v.open,
         NEW resume \in Position!Position \cup {None}
  PROVE  /\ Position!Started(v, resume) \in Position!View /\ Position!Started(v, resume).open
         /\ Position!Started(v, resume).scroll <= Position!Reach(Position!Started(v, resume).loaded)
         /\ resume = None => Position!Started(v, resume).phase = "normal"
                /\ Position!Shown(Position!Started(v, resume)) = 0
         /\ resume # None => Position!Started(v, resume).phase = "restoring"
                /\ Position!Started(v, resume).target = resume.place
<1>1. /\ v.loaded \in SUBSET Position!Assets /\ Position!Reach(v.loaded) \in Nat
      /\ 0 <= Position!Reach(v.loaded)
  BY ViewTypes, ReachIs
<1>2. CASE resume = None
  <2>1. Position!Started(v, resume) = v
    BY <1>2 DEF Position!Started
  <2>2. QED
    BY <1>1, <1>2, <2>1, TopIsShown, Numbers DEF Position!Shown
<1>3. CASE resume # None
  <2> DEFINE v1 == [v EXCEPT !.phase = "restoring"]
             v2 == [v1 EXCEPT !.target = resume.place]
             v3 == Position!Corrected(v2)
             v4 == [v3 EXCEPT !.still = 0]
  <2>1. Position!Started(v, resume) = v4
    BY <1>3 DEF Position!Started
  <2>2. resume.place \in Position!Places
    BY <1>3 DEF Position!Position
  <2>3. /\ v1 \in Position!View /\ v1.open /\ v1.phase = "restoring" /\ v1.scroll = 0
        /\ v1.loaded = v.loaded
    BY ViewPhaseSet DEF Position!Phases
  <2> HIDE DEF v1
  <2>4. /\ v2 \in Position!View /\ v2.open /\ v2.phase = "restoring" /\ v2.scroll = 0
        /\ v2.loaded = v.loaded /\ v2.target = resume.place
    BY <2>2, <2>3, ViewTargetSet
  <2> HIDE DEF v2
  <2>5. /\ v3 \in Position!View /\ v3.open /\ v3.phase = "restoring" /\ v3.target = resume.place
        /\ v3.scroll <= Position!Reach(v3.loaded)
    BY <1>1, <2>4, CorrectedIs
  <2> HIDE DEF v3
  <2>6. v4 \in Position!View /\ (v4.open <=> v3.open) /\ Alike(v4, v3)
    BY <2>5, ViewStillSet
  <2> HIDE DEF v4
  <2>7. QED
    BY <1>3, <2>1, <2>5, <2>6, AlikeShow
<1>4. QED
  BY <1>2, <1>3

LEMMA CompensatedIs ==
  ASSUME NEW v \in Position!View, v.scroll <= Position!Reach(v.loaded), "guide" \notin v.loaded
  PROVE  LET w == Position!Compensated(v, v.loaded \cup {"guide"}) IN
         /\ w \in Position!View /\ (w.open <=> v.open) /\ w.phase = v.phase /\ w.target = v.target
         /\ w.scroll <= Position!Reach(w.loaded)
         /\ v.phase # "restoring" => Position!Shown(w) = Position!Shown(v)
<1> DEFINE more  == v.loaded \cup {"guide"}
           p     == Position!PlaceAt(v.loaded, v.scroll)
           delta == Position!Top(more, p) - Position!Top(v.loaded, p)
           w1    == [v EXCEPT !.loaded = more]
           w     == Position!Compensated(v, more)
<1>1. v.loaded \in SUBSET Position!Assets /\ v.scroll \in Nat
  BY ViewTypes
<1>2. /\ more \in SUBSET Position!Assets /\ delta \in Nat /\ v.scroll + delta \in Nat
      /\ v.scroll + delta <= Position!Reach(more) /\ Position!PlaceAt(more, v.scroll + delta) = p
      /\ v.scroll <= Position!Reach(more)
  BY <1>1, GuideMoves
<1>3. w = IF v.phase = "restoring" \/ delta = 0 THEN w1 ELSE Position!Written(w1, v.scroll + delta)
  BY DEF Position!Compensated, Position!Shown
<1> HIDE DEF more, delta, w
<1>4. /\ w1 \in Position!View /\ (w1.open <=> v.open) /\ w1.phase = v.phase /\ w1.target = v.target
      /\ w1.scroll = v.scroll /\ w1.loaded = more
  BY <1>2, ViewLoadedSet
<1> HIDE DEF w1
<1>5. CASE v.phase = "restoring" \/ delta = 0
  <2>1. w = w1
    BY <1>3, <1>5
  <2>2. delta = 0 => v.scroll + delta = v.scroll
    BY <1>1
  <2>3. delta = 0 => Position!Shown(w1) = p
    BY <1>2, <1>4, <2>2 DEF Position!Shown
  <2>4. QED
    BY <1>2, <1>4, <1>5, <2>1, <2>3 DEF w, more, Position!Shown
<1>6. CASE ~(v.phase = "restoring" \/ delta = 0)
  <2>1. w = Position!Written(w1, v.scroll + delta)
    BY <1>3, <1>6
  <2>2. /\ w \in Position!View /\ (w.open <=> v.open) /\ w.phase = v.phase /\ w.target = v.target
        /\ w.loaded = more /\ w.scroll = Position!Clamped(more, v.scroll + delta)
    BY <1>2, <1>4, <2>1, WrittenIs
  <2>3. w.scroll = v.scroll + delta
    BY <1>2, <2>2, ClampedIs
  <2>4. Position!Shown(w) = Position!Shown(v)
    BY <1>2, <2>2, <2>3 DEF Position!Shown
  <2>5. QED
    BY <1>2, <2>2, <2>3, <2>4 DEF w, more
<1>7. QED
  BY <1>5, <1>6

(***************************************************************************)
(* What is known                                                           *)
(***************************************************************************)
LEMMA PlaceOf ==
  ASSUME NEW K, \A r \in K : r.at \in Nat, \A r, q \in K : r.at = q.at => r = q,
         NEW m \in K, \A q \in K : q.at <= m.at
  PROVE  Place(K) = m.place
<1> DEFINE c == CHOOSE r \in K : \A q \in K : q.at <= r.at
<1>1. c \in K /\ \A q \in K : q.at <= c.at
  OBVIOUS
<1> HIDE DEF c
<1>2. c.at <= m.at /\ m.at <= c.at /\ c.at \in Nat /\ m.at \in Nat
  BY <1>1
<1>3. c = m
  BY <1>1, <1>2
<1>4. QED
  BY <1>3 DEF Place, c

LEMMA Latest ==
  ASSUME NEW n \in Nat, NEW K, K # {}, \A r \in K : r.at \in 0..n
  PROVE  \E m \in K : \A q \in K : q.at <= m.at
<1> DEFINE T == {r.at : r \in K}
<1>1. T \in SUBSET (0..n) /\ T # {}
  OBVIOUS
<1>2. PICK x \in T : \A y \in T : y <= x
  BY <1>1, GreatestNumber
<1>3. PICK m \in K : m.at = x
  OBVIOUS
<1>4. QED
  BY <1>2, <1>3

\* Two sets that know the same latest position.
LEMMA PlaceStays ==
  ASSUME NEW n \in Nat, NEW K, NEW L,
         \A r \in K : r.at \in 0..n, \A r, q \in K : r.at = q.at => r = q,
         \A r \in L : r.at \in 0..n, \A r, q \in L : r.at = q.at => r = q,
         \A r \in L : \E q \in K : q.at = r.at,
         \A m \in K : (\A q \in K : q.at <= m.at) => \E r \in L : r.at = m.at /\ r.place = m.place
  PROVE  Place(K) = Place(L)
<1>1. CASE K = {}
  <2>1. L = {}
    BY <1>1
  <2>2. QED
    BY <1>1, <2>1
<1>2. CASE K # {}
  <2>1. PICK m \in K : \A q \in K : q.at <= m.at
    BY <1>2, Latest
  <2>2. PICK r \in L : r.at = m.at /\ r.place = m.place
    BY <2>1
  <2>3. \A q \in L : q.at <= r.at
    BY <2>1, <2>2
  <2>4. (\A q \in K : q.at \in Nat) /\ (\A q \in L : q.at \in Nat)
    OBVIOUS
  <2>5. Place(K) = m.place
    BY <2>1, <2>4, PlaceOf
  <2>6. Place(L) = r.place
    BY <2>2, <2>3, <2>4, PlaceOf
  <2>7. QED
    BY <2>2, <2>5, <2>6
<1>3. QED
  BY <1>1, <1>2

LEMMA NewestIs == Position!Newest = Place(Known)
BY DEF Position!Newest, Place, Known

LEMMA PositionTypes ==
  ASSUME PositionInv
  PROVE  /\ stored \in Position!Position \cup {None} /\ reports \in SUBSET Position!Report
         /\ answers \in SUBSET Position!Position
         /\ cache \in [there: BOOLEAN, resume: Position!Position \cup {None}]
         /\ cache.resume \in Position!Position \cup {None}
         /\ view \in Position!View /\ clock \in 0..MaxReports /\ clock \in Nat
         /\ chosen \in (SUBSET Position!Places) \ {{}} /\ excused \in BOOLEAN
         /\ \A r \in Known : r.at \in 0..clock
         /\ \A r, q \in Known : r.at = q.at => r = q
         /\ view.scroll <= Position!Reach(view.loaded)
<1>1. Position!TypeOK /\ OwnTimes /\ Layout
  BY DEF PositionInv
<1>2. clock \in Nat /\ \A r \in Known : r.at \in 0..clock
  BY <1>1, Numbers DEF Position!TypeOK, OwnTimes
<1>3. QED
  BY <1>1, <1>2 DEF Position!TypeOK, OwnTimes, Layout

\* What the page shows is reported: it is the newest that is known.
LEMMA ObservedIs ==
  ASSUME PositionInv, UNCHANGED stored, NEW p \in Position!Places, NEW beacon \in BOOLEAN,
         Position!Observe(p, beacon)
  PROVE  /\ reports' \in SUBSET Position!Report /\ clock' \in 0..MaxReports /\ OwnTimes'
         /\ Known' # {} /\ Place(Known') = p
<1> DEFINE r == [place |-> p, at |-> clock + 1, beacon |-> beacon]
<1>1. clock < MaxReports /\ clock' = clock + 1 /\ reports' = reports \cup {r}
  BY DEF Position!Observe, Position!CanReport
<1>2. clock \in Nat /\ clock' \in 0..MaxReports /\ clock + 1 \in 1..MaxReports /\ clock' \in Nat
  BY <1>1, PositionTypes, Numbers
<1>3. r \in Position!Report /\ r.at = clock + 1 /\ r.place = p
  BY <1>2 DEF Position!Report
<1> HIDE DEF r
<1>4. Known' = Known \cup {r}
  BY <1>1 DEF Known
<1>5. \A q \in Known : q.at \in 0..clock
  BY PositionTypes
<1>6. \A q \in Known' : q.at \in Nat /\ q.at <= clock' /\ q.at <= r.at
  BY <1>1, <1>2, <1>3, <1>4, <1>5
<1>7. \A q1, q2 \in Known' : q1.at = q2.at => q1 = q2
  <2>1. \A q \in Known : q.at # r.at
    BY <1>2, <1>3, <1>5
  <2>2. QED
    BY <1>4, <2>1, PositionTypes
<1>8. Place(Known') = p
  BY <1>3, <1>4, <1>6, <1>7, PlaceOf
<1>9. QED
  BY <1>1, <1>2, <1>3, <1>4, <1>6, <1>7, <1>8, PositionTypes DEF OwnTimes

\* A choice that is not empty.
LEMMA SomePlaces ==
  ASSUME NEW S, S \subseteq Position!Places, NEW q, q \in S
  PROVE  S \in (SUBSET Position!Places) \ {{}}
<1>1. S # {}
  OBVIOUS
<1>2. S \in SUBSET Position!Places /\ S \notin {{}}
  BY <1>1
<1>3. QED
  BY <1>2

(***************************************************************************)
(* The steps                                                               *)
(***************************************************************************)
LEMMA PositionInvInit == Position!Init => PositionInv
<1> SUFFICES ASSUME Position!Init PROVE PositionInv
  OBVIOUS
<1>1. /\ stored = None /\ reports = {} /\ answers = {} /\ cache = [there |-> FALSE, resume |-> None]
      /\ view = Position!Closed /\ clock = 0 /\ spent = [opens |-> 0, moves |-> 0]
      /\ chosen = {0} /\ excused = FALSE
  BY DEF Position!Init
<1>2. spent \in [opens: 0..MaxOpens, moves: 0..MaxMoves]
  BY <1>1, PositionAssumption
<1>3. Position!TypeOK
  <2>1. {0} \in (SUBSET Position!Places) \ {{}} /\ 0 \in 0..MaxReports
    <3>1. 0 \in Position!Places /\ 0 \in 0..MaxReports
      BY Numbers
    <3>2. {0} \subseteq Position!Places /\ 0 \in {0}
      BY <3>1
    <3>3. QED
      BY <3>1, <3>2, SomePlaces
  <2>2. [there |-> FALSE, resume |-> None] \in [there: BOOLEAN, resume: Position!Position \cup {None}]
    OBVIOUS
  <2>3. {} \in SUBSET Position!Report /\ {} \in SUBSET Position!Position
    OBVIOUS
  <2>4. QED
    BY <1>1, <1>2, <2>1, <2>2, <2>3, ClosedIs DEF Position!TypeOK
<1>4. Known = {} /\ OwnTimes
  BY <1>1 DEF Known, OwnTimes
<1>5. Layout
  <2>1. {} \in SUBSET Position!Assets
    OBVIOUS
  <2>2. Position!Reach({}) \in Nat
    BY <2>1, ReachIs
  <2>3. view.scroll = 0 /\ view.loaded = {}
    BY <1>1, ClosedIs
  <2>4. QED
    BY <2>2, <2>3 DEF Layout
<1>6. ChoiceIsHeld /\ TargetIsChosen
  BY <1>1, <1>4, ClosedIs DEF ChoiceIsHeld, TargetIsChosen, Place
<1>7. OneChoice
  BY <1>1, Numbers DEF OneChoice
<1>8. QED
  BY <1>3, <1>4, <1>5, <1>6, <1>7 DEF PositionInv

\* The page rests, and what is known has the same newest position.
LEMMA PageRests ==
  ASSUME PositionInv, UNCHANGED <<view, spent, chosen>>,
         stored' \in Position!Position \cup {None}, reports' \in SUBSET Position!Report,
         answers' \in SUBSET Position!Position,
         cache' \in [there: BOOLEAN, resume: Position!Position \cup {None}], clock' = clock,
         OwnTimes', excused' \in BOOLEAN, excused => excused',
         excused' \/ Place(Known') = Place(Known),
         excused' \/ Known = {} \/ Known' # {}
  PROVE  PositionInv'
<1>1. Position!TypeOK'
  BY DEF PositionInv, Position!TypeOK
<1>2. Layout'
  BY DEF PositionInv, Layout
<1>3. ChoiceIsHeld'
  BY DEF PositionInv, ChoiceIsHeld, Position!Shown
<1>4. TargetIsChosen' /\ OneChoice'
  BY DEF PositionInv, TargetIsChosen, OneChoice
<1>5. QED
  BY <1>1, <1>2, <1>3, <1>4 DEF PositionInv

LEMMA DeliverStep == ASSUME PositionInv, NEW r \in reports, Position!Deliver(r) PROVE PositionInv'
<1> DEFINE new == [place |-> r.place, at |-> r.at]
<1>1. /\ reports' = reports \ {r} /\ UNCHANGED <<cache, view, clock, spent, chosen, excused>>
      /\ stored' = IF stored = None \/ r.at >= stored.at THEN new ELSE stored
      /\ answers' = answers \/ answers' = answers \cup {stored'}
  BY DEF Position!Deliver
<1>2. /\ r \in Known /\ r \in Position!Report /\ new \in Position!Position /\ new.at = r.at
      /\ new.place = r.place
  BY PositionTypes DEF Known, Position!Report, Position!Position
<1> HIDE DEF new
<1>3. stored' \in Position!Position /\ answers' \in SUBSET Position!Position
  BY <1>1, <1>2, PositionTypes
<1>4. stored' # None => Known' = (reports \ {r}) \cup {stored'}
  BY <1>1 DEF Known
<1>5. stored' = None => Known' = reports \ {r}
  BY <1>1 DEF Known
<1>6. stored # None => stored \in Known
  BY DEF Known
<1>7. CASE stored = None \/ r.at >= stored.at
  <2>1. stored' = new
    BY <1>1, <1>7
  <2>2. \A q \in Known' : q = new \/ (q \in Known /\ q # r)
    BY <1>4, <1>5, <2>1 DEF Known
  <2>3. OwnTimes'
    <3>1. \A q \in Known' : q.at \in 0..clock
      BY <1>2, <2>2, PositionTypes
    <3>2. \A q1, q2 \in Known' : q1.at = q2.at => q1 = q2
      BY <1>2, <2>2, PositionTypes
    <3>3. QED
      BY <1>1, <3>1, <3>2, PositionTypes DEF OwnTimes
  <2>4. new # None => new \in Known'
    BY <1>4, <2>1
  <2>5. ASSUME NEW m \in Known, \A q \in Known : q.at <= m.at
        PROVE  \E q \in Known' : q.at = m.at /\ q.place = m.place
    <3>1. CASE m = r
      BY <1>2, <2>4, <3>1, PositionIsNotNone
    <3>2. CASE m # r /\ m \in reports
      BY <1>1, <3>2 DEF Known
    <3>3. CASE m # r /\ m \notin reports
      <4>1. m = stored /\ stored # None
        BY <3>3 DEF Known
      <4>2. r.at = m.at
        <5>1. r.at <= m.at /\ m.at <= r.at /\ r.at \in Nat /\ m.at \in Nat
          BY <1>2, <1>7, <2>5, <4>1, PositionTypes
        <5>2. QED
          BY <5>1
      <4>3. QED
        BY <1>2, <3>3, <4>2, PositionTypes
    <3>4. QED
      BY <3>1, <3>2, <3>3
  <2>6. \A q \in Known' : \E k \in Known : k.at = q.at
    BY <1>2, <2>2
  <2>7. Place(Known') = Place(Known)
    <3>1. /\ clock \in Nat /\ (\A q \in Known' : q.at \in 0..clock)
          /\ (\A q1, q2 \in Known' : q1.at = q2.at => q1 = q2)
      BY <1>1, <2>3, PositionTypes DEF OwnTimes
    <3>2. QED
      BY <2>5, <2>6, <3>1, PositionTypes, PlaceStays
  <2>8. Known' # {}
    BY <2>4, PositionIsNotNone, <1>2
  <2>9. QED
    BY <1>1, <1>3, <2>3, <2>7, <2>8, PositionTypes, PageRests
<1>8. CASE ~(stored = None \/ r.at >= stored.at)
  <2>1. stored' = stored /\ stored # None /\ stored \in Known /\ Known' = Known \ {r} /\ stored # r
    <3>1. stored' = stored /\ stored # None
      BY <1>1, <1>8
    <3>2. r.at \in Nat /\ stored.at \in Nat /\ ~(r.at >= stored.at)
      BY <1>2, <1>6, <1>8, <3>1, PositionTypes
    <3>3. stored # r
      BY <3>2
    <3>4. QED
      BY <1>1, <1>4, <1>6, <3>1, <3>3 DEF Known
  <2>2. OwnTimes'
    BY <1>1, <2>1, PositionTypes DEF OwnTimes
  <2>3. ASSUME NEW m \in Known, \A q \in Known : q.at <= m.at
        PROVE  \E q \in Known' : q.at = m.at /\ q.place = m.place
    <3>1. m # r
      <4>1. stored.at <= m.at /\ stored.at \in Nat /\ r.at \in Nat /\ ~(r.at >= stored.at)
        BY <1>2, <1>8, <2>1, <2>3, PositionTypes
      <4>2. QED
        BY <4>1
    <3>2. QED
      BY <2>1, <3>1
  <2>4. Place(Known') = Place(Known)
    <3>1. /\ clock \in Nat /\ (\A q \in Known' : q.at \in 0..clock)
          /\ (\A q1, q2 \in Known' : q1.at = q2.at => q1 = q2)
      BY <2>1, PositionTypes
    <3>2. \A q \in Known' : \E k \in Known : k.at = q.at
      BY <2>1
    <3>3. QED
      BY <2>3, <3>1, <3>2, PositionTypes, PlaceStays
  <2>5. QED
    BY <1>1, <1>3, <2>1, <2>2, <2>4, PositionTypes, PageRests
<1>9. QED
  BY <1>7, <1>8

LEMMA PositionLoseStep == ASSUME PositionInv, NEW r \in reports, Position!Lose(r) PROVE PositionInv'
<1>1. /\ reports' = reports \ {r}
      /\ UNCHANGED <<stored, answers, cache, view, clock, spent, chosen>>
      /\ excused' = (excused \/ \A q \in reports : q.at <= r.at)
  BY DEF Position!Lose
<1>2. \A q \in Known' : q \in Known
  BY <1>1 DEF Known
<1>3. OwnTimes'
  BY <1>1, <1>2, PositionTypes DEF OwnTimes
<1>4. ASSUME ~excused' PROVE Place(Known') = Place(Known) /\ Known' # {}
  <2>1. PICK q \in reports : ~(q.at <= r.at)
    BY <1>1, <1>4
  <2>2. q \in Known /\ r \in Known
    BY DEF Known
  <2>3. q.at \in Nat /\ r.at \in Nat
    BY <2>2, PositionTypes
  <2>4. q # r
    BY <2>1, <2>3
  <2>5. q \in Known'
    BY <1>1, <2>4 DEF Known
  <2>6. ASSUME NEW m \in Known, \A k \in Known : k.at <= m.at
        PROVE  \E k \in Known' : k.at = m.at /\ k.place = m.place
    <3>1. m # r
      BY <2>1, <2>2, <2>6
    <3>2. m \in Known'
      BY <1>1, <3>1 DEF Known
    <3>3. QED
      BY <3>2
  <2>7. /\ clock \in Nat /\ (\A k \in Known' : k.at \in 0..clock)
        /\ (\A q1, q2 \in Known' : q1.at = q2.at => q1 = q2)
    BY <1>2, PositionTypes
  <2>8. Place(Known') = Place(Known)
    BY <1>2, <2>6, <2>7, PositionTypes, PlaceStays
  <2>9. QED
    BY <2>5, <2>8
<1>5. reports' \in SUBSET Position!Report /\ excused' \in BOOLEAN
  BY <1>1, PositionTypes
<1>6. QED
  BY <1>1, <1>3, <1>4, <1>5, PositionTypes, PageRests

LEMMA PositionAnswerStep ==
  ASSUME PositionInv, NEW a \in answers, Position!Answer(a)
  PROVE  PositionInv'
<1>1. /\ answers' = answers \ {a}
      /\ cache' = [cache EXCEPT !.resume = Position!Merged(cache.resume, a)]
      /\ UNCHANGED <<stored, reports, view, clock, spent, chosen, excused>>
  BY DEF Position!Answer
<1>2. Position!Merged(cache.resume, a) \in Position!Position \cup {None}
  BY PositionTypes DEF Position!Merged
<1>3. cache' \in [there: BOOLEAN, resume: Position!Position \cup {None}]
  BY <1>1, <1>2, PositionTypes
<1>4. Known' = Known /\ OwnTimes'
  BY <1>1 DEF Known, OwnTimes, PositionInv
<1>5. QED
  BY <1>1, <1>3, <1>4, PositionTypes, PageRests

\* What has to be shown when the view changes and nothing is reported.
LEMMA ViewMoves ==
  ASSUME PositionInv, UNCHANGED <<stored, reports, clock>>, view' \in Position!View,
         answers' \in SUBSET Position!Position,
         cache' \in [there: BOOLEAN, resume: Position!Position \cup {None}],
         spent' \in [opens: 0..MaxOpens, moves: 0..MaxMoves],
         chosen' \in (SUBSET Position!Places) \ {{}}, excused' \in BOOLEAN, Layout',
         \/ excused'
         \/ view'.open /\ view'.phase # "restoring"
                /\ (Position!Shown(view') \in chosen' \/ view'.glide # None)
         \/ (~view'.open \/ view'.phase = "restoring") /\ Place(Known) \in chosen',
         TargetIsChosen',
         excused' \/ (\E p \in Position!Places : chosen' = {p}) \/ (chosen' = chosen /\ ~excused)
  PROVE  PositionInv'
<1>1. Position!TypeOK'
  BY DEF PositionInv, Position!TypeOK
<1>2. Known' = Known /\ OwnTimes'
  BY DEF PositionInv, Known, OwnTimes
<1>3. ChoiceIsHeld'
  BY <1>2 DEF ChoiceIsHeld, Position!Shown
<1>4. OneChoice'
  BY <1>2 DEF PositionInv, OneChoice
<1>5. QED
  BY <1>1, <1>2, <1>3, <1>4 DEF PositionInv

\* What has to be shown when something is reported.
LEMMA ViewReported ==
  ASSUME PositionInv, UNCHANGED <<stored>>, NEW p \in Position!Places, NEW beacon \in BOOLEAN,
         Position!Observe(p, beacon),
         view' \in Position!View,
         answers' \in SUBSET Position!Position,
         cache' \in [there: BOOLEAN, resume: Position!Position \cup {None}],
         spent' \in [opens: 0..MaxOpens, moves: 0..MaxMoves],
         chosen' \in (SUBSET Position!Places) \ {{}}, excused' \in BOOLEAN, Layout',
         \/ excused'
         \/ view'.open /\ view'.phase # "restoring"
                /\ (Position!Shown(view') \in chosen' \/ view'.glide # None)
         \/ ~view'.open /\ p \in chosen',
         TargetIsChosen'
  PROVE  PositionInv'
<1>1. /\ reports' \in SUBSET Position!Report /\ clock' \in 0..MaxReports /\ OwnTimes' /\ Known' # {}
      /\ Place(Known') = p
  BY ObservedIs
<1>2. Position!TypeOK'
  BY <1>1 DEF PositionInv, Position!TypeOK
<1>3. ChoiceIsHeld'
  BY <1>1 DEF ChoiceIsHeld, Position!Shown
<1>4. OneChoice'
  BY <1>1 DEF OneChoice
<1>5. QED
  BY <1>1, <1>2, <1>3, <1>4 DEF PositionInv

LEMMA SpentIs == ASSUME PositionInv PROVE spent \in [opens: 0..MaxOpens, moves: 0..MaxMoves]
BY DEF PositionInv, Position!TypeOK

\* The view is, for the invariant, as it was; what it shows may be reported.
LEMMA ViewRests ==
  ASSUME PositionInv, UNCHANGED <<stored, answers, cache, spent, chosen>>, view.open,
         view' \in Position!View, view'.open, Alike(view', view), excused' \in BOOLEAN,
         excused => excused',
         \/ UNCHANGED <<reports, clock>>
         \/ /\ view.phase # "restoring"
            /\ \E beacon \in BOOLEAN : Position!Observe(Position!Shown(view), beacon)
  PROVE  PositionInv'
<1>1. /\ view'.phase = view.phase /\ view'.target = view.target /\ view'.scroll = view.scroll
      /\ view'.loaded = view.loaded /\ view'.glide = view.glide
      /\ Position!Shown(view') = Position!Shown(view)
  BY AlikeShow
<1>2. Layout' /\ TargetIsChosen'
  BY <1>1 DEF PositionInv, Layout, TargetIsChosen
<1>3. \/ excused'
      \/ view'.phase # "restoring" /\ (Position!Shown(view') \in chosen' \/ view'.glide # None)
      \/ view'.phase = "restoring" /\ Place(Known) \in chosen'
  BY <1>1 DEF PositionInv, ChoiceIsHeld
<1>4. CASE UNCHANGED <<reports, clock>>
  BY <1>1, <1>2, <1>3, <1>4, PositionTypes, SpentIs, ViewMoves
<1>5. CASE /\ view.phase # "restoring"
           /\ \E beacon \in BOOLEAN : Position!Observe(Position!Shown(view), beacon)
  <2>1. PICK beacon \in BOOLEAN : Position!Observe(Position!Shown(view), beacon)
    BY <1>5
  <2>2. Position!Shown(view) \in Position!Places
    BY PositionTypes, ViewTypes
  <2>3. QED
    BY <1>1, <1>2, <1>3, <1>5, <2>1, <2>2, PositionTypes, SpentIs, ViewReported
<1>6. QED
  BY <1>4, <1>5

LEMMA QuietStep ==
  ASSUME PositionInv, Position!AssetsReady \/ Position!ScrollEvent \/ Position!PositionTimer
             \/ Position!WarmTimer \/ Position!Hide
  PROVE  PositionInv'
<1>1. CASE Position!AssetsReady
  <2>1. view.open /\ view' = [view EXCEPT !.ready = TRUE]
        /\ UNCHANGED <<stored, reports, answers, cache, clock, spent, chosen, excused>>
    BY <1>1 DEF Position!AssetsReady
  <2>2. view' \in Position!View /\ view'.open /\ Alike(view', view)
    BY <2>1, PositionTypes, ViewReadySet
  <2>3. QED
    BY <2>1, <2>2, PositionTypes, ViewRests
<1>2. CASE Position!ScrollEvent
  <2> DEFINE b  == view.timer \/ (view.wrote # view.scroll /\ view.phase # "restoring")
             v1 == [view EXCEPT !.scrolled = FALSE]
             v2 == [v1 EXCEPT !.wrote = None]
             v3 == [v2 EXCEPT !.timer = b]
  <2>1. view.open /\ UNCHANGED <<stored, reports, answers, cache, clock, spent, chosen, excused>>
    BY <1>2 DEF Position!ScrollEvent
  <2>2. view' = v3
    BY <1>2 DEF Position!ScrollEvent
  <2>3. b \in BOOLEAN
    BY PositionTypes DEF Position!View
  <2> HIDE DEF b
  <2>4. v1 \in Position!View /\ v1.open /\ Alike(v1, view)
    BY <2>1, PositionTypes, ViewScrolledSet
  <2> HIDE DEF v1
  <2>5. v2 \in Position!View /\ v2.open /\ Alike(v2, v1)
    BY <2>4, ViewWroteSet
  <2> HIDE DEF v2
  <2>6. v3 \in Position!View /\ v3.open /\ Alike(v3, v2)
    BY <2>3, <2>5, ViewTimerSet
  <2> HIDE DEF v3
  <2>7. view' \in Position!View /\ view'.open /\ Alike(view', view)
    BY <2>2, <2>4, <2>5, <2>6 DEF Alike
  <2>8. QED
    BY <2>1, <2>7, PositionTypes, ViewRests
<1>3. CASE Position!PositionTimer
  <2>1. view.open /\ view' = [view EXCEPT !.timer = FALSE] /\ Position!ReportObservation(view)
        /\ UNCHANGED <<stored, answers, cache, spent, chosen, excused>>
    BY <1>3 DEF Position!PositionTimer
  <2>2. view' \in Position!View /\ view'.open /\ Alike(view', view)
    BY <2>1, PositionTypes, ViewTimerSet
  <2>3. \/ UNCHANGED <<reports, clock>>
        \/ view.phase # "restoring" /\ Position!Observe(Position!Shown(view), FALSE)
    BY <2>1 DEF Position!ReportObservation
  <2>4. QED
    BY <2>1, <2>2, <2>3, PositionTypes, ViewRests
<1>4. CASE Position!WarmTimer
  <2>1. view.open /\ view' = [view EXCEPT !.warm = FALSE]
        /\ UNCHANGED <<stored, answers, cache, spent, chosen, excused>>
    BY <1>4 DEF Position!WarmTimer
  <2>2. view' \in Position!View /\ view'.open /\ Alike(view', view)
    BY <2>1, PositionTypes, ViewWarmSet
  <2>3. \/ UNCHANGED <<reports, clock>>
        \/ view.phase # "restoring" /\ Position!Observe(Position!Shown(view), FALSE)
    BY <1>4 DEF Position!WarmTimer, Position!ReportObservation
  <2>4. QED
    BY <2>1, <2>2, <2>3, PositionTypes, ViewRests
<1>5. CASE Position!Hide
  <2>1. /\ view.open /\ UNCHANGED <<stored, answers, cache, view, spent, chosen>>
        /\ Position!Flush(view)
    BY <1>5 DEF Position!Hide
  <2>2. \/ UNCHANGED <<reports, clock>>
        \/ view.phase # "restoring" /\ Position!Observe(Position!Shown(view), TRUE)
    BY <2>1 DEF Position!Flush
  <2>3. excused' = (excused \/ view.glide # None)
    BY <2>1 DEF Position!Flush
  <2>4. Alike(view', view)
    BY <2>1 DEF Alike
  <2>5. QED
    BY <2>1, <2>2, <2>3, <2>4, PositionTypes, ViewRests
<1>6. QED
  BY <1>1, <1>2, <1>3, <1>4, <1>5

LEMMA OpenStep ==
  ASSUME PositionInv, NEW fromCache \in BOOLEAN, Position!Open(fromCache)
  PROVE  PositionInv'
<1> DEFINE resume == IF fromCache THEN cache.resume ELSE stored
<1>1. /\ ~view.open /\ cache' = [there |-> TRUE, resume |-> resume]
      /\ spent.opens < MaxOpens /\ spent' = [spent EXCEPT !.opens = spent.opens + 1]
      /\ excused' = (excused \/ (IF resume = None THEN 0 ELSE resume.place) \notin chosen)
      /\ answers' \in {answers, {}} /\ UNCHANGED <<stored, reports, clock, chosen>>
  BY DEF Position!Open
<1>2. PICK loaded \in SUBSET Position!Assets :
        view' = Position!Started([Position!Closed EXCEPT !.open = TRUE, !.loaded = loaded, !.warm = TRUE],
                                 resume)
  BY DEF Position!Open
<1>3. resume \in Position!Position \cup {None}
  BY PositionTypes
<1> HIDE DEF resume
<1> DEFINE v1 == [Position!Closed EXCEPT !.open = TRUE]
           v2 == [v1 EXCEPT !.loaded = loaded]
           v3 == [v2 EXCEPT !.warm = TRUE]
<1>4. view' = Position!Started(v3, resume)
  BY <1>2
<1>5. v1 \in Position!View /\ v1.open /\ Alike(v1, Position!Closed)
  BY ClosedIs, ViewOpenSet
<1> HIDE DEF v1
<1>6. v2 \in Position!View /\ v2.open /\ v2.phase = "normal" /\ v2.scroll = 0
  BY <1>5, ClosedIs, AlikeShow, ViewLoadedSet
<1> HIDE DEF v2
<1>7. v3 \in Position!View /\ v3.open /\ v3.phase = "normal" /\ v3.scroll = 0
  BY <1>6, AlikeShow, ViewWarmSet
<1> HIDE DEF v3
<1>8. /\ view' \in Position!View /\ view'.open /\ view'.scroll <= Position!Reach(view'.loaded)
      /\ resume = None => view'.phase = "normal" /\ Position!Shown(view') = 0
      /\ resume # None => view'.phase = "restoring" /\ view'.target = resume.place
  BY <1>3, <1>4, <1>7, StartedIs
<1>9. Layout'
  BY <1>8 DEF Layout
<1>10. /\ excused' \in BOOLEAN
       /\ (excused' \/ (IF resume = None THEN 0 ELSE resume.place) \in chosen)
       /\ (excused => excused')
  BY <1>1, PositionTypes
<1>11. TargetIsChosen'
  BY <1>1, <1>8, <1>10 DEF TargetIsChosen
<1>12. excused \/ Place(Known) \in chosen
  BY <1>1 DEF PositionInv, ChoiceIsHeld
<1>13. spent' \in [opens: 0..MaxOpens, moves: 0..MaxMoves]
  BY <1>1, SpentIs, PositionAssumption
<1>14. /\ cache' \in [there: BOOLEAN, resume: Position!Position \cup {None}]
       /\ answers' \in SUBSET Position!Position
  BY <1>1, <1>3, PositionTypes
<1>15. QED
  BY <1>1, <1>8, <1>9, <1>10, <1>11, <1>12, <1>13, <1>14, PositionTypes, ViewMoves

LEMMA FrameStep == ASSUME PositionInv, Position!Frame PROVE PositionInv'
<1> DEFINE v == Position!Corrected(view)
<1>1. view.open /\ view.phase = "restoring" /\ UNCHANGED <<stored, answers, cache, spent, excused>>
  BY DEF Position!Frame
<1>2. /\ v \in Position!View /\ v.open /\ v.phase = "restoring" /\ v.target = view.target
      /\ v.loaded = view.loaded
      /\ v.scroll <= Position!Reach(view.loaded)
      /\ Position!Top(view.loaded, view.target) <= Position!Reach(view.loaded) =>
             v.scroll = Position!Top(view.loaded, view.target)
  BY <1>1, PositionTypes, CorrectedIs
<1>3. excused \/ (Place(Known) \in chosen /\ view.target \in chosen)
  BY <1>1 DEF PositionInv, ChoiceIsHeld, TargetIsChosen
<1>4. \/ view' = v /\ UNCHANGED <<reports, clock, chosen>>
      \/ /\ view' = Position!Stopped(v, "settled") /\ chosen' = chosen \cup Position!NearEnough(v)
         /\ Position!ReportObservation(view')
  BY DEF Position!Frame
<1> HIDE DEF v
<1>5. CASE view' = v /\ UNCHANGED <<reports, clock, chosen>>
  <2>1. Layout' /\ TargetIsChosen'
    BY <1>1, <1>2, <1>3, <1>5 DEF Layout, TargetIsChosen
  <2>2. QED
    BY <1>1, <1>2, <1>3, <1>5, <2>1, PositionTypes, SpentIs, ViewMoves
<1>6. CASE /\ view' = Position!Stopped(v, "settled") /\ chosen' = chosen \cup Position!NearEnough(v)
           /\ Position!ReportObservation(view')
  <2>1. /\ view' \in Position!View /\ view'.open /\ view'.phase = "settled"
        /\ view'.scroll = v.scroll
        /\ view'.loaded = view.loaded
    BY <1>2, <1>6, StoppedIs DEF Position!Phases
  <2>2. Position!Shown(view') = Position!Shown(v) /\ Position!Shown(v) \in Position!Places
    BY <1>2, <2>1, ViewTypes DEF Position!Shown
  <2>3. chosen' \in (SUBSET Position!Places) \ {{}}
    <3>1. Position!NearEnough(v) \in SUBSET Position!Places
      BY <2>2 DEF Position!NearEnough
    <3>2. chosen \in (SUBSET Position!Places) \ {{}}
      BY PositionTypes
    <3>3. PICK q : q \in chosen
      BY <3>2
    <3>4. chosen' \subseteq Position!Places /\ q \in chosen'
      BY <1>6, <3>1, <3>2, <3>3
    <3>5. QED
      BY <3>4, SomePlaces
  <2>4. excused \/ Position!Shown(view') \in chosen'
    <3>1. CASE Position!Top(view.loaded, view.target) > Position!Reach(view.loaded)
      BY <1>2, <1>6, <2>2, <3>1 DEF Position!NearEnough
    <3>2. CASE ~(Position!Top(view.loaded, view.target) > Position!Reach(view.loaded))
      <4>1. view.loaded \in SUBSET Position!Assets /\ view.target \in Position!Places
        BY PositionTypes, ViewTypes
      <4>2. Position!Top(view.loaded, view.target) <= Position!Reach(view.loaded)
        <5>1. view.target \in Nat
          BY <4>1, Numbers
        <5>2. Position!Top(view.loaded, view.target) \in Nat /\ Position!Reach(view.loaded) \in Nat
          BY <4>1, <5>1, TopGrows, ReachIs
        <5>3. QED
          BY <3>2, <5>2
      <4>3. Position!Shown(v) = view.target
        BY <1>2, <4>1, <4>2, TopIsShown DEF Position!Shown
      <4>4. QED
        BY <1>3, <1>6, <2>2, <4>3
    <3>3. QED
      BY <3>1, <3>2
  <2>5. Position!Observe(Position!Shown(view'), FALSE)
    BY <1>6, <2>1 DEF Position!ReportObservation
  <2>6. Layout' /\ TargetIsChosen'
    BY <1>2, <2>1 DEF Layout, TargetIsChosen
  <2>7. QED
    BY <1>1, <2>1, <2>2, <2>3, <2>4, <2>5, <2>6, PositionTypes, SpentIs, ViewReported
<1>7. QED
  BY <1>4, <1>5, <1>6

LEMMA ImageStep == ASSUME PositionInv, Position!ImageLoads PROVE PositionInv'
<1>1. /\ view.open /\ view' = [view EXCEPT !.loaded = view.loaded \cup {"image"}]
      /\ excused' = (excused \/ (view.phase # "restoring"
                              /\ Position!Shown(view') # Position!Shown(view)))
      /\ UNCHANGED <<stored, reports, answers, cache, clock, spent, chosen>>
  BY DEF Position!ImageLoads
<1>2. /\ view.loaded \in SUBSET Position!Assets /\ view.scroll \in Nat
      /\ view.scroll <= Position!Reach(view.loaded)
  BY PositionTypes, ViewTypes
<1>3. /\ view.loaded \cup {"image"} \in SUBSET Position!Assets
      /\ view.scroll <= Position!Reach(view.loaded \cup {"image"})
  BY <1>2, ImageMoves
<1>4. /\ view' \in Position!View /\ view'.open /\ view'.phase = view.phase
      /\ view'.target = view.target
      /\ view'.scroll = view.scroll /\ view'.loaded = view.loaded \cup {"image"}
      /\ view'.glide = view.glide
  BY <1>1, <1>3, PositionTypes, ViewLoadedSet
<1>5. Layout'
  BY <1>3, <1>4 DEF Layout
<1>6. TargetIsChosen' /\ excused' \in BOOLEAN
  BY <1>1, <1>4, PositionTypes DEF PositionInv, TargetIsChosen
<1>7. \/ excused'
      \/ view'.phase # "restoring" /\ (Position!Shown(view') \in chosen' \/ view'.glide # None)
      \/ view'.phase = "restoring" /\ Place(Known) \in chosen'
  BY <1>1, <1>4 DEF PositionInv, ChoiceIsHeld
<1>8. QED
  BY <1>1, <1>4, <1>5, <1>6, <1>7, PositionTypes, SpentIs, ViewMoves

LEMMA GuideStep == ASSUME PositionInv, Position!GuideArrives PROVE PositionInv'
<1>1. /\ view.open /\ "guide" \notin view.loaded
      /\ view' = Position!Compensated(view, view.loaded \cup {"guide"})
      /\ excused' = (excused \/ view.glide # view'.glide)
      /\ UNCHANGED <<stored, reports, answers, cache, clock, spent, chosen>>
  BY DEF Position!GuideArrives
<1>2. /\ view' \in Position!View /\ view'.open /\ view'.phase = view.phase
      /\ view'.target = view.target
      /\ view'.scroll <= Position!Reach(view'.loaded)
      /\ (view.phase # "restoring" => Position!Shown(view') = Position!Shown(view))
  BY <1>1, PositionTypes, CompensatedIs
<1>3. Layout' /\ TargetIsChosen' /\ excused' \in BOOLEAN
  BY <1>1, <1>2, PositionTypes DEF PositionInv, TargetIsChosen, Layout
<1>4. \/ excused'
      \/ view'.phase # "restoring" /\ (Position!Shown(view') \in chosen' \/ view'.glide # None)
      \/ view'.phase = "restoring" /\ Place(Known) \in chosen'
  BY <1>1, <1>2 DEF PositionInv, ChoiceIsHeld
<1>5. QED
  BY <1>1, <1>2, <1>3, <1>4, PositionTypes, SpentIs, ViewMoves

LEMMA MovesIs ==
  ASSUME PositionInv, Position!Move
  PROVE  spent' \in [opens: 0..MaxOpens, moves: 0..MaxMoves]
<1>1. spent.moves < MaxMoves /\ spent' = [spent EXCEPT !.moves = spent.moves + 1]
  BY DEF Position!Move
<1>2. QED
  BY <1>1, SpentIs, PositionAssumption

LEMMA UserScrollsStep == ASSUME PositionInv, Position!UserScrolls PROVE PositionInv'
<1>1. /\ Position!Move /\ view.open /\ excused' = FALSE
      /\ UNCHANGED <<stored, reports, answers, cache, clock>>
  BY DEF Position!UserScrolls
<1> DEFINE v0 == Position!Cancelled(view)
<1>2. PICK s \in 0..Position!Reach(view.loaded) :
        /\ view' = [v0 EXCEPT !.scroll = s, !.scrolled = TRUE, !.glide = None]
        /\ chosen' = {Position!Shown(view')}
  BY DEF Position!UserScrolls
<1>3. v0 \in Position!View /\ v0.open /\ v0.phase # "restoring" /\ v0.loaded = view.loaded
  BY <1>1, PositionTypes, CancelledIs
<1> HIDE DEF v0
<1> DEFINE v1 == [v0 EXCEPT !.scroll = s]
           v2 == [v1 EXCEPT !.scrolled = TRUE]
           v3 == [v2 EXCEPT !.glide = None]
<1>4. view' = v3
  BY <1>2
<1>5. s \in Nat /\ s <= Position!Reach(view.loaded)
  BY PositionTypes, ViewTypes, ReachIs
<1>6. /\ v1 \in Position!View /\ v1.open /\ v1.phase # "restoring" /\ v1.loaded = view.loaded
      /\ v1.scroll = s
  BY <1>3, <1>5, ViewScrollSet
<1> HIDE DEF v1
<1>7. /\ v2 \in Position!View /\ v2.open /\ v2.phase # "restoring" /\ v2.loaded = view.loaded
      /\ v2.scroll = s
  <2>1. v2 \in Position!View /\ v2.open /\ Alike(v2, v1)
    BY <1>6, ViewScrolledSet
  <2> HIDE DEF v2
  <2>2. QED
    BY <1>6, <2>1, AlikeShow
<1> HIDE DEF v2
<1>8. /\ v3 \in Position!View /\ v3.open /\ v3.phase # "restoring" /\ v3.loaded = view.loaded
      /\ v3.scroll = s
  BY <1>7, ViewGlideSet
<1> HIDE DEF v3
<1>9. Position!Shown(view') \in Position!Places
  BY <1>4, <1>8, ViewTypes
<1>10. Layout' /\ TargetIsChosen'
  BY <1>4, <1>5, <1>8 DEF Layout, TargetIsChosen
<1>11. chosen' \in (SUBSET Position!Places) \ {{}} /\ Position!Shown(view') \in chosen'
           /\ \E p \in Position!Places : chosen' = {p}
  <2>1. PICK p \in Position!Places : p = Position!Shown(view')
    BY <1>9
  <2>2. chosen' = {p}
    BY <1>2, <2>1
  <2>3. chosen' \subseteq Position!Places /\ p \in chosen'
    BY <2>2
  <2>4. QED
    BY <2>1, <2>2, <2>3, SomePlaces
<1>12. QED
  BY <1>1, <1>4, <1>8, <1>9, <1>10, <1>11, PositionTypes, MovesIs, ViewMoves

LEMMA UserTouchesStep == ASSUME PositionInv, Position!UserTouches PROVE PositionInv'
<1>1. /\ view.open /\ view' = Position!Cancelled(view)
      /\ excused' = (excused \/ Position!Shown(view) \notin chosen)
      /\ UNCHANGED <<stored, reports, answers, cache, clock, spent, chosen>>
  BY DEF Position!UserTouches
<1>2. /\ view' \in Position!View /\ view'.open /\ view'.phase # "restoring"
      /\ view'.scroll = view.scroll
      /\ view'.loaded = view.loaded
  BY <1>1, PositionTypes, CancelledIs
<1>3. Position!Shown(view') = Position!Shown(view) /\ excused' \in BOOLEAN
  BY <1>1, <1>2, PositionTypes DEF Position!Shown
<1>4. Layout' /\ TargetIsChosen'
  BY <1>2, PositionTypes DEF Layout, TargetIsChosen
<1>5. QED
  BY <1>1, <1>2, <1>3, <1>4, PositionTypes, SpentIs, ViewMoves

LEMMA JumpStep == ASSUME PositionInv, Position!Jump PROVE PositionInv'
<1>1. /\ view.open /\ Position!Move /\ excused' = (view.phase = "restoring")
      /\ UNCHANGED <<stored, answers, cache>>
  BY DEF Position!Jump
<1>2. PICK p \in Position!Places :
        LET s == Position!Clamped(view.loaded, Position!Top(view.loaded, p)) IN
        /\ view' = [view EXCEPT !.glide = IF s = view.scroll THEN None ELSE s]
        /\ chosen' = {p, Position!PlaceAt(view.loaded, s)}
        /\ Position!Observe(p, FALSE)
  BY DEF Position!Jump
<1> DEFINE s == Position!Clamped(view.loaded, Position!Top(view.loaded, p))
           g == IF s = view.scroll THEN None ELSE s
<1>3. s \in Nat /\ Position!PlaceAt(view.loaded, s) \in Position!Places
  <2>1. view.loaded \in SUBSET Position!Assets /\ p \in Nat
    BY PositionTypes, ViewTypes, Numbers
  <2>2. Position!Top(view.loaded, p) \in Nat
    BY <2>1, TopGrows
  <2>3. s \in Nat
    BY <2>1, <2>2, ClampedIs
  <2> HIDE DEF s
  <2>4. QED
    BY <2>1, <2>3, PlaceAtIs
<1>4. /\ view' = [view EXCEPT !.glide = g] /\ chosen' = {p, Position!PlaceAt(view.loaded, s)}
      /\ Position!Observe(p, FALSE)
  BY <1>2
<1> HIDE DEF s
<1>5. g \in Nat \cup {None} /\ (s # view.scroll => g # None)
  BY <1>3, Numbers
<1>51. Position!PlaceAt(view.loaded, s) \in chosen' /\ p \in chosen'
  BY <1>4
<1> HIDE DEF g
<1>6. /\ view' \in Position!View /\ view'.open /\ view'.phase = view.phase
      /\ view'.scroll = view.scroll
      /\ view'.loaded = view.loaded /\ view'.glide = g
  BY <1>1, <1>4, <1>5, PositionTypes, ViewGlideSet
<1>7. Position!Shown(view') \in chosen' \/ view'.glide # None
  <2>1. CASE s = view.scroll
    BY <1>51, <1>6, <2>1 DEF Position!Shown
  <2>2. CASE s # view.scroll
    BY <1>5, <1>6, <2>2
  <2>3. QED
    BY <2>1, <2>2
<1>8. chosen' \in (SUBSET Position!Places) \ {{}} /\ excused' \in BOOLEAN
  <2>1. chosen' \subseteq Position!Places
    BY <1>3, <1>4
  <2>2. chosen' \in (SUBSET Position!Places) \ {{}}
    BY <1>51, <2>1, SomePlaces
  <2>3. QED
    BY <1>1, <1>4, <2>2, PositionTypes
<1>9. Layout' /\ TargetIsChosen'
  BY <1>1, <1>6, PositionTypes DEF Layout, TargetIsChosen
<1>10. QED
  BY <1>1, <1>4, <1>6, <1>7, <1>8, <1>9, PositionTypes, MovesIs, ViewReported

LEMMA GlideEndsStep == ASSUME PositionInv, Position!GlideEnds PROVE PositionInv'
<1> DEFINE c  == Position!Clamped(view.loaded, view.glide)
           v1 == [view EXCEPT !.scroll = c]
           v2 == [v1 EXCEPT !.scrolled = TRUE]
           v3 == [v2 EXCEPT !.glide = None]
<1>1. /\ view.open /\ view.glide # None
      /\ excused' = (excused \/ Position!Shown(view') \notin chosen)
      /\ UNCHANGED <<stored, reports, answers, cache, clock, spent, chosen>>
  BY DEF Position!GlideEnds
<1>2. view' = v3
  BY DEF Position!GlideEnds
<1>3. c \in Nat /\ c <= Position!Reach(view.loaded)
  BY <1>1, PositionTypes, ViewTypes, ClampedIs
<1> HIDE DEF c
<1>4. /\ v1 \in Position!View /\ v1.open /\ v1.phase = view.phase /\ v1.target = view.target
      /\ v1.loaded = view.loaded /\ v1.scroll = c
  BY <1>1, <1>3, PositionTypes, ViewScrollSet
<1> HIDE DEF v1
<1>5. v2 \in Position!View /\ v2.open /\ Alike(v2, v1)
  BY <1>4, ViewScrolledSet
<1> HIDE DEF v2
<1>6. /\ v3 \in Position!View /\ v3.open /\ v3.phase = view.phase /\ v3.target = view.target
      /\ v3.loaded = view.loaded /\ v3.scroll = c
  BY <1>4, <1>5, AlikeShow, ViewGlideSet
<1> HIDE DEF v3
<1>7. Layout' /\ TargetIsChosen' /\ excused' \in BOOLEAN
  BY <1>1, <1>2, <1>3, <1>6, PositionTypes DEF PositionInv, Layout, TargetIsChosen
<1>8. \/ excused'
      \/ view'.phase # "restoring" /\ Position!Shown(view') \in chosen'
      \/ view'.phase = "restoring" /\ Place(Known) \in chosen'
  BY <1>1, <1>2, <1>6 DEF PositionInv, ChoiceIsHeld
<1>9. QED
  BY <1>1, <1>2, <1>6, <1>7, <1>8, PositionTypes, SpentIs, ViewMoves

\* A page that is closed.
LEMMA ClosedHolds ==
  ASSUME view' = Position!Closed
  PROVE  view' \in Position!View /\ ~view'.open /\ Layout' /\ TargetIsChosen'
<1>1. view' \in Position!View /\ ~view'.open /\ view'.scroll = 0 /\ view'.loaded = {}
  BY ClosedIs
<1>2. {} \in SUBSET Position!Assets
  OBVIOUS
<1>3. Position!Reach({}) \in Nat
  BY <1>2, ReachIs
<1>4. QED
  BY <1>1, <1>3 DEF Layout, TargetIsChosen

LEMMA PageHideStep == ASSUME PositionInv, Position!PageHide PROVE PositionInv'
<1>1. /\ view.open /\ view' = Position!Closed /\ cache' = [there |-> FALSE, resume |-> None]
      /\ answers' = {}
      /\ UNCHANGED <<stored, spent, chosen>> /\ Position!Flush(view)
  BY DEF Position!PageHide
<1>2. excused' = (excused \/ view.glide # None)
  BY <1>1 DEF Position!Flush
<1>3. /\ excused' \in BOOLEAN /\ cache' \in [there: BOOLEAN, resume: Position!Position \cup {None}]
      /\ answers' \in SUBSET Position!Position
  BY <1>1, <1>2, PositionTypes
<1>4. view' \in Position!View /\ ~view'.open /\ Layout' /\ TargetIsChosen'
  BY <1>1, ClosedHolds
<1>5. CASE view.phase = "restoring"
  <2>1. UNCHANGED <<reports, clock>>
    BY <1>1, <1>5 DEF Position!Flush
  <2>2. excused' \/ Place(Known) \in chosen'
    BY <1>1, <1>2, <1>5 DEF PositionInv, ChoiceIsHeld
  <2>3. QED
    BY <1>1, <1>2, <1>3, <1>4, <2>1, <2>2, PositionTypes, SpentIs, ViewMoves
<1>6. CASE view.phase # "restoring"
  <2>1. Position!Observe(Position!Shown(view), TRUE) /\ Position!Shown(view) \in Position!Places
    BY <1>1, <1>6, PositionTypes, ViewTypes DEF Position!Flush
  <2>2. excused' \/ Position!Shown(view) \in chosen'
    BY <1>1, <1>2, <1>6 DEF PositionInv, ChoiceIsHeld
  <2>3. QED
    BY <1>1, <1>3, <1>4, <2>1, <2>2, PositionTypes, SpentIs, ViewReported
<1>7. QED
  BY <1>5, <1>6

LEMMA PositionLeaveStep ==
  ASSUME PositionInv, NEW killed \in BOOLEAN, Position!Leave(killed)
  PROVE  PositionInv'
<1>1. /\ view' = Position!Closed /\ excused' = (excused \/ Position!Newest \notin chosen)
      /\ UNCHANGED <<stored, reports, clock, spent, chosen>>
      /\ \/ cache' = [there |-> FALSE, resume |-> None] /\ answers' = {}
         \/ UNCHANGED <<cache, answers>>
  BY DEF Position!Leave
<1>2. /\ cache' \in [there: BOOLEAN, resume: Position!Position \cup {None}]
      /\ answers' \in SUBSET Position!Position
  <2>1. /\ [there |-> FALSE, resume |-> None] \in [there: BOOLEAN, resume: Position!Position \cup {None}]
        /\ {} \in SUBSET Position!Position
    OBVIOUS
  <2>2. QED
    BY <1>1, <2>1, PositionTypes
<1>3. view' \in Position!View /\ ~view'.open /\ Layout' /\ TargetIsChosen'
  BY <1>1, ClosedHolds
<1>4. excused' \in BOOLEAN /\ (excused' \/ Place(Known) \in chosen') /\ (excused => excused')
  BY <1>1, PositionTypes, NewestIs
<1>5. QED
  BY <1>1, <1>2, <1>3, <1>4, PositionTypes, SpentIs, ViewMoves

LEMMA PositionStep == ASSUME PositionInv, Position!Next PROVE PositionInv'
BY DeliverStep, PositionLoseStep, PositionAnswerStep, OpenStep, FrameStep, ImageStep, GuideStep,
   UserScrollsStep,
   UserTouchesStep, JumpStep, GlideEndsStep, QuietStep, PageHideStep,
   PositionLeaveStep DEF Position!Next

LEMMA PositionRests == ASSUME PositionInv, UNCHANGED Position!vars PROVE PositionInv'
<1>1. UNCHANGED <<stored, reports, answers, cache, view, clock, spent, chosen, excused>>
  BY DEF Position!vars
<1>2. Known' = Known /\ OwnTimes'
  BY <1>1 DEF PositionInv, Known, OwnTimes
<1>3. QED
  BY <1>1, <1>2, PositionTypes, PageRests

LEMMA ChoiceIsStored == ASSUME PositionInv PROVE Position!LastChoiceIsStored
<1> SUFFICES ASSUME ~view.open, reports = {}, ~excused
             PROVE  IF stored = None THEN chosen = {0} ELSE stored.place \in chosen
  BY DEF Position!LastChoiceIsStored
<1>1. Place(Known) \in chosen
  BY DEF PositionInv, ChoiceIsHeld
<1>2. CASE stored = None
  <2>1. Known = {} /\ Place(Known) = 0
    BY <1>2 DEF Known, Place
  <2>2. PICK p \in Position!Places : chosen = {p}
    BY <2>1 DEF PositionInv, OneChoice
  <2>3. QED
    BY <1>1, <1>2, <2>1, <2>2
<1>3. CASE stored # None
  <2>1. Known = {stored}
    BY <1>3 DEF Known
  <2>2. stored.at \in Nat /\ stored.at <= stored.at
    BY <2>1, PositionTypes
  <2>3. Place(Known) = stored.place
    BY <2>1, <2>2, PlaceOf
  <2>4. QED
    BY <1>1, <1>3, <2>3
<1>4. QED
  BY <1>2, <1>3

\* While the focus is on the reading position, its invariant holds.
PositionHolds == On("reading") => PositionInv

LEMMA PositionStarts == Init => PositionHolds
BY PositionInvInit DEF Init, On, PositionHolds

LEMMA PositionGoesOn == ASSUME PositionHolds, [Next]_vars PROVE PositionHolds'
<1>1. CASE ~On("reading")
  BY <1>1 DEF On, PositionHolds, Next, vars
<1>2. ASSUME On("reading"), Position!Next PROVE PositionInv'
  BY <1>2, PositionStep DEF PositionHolds
<1>3. ASSUME On("reading"), UNCHANGED reading PROVE PositionInv'
  <2>1. UNCHANGED Position!vars
    BY <1>3 DEF reading, Position!vars
  <2>2. QED
    BY <1>3, <2>1, PositionRests DEF PositionHolds
<1>4. CASE On("reading")
  <2>1. Position!Next \/ UNCHANGED reading
    BY <1>4 DEF Next, vars, On
  <2>2. QED
    BY <1>2, <1>3, <1>4, <2>1 DEF PositionHolds
<1>5. QED
  BY <1>1, <1>4

\* The row, the reports and answers on their way and the page keep their types.
THEOREM PositionTypeCorrect == Spec => [](On("reading") => Position!TypeOK)
<1>1. PositionHolds => (On("reading") => Position!TypeOK)
  BY DEF PositionHolds, PositionInv
<1>2. Spec => []PositionHolds
  BY PositionStarts, PositionGoesOn, PTL DEF Spec
<1>3. QED
  BY <1>1, <1>2, PTL

\* However often the page is opened, moved in and left: when it is closed and no report is on its
\* way, the row of reader_states holds a place that counts as the reader's last choice, unless
\* that choice was excused (persistReaderPosition, the restore coordinator).
THEOREM LastChoiceIsKept == Spec => []LastChoiceIsStored
<1>1. PositionHolds => LastChoiceIsStored
  BY ChoiceIsStored DEF PositionHolds, LastChoiceIsStored
<1>2. Spec => []PositionHolds
  BY PositionStarts, PositionGoesOn, PTL DEF Spec
<1>3. QED
  BY <1>1, <1>2, PTL

(***************************************************************************)
(* What is under way on the page is limited                                *)
(***************************************************************************)

Limited(S, n) == IsFiniteSet(S) /\ Cardinality(S) <= n

LEMMA LimitedSets ==
  ASSUME NEW S, NEW n \in Nat, Limited(S, n)
  PROVE  /\ \A x : Limited(S \ {x}, n)
         /\ Cardinality(S) < n => \A x : Limited(S \cup {x}, n)
         /\ \A x \in S : \A y : Limited((S \ {x}) \cup {y}, n)
<1>1. Cardinality(S) \in Nat /\ IsFiniteSet(S)
  BY FS_CardinalityType DEF Limited
<1>2. ASSUME NEW x
      PROVE  /\ IsFiniteSet(S \ {x})
             /\ Cardinality(S \ {x}) = IF x \in S THEN Cardinality(S) - 1 ELSE Cardinality(S)
  BY <1>1, FS_RemoveElement
<1>3. ASSUME NEW x
      PROVE  /\ IsFiniteSet(S \cup {x})
             /\ Cardinality(S \cup {x}) = IF x \in S THEN Cardinality(S) ELSE Cardinality(S) + 1
  BY <1>1, FS_AddElement
<1>4. ASSUME NEW x \in S, NEW y PROVE Limited((S \ {x}) \cup {y}, n)
  <2> DEFINE R == S \ {x}
  <2>1. IsFiniteSet(R) /\ Cardinality(R) = Cardinality(S) - 1
    BY <1>2
  <2> HIDE DEF R
  <2>2. /\ IsFiniteSet(R \cup {y})
        /\ Cardinality(R \cup {y}) = IF y \in R THEN Cardinality(R) ELSE Cardinality(R) + 1
    BY <2>1, FS_AddElement
  <2>3. Limited(R \cup {y}, n)
    BY <1>1, <2>1, <2>2 DEF Limited
  <2>4. QED
    BY <2>3 DEF R
<1>5. ASSUME NEW x PROVE Limited(S \ {x}, n)
  BY <1>1, <1>2 DEF Limited
<1>6. ASSUME NEW x, Cardinality(S) < n PROVE Limited(S \cup {x}, n)
  <2>1. /\ IsFiniteSet(S \cup {x})
        /\ Cardinality(S \cup {x}) = Cardinality(S) \/ Cardinality(S \cup {x}) = Cardinality(S) + 1
    BY <1>3, Zenon
  <2>2. Cardinality(S \cup {x}) <= n
    BY <1>1, <1>6, <2>1
  <2>3. QED
    BY <2>1, <2>2 DEF Limited
<1>7. QED
  BY <1>4, <1>5, <1>6

LEMMA SameReports == ASSUME NEW S PROVE Content!Cardinality(S) = Cardinality(S)
BY DEF Content!Cardinality, Cardinality

LEMMA SameCalls == ASSUME NEW S PROVE Notes!Cardinality(S) = Cardinality(S)
BY DEF Notes!Cardinality, Cardinality

ContentSized ==
  /\ open \in BOOLEAN /\ marked \in BOOLEAN /\ post \in BOOLEAN
  /\ Limited(focusing, MaxFocusing)

LEMMA ContentSizedStep == ASSUME ContentInv, ContentSized, Content!Next PROVE ContentSized'
<1>1. MaxFocusing \in Nat
  BY PageAssumption
<1>2. CASE \/ Content!ConfirmProposal \/ \E v \in Content!Versions : Content!Generate(v)
           \/ Content!Poll \/ Content!PollRead \/ Content!MarkedRead \/ Content!MarkFailed
           \/ Content!Intersects \/ Content!Close \/ Content!Collect
  BY <1>2 DEF ContentSized, Content!ConfirmProposal, Content!Generate, Content!Poll, Content!PollRead,
     Content!MarkedRead, Content!MarkFailed, Content!Intersects, Content!Close, Content!Collect,
     Content!server
<1>3. ASSUME ContentInv' PROVE Content!Seen(bootstrap') \in BOOLEAN
  <2>1. bootstrap' # None => bootstrap' \in Content!Bootstrap
    BY <1>3 DEF ContentInv, ContentTyped
  <2>2. QED
    BY <2>1 DEF Content!Seen, Content!Bootstrap
<1>4. Content!Seen(bootstrap') \in BOOLEAN
  BY <1>3, ContentStep
<1>5. CASE Content!Open
  BY <1>4, <1>5 DEF ContentSized, Content!Open, Content!server
<1>6. CASE Content!PollAnswered
  BY <1>4, <1>6 DEF ContentSized, Content!PollAnswered, Content!Arrives, Content!server
<1>7. ASSUME NEW inNode \in BOOLEAN, Content!ReportReaderFocus(inNode) PROVE ContentSized'
  <2>1. /\ Cardinality(focusing) < MaxFocusing /\ \E x : focusing' = focusing \cup {x}
        /\ UNCHANGED <<open, marked, post>>
    BY <1>7, SameReports DEF Content!ReportReaderFocus
  <2>2. QED
    BY <1>1, <2>1, LimitedSets DEF ContentSized
<1>8. ASSUME NEW request_ \in focusing, Content!FocusRead(request_) PROVE ContentSized'
  <2>1. \E y : focusing' = (focusing \ {request_}) \cup {y}
    BY <1>8 DEF Content!FocusRead
  <2>2. UNCHANGED <<open, marked, post>>
    BY <1>8 DEF Content!FocusRead, Content!server
  <2>3. QED
    BY <1>1, <2>1, <2>2, LimitedSets DEF ContentSized
<1>9. ASSUME NEW request_ \in focusing, Content!FocusAnswered(request_) PROVE ContentSized'
  <2>1. focusing' = focusing \ {request_} /\ UNCHANGED <<open, post>>
    BY <1>9 DEF Content!FocusAnswered, Content!server
  <2>2. marked' \in BOOLEAN
    BY <1>4, <1>9 DEF ContentSized, Content!FocusAnswered, Content!Arrives
  <2>3. QED
    BY <1>1, <2>1, <2>2, LimitedSets DEF ContentSized
<1>10. QED
  BY <1>2, <1>5, <1>6, <1>7, <1>8, <1>9 DEF Content!Next

ContentWhole == On("content") => ContentInv /\ ContentSized

LEMMA ContentSizedStarts == Init => ContentWhole
<1> SUFFICES ASSUME Init, On("content") PROVE ContentSized
  BY ContentStarts DEF ContentHolds, ContentWhole
<1>1. Content!Init
  BY DEF Init, On
<1>2. IsFiniteSet({}) /\ Cardinality({}) = 0 /\ MaxFocusing \in Nat
  BY FS_EmptySet, PageAssumption
<1>3. Limited({}, MaxFocusing)
  BY <1>2 DEF Limited
<1>4. QED
  BY <1>1, <1>3 DEF Content!Init, ContentSized

LEMMA ContentSizedGoesOn == ASSUME ContentWhole, [Next]_vars PROVE ContentWhole'
<1>1. CASE ~On("content")
  BY <1>1 DEF On, ContentWhole, Next, vars
<1>2. CASE On("content")
  <2>1. Content!Next \/ UNCHANGED content
    BY <1>2 DEF Next, vars, On
  <2>2. ContentInv /\ ContentSized
    BY <1>2 DEF ContentWhole
  <2>3. ContentInv'
    BY <1>2, <2>2, ContentGoesOn DEF ContentHolds, On, Next, vars
  <2>4. UNCHANGED content => ContentSized'
    BY <2>2 DEF content, ContentSized
  <2>5. QED
    BY <2>1, <2>2, <2>3, <2>4, ContentSizedStep DEF ContentWhole
<1>3. QED
  BY <1>1, <1>2

LEMMA ContentTypes == ASSUME ContentInv, ContentSized PROVE Content!TypeOK
BY SameReports DEF ContentInv, ContentTyped, ContentSized, Limited, Content!TypeOK

NotesSized ==
  /\ timer \in BOOLEAN /\ astray \in BOOLEAN /\ stray \in BOOLEAN
  /\ Limited(calls, MaxCalls) /\ Len(puts) <= MaxCalls

LEMMA PutsShorter ==
  ASSUME SettingsTyped, NEW i \in DOMAIN puts
  PROVE  Len(Notes!RemoveAt(puts, i)) = Len(puts) - 1
<1> DEFINE before == SubSeq(puts, 1, i - 1)
           after  == SubSeq(puts, i + 1, Len(puts))
<1>1. Len(puts) \in Nat /\ i \in 1..Len(puts) /\ puts \in Seq(Notes!Settings)
  BY LenProperties DEF SettingsTyped
<1>2. before \in Seq(Notes!Settings) /\ Len(before) = IF 1 <= i - 1 THEN i - 1 ELSE 0
  BY <1>1, SubSeqProperties
<1>3. after \in Seq(Notes!Settings) /\ Len(after) = IF i + 1 <= Len(puts) THEN Len(puts) - (i + 1) + 1 ELSE 0
  BY <1>1, SubSeqProperties
<1>4. Notes!RemoveAt(puts, i) = before \o after
  BY DEF Notes!RemoveAt
<1> HIDE DEF before, after
<1>5. Len(before \o after) = Len(before) + Len(after)
  BY <1>2, <1>3, ConcatProperties
<1>6. QED
  BY <1>1, <1>2, <1>3, <1>4, <1>5

LEMMA NotesSizedStep == ASSUME NotesInv, NotesSized, Notes!Next PROVE NotesSized'
<1>1. MaxCalls \in Nat /\ Len(puts) \in Nat /\ puts \in Seq(Notes!Settings) /\ setting \in Notes!Settings
  BY PageAssumption, LenProperties DEF NotesInv, SettingsTyped
<1>2. CASE Notes!Open \/ Notes!Close \/ Notes!Collect \/ Notes!BootstrapRead \/ Notes!BootstrapArrives
  BY <1>2 DEF NotesSized, Notes!Open, Notes!Close, Notes!Collect, Notes!BootstrapRead,
     Notes!BootstrapArrives, Notes!page
<1>3. ASSUME NEW kind, NEW id, NEW text, Notes!Call(kind, id, text) PROVE NotesSized'
  <2>1. /\ Cardinality(calls) < MaxCalls /\ \E x : calls' = calls \cup {x}
        /\ UNCHANGED <<timer, puts, stray>>
    BY <1>3, SameCalls DEF Notes!Call
  <2>2. astray' \in BOOLEAN
    BY <1>3 DEF Notes!Call, NotesSized
  <2>3. Limited(calls', MaxCalls)
    <3>1. PICK x : calls' = calls \cup {x}
      BY <2>1
    <3>2. Limited(calls \cup {x}, MaxCalls)
      BY <1>1, <2>1, LimitedSets DEF NotesSized
    <3>3. QED
      BY <3>1, <3>2, Zenon
  <2>4. QED
    BY <2>1, <2>2, <2>3 DEF NotesSized
<1>4. CASE \/ \E text \in Notes!Texts : Notes!CommitHighlight(text)
           \/ \E id \in Notes!Ids : \/ Notes!RemoveHighlight(id)
                                    \/ \E text \in Notes!Texts : Notes!SaveHighlightNote(id, text)
  BY <1>3, <1>4 DEF Notes!CommitHighlight, Notes!RemoveHighlight, Notes!SaveHighlightNote
<1>5. ASSUME NEW call \in calls, Notes!Serve(call) PROVE NotesSized'
  <2>1. (\E y : calls' = (calls \ {call}) \cup {y}) /\ UNCHANGED <<timer, puts, astray, stray>>
    BY <1>5 DEF Notes!Serve
  <2>2. Limited(calls', MaxCalls)
    <3>1. PICK y : calls' = (calls \ {call}) \cup {y}
      BY <2>1
    <3>2. Limited((calls \ {call}) \cup {y}, MaxCalls)
      BY <1>1, LimitedSets DEF NotesSized
    <3>3. QED
      BY <3>1, <3>2, Zenon
  <2>3. QED
    BY <2>1, <2>2 DEF NotesSized
<1>6. ASSUME NEW call \in calls, Notes!Answered(call) \/ Notes!Lost(call) PROVE NotesSized'
  <2>1. calls' = calls \ {call} /\ UNCHANGED <<timer, puts, stray>>
    BY <1>6 DEF Notes!Answered, Notes!Lost
  <2>2. astray' \in BOOLEAN
    BY <1>6 DEF Notes!Answered, Notes!Lost, NotesSized
  <2>3. QED
    BY <1>1, <2>1, <2>2, LimitedSets DEF NotesSized
<1>7. ASSUME NEW to \in Notes!Settings, Notes!Change(to) PROVE NotesSized'
  BY <1>7 DEF Notes!Change, NotesSized
<1>8. CASE Notes!PutReadingSettings
  <2>1. Len(puts') = Len(puts) + 1
    BY <1>1, <1>8, AppendProperties DEF Notes!PutReadingSettings
  <2>2. Len(puts) < MaxCalls /\ timer' = FALSE /\ UNCHANGED <<calls, astray, stray>>
    BY <1>8 DEF Notes!PutReadingSettings
  <2>3. Len(puts') <= MaxCalls
    BY <1>1, <2>1, <2>2
  <2>4. QED
    BY <2>2, <2>3 DEF NotesSized
<1>9. ASSUME NEW i \in DOMAIN puts, Notes!Put(i) PROVE NotesSized'
  <2>1. Len(puts') = Len(puts) - 1
    BY <1>9, PutsShorter DEF Notes!Put, NotesInv
  <2>2. stray' \in BOOLEAN /\ UNCHANGED <<calls, timer, astray>>
    BY <1>9 DEF Notes!Put, NotesSized
  <2>3. QED
    BY <1>1, <2>1, <2>2 DEF NotesSized
<1>10. QED
  BY <1>2, <1>4, <1>5, <1>6, <1>7, <1>8, <1>9 DEF Notes!Next

NotesWhole == On("notes") => NotesInv /\ NotesSized

LEMMA NotesSizedStarts == Init => NotesWhole
<1> SUFFICES ASSUME Init, On("notes") PROVE NotesSized
  BY NotesStart DEF NotesHold, NotesWhole
<1>1. Notes!Init
  BY DEF Init, On
<1>2. IsFiniteSet({}) /\ Cardinality({}) = 0 /\ MaxCalls \in Nat
  BY FS_EmptySet, PageAssumption
<1>3. Limited({}, MaxCalls)
  BY <1>2 DEF Limited
<1>4. Len(<<>>) <= MaxCalls
  BY <1>2
<1>5. calls = {} /\ puts = <<>> /\ timer = FALSE /\ astray = FALSE /\ stray = FALSE
  BY <1>1 DEF Notes!Init
<1>6. QED
  BY <1>3, <1>4, <1>5 DEF NotesSized

LEMMA NotesSizedGoOn == ASSUME NotesWhole, [Next]_vars PROVE NotesWhole'
<1>1. CASE ~On("notes")
  BY <1>1 DEF On, NotesWhole, Next, vars
<1>2. CASE On("notes")
  <2>1. Notes!Next \/ UNCHANGED notes
    BY <1>2 DEF Next, vars, On
  <2>2. NotesInv /\ NotesSized
    BY <1>2 DEF NotesWhole
  <2>3. NotesInv'
    BY <1>2, <2>2, NotesGoOn DEF NotesHold, On, Next, vars
  <2>4. UNCHANGED notes => NotesSized'
    BY <2>2 DEF notes, NotesSized
  <2>5. QED
    BY <2>1, <2>2, <2>3, <2>4, NotesSizedStep DEF NotesWhole
<1>3. QED
  BY <1>1, <1>2

LEMMA NotesTypes == ASSUME NotesInv, NotesSized PROVE Notes!TypeOK
<1>1. puts \in [1..Len(puts) -> Notes!Settings] /\ Len(puts) \in 0..MaxCalls
  <2>1. puts \in Seq(Notes!Settings) /\ MaxCalls \in Nat /\ Len(puts) <= MaxCalls
    BY PageAssumption DEF NotesInv, NotesSized, SettingsTyped
  <2>2. QED
    BY <2>1
<1>2. QED
  BY <1>1, SameCalls DEF NotesInv, NotesTyped, SettingsTyped, NotesSized, Limited, Notes!TypeOK

LEMMA ActivityTypes == ASSUME ActivityInv PROVE Activity!TypeOK
BY DEF ActivityInv, Activity!TypeOK, Chained, Sent, Sane

\* What the page's content, its notes and the reading time keep are of their types; what is under
\* way stays within the limits of the page.
LEMMA PageTypes ==
  Spec => [](/\ On("content") => Content!TypeOK
             /\ On("notes") => Notes!TypeOK
             /\ On("activity") => Activity!TypeOK
             /\ On("reading") => Position!TypeOK)
<1>1. ContentWhole => (On("content") => Content!TypeOK)
  BY ContentTypes DEF ContentWhole
<1>2. NotesWhole => (On("notes") => Notes!TypeOK)
  BY NotesTypes DEF NotesWhole
<1>3. ActivityHolds => (On("activity") => Activity!TypeOK)
  BY ActivityTypes DEF ActivityHolds
<1>4. Spec => []ContentWhole
  BY ContentSizedStarts, ContentSizedGoesOn, PTL DEF Spec
<1>5. Spec => []NotesWhole
  BY NotesSizedStarts, NotesSizedGoOn, PTL DEF Spec
<1>6. Spec => []ActivityHolds
  BY ActivityStarts, ActivityGoesOn, PTL DEF Spec
<1>7. QED
  BY <1>1, <1>2, <1>3, <1>4, <1>5, <1>6, PositionTypeCorrect, PTL
=============================================================================
