--------------------------- MODULE ReaderPosition ---------------------------
(***************************************************************************)
(* The reading position of a book between the page that shows it (Reader-  *)
(* Page.tsx with the restore coordinator, the restore session and the      *)
(* layout anchor of apps/web/src/reader), the reports it sends and the row *)
(* of reader_states, over several openings of the page.                    *)
(*                                                                         *)
(* The text is a line of places, one unit of height each, with an image    *)
(* and a guide between them that get their height late.  What moves the    *)
(* text is the reader, the restore, the compensation of a guide that       *)
(* arrives (which ends a smooth jump where it is), or, uncompensated, an   *)
(* image that loads.  Left out: places with no original text near the      *)
(* anchor line, where nothing is saved, and targets that cannot be         *)
(* measured or that a new manifest has moved.                              *)
(***************************************************************************)
EXTENDS ReaderConstants, FiniteSets, FiniteSetsExt

VARIABLES
  stored,   \* the row of reader_states
  reports,  \* positions on their way to the server
  answers,  \* responses on their way to the page
  cache,    \* resumePosition of the bootstrap in the query cache of the tab
  view,     \* the page: its layout, its scroll position and its refs
  clock,    \* clientObservedAt of the latest observation
  spent,    \* openings and moves so far
  chosen,   \* history: the places that count as the reader's last choice
  excused   \* history: since that choice something happened that may lose it

vars == <<stored, reports, answers, cache, view, clock, spent, chosen, excused>>

Places == 0..LastPlace
Assets == {"image", "guide"}
Before == [image |-> 2, guide |-> 1]  \* each one stands before this place
Window == 1                           \* height of the viewport below the anchor line

Position == [place: Places, at: 1..MaxReports]
Report   == [place: Places, at: 1..MaxReports, beacon: BOOLEAN]
Phases   == {"normal", "restoring", "settled", "cancelled"}
View == [open: BOOLEAN, phase: Phases, target: Places, scroll: Nat, loaded: SUBSET Assets,
         wrote: Nat \cup {None}, scrolled: BOOLEAN, glide: Nat \cup {None},
         timer: BOOLEAN, warm: BOOLEAN, still: 0..2, ready: BOOLEAN]

TypeOK ==
  /\ stored \in Position \cup {None} /\ reports \in SUBSET Report
  /\ answers \in SUBSET Position
  /\ cache \in [there: BOOLEAN, resume: Position \cup {None}]
  /\ view \in View /\ clock \in 0..MaxReports
  /\ spent \in [opens: 0..MaxOpens, moves: 0..MaxMoves]
  /\ chosen \in (SUBSET Places) \ {{}} /\ excused \in BOOLEAN

(***************************************************************************)
(* The layout                                                              *)
(***************************************************************************)
Top(loaded, p) == p + Cardinality({a \in loaded : Before[a] <= p})
Reach(loaded)  == Top(loaded, LastPlace) - Window
Clamped(loaded, s) == IF s > Reach(loaded) THEN Reach(loaded) ELSE s

\* nearestReaderAnchor: the text at the anchor line.
PlaceAt(loaded, s) == Max({p \in Places : Top(loaded, p) <= s})
Shown(v) == PlaceAt(v.loaded, v.scroll)

Closed == [open |-> FALSE, phase |-> "normal", target |-> 0, scroll |-> 0, loaded |-> {},
           wrote |-> None, scrolled |-> FALSE, glide |-> None,
           timer |-> FALSE, warm |-> FALSE, still |-> 0, ready |-> FALSE]

Init ==
  /\ stored = None /\ reports = {} /\ answers = {}
  /\ cache = [there |-> FALSE, resume |-> None]
  /\ view = Closed /\ clock = 0 /\ spent = [opens |-> 0, moves |-> 0]
  /\ chosen = {0} /\ excused = FALSE

\* setScrollTop by the page itself: the browser clamps it, and tells of it later if it moved.
Written(v, s) ==
  [v EXCEPT !.scroll = Clamped(v.loaded, s), !.wrote = Clamped(v.loaded, s), !.glide = None,
            !.scrolled = @ \/ Clamped(v.loaded, s) # v.scroll]

(***************************************************************************)
(* Reports                                                                 *)
(***************************************************************************)
CanReport == clock < MaxReports
Observe(p, beacon) ==
  /\ CanReport /\ clock' = clock + 1
  /\ reports' = reports \cup {[place |-> p, at |-> clock + 1, beacon |-> beacon]}

\* reportObservation: nothing is reported while the coordinator owns the scroll position.
ReportObservation(v) ==
  IF v.phase = "restoring" THEN UNCHANGED <<reports, clock>> ELSE Observe(Shown(v), FALSE)

Newest == LET known == reports \cup ({stored} \ {None}) IN
  IF known = {} THEN 0 ELSE (CHOOSE r \in known : \A q \in known : q.at <= r.at).place

\* persistReaderPosition keeps what was observed last; a focus report is answered.
Deliver(r) ==
  /\ r \in reports /\ reports' = reports \ {r}
  /\ stored' = IF stored = None \/ r.at >= stored.at
               THEN [place |-> r.place, at |-> r.at] ELSE stored
  /\ answers' = IF r.beacon \/ ~cache.there THEN answers ELSE answers \cup {stored'}
  /\ UNCHANGED <<cache, view, clock, spent, chosen, excused>>

Lose(r) ==
  /\ r \in reports /\ reports' = reports \ {r}
  /\ excused' = (excused \/ \A q \in reports : q.at <= r.at)
  /\ UNCHANGED <<stored, answers, cache, view, clock, spent, chosen>>

\* mergeReaderBootstrap: an older answer does not take a newer resume position back.
Merged(previous, incoming) ==
  IF previous # None /\ previous.at > incoming.at THEN previous ELSE incoming

Answer(a) ==
  /\ a \in answers /\ answers' = answers \ {a}
  /\ cache' = [cache EXCEPT !.resume = Merged(@, a)]
  /\ UNCHANGED <<stored, reports, view, clock, spent, chosen, excused>>

(***************************************************************************)
(* Opening: the restore effect and the coordinator                         *)
(***************************************************************************)
\* correct(): pins the target to the anchor line; a frame without movement is a still one.
Corrected(v) ==
  IF Top(v.loaded, v.target) # v.scroll
  THEN [Written(v, Top(v.loaded, v.target)) EXCEPT !.still = 0]
  ELSE [v EXCEPT !.still = IF @ < 2 THEN @ + 1 ELSE @]

\* start() corrects at once; the placement does not count as a still frame.
Started(v, resume) ==
  IF resume = None THEN v
  ELSE [Corrected([v EXCEPT !.phase = "restoring", !.target = resume.place]) EXCEPT !.still = 0]

\* The tab still has the bootstrap of the former visit, or the server is asked.
Open(fromCache) ==
  /\ ~view.open /\ spent.opens < MaxOpens /\ (fromCache => cache.there)
  /\ LET resume == IF fromCache THEN cache.resume ELSE stored IN
       /\ \E loaded \in SUBSET Assets :
            view' = Started([Closed EXCEPT !.open = TRUE, !.loaded = loaded, !.warm = TRUE], resume)
       /\ cache' = [there |-> TRUE, resume |-> resume]
       /\ excused' = (excused \/ (IF resume = None THEN 0 ELSE resume.place) \notin chosen)
  /\ answers' = IF fromCache THEN answers ELSE {}
  /\ spent' = [spent EXCEPT !.opens = @ + 1]
  /\ UNCHANGED <<stored, reports, clock, chosen>>

\* The end of the text cannot be pinned to the anchor line: where it ends is near enough.
NearEnough(v) ==
  IF Top(v.loaded, v.target) > Reach(v.loaded) THEN {Shown(v)} ELSE {}

\* stop(): the coordinator and what it kept are gone.
Stopped(v, phase) == [v EXCEPT !.phase = phase, !.target = 0, !.still = 0, !.ready = FALSE]

\* tick(): correct, then settle at the deadline or when stable, and report once.
Frame ==
  /\ view.open /\ view.phase = "restoring"
  /\ LET v == Corrected(view) IN
       \/ /\ ~(v.ready /\ v.still = 2) /\ view' = v
          /\ UNCHANGED <<reports, clock, chosen>>
       \/ \* stable, or maxDurationMs have passed
          /\ view' = Stopped(v, "settled")
          /\ chosen' = chosen \cup NearEnough(v)
          /\ ReportObservation(view')
  /\ UNCHANGED <<stored, answers, cache, spent, excused>>

\* The fonts and the images before the target have loaded.
AssetsReady ==
  /\ view.open /\ view.phase = "restoring" /\ ~view.ready
  /\ Before["image"] <= view.target => "image" \in view.loaded
  /\ view' = [view EXCEPT !.ready = TRUE]
  /\ UNCHANGED <<stored, reports, answers, cache, clock, spent, chosen, excused>>

(***************************************************************************)
(* What moves the text                                                     *)
(***************************************************************************)
ImageLoads ==
  /\ view.open /\ "image" \notin view.loaded
  /\ view' = [view EXCEPT !.loaded = @ \cup {"image"}]
  /\ excused' = (excused \/ (view.phase # "restoring" /\ Shown(view') # Shown(view)))
  /\ UNCHANGED <<stored, reports, answers, cache, clock, spent, chosen>>

\* compensateReaderLayoutAnchor, in the commit that adds the guide: the place that was at the
\* anchor line keeps its distance from it, unless the coordinator owns the scroll position.
Compensated(v, loaded) ==
  LET w == [v EXCEPT !.loaded = loaded]
      delta == Top(loaded, Shown(v)) - Top(v.loaded, Shown(v)) IN
    IF v.phase = "restoring" \/ delta = 0 THEN w ELSE Written(w, v.scroll + delta)

GuideArrives ==
  /\ view.open /\ "guide" \notin view.loaded
  /\ view' = Compensated(view, view.loaded \cup {"guide"})
  /\ excused' = (excused \/ view.glide # view'.glide)
  /\ UNCHANGED <<stored, reports, answers, cache, clock, spent, chosen>>

(***************************************************************************)
(* The reader                                                              *)
(***************************************************************************)
Move == spent.moves < MaxMoves /\ spent' = [spent EXCEPT !.moves = @ + 1]
\* cancelToUser: wheel, touch, pointer or key.
Cancelled(v) == IF v.phase = "restoring" THEN Stopped(v, "cancelled") ELSE v

UserScrolls ==
  /\ view.open /\ Move
  /\ \E s \in 0..Reach(view.loaded) :
       /\ s # view.scroll
       /\ view' = [Cancelled(view) EXCEPT !.scroll = s, !.scrolled = TRUE, !.glide = None]
       /\ chosen' = {Shown(view')}
  /\ excused' = FALSE
  /\ UNCHANGED <<stored, reports, answers, cache, clock>>

\* A touch that does not scroll leaves the text where the last frame has put it.
UserTouches ==
  /\ view.open /\ view.phase = "restoring"
  /\ view' = Cancelled(view)
  /\ excused' = (excused \/ Shown(view) \notin chosen)
  /\ UNCHANGED <<stored, reports, answers, cache, clock, spent, chosen>>

\* jumpToOrder: the target is saved at once, the text glides there.  The table of contents lies
\* outside of the scroll container: a restore under way is not cancelled and takes the text back.
Jump ==
  /\ view.open /\ Move
  /\ \E p \in Places :
       LET s == Clamped(view.loaded, Top(view.loaded, p)) IN
       /\ view' = [view EXCEPT !.glide = IF s = view.scroll THEN None ELSE s]
       /\ chosen' = {p, PlaceAt(view.loaded, s)}
       /\ Observe(p, FALSE)
  /\ excused' = (view.phase = "restoring")
  /\ UNCHANGED <<stored, answers, cache>>

GlideEnds ==
  /\ view.open /\ view.glide # None
  /\ view' = [view EXCEPT !.scroll = Clamped(view.loaded, view.glide), !.scrolled = TRUE, !.glide = None]
  /\ excused' = (excused \/ Shown(view') \notin chosen)
  /\ UNCHANGED <<stored, reports, answers, cache, clock, spent, chosen>>

\* handleScroll: a scroll that ends where the page itself has written is not the reader's.
ScrollEvent ==
  /\ view.open /\ view.scrolled
  /\ view' = [view EXCEPT !.scrolled = FALSE, !.wrote = None,
                !.timer = @ \/ (view.wrote # view.scroll /\ view.phase # "restoring")]
  /\ UNCHANGED <<stored, reports, answers, cache, clock, spent, chosen, excused>>

\* The reports of the page: 800 ms after the last scroll, and 300 ms after it was opened.
PositionTimer ==
  /\ view.open /\ view.timer
  /\ view' = [view EXCEPT !.timer = FALSE]
  /\ ReportObservation(view)
  /\ UNCHANGED <<stored, answers, cache, spent, chosen, excused>>

WarmTimer ==
  /\ view.open /\ view.warm
  /\ view' = [view EXCEPT !.warm = FALSE]
  /\ IF view.phase = "settled" THEN UNCHANGED <<reports, clock>> ELSE ReportObservation(view)
  /\ UNCHANGED <<stored, answers, cache, spent, chosen, excused>>

\* Mutant of Flush: what is shown is saved although it is not restored yet.
FlushAlways(v) ==
  /\ Observe(Shown(v), TRUE)
  /\ excused' = (excused \/ v.glide # None)

\* flush: the tab is hidden, or the page goes away; a jump that still glides is overwritten.
Flush(v) ==
  /\ IF v.phase = "restoring" THEN UNCHANGED <<reports, clock>> ELSE Observe(Shown(v), TRUE)
  /\ excused' = (excused \/ v.glide # None)

Hide ==
  /\ view.open /\ Flush(view)
  /\ UNCHANGED <<stored, answers, cache, view, spent, chosen>>

PageHide ==
  /\ view.open /\ Flush(view)
  /\ view' = Closed /\ cache' = [there |-> FALSE, resume |-> None] /\ answers' = {}
  /\ UNCHANGED <<stored, spent, chosen>>

\* Another route of the application, or a browser that is killed: nothing is flushed, and
\* what was not reported is lost.
Leave(killed) ==
  /\ view.open /\ view' = Closed
  /\ IF killed THEN cache' = [there |-> FALSE, resume |-> None] /\ answers' = {}
     ELSE UNCHANGED <<cache, answers>>
  /\ excused' = (excused \/ Newest \notin chosen)
  /\ UNCHANGED <<stored, reports, clock, spent, chosen>>

Next ==
  \/ \E r \in reports : Deliver(r) \/ Lose(r)
  \/ \E a \in answers : Answer(a)
  \/ \E fromCache \in BOOLEAN : Open(fromCache)
  \/ Frame \/ AssetsReady \/ ImageLoads \/ GuideArrives
  \/ UserScrolls \/ UserTouches \/ Jump \/ GlideEnds \/ ScrollEvent
  \/ PositionTimer \/ WarmTimer
  \/ Hide \/ PageHide \/ \E killed \in BOOLEAN : Leave(killed)

Spec == Init /\ [][Next]_vars

(***************************************************************************)
(* Properties                                                              *)
(***************************************************************************)
\* Once the page is closed and no report is on its way, the stored position is where the
\* reader last chose to be, whatever was restored, compensated, reported and merged since
\* and in whatever order, unless the choice was never reported, its report got lost, the
\* page was opened on an older position meanwhile, a late image moved the text under the
\* reader, or a jump was cut short by a restore, by a guide or by leaving.
LastChoiceIsStored ==
  ~view.open /\ reports = {} /\ ~excused =>
    IF stored = None THEN chosen = {0} ELSE stored.place \in chosen
=============================================================================
