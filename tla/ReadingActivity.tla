-------------------------- MODULE ReadingActivity --------------------------
(***************************************************************************)
(* The reading time of a book, from the tracker of an open reader page     *)
(* (apps/web/src/reader/session.ts, driven by ReaderPage.tsx) through the  *)
(* activity slices it sends to the session, day and book totals of the     *)
(* server (recordReadingActivitySlice in apps/api/src/user-books.ts).      *)
(*                                                                         *)
(* The clock counts units of maxTickMs.  A timer of the page may fire late *)
(* (a throttled tab, a machine asleep), a slice may be lost, delayed or    *)
(* delivered twice.  What a slice says of the position, and the speed      *)
(* estimate made of it, is left out.                                       *)
(***************************************************************************)
EXTENDS ReaderConstants, FiniteSets

VARIABLES
  now,       \* the clock
  tracker,   \* ReadingSessionTracker, wasActive of the page included
  credited,  \* history: the time the tracker has counted as read
  flight,    \* slices sent and not lost
  recorded,  \* reading_activity_slices
  session,   \* reading_sessions: the row of this tracker
  daily,     \* daily_reading_totals and reading_daily_book_stats (they move together)
  total      \* book_reading_stats

vars == <<now, tracker, credited, flight, recorded, session, daily, total>>

Days == {1, 2}
Times == Nat \cup {Never}
Slice == [sequence: Nat, from: Nat, to: Nat]
Tracker == [open: BOOLEAN, visible: BOOLEAN, wasActive: BOOLEAN, sequence: Nat,
            from: Times, lastCredited: Times, effective: Nat,
            lastTick: Times, lastActivity: Times]

Session == [from: Times, to: Times, effective: Nat]
Daily == [Days -> Nat]

TypeOK ==
  /\ now \in Nat /\ tracker \in Tracker /\ credited \in Nat
  /\ flight \in SUBSET Slice /\ recorded \in SUBSET Slice
  /\ session \in Session
  /\ daily \in Daily /\ total \in Nat

Init ==
  /\ now = 0 /\ credited = 0 /\ flight = {} /\ recorded = {}
  /\ tracker = [open |-> FALSE, visible |-> TRUE, wasActive |-> FALSE, sequence |-> 0,
                from |-> Never, lastCredited |-> Never, effective |-> 0,
                lastTick |-> Never, lastActivity |-> Never]
  /\ session = [from |-> Never, to |-> Never, effective |-> 0]
  /\ daily = [d \in Days |-> 0] /\ total = 0

Lower(a, b)  == IF a < b THEN a ELSE b
Higher(a, b) == IF a > b THEN a ELSE b

(***************************************************************************)
(* The tracker                                                             *)
(***************************************************************************)
IsActive(t) ==
  /\ t.visible /\ t.lastActivity # Never
  /\ now - t.lastActivity <= IdleThreshold

Opened(t) ==
  IF t.open THEN t
  ELSE [t EXCEPT !.open = TRUE, !.from = now, !.lastCredited = now, !.effective = 0,
                 !.lastTick = now]

\* The time a tick credits: since the last one, but no more than a timely tick is worth.
Elapsed(t) == IF t.lastTick = Never THEN 0 ELSE Lower(now - t.lastTick, MaxTick)

Ticked(t) ==
  IF IsActive(t)
  THEN LET o == Opened(t) IN
       [o EXCEPT !.lastTick = now, !.lastCredited = now, !.effective = @ + Elapsed(o)]
  ELSE [t EXCEPT !.lastTick = now]

Credit(t) == IF IsActive(t) THEN Elapsed(Opened(t)) ELSE 0

HasSlice(t) == t.open /\ t.effective > 0
SliceOf(t)  == [sequence |-> t.sequence + 1, from |-> t.from, to |-> t.lastCredited]

\* Mutant of Sliced: the next slice starts where this one did.
SlicedAgain(t) ==
  IF HasSlice(t) THEN [t EXCEPT !.sequence = @ + 1, !.effective = 0] ELSE t

\* What activitySlice leaves: the next slice starts where this one ends.
Sliced(t) ==
  IF HasSlice(t)
  THEN [t EXCEPT !.sequence = @ + 1, !.from = t.lastCredited, !.effective = 0] ELSE t

Ended(t) ==
  [t EXCEPT !.open = FALSE, !.from = Never, !.lastCredited = Never, !.effective = 0]

\* flushActivitySlice: the slice of t, if there is one, is sent.
Send(t) == flight' = IF HasSlice(t) THEN flight \cup {SliceOf(t)} ELSE flight

(***************************************************************************)
(* The page: each handler is one task of the browser                       *)
(***************************************************************************)
Server == <<recorded, session, daily, total>>

Pass == now < MaxTime /\ now' = now + 1 /\ UNCHANGED <<tracker, credited, flight, Server>>

\* The pointer, a key, a touch, scrolling.
RecordActivity ==
  /\ tracker' = [tracker EXCEPT !.lastActivity = now]
  /\ UNCHANGED <<now, credited, flight, Server>>

\* The tick timer: when reading stops, the slice is sent and the interval ends.
TickTimer ==
  LET t == Ticked(tracker)
      stops == tracker.wasActive /\ ~IsActive(tracker) IN
  /\ credited' = credited + Credit(tracker)
  /\ IF stops
     THEN Send(t) /\ tracker' = [Ended(Sliced(t)) EXCEPT !.wasActive = FALSE]
     ELSE UNCHANGED flight /\ tracker' = [t EXCEPT !.wasActive = IsActive(tracker)]
  /\ UNCHANGED <<now, Server>>

\* The beat timer, and a node scrolled into view.
Flush ==
  /\ Send(tracker)
  /\ tracker' = Sliced(tracker)
  /\ UNCHANGED <<now, credited, Server>>

\* The page is hidden (told to the tracker first), unloaded or left: a last tick, the
\* slice, the end of the interval.
Leave(visible) ==
  LET s == [tracker EXCEPT !.visible = visible]
      t == Ticked(s) IN
  /\ credited' = credited + Credit(s)
  /\ Send(t)
  /\ tracker' = [Ended(Sliced(t)) EXCEPT !.wasActive = FALSE]
  /\ UNCHANGED <<now, Server>>

OnVisibility ==
  \/ tracker.visible /\ Leave(FALSE)
  \/ /\ ~tracker.visible
     /\ tracker' = [tracker EXCEPT !.visible = TRUE]
     /\ UNCHANGED <<now, credited, flight, Server>>

OnPageHide == Leave(tracker.visible)

Lose(s) == s \in flight /\ flight' = flight \ {s} /\ UNCHANGED <<now, tracker, credited, Server>>

(***************************************************************************)
(* The server                                                              *)
(***************************************************************************)
Span(s) == s.to - s.from

\* splitActivitySliceByLocalDay
Portion(s, d) ==
  IF d = 1 THEN Lower(s.to, Midnight) - Lower(s.from, Midnight)
  ELSE Higher(s.to, Midnight) - Higher(s.from, Midnight)

\* Mutant of RecordSlice: a slice that is there already is counted again.
RecordSliceAgain(s) ==
  /\ s \in flight
  /\ flight' \in {flight, flight \ {s}}
  /\ IF Span(s) > MaxSpan THEN UNCHANGED Server
     ELSE /\ recorded' = recorded \cup {s}
          /\ session' = [from |-> IF session.from = Never THEN s.from ELSE Lower(session.from, s.from),
                         to   |-> IF session.to = Never THEN s.to ELSE Higher(session.to, s.to),
                         effective |-> session.effective + Span(s)]
          /\ daily' = [d \in Days |-> daily[d] + Portion(s, d)]
          /\ total' = total + Span(s)
  /\ UNCHANGED <<now, tracker, credited>>

\* One transaction: a slice (by its sequence) enters once, and every total with it; a
\* slice that spans too long is refused.  It may arrive again.
RecordSlice(s) ==
  LET new == \A r \in recorded : r.sequence # s.sequence IN
  /\ s \in flight
  /\ flight' \in {flight, flight \ {s}}
  /\ IF Span(s) > MaxSpan THEN UNCHANGED Server
     ELSE /\ recorded' = IF new THEN recorded \cup {s} ELSE recorded
          /\ session' = [from |-> IF session.from = Never THEN s.from ELSE Lower(session.from, s.from),
                         to   |-> IF session.to = Never THEN s.to ELSE Higher(session.to, s.to),
                         effective |-> session.effective + IF new THEN Span(s) ELSE 0]
          /\ daily' = [d \in Days |-> daily[d] + IF new THEN Portion(s, d) ELSE 0]
          /\ total' = total + IF new THEN Span(s) ELSE 0
  /\ UNCHANGED <<now, tracker, credited>>

Next ==
  \/ Pass \/ RecordActivity \/ TickTimer \/ Flush \/ OnVisibility \/ OnPageHide
  \/ \E s \in flight : Lose(s) \/ RecordSlice(s)

Spec == Init /\ [][Next]_vars

(***************************************************************************)
(* Properties                                                              *)
(***************************************************************************)
\* The moments of a day that the recorded slices cover.
Moments(d) ==
  {m \in 1..now : /\ (m <= Midnight) = (d = 1)
                  /\ \E s \in recorded : s.from < m /\ m <= s.to}

\* However slices are cut, repeated, reordered or lost, and across midnight, no moment
\* is counted twice and each total is the time its slices cover (session.ts 240-271,
\* user-books.ts 2086-2254).
EachMomentCountedOnce ==
  /\ \A d \in Days : daily[d] = Cardinality(Moments(d))
  /\ total = daily[1] + daily[2] /\ session.effective = total

\* "Cap a single tick's credit so a throttled/background timer that fires late can't
\* dump a huge delta" (session.ts 59): what is counted as read was credited by ticks.
OnlyCreditedTimeCounts == total <= credited
=============================================================================
