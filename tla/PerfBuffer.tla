------------------------------ MODULE PerfBuffer ------------------------------
(***************************************************************************)
(* The performance log of one process (createPerfSink in                   *)
(* packages/observability/src/perf-sink.ts): requests and agent calls are  *)
(* buffered, written in batches by a timer or when a batch is full, and    *)
(* flushed when the process closes.  JavaScript runs a turn to its end, so *)
(* that what a promise's finally does goes with the answer it waited for.  *)
(***************************************************************************)
EXTENDS LibraryConstants, Sequences

VARIABLES
  buffer,    \* the events not yet in a batch, oldest first
  batch,     \* what flush took of them and did not settle yet
  timer,     \* the flush timer is set
  flushing,  \* the insert under way: none, that of http rows or that of agent rows
  closing,   \* "open", "closing" (close awaits a flush) or "closed"
  recorded,  \* number of events so far: the next one is named so
  written,   \* history: the events whose insert succeeded
  dropped    \* history: those dropped for want of room, or with a batch that failed

vars == <<buffer, batch, timer, flushing, closing, recorded, written, dropped>>

Kinds  == {"http", "agent"}
Events == [name : 1..MaxEvents, kind : Kinds]
Names(events) == {events[i].name : i \in DOMAIN events}

TypeOK ==
  /\ buffer \in Seq(Events) /\ batch \in SUBSET Events
  /\ timer \in BOOLEAN /\ flushing \in {"none"} \cup Kinds
  /\ closing \in {"open", "closing", "closed"}
  /\ recorded \in 0..MaxEvents
  /\ written \subseteq 1..MaxEvents /\ dropped \subseteq 1..MaxEvents

Init ==
  /\ buffer = <<>> /\ batch = {} /\ timer = FALSE /\ flushing = "none" /\ closing = "open"
  /\ recorded = 0 /\ written = {} /\ dropped = {}

(***************************************************************************)
(* flush and schedule                                                      *)
(***************************************************************************)
Take(events) == {events[i] : i \in 1..Len(events) \cap 1..MaxBatch}
Rest(events) == SubSeq(events, MaxBatch + 1, Len(events))
First(rows)  == IF \E e \in rows : e.kind = "http" THEN "http" ELSE "agent"

\* A batch is taken of these events, and the timer is cleared.
StartFlush(events) ==
  /\ batch' = Take(events) /\ buffer' = Rest(events)
  /\ flushing' = First(Take(events))
  /\ timer' = FALSE

\* The mutated form: what was recorded during the flush is left to the next event.
SettledOnly(events) ==
  /\ flushing' = "none" /\ batch' = {} /\ buffer' = events /\ UNCHANGED timer

\* The flush has settled: the next begins at once if a batch is full, or the timer is set.
Settled(events) ==
  IF closing = "open" /\ Len(events) >= MaxBatch THEN StartFlush(events)
  ELSE /\ flushing' = "none" /\ batch' = {} /\ buffer' = events
       /\ timer' = (timer \/ (closing = "open" /\ events # <<>>))

(***************************************************************************)
(* Events                                                                  *)
(***************************************************************************)
\* The oldest give way; a full batch is flushed unless a flush is under way.
Kept(events) == SubSeq(events, Len(events) - MaxBuffer + 1, Len(events))

Enqueue(event) ==
  LET all    == Append(buffer, event)
      events == IF Len(all) > MaxBuffer THEN Kept(all) ELSE all
  IN /\ dropped' = dropped \cup (Names(all) \ Names(events))
     /\ IF flushing = "none" /\ Len(events) >= MaxBatch THEN StartFlush(events)
        ELSE /\ buffer' = events /\ UNCHANGED <<batch, flushing>>
             /\ timer' = (timer \/ Len(events) < MaxBatch)

Record(kind) ==
  /\ recorded < MaxEvents /\ closing = "open"
  /\ recorded' = recorded + 1
  /\ Enqueue([name |-> recorded + 1, kind |-> kind])
  /\ UNCHANGED <<closing, written>>

\* A response was sent.
RecordHttp == Record("http")

\* A call of a model returned or threw.
RecordAgentCall == Record("agent")

TimerFires ==
  /\ timer
  /\ IF flushing = "none" /\ buffer # <<>> THEN StartFlush(buffer)
     ELSE timer' = FALSE /\ UNCHANGED <<buffer, batch, flushing>>
  /\ UNCHANGED <<closing, recorded, written, dropped>>

Rows(kind) == {e \in batch : e.kind = kind}

\* The rows of one kind are in the database; those of agent calls go after the others.
Inserted ==
  /\ flushing # "none"
  /\ written' = written \cup {e.name : e \in Rows(flushing)}
  /\ IF flushing = "http" /\ Rows("agent") # {}
     THEN /\ flushing' = "agent" /\ batch' = Rows("agent")
          /\ UNCHANGED <<buffer, timer>>
     ELSE Settled(buffer)
  /\ UNCHANGED <<closing, recorded, dropped>>

\* The insert failed: nothing more of the batch is tried.
InsertFails ==
  /\ flushing # "none"
  /\ dropped' = dropped \cup {e.name : e \in batch}
  /\ Settled(buffer)
  /\ UNCHANGED <<closing, recorded, written>>

(***************************************************************************)
(* close                                                                   *)
(***************************************************************************)
Close ==
  /\ closing = "open" /\ closing' = "closing" /\ timer' = FALSE
  /\ UNCHANGED <<buffer, batch, flushing, recorded, written, dropped>>

\* One flush after the other until nothing is left.
CloseFlushes ==
  /\ closing = "closing" /\ flushing = "none"
  /\ IF buffer # <<>> THEN StartFlush(buffer) /\ UNCHANGED closing
     ELSE closing' = "closed" /\ UNCHANGED <<buffer, batch, timer, flushing>>
  /\ UNCHANGED <<recorded, written, dropped>>

Next ==
  \/ RecordHttp \/ RecordAgentCall \/ TimerFires \/ Inserted \/ InsertFails
  \/ Close \/ CloseFlushes

Spec == Init /\ [][Next]_vars

(***************************************************************************)
(* Properties                                                              *)
(***************************************************************************)
\* Every event is written, dropped, in the batch or in the buffer, and in one of them only.
Accounted ==
  LET places == <<written, dropped, {e.name : e \in batch}, Names(buffer)>>
  IN /\ UNION {places[i] : i \in 1..4} = 1..recorded
     /\ \A i, j \in 1..4 : i # j => places[i] \cap places[j] = {}

\* The buffer keeps within its size, and while it holds anything a timer or a flush is going to
\* take it (a flush that settles, if the timer fired meanwhile); a closed log holds nothing.
Watched ==
  /\ Len(buffer) <= MaxBuffer
  /\ closing = "open" /\ buffer # <<>> => timer \/ flushing # "none"
  /\ closing = "closed" => buffer = <<>> /\ batch = {}

\* No event is lost, written twice or forgotten in the buffer, whichever insert fails and
\* whatever is recorded while a flush or close is under way.
EventsAreKept == Accounted /\ Watched
===============================================================================
