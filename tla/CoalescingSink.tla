--------------------------- MODULE CoalescingSink ---------------------------
(***************************************************************************)
(* The event sink between the agent loop of one attempt and the projector  *)
(* of its run (packages/agent-kit/src/runtime/coalescing-agent-event-sink  *)
(* .ts): streamed deltas are taken at once and merged with a compatible    *)
(* delta at the tail of the queue, any other event and flush() are         *)
(* answered when the pump has passed them, and the first failure of the    *)
(* projection rejects everything that waits and everything that comes.     *)
(*                                                                         *)
(* The events of an attempt are numbered as they are accepted; the delta   *)
(* of an item is the sequence of the numbers whose text it carries.  Code  *)
(* between two awaits is one action: a call that finds the pump at rest    *)
(* runs it up to its first await.                                          *)
(***************************************************************************)
EXTENDS SetupPageConstants, Sequences

VARIABLES
  log,        \* the merge keys of the accepted events (NoKey: not a delta)
  queue,      \* pendingQueue
  active,     \* the item whose projection is awaited
  projected,  \* the events handed to the projector and acknowledged, in order
  promise,    \* the call of each caller and the number of the event it waits for
  failed,     \* the projection has failed
  flushes     \* barriers so far (bound: SinkFlushes)

vars == <<log, queue, active, projected, promise, failed, flushes>>

\* The merge key of a delta: its slot, and the id of its tool call once that is known.
Key   == [slot: Texts, id: {None}] \cup [slot: Tools, id: Ids \cup {None}]
NoKey == [slot |-> None, id |-> None]
Item  == [kind: {"event", "barrier"}, key: Key \cup {NoKey}, delta: Seq(Nat),
          waiter: Callers \cup {None}]
NoItem == [kind |-> "none", key |-> NoKey, delta |-> <<>>, waiter |-> None]

TypeOK ==
  /\ log \in Seq(Key \cup {NoKey})
  /\ queue \in Seq(Item)
  /\ active \in Item \cup {NoItem}
  /\ projected \in Seq(Nat)
  /\ promise \in [Callers -> [state: {"none", "waiting", "resolved", "rejected"}, upto: Nat]]
  /\ failed \in BOOLEAN
  /\ flushes \in Nat

Init ==
  /\ log = <<>> /\ queue = <<>> /\ active = NoItem /\ projected = <<>>
  /\ promise = [c \in Callers |-> [state |-> "none", upto |-> 0]]
  /\ failed = FALSE /\ flushes = 0

Event(key, n, waiter) == [kind |-> "event", key |-> key, delta |-> <<n>>, waiter |-> waiter]
Barrier(waiter) == [kind |-> "barrier", key |-> NoKey, delta |-> <<>>, waiter |-> waiter]

\* Mutant of Compatible: the tool call is not compared.
CompatibleSlots(previous, next) == previous.slot = next.slot

\* Two deltas of one content slot, unless both name a tool call and not the same.
Compatible(previous, next) ==
  /\ previous.slot = next.slot
  /\ previous.id = None \/ next.id = None \/ previous.id = next.id

\* Mutant of MergedKey: the id of the earlier delta is forgotten.
MergedKeyForgetful(previous, next) == next

MergedKey(previous, next) ==
  [next EXCEPT !.id = IF next.id # None THEN next.id ELSE previous.id]

\* Mutant of Merge: the new text is put before the old one.
MergeBefore(tail, key, n) ==
  [tail EXCEPT !.key = MergedKey(tail.key, key), !.delta = <<n>> \o tail.delta]

Merge(tail, key, n) ==
  [tail EXCEPT !.key = MergedKey(tail.key, key), !.delta = Append(tail.delta, n)]

(***************************************************************************)
(* The pump                                                                *)
(***************************************************************************)
\* Up to its first await the pump resolves the barriers at the head of the queue.
Passed(q) == CHOOSE k \in 0..Len(q) :
               /\ \A i \in 1..k : q[i].kind = "barrier"
               /\ k < Len(q) => q[k + 1].kind = "event"

\* Mutant of Pump: a barrier behind the next event is resolved with those before it.
PumpEagerly(q, W, calls) ==
  LET k == Passed(q) IN
  /\ active' = IF k = Len(q) THEN NoItem ELSE q[k + 1]
  /\ queue' = IF k = Len(q) THEN <<>> ELSE SubSeq(q, k + 2, Len(q))
  /\ promise' = [c \in Callers |->
       IF c \in W \/ \E i \in 1..Len(q) : q[i].kind = "barrier" /\ q[i].waiter = c
       THEN [calls[c] EXCEPT !.state = "resolved"] ELSE calls[c]]

\* Resolves those barriers, and the waiters in W, and awaits the next event.
Pump(q, W, calls) ==
  LET k == Passed(q) IN
  /\ active' = IF k = Len(q) THEN NoItem ELSE q[k + 1]
  /\ queue' = IF k = Len(q) THEN <<>> ELSE SubSeq(q, k + 2, Len(q))
  /\ promise' = [c \in Callers |->
       IF c \in W \/ \E i \in 1..k : q[i].waiter = c
       THEN [calls[c] EXCEPT !.state = "resolved"] ELSE calls[c]]

\* A pushed item is pumped at once when the pump is at rest.
Push(item, calls) ==
  IF active = NoItem THEN Pump(Append(queue, item), {}, calls)
  ELSE /\ queue' = Append(queue, item) /\ promise' = calls /\ UNCHANGED active

Calls(c, upto) == [promise EXCEPT ![c] = [state |-> "waiting", upto |-> upto]]
Idle(c) == promise[c].state # "waiting"

(***************************************************************************)
(* The calls                                                               *)
(***************************************************************************)
\* A delta joins a compatible delta at the tail, or is pushed; nobody waits.
AcceptDelta(key) ==
  LET tail == queue[Len(queue)]
      n    == Len(log) + 1 IN
  /\ ~failed /\ Len(log) + flushes < SinkEvents
  /\ log' = Append(log, key)
  /\ IF queue # <<>> /\ tail.kind = "event" /\ tail.key # NoKey /\ Compatible(tail.key, key)
     THEN /\ queue' = [queue EXCEPT ![Len(queue)] = Merge(tail, key, n)]
          /\ UNCHANGED <<active, promise>>
     ELSE Push(Event(key, n, None), promise)
  /\ UNCHANGED <<projected, failed, flushes>>

\* Any other event is answered when it is projected.
Accept(c) ==
  LET n == Len(log) + 1 IN
  /\ ~failed /\ Idle(c) /\ Len(log) + flushes < SinkEvents
  /\ log' = Append(log, NoKey)
  /\ Push(Event(NoKey, n, c), Calls(c, n))
  /\ UNCHANGED <<projected, failed, flushes>>

\* flush() is answered when everything accepted before it is projected.
Flush(c) ==
  /\ ~failed /\ Idle(c)
  /\ flushes < SinkFlushes /\ Len(log) + flushes < SinkEvents
  /\ flushes' = flushes + 1
  /\ Push(Barrier(c), Calls(c, Len(log)))
  /\ UNCHANGED <<log, projected, failed>>

\* A call after the failure is rejected with the first error.
Refused(c) ==
  /\ failed /\ Idle(c)
  /\ promise' = [promise EXCEPT ![c] = [state |-> "rejected", upto |-> Len(log)]]
  /\ UNCHANGED <<log, queue, active, projected, failed, flushes>>

\* The projection of the awaited item resolves: its caller is answered and the pump
\* goes on.
Sunk ==
  /\ active # NoItem
  /\ projected' = projected \o active.delta
  /\ Pump(queue, {active.waiter}, promise)
  /\ UNCHANGED <<log, failed, flushes>>

\* Mutant of SinkFails: only the awaited item is rejected, the queue is dropped.
SinkFailsSilently ==
  /\ active # NoItem
  /\ failed' = TRUE /\ active' = NoItem /\ queue' = <<>>
  /\ promise' = [c \in Callers |->
       IF active.waiter = c THEN [promise[c] EXCEPT !.state = "rejected"] ELSE promise[c]]
  /\ UNCHANGED <<log, projected, flushes>>

\* The projection rejects: the awaited item and everything queued are rejected.
SinkFails ==
  /\ active # NoItem
  /\ failed' = TRUE /\ active' = NoItem /\ queue' = <<>>
  /\ promise' = [c \in Callers |->
       IF active.waiter = c \/ \E i \in 1..Len(queue) : queue[i].waiter = c
       THEN [promise[c] EXCEPT !.state = "rejected"] ELSE promise[c]]
  /\ UNCHANGED <<log, projected, flushes>>

Next ==
  \/ \E key \in Key : AcceptDelta(key)
  \/ \E c \in Callers : Accept(c) \/ Flush(c) \/ Refused(c)
  \/ Sunk
  \/ SinkFails

Spec == Init /\ [][Next]_vars

(***************************************************************************)
(* Properties                                                              *)
(***************************************************************************)
\* Nothing is lost, repeated or reordered by merging and queueing: what is projected,
\* awaited and queued is, in this order, exactly what was accepted.
Channel == INSTANCE EventChannel WITH accepted <- Len(log), broken <- failed
ImplementsChannel == Channel!Spec

Carried == {active} \cup {queue[i] : i \in 1..Len(queue)}

\* Merging never mixes the arguments of two tool calls, or text with arguments: the
\* deltas of one item have one slot and at most one tool call id among them, although
\* the id of a call may be unknown for some of them.
NoCrossMerge ==
  \A item \in Carried : \A i, j \in 1..Len(item.delta) :
    LET a == log[item.delta[i]]
        b == log[item.delta[j]] IN
    /\ a.slot = b.slot
    /\ a.id = None \/ b.id = None \/ a.id = b.id

\* No caller is left hanging: whoever waits for an event or for a flush is the waiter
\* of an item that the pump still has to pass, also after a failure.
WaitersAreHeld ==
  \A c \in Callers : promise[c].state = "waiting" => \E item \in Carried : item.waiter = c
=============================================================================
