-------------------------- MODULE MCSetupPageProofs --------------------------
(***************************************************************************)
(* Theorems about three components of the run of the setup page.  The sink *)
(* (CoalescingSink), for any callers, slots and tool calls and any number  *)
(* of events: merging is sound, nobody is left waiting, and it implements  *)
(* the channel its callers rely on.  The page's session (SetupClient), for *)
(* any number of runs: the page follows the run it was told of.  The event *)
(* stream (AgentRunStream), for any number of attempts, stalls, events and *)
(* failures: what the page shows was published, it never goes back, and an *)
(* end it shows is in the session.                                         *)
(***************************************************************************)
EXTENDS MCSetupPage, SequenceTheorems, FiniteSetTheorems, WellFoundedInduction, TLAPS

LEMMA Names == None \notin Callers /\ None \notin Texts /\ None \notin Tools /\ None \notin Ids
BY SinkAssumption

\* A set of numbers has a least one: what replaces induction below.
LEMMA LeastNumber == ASSUME NEW T \in SUBSET Nat, T # {} PROVE \E x \in T : \A y \in T : x <= y
<1>1. PICK x \in T : \A y \in T : <<y, x>> \notin OpToRel(<, Nat)
  BY WFMin, NatLessThanWellFounded, Zenon
<1>2. \A y \in T : ~(y < x)
  BY <1>1, Zenon DEF OpToRel
<1>3. QED
  BY <1>2

(***************************************************************************)
(* The invariant                                                           *)
(***************************************************************************)
\* These are the numbers that follow lo.
Numbers(lo, delta) == \A j \in 1..Len(delta) : delta[j] = lo + j

\* What an item carries is of one slot and of at most one tool call, which its key names if
\* any of its deltas did; nobody waits for a delta.
WellFormed(item, events) ==
  /\ item \in Sink!Item
  /\ item.kind = "barrier" <=> item.delta = <<>>
  /\ item.key # Sink!NoKey => item.waiter = None
  /\ \A j \in 1..Len(item.delta) :
       /\ item.delta[j] \in 1..Len(events)
       /\ events[item.delta[j]].slot = item.key.slot
       /\ events[item.delta[j]].id \in {None, item.key.id}

\* The items of a queue carry the numbers that follow lo: the i-th up to f[i].
Laid(q, f, lo) ==
  /\ f \in [0..Len(q) -> Nat] /\ f[0] = lo
  /\ \A j \in 0..Len(q), i \in 1..Len(q) :
       i = j + 1 => f[i] = f[j] + Len(q[i].delta) /\ Numbers(f[j], q[i].delta)

\* Who waits for an item waits for what it carries and for all before.
Awaited(q, f, calls) ==
  \A i \in 1..Len(q) :
    q[i].waiter # None => calls[q[i].waiter] = [state |-> "waiting", upto |-> f[i]]

\* Nobody waits for two items.
Apart(q) == \A i, j \in 1..Len(q) : q[i].waiter = q[j].waiter /\ i # j => q[i].waiter = None

Start == Len(projected) + Len(active.delta)

QueueInv ==
  /\ \A i \in 1..Len(queue) : WellFormed(queue[i], log)
  /\ Apart(queue)
  /\ ~failed => \E f : Laid(queue, f, Start) /\ f[Len(queue)] = Len(log) /\ Awaited(queue, f, promise)

ActiveInv ==
  /\ active = Sink!NoItem => queue = <<>>
  /\ active # Sink!NoItem =>
       /\ ~failed /\ WellFormed(active, log) /\ active.kind = "event"
       /\ Numbers(Len(projected), active.delta)
       /\ active.waiter # None =>
            /\ promise[active.waiter] = [state |-> "waiting", upto |-> Start]
            /\ \A i \in 1..Len(queue) : queue[i].waiter # active.waiter

ProjectedInv == Numbers(0, projected) /\ Len(projected) <= Len(log)

SinkInv == Sink!TypeOK /\ QueueInv /\ ActiveInv /\ ProjectedInv /\ Sink!WaitersAreHeld

(***************************************************************************)
(* Lemmas                                                                  *)
(***************************************************************************)
LEMMA ItemTyped ==
  ASSUME NEW item \in Sink!Item
  PROVE  /\ item.kind \in {"event", "barrier"} /\ item.key \in Sink!Key \cup {Sink!NoKey}
         /\ item.delta \in Seq(Nat) /\ Len(item.delta) \in Nat /\ item.waiter \in Callers \cup {None}
BY LenProperties DEF Sink!Item

LEMMA NoItemTyped ==
  /\ Sink!NoItem \notin Sink!Item /\ Sink!NoItem.delta = <<>> /\ Sink!NoItem.waiter = None
  /\ Len(Sink!NoItem.delta) = 0
BY EmptySeq DEF Sink!NoItem, Sink!Item

LEMMA PassedProperties ==
  ASSUME NEW q \in Seq(Sink!Item)
  PROVE  /\ Sink!Passed(q) \in 0..Len(q)
         /\ \A i \in 1..Sink!Passed(q) : q[i].kind = "barrier"
         /\ Sink!Passed(q) < Len(q) => q[Sink!Passed(q) + 1].kind = "event"
<1> DEFINE P(k) == /\ \A i \in 1..k : q[i].kind = "barrier"
                   /\ k < Len(q) => q[k + 1].kind = "event"
           T == {i \in 1..Len(q) : q[i].kind = "event"}
<1>1. Len(q) \in Nat /\ \A i \in 1..Len(q) : q[i].kind \in {"event", "barrier"}
  BY LenProperties, ElementOfSeq, ItemTyped
<1>2. CASE T = {}
  <2>1. Len(q) \in 0..Len(q) /\ P(Len(q))
    BY <1>1, <1>2
  <2>2. QED
    BY <2>1 DEF Sink!Passed
<1>3. CASE T # {}
  <2>1. T \in SUBSET Nat
    BY <1>1
  <2>2. PICK x \in T : \A y \in T : x <= y
    BY <1>3, <2>1, LeastNumber
  <2>3. x - 1 \in 0..Len(q) /\ P(x - 1)
    BY <1>1, <2>2
  <2>4. QED
    BY <2>3 DEF Sink!Passed
<1>4. QED
  BY <1>2, <1>3

\* Barriers carry nothing: what they wait for is what was accepted before the first of them.
LEMMA BarriersWaitForTheSame ==
  ASSUME NEW q \in Seq(Sink!Item), NEW f, NEW lo \in Nat, Laid(q, f, lo), NEW k \in 0..Len(q),
         \A i \in 1..k : q[i].delta = <<>>
  PROVE  \A i \in 0..k : f[i] = lo
<1> DEFINE T == {i \in 0..k : f[i] # lo}
<1>1. Len(q) \in Nat
  BY LenProperties
<1>2. SUFFICES ASSUME T # {} PROVE FALSE
  OBVIOUS
<1>3. PICK x \in T : \A y \in T : x <= y
  <2>1. T \in SUBSET Nat
    BY <1>1
  <2>2. QED
    BY <1>2, <2>1, LeastNumber
<1>4. x # 0 /\ x - 1 \in 0..k /\ x \in 1..k
  BY <1>1 DEF Laid
<1>5. f[x - 1] = lo
  BY <1>1, <1>3, <1>4
<1>6. f[x] = f[x - 1] + Len(q[x].delta)
  <2>1. x - 1 \in 0..Len(q) /\ x \in 1..Len(q) /\ x = x - 1 + 1
    BY <1>1, <1>4
  <2>2. QED
    BY <2>1 DEF Laid
<1>7. Len(q[x].delta) = 0
  BY <1>4, EmptySeq
<1>8. QED
  BY <1>5, <1>6, <1>7

Promises == [Callers -> [state: {"none", "waiting", "resolved", "rejected"}, upto: Nat]]

\* The pump resolves the barriers before the next event and those in W, and nobody else.
LEMMA PumpProperties ==
  ASSUME NEW q \in Seq(Sink!Item), NEW W, NEW calls \in Promises, NEW f, NEW lo \in Nat,
         Sink!Pump(q, W, calls), Laid(q, f, lo), Awaited(q, f, calls), Apart(q),
         \A i \in 1..Len(q) : WellFormed(q[i], log') /\ (q[i].waiter # None => q[i].waiter \notin W),
         \A c \in Callers : calls[c].state = "waiting" => c \in W \/ \E i \in 1..Len(q) : q[i].waiter = c,
         f[Len(q)] = Len(log'), lo = Len(projected'), ~failed'
  PROVE  /\ queue' \in Seq(Sink!Item) /\ active' \in Sink!Item \cup {Sink!NoItem} /\ promise' \in Promises
         /\ QueueInv' /\ ActiveInv' /\ Sink!WaitersAreHeld'
         /\ \A c \in Callers :
              \/ promise'[c] = calls[c]
              \/ /\ promise'[c] = [calls[c] EXCEPT !.state = "resolved"]
                 /\ c \in W \/ (calls[c].state = "waiting" /\ calls[c].upto = lo)
<1> DEFINE k == Sink!Passed(q)
           passed(c) == c \in W \/ \E i \in 1..k : q[i].waiter = c
<1>1. /\ k \in 0..Len(q) /\ Len(q) \in Nat
      /\ \A i \in 1..k : q[i].kind = "barrier"
      /\ k < Len(q) => q[k + 1].kind = "event"
  BY PassedProperties, LenProperties
<1>2. /\ active' = IF k = Len(q) THEN Sink!NoItem ELSE q[k + 1]
      /\ queue' = IF k = Len(q) THEN <<>> ELSE SubSeq(q, k + 2, Len(q))
      /\ promise' = [c \in Callers |->
           IF passed(c) THEN [calls[c] EXCEPT !.state = "resolved"] ELSE calls[c]]
  BY DEF Sink!Pump
<1> HIDE DEF k
<1>3. \A i \in 0..k : f[i] = lo
  <2>1. \A i \in 1..k : q[i].delta = <<>>
    BY <1>1 DEF WellFormed
  <2>2. QED
    BY <1>1, <2>1, BarriersWaitForTheSame
<1>4. \A c \in Callers :
        promise'[c] = IF passed(c) THEN [calls[c] EXCEPT !.state = "resolved"] ELSE calls[c]
  BY <1>2
<1>5. promise' \in Promises
  <2>1. \A c \in Callers : [calls[c] EXCEPT !.state = "resolved"]
          \in [state: {"none", "waiting", "resolved", "rejected"}, upto: Nat]
    BY DEF Promises
  <2>2. QED
    BY <1>2, <2>1 DEF Promises
<1>6. ASSUME NEW c \in Callers
      PROVE  \/ promise'[c] = calls[c]
             \/ /\ promise'[c] = [calls[c] EXCEPT !.state = "resolved"]
                /\ c \in W \/ (calls[c].state = "waiting" /\ calls[c].upto = lo)
  <2>1. ASSUME NEW i \in 1..k, q[i].waiter = c PROVE calls[c] = [state |-> "waiting", upto |-> lo]
    <3>1. i \in 1..Len(q) /\ f[i] = lo
      BY <1>1, <1>3
    <3>2. QED
      BY <2>1, <3>1, Names DEF Awaited
  <2>2. QED
    BY <1>4, <2>1
<1>7. ASSUME NEW c \in Callers, promise'[c].state = "waiting"
      PROVE  /\ promise'[c] = calls[c] /\ ~passed(c)
             /\ \E i \in 1..Len(q) : i > k /\ q[i].waiter = c
  <2>1. [calls[c] EXCEPT !.state = "resolved"].state = "resolved"
    BY DEF Promises
  <2>2. promise'[c] = calls[c] /\ ~passed(c)
    BY <1>4, <1>7, <2>1
  <2>3. PICK i \in 1..Len(q) : q[i].waiter = c
    BY <1>7, <2>2
  <2>4. i > k
    BY <1>1, <2>2, <2>3
  <2>5. QED
    BY <2>2, <2>3, <2>4
<1>8. CASE k = Len(q)
  <2>1. active' = Sink!NoItem /\ queue' = <<>> /\ queue' \in Seq(Sink!Item) /\ Len(queue') = 0
    BY <1>2, <1>8, EmptySeq
  <2>2. ActiveInv'
    BY <2>1 DEF ActiveInv
  <2>3. Start' = lo /\ Len(log') = lo
    <3>1. Len(log') = lo
      BY <1>1, <1>3, <1>8
    <3>2. QED
      BY <2>1, <3>1, NoItemTyped DEF Start
  <2>4. QueueInv'
    <3> DEFINE g == [i \in 0..0 |-> lo]
    <3>1. g[0] = lo /\ g \in [0..0 -> Nat]
      OBVIOUS
    <3>2. Laid(queue', g, Start')
      BY <2>1, <2>3, <3>1 DEF Laid
    <3>3. g[Len(queue')] = Len(log') /\ Awaited(queue', g, promise') /\ Apart(queue')
      BY <2>1, <2>3, <3>1 DEF Awaited, Apart
    <3> HIDE DEF g
    <3>4. QED
      BY <2>1, <3>2, <3>3 DEF QueueInv
  <2>5. Sink!WaitersAreHeld'
    <3>1. \A c \in Callers : promise'[c].state # "waiting"
      BY <1>1, <1>7, <1>8
    <3>2. QED
      BY <3>1 DEF Sink!WaitersAreHeld
  <2>6. QED
    BY <1>5, <1>6, <2>1, <2>2, <2>4, <2>5
<1>9. CASE k # Len(q)
  <2> DEFINE r == SubSeq(q, k + 2, Len(q))
  <2>1. /\ k < Len(q) /\ k + 1 \in 1..Len(q) /\ active' = q[k + 1] /\ queue' = r
        /\ q[k + 1].kind = "event" /\ q[k + 1] \in Sink!Item
    <3>1. k < Len(q) /\ k + 1 \in 1..Len(q)
      BY <1>1, <1>9
    <3>2. q[k + 1] \in Sink!Item
      BY <3>1, ElementOfSeq
    <3>3. QED
      BY <1>1, <1>2, <1>9, <3>1, <3>2
  <2>2. /\ r \in Seq(Sink!Item) /\ Len(r) = Len(q) - (k + 1)
        /\ \A i \in 1..Len(r) : k + 1 + i \in 1..Len(q) /\ r[i] = q[k + 1 + i]
    <3>1. k + 2 \in Int /\ Len(q) \in Int /\ \A i \in k + 2..Len(q) : q[i] \in Sink!Item
      BY <1>1, ElementOfSeq
    <3>2. /\ r \in Seq(Sink!Item) /\ Len(r) = IF k + 2 <= Len(q) THEN Len(q) - (k + 2) + 1 ELSE 0
          /\ \A i \in 1..Len(q) - (k + 2) + 1 : r[i] = q[k + 2 + i - 1]
      BY <3>1, SubSeqProperties
    <3>3. Len(r) = Len(q) - (k + 1)
      BY <1>1, <2>1, <3>2
    <3>4. ASSUME NEW i \in 1..Len(r) PROVE k + 1 + i \in 1..Len(q) /\ r[i] = q[k + 1 + i]
      <4>1. i \in 1..Len(q) - (k + 2) + 1 /\ k + 2 + i - 1 = k + 1 + i /\ k + 1 + i \in 1..Len(q)
        BY <1>1, <2>1, <3>3
      <4>2. QED
        BY <3>2, <4>1
    <3>5. QED
      BY <3>2, <3>3, <3>4
  <2> HIDE DEF r
  <2>3. f[k] = lo /\ f[k + 1] = lo + Len(q[k + 1].delta) /\ f[k + 1] \in Nat
    <3>1. f[k] = lo /\ k \in 0..Len(q)
      BY <1>1, <1>3
    <3>2. f[k + 1] = f[k] + Len(q[k + 1].delta)
      BY <2>1, <3>1 DEF Laid
    <3>3. Len(q[k + 1].delta) \in Nat
      BY <2>1, ItemTyped
    <3>4. QED
      BY <3>1, <3>2, <3>3
  <2>4. Start' = f[k + 1]
    BY <2>1, <2>3 DEF Start
  <2>5. q[k + 1] # Sink!NoItem
    BY <2>1, NoItemTyped
  <2>6. ASSUME NEW i \in 1..Len(q), i > k, q[i].waiter # None
        PROVE  q[i].waiter \in Callers /\ promise'[q[i].waiter] = [state |-> "waiting", upto |-> f[i]]
    <3>1. q[i].waiter \in Callers
      BY <2>6, ElementOfSeq, ItemTyped
    <3>2. ~passed(q[i].waiter)
      <4>1. \A j \in 1..k : q[j].waiter # q[i].waiter
        BY <1>1, <2>6 DEF Apart
      <4>2. QED
        BY <2>6, <4>1
    <3>3. QED
      BY <1>4, <2>6, <3>1, <3>2 DEF Awaited
  <2>7. ActiveInv'
    <3>1. WellFormed(active', log') /\ active'.kind = "event" /\ active' # Sink!NoItem
      BY <2>1, <2>5
    <3>2. Numbers(Len(projected'), active'.delta)
      <4>1. k \in 0..Len(q)
        BY <1>1
      <4>2. Numbers(f[k], q[k + 1].delta)
        BY <2>1, <4>1 DEF Laid
      <4>3. QED
        BY <2>1, <2>3, <4>2
    <3>3. ASSUME active'.waiter # None
          PROVE  promise'[active'.waiter] = [state |-> "waiting", upto |-> Start']
      BY <1>1, <2>1, <2>4, <2>6, <3>3
    <3>4. ASSUME active'.waiter # None, NEW i \in 1..Len(queue') PROVE queue'[i].waiter # active'.waiter
      <4>1. k + 1 + i # k + 1 /\ k + 1 + i \in 1..Len(q) /\ queue'[i] = q[k + 1 + i]
        BY <1>1, <2>1, <2>2
      <4>2. QED
        BY <2>1, <3>4, <4>1 DEF Apart
    <3>5. QED
      BY <3>1, <3>2, <3>3, <3>4 DEF ActiveInv
  <2>8. QueueInv'
    <3> DEFINE g == [i \in 0..Len(r) |-> f[k + 1 + i]]
    <3>1. Len(r) \in Nat /\ \A i \in 0..Len(r) : k + 1 + i \in 0..Len(q) /\ g[i] = f[k + 1 + i]
      BY <1>1, <2>1, <2>2
    <3>2. g \in [0..Len(r) -> Nat] /\ g[0] = f[k + 1]
      <4>1. \A i \in 0..Len(r) : f[k + 1 + i] \in Nat
        BY <3>1 DEF Laid
      <4>2. k + 1 + 0 = k + 1 /\ 0 \in 0..Len(r)
        BY <1>1, <3>1
      <4>3. QED
        BY <4>1, <4>2
    <3>3. ASSUME NEW j \in 0..Len(r), NEW i \in 1..Len(r), i = j + 1
          PROVE  g[i] = g[j] + Len(r[i].delta) /\ Numbers(g[j], r[i].delta)
      <4>1. /\ i \in 0..Len(r) /\ k + 1 + i = k + 1 + j + 1
            /\ k + 1 + j \in 0..Len(q) /\ k + 1 + i \in 1..Len(q)
        BY <1>1, <2>2, <3>1, <3>3
      <4>2. g[i] = f[k + 1 + i] /\ g[j] = f[k + 1 + j]
        BY <3>1, <4>1
      <4>3. /\ f[k + 1 + i] = f[k + 1 + j] + Len(q[k + 1 + i].delta)
            /\ Numbers(f[k + 1 + j], q[k + 1 + i].delta)
        BY <4>1 DEF Laid
      <4>4. QED
        BY <2>2, <4>2, <4>3
    <3>4. Laid(queue', g, Start')
      BY <2>1, <2>4, <3>2, <3>3 DEF Laid
    <3>5. g[Len(queue')] = Len(log')
      <4>1. k + 1 + Len(r) = Len(q) /\ Len(r) \in 0..Len(r)
        BY <1>1, <2>2, <3>1
      <4>2. QED
        BY <2>1, <3>1, <4>1
    <3> HIDE DEF g
    <3>6. Awaited(queue', g, promise')
      <4>1. ASSUME NEW i \in 1..Len(r), r[i].waiter # None
            PROVE  promise'[r[i].waiter] = [state |-> "waiting", upto |-> g[i]]
        <5>1. /\ k + 1 + i \in 1..Len(q) /\ k + 1 + i > k /\ r[i] = q[k + 1 + i]
              /\ g[i] = f[k + 1 + i]
          BY <1>1, <2>2, <3>1
        <5>2. QED
          BY <2>6, <4>1, <5>1
      <4>2. QED
        BY <2>1, <4>1 DEF Awaited
    <3>7. Apart(queue')
      <4>1. ASSUME NEW i \in 1..Len(r), NEW j \in 1..Len(r), r[i].waiter = r[j].waiter, i # j
            PROVE  r[i].waiter = None
        <5>1. k + 1 + i # k + 1 + j
          BY <1>1, <3>1, <4>1
        <5>2. QED
          BY <2>2, <4>1, <5>1 DEF Apart
      <4>2. QED
        BY <2>1, <4>1 DEF Apart
    <3>8. \A i \in 1..Len(queue') : WellFormed(queue'[i], log')
      BY <2>1, <2>2
    <3>9. QED
      BY <3>4, <3>5, <3>6, <3>7, <3>8 DEF QueueInv
  <2>9. Sink!WaitersAreHeld'
    <3> SUFFICES ASSUME NEW c \in Callers, promise'[c].state = "waiting"
                 PROVE  active'.waiter = c \/ \E i \in 1..Len(queue') : queue'[i].waiter = c
      BY DEF Sink!WaitersAreHeld, Sink!Carried
    <3>1. PICK i \in 1..Len(q) : i > k /\ q[i].waiter = c
      BY <1>7
    <3>2. CASE i = k + 1
      BY <2>1, <3>1, <3>2
    <3>3. CASE i # k + 1
      <4>1. i - (k + 1) \in 1..Len(r) /\ k + 1 + (i - (k + 1)) = i
        BY <1>1, <2>2, <3>1, <3>3
      <4>2. QED
        BY <2>1, <2>2, <3>1, <4>1
    <3>4. QED
      BY <3>2, <3>3
  <2>10. QED
    BY <1>5, <1>6, <2>1, <2>2, <2>7, <2>8, <2>9
<1>10. QED
  BY <1>8, <1>9

(***************************************************************************)
(* Calls                                                                   *)
(***************************************************************************)
\* The events accepted so far stay what they are.
Grows == Len(log') \in Nat /\ Len(log) <= Len(log') /\ \A i \in 1..Len(log) : log'[i] = log[i]

LEMMA WellFormedStays ==
  ASSUME Grows, Len(log) \in Nat, NEW item, WellFormed(item, log)
  PROVE  WellFormed(item, log')
<1>1. ASSUME NEW n \in 1..Len(log) PROVE n \in 1..Len(log') /\ log'[n] = log[n]
  BY DEF Grows
<1>2. QED
  BY <1>1 DEF WellFormed

\* While the pump is at rest everything is projected and nobody waits.
LEMMA AtRest ==
  ASSUME SinkInv, ~failed, active = Sink!NoItem
  PROVE  /\ queue = <<>> /\ Len(queue) = 0 /\ Len(projected) = Len(log)
         /\ \A c \in Callers : promise[c].state # "waiting"
<1>1. queue = <<>> /\ Len(queue) = 0
  BY EmptySeq DEF SinkInv, ActiveInv
<1>2. PICK f : Laid(queue, f, Start) /\ f[Len(queue)] = Len(log)
  BY DEF SinkInv, QueueInv
<1>3. Start = Len(projected)
  BY NoItemTyped, LenProperties DEF SinkInv, Sink!TypeOK, Start
<1>4. Len(projected) = Len(log)
  BY <1>1, <1>2, <1>3 DEF Laid
<1>5. ASSUME NEW c \in Callers, promise[c].state = "waiting" PROVE FALSE
  <2>1. PICK item \in Sink!Carried : item.waiter = c
    BY <1>5 DEF SinkInv, Sink!WaitersAreHeld
  <2>2. item = Sink!NoItem
    BY <1>1, <2>1 DEF Sink!Carried
  <2>3. QED
    BY <2>1, <2>2, NoItemTyped, Names
<1>6. QED
  BY <1>1, <1>4, <1>5

\* A pushed item comes last, or is pumped at once; its caller waits, unless it waits for what is
\* projected already.
LEMMA PushProperties ==
  ASSUME SinkInv, ~failed, failed' = failed, projected' = projected, NEW item, WellFormed(item, log'),
         Grows, Len(log') = Len(log) + Len(item.delta), Numbers(Len(log), item.delta),
         NEW calls \in Promises, \A c \in Callers : c # item.waiter => calls[c] = promise[c],
         item.waiter # None =>
           /\ promise[item.waiter].state # "waiting"
           /\ calls[item.waiter] = [state |-> "waiting", upto |-> Len(log')],
         Sink!Push(item, calls)
  PROVE  /\ queue' \in Seq(Sink!Item) /\ active' \in Sink!Item \cup {Sink!NoItem} /\ promise' \in Promises
         /\ QueueInv' /\ ActiveInv' /\ ProjectedInv' /\ Sink!WaitersAreHeld'
         /\ \A c \in Callers :
              \/ promise'[c] = calls[c]
              \/ /\ c = item.waiter /\ promise'[c] = [calls[c] EXCEPT !.state = "resolved"]
                 /\ Len(projected) = Len(log')
<1>1. /\ Sink!TypeOK /\ QueueInv /\ ActiveInv /\ ProjectedInv /\ Sink!WaitersAreHeld
      /\ Len(log) \in Nat /\ Len(queue) \in Nat /\ Len(projected) \in Nat /\ queue \in Seq(Sink!Item)
      /\ active \in Sink!Item \cup {Sink!NoItem}
  BY LenProperties DEF SinkInv, Sink!TypeOK
<1>2. /\ item \in Sink!Item /\ Len(item.delta) \in Nat /\ item.waiter \in Callers \cup {None}
      /\ Len(log') \in Nat
  BY ItemTyped DEF WellFormed, Grows
<1>3. ProjectedInv'
  BY <1>1 DEF ProjectedInv, Grows
<1> DEFINE q == Append(queue, item)
<1>4. /\ q \in Seq(Sink!Item) /\ Len(q) = Len(queue) + 1 /\ q[Len(queue) + 1] = item
      /\ \A i \in 1..Len(queue) : q[i] = queue[i]
  BY <1>1, <1>2, AppendProperties
<1> HIDE DEF q
<1>5. \A i \in 1..Len(q) : WellFormed(q[i], log')
  <2>1. \A i \in 1..Len(queue) : WellFormed(queue[i], log')
    BY <1>1, WellFormedStays DEF QueueInv
  <2>2. \A i \in 1..Len(q) : i \in 1..Len(queue) \/ i = Len(queue) + 1
    BY <1>1, <1>4
  <2>3. QED
    BY <1>4, <2>1, <2>2
<1>6. CASE active = Sink!NoItem
  <2> DEFINE f == [i \in 0..1 |-> IF i = 0 THEN Len(log) ELSE Len(log')]
  <2>1. /\ Len(queue) = 0 /\ Len(projected) = Len(log)
        /\ \A c \in Callers : promise[c].state # "waiting"
    BY <1>6, AtRest
  <2>2. Sink!Pump(q, {}, calls)
    BY <1>6 DEF Sink!Push, q
  <2>3. Len(q) = 1 /\ q[1] = item
    BY <1>4, <2>1
  <2>4. f \in [0..1 -> Nat] /\ f[0] = Len(log) /\ f[1] = Len(log')
    BY <1>1, <1>2
  <2> HIDE DEF f
  <2>5. Laid(q, f, Len(log)) /\ f[Len(q)] = Len(log')
    <3>1. ASSUME NEW j \in 0..Len(q), NEW i \in 1..Len(q), i = j + 1
          PROVE  f[i] = f[j] + Len(q[i].delta) /\ Numbers(f[j], q[i].delta)
      <4>1. i = 1 /\ j = 0
        BY <2>3, <3>1
      <4>2. QED
        BY <2>3, <2>4, <4>1
    <3>2. QED
      BY <2>3, <2>4, <3>1 DEF Laid
  <2>6. Awaited(q, f, calls) /\ Apart(q)
    BY <2>3, <2>4 DEF Awaited, Apart
  <2>7. \A c \in Callers : calls[c].state = "waiting" => \E i \in 1..Len(q) : q[i].waiter = c
    BY <2>1, <2>3
  <2>8. /\ queue' \in Seq(Sink!Item) /\ active' \in Sink!Item \cup {Sink!NoItem} /\ promise' \in Promises
        /\ QueueInv' /\ ActiveInv' /\ Sink!WaitersAreHeld'
        /\ \A c \in Callers :
             \/ promise'[c] = calls[c]
             \/ /\ promise'[c] = [calls[c] EXCEPT !.state = "resolved"]
                /\ c \in {} \/ (calls[c].state = "waiting" /\ calls[c].upto = Len(log))
    <3>1. /\ \A i \in 1..Len(q) :
               WellFormed(q[i], log') /\ (q[i].waiter # None => q[i].waiter \notin {})
          /\ \A c \in Callers : calls[c].state = "waiting" =>
               c \in {} \/ \E i \in 1..Len(q) : q[i].waiter = c
      BY <1>5, <2>7
    <3>2. Len(log) = Len(projected') /\ ~failed'
      BY <2>1
    <3>3. QED
      BY <1>1, <1>4, <2>2, <2>5, <2>6, <3>1, <3>2, PumpProperties
  <2>9. ASSUME NEW c \in Callers, calls[c].state = "waiting", calls[c].upto = Len(log)
        PROVE  c = item.waiter /\ Len(projected) = Len(log')
    <3>1. c = item.waiter
      BY <2>1, <2>9
    <3>2. calls[c].upto = Len(log')
      BY <3>1, Names
    <3>3. QED
      BY <2>1, <2>9, <3>1, <3>2
  <2>10. QED
    BY <1>3, <2>8, <2>9
<1>7. CASE active # Sink!NoItem
  <2>1. queue' = q /\ promise' = calls /\ active' = active /\ active \in Sink!Item
    BY <1>1, <1>7 DEF Sink!Push, q
  <2>2. Start' = Start /\ Start \in Nat
    BY <1>1, <2>1, ItemTyped DEF Start
  <2>3. \A i \in 1..Len(queue) : queue[i] \in Sink!Item /\ queue[i].waiter \in Callers \cup {None}
    BY <1>1, ElementOfSeq, ItemTyped
  <2>4. PICK f : Laid(queue, f, Start) /\ f[Len(queue)] = Len(log) /\ Awaited(queue, f, promise)
    BY <1>1 DEF QueueInv
  <2>5. \A i \in 1..Len(queue) : queue[i].waiter # None =>
          queue[i].waiter # item.waiter /\ calls[queue[i].waiter] = [state |-> "waiting", upto |-> f[i]]
    BY <2>3, <2>4 DEF Awaited
  <2>6. active.waiter # None =>
          /\ active.waiter # item.waiter
          /\ calls[active.waiter] = [state |-> "waiting", upto |-> Start]
    BY <1>1, <1>7, <2>1, ItemTyped DEF ActiveInv
  <2>7. \A i \in 1..Len(q) : i \in 1..Len(queue) \/ i = Len(queue) + 1
    BY <1>1, <1>4
  <2>8. QueueInv'
    <3> DEFINE g == [i \in 0..Len(q) |-> IF i = Len(q) THEN Len(log') ELSE f[i]]
    <3>1. /\ \A i \in 0..Len(queue) : i \in 0..Len(q) /\ g[i] = f[i] /\ f[i] \in Nat
          /\ g[Len(q)] = Len(log')
      BY <1>1, <1>4, <2>4 DEF Laid
    <3>2. g \in [0..Len(q) -> Nat]
      <4>1. \A i \in 0..Len(q) : i = Len(q) \/ i \in 0..Len(queue)
        BY <1>1, <1>4
      <4>2. QED
        BY <1>2, <3>1, <4>1
    <3> HIDE DEF g
    <3>3. ASSUME NEW j \in 0..Len(q), NEW i \in 1..Len(q), i = j + 1
          PROVE  g[i] = g[j] + Len(q[i].delta) /\ Numbers(g[j], q[i].delta)
      <4>1. CASE i \in 1..Len(queue)
        <5>1. j \in 0..Len(queue) /\ i \in 0..Len(queue)
          BY <1>1, <3>3, <4>1
        <5>2. f[i] = f[j] + Len(queue[i].delta) /\ Numbers(f[j], queue[i].delta)
          BY <2>4, <3>3, <4>1, <5>1 DEF Laid
        <5>3. QED
          BY <1>4, <3>1, <4>1, <5>1, <5>2
      <4>2. CASE i = Len(queue) + 1
        <5>1. j = Len(queue) /\ j \in 0..Len(queue) /\ i = Len(q)
          BY <1>1, <1>4, <3>3, <4>2
        <5>2. g[j] = Len(log) /\ g[i] = Len(log') /\ q[i] = item
          BY <1>4, <2>4, <3>1, <4>2, <5>1
        <5>3. QED
          BY <5>2
      <4>3. QED
        BY <2>7, <4>1, <4>2
    <3>4. g[0] = Start
      <4>1. 0 \in 0..Len(queue) /\ f[0] = Start
        BY <1>1, <2>4 DEF Laid
      <4>2. QED
        BY <3>1, <4>1
    <3>5. Laid(queue', g, Start')
      BY <2>1, <2>2, <3>2, <3>3, <3>4 DEF Laid
    <3>6. Awaited(queue', g, promise')
      <4>1. ASSUME NEW i \in 1..Len(q), q[i].waiter # None
            PROVE  calls[q[i].waiter] = [state |-> "waiting", upto |-> g[i]]
        <5>1. CASE i \in 1..Len(queue)
          <6>1. g[i] = f[i] /\ q[i] = queue[i]
            BY <1>1, <1>4, <3>1, <5>1
          <6>2. QED
            BY <2>5, <4>1, <5>1, <6>1
        <5>2. CASE i = Len(queue) + 1
          BY <1>4, <3>1, <4>1, <5>2
        <5>3. QED
          BY <2>7, <5>1, <5>2
      <4>2. QED
        BY <2>1, <4>1 DEF Awaited
    <3>7. Apart(queue')
      <4>1. ASSUME NEW i \in 1..Len(q), NEW j \in 1..Len(q), q[i].waiter = q[j].waiter, i # j
            PROVE  q[i].waiter = None
        <5>1. CASE i \in 1..Len(queue) /\ j \in 1..Len(queue)
          BY <1>1, <1>4, <4>1, <5>1 DEF QueueInv, Apart
        <5>2. CASE i = Len(queue) + 1 /\ j \in 1..Len(queue)
          BY <1>4, <2>5, <4>1, <5>2
        <5>3. CASE i \in 1..Len(queue) /\ j = Len(queue) + 1
          BY <1>4, <2>5, <4>1, <5>3
        <5>4. QED
          BY <2>7, <4>1, <5>1, <5>2, <5>3
      <4>2. QED
        BY <2>1, <4>1 DEF Apart
    <3>8. QED
      BY <1>5, <2>1, <3>1, <3>5, <3>6, <3>7 DEF QueueInv
  <2>9. ActiveInv'
    <3>1. WellFormed(active, log')
      BY <1>1, <1>7, WellFormedStays DEF ActiveInv
    <3>2. ASSUME active.waiter # None, NEW i \in 1..Len(q) PROVE q[i].waiter # active.waiter
      <4>1. CASE i \in 1..Len(queue)
        BY <1>1, <1>4, <1>7, <3>2, <4>1 DEF ActiveInv
      <4>2. CASE i = Len(queue) + 1
        BY <1>4, <2>6, <3>2, <4>2
      <4>3. QED
        BY <2>7, <4>1, <4>2
    <3>3. QED
      BY <1>1, <1>7, <2>1, <2>2, <2>6, <3>1, <3>2 DEF ActiveInv
  <2>10. Sink!WaitersAreHeld'
    <3> SUFFICES ASSUME NEW c \in Callers, calls[c].state = "waiting"
                 PROVE  active.waiter = c \/ \E i \in 1..Len(q) : q[i].waiter = c
      BY <2>1 DEF Sink!WaitersAreHeld, Sink!Carried
    <3>1. CASE c = item.waiter
      <4>1. Len(queue) + 1 \in 1..Len(q)
        BY <1>1, <1>4
      <4>2. QED
        BY <1>4, <3>1, <4>1
    <3>2. CASE c # item.waiter
      <4>1. active.waiter = c \/ \E i \in 1..Len(queue) : queue[i].waiter = c
        BY <1>1, <3>2 DEF Sink!WaitersAreHeld, Sink!Carried
      <4>2. \A i \in 1..Len(queue) : i \in 1..Len(q)
        BY <1>1, <1>4
      <4>3. QED
        BY <1>4, <4>1, <4>2
    <3>3. QED
      BY <3>1, <3>2
  <2>11. QED
    BY <1>3, <1>4, <2>1, <2>8, <2>9, <2>10
<1>8. QED
  BY <1>6, <1>7

(***************************************************************************)
(* Steps: each keeps the invariant and is a step of the channel            *)
(***************************************************************************)
LEMMA ProjectedIsPrefix ==
  ASSUME NEW s \in Seq(Nat), Numbers(0, s)
  PROVE  s = Sink!Channel!Prefix(Len(s))
<1>1. Len(s) \in Nat /\ s \in [1..Len(s) -> Nat] /\ \A i \in 1..Len(s) : s[i] = 0 + i
  BY LenProperties DEF Numbers
<1>2. \A i \in 1..Len(s) : s[i] = i
  BY <1>1
<1>3. QED
  BY <1>1, <1>2 DEF Sink!Channel!Prefix

LEMMA SinkInvTyped ==
  ASSUME SinkInv
  PROVE  /\ log \in Seq(Sink!Key \cup {Sink!NoKey}) /\ queue \in Seq(Sink!Item)
         /\ active \in Sink!Item \cup {Sink!NoItem}
         /\ projected \in Seq(Nat) /\ promise \in Promises /\ failed \in BOOLEAN /\ flushes \in Nat
         /\ Len(log) \in Nat /\ Len(queue) \in Nat /\ Len(projected) \in Nat
         /\ projected = Sink!Channel!Prefix(Len(projected))
BY LenProperties, ProjectedIsPrefix DEF SinkInv, Sink!TypeOK, Promises, ProjectedInv

LEMMA SinkInvInit == Sink!Init => SinkInv /\ Sink!Channel!Init
<1> SUFFICES ASSUME Sink!Init PROVE SinkInv /\ Sink!Channel!Init
  OBVIOUS
<1>1. /\ Len(log) = 0 /\ Len(queue) = 0 /\ Len(projected) = 0 /\ Len(active.delta) = 0
      /\ log = <<>> /\ queue = <<>> /\ projected = <<>> /\ active = Sink!NoItem
  BY EmptySeq, NoItemTyped DEF Sink!Init
<1>2. Sink!TypeOK
  BY EmptySeq DEF Sink!Init, Sink!TypeOK
<1>3. QueueInv
  <2> DEFINE g == [i \in 0..0 |-> 0]
  <2>1. g[0] = 0 /\ g \in [0..0 -> Nat]
    OBVIOUS
  <2> HIDE DEF g
  <2>2. Laid(queue, g, Start) /\ g[Len(queue)] = Len(log) /\ Awaited(queue, g, promise) /\ Apart(queue)
    BY <1>1, <2>1 DEF Laid, Awaited, Apart, Start
  <2>3. QED
    BY <1>1, <2>2 DEF QueueInv
<1>4. ActiveInv
  BY <1>1 DEF ActiveInv
<1>5. ProjectedInv
  BY <1>1 DEF ProjectedInv, Numbers
<1>6. Sink!WaitersAreHeld
  BY DEF Sink!Init, Sink!WaitersAreHeld
<1>7. Sink!Channel!Init
  <2>1. projected = Sink!Channel!Prefix(0)
    BY <1>1, <1>2, <1>5, ProjectedIsPrefix DEF Sink!TypeOK, ProjectedInv
  <2>2. QED
    BY <1>1, <2>1 DEF Sink!Init, Sink!Channel!Init
<1>8. QED
  BY <1>2, <1>3, <1>4, <1>5, <1>6, <1>7 DEF SinkInv

\* The log with one more event.
LEMMA LogGrows ==
  ASSUME SinkInv, NEW key \in Sink!Key \cup {Sink!NoKey}, log' = Append(log, key)
  PROVE  /\ log' \in Seq(Sink!Key \cup {Sink!NoKey}) /\ Len(log') = Len(log) + 1 /\ log'[Len(log) + 1] = key
         /\ Grows
<1>1. log \in Seq(Sink!Key \cup {Sink!NoKey}) /\ Len(log) \in Nat
  BY SinkInvTyped
<1>2. /\ log' \in Seq(Sink!Key \cup {Sink!NoKey}) /\ Len(log') = Len(log) + 1 /\ log'[Len(log) + 1] = key
      /\ \A i \in 1..Len(log) : log'[i] = log[i]
  BY <1>1, AppendProperties
<1>3. QED
  BY <1>1, <1>2 DEF Grows

LEMMA EventWellFormed ==
  ASSUME SinkInv, NEW key \in Sink!Key \cup {Sink!NoKey}, log' = Append(log, key),
         NEW c \in Callers \cup {None},
         key # Sink!NoKey => c = None
  PROVE  LET item == Sink!Event(key, Len(log) + 1, c) IN
         /\ WellFormed(item, log') /\ item.waiter = c /\ Len(item.delta) = 1
         /\ Numbers(Len(log), item.delta)
<1> DEFINE n == Len(log) + 1
           item == Sink!Event(key, n, c)
<1>1. n \in Nat /\ n \in 1..Len(log') /\ log'[n] = key
  BY LogGrows, SinkInvTyped
<1>2. <<n>> \in Seq(Nat) /\ Len(<<n>>) = 1 /\ <<n>>[1] = n /\ <<n>> # <<>>
  BY <1>1
<1>3. /\ item.kind = "event" /\ item.key = key /\ item.delta = <<n>> /\ item.waiter = c
      /\ item \in Sink!Item
  BY <1>2 DEF Sink!Event, Sink!Item
<1> HIDE DEF item
<1>4. key.slot = key.slot /\ key.id \in {None, key.id}
  OBVIOUS
<1>5. \A j \in 1..Len(item.delta) : item.delta[j] = n /\ j = 1
  BY <1>2, <1>3
<1>6. WellFormed(item, log')
  BY <1>1, <1>2, <1>3, <1>5 DEF WellFormed
<1>7. Numbers(Len(log), item.delta)
  BY <1>5 DEF Numbers
<1>8. QED
  BY <1>2, <1>3, <1>6, <1>7 DEF item

LEMMA AcceptDeltaStep ==
  ASSUME SinkInv, NEW key \in Sink!Key, Sink!AcceptDelta(key)
  PROVE  SinkInv' /\ Sink!Channel!Next
<1> DEFINE n == Len(log) + 1
           tail == queue[Len(queue)]
           merges == queue # <<>> /\ tail.kind = "event" /\ tail.key # Sink!NoKey /\ Sink!Compatible(tail.key, key)
<1>1. /\ ~failed /\ log' = Append(log, key) /\ projected' = projected /\ failed' = failed
      /\ flushes' = flushes
  BY DEF Sink!AcceptDelta
<1>2. /\ log' \in Seq(Sink!Key \cup {Sink!NoKey}) /\ Len(log') = n /\ log'[n] = key /\ Grows
      /\ Len(log) \in Nat /\ Len(queue) \in Nat /\ queue \in Seq(Sink!Item) /\ promise \in Promises
  BY <1>1, LogGrows, SinkInvTyped
<1>3. key # Sink!NoKey
  BY Names DEF Sink!Key, Sink!NoKey
<1>4. CASE ~merges
  <2> DEFINE item == Sink!Event(key, n, None)
  <2>1. /\ WellFormed(item, log') /\ item.waiter = None /\ Len(item.delta) = 1
        /\ Numbers(Len(log), item.delta)
    BY <1>1, EventWellFormed
  <2>2. Sink!Push(item, promise)
    BY <1>4 DEF Sink!AcceptDelta
  <2> HIDE DEF item
  <2>3. /\ queue' \in Seq(Sink!Item) /\ active' \in Sink!Item \cup {Sink!NoItem} /\ promise' \in Promises
        /\ QueueInv' /\ ActiveInv' /\ ProjectedInv' /\ Sink!WaitersAreHeld'
        /\ \A c \in Callers :
             \/ promise'[c] = promise[c]
             \/ /\ c = item.waiter /\ promise'[c] = [promise[c] EXCEPT !.state = "resolved"]
                /\ Len(projected) = Len(log')
    BY <1>1, <1>2, <2>1, <2>2, PushProperties
  <2>4. \A c \in Callers : promise'[c] = promise[c]
    BY <2>1, <2>3, Names
  <2>5. promise' = promise
    BY <1>2, <2>3, <2>4 DEF Promises
  <2>6. SinkInv'
    BY <1>1, <1>2, <2>3, SinkInvTyped DEF SinkInv, Sink!TypeOK, Promises
  <2>7. QED
    BY <1>1, <1>2, <2>5, <2>6 DEF Sink!Channel!Next, Sink!Channel!Offer
<1>5. CASE merges
  <2> DEFINE item == Sink!Merge(tail, key, n)
             m    == Len(queue)
  <2>1. queue' = [queue EXCEPT ![m] = item] /\ active' = active /\ promise' = promise
    BY <1>5 DEF Sink!AcceptDelta
  <2>2. /\ m \in Nat /\ m \in 1..m /\ tail \in Sink!Item /\ WellFormed(tail, log') /\ tail.waiter = None
        /\ tail.kind = "event" /\ tail.key \in Sink!Key /\ tail.delta \in Seq(Nat)
        /\ Sink!Compatible(tail.key, key)
    <3>1. m \in 1..m /\ m \in Nat
      BY <1>2, <1>5, EmptySeq
    <3>2. tail \in Sink!Item /\ WellFormed(tail, log)
      BY <1>2, <3>1, ElementOfSeq DEF SinkInv, QueueInv
    <3>3. WellFormed(tail, log')
      BY <1>2, <3>2, WellFormedStays
    <3>4. QED
      BY <1>5, <3>1, <3>2, <3>3, ItemTyped DEF WellFormed
  <2> HIDE DEF tail
  <2>3. /\ item.kind = "event" /\ item.waiter = None /\ item.key = Sink!MergedKey(tail.key, key)
        /\ item.delta = Append(tail.delta, n)
        /\ item \in [kind: {"event"}, key: {Sink!MergedKey(tail.key, key)}, delta: {Append(tail.delta, n)},
                     waiter: {None}]
    BY <2>2 DEF Sink!Merge, Sink!Item
  <2> HIDE DEF item
  <2>4. /\ Append(tail.delta, n) \in Seq(Nat) /\ Len(item.delta) = Len(tail.delta) + 1
        /\ Len(tail.delta) \in Nat
        /\ \A j \in 1..Len(tail.delta) : item.delta[j] = tail.delta[j]
        /\ item.delta[Len(tail.delta) + 1] = n
        /\ \A j \in 1..Len(item.delta) : j \in 1..Len(tail.delta) \/ j = Len(tail.delta) + 1
    <3>1. n \in Nat /\ Len(tail.delta) \in Nat
      BY <1>2, <2>2, LenProperties
    <3>2. /\ Append(tail.delta, n) \in Seq(Nat) /\ Len(item.delta) = Len(tail.delta) + 1
          /\ \A j \in 1..Len(tail.delta) : item.delta[j] = tail.delta[j]
          /\ item.delta[Len(tail.delta) + 1] = n
      BY <2>2, <2>3, <3>1, AppendProperties
    <3>3. QED
      BY <3>1, <3>2
  <2>5. /\ item.key \in Sink!Key /\ item.key.slot = key.slot /\ item.key.slot = tail.key.slot
        /\ key.id \in {None, item.key.id} /\ tail.key.id \in {None, item.key.id}
    BY <2>2, <2>3 DEF Sink!MergedKey, Sink!Compatible, Sink!Key
  <2>6. WellFormed(item, log')
    <3>1. item \in Sink!Item
      BY <2>3, <2>4, <2>5 DEF Sink!Item
    <3>2. item.delta # <<>>
      BY <2>4, EmptySeq
    <3>3. ASSUME NEW j \in 1..Len(item.delta)
          PROVE  /\ item.delta[j] \in 1..Len(log') /\ log'[item.delta[j]].slot = item.key.slot
                 /\ log'[item.delta[j]].id \in {None, item.key.id}
      <4>1. CASE j \in 1..Len(tail.delta)
        BY <2>2, <2>4, <2>5, <4>1 DEF WellFormed
      <4>2. CASE j = Len(tail.delta) + 1
        <5>1. item.delta[j] = n
          BY <2>4, <4>2
        <5>2. n \in 1..Len(log') /\ log'[n] = key
          BY <1>2
        <5>3. QED
          BY <2>5, <5>1, <5>2
      <4>3. QED
        BY <2>4, <4>1, <4>2
    <3>4. QED
      BY <2>3, <3>1, <3>2, <3>3 DEF WellFormed
  <2>7. /\ queue' \in Seq(Sink!Item) /\ Len(queue') = m /\ queue'[m] = item
        /\ \A i \in 1..m : i # m => queue'[i] = queue[i]
        /\ \A i \in 1..m : queue'[i].waiter = queue[i].waiter
    <3>1. item \in Sink!Item
      BY <2>6 DEF WellFormed
    <3>2. /\ queue' \in Seq(Sink!Item) /\ Len(queue') = m
          /\ \A i \in 1..m : queue'[i] = IF i = m THEN item ELSE queue[i]
      BY <1>2, <2>1, <2>2, <3>1, ExceptSeq
    <3>3. QED
      BY <2>2, <2>3, <3>2 DEF tail
  <2> HIDE DEF m
  <2>8. Start' = Start
    BY <1>1, <2>1 DEF Start
  <2>9. QueueInv'
    <3>1. PICK f : Laid(queue, f, Start) /\ f[m] = Len(log) /\ Awaited(queue, f, promise)
      BY <1>1 DEF SinkInv, QueueInv, m
    <3> DEFINE g == [f EXCEPT ![m] = n]
    <3>2. f \in [0..m -> Nat] /\ f[0] = Start
      BY <3>1 DEF Laid, m
    <3>3. g \in [0..m -> Nat] /\ g[m] = n /\ \A i \in 0..m : i # m => g[i] = f[i]
      BY <1>2, <2>2, <3>2
    <3> HIDE DEF g
    <3>4. ASSUME NEW j \in 0..m, NEW i \in 1..m, i = j + 1
          PROVE  g[i] = g[j] + Len(queue'[i].delta) /\ Numbers(g[j], queue'[i].delta)
      <4>1. j # m /\ i \in 0..m /\ g[j] = f[j] /\ f[j] \in Nat
        BY <2>2, <3>2, <3>3, <3>4
      <4>2. f[i] = f[j] + Len(queue[i].delta) /\ Numbers(f[j], queue[i].delta)
        BY <3>1, <3>4 DEF Laid, m
      <4>3. CASE i # m
        BY <2>7, <3>3, <4>1, <4>2, <4>3
      <4>4. CASE i = m
        <5>1. f[j] + Len(tail.delta) = Len(log) /\ Numbers(f[j], tail.delta)
          BY <3>1, <4>2, <4>4 DEF tail, m
        <5>2. g[i] = n /\ queue'[i] = item
          BY <2>7, <3>3, <4>4
        <5>3. g[i] = g[j] + Len(item.delta)
          BY <1>2, <2>4, <4>1, <5>1, <5>2
        <5>4. Numbers(f[j], item.delta)
          <6> SUFFICES ASSUME NEW x \in 1..Len(item.delta) PROVE item.delta[x] = f[j] + x
            BY DEF Numbers
          <6>1. CASE x \in 1..Len(tail.delta)
            BY <2>4, <5>1, <6>1 DEF Numbers
          <6>2. CASE x = Len(tail.delta) + 1
            <7>1. item.delta[x] = n
              BY <2>4, <6>2
            <7>2. n = f[j] + x
              BY <1>2, <2>4, <4>1, <5>1, <6>2
            <7>3. QED
              BY <7>1, <7>2
          <6>3. QED
            BY <2>4, <6>1, <6>2
        <5>5. QED
          BY <4>1, <5>2, <5>3, <5>4
      <4>5. QED
        BY <4>3, <4>4
    <3>5. g[0] = Start
      BY <2>2, <3>2, <3>3
    <3>6. Laid(queue', g, Start')
      BY <2>7, <2>8, <3>3, <3>4, <3>5 DEF Laid
    <3>7. Awaited(queue', g, promise')
      <4>1. ASSUME NEW i \in 1..m, queue'[i].waiter # None
            PROVE  promise[queue'[i].waiter] = [state |-> "waiting", upto |-> g[i]]
        <5>1. i # m /\ i \in 0..m
          BY <2>2, <2>3, <2>7, <4>1
        <5>2. promise[queue[i].waiter] = [state |-> "waiting", upto |-> f[i]]
          BY <2>7, <3>1, <4>1 DEF Awaited, m
        <5>3. QED
          BY <2>7, <3>3, <5>1, <5>2
      <4>2. QED
        BY <2>1, <2>7, <4>1 DEF Awaited
    <3>8. Apart(queue')
      BY <2>7 DEF SinkInv, QueueInv, Apart, m
    <3>9. ASSUME NEW i \in 1..m PROVE WellFormed(queue'[i], log')
      <4>1. WellFormed(queue[i], log')
        BY <1>2, WellFormedStays DEF SinkInv, QueueInv, m
      <4>2. QED
        BY <2>6, <2>7, <4>1
    <3>10. QED
      BY <1>2, <2>7, <3>3, <3>6, <3>7, <3>8, <3>9 DEF QueueInv
  <2>10. ActiveInv'
    <3>1. active # Sink!NoItem
      BY <1>5 DEF SinkInv, ActiveInv
    <3>2. WellFormed(active, log')
      BY <1>2, <3>1, WellFormedStays DEF SinkInv, ActiveInv
    <3>3. QED
      BY <1>1, <2>1, <2>7, <2>8, <3>1, <3>2 DEF SinkInv, ActiveInv, m
  <2>11. Sink!WaitersAreHeld'
    <3> SUFFICES ASSUME NEW c \in Callers, promise[c].state = "waiting"
                 PROVE  active.waiter = c \/ \E i \in 1..m : queue'[i].waiter = c
      BY <2>1, <2>7 DEF Sink!WaitersAreHeld, Sink!Carried
    <3>1. active.waiter = c \/ \E i \in 1..m : queue[i].waiter = c
      BY DEF SinkInv, Sink!WaitersAreHeld, Sink!Carried, m
    <3>2. QED
      BY <2>7, <3>1
  <2>12. ProjectedInv'
    BY <1>1, <1>2, SinkInvTyped DEF SinkInv, ProjectedInv, Grows
  <2>13. SinkInv'
    BY <1>1, <1>2, <2>1, <2>7, <2>9, <2>10, <2>11, <2>12 DEF SinkInv, Sink!TypeOK
  <2>14. QED
    BY <1>1, <1>2, <2>1, <2>13 DEF Sink!Channel!Next, Sink!Channel!Offer
<1>6. QED
  BY <1>4, <1>5

LEMMA CallsProperties ==
  ASSUME SinkInv, NEW c \in Callers, NEW n \in Nat
  PROVE  /\ Sink!Calls(c, n) \in Promises /\ Sink!Calls(c, n)[c] = [state |-> "waiting", upto |-> n]
         /\ \A d \in Callers : d # c => Sink!Calls(c, n)[d] = promise[d]
BY SinkInvTyped DEF Sink!Calls, Promises

LEMMA AcceptStep ==
  ASSUME SinkInv, NEW c \in Callers, Sink!Accept(c)
  PROVE  SinkInv' /\ Sink!Channel!Next
<1> DEFINE n == Len(log) + 1
           item == Sink!Event(Sink!NoKey, n, c)
<1>1. /\ ~failed /\ Sink!Idle(c) /\ log' = Append(log, Sink!NoKey) /\ projected' = projected /\ failed' = failed
      /\ flushes' = flushes /\ Sink!Push(item, Sink!Calls(c, n))
  BY DEF Sink!Accept
<1>2. /\ log' \in Seq(Sink!Key \cup {Sink!NoKey}) /\ Len(log') = n /\ Grows /\ Len(log) \in Nat
      /\ Len(projected) <= Len(log) /\ Len(projected) \in Nat
  BY <1>1, LogGrows, SinkInvTyped DEF SinkInv, ProjectedInv
<1>3. /\ WellFormed(item, log') /\ item.waiter = c /\ Len(item.delta) = 1
      /\ Numbers(Len(log), item.delta)
  BY <1>1, EventWellFormed
<1> HIDE DEF item
<1>4. /\ Sink!Calls(c, n) \in Promises /\ Sink!Calls(c, n)[c] = [state |-> "waiting", upto |-> Len(log')]
      /\ \A d \in Callers : d # c => Sink!Calls(c, n)[d] = promise[d]
  BY <1>2, CallsProperties
<1>5. /\ queue' \in Seq(Sink!Item) /\ active' \in Sink!Item \cup {Sink!NoItem} /\ promise' \in Promises
      /\ QueueInv' /\ ActiveInv' /\ ProjectedInv' /\ Sink!WaitersAreHeld'
      /\ \A d \in Callers :
           \/ promise'[d] = Sink!Calls(c, n)[d]
           \/ /\ d = item.waiter /\ promise'[d] = [Sink!Calls(c, n)[d] EXCEPT !.state = "resolved"]
              /\ Len(projected) = Len(log')
  BY <1>1, <1>2, <1>3, <1>4, PushProperties DEF Sink!Idle
<1>6. promise' = Sink!Calls(c, n)
  <2>1. Len(projected) # Len(log')
    BY <1>2
  <2>2. \A d \in Callers : promise'[d] = Sink!Calls(c, n)[d]
    BY <1>5, <2>1
  <2>3. QED
    BY <1>4, <1>5, <2>2 DEF Promises
<1>7. SinkInv'
  BY <1>1, <1>2, <1>5, SinkInvTyped DEF SinkInv, Sink!TypeOK, Promises
<1>8. Sink!Channel!OfferAndWait
  <2>1. promise' = [promise EXCEPT ![c] = [state |-> "waiting", upto |-> Len(log)']]
    BY <1>2, <1>6 DEF Sink!Calls
  <2>2. Len(log)' = Len(log) + 1 /\ promise[c].state # "waiting"
    BY <1>1, <1>2 DEF Sink!Idle
  <2>3. QED
    BY <1>1, <2>1, <2>2 DEF Sink!Channel!OfferAndWait
<1>9. QED
  BY <1>7, <1>8 DEF Sink!Channel!Next

LEMMA FlushStep == ASSUME SinkInv, NEW c \in Callers, Sink!Flush(c) PROVE SinkInv' /\ Sink!Channel!Next
<1> DEFINE n == Len(log)
           item == Sink!Barrier(c)
<1>1. /\ ~failed /\ Sink!Idle(c) /\ log' = log /\ projected' = projected /\ failed' = failed
      /\ flushes' = flushes + 1 /\ Sink!Push(item, Sink!Calls(c, n))
  BY DEF Sink!Flush
<1>2. Grows /\ Len(log) \in Nat /\ log \in Seq(Sink!Key \cup {Sink!NoKey})
  BY <1>1, SinkInvTyped DEF Grows
<1>3. /\ WellFormed(item, log') /\ item.waiter = c /\ Len(item.delta) = 0
      /\ Numbers(Len(log), item.delta)
  <2>1. /\ item.delta = <<>> /\ Len(item.delta) = 0 /\ item.waiter = c /\ item.kind = "barrier"
        /\ item.key = Sink!NoKey
    BY EmptySeq DEF Sink!Barrier
  <2>2. item \in Sink!Item
    BY EmptySeq DEF Sink!Barrier, Sink!Item
  <2> HIDE DEF item
  <2>3. QED
    BY <2>1, <2>2 DEF WellFormed, Numbers
<1> HIDE DEF item
<1>4. /\ Sink!Calls(c, n) \in Promises /\ Sink!Calls(c, n)[c] = [state |-> "waiting", upto |-> Len(log')]
      /\ \A d \in Callers : d # c => Sink!Calls(c, n)[d] = promise[d]
  BY <1>1, <1>2, CallsProperties
<1>5. /\ queue' \in Seq(Sink!Item) /\ active' \in Sink!Item \cup {Sink!NoItem} /\ promise' \in Promises
      /\ QueueInv' /\ ActiveInv' /\ ProjectedInv' /\ Sink!WaitersAreHeld'
      /\ \A d \in Callers :
           \/ promise'[d] = Sink!Calls(c, n)[d]
           \/ /\ d = item.waiter /\ promise'[d] = [Sink!Calls(c, n)[d] EXCEPT !.state = "resolved"]
              /\ Len(projected) = Len(log')
  <2>1. Len(log') = Len(log) + Len(item.delta) /\ promise[c].state # "waiting"
    BY <1>1, <1>2, <1>3 DEF Sink!Idle
  <2>2. /\ \A d \in Callers : d # item.waiter => Sink!Calls(c, n)[d] = promise[d]
        /\ Sink!Calls(c, n)[item.waiter] = [state |-> "waiting", upto |-> Len(log')]
        /\ promise[item.waiter].state # "waiting"
    BY <1>3, <1>4, <2>1
  <2>3. QED
    BY <1>1, <1>2, <1>3, <1>4, <2>1, <2>2, PushProperties
<1>6. SinkInv'
  BY <1>1, <1>2, <1>5, SinkInvTyped DEF SinkInv, Sink!TypeOK, Promises
<1>7. Sink!Channel!OfferAndWait
  <2>1. Len(log)' = Len(log) /\ promise[c].state # "waiting"
    BY <1>1 DEF Sink!Idle
  <2>2. PICK answer \in {"waiting", "resolved"} :
          /\ promise'[c] = [state |-> answer, upto |-> Len(log)']
          /\ answer = "resolved" => Len(projected) = Len(log)'
    <3>1. CASE promise'[c] = Sink!Calls(c, n)[c]
      BY <1>4, <3>1
    <3>2. CASE promise'[c] = [Sink!Calls(c, n)[c] EXCEPT !.state = "resolved"] /\ Len(projected) = Len(log')
      <4>1. promise'[c] = [state |-> "resolved", upto |-> Len(log)']
        BY <1>4, <3>2
      <4>2. QED
        BY <3>2, <4>1
    <3>3. QED
      BY <1>5, <3>1, <3>2
  <2>3. promise' = [promise EXCEPT ![c] = [state |-> answer, upto |-> Len(log)']]
    <3>1. \A d \in Callers : d # c => promise'[d] = promise[d]
      BY <1>3, <1>4, <1>5
    <3>2. QED
      BY <1>5, <2>2, <3>1, SinkInvTyped DEF Promises
  <2>4. answer = "resolved" => projected = Sink!Channel!Prefix(Len(log)')
    BY <2>2, SinkInvTyped
  <2>5. QED
    BY <1>1, <2>1, <2>3, <2>4 DEF Sink!Channel!OfferAndWait
<1>8. QED
  BY <1>6, <1>7 DEF Sink!Channel!Next

LEMMA RefusedStep ==
  ASSUME SinkInv, NEW c \in Callers, Sink!Refused(c)
  PROVE  SinkInv' /\ Sink!Channel!Next
<1>1. /\ failed /\ Sink!Idle(c) /\ promise' = [promise EXCEPT ![c] = [state |-> "rejected", upto |-> Len(log)]]
      /\ log' = log /\ queue' = queue /\ active' = active /\ projected' = projected
      /\ failed' = failed /\ flushes' = flushes
  BY DEF Sink!Refused
<1>2. promise \in Promises /\ Len(log) \in Nat /\ active = Sink!NoItem /\ queue = <<>> /\ Len(queue) = 0
  BY <1>1, SinkInvTyped, EmptySeq DEF SinkInv, ActiveInv
<1>3. /\ promise' \in Promises /\ promise'[c].state = "rejected"
      /\ \A d \in Callers : d # c => promise'[d] = promise[d]
  BY <1>1, <1>2 DEF Promises
<1>4. Sink!TypeOK'
  BY <1>1, <1>3 DEF SinkInv, Sink!TypeOK, Promises
<1>5. QueueInv' /\ ActiveInv' /\ ProjectedInv'
  BY <1>1, <1>2 DEF SinkInv, QueueInv, ActiveInv, ProjectedInv, Apart
<1>6. Sink!WaitersAreHeld'
  <2> SUFFICES ASSUME NEW d \in Callers, promise'[d].state = "waiting" PROVE FALSE
    BY DEF Sink!WaitersAreHeld
  <2>1. d # c /\ promise[d].state = "waiting"
    BY <1>3
  <2>2. PICK item \in Sink!Carried : item.waiter = d
    BY <2>1 DEF SinkInv, Sink!WaitersAreHeld
  <2>3. item = Sink!NoItem
    BY <1>2 DEF Sink!Carried
  <2>4. QED
    BY <2>2, <2>3, NoItemTyped, Names
<1>7. Sink!Channel!Refuse
  BY <1>1 DEF Sink!Channel!Refuse, Sink!Idle
<1>8. QED
  BY <1>4, <1>5, <1>6, <1>7 DEF SinkInv, Sink!Channel!Next

\* What is queued comes after what is awaited.
LEMMA LaidGrows ==
  ASSUME NEW q \in Seq(Sink!Item), NEW f, NEW lo \in Nat, Laid(q, f, lo)
  PROVE  lo <= f[Len(q)]
<1> DEFINE T == {i \in 0..Len(q) : ~(lo <= f[i])}
<1>1. Len(q) \in Nat /\ f \in [0..Len(q) -> Nat] /\ f[0] = lo
  BY LenProperties DEF Laid
<1>2. SUFFICES ASSUME T # {} PROVE FALSE
  BY <1>1
<1>3. PICK x \in T : \A y \in T : x <= y
  <2>1. T \in SUBSET Nat
    BY <1>1
  <2>2. QED
    BY <1>2, <2>1, LeastNumber
<1>4. x # 0 /\ x - 1 \in 0..Len(q) /\ x \in 1..Len(q) /\ x = x - 1 + 1
  BY <1>1
<1>5. lo <= f[x - 1]
  BY <1>1, <1>3, <1>4
<1>6. f[x] = f[x - 1] + Len(q[x].delta)
  BY <1>4 DEF Laid
<1>7. Len(q[x].delta) \in Nat
  BY <1>4, ElementOfSeq, ItemTyped
<1>8. f[x - 1] \in Nat
  BY <1>1, <1>4
<1>9. QED
  BY <1>3, <1>5, <1>6, <1>7, <1>8

LEMMA SunkStep == ASSUME SinkInv, Sink!Sunk PROVE SinkInv' /\ Sink!Channel!Next
<1> DEFINE W == {active.waiter}
           lo == Len(projected')
<1>1. /\ active # Sink!NoItem /\ projected' = projected \o active.delta /\ Sink!Pump(queue, W, promise)
      /\ log' = log /\ failed' = failed /\ flushes' = flushes
  BY DEF Sink!Sunk
<1>2. /\ ~failed /\ active \in Sink!Item /\ active.kind = "event" /\ WellFormed(active, log)
      /\ Numbers(Len(projected), active.delta) /\ QueueInv /\ Sink!WaitersAreHeld
      /\ active.waiter # None =>
           /\ promise[active.waiter] = [state |-> "waiting", upto |-> Start]
           /\ \A i \in 1..Len(queue) : queue[i].waiter # active.waiter
  BY <1>1, SinkInvTyped DEF SinkInv, ActiveInv
<1>3. /\ active.delta \in Seq(Nat) /\ Len(active.delta) \in Nat \ {0} /\ projected \in Seq(Nat)
      /\ Len(projected) \in Nat
  BY <1>2, ItemTyped, SinkInvTyped, EmptySeq DEF WellFormed
<1>4. /\ projected' \in Seq(Nat) /\ lo = Start /\ lo \in Nat /\ Len(projected) < lo
      /\ \A i \in 1..lo : projected'[i] = IF i <= Len(projected) THEN projected[i]
                                          ELSE active.delta[i - Len(projected)]
  <2>1. /\ projected' \in Seq(Nat) /\ lo = Len(projected) + Len(active.delta)
        /\ \A i \in 1..Len(projected) + Len(active.delta) :
             projected'[i] = IF i <= Len(projected) THEN projected[i] ELSE active.delta[i - Len(projected)]
    BY <1>1, <1>3, ConcatProperties
  <2>2. lo = Start
    BY <2>1 DEF Start
  <2>3. 1..lo = 1..(Len(projected) + Len(active.delta)) /\ lo \in Nat /\ Len(projected) < lo
    BY <1>3, <2>1
  <2> HIDE DEF lo
  <2>4. QED
    BY <2>1, <2>2, <2>3
<1>5. Numbers(0, projected')
  <2> SUFFICES ASSUME NEW i \in 1..lo PROVE projected'[i] = 0 + i
    BY DEF Numbers
  <2>1. CASE i <= Len(projected)
    <3>1. i \in 1..Len(projected) /\ projected'[i] = projected[i]
      BY <1>3, <1>4, <2>1
    <3>2. QED
      BY <3>1 DEF SinkInv, ProjectedInv, Numbers
  <2>2. CASE ~(i <= Len(projected))
    <3>1. /\ i - Len(projected) \in 1..Len(active.delta)
          /\ projected'[i] = active.delta[i - Len(projected)]
      <4>1. lo = Len(projected) + Len(active.delta)
        BY <1>4 DEF Start
      <4>2. i - Len(projected) \in 1..Len(active.delta)
        BY <1>3, <2>2, <4>1
      <4>3. QED
        BY <1>4, <2>2, <4>2
    <3>2. active.delta[i - Len(projected)] = Len(projected) + (i - Len(projected))
      BY <1>2, <3>1 DEF Numbers
    <3>3. QED
      BY <1>3, <1>4, <3>1, <3>2
  <2>3. QED
    BY <2>1, <2>2
<1>6. PICK f : Laid(queue, f, lo) /\ f[Len(queue)] = Len(log) /\ Awaited(queue, f, promise)
  BY <1>2, <1>4 DEF QueueInv
<1> HIDE DEF lo
<1>7. lo <= Len(log)
  BY <1>4, <1>6, LaidGrows, SinkInvTyped
<1>8. ProjectedInv'
  BY <1>1, <1>5, <1>7 DEF ProjectedInv, lo
<1>9. /\ queue' \in Seq(Sink!Item) /\ active' \in Sink!Item \cup {Sink!NoItem} /\ promise' \in Promises
      /\ QueueInv' /\ ActiveInv' /\ Sink!WaitersAreHeld'
      /\ \A c \in Callers :
           \/ promise'[c] = promise[c]
           \/ /\ promise'[c] = [promise[c] EXCEPT !.state = "resolved"]
              /\ c \in W \/ (promise[c].state = "waiting" /\ promise[c].upto = lo)
  <2>1. queue \in Seq(Sink!Item) /\ promise \in Promises
    BY SinkInvTyped
  <2>2. \A i \in 1..Len(queue) :
          WellFormed(queue[i], log') /\ (queue[i].waiter # None => queue[i].waiter \notin W)
    BY <1>1, <1>2 DEF QueueInv
  <2>3. \A c \in Callers : promise[c].state = "waiting" =>
          c \in W \/ \E i \in 1..Len(queue) : queue[i].waiter = c
    BY <1>2 DEF Sink!WaitersAreHeld, Sink!Carried
  <2>4. Apart(queue) /\ f[Len(queue)] = Len(log') /\ lo = Len(projected') /\ ~failed'
    BY <1>1, <1>2, <1>6 DEF QueueInv, lo
  <2> HIDE DEF W
  <2>5. QED
    <3>1. lo \in Nat /\ Sink!Pump(queue, W, promise)
      BY <1>1, <1>4
    <3>2. QED
      BY <1>6, <2>1, <2>2, <2>3, <2>4, <3>1, PumpProperties, SMTT(30)
<1>10. SinkInv'
  BY <1>1, <1>4, <1>8, <1>9, SinkInvTyped DEF SinkInv, Sink!TypeOK, Promises
<1>11. Sink!Channel!Project
  <2>1. projected' = Sink!Channel!Prefix(lo) /\ projected = Sink!Channel!Prefix(Len(projected))
    BY <1>4, <1>5, ProjectedIsPrefix, SinkInvTyped DEF lo
  <2>2. lo \in 1..Len(log) /\ Len(projected) \in 0..lo
    BY <1>3, <1>4, <1>7, SinkInvTyped
  <2>3. Sink!Channel!Answers
    <3>1. ASSUME NEW c \in Callers, promise'[c] # promise[c]
          PROVE  /\ promise[c].state = "waiting" /\ promise'[c] = [promise[c] EXCEPT !.state = "resolved"]
                 /\ promise[c].upto = lo
      <4>1. CASE c \in W
        <5>1. c = active.waiter /\ c # None
          BY <4>1, Names
        <5>2. promise[c] = [state |-> "waiting", upto |-> lo]
          BY <1>2, <1>4, <5>1
        <5>3. QED
          BY <1>9, <3>1, <5>2
      <4>2. CASE c \notin W
        BY <1>9, <3>1, <4>2
      <4>3. QED
        BY <4>1, <4>2
    <3>2. lo \in lo..Len(log)
      BY <2>2
    <3>3. QED
      BY <2>1, <3>1, <3>2 DEF Sink!Channel!Answers
  <2>4. QED
    BY <1>1, <1>2, <2>1, <2>2, <2>3 DEF Sink!Channel!Project
<1>12. QED
  BY <1>10, <1>11 DEF Sink!Channel!Next

LEMMA SinkFailsStep == ASSUME SinkInv, Sink!SinkFails PROVE SinkInv' /\ Sink!Channel!Next
<1> DEFINE rejected(c) == active.waiter = c \/ \E i \in 1..Len(queue) : queue[i].waiter = c
<1>1. /\ active # Sink!NoItem /\ failed' = TRUE /\ active' = Sink!NoItem /\ queue' = <<>>
      /\ log' = log /\ projected' = projected /\ flushes' = flushes
      /\ promise' = [c \in Callers |->
           IF rejected(c) THEN [promise[c] EXCEPT !.state = "rejected"] ELSE promise[c]]
  BY DEF Sink!SinkFails
<1>2. ~failed /\ promise \in Promises /\ Sink!WaitersAreHeld /\ active \in Sink!Item
  BY <1>1, SinkInvTyped DEF SinkInv, ActiveInv
<1>3. \A c \in Callers :
        promise'[c] = IF rejected(c) THEN [promise[c] EXCEPT !.state = "rejected"] ELSE promise[c]
  BY <1>1
<1>4. promise' \in Promises
  <2>1. \A c \in Callers : [promise[c] EXCEPT !.state = "rejected"]
          \in [state: {"none", "waiting", "resolved", "rejected"}, upto: Nat]
    BY <1>2 DEF Promises
  <2>2. QED
    BY <1>1, <1>2, <2>1 DEF Promises
<1>5. Sink!TypeOK'
  BY <1>1, <1>4, EmptySeq DEF SinkInv, Sink!TypeOK, Promises
<1>6. QueueInv' /\ ActiveInv' /\ ProjectedInv'
  BY <1>1, EmptySeq DEF SinkInv, QueueInv, ActiveInv, ProjectedInv, Apart
<1>7. ASSUME NEW c \in Callers, promise[c].state = "waiting" PROVE rejected(c)
  BY <1>2, <1>7 DEF Sink!WaitersAreHeld, Sink!Carried
<1>8. ASSUME NEW c \in Callers, rejected(c) PROVE promise[c].state = "waiting"
  <2>1. CASE active.waiter = c
    BY <1>1, <2>1, Names DEF SinkInv, ActiveInv
  <2>2. CASE \E i \in 1..Len(queue) : queue[i].waiter = c
    <3>1. PICK f : Awaited(queue, f, promise)
      BY <1>2 DEF SinkInv, QueueInv
    <3>2. PICK i \in 1..Len(queue) : queue[i].waiter = c
      BY <2>2
    <3>3. promise[queue[i].waiter] = [state |-> "waiting", upto |-> f[i]]
      BY <3>1, <3>2, Names DEF Awaited
    <3>4. QED
      BY <3>2, <3>3
  <2>3. QED
    BY <1>8, <2>1, <2>2
<1>9. Sink!WaitersAreHeld'
  <2>1. ASSUME NEW c \in Callers PROVE promise'[c].state # "waiting"
    <3>1. CASE rejected(c)
      <4>1. [promise[c] EXCEPT !.state = "rejected"].state = "rejected"
        BY <1>2 DEF Promises
      <4>2. QED
        BY <1>3, <3>1, <4>1
    <3>2. CASE ~rejected(c)
      BY <1>3, <1>7, <3>2
    <3>3. QED
      BY <3>1, <3>2
  <2>2. QED
    BY <2>1 DEF Sink!WaitersAreHeld
<1>10. Sink!Channel!Break
  <2>1. Sink!Channel!Answers
    BY <1>1, <1>3, <1>8 DEF Sink!Channel!Answers
  <2>2. QED
    BY <1>1, <1>2, <2>1 DEF Sink!Channel!Break
<1>11. QED
  BY <1>5, <1>6, <1>9, <1>10 DEF SinkInv, Sink!Channel!Next

LEMMA SinkStep == ASSUME SinkInv, Sink!Next PROVE SinkInv' /\ Sink!Channel!Next
BY AcceptDeltaStep, AcceptStep, FlushStep, RefusedStep, SunkStep, SinkFailsStep DEF Sink!Next

LEMMA SinkRests == ASSUME SinkInv, UNCHANGED sink PROVE SinkInv' /\ UNCHANGED Sink!Channel!vars
<1>1. /\ log' = log /\ queue' = queue /\ active' = active /\ projected' = projected
      /\ promise' = promise /\ failed' = failed /\ flushes' = flushes
  BY DEF sink
<1>2. Sink!TypeOK' /\ ActiveInv' /\ ProjectedInv'
  BY <1>1 DEF SinkInv, Sink!TypeOK, ActiveInv, ProjectedInv, Start
<1>3. QueueInv'
  BY <1>1 DEF SinkInv, QueueInv, Start
<1>4. Sink!WaitersAreHeld'
  BY <1>1 DEF SinkInv, Sink!WaitersAreHeld, Sink!Carried
<1>5. QED
  BY <1>1, <1>2, <1>3, <1>4 DEF SinkInv, Sink!Channel!vars

\* A step of another component leaves the sink alone.
LEMMA SinkGoesOn ==
  ASSUME SinkInv, [MCNext]_MCvars
  PROVE  SinkInv' /\ [Sink!Channel!Next]_(Sink!Channel!vars)
<1>1. Sink!Next \/ UNCHANGED sink
  BY DEF MCNext, MCvars
<1>2. QED
  BY <1>1, SinkStep, SinkRests

LEMMA SinkAlways == MCSpec => []SinkInv
<1>1. MCInit => SinkInv
  BY SinkInvInit DEF MCInit
<1>2. QED
  BY <1>1, SinkGoesOn, PTL DEF MCSpec

LEMMA DeltasAreApart == ASSUME SinkInv PROVE Sink!NoCrossMerge
<1> SUFFICES ASSUME NEW item \in Sink!Carried, NEW i \in 1..Len(item.delta),
                    NEW j \in 1..Len(item.delta)
             PROVE  /\ log[item.delta[i]].slot = log[item.delta[j]].slot
                    /\ \/ log[item.delta[i]].id = None \/ log[item.delta[j]].id = None
                       \/ log[item.delta[i]].id = log[item.delta[j]].id
  BY DEF Sink!NoCrossMerge
<1>1. item # Sink!NoItem
  BY NoItemTyped
<1>2. WellFormed(item, log)
  BY <1>1 DEF SinkInv, QueueInv, ActiveInv, Sink!Carried
<1>3. QED
  BY <1>2 DEF WellFormed

(***************************************************************************)
(* The page's session                                                      *)
(***************************************************************************)
\* The action under way.
Posts == [pc: {"none", "sent", "accepted", "rejected", "failed"}, run: Client!Runs \cup {None}]

\* What was read of the session says of its latest run that it goes on while it does.
Past(s) ==
  s # None => /\ s.last <= server.last
              /\ s.live => s.last # 0
              /\ s.last = server.last /\ server.live => s.live

AnswersArePast ==
  /\ Past(server) /\ Past(page.data) /\ Past(query.answer)
  /\ \A r \in Client!Runs : Past(refresh[r].answer)

RunsArePast ==
  /\ page.run # None => page.run <= server.last
  /\ post.run # None => post.run <= server.last
  /\ told # None => told <= server.last
  /\ post.pc \in {"accepted", "rejected"} => post.run # None

\* A run the page has seen the end of has ended.
EndIsPast == page.ended => page.run # None /\ (page.run = server.last => ~server.live)

\* A response that overtook the answer is still the data of the page.
OvertakenIsOld == overtaken => told # None /\ page.data # None /\ page.data.last < told

RunIsObserved ==
  told # None /\ server.live /\ server.last = told /\ ~overtaken => page.run = told

ClientInv ==
  Client!TypeOK /\ AnswersArePast /\ RunsArePast /\ EndIsPast /\ OvertakenIsOld /\ RunIsObserved

LEMMA PageDataSet ==
  ASSUME NEW p \in Client!Page, NEW v, v \in Client!Response
  PROVE  /\ [p EXCEPT !.data = v] \in Client!Page
         /\ [p EXCEPT !.data = v].data = v
         /\ [p EXCEPT !.data = v].run = p.run
         /\ [p EXCEPT !.data = v].ended <=> p.ended
BY DEF Client!Page

LEMMA PageRunSet ==
  ASSUME NEW p \in Client!Page, NEW v, v \in Client!Runs \cup {None}
  PROVE  /\ [p EXCEPT !.run = v] \in Client!Page
         /\ [p EXCEPT !.run = v].data = p.data
         /\ [p EXCEPT !.run = v].run = v
         /\ [p EXCEPT !.run = v].ended <=> p.ended
BY DEF Client!Page

LEMMA PageEndedSet ==
  ASSUME NEW p \in Client!Page
  PROVE  /\ [p EXCEPT !.ended = TRUE] \in Client!Page /\ [p EXCEPT !.ended = FALSE] \in Client!Page
         /\ [p EXCEPT !.ended = TRUE].data = p.data
         /\ [p EXCEPT !.ended = TRUE].run = p.run
         /\ [p EXCEPT !.ended = TRUE].ended
         /\ [p EXCEPT !.ended = FALSE].data = p.data
         /\ [p EXCEPT !.ended = FALSE].run = p.run
         /\ ~[p EXCEPT !.ended = FALSE].ended
BY DEF Client!Page

LEMMA PageDeliverySet ==
  ASSUME NEW p \in Client!Page, NEW v, v \in {"none", "sending", "sent", "failed"}
  PROVE  /\ [p EXCEPT !.delivery = v] \in Client!Page
         /\ [p EXCEPT !.delivery = v].data = p.data
         /\ [p EXCEPT !.delivery = v].run = p.run
         /\ [p EXCEPT !.delivery = v].ended <=> p.ended
BY DEF Client!Page

LEMMA PageBaseSet ==
  ASSUME NEW p \in Client!Page, NEW v, v \in Client!Response
  PROVE  /\ [p EXCEPT !.base = v] \in Client!Page
         /\ [p EXCEPT !.base = v].data = p.data
         /\ [p EXCEPT !.base = v].run = p.run
         /\ [p EXCEPT !.base = v].ended <=> p.ended
BY DEF Client!Page

LEMMA PageRefreshedSet ==
  ASSUME NEW p \in Client!Page, NEW v, v \in SUBSET Client!Runs
  PROVE  /\ [p EXCEPT !.refreshed = v] \in Client!Page
         /\ [p EXCEPT !.refreshed = v].data = p.data
         /\ [p EXCEPT !.refreshed = v].run = p.run
         /\ [p EXCEPT !.refreshed = v].ended <=> p.ended
BY DEF Client!Page

LEMMA PageLeftSet ==
  ASSUME NEW p \in Client!Page
  PROVE  /\ [p EXCEPT !.left = TRUE] \in Client!Page /\ [p EXCEPT !.left = FALSE] \in Client!Page
         /\ [p EXCEPT !.left = TRUE].data = p.data
         /\ [p EXCEPT !.left = TRUE].run = p.run
         /\ [p EXCEPT !.left = TRUE].ended <=> p.ended
         /\ [p EXCEPT !.left = FALSE].data = p.data
         /\ [p EXCEPT !.left = FALSE].run = p.run
         /\ [p EXCEPT !.left = FALSE].ended <=> p.ended
BY DEF Client!Page

LEMMA RunNumbers ==
  /\ MaxRuns \in Nat \ {0} /\ None \notin Nat /\ None \notin Client!Session /\ Client!Runs \subseteq Nat
  /\ \A n \in 0..MaxRuns : n \in Nat /\ (n # 0 => n \in Client!Runs)
BY ClientAssumption DEF Client!Runs, Client!Session

LEMMA SessionSet ==
  ASSUME NEW s \in Client!Session, NEW n \in 0..MaxRuns
  PROVE  /\ [s EXCEPT !.last = n] \in Client!Session /\ [s EXCEPT !.last = n].last = n
         /\ [s EXCEPT !.live = TRUE] \in Client!Session /\ [s EXCEPT !.live = TRUE].live
         /\ [s EXCEPT !.live = TRUE].last = s.last
         /\ [s EXCEPT !.live = FALSE] \in Client!Session /\ ~[s EXCEPT !.live = FALSE].live
         /\ [s EXCEPT !.live = FALSE].last = s.last
BY DEF Client!Session

\* The page observes the run of a response, or goes on with what it has seen of it.
LEMMA ObservingIs ==
  ASSUME NEW p \in Client!Page, NEW s \in Client!Session, s.live => s.last # 0
  PROVE  /\ Client!Observing(p, s) \in Client!Page /\ ~Client!Observing(p, s).ended
         /\ Client!Observing(p, s).data = p.data
         /\ s.live => Client!Observing(p, s).run = s.last
         /\ ~s.live => Client!Observing(p, s).run = None
<1> DEFINE later == IF s.live THEN s.last ELSE None
           moved == [p EXCEPT !.run = later]
<1>1. later \in Client!Runs \cup {None}
  BY RunNumbers DEF Client!Session
<1>2. (s.live => later = s.last) /\ (~s.live => later = None)
  OBVIOUS
<1>3. Client!Observing(p, s) = [moved EXCEPT !.ended = FALSE]
  BY DEF Client!Observing
<1> HIDE DEF later
<1>4. moved \in Client!Page /\ moved.data = p.data /\ moved.run = later
  BY <1>1, PageRunSet
<1> HIDE DEF moved
<1>5. QED
  BY <1>2, <1>3, <1>4, PageEndedSet

LEMMA ObservedIs ==
  ASSUME NEW p \in Client!Page, NEW s \in Client!Session, s.live => s.last # 0
  PROVE  /\ Client!Observed(p, s) \in Client!Page /\ Client!Observed(p, s).data = p.data
         /\ Client!Observed(p, s).ended => p.ended /\ Client!Observed(p, s).run = p.run
         /\ s.live => Client!Observed(p, s).run = s.last
         /\ ~s.live => Client!Observed(p, s).run = None
<1>1. CASE s.live /\ p.run = s.last /\ p.ended
  BY <1>1 DEF Client!Observed
<1>2. CASE ~(s.live /\ p.run = s.last /\ p.ended)
  <2>1. Client!Observed(p, s) = Client!Observing(p, s)
    BY <1>2 DEF Client!Observed
  <2>2. QED
    BY <2>1, ObservingIs
<1>3. QED
  BY <1>1, <1>2

LEMMA SettledIs ==
  ASSUME NEW p \in Client!Page
  PROVE  /\ Client!Settled(p) \in Client!Page /\ Client!Settled(p).data = p.data /\ Client!Settled(p).run = p.run
         /\ Client!Settled(p).ended <=> p.ended
<1> DEFINE idle == [p EXCEPT !.delivery = "none"]
           bare == [idle EXCEPT !.base = None]
<1>1. idle \in Client!Page /\ idle.data = p.data /\ idle.run = p.run /\ (idle.ended <=> p.ended)
  BY PageDeliverySet
<1>2. bare = [p EXCEPT !.delivery = "none", !.base = None]
  OBVIOUS
<1>3. bare \in Client!Page /\ bare.data = p.data /\ bare.run = p.run /\ (bare.ended <=> p.ended)
  <2> HIDE DEF idle
  <2>1. None \in Client!Response
    BY DEF Client!Response
  <2>2. QED
    BY <1>1, <2>1, PageBaseSet
<1>4. Client!Settled(p) = bare \/ Client!Settled(p) = p
  BY <1>2 DEF Client!Settled
<1> HIDE DEF bare
<1>5. QED
  BY <1>3, <1>4

(***************************************************************************)
(* The session                                                             *)
(***************************************************************************)
\* The session goes on: a run that has ended does not go on.
Later ==
  /\ server.last <= server'.last
  /\ server'.last = server.last /\ server'.live => server.live

LEMMA PastStays ==
  ASSUME server \in Client!Session, server' \in Client!Session, Later, NEW s \in Client!Response, Past(s)
  PROVE  s # None => /\ s.last <= server'.last /\ (s.live => s.last # 0)
                     /\ s.last = server'.last /\ server'.live => s.live
BY DEF Past, Later, Client!Session, Client!Response

\* While the page rests, the session and the requests go on.
LEMMA PageRests ==
  ASSUME ClientInv, UNCHANGED <<page, told, overtaken>>,
         server' \in Client!Session, Later, server'.live => server'.last # 0,
         query' \in Client!Fetch, Past(query.answer)',
         refresh' \in [Client!Runs -> Client!Fetch], \A r \in Client!Runs : Past(refresh[r].answer)',
         post' \in Posts,
         post'.run # None => post'.run <= server'.last,
         post'.pc \in {"accepted", "rejected"} => post'.run # None
  PROVE  ClientInv'
<1>1. Client!TypeOK'
  BY DEF ClientInv, Client!TypeOK, Posts
<1>2. /\ server \in Client!Session /\ page \in Client!Page /\ told \in Client!Runs \cup {None}
      /\ page.data \in Client!Response
      /\ page.run \in Client!Runs \cup {None}
  BY DEF ClientInv, Client!TypeOK, Client!Page
<1>3. AnswersArePast'
  <2>1. Past(page.data)'
    BY <1>2, PastStays DEF ClientInv, AnswersArePast, Past
  <2>2. Past(server)'
    BY DEF Past, Client!Session
  <2>3. QED
    BY <2>1, <2>2 DEF AnswersArePast
<1>4. RunsArePast'
  <2>1. server.last \in Nat /\ server'.last \in Nat /\ server.last <= server'.last
    BY <1>2, RunNumbers DEF Later, Client!Session
  <2>2. page.run # None => page.run \in Nat /\ page.run <= server.last
    BY <1>2, RunNumbers DEF ClientInv, RunsArePast
  <2>3. told # None => told \in Nat /\ told <= server.last
    BY <1>2, RunNumbers DEF ClientInv, RunsArePast
  <2>4. (page.run # None => page.run <= server'.last) /\ (told # None => told <= server'.last)
    BY <2>1, <2>2, <2>3
  <2>5. QED
    BY <2>4 DEF RunsArePast
<1>5. EndIsPast'
  BY <1>2, RunNumbers DEF ClientInv, EndIsPast, RunsArePast, Later, Client!Session
<1>6. OvertakenIsOld'
  BY DEF ClientInv, OvertakenIsOld
<1>7. RunIsObserved'
  BY <1>2, RunNumbers DEF ClientInv, RunIsObserved, RunsArePast, Later, Client!Session
<1>8. QED
  BY <1>1, <1>3, <1>4, <1>5, <1>6, <1>7 DEF ClientInv

LEMMA ClientTypes ==
  ASSUME ClientInv
  PROVE  /\ server \in Client!Session /\ server.last \in 0..MaxRuns /\ server.live \in BOOLEAN
         /\ page \in Client!Page /\ page.data \in Client!Response /\ page.run \in Client!Runs \cup {None}
         /\ query \in Client!Fetch /\ query.answer \in Client!Response
         /\ refresh \in [Client!Runs -> Client!Fetch]
         /\ \A r \in Client!Runs :
              refresh[r] \in Client!Fetch /\ refresh[r].answer \in Client!Response
         /\ post \in Posts
         /\ post.run \in Client!Runs \cup {None} /\ told \in Client!Runs \cup {None}
<1>1. Client!TypeOK
  BY DEF ClientInv
<1>2. server.last \in 0..MaxRuns /\ server.live \in BOOLEAN /\ server \in Client!Session
  BY <1>1 DEF Client!TypeOK, Client!Session
<1>3. page \in Client!Page /\ page.data \in Client!Response /\ page.run \in Client!Runs \cup {None}
  BY <1>1 DEF Client!TypeOK, Client!Page
<1>4. query \in Client!Fetch /\ query.answer \in Client!Response
  BY <1>1 DEF Client!TypeOK, Client!Fetch
<1>5. \A r \in Client!Runs : refresh[r] \in Client!Fetch /\ refresh[r].answer \in Client!Response
  BY <1>1 DEF Client!TypeOK, Client!Fetch
<1>6. QED
  BY <1>1, <1>2, <1>3, <1>4, <1>5 DEF Client!TypeOK, Posts

LEMMA ClaimedIs ==
  ASSUME server \in Client!Session, server.last < MaxRuns
  PROVE  /\ Client!Claimed(server) \in Client!Session /\ Client!Claimed(server).last = server.last + 1
         /\ Client!Claimed(server).live /\ Client!Claimed(server).last # 0 /\ server.last + 1 \in Client!Runs
         /\ server.last \in Nat
<1> DEFINE n == server.last + 1
           later == [server EXCEPT !.last = n]
<1>1. server.last \in Nat /\ n \in 0..MaxRuns /\ n # 0 /\ n \in Client!Runs
  BY RunNumbers DEF Client!Session, Client!Runs
<1>2. Client!Claimed(server) = [later EXCEPT !.live = TRUE]
  BY DEF Client!Claimed
<1> HIDE DEF n
<1>3. later \in Client!Session /\ later.last = n
  BY <1>1, SessionSet
<1> HIDE DEF later
<1>4. Client!Claimed(server) \in Client!Session /\ Client!Claimed(server).live /\ Client!Claimed(server).last = n
  BY <1>1, <1>2, <1>3, SessionSet
<1>5. QED
  BY <1>1, <1>4 DEF n

LEMMA RequestsStay ==
  ASSUME ClientInv, server' \in Client!Session, Later
  PROVE  /\ query' = query => query' \in Client!Fetch /\ Past(query.answer)'
         /\ refresh' = refresh =>
              /\ refresh' \in [Client!Runs -> Client!Fetch]
              /\ \A r \in Client!Runs : Past(refresh[r].answer)'
         /\ post' = post =>
              /\ post' \in Posts
              /\ post'.run # None => post'.run <= server'.last
              /\ post'.pc \in {"accepted", "rejected"} => post'.run # None
<1>1. ASSUME query' = query PROVE query' \in Client!Fetch /\ Past(query.answer)'
  BY <1>1, ClientTypes, PastStays DEF ClientInv, AnswersArePast, Past
<1>2. ASSUME refresh' = refresh
      PROVE refresh' \in [Client!Runs -> Client!Fetch] /\ \A r \in Client!Runs : Past(refresh[r].answer)'
  BY <1>2, ClientTypes, PastStays DEF ClientInv, AnswersArePast, Past
<1>3. ASSUME post' = post
      PROVE  /\ post' \in Posts
             /\ post'.run # None => post'.run <= server'.last
             /\ post'.pc \in {"accepted", "rejected"} => post'.run # None
  <2>1. post.run # None => post.run <= server'.last
    <3>1. server.last \in Nat /\ server'.last \in Nat /\ server.last <= server'.last
      BY ClientTypes, RunNumbers DEF Later, Client!Session
    <3>2. post.run # None => post.run \in Nat /\ post.run <= server.last
      BY ClientTypes, RunNumbers DEF ClientInv, RunsArePast
    <3>3. QED
      BY <3>1, <3>2
  <2>2. QED
    BY <1>3, <2>1, ClientTypes DEF ClientInv, RunsArePast
<1>4. QED
  BY <1>1, <1>2, <1>3

LEMMA SessionStep ==
  ASSUME ClientInv, Client!RunEnds \/ Client!OtherPageActs
  PROVE  ClientInv'
<1>1. UNCHANGED <<page, query, refresh, post, told, overtaken>>
  BY DEF Client!RunEnds, Client!OtherPageActs
<1>2. server' \in Client!Session /\ Later /\ (server'.live => server'.last # 0)
  <2>1. CASE Client!RunEnds
    <3>1. server' = [server EXCEPT !.live = FALSE]
      BY <2>1 DEF Client!RunEnds
    <3>2. server' \in Client!Session /\ ~server'.live /\ server'.last = server.last
      BY <3>1, ClientTypes, SessionSet
    <3>3. server.last <= server.last
      BY ClientTypes, RunNumbers
    <3>4. QED
      BY <3>2, <3>3 DEF Later
  <2>2. CASE Client!OtherPageActs
    <3>1. server' = Client!Claimed(server) /\ Client!CanClaim(server)
      BY <2>2 DEF Client!OtherPageActs
    <3>2. server' \in Client!Session /\ server'.last = server.last + 1 /\ server'.last # 0 /\ server.last \in Nat
      BY <3>1, ClientTypes, ClaimedIs DEF Client!CanClaim
    <3>3. QED
      BY <3>2 DEF Later
  <2>3. QED
    BY <2>1, <2>2
<1>3. QED
  BY <1>1, <1>2, RequestsStay, PageRests

LEMMA ServerRests ==
  ASSUME ClientInv, UNCHANGED server
  PROVE  server' \in Client!Session /\ Later /\ (server'.live => server'.last # 0)
<1>1. server \in Client!Session /\ server.last \in Nat /\ server # None
  BY ClientTypes, RunNumbers
<1>2. server.last <= server.last
  BY <1>1
<1>3. server.live => server.last # 0
  BY <1>1 DEF ClientInv, AnswersArePast, Past
<1>4. QED
  BY <1>1, <1>2, <1>3 DEF Later

\* What a request reads is what the session is now.
LEMMA ReadIs ==
  ASSUME server' \in Client!Session, server'.live => server'.last # 0
  PROVE  /\ Past(server)' /\ Client!Read(Client!Asked, server') \in Client!Fetch
         /\ Client!Read(Client!Asked, server').answer = server'
<1>1. Past(server)'
  BY DEF Past, Client!Session
<1>2. server' \in Client!Response
  BY DEF Client!Response
<1>3. QED
  BY <1>1, <1>2 DEF Client!Read, Client!Asked, Client!Fetch

LEMMA QueryReadsStep == ASSUME ClientInv, Client!QueryReads PROVE ClientInv'
<1>1. /\ query = Client!Asked /\ query' = Client!Read(Client!Asked, server')
      /\ server' = IF server.last = 0 THEN Client!Claimed(server) ELSE server
      /\ UNCHANGED <<page, refresh, post, told, overtaken>>
  BY DEF Client!QueryReads, Client!Unread
<1>2. server' \in Client!Session /\ Later /\ (server'.live => server'.last # 0)
  <2>1. CASE server.last = 0
    <3>1. server.last < MaxRuns /\ server' = Client!Claimed(server)
      BY <1>1, <2>1, RunNumbers
    <3>2. server' \in Client!Session /\ server'.last = server.last + 1 /\ server'.last # 0 /\ server.last \in Nat
      BY <3>1, ClientTypes, ClaimedIs
    <3>3. QED
      BY <3>2 DEF Later
  <2>2. CASE server.last # 0
    BY <1>1, <2>2, ServerRests
  <2>3. QED
    BY <2>1, <2>2
<1>3. query' \in Client!Fetch /\ query'.answer = server'
  BY <1>1, <1>2, ReadIs
<1>4. Past(query.answer)'
  BY <1>2, <1>3, ReadIs
<1>5. QED
  BY <1>1, <1>2, <1>3, <1>4, RequestsStay, PageRests

LEMMA RefreshReadsStep == ASSUME ClientInv, NEW r \in Client!Runs, Client!RefreshReads(r) PROVE ClientInv'
<1>1. /\ refresh[r] = Client!Asked /\ refresh' = [refresh EXCEPT ![r] = Client!Read(Client!Asked, server)]
      /\ UNCHANGED <<server, page, query, post, told, overtaken>>
  BY DEF Client!RefreshReads, Client!Unread
<1>2. server' \in Client!Session /\ Later /\ (server'.live => server'.last # 0)
  BY <1>1, ServerRests
<1>3. /\ Client!Read(Client!Asked, server) \in Client!Fetch
      /\ Client!Read(Client!Asked, server).answer = server /\ Past(server)'
  BY <1>1, <1>2, ReadIs
<1>4. refresh' \in [Client!Runs -> Client!Fetch]
  BY <1>1, <1>3, ClientTypes
<1>5. \A q \in Client!Runs : Past(refresh[q].answer)'
  <2> SUFFICES ASSUME NEW q \in Client!Runs PROVE Past(refresh[q].answer)'
    OBVIOUS
  <2>1. CASE q = r
    BY <1>1, <1>3, <2>1, ClientTypes
  <2>2. CASE q # r
    <3>1. refresh'[q] = refresh[q]
      BY <1>1, <2>2, ClientTypes
    <3>2. Past(refresh[q].answer)
      BY DEF ClientInv, AnswersArePast
    <3>3. QED
      BY <1>1, <3>1, <3>2 DEF Past
  <2>3. QED
    BY <2>1, <2>2
<1>6. QED
  BY <1>1, <1>2, <1>4, <1>5, RequestsStay, PageRests

LEMMA PostDoneStep == ASSUME ClientInv, Client!PostDone PROVE ClientInv'
<1>1. UNCHANGED <<page, query, refresh, told, overtaken>>
  BY DEF Client!PostDone
<1>2. /\ server' \in Client!Session /\ Later /\ (server'.live => server'.last # 0)
      /\ post' \in Posts
      /\ post'.run # None => post'.run <= server'.last
      /\ post'.pc \in {"accepted", "rejected"} => post'.run # None
  <2>1. CASE /\ Client!CanClaim(server) /\ server' = Client!Claimed(server)
             /\ \E pc \in {"accepted", "failed"} : post' = [pc |-> pc, run |-> server.last + 1]
    <3>1. /\ server' \in Client!Session /\ server'.last = server.last + 1 /\ server'.live /\ server'.last # 0
          /\ server.last \in Nat /\ server.last + 1 \in Client!Runs
      BY <2>1, ClientTypes, ClaimedIs DEF Client!CanClaim
    <3>2. server.last + 1 \in Client!Runs /\ server.last + 1 # None
      BY <3>1, RunNumbers
    <3>3. QED
      BY <2>1, <3>1, <3>2 DEF Later, Posts
  <2>2. CASE server.live /\ post' = [pc |-> "rejected", run |-> server.last] /\ UNCHANGED server
    <3>0. server.last # 0
      BY <2>2, ServerRests
    <3>1. server.last \in Client!Runs /\ server.last # None /\ server.last <= server.last
      BY <3>0, ClientTypes, RunNumbers
    <3>2. QED
      BY <2>2, <3>1, ServerRests DEF Posts
  <2>3. CASE post' = [pc |-> "failed", run |-> None] /\ UNCHANGED server
    BY <2>3, ServerRests DEF Posts
  <2>4. QED
    BY <2>1, <2>2, <2>3 DEF Client!PostDone
<1>3. QED
  BY <1>1, <1>2, RequestsStay, PageRests

LEMMA NoFetchIs ==
  /\ Client!NoFetch \in Client!Fetch /\ Client!Asked \in Client!Fetch
  /\ Client!NoFetch.answer = None /\ Client!Asked.answer = None
BY DEF Client!NoFetch, Client!Asked, Client!Fetch, Client!Response

\* A request that has no answer any more, or not yet.
LEMMA RefreshEmptied ==
  ASSUME ClientInv, UNCHANGED server, NEW r \in Client!Runs,
         NEW f \in {Client!NoFetch, Client!Asked}, refresh' = [refresh EXCEPT ![r] = f]
  PROVE  refresh' \in [Client!Runs -> Client!Fetch] /\ \A q \in Client!Runs : Past(refresh[q].answer)'
<1>1. refresh' \in [Client!Runs -> Client!Fetch]
  BY NoFetchIs, ClientTypes
<1>2. \A q \in Client!Runs : refresh'[q] = IF q = r THEN f ELSE refresh[q]
  BY ClientTypes
<1>3. ASSUME NEW q \in Client!Runs PROVE Past(refresh[q].answer)'
  <2>1. Past(refresh[q].answer) /\ f.answer = None
    BY NoFetchIs DEF ClientInv, AnswersArePast
  <2>2. QED
    BY <1>2, <2>1 DEF Past
<1>4. QED
  BY <1>1, <1>3

LEMMA RequestStep ==
  ASSUME ClientInv, Client!QueryStarts \/ \E r \in Client!Runs : Client!RefreshFails(r)
  PROVE  ClientInv'
<1>1. UNCHANGED <<server, page, post, told, overtaken>>
  BY DEF Client!QueryStarts, Client!RefreshFails
<1>2. CASE Client!QueryStarts
  <2>1. query' \in Client!Fetch /\ query'.answer = None /\ UNCHANGED refresh
    BY <1>2, NoFetchIs DEF Client!QueryStarts
  <2>2. Past(query.answer)'
    BY <2>1 DEF Past
  <2>3. QED
    BY <1>1, <2>1, <2>2, ServerRests, RequestsStay, PageRests
<1>3. CASE \E r \in Client!Runs : Client!RefreshFails(r)
  <2>1. PICK r \in Client!Runs : refresh' = [refresh EXCEPT ![r] = Client!NoFetch] /\ UNCHANGED query
    BY <1>3 DEF Client!RefreshFails
  <2>2. refresh' \in [Client!Runs -> Client!Fetch] /\ \A q \in Client!Runs : Past(refresh[q].answer)'
    BY <1>1, <2>1, RefreshEmptied
  <2>3. QED
    BY <1>1, <2>1, <2>2, ServerRests, RequestsStay, PageRests
<1>4. QED
  BY <1>2, <1>3

(***************************************************************************)
(* The page                                                                *)
(***************************************************************************)
\* What has to be shown of a step of the page.
LEMMA PageMoves ==
  ASSUME ClientInv, UNCHANGED server, page' \in Client!Page, told' \in Client!Runs \cup {None},
         overtaken' \in BOOLEAN,
         query' \in Client!Fetch, Past(query.answer)',
         refresh' \in [Client!Runs -> Client!Fetch], \A r \in Client!Runs : Past(refresh[r].answer)',
         post' \in Posts,
         post'.run # None => post'.run <= server.last,
         post'.pc \in {"accepted", "rejected"} => post'.run # None,
         Past(page.data)', page'.run # None => page'.run <= server.last,
         told' # None => told' <= server.last,
         EndIsPast', OvertakenIsOld', RunIsObserved'
  PROVE  ClientInv'
<1>1. Client!TypeOK'
  BY DEF ClientInv, Client!TypeOK, Posts
<1>2. AnswersArePast'
  BY DEF ClientInv, AnswersArePast, Past
<1>3. RunsArePast'
  BY DEF RunsArePast
<1>4. QED
  BY <1>1, <1>2, <1>3 DEF ClientInv

\* The page applies a response: data is what was read, and the run is the one of the data.
LEMMA Applies ==
  ASSUME ClientInv, UNCHANGED <<server, told>>, page' \in Client!Page, NEW s \in Client!Session,
         Past(s), Client!Applied(s),
         page'.data = s,
         page'.ended => page.ended /\ page'.run = page.run,
         \/ s = page.data /\ page'.run = page.run
         \/ (s.live => page'.run = s.last) /\ (~s.live => page'.run = None)
  PROVE  /\ overtaken' \in BOOLEAN /\ Past(page.data)' /\ (page'.run # None => page'.run <= server.last)
         /\ EndIsPast' /\ OvertakenIsOld' /\ RunIsObserved'
<1>1. s.last \in Nat /\ s # None /\ server.last \in Nat /\ s.last <= server.last
  <2>1. s.last \in Nat /\ server.last \in Nat
    <3>1. s.last \in 0..MaxRuns /\ server.last \in 0..MaxRuns
      BY ClientTypes DEF Client!Session
    <3>2. QED
      BY <3>1, RunNumbers
  <2>2. s # None
    BY RunNumbers
  <2>3. QED
    BY <2>1, <2>2 DEF Past
<1>2. overtaken' \in BOOLEAN
  BY DEF Client!Applied
<1>3. overtaken' => told # None /\ s.last < told
  BY DEF Client!Applied
<1>4. told # None /\ s.last < told => overtaken'
  BY DEF Client!Applied
<1>5. Past(page.data)'
  BY DEF Past
<1>6. page'.run # None => page'.run <= server.last
  BY <1>1 DEF ClientInv, RunsArePast
<1>7. EndIsPast'
  BY DEF ClientInv, EndIsPast
<1>8. OvertakenIsOld'
  BY <1>1, <1>3 DEF OvertakenIsOld
<1>9. RunIsObserved'
  <2> SUFFICES ASSUME told # None, server.live, server.last = told, ~overtaken' PROVE page'.run = told
    BY DEF RunIsObserved
  <2>1. s.last = told /\ s.live
    BY <1>1, <1>4 DEF Past
  <2>2. s = page.data => ~overtaken
    BY <1>1, <2>1 DEF ClientInv, OvertakenIsOld
  <2>3. QED
    BY <2>1, <2>2 DEF ClientInv, RunIsObserved
<1>10. QED
  BY <1>2, <1>5, <1>6, <1>7, <1>8, <1>9

LEMMA QueryAppliedStep == ASSUME ClientInv, Client!QueryApplied PROVE ClientInv'
<1> DEFINE s == query.answer
           told1 == [page EXCEPT !.data = s]
           seen == IF s = page.data THEN page ELSE Client!Observed(told1, s)
<1>1. /\ s # None /\ page' = Client!Settled(seen) /\ query' = Client!NoFetch /\ Client!Applied(s)
      /\ UNCHANGED <<server, refresh, post, told>>
  BY DEF Client!QueryApplied
<1>2. s \in Client!Session /\ Past(s) /\ (s.live => s.last # 0)
  BY <1>1, ClientTypes DEF Client!Response, ClientInv, AnswersArePast, Past
<1>3. told1 \in Client!Page /\ told1.data = s /\ told1.run = page.run /\ (told1.ended <=> page.ended)
  BY <1>2, ClientTypes, PageDataSet DEF Client!Response
<1> HIDE DEF s
<1>4. /\ seen \in Client!Page /\ seen.data = s /\ (seen.ended => page.ended /\ seen.run = page.run)
      /\ \/ s = page.data /\ seen.run = page.run
         \/ (s.live => seen.run = s.last) /\ (~s.live => seen.run = None)
  <2>1. CASE s = page.data
    BY <2>1, ClientTypes
  <2>2. CASE s # page.data
    <3> HIDE DEF told1
    <3>1. seen = Client!Observed(told1, s)
      BY <2>2
    <3>2. QED
      BY <1>2, <1>3, <3>1, ObservedIs
  <2>3. QED
    BY <2>1, <2>2
<1> HIDE DEF seen
<1>5. /\ page' \in Client!Page /\ page'.data = s /\ (page'.ended => page.ended /\ page'.run = page.run)
      /\ \/ s = page.data /\ page'.run = page.run
         \/ (s.live => page'.run = s.last) /\ (~s.live => page'.run = None)
  BY <1>1, <1>4, SettledIs
<1>6. query' \in Client!Fetch /\ Past(query.answer)'
  BY <1>1, NoFetchIs DEF Past
<1>7. /\ overtaken' \in BOOLEAN /\ Past(page.data)' /\ (page'.run # None => page'.run <= server.last)
      /\ EndIsPast' /\ OvertakenIsOld' /\ RunIsObserved'
  BY <1>1, <1>2, <1>5, Applies
<1>8. /\ refresh' \in [Client!Runs -> Client!Fetch] /\ \A r \in Client!Runs : Past(refresh[r].answer)'
      /\ post' \in Posts
      /\ post'.run # None => post'.run <= server.last
      /\ post'.pc \in {"accepted", "rejected"} => post'.run # None
  BY <1>1, ServerRests, RequestsStay
<1>9. told' \in Client!Runs \cup {None} /\ (told' # None => told' <= server.last)
  BY <1>1, ClientTypes DEF ClientInv, RunsArePast
<1>10. QED
  BY <1>1, <1>5, <1>6, <1>7, <1>8, <1>9, PageMoves

LEMMA RefreshAppliedStep == ASSUME ClientInv, NEW r \in Client!Runs, Client!RefreshApplied(r) PROVE ClientInv'
<1> DEFINE s == refresh[r].answer
           told1 == [page EXCEPT !.data = s]
           idle == [told1 EXCEPT !.delivery = "none"]
           bare == [idle EXCEPT !.base = None]
<1>1. /\ s # None /\ Client!Applied(s) /\ refresh' = [refresh EXCEPT ![r] = Client!NoFetch]
      /\ UNCHANGED <<server, query, post, told>>
  BY DEF Client!RefreshApplied
<1>2. page' = Client!Observing(bare, s)
  <2>1. bare = [page EXCEPT !.data = s, !.delivery = "none", !.base = None]
    OBVIOUS
  <2> HIDE DEF bare
  <2>2. QED
    BY <2>1 DEF Client!RefreshApplied
<1>3. s \in Client!Session /\ Past(s) /\ (s.live => s.last # 0)
  BY <1>1, ClientTypes DEF Client!Response, ClientInv, AnswersArePast, Past
<1> HIDE DEF s
<1>4. told1 \in Client!Page /\ told1.data = s
  BY <1>3, ClientTypes, PageDataSet DEF Client!Response
<1> HIDE DEF told1
<1>5. idle \in Client!Page /\ idle.data = s
  BY <1>4, PageDeliverySet
<1> HIDE DEF idle
<1>6. bare \in Client!Page /\ bare.data = s
  BY <1>5, PageBaseSet DEF Client!Response
<1> HIDE DEF bare
<1>7. /\ page' \in Client!Page /\ page'.data = s /\ ~page'.ended
      /\ (s.live => page'.run = s.last) /\ (~s.live => page'.run = None)
  BY <1>2, <1>3, <1>6, ObservingIs
<1>8. refresh' \in [Client!Runs -> Client!Fetch] /\ \A q \in Client!Runs : Past(refresh[q].answer)'
  BY <1>1, RefreshEmptied
<1>9. /\ overtaken' \in BOOLEAN /\ Past(page.data)' /\ (page'.run # None => page'.run <= server.last)
      /\ EndIsPast' /\ OvertakenIsOld' /\ RunIsObserved'
  BY <1>1, <1>3, <1>7, Applies
<1>10. /\ query' \in Client!Fetch /\ Past(query.answer)'
       /\ post' \in Posts
       /\ post'.run # None => post'.run <= server.last
       /\ post'.pc \in {"accepted", "rejected"} => post'.run # None
  BY <1>1, ServerRests, RequestsStay
<1>11. told' \in Client!Runs \cup {None} /\ (told' # None => told' <= server.last)
  BY <1>1, ClientTypes DEF ClientInv, RunsArePast
<1>12. QED
  BY <1>1, <1>7, <1>8, <1>9, <1>10, <1>11, PageMoves

\* The page keeps its data, and the run it was told of.
LEMMA DataStays ==
  ASSUME ClientInv, UNCHANGED <<server, told, overtaken>>, page' \in Client!Page, page'.data = page.data,
         page'.run = page.run, EndIsPast',
         query' = query, refresh' \in [Client!Runs -> Client!Fetch],
         \A r \in Client!Runs : Past(refresh[r].answer)',
         post' \in Posts,
         post'.run # None => post'.run <= server.last,
         post'.pc \in {"accepted", "rejected"} => post'.run # None
  PROVE  ClientInv'
<1>1. query' \in Client!Fetch /\ Past(query.answer)'
  BY ServerRests, RequestsStay
<1>2. Past(page.data)'
  BY DEF ClientInv, AnswersArePast, Past
<1>3. told' \in Client!Runs \cup {None} /\ overtaken' \in BOOLEAN
  BY DEF ClientInv, Client!TypeOK
<1>4. (told' # None => told' <= server.last) /\ (page'.run # None => page'.run <= server.last)
  BY DEF ClientInv, RunsArePast
<1>5. OvertakenIsOld'
  BY DEF ClientInv, OvertakenIsOld
<1>6. RunIsObserved'
  BY DEF ClientInv, RunIsObserved
<1>7. QED
  BY <1>1, <1>2, <1>3, <1>4, <1>5, <1>6, PageMoves

LEMMA RunFinishedStep == ASSUME ClientInv, Client!RunFinished PROVE ClientInv'
<1> DEFINE over == [page EXCEPT !.ended = TRUE]
<1>1. /\ page.run # None /\ (server.last > page.run \/ ~server.live)
      /\ UNCHANGED <<server, query, post, told, overtaken>>
      /\ \/ page' = [page EXCEPT !.ended = TRUE, !.left = TRUE] /\ UNCHANGED refresh
         \/ /\ page' = [page EXCEPT !.ended = TRUE, !.refreshed = @ \cup {page.run}]
            /\ \/ UNCHANGED refresh
               \/ refresh' = [refresh EXCEPT ![page.run] = Client!Asked]
  BY DEF Client!RunFinished, Client!RunBusy
<1>2. page.run \in Client!Runs
  BY <1>1, ClientTypes
<1>3. over \in Client!Page /\ over.ended /\ over.run = page.run /\ over.data = page.data
  BY ClientTypes, PageEndedSet
<1>4. page' \in Client!Page /\ page'.run = page.run /\ page'.data = page.data
  <2>1. CASE page' = [page EXCEPT !.ended = TRUE, !.left = TRUE]
    <3>1. page' = [over EXCEPT !.left = TRUE]
      BY <2>1
    <3> HIDE DEF over
    <3>2. QED
      BY <1>3, <3>1, PageLeftSet
  <2>2. CASE page' = [page EXCEPT !.ended = TRUE, !.refreshed = @ \cup {page.run}]
    <3> DEFINE done == page.refreshed \cup {page.run}
    <3>1. page' = [over EXCEPT !.refreshed = done]
      BY <2>2
    <3>2. done \in SUBSET Client!Runs
      BY <1>2, ClientTypes DEF Client!Page
    <3> HIDE DEF over, done
    <3>3. QED
      BY <1>3, <3>1, <3>2, PageRefreshedSet
  <2>3. QED
    BY <1>1, <2>1, <2>2
<1>5. refresh' \in [Client!Runs -> Client!Fetch] /\ \A r \in Client!Runs : Past(refresh[r].answer)'
  <2>1. CASE UNCHANGED refresh
    BY <1>1, <2>1, ServerRests, RequestsStay
  <2>2. CASE refresh' = [refresh EXCEPT ![page.run] = Client!Asked]
    <3>1. Client!Asked \in {Client!NoFetch, Client!Asked}
      OBVIOUS
    <3>2. QED
      BY <1>1, <1>2, <2>2, <3>1, RefreshEmptied
  <2>3. QED
    BY <1>1, <2>1, <2>2
<1>6. EndIsPast'
  <2>1. page.run \in Nat /\ server.last \in Nat
    BY <1>2, ClientTypes, RunNumbers
  <2>2. page.run = server.last => ~server.live
    BY <1>1, <2>1
  <2>3. QED
    BY <1>1, <1>4, <2>2 DEF EndIsPast
<1>7. /\ post' \in Posts
      /\ post'.run # None => post'.run <= server.last
      /\ post'.pc \in {"accepted", "rejected"} => post'.run # None
  BY <1>1, ServerRests, RequestsStay
<1>8. QED
  BY <1>1, <1>4, <1>5, <1>6, <1>7, DataStays

LEMMA ActionStep ==
  ASSUME ClientInv, Client!SubmitAction \/ Client!ActionFails
  PROVE  ClientInv'
<1>1. UNCHANGED <<server, query, refresh, told, overtaken>>
  BY DEF Client!SubmitAction, Client!ActionFails
<1>2. PICK d \in {"sending", "failed"}, b \in Client!Response :
        page' = [page EXCEPT !.delivery = d, !.base = b]
  <2>1. None \in Client!Response /\ page.data \in Client!Response
    BY ClientTypes DEF Client!Response
  <2>2. QED
    BY <2>1 DEF Client!SubmitAction, Client!ActionFails
<1> DEFINE acted == [page EXCEPT !.delivery = d]
<1>3. acted \in Client!Page /\ acted.run = page.run /\ acted.data = page.data /\ (acted.ended <=> page.ended)
  BY ClientTypes, PageDeliverySet
<1>4. page' = [acted EXCEPT !.base = b]
  BY <1>2
<1>5. page' \in Client!Page /\ page'.run = page.run /\ page'.data = page.data /\ (page'.ended <=> page.ended)
  <2> HIDE DEF acted
  <2>1. QED
    BY <1>3, <1>4, PageBaseSet
<1>6. post' = Client!NoPost \/ post' = [Client!NoPost EXCEPT !.pc = "sent"]
  BY DEF Client!SubmitAction, Client!ActionFails
<1>7. post'.pc \in {"none", "sent"} /\ post'.run = None
      /\ post' \in Posts
  BY <1>6 DEF Client!NoPost, Posts
<1>8. EndIsPast'
  BY <1>1, <1>5 DEF ClientInv, EndIsPast
<1>9. refresh' \in [Client!Runs -> Client!Fetch] /\ \A r \in Client!Runs : Past(refresh[r].answer)'
  BY <1>1, ServerRests, RequestsStay
<1>10. QED
  BY <1>1, <1>5, <1>7, <1>8, <1>9, DataStays

LEMMA AnsweredStep == ASSUME ClientInv, Client!ActionAnswered PROVE ClientInv'
<1> DEFINE named == [page EXCEPT !.run = post.run]
           seen  == [named EXCEPT !.ended = FALSE]
           sent  == [seen EXCEPT !.delivery = "sent"]
           failed1 == [seen EXCEPT !.delivery = "failed"]
           bare  == [failed1 EXCEPT !.base = None]
<1>1. /\ post.pc \in {"accepted", "rejected"} /\ told' = post.run /\ overtaken' = FALSE /\ post' = Client!NoPost
      /\ UNCHANGED <<server, query, refresh>>
  BY DEF Client!ActionAnswered
<1>2. post.run \in Client!Runs /\ post.run # None /\ post.run <= server.last
  BY <1>1, ClientTypes DEF ClientInv, RunsArePast
<1>3. seen = [page EXCEPT !.run = post.run, !.ended = FALSE]
  OBVIOUS
<1>4. page' = Client!Settled(sent) \/ page' = bare
  <2>1. bare = [seen EXCEPT !.delivery = "failed", !.base = None]
    OBVIOUS
  <2> HIDE DEF seen, bare
  <2>2. QED
    BY <1>3, <2>1 DEF Client!ActionAnswered
<1>5. named \in Client!Page /\ named.run = post.run /\ named.data = page.data
  BY <1>2, ClientTypes, PageRunSet
<1> HIDE DEF named
<1>6. seen \in Client!Page /\ seen.run = post.run /\ seen.data = page.data /\ ~seen.ended
  BY <1>5, PageEndedSet
<1> HIDE DEF seen
<1>7. sent \in Client!Page /\ sent.run = post.run /\ sent.data = page.data /\ ~sent.ended
  BY <1>6, PageDeliverySet
<1>8. failed1 \in Client!Page /\ failed1.run = post.run /\ failed1.data = page.data /\ ~failed1.ended
  BY <1>6, PageDeliverySet
<1> HIDE DEF sent, failed1
<1>9. bare \in Client!Page /\ bare.run = post.run /\ bare.data = page.data /\ ~bare.ended
  BY <1>8, PageBaseSet DEF Client!Response
<1> HIDE DEF bare
<1>10. page' \in Client!Page /\ page'.run = post.run /\ page'.data = page.data /\ ~page'.ended
  BY <1>4, <1>7, <1>9, SettledIs
<1>11. post' \in Posts
       /\ post'.run = None /\ post'.pc = "none"
  BY <1>1 DEF Client!NoPost, Posts
<1>12. /\ query' \in Client!Fetch /\ Past(query.answer)'
       /\ refresh' \in [Client!Runs -> Client!Fetch] /\ \A r \in Client!Runs : Past(refresh[r].answer)'
  BY <1>1, ServerRests, RequestsStay
<1>13. Past(page.data)'
  BY <1>1, <1>10 DEF ClientInv, AnswersArePast, Past
<1>14. EndIsPast' /\ OvertakenIsOld' /\ RunIsObserved' /\ overtaken' \in BOOLEAN
  BY <1>1, <1>10 DEF EndIsPast, OvertakenIsOld, RunIsObserved
<1>15. QED
  BY <1>1, <1>2, <1>10, <1>11, <1>12, <1>13, <1>14, PageMoves

LEMMA ClientStep == ASSUME ClientInv, Client!Next PROVE ClientInv'
BY SessionStep, QueryReadsStep, PostDoneStep, RequestStep, QueryAppliedStep, RunFinishedStep,
   RefreshReadsStep, RefreshAppliedStep, ActionStep, AnsweredStep DEF Client!Next

LEMMA ClientRests == ASSUME ClientInv, UNCHANGED Client!vars PROVE ClientInv'
<1>1. UNCHANGED <<server, page, query, refresh, post, told, overtaken>>
  BY DEF Client!vars
<1>2. QED
  BY <1>1, ServerRests, RequestsStay, PageRests

LEMMA ClientInvInit == Client!Init => ClientInv
<1> SUFFICES ASSUME Client!Init PROVE ClientInv
  OBVIOUS
<1>1. /\ server = [last |-> 0, live |-> FALSE] /\ query = Client!Asked
      /\ refresh = [r \in Client!Runs |-> Client!NoFetch]
      /\ post = Client!NoPost /\ told = None /\ overtaken = FALSE
      /\ page = [data |-> None, run |-> None, ended |-> FALSE, delivery |-> "none",
                 base |-> None, refreshed |-> {}, left |-> FALSE]
  BY DEF Client!Init
<1>2. /\ page \in Client!Page /\ page.data = None /\ page.run = None /\ ~page.ended
  BY <1>1 DEF Client!Page, Client!Response
<1>3. server \in Client!Session /\ server.last = 0 /\ ~server.live
  BY <1>1, RunNumbers DEF Client!Session
<1>4. /\ query \in Client!Fetch /\ query.answer = None /\ refresh \in [Client!Runs -> Client!Fetch]
      /\ \A r \in Client!Runs : refresh[r].answer = None
  BY <1>1, NoFetchIs
<1>5. post \in Posts
      /\ post.run = None /\ post.pc = "none"
  BY <1>1 DEF Client!NoPost, Posts
<1>6. Client!TypeOK
  BY <1>1, <1>2, <1>3, <1>4, <1>5 DEF Client!TypeOK, Posts
<1>7. AnswersArePast
  BY <1>2, <1>3, <1>4 DEF AnswersArePast, Past
<1>8. RunsArePast /\ EndIsPast /\ OvertakenIsOld /\ RunIsObserved
  BY <1>1, <1>2, <1>5 DEF RunsArePast, EndIsPast, OvertakenIsOld, RunIsObserved
<1>9. QED
  BY <1>6, <1>7, <1>8 DEF ClientInv

LEMMA PageFollows == ASSUME ClientInv PROVE Client!PageFollowsSession
<1> SUFFICES ASSUME told # None, server.live, server.last = told, ~overtaken
             PROVE  page.run = told /\ Client!InteractionsLocked
  BY DEF Client!PageFollowsSession
<1>1. page.run = told
  BY DEF ClientInv, RunIsObserved
<1>2. ~page.ended
  BY <1>1 DEF ClientInv, EndIsPast
<1>3. QED
  BY <1>1, <1>2 DEF Client!InteractionsLocked, Client!RunBusy

\* While the focus is on the page's session, its invariant holds.
ClientHolds == On("client") => ClientInv

LEMMA ClientStarts == MCInit => ClientHolds
BY ClientInvInit DEF MCInit, On, ClientHolds

LEMMA ClientGoesOn == ASSUME ClientHolds, [MCNext]_MCvars PROVE ClientHolds'
<1>1. CASE ~On("client")
  BY <1>1 DEF On, ClientHolds, MCNext, MCvars
<1>2. CASE On("client")
  <2>1. Client!Next \/ UNCHANGED client
    BY <1>2 DEF MCNext, MCvars, On
  <2>2. CASE Client!Next
    BY <1>2, <2>2, ClientStep DEF ClientHolds
  <2>3. CASE UNCHANGED client
    BY <1>2, <2>3, ClientRests DEF ClientHolds, client, Client!vars
  <2>4. QED
    BY <2>1, <2>2, <2>3
<1>3. QED
  BY <1>1, <1>2

LEMMA ClientAlways == MCSpec => []ClientHolds
BY ClientStarts, ClientGoesOn, PTL DEF MCSpec

(***************************************************************************)
(* The event stream                                                        *)
(***************************************************************************)

\* What is said of the end is in the session.
Ends(status) == (status = "completed" => session = "committed") /\ (status = "failed" => session = "released")

Told         == {s \in Snapshot : Ends(s.status)}
ToldEvent    == {e \in Event : IF e.type = "delta" THEN e.by \in Executions
                               ELSE e.status \in Terminal /\ Ends(e.status)}
ToldProgress == [snapshot: Told, event: ToldEvent \cup {None}]
ToldMessage  == [type: {"run_snapshot"}, snapshot: Told] \cup ToldEvent

ToldAnswer   == [live: BOOLEAN, snapshot: Told]

Execution == [pc: {"idle", "taken", "running", "committed"}, snapshot: Told, started: BOOLEAN,
              inflight: ToldProgress \cup {None}]

\* The i-th display that was published.
Snap(i) == IF i = 0 THEN Queued ELSE stream[i].snapshot

WorkTold ==
  /\ session \in {"held", "committed", "released"}
  /\ exec \in [Executions -> Execution]
  /\ \A w \in Executions : exec[w].pc = "committed" => session = "committed"
  /\ cleanup \in [pc: {"none", "due", "publishing", "done"}, base: Told]
  /\ cleanup.pc = "publishing" => session = "released"
  /\ overlapped \in BOOLEAN /\ cut \in BOOLEAN /\ faults \in 0..MaxFaults

StoreTold ==
  /\ stream \in Seq(ToldProgress)
  /\ progress = IF stream = <<>> THEN None ELSE stream[Len(stream)]

PageTold ==
  /\ cursor \in 0..Len(stream)
  /\ observer \in [pc: {"off", "listening", "open"}, buffered: Seq(ToldProgress),
                   pending: Seq(ToldProgress), last: Nat]
  /\ wire \in Seq(ToldMessage)
  /\ view \in Told

\* The requests and their responses: each brings a display that was published, and the one
\* after the end finds the run no longer active.
Requested == [pc: {"idle", "asked", "row", "answered", "done"}, answer: ToldAnswer \cup {None}]

RequestTold(r, q) ==
  /\ q.pc = "answered" =>
       q.answer \in ToldAnswer /\ \E i \in 0..Len(stream) : q.answer.snapshot = Snap(i)
  /\ r = "refresh" => /\ q.pc # "idle" => session # "held" /\ q.pc # "row"
                      /\ q.pc = "answered" => ~q.answer.live

ReadingTold ==
  /\ shown \in BOOLEAN /\ claimed \in BOOLEAN /\ ahead \in BOOLEAN /\ stale \in BOOLEAN
  /\ known \in ToldAnswer \cup {None}
  /\ asks \in [Requests -> Requested] /\ \A r \in Requests : RequestTold(r, asks[r])
  /\ stale => view.content # <<>>

\* A page without a run has no connection.
Hidden == ~shown => view = Queued /\ wire = <<>> /\ observer.pc = "off"

JobFits ==
  /\ job \in Job
  /\ job.status = "active" <=> job.owner \in Executions
  /\ job.status \in {"waiting", "active"} => job.made < MaxAttempts /\ job.stalls <= MaxStalls
  /\ cleanup.pc # "none" => job.status = "failed"

\* An attempt works alone, and nobody works when the job has failed.
Alone ==
  \A w \in Executions : exec[w].pc # "idle" =>
    /\ job.status = "waiting" \/ job.owner = w
    /\ \A v \in Executions : exec[v].pc # "idle" => v = w

\* p is what may be published after the display s.
Fits(s, p) ==
  IF p.event = None THEN p.snapshot = [seq |-> s.seq, status |-> "running", content |-> <<>>]
  ELSE /\ p.snapshot.seq = p.event.seq /\ s.seq < p.event.seq
       /\ s.status # "failed" /\ p.snapshot.status # "queued"
       /\ \/ p.snapshot = Reduce(s, p.event)
          \/ p.event.type = "run_finished" /\ p.event.status = "failed"

\* What an execution works on follows the display s.
Works(x, s) ==
  IF x.pc = "idle" THEN x.inflight = None
  ELSE /\ x.snapshot.status # "failed" /\ (x.started => x.snapshot.status # "queued")
       /\ IF x.inflight = None THEN x.snapshot = s
          ELSE x.inflight.snapshot = x.snapshot /\ Fits(s, x.inflight)

WorkFits ==
  /\ \A w \in Executions : Works(exec[w], SnapshotOf(progress))
  /\ cleanup.pc \in {"due", "publishing"} => SnapshotOf(progress).seq <= cleanup.base.seq
  /\ SnapshotOf(progress).status = "failed" => cleanup.pc = "done"

StreamFits ==
  /\ \A i \in 1..Len(stream) : Fits(Snap(i - 1), stream[i])
  /\ \A i, j \in 0..Len(stream) : i <= j => Snap(i).seq <= Snap(j).seq
  /\ \A i, j \in 1..Len(stream) :
       i <= j /\ stream[i].event = None /\ Snap(i).seq = Snap(j).seq => Snap(i) = Snap(j)

Begins == cursor - Len(observer.pending) - Len(observer.buffered)

Segment ==
  /\ Begins \in Nat
  /\ \A k \in 1..Len(observer.pending) : observer.pending[k] = stream[Begins + k]
  /\ \A k \in 1..Len(observer.buffered) :
       observer.buffered[k] = stream[Begins + Len(observer.pending) + k]
  /\ observer.pc = "off" => observer.pending = <<>> /\ observer.buffered = <<>>
  /\ observer.pc = "listening" => observer.pending = <<>> /\ wire = <<>>

\* Message m takes the view from the i-th display to the j-th.
Carries(m, i, j) ==
  \/ i <= j /\ m.type = "run_snapshot" /\ m.snapshot = Snap(j)
  \/ j = i + 1 /\ stream[j].event # None /\ m = stream[j].event

\* The view is the i-th display, or a later one that a response brought; a stale one has
\* the number and the status of such a display.
Stands(i) ==
  \E v \in 0..Len(stream) :
    /\ i <= v /\ (~ahead => v = i)
    /\ view.seq = Snap(v).seq /\ view.status = Snap(v).status
    /\ ~stale => view = Snap(v)

Shows(at) ==
  /\ Stands(at[0])
  /\ \A k \in 1..Len(wire) : Carries(wire[k], at[k - 1], at[k])
  /\ observer.pc = "open" => Begins <= at[Len(wire)] /\ observer.last = Snap(at[Len(wire)]).seq

ViewFits ==
  \/ view.status = "failed" /\ wire = <<>> /\ observer.pc = "off"
  \/ \E at \in [0..Len(wire) -> 0..Len(stream)] : Shows(at)

StreamInv ==
  /\ WorkTold /\ StoreTold /\ PageTold /\ ReadingTold /\ Hidden /\ JobFits
  /\ ~overlapped => Alone /\ WorkFits /\ StreamFits /\ Segment /\ ViewFits

(***************************************************************************)
(* The stream: lemmas                                                      *)
(***************************************************************************)

LEMMA NoneIsNone ==
  /\ None \notin Nat /\ None \notin Event /\ None \notin Progress
  /\ None \notin ToldEvent /\ None \notin ToldProgress
<1>1. None \notin Nat /\ None \notin Event /\ None \notin Progress
  BY StreamAssumption, DataAssumption
<1>2. ToldEvent \subseteq Event /\ Told \subseteq Snapshot
  BY DEF ToldEvent, Told
<1>3. ToldProgress \subseteq Progress
  BY <1>2 DEF ToldProgress, Progress
<1>4. QED
  BY <1>1, <1>2, <1>3

LEMMA ToldFields ==
  ASSUME NEW s \in Told
  PROVE  /\ s.seq \in Nat /\ s.status \in {"queued", "running"} \cup Terminal /\ s.content \in Seq(Executions)
         /\ s = [seq |-> s.seq, status |-> s.status, content |-> s.content]
         /\ Ends(s.status) /\ s \in Snapshot
<1>1. s \in Snapshot /\ Ends(s.status)
  BY DEF Told
<1>2. QED
  BY <1>1 DEF Snapshot

LEMMA ToldIs ==
  ASSUME NEW n \in Nat, NEW st \in {"queued", "running"} \cup Terminal, NEW c \in Seq(Executions), Ends(st)
  PROVE  [seq |-> n, status |-> st, content |-> c] \in Told
BY DEF Told, Snapshot

LEMMA EventFields ==
  ASSUME NEW e \in ToldEvent
  PROVE  /\ e.type \in {"delta", "run_finished"} /\ e.seq \in Nat
         /\ e.type = "delta" => e.by \in Executions
         /\ e.type = "run_finished" => e.status \in Terminal /\ Ends(e.status)
         /\ e \in Event /\ e # None
<1>1. e \in Event
  BY DEF ToldEvent
<1>2. e.type \in {"delta", "run_finished"} /\ e.seq \in Nat
  BY <1>1 DEF Event
<1>3. IF e.type = "delta" THEN e.by \in Executions ELSE e.status \in Terminal /\ Ends(e.status)
  BY DEF ToldEvent
<1>4. QED
  BY <1>1, <1>2, <1>3, NoneIsNone

LEMMA ProgressFields ==
  ASSUME NEW p \in ToldProgress
  PROVE  /\ p.snapshot \in Told /\ p.event \in ToldEvent \cup {None} /\ p # None
         /\ p.event # None => p.event \in ToldEvent
BY NoneIsNone DEF ToldProgress

LEMMA SnapshotOfTold ==
  ASSUME NEW p \in ToldProgress \cup {None}
  PROVE  /\ SnapshotOf(p) \in Told /\ SnapshotOf(p).seq \in Nat
         /\ p \in ToldProgress => SnapshotOf(p) = p.snapshot
         /\ Queued \in Told
<1>1. Queued \in Told
  <2>1. <<>> \in Seq(Executions) /\ 0 \in Nat /\ Ends("queued")
    BY EmptySeq DEF Ends
  <2>2. QED
    BY <2>1, ToldIs DEF Queued
<1>2. CASE p = None
  BY <1>1, <1>2, NoneIsNone, ToldFields DEF SnapshotOf
<1>3. CASE p \in ToldProgress
  BY <1>1, <1>3, ProgressFields, ToldFields DEF SnapshotOf
<1>4. QED
  BY <1>2, <1>3

\* An event past a display takes it on; one that is not leaves it.
LEMMA ReduceEvent ==
  ASSUME NEW s \in Told, NEW e \in ToldEvent
  PROVE  /\ e.seq <= s.seq => Reduce(s, e) = s
         /\ s.seq < e.seq => /\ Reduce(s, e) \in Told /\ Reduce(s, e).seq = e.seq
                             /\ e.type = "delta" => Reduce(s, e).status = s.status
                             /\ e.type = "run_finished" => Reduce(s, e).status = e.status
<1>1. s.seq \in Nat /\ e.seq \in Nat /\ e.type # "run_snapshot"
  BY ToldFields, EventFields
<1>2. e.seq <= s.seq => Reduce(s, e) = s
  BY <1>1 DEF Reduce
<1>3. ASSUME s.seq < e.seq, e.type = "delta"
      PROVE  /\ Reduce(s, e) = [seq |-> e.seq, status |-> s.status, content |-> Append(s.content, e.by)]
             /\ Reduce(s, e) \in Told
  <2>1. ~(e.seq <= s.seq) /\ e.type # "run_finished"
    BY <1>1, <1>3
  <2>2. Reduce(s, e) = [s EXCEPT !.seq = e.seq, !.content = Append(@, e.by)]
    BY <1>1, <2>1 DEF Reduce
  <2>3. s = [seq |-> s.seq, status |-> s.status, content |-> s.content]
    BY ToldFields
  <2>4. Reduce(s, e) = [seq |-> e.seq, status |-> s.status, content |-> Append(s.content, e.by)]
    BY <2>2, <2>3
  <2>5. Append(s.content, e.by) \in Seq(Executions)
    BY <1>3, ToldFields, EventFields, AppendProperties
  <2>6. QED
    BY <1>1, <2>4, <2>5, ToldFields, ToldIs
<1>4. ASSUME s.seq < e.seq, e.type = "run_finished"
      PROVE  /\ Reduce(s, e) = [seq |-> e.seq, status |-> e.status, content |-> s.content]
             /\ Reduce(s, e) \in Told
  <2>1. ~(e.seq <= s.seq)
    BY <1>1, <1>4
  <2>2. Reduce(s, e) = [s EXCEPT !.seq = e.seq, !.status = e.status]
    BY <1>1, <1>4, <2>1 DEF Reduce
  <2>3. s = [seq |-> s.seq, status |-> s.status, content |-> s.content]
    BY ToldFields
  <2>4. Reduce(s, e) = [seq |-> e.seq, status |-> e.status, content |-> s.content]
    BY <2>2, <2>3
  <2>5. e.status \in {"queued", "running"} \cup Terminal /\ Ends(e.status) /\ s.content \in Seq(Executions)
    BY <1>4, ToldFields, EventFields
  <2>6. QED
    BY <1>1, <2>4, <2>5, ToldIs
<1>5. QED
  BY <1>1, <1>2, <1>3, <1>4, EventFields

LEMMA ReduceSnapshot ==
  ASSUME NEW s, NEW m \in ToldMessage, m.type = "run_snapshot"
  PROVE  Reduce(s, m) = m.snapshot /\ m.snapshot \in Told
<1>1. m \notin ToldEvent
  BY EventFields
<1>2. m \in [type: {"run_snapshot"}, snapshot: Told]
  BY <1>1 DEF ToldMessage
<1>3. QED
  BY <1>2 DEF Reduce

LEMMA MessageFields ==
  ASSUME NEW m \in ToldMessage
  PROVE  m.type = "run_snapshot" \/ m \in ToldEvent
BY DEF ToldMessage

LEMMA ReduceTold ==
  ASSUME NEW s \in Told, NEW m \in ToldMessage
  PROVE  Reduce(s, m) \in Told
<1>1. CASE m.type = "run_snapshot"
  BY <1>1, ReduceSnapshot
<1>2. CASE m \in ToldEvent
  <2>1. s.seq \in Nat /\ m.seq \in Nat
    BY <1>2, ToldFields, EventFields
  <2>2. m.seq <= s.seq \/ s.seq < m.seq
    BY <2>1
  <2>3. QED
    BY <1>2, <2>2, ReduceEvent
<1>3. QED
  BY <1>1, <1>2, MessageFields

\* What was told stays true: the outcome of the session is final.
LEMMA ToldStays ==
  ASSUME session = "held" \/ session' = session
  PROVE  /\ Told \subseteq Told' /\ ToldEvent \subseteq ToldEvent'
         /\ ToldProgress \subseteq ToldProgress' /\ ToldMessage \subseteq ToldMessage'
         /\ Execution \subseteq Execution' /\ ToldAnswer \subseteq ToldAnswer'
         /\ Seq(ToldProgress) \subseteq Seq(ToldProgress') /\ Seq(ToldMessage) \subseteq Seq(ToldMessage')
<1>1. ASSUME NEW st, Ends(st) PROVE Ends(st)'
  BY <1>1 DEF Ends
<1>2. Told \subseteq Told'
  BY <1>1 DEF Told
<1>3. ToldEvent \subseteq ToldEvent'
  BY <1>1 DEF ToldEvent
<1>4. ToldProgress \subseteq ToldProgress'
  BY <1>2, <1>3 DEF ToldProgress
<1>5. ToldMessage \subseteq ToldMessage'
  BY <1>2, <1>3 DEF ToldMessage
<1>6. Execution \subseteq Execution'
  BY <1>2, <1>4 DEF Execution
<1>7. ToldAnswer \subseteq ToldAnswer'
  BY <1>2 DEF ToldAnswer
<1>8. QED
  BY <1>2, <1>3, <1>4, <1>5, <1>6, <1>7, SeqMonotonic

LEMMA NumberedTold ==
  ASSUME NEW s \in Told
  PROVE  /\ \A w \in Executions :
              LET e == Numbered(s, "delta", w, None)
              IN e \in ToldEvent /\ e.seq = s.seq + 1 /\ e.type = "delta"
         /\ \A st \in Terminal : Ends(st) =>
              LET e == Numbered(s, "run_finished", 0, st)
              IN e \in ToldEvent /\ e.seq = s.seq + 1 /\ e.type = "run_finished" /\ e.status = st
<1>1. s.seq + 1 \in Nat
  BY ToldFields
<1>2. QED
  BY <1>1 DEF Numbered, ToldEvent, Event

\* What is handed to updateProgress carries the display its event leads to.
LEMMA ProjectedTold ==
  ASSUME NEW s \in Told, NEW e \in ToldEvent, e.seq = s.seq + 1
  PROVE  /\ Projected(s, e) \in ToldProgress /\ Projected(s, e).event = e
         /\ Projected(s, e).snapshot = Reduce(s, e) /\ Reduce(s, e) \in Told
         /\ s.status \notin {"failed", "queued"} => Fits(s, Projected(s, e))
         /\ e.type = "delta" => Reduce(s, e).status = s.status
         /\ e.type = "run_finished" => Reduce(s, e).status = e.status
<1>1. s.seq \in Nat /\ s.seq < e.seq /\ e # None
  BY ToldFields, EventFields
<1>2. /\ Reduce(s, e) \in Told /\ Reduce(s, e).seq = e.seq
      /\ e.type = "delta" => Reduce(s, e).status = s.status
      /\ e.type = "run_finished" => Reduce(s, e).status = e.status
  BY <1>1, ReduceEvent
<1>3. Projected(s, e).event = e /\ Projected(s, e).snapshot = Reduce(s, e)
  BY DEF Projected
<1>4. Projected(s, e) \in ToldProgress
  BY <1>2 DEF Projected, ToldProgress
<1>5. s.status # "queued" => Reduce(s, e).status # "queued"
  BY <1>2, EventFields DEF Terminal
<1>6. QED
  BY <1>1, <1>2, <1>3, <1>4, <1>5 DEF Fits

(***************************************************************************)
(* The stream: the job and its attempts                                    *)
(***************************************************************************)

LEMMA StoreFields ==
  ASSUME StoreTold
  PROVE  /\ progress \in ToldProgress \cup {None} /\ Len(stream) \in Nat
         /\ SnapshotOf(progress) = Snap(Len(stream)) /\ SnapshotOf(progress) \in Told
         /\ \A i \in 1..Len(stream) : stream[i] \in ToldProgress
         /\ \A i \in 0..Len(stream) : Snap(i) \in Told /\ Snap(i).seq \in Nat
<1>1. Len(stream) \in Nat /\ (stream # <<>> => Len(stream) \in Nat \ {0}) /\ (stream = <<>> => Len(stream) = 0)
  BY EmptySeq, LenProperties DEF StoreTold
<1>2. \A i \in 1..Len(stream) : stream[i] \in ToldProgress
  BY ElementOfSeq DEF StoreTold
<1>3. progress \in ToldProgress \cup {None}
  BY <1>1, <1>2 DEF StoreTold
<1>4. \A i \in 0..Len(stream) : Snap(i) \in Told
  BY <1>1, <1>2, SnapshotOfTold, ProgressFields DEF Snap
<1>5. SnapshotOf(progress) = Snap(Len(stream))
  <2>1. CASE stream = <<>>
    BY <1>1, <2>1 DEF StoreTold, Snap, SnapshotOf
  <2>2. CASE stream # <<>>
    BY <1>1, <1>2, <2>2, SnapshotOfTold DEF StoreTold, Snap
  <2>3. QED
    BY <2>1, <2>2
<1>6. QED
  BY <1>1, <1>2, <1>3, <1>4, <1>5, ToldFields, SnapshotOfTold

\* The reading stays true while others move.
LEMMA ReadingStays ==
  ASSUME StreamInv, session = "held" \/ session' = session, UNCHANGED reading,
         \A i \in 0..Len(stream) : i \in 0..Len(stream') /\ Snap(i)' = Snap(i)
  PROVE  ReadingTold' /\ (UNCHANGED <<observer, wire>> => Hidden')
<1>1. /\ UNCHANGED view /\ UNCHANGED shown /\ UNCHANGED claimed /\ UNCHANGED asks /\ UNCHANGED known
      /\ UNCHANGED ahead /\ UNCHANGED stale
  BY DEF reading
<1>2. ReadingTold /\ Hidden
  BY DEF StreamInv
<1>3. ToldAnswer \subseteq ToldAnswer' /\ Requested \subseteq Requested'
  BY ToldStays DEF Requested
<1>4. known' \in ToldAnswer' \cup {None} /\ asks' \in [Requests -> Requested']
  <2>1. known \in ToldAnswer \cup {None} /\ asks \in [Requests -> Requested]
    BY <1>2 DEF ReadingTold
  <2>2. QED
    BY <1>1, <1>3, <2>1
<1>5. ASSUME NEW r \in Requests PROVE RequestTold(r, asks[r])'
  <2>1. RequestTold(r, asks[r])
    BY <1>2 DEF ReadingTold
  <2>2. QED
    BY <1>1, <1>3, <2>1 DEF RequestTold
<1>6. ReadingTold'
  BY <1>1, <1>2, <1>4, <1>5 DEF ReadingTold
<1>7. ASSUME UNCHANGED <<observer, wire>> PROVE Hidden'
  BY <1>1, <1>2, <1>7 DEF Hidden
<1>8. QED
  BY <1>6, <1>7

\* Where the view stands among the displays stays when more are published.
LEMMA StandsStays ==
  ASSUME NEW i, Stands(i), UNCHANGED view, UNCHANGED ahead, UNCHANGED stale,
         \A v \in 0..Len(stream) : v \in 0..Len(stream') /\ Snap(v)' = Snap(v)
  PROVE  Stands(i)'
<1>1. PICK v \in 0..Len(stream) :
        /\ i <= v /\ (~ahead => v = i)
        /\ view.seq = Snap(v).seq /\ view.status = Snap(v).status
        /\ ~stale => view = Snap(v)
  BY DEF Stands
<1>2. QED
  BY <1>1 DEF Stands

\* The worker moves, and nothing is published.
LEMMA WorkMoves ==
  ASSUME StreamInv, session = "held" \/ session' = session,
         UNCHANGED <<progress, stream, api, wire, reading>>,
         WorkTold', JobFits',
         ~overlapped' => ~overlapped /\ Alone' /\ WorkFits'
  PROVE  StreamInv'
<1>1. UNCHANGED progress /\ UNCHANGED stream /\ UNCHANGED cursor /\ UNCHANGED observer
      /\ UNCHANGED wire /\ UNCHANGED view /\ UNCHANGED reading
      /\ UNCHANGED ahead /\ UNCHANGED stale
  BY DEF api, reading
<1>2. StoreTold'
  BY <1>1, ToldStays DEF StreamInv, StoreTold
<1>3. PageTold'
  <2>1. [pc: {"off", "listening", "open"}, buffered: Seq(ToldProgress), pending: Seq(ToldProgress), last: Nat]
          \subseteq [pc: {"off", "listening", "open"}, buffered: Seq(ToldProgress'),
                     pending: Seq(ToldProgress'), last: Nat]
    <3>1. Seq(ToldProgress) \subseteq Seq(ToldProgress')
      BY ToldStays
    <3>2. QED
      BY <3>1
  <2>2. QED
    BY <1>1, <2>1, ToldStays DEF StreamInv, PageTold
<1>4. ASSUME ~overlapped' PROVE StreamFits' /\ Segment' /\ ViewFits'
  <2>1. StreamFits /\ Segment /\ ViewFits
    BY <1>4 DEF StreamInv
  <2>2. \A i : Snap(i)' = Snap(i)
    BY <1>1 DEF Snap
  <2>3. StreamFits'
    BY <1>1, <2>1, <2>2 DEF StreamFits
  <2>4. Begins' = Begins /\ Segment'
    BY <1>1, <2>1 DEF Segment, Begins
  <2>5. ASSUME NEW at, Shows(at) PROVE Shows(at)'
    <3>1. Stands(at[0])'
      BY <1>1, <2>2, <2>5, StandsStays DEF Shows
    <3>2. QED
      BY <1>1, <2>2, <2>4, <2>5, <3>1 DEF Shows, Carries
  <2>6. ViewFits'
    BY <1>1, <2>1, <2>5 DEF ViewFits
  <2>7. QED
    BY <2>3, <2>4, <2>6
<1>5. ReadingTold' /\ Hidden'
  <2>1. \A i \in 0..Len(stream) : i \in 0..Len(stream') /\ Snap(i)' = Snap(i)
    BY <1>1 DEF Snap
  <2>2. QED
    BY <1>1, <2>1, ReadingStays
<1>6. QED
  BY <1>2, <1>3, <1>4, <1>5 DEF StreamInv

\* A display is published.
LEMMA StoreStep ==
  ASSUME StreamInv, NEW p \in ToldProgress, Store(p), UNCHANGED <<session, api, wire, reading>>,
         WorkTold', JobFits',
         ~overlapped' => ~overlapped /\ Alone' /\ WorkFits' /\ Fits(SnapshotOf(progress), p)
  PROVE  StreamInv'
<1>0. PICK n \in Nat : n = Len(stream)
  BY StoreFields DEF StreamInv
<1>1. UNCHANGED session /\ UNCHANGED cursor /\ UNCHANGED observer /\ UNCHANGED wire /\ UNCHANGED view
      /\ UNCHANGED reading /\ UNCHANGED ahead /\ UNCHANGED stale
  BY DEF api, reading
<1>2. StoreTold /\ PageTold
  BY DEF StreamInv
<1>3. /\ n \in Nat /\ SnapshotOf(progress) = Snap(n)
      /\ \A i \in 1..n : stream[i] \in ToldProgress
      /\ \A i \in 0..n : Snap(i) \in Told /\ Snap(i).seq \in Nat
  BY <1>0, <1>2, StoreFields
<1>4. progress' = p /\ stream' = Append(stream, p)
  BY DEF Store
<1>5. /\ stream' \in Seq(ToldProgress) /\ Len(stream') = n + 1 /\ stream'[n + 1] = p
      /\ \A i \in 1..n : stream'[i] = stream[i]
  <2>1. stream \in Seq(ToldProgress)
    BY <1>2 DEF StoreTold
  <2>2. QED
    BY <1>0, <1>4, <2>1, AppendProperties
<1>6. ToldProgress' = ToldProgress /\ ToldMessage' = ToldMessage /\ Told' = Told
  BY <1>1 DEF ToldProgress, ToldMessage, ToldEvent, Told, Ends
<1>7. StoreTold'
  <2>1. stream' # <<>>
    BY <1>3, <1>5, EmptySeq
  <2>2. QED
    BY <1>4, <1>5, <1>6, <2>1 DEF StoreTold
<1>8. PageTold'
  <2>1. cursor' \in 0..Len(stream')
    BY <1>0, <1>1, <1>2, <1>3, <1>5 DEF PageTold
  <2>2. QED
    BY <1>1, <1>2, <1>6, <2>1 DEF PageTold
<1>9. \A i \in 0..Len(stream) : i \in 0..Len(stream') /\ Snap(i)' = Snap(i)
  BY <1>0, <1>3, <1>5 DEF Snap
<1>10. ReadingTold' /\ Hidden'
  BY <1>1, <1>9, ReadingStays
<1>11. ASSUME ~overlapped' PROVE StreamFits' /\ Segment' /\ ViewFits'
  <2>1. StreamFits /\ Segment /\ ViewFits /\ Fits(Snap(n), p)
    BY <1>3, <1>11 DEF StreamInv
  <2>2. /\ \A i \in 0..n : Snap(i)' = Snap(i)
        /\ Snap(n + 1)' = p.snapshot
    BY <1>3, <1>5 DEF Snap
  <2>3. /\ p.snapshot.seq \in Nat /\ Snap(n).seq \in Nat /\ Snap(n).seq <= p.snapshot.seq
        /\ p.event # None => Snap(n).seq < p.snapshot.seq
        /\ p.event = None => p.snapshot = [seq |-> Snap(n).seq, status |-> "running", content |-> <<>>]
    <3>1. p.snapshot.seq \in Nat /\ Snap(n).seq \in Nat
      BY <1>3, ProgressFields, ToldFields
    <3>2. CASE p.event = None
      BY <2>1, <3>1, <3>2 DEF Fits
    <3>3. CASE p.event # None
      <4>1. p.snapshot.seq = p.event.seq /\ Snap(n).seq < p.event.seq
        BY <2>1, <3>3 DEF Fits
      <4>2. Snap(n).seq < p.snapshot.seq
        BY <4>1
      <4>3. QED
        BY <3>1, <3>3, <4>2
    <3>4. QED
      BY <3>2, <3>3
  <2>4. StreamFits'
    <3>1. ASSUME NEW i \in 1..(n + 1) PROVE Fits(Snap(i - 1)', stream'[i])
      <4>1. CASE i = n + 1
        <5>1. i - 1 = n /\ n \in 0..n
          BY <1>3, <4>1
        <5>2. QED
          BY <1>5, <2>1, <2>2, <4>1, <5>1
      <4>2. CASE i \in 1..n
        <5>1. i - 1 \in 0..n
          BY <1>3, <4>2
        <5>2. Fits(Snap(i - 1), stream[i])
          BY <1>0, <2>1, <4>2 DEF StreamFits
        <5>3. QED
          BY <1>5, <2>2, <4>2, <5>1, <5>2
      <4>3. QED
        BY <1>3, <4>1, <4>2
    <3>2. ASSUME NEW i \in 0..(n + 1), NEW j \in 0..(n + 1), i <= j PROVE Snap(i)'.seq <= Snap(j)'.seq
      <4>1. CASE j \in 0..n
        <5>1. i \in 0..n
          BY <1>3, <3>2, <4>1
        <5>2. Snap(i).seq <= Snap(j).seq
          BY <1>0, <2>1, <3>2, <4>1, <5>1 DEF StreamFits
        <5>3. QED
          BY <2>2, <4>1, <5>1, <5>2
      <4>2. CASE j = n + 1 /\ i \in 0..n
        <5>1. n \in 0..n /\ i <= n
          BY <1>3, <4>2
        <5>2. Snap(i).seq <= Snap(n).seq
          BY <1>0, <2>1, <4>2, <5>1 DEF StreamFits
        <5>3. Snap(i).seq <= p.snapshot.seq
          BY <1>3, <2>3, <4>2, <5>2
        <5>4. QED
          BY <2>2, <4>2, <5>3
      <4>3. CASE j = n + 1 /\ i = n + 1
        BY <2>2, <2>3, <4>3
      <4>4. QED
        BY <1>3, <4>1, <4>2, <4>3
    <3>3. ASSUME NEW i \in 1..(n + 1), NEW j \in 1..(n + 1), i <= j, stream'[i].event = None,
                 Snap(i)'.seq = Snap(j)'.seq
          PROVE  Snap(i)' = Snap(j)'
      <4>1. CASE j \in 1..n
        <5>1. i \in 1..n /\ i \in 0..n /\ j \in 0..n
          BY <1>3, <3>3, <4>1
        <5>2. stream[i].event = None /\ Snap(i).seq = Snap(j).seq
          BY <1>5, <2>2, <3>3, <5>1
        <5>3. Snap(i) = Snap(j)
          BY <1>0, <2>1, <3>3, <4>1, <5>1, <5>2 DEF StreamFits
        <5>4. QED
          BY <2>2, <5>1, <5>3
      <4>2. CASE j = n + 1 /\ i \in 1..n
        <5>1. i \in 0..n /\ n \in 1..n /\ i <= n /\ n \in 0..n
          BY <1>3, <4>2
        <5>2. Snap(i).seq <= Snap(n).seq /\ Snap(i).seq = p.snapshot.seq /\ Snap(i).seq \in Nat
          BY <1>0, <1>3, <2>1, <2>2, <3>3, <4>2, <5>1 DEF StreamFits
        <5>3. Snap(i).seq = Snap(n).seq /\ p.event = None
          BY <2>3, <5>2
        <5>4. Snap(i) = Snap(n)
          BY <1>0, <1>5, <2>1, <3>3, <4>2, <5>1, <5>3 DEF StreamFits
        <5>5. Fits(Snap(i - 1), stream[i])
          BY <1>0, <2>1, <4>2 DEF StreamFits
        <5>6. stream[i].event = None /\ stream[i].snapshot = Snap(i)
          BY <1>5, <3>3, <4>2 DEF Snap
        <5>7. Snap(i) = [seq |-> Snap(i - 1).seq, status |-> "running", content |-> <<>>]
          BY <5>5, <5>6 DEF Fits
        <5>8. Snap(i) = [seq |-> Snap(i).seq, status |-> "running", content |-> <<>>]
          BY <5>7
        <5>9. p.snapshot = Snap(i)
          BY <2>3, <5>3, <5>8
        <5>10. QED
          BY <2>2, <4>2, <5>1, <5>9
      <4>3. CASE j = n + 1 /\ i = n + 1
        BY <4>3
      <4>4. QED
        BY <1>3, <4>1, <4>2, <4>3
    <3>4. QED
      BY <1>5, <3>1, <3>2, <3>3 DEF StreamFits
  <2>5. Begins' = Begins
    BY <1>1 DEF Begins
  <2>6. Segment'
    <3>1. \A k \in 1..Len(observer.pending) : Begins + k \in 1..n
      BY <1>0, <1>2, <2>1, LenProperties DEF Segment, Begins, PageTold
    <3>2. \A k \in 1..Len(observer.buffered) : Begins + Len(observer.pending) + k \in 1..n
      BY <1>0, <1>2, <2>1, LenProperties DEF Segment, Begins, PageTold
    <3>3. QED
      BY <1>1, <1>5, <2>1, <2>5, <3>1, <3>2 DEF Segment
  <2>7. ASSUME NEW at \in [0..Len(wire) -> 0..n], Shows(at)
        PROVE  at \in [0..Len(wire) -> 0..(n + 1)] /\ Shows(at)'
    <3>1. Len(wire) \in Nat
      BY <1>2, LenProperties DEF PageTold
    <3>2. at \in [0..Len(wire) -> 0..(n + 1)]
      BY <1>3
    <3>3. \A k \in 0..Len(wire) : at[k] \in 0..n
      OBVIOUS
    <3>4. ASSUME NEW k \in 1..Len(wire) PROVE Carries(wire[k], at[k - 1], at[k])'
      <4>1. Carries(wire[k], at[k - 1], at[k]) /\ at[k - 1] \in 0..n /\ at[k] \in 0..n
        BY <2>7, <3>1, <3>3 DEF Shows
      <4>2. at[k] = at[k - 1] + 1 => at[k] \in 1..n
        BY <1>3, <4>1
      <4>3. QED
        BY <1>1, <1>5, <2>2, <4>1, <4>2 DEF Carries
    <3>5. Stands(at[0])'
      BY <1>0, <1>1, <1>9, <2>7, StandsStays DEF Shows
    <3>6. observer'.pc = "open" =>
            Begins' <= at[Len(wire)] /\ observer'.last = Snap(at[Len(wire)])'.seq
      <4>1. Len(wire) \in 0..Len(wire)
        BY <3>1
      <4>2. QED
        BY <1>1, <2>2, <2>5, <2>7, <3>3, <4>1 DEF Shows
    <3>7. QED
      BY <1>1, <3>2, <3>4, <3>5, <3>6 DEF Shows
  <2>8. ViewFits'
    <3>1. CASE view.status = "failed" /\ wire = <<>> /\ observer.pc = "off"
      BY <1>1, <3>1 DEF ViewFits
    <3>2. CASE \E at \in [0..Len(wire) -> 0..Len(stream)] : Shows(at)
      <4>1. PICK at \in [0..Len(wire) -> 0..n] : Shows(at)
        BY <1>0, <3>2
      <4>2. at \in [0..Len(wire') -> 0..Len(stream')] /\ Shows(at)'
        BY <1>1, <1>5, <2>7, <4>1
      <4>3. QED
        BY <4>2 DEF ViewFits
    <3>3. QED
      BY <2>1, <3>1, <3>2 DEF ViewFits
  <2>9. QED
    BY <2>4, <2>6, <2>8
<1>12. QED
  BY <1>7, <1>8, <1>11, <1>10 DEF StreamInv

LEMMA ExecFields ==
  ASSUME WorkTold, NEW w \in Executions
  PROVE  /\ exec[w] \in Execution
         /\ exec[w].snapshot \in Told /\ exec[w].inflight \in ToldProgress \cup {None}
         /\ exec[w].pc \in {"idle", "taken", "running", "committed"} /\ exec[w].started \in BOOLEAN
BY DEF WorkTold, Execution

LEMMA ExecSet ==
  ASSUME WorkTold, NEW w \in Executions, NEW r, exec' = [exec EXCEPT ![w] = r]
  PROVE  /\ exec'[w] = r /\ \A v \in Executions : v # w => exec'[v] = exec[v]
         /\ \A T : Execution \subseteq T /\ r \in T => exec' \in [Executions -> T]
BY DEF WorkTold

LEMMA NoExecTold == NoExec \in Execution /\ NoExec.pc = "idle" /\ NoExec.inflight = None
BY SnapshotOfTold DEF NoExec, Execution

LEMMA JobIs ==
  ASSUME JobFits
  PROVE  /\ job.status \in {"waiting", "active", "completed", "failed"} /\ job.owner \in Executions \cup {None}
         /\ job.made \in 0..MaxAttempts /\ job.stalls \in 0..(MaxStalls + 1)
         /\ job.taken \in 0..(MaxAttempts + MaxStalls)
         /\ None \notin Executions /\ MaxAttempts \in Nat /\ MaxStalls \in Nat
BY StreamAssumption DEF JobFits, Job, Executions

\* Who works without another beside it works on what was published last.
LEMMA WorksAlone ==
  ASSUME StreamInv, ~overlapped, NEW w \in Executions, exec[w].pc # "idle"
  PROVE  /\ cleanup.pc = "none" /\ SnapshotOf(progress).status # "failed"
         /\ job.status = "waiting" \/ job.owner = w
         /\ Works(exec[w], SnapshotOf(progress))
         /\ \A v \in Executions : v # w => exec[v].pc = "idle" /\ exec[v].inflight = None
<1>1. Alone /\ WorkFits /\ JobFits
  BY DEF StreamInv
<1>2. job.status = "waiting" \/ job.owner = w
  BY <1>1 DEF Alone
<1>3. cleanup.pc = "none"
  BY <1>1, <1>2 DEF JobFits
<1>4. \A v \in Executions : v # w => exec[v].pc = "idle"
  BY <1>1 DEF Alone
<1>5. \A v \in Executions : v # w => exec[v].inflight = None
  BY <1>1, <1>4 DEF WorkFits, Works
<1>6. QED
  BY <1>1, <1>2, <1>3, <1>4, <1>5 DEF WorkFits

\* It stays alone.
LEMMA StaysAlone ==
  ASSUME StreamInv, ~overlapped, NEW w \in Executions, exec[w].pc # "idle",
         NEW r, exec' = [exec EXCEPT ![w] = r], Works(r, SnapshotOf(progress')),
         r.pc # "idle" => UNCHANGED job
  PROVE  Alone' /\ \A v \in Executions : Works(exec[v], SnapshotOf(progress))'
<1>1. /\ exec'[w] = r /\ \A v \in Executions : v # w => exec'[v] = exec[v]
      /\ job.status = "waiting" \/ job.owner = w
      /\ \A v \in Executions : v # w => exec[v].pc = "idle" /\ exec[v].inflight = None
  BY ExecSet, WorksAlone DEF StreamInv
<1>2. ASSUME NEW v \in Executions PROVE Works(exec'[v], SnapshotOf(progress'))
  <2>1. CASE v = w
    BY <1>1, <2>1
  <2>2. CASE v # w
    BY <1>1, <2>2 DEF Works
  <2>3. QED
    BY <2>1, <2>2
<1>3. Alone'
  BY <1>1 DEF Alone
<1>4. QED
  BY <1>2, <1>3

LEMMA WorkToldSet ==
  ASSUME WorkTold, session = "held" \/ session' = session, session' \in {"held", "committed", "released"},
         NEW w \in Executions, NEW r \in Execution', exec' = [exec EXCEPT ![w] = r],
         r.pc = "committed" => session' = "committed",
         UNCHANGED cleanup \/ \E b \in Told : cleanup' = [pc |-> "due", base |-> b],
         overlapped' \in BOOLEAN, cut' \in BOOLEAN, faults' \in 0..MaxFaults
  PROVE  WorkTold'
<1>1. exec'[w] = r /\ \A v \in Executions : v # w => exec'[v] = exec[v]
  BY ExecSet
<1>2. exec' \in [Executions -> Execution']
  BY ExecSet, ToldStays
<1>3. \A v \in Executions : exec'[v].pc = "committed" => session' = "committed"
  BY <1>1 DEF WorkTold
<1>4. /\ cleanup' \in [pc: {"none", "due", "publishing", "done"}, base: Told']
      /\ cleanup'.pc = "publishing" => session' = "released"
  BY ToldStays DEF WorkTold
<1>5. QED
  BY <1>2, <1>3, <1>4 DEF WorkTold

\* An execution goes on or ends, and nothing is published.
LEMMA WorkStep ==
  ASSUME StreamInv, session = "held" \/ session' = session, session' \in {"held", "committed", "released"},
         NEW w \in Executions, exec[w].pc # "idle", NEW r \in Execution', exec' = [exec EXCEPT ![w] = r],
         r.pc = "committed" => session' = "committed",
         UNCHANGED <<cleanup, progress, stream, api, wire, reading, overlapped>>,
         cut' \in BOOLEAN, faults' \in 0..MaxFaults,
         JobFits', r.pc # "idle" => UNCHANGED job,
         ~overlapped => Works(r, SnapshotOf(progress))
  PROVE  StreamInv'
<1>1. WorkTold'
  BY WorkToldSet DEF StreamInv, WorkTold
<1>2. ASSUME ~overlapped PROVE Alone' /\ WorkFits'
  <2>1. Alone' /\ \A v \in Executions : Works(exec[v], SnapshotOf(progress))'
    BY <1>2, StaysAlone
  <2>2. cleanup.pc = "none" /\ SnapshotOf(progress).status # "failed"
    BY <1>2, WorksAlone
  <2>3. QED
    BY <2>1, <2>2 DEF WorkFits
<1>3. QED
  BY <1>1, <1>2, WorkMoves

LEMMA JobRests == ASSUME JobFits, UNCHANGED <<job, cleanup>> PROVE JobFits'
BY DEF JobFits

LEMMA EndJobFits ==
  ASSUME JobFits, NEW w \in Executions, job' = EndJob(w, "completed"), UNCHANGED cleanup
  PROVE  JobFits'
<1>1. CASE job.owner = w
  <2>1. job' = [job EXCEPT !.status = "completed", !.owner = None]
    BY <1>1 DEF EndJob
  <2>2. job' \in Job /\ job'.status = "completed" /\ job'.owner = None
    BY <2>1, JobIs DEF JobFits, Job
  <2>3. cleanup.pc = "none"
    BY <1>1, JobIs DEF JobFits
  <2>4. QED
    BY <2>2, <2>3, JobIs DEF JobFits
<1>2. CASE job.owner # w
  BY <1>2 DEF EndJob, JobFits
<1>3. QED
  BY <1>1, <1>2

LEMMA LoadStep == ASSUME StreamInv, NEW w \in Executions, Load(w) PROVE StreamInv'
<1>1. /\ exec[w].pc = "taken" /\ WorkTold /\ JobFits
      /\ UNCHANGED session /\ UNCHANGED cut /\ UNCHANGED faults
      /\ UNCHANGED <<cleanup, progress, stream, api, wire, reading, overlapped>>
  BY DEF Load, StreamInv
<1>2. CASE session = "held"
  <2> DEFINE r == [exec[w] EXCEPT !.pc = "running"]
  <2>1. exec' = [exec EXCEPT ![w] = r] /\ UNCHANGED job
    BY <1>2 DEF Load
  <2>2. exec[w] \in Execution
    BY <1>1, ExecFields
  <2>3. r \in Execution /\ r.pc = "running" /\ r.snapshot = exec[w].snapshot /\ r.inflight = exec[w].inflight
        /\ r.started = exec[w].started
    BY <2>2 DEF Execution
  <2>4. r \in Execution'
    BY <1>1, <2>3, ToldStays
  <2>5. ~overlapped => Works(r, SnapshotOf(progress))
    BY <1>1, <2>3, WorksAlone DEF Works
  <2>6. JobFits'
    BY <1>1, <2>1, JobRests
  <2> HIDE DEF r
  <2>7. QED
    BY <1>1, <2>1, <2>3, <2>4, <2>5, <2>6, WorkStep DEF WorkTold
<1>3. CASE session # "held"
  <2>1. exec' = [exec EXCEPT ![w] = NoExec] /\ job' = EndJob(w, "completed")
    BY <1>3 DEF Load
  <2>2. NoExec \in Execution'
    BY <1>1, NoExecTold, ToldStays
  <2>3. JobFits'
    BY <1>1, <2>1, EndJobFits
  <2>4. Works(NoExec, SnapshotOf(progress))
    BY NoExecTold DEF Works
  <2>5. QED
    BY <1>1, <2>1, <2>2, <2>3, <2>4, NoExecTold, WorkStep DEF WorkTold
<1>4. QED
  BY <1>2, <1>3

LEMMA StartAttemptStep == ASSUME StreamInv, NEW w \in Executions, StartAttempt(w) PROVE StreamInv'
<1> DEFINE s == [seq |-> exec[w].snapshot.seq, status |-> "running", content |-> <<>>]
           p == [snapshot |-> s, event |-> None]
           r == [[[exec[w] EXCEPT !.started = TRUE] EXCEPT !.snapshot = s] EXCEPT !.inflight = p]
<1>1. /\ exec[w].pc \in {"running", "committed"} /\ exec[w].inflight = None
      /\ UNCHANGED session /\ UNCHANGED cut /\ UNCHANGED faults /\ UNCHANGED job
      /\ UNCHANGED <<cleanup, progress, stream, api, wire, reading, overlapped>>
      /\ exec' = [exec EXCEPT ![w].started = TRUE, ![w].snapshot = s, ![w].inflight = p]
  BY DEF StartAttempt, Free
<1>2. WorkTold /\ JobFits /\ exec[w] \in Execution /\ exec[w].snapshot \in Told
  BY ExecFields DEF StreamInv
<1>3. s \in Told
  <2>1. exec[w].snapshot.seq \in Nat /\ Ends("running") /\ <<>> \in Seq(Executions)
    BY <1>2, ToldFields, EmptySeq DEF Ends
  <2>2. QED
    BY <2>1, ToldIs
<1>4. p \in ToldProgress
  BY <1>3 DEF ToldProgress
<1>5. exec' = [exec EXCEPT ![w] = r]
  BY <1>1, <1>2
<1>6. s.status = "running" /\ p.snapshot = s /\ p.event = None
  OBVIOUS
<1>7. Fits(exec[w].snapshot, p)
  BY DEF Fits
<1> HIDE DEF s, p
<1>8. r \in Execution /\ r.pc = exec[w].pc /\ r.snapshot = s /\ r.inflight = p
  BY <1>2, <1>3, <1>4 DEF Execution
<1> HIDE DEF r
<1>9. r \in Execution'
  BY <1>1, <1>8, ToldStays
<1>10. ~overlapped => Works(r, SnapshotOf(progress))
  BY <1>1, <1>4, <1>6, <1>7, <1>8, ProgressFields, WorksAlone DEF Works
<1>11. JobFits' /\ (r.pc = "committed" => session' = "committed")
  BY <1>1, <1>2, <1>8, JobRests DEF WorkTold
<1>12. QED
  BY <1>1, <1>5, <1>2, <1>9, <1>10, <1>11, WorkStep DEF WorkTold

\* An event is numbered and handed over.
LEMMA NumberedStep ==
  ASSUME StreamInv, NEW w \in Executions, exec[w].pc \in {"running", "committed"}, exec[w].inflight = None, exec[w].started,
         NEW e \in ToldEvent, e.seq = exec[w].snapshot.seq + 1,
         e.type = "run_finished" => e.status # "failed",
         exec' = [exec EXCEPT ![w].snapshot = Reduce(@, e), ![w].inflight = Projected(exec[w].snapshot, e)],
         UNCHANGED <<session, job, cleanup, progress, stream, api, wire, reading, overlapped, cut, faults>>
  PROVE  StreamInv'
<1> DEFINE s == exec[w].snapshot
           p == Projected(s, e)
           r == [[exec[w] EXCEPT !.snapshot = Reduce(s, e)] EXCEPT !.inflight = p]
<1>1. WorkTold /\ JobFits /\ exec[w] \in Execution /\ s \in Told
  BY ExecFields DEF StreamInv
<1>2. exec' = [exec EXCEPT ![w] = r]
  BY <1>1
<1>3. /\ p \in ToldProgress /\ p.event = e /\ p.snapshot = Reduce(s, e) /\ Reduce(s, e) \in Told
      /\ s.status \notin {"failed", "queued"} => Fits(s, p)
      /\ e.type = "delta" => Reduce(s, e).status = s.status
      /\ e.type = "run_finished" => Reduce(s, e).status = e.status
  BY <1>1, ProjectedTold
<1>4. s.status \notin {"failed", "queued"} => Reduce(s, e).status \notin {"failed", "queued"}
  BY <1>3, EventFields DEF Terminal
<1> HIDE DEF p
<1>5. r \in Execution /\ r.pc = exec[w].pc /\ r.snapshot = Reduce(s, e) /\ r.inflight = p
  BY <1>1, <1>3 DEF Execution
<1> HIDE DEF r
<1>6. r \in Execution'
  BY <1>5, ToldStays
<1>7. ~overlapped => Works(r, SnapshotOf(progress))
  <2>1. SUFFICES ASSUME ~overlapped PROVE Works(r, SnapshotOf(progress))
    OBVIOUS
  <2>2. exec[w].pc # "idle" /\ Works(exec[w], SnapshotOf(progress))
    BY <2>1, WorksAlone
  <2>3. s = SnapshotOf(progress) /\ s.status \notin {"failed", "queued"}
    BY <2>2 DEF Works
  <2>4. p # None
    BY <1>3, ProgressFields
  <2>5. QED
    BY <1>3, <1>4, <1>5, <2>2, <2>3, <2>4 DEF Works
<1>8. JobFits' /\ (r.pc = "committed" => session' = "committed")
  BY <1>1, <1>5, JobRests DEF WorkTold
<1>9. QED
  BY <1>1, <1>2, <1>6, <1>7, <1>8, WorkStep DEF WorkTold

LEMMA EmitStep == ASSUME StreamInv, NEW w \in Executions, Emit(w) PROVE StreamInv'
<1> DEFINE e == Numbered(exec[w].snapshot, "delta", w, None)
<1>1. exec[w].snapshot \in Told
  BY ExecFields DEF StreamInv
<1>2. e \in ToldEvent /\ e.seq = exec[w].snapshot.seq + 1 /\ e.type = "delta"
  BY <1>1, NumberedTold
<1>3. QED
  BY <1>2, NumberedStep DEF Emit, Free

LEMMA CompleteStep == ASSUME StreamInv, NEW w \in Executions, Complete(w) PROVE StreamInv'
<1> DEFINE e == Numbered(exec[w].snapshot, "run_finished", 0, "completed")
<1>1. exec[w].snapshot \in Told
  BY ExecFields DEF StreamInv
<1>2. session = "committed"
  BY DEF StreamInv, WorkTold, Complete
<1>3. Ends("completed") /\ "completed" \in Terminal
  BY <1>2 DEF Ends, Terminal
<1>4. e \in ToldEvent /\ e.seq = exec[w].snapshot.seq + 1 /\ e.status = "completed"
  BY <1>1, <1>3, NumberedTold
<1>5. QED
  BY <1>4, NumberedStep DEF Complete, Free

\* An execution ends.
LEMMA EndStep ==
  ASSUME StreamInv, NEW w \in Executions, exec[w].pc # "idle", exec' = [exec EXCEPT ![w] = NoExec],
         UNCHANGED job \/ job' = EndJob(w, "completed"),
         UNCHANGED <<session, cleanup, progress, stream, api, wire, reading, overlapped>>,
         cut' \in BOOLEAN, faults' \in 0..MaxFaults
  PROVE  StreamInv'
<1>1. NoExec \in Execution'
  BY NoExecTold, ToldStays
<1>2. JobFits'
  BY JobRests, EndJobFits DEF StreamInv
<1>3. Works(NoExec, SnapshotOf(progress))
  BY NoExecTold DEF Works
<1>4. QED
  BY <1>1, <1>2, <1>3, NoExecTold, WorkStep DEF StreamInv, WorkTold

LEMMA FailsFaults == ASSUME WorkTold, NEW kind, Fails(kind) PROVE faults' \in 0..MaxFaults
BY StreamAssumption DEF WorkTold, Fails

LEMMA FinishStep == ASSUME StreamInv, NEW w \in Executions, Finish(w) PROVE StreamInv'
BY EndStep DEF Finish, StreamInv, WorkTold

LEMMA WorkerCrashStep == ASSUME StreamInv, NEW w \in Executions, WorkerCrash(w) PROVE StreamInv'
<1>1. faults' \in 0..MaxFaults /\ cut' \in BOOLEAN
  BY FailsFaults DEF WorkerCrash, StreamInv, WorkTold
<1>2. QED
  BY <1>1, EndStep DEF WorkerCrash

LEMMA CommitStep == ASSUME StreamInv, NEW w \in Executions, Commit(w) PROVE StreamInv'
<1>1. /\ exec[w].pc = "running" /\ exec[w].inflight = None /\ WorkTold /\ JobFits
      /\ UNCHANGED cut /\ UNCHANGED faults
      /\ UNCHANGED <<cleanup, progress, stream, api, wire, reading, overlapped>>
  BY DEF Commit, Free, StreamInv
<1>2. CASE session = "held"
  <2> DEFINE r == [exec[w] EXCEPT !.pc = "committed"]
  <2>1. exec' = [exec EXCEPT ![w] = r] /\ UNCHANGED job /\ session' = "committed"
    BY <1>2 DEF Commit
  <2>2. exec[w] \in Execution
    BY <1>1, ExecFields
  <2>3. r \in Execution /\ r.pc = "committed" /\ r.snapshot = exec[w].snapshot /\ r.inflight = exec[w].inflight
        /\ r.started = exec[w].started
    BY <2>2 DEF Execution
  <2>4. r \in Execution'
    BY <1>2, <2>3, ToldStays
  <2>5. ~overlapped => Works(r, SnapshotOf(progress))
    BY <1>1, <2>3, WorksAlone DEF Works
  <2>6. JobFits'
    BY <1>1, <2>1, JobRests
  <2> HIDE DEF r
  <2>7. QED
    BY <1>1, <1>2, <2>1, <2>3, <2>4, <2>5, <2>6, WorkStep DEF WorkTold
<1>3. CASE session # "held"
  <2>1. exec' = [exec EXCEPT ![w] = NoExec] /\ job' = EndJob(w, "completed") /\ UNCHANGED session
    BY <1>3 DEF Commit
  <2>2. QED
    BY <1>1, <2>1, EndStep DEF WorkTold
<1>4. QED
  BY <1>2, <1>3

LEMMA TakeStep == ASSUME StreamInv, NEW w \in Executions, Take(w) PROVE StreamInv'
<1> DEFINE r == [[NoExec EXCEPT !.pc = "taken"] EXCEPT !.snapshot = SnapshotOf(progress)]
<1>1. /\ job.status = "waiting" /\ w = job.taken + 1
      /\ job' = [job EXCEPT !.status = "active", !.owner = w, !.taken = w]
      /\ exec' = [exec EXCEPT ![w] = r]
      /\ overlapped' = (overlapped \/ \E v \in Executions : exec[v].pc # "idle")
      /\ UNCHANGED session /\ UNCHANGED cut /\ UNCHANGED faults /\ UNCHANGED cleanup
      /\ UNCHANGED <<progress, stream, api, wire, reading>>
  BY DEF Take
<1>2. WorkTold /\ JobFits /\ StoreTold /\ SnapshotOf(progress) \in Told
  BY StoreFields DEF StreamInv
<1>3. r \in Execution /\ r.pc = "taken" /\ r.snapshot = SnapshotOf(progress) /\ r.inflight = None
      /\ r.started = FALSE
  <2>1. NoExec.started = FALSE
    BY DEF NoExec
  <2>2. QED
    BY <1>2, <2>1, NoExecTold DEF Execution
<1> HIDE DEF r
<1>4. r \in Execution'
  BY <1>1, <1>3, ToldStays
<1>5. WorkTold'
  BY <1>1, <1>2, <1>3, <1>4, WorkToldSet DEF WorkTold
<1>6. JobFits'
  <2>1. job'.status = "active" /\ job'.owner = w /\ job'.made = job.made /\ job'.stalls = job.stalls
        /\ job' \in Job
    <3>1. w \in 0..(MaxAttempts + MaxStalls) /\ job \in Job
      BY <1>2, JobIs DEF Executions, JobFits
    <3>2. QED
      BY <1>1, <3>1 DEF Job
  <2>2. QED
    BY <1>1, <1>2, <2>1 DEF JobFits
<1>7. ASSUME ~overlapped' PROVE ~overlapped /\ Alone' /\ WorkFits'
  <2>1. ~overlapped /\ \A v \in Executions : exec[v].pc = "idle"
    BY <1>1, <1>7
  <2>2. Alone /\ WorkFits
    BY <2>1 DEF StreamInv
  <2>3. cleanup.pc = "none" /\ SnapshotOf(progress).status # "failed"
    BY <1>1, <1>2, <2>2 DEF JobFits, WorkFits
  <2>4. exec'[w] = r /\ \A v \in Executions : v # w => exec'[v] = exec[v]
    BY <1>1, <1>2, ExecSet
  <2>5. job'.owner = w
    BY <1>1, <1>2 DEF JobFits, Job
  <2>6. Alone'
    BY <2>1, <2>4, <2>5 DEF Alone
  <2>7. \A v \in Executions : Works(exec[v], SnapshotOf(progress))'
    BY <1>1, <1>3, <2>1, <2>2, <2>3, <2>4 DEF WorkFits, Works
  <2>8. WorkFits'
    BY <1>1, <2>3, <2>7 DEF WorkFits
  <2>9. QED
    BY <2>1, <2>6, <2>8
<1>8. QED
  BY <1>1, <1>5, <1>6, <1>7, WorkMoves

LEMMA ThrowFits ==
  ASSUME StreamInv, NEW w \in Executions, NEW b \in Told, Throw(w, b)
  PROVE  /\ JobFits' /\ (job.owner = w => job'.owner = None /\ job'.status # "active")
         /\ UNCHANGED cleanup \/ (cleanup' = [pc |-> "due", base |-> b] /\ cleanup.pc = "none")
<1>1. JobFits
  BY DEF StreamInv
<1>2. CASE job.owner # w
  BY <1>1, <1>2, JobRests DEF Throw
<1>3. CASE job.owner = w
  <2> DEFINE st == IF job.made + 1 = MaxAttempts THEN "failed" ELSE "waiting"
  <2>1. /\ job' = [job EXCEPT !.made = @ + 1, !.owner = None, !.status = st]
        /\ cleanup' = IF job.made + 1 = MaxAttempts THEN [pc |-> "due", base |-> b] ELSE cleanup
    BY <1>3 DEF Throw
  <2>2. job.status = "active" /\ cleanup.pc = "none"
    BY <1>1, <1>3 DEF JobFits
  <2>3. job.made + 1 \in 0..MaxAttempts /\ job.stalls <= MaxStalls /\ job \in Job
    BY <1>1, <2>2, JobIs DEF JobFits
  <2>4. job' \in Job /\ job'.made = job.made + 1 /\ job'.stalls = job.stalls /\ job'.status = st /\ job'.owner = None
    BY <2>1, <2>3 DEF Job
  <2>5. JobFits'
    BY <2>1, <2>2, <2>3, <2>4, JobIs, <1>1 DEF JobFits
  <2>6. QED
    BY <2>1, <2>2, <2>4, <2>5
<1>4. QED
  BY <1>2, <1>3

\* What an execution holds is not behind what was published.
LEMMA HeldIsAhead ==
  ASSUME StreamInv, ~overlapped, NEW w \in Executions, exec[w].pc # "idle"
  PROVE  /\ SnapshotOf(progress).seq <= exec[w].snapshot.seq /\ exec[w].snapshot.status # "failed"
         /\ exec[w].started => exec[w].snapshot.status # "queued"
         /\ exec[w].inflight # None => /\ exec[w].inflight \in ToldProgress
                                       /\ SnapshotOf(exec[w].inflight) = exec[w].snapshot
                                       /\ Fits(SnapshotOf(progress), exec[w].inflight)
<1>1. /\ Works(exec[w], SnapshotOf(progress)) /\ exec[w].snapshot \in Told
      /\ exec[w].inflight \in ToldProgress \cup {None} /\ SnapshotOf(progress) \in Told
  BY WorksAlone, ExecFields, StoreFields DEF StreamInv
<1>2. exec[w].snapshot.seq \in Nat /\ SnapshotOf(progress).seq \in Nat /\ exec[w].snapshot.status # "failed"
      /\ (exec[w].started => exec[w].snapshot.status # "queued")
  BY <1>1, ToldFields DEF Works
<1>3. CASE exec[w].inflight = None
  BY <1>1, <1>2, <1>3 DEF Works
<1>4. CASE exec[w].inflight # None
  <2>1. /\ exec[w].inflight \in ToldProgress /\ exec[w].inflight.snapshot = exec[w].snapshot
        /\ Fits(SnapshotOf(progress), exec[w].inflight)
    BY <1>1, <1>4 DEF Works
  <2>2. SnapshotOf(exec[w].inflight) = exec[w].snapshot
    BY <2>1, SnapshotOfTold
  <2>3. SnapshotOf(progress).seq <= exec[w].inflight.snapshot.seq
    <3>1. CASE exec[w].inflight.event = None
      BY <1>2, <2>1, <3>1 DEF Fits
    <3>2. CASE exec[w].inflight.event # None
      BY <1>2, <2>1, <3>2 DEF Fits
    <3>3. QED
      BY <3>1, <3>2
  <2>4. QED
    BY <1>2, <2>1, <2>2, <2>3
<1>5. QED
  BY <1>3, <1>4

LEMMA ThrowWork ==
  ASSUME StreamInv, NEW w \in Executions, Throw(w, exec[w].snapshot), UNCHANGED <<session, overlapped>>,
         cut' \in BOOLEAN, faults' \in 0..MaxFaults
  PROVE  /\ WorkTold' /\ JobFits'
         /\ ~overlapped /\ exec[w].pc # "idle"
              /\ SnapshotOf(progress') \in {SnapshotOf(progress), exec[w].snapshot} => Alone' /\ WorkFits'
<1>1. WorkTold /\ JobFits /\ exec[w].snapshot \in Told /\ exec' = [exec EXCEPT ![w] = NoExec]
  BY ExecFields DEF StreamInv, Throw
<1>2. /\ JobFits'
      /\ UNCHANGED cleanup \/ (cleanup' = [pc |-> "due", base |-> exec[w].snapshot] /\ cleanup.pc = "none")
  BY <1>1, ThrowFits
<1>3. NoExec \in Execution' /\ NoExec.pc = "idle" /\ Works(NoExec, SnapshotOf(progress'))
  BY NoExecTold, ToldStays DEF Works
<1>4. WorkTold'
  BY <1>1, <1>2, <1>3, WorkToldSet DEF WorkTold
<1>5. ASSUME ~overlapped, exec[w].pc # "idle",
             SnapshotOf(progress') \in {SnapshotOf(progress), exec[w].snapshot}
      PROVE  Alone' /\ WorkFits'
  <2>1. Alone' /\ \A v \in Executions : Works(exec[v], SnapshotOf(progress))'
    BY <1>1, <1>3, <1>5, StaysAlone
  <2>2. cleanup.pc = "none" /\ SnapshotOf(progress).status # "failed"
    BY <1>5, WorksAlone
  <2>3. SnapshotOf(progress).seq <= exec[w].snapshot.seq /\ exec[w].snapshot.status # "failed"
        /\ exec[w].snapshot.seq \in Nat
    BY <1>1, <1>5, HeldIsAhead, ToldFields
  <2>4. SnapshotOf(progress').seq <= exec[w].snapshot.seq /\ SnapshotOf(progress').status # "failed"
    BY <1>5, <2>2, <2>3
  <2>5. QED
    BY <1>2, <2>1, <2>2, <2>4 DEF WorkFits
<1>6. QED
  BY <1>2, <1>4, <1>5

LEMMA AttemptErrorStep == ASSUME StreamInv, NEW w \in Executions, AttemptError(w) PROVE StreamInv'
<1>1. /\ exec[w].pc # "idle" /\ Throw(w, exec[w].snapshot)
      /\ UNCHANGED session /\ UNCHANGED overlapped /\ UNCHANGED cut
      /\ UNCHANGED progress /\ UNCHANGED <<progress, stream, api, wire, reading>>
  BY DEF AttemptError
<1>2. faults' \in 0..MaxFaults /\ cut' \in BOOLEAN
  BY FailsFaults DEF AttemptError, StreamInv, WorkTold
<1>3. WorkTold' /\ JobFits' /\ (~overlapped => Alone' /\ WorkFits')
  BY <1>1, <1>2, ThrowWork
<1>4. QED
  BY <1>1, <1>3, WorkMoves

LEMMA PublishErrorStep == ASSUME StreamInv, NEW w \in Executions, PublishError(w) PROVE StreamInv'
<1>1. /\ exec[w].inflight # None /\ Throw(w, exec[w].snapshot)
      /\ UNCHANGED session /\ UNCHANGED overlapped /\ UNCHANGED <<api, wire, reading>>
      /\ UNCHANGED <<session, api, wire, reading>>
  BY DEF PublishError
<1>2. faults' \in 0..MaxFaults /\ cut' \in BOOLEAN
  BY FailsFaults DEF PublishError, StreamInv, WorkTold
<1>3. ~overlapped => exec[w].pc # "idle"
  BY <1>1 DEF StreamInv, WorkFits, Works
<1>4. CASE UNCHANGED <<progress, stream>>
  <2>1. WorkTold' /\ JobFits' /\ (~overlapped => Alone' /\ WorkFits')
    BY <1>1, <1>2, <1>3, <1>4, ThrowWork
  <2>2. QED
    BY <1>1, <1>4, <2>1, WorkMoves
<1>5. CASE Store(exec[w].inflight)
  <2>1. exec[w].inflight \in ToldProgress /\ progress' = exec[w].inflight
    BY <1>1, <1>5, ExecFields DEF StreamInv, Store
  <2>2. WorkTold' /\ JobFits' /\ (~overlapped => Alone' /\ WorkFits')
    BY <1>1, <1>2, <1>3, <2>1, HeldIsAhead, ThrowWork
  <2>3. ~overlapped => Fits(SnapshotOf(progress), exec[w].inflight)
    BY <1>1, <1>3, HeldIsAhead
  <2>4. QED
    BY <1>1, <1>5, <2>1, <2>2, <2>3, StoreStep
<1>6. QED
  BY <1>4, <1>5 DEF PublishError

LEMMA PublishStep == ASSUME StreamInv, NEW w \in Executions, Publish(w) PROVE StreamInv'
<1> DEFINE r == [exec[w] EXCEPT !.inflight = None]
           p == exec[w].inflight
<1>1. /\ p # None /\ Store(p) /\ exec' = [exec EXCEPT ![w] = r]
      /\ UNCHANGED session /\ UNCHANGED overlapped /\ UNCHANGED cut /\ UNCHANGED faults
      /\ UNCHANGED <<job, cleanup>> /\ UNCHANGED <<session, api, wire, reading>>
  BY DEF Publish
<1>2. WorkTold /\ JobFits /\ exec[w] \in Execution /\ p \in ToldProgress
  BY <1>1, ExecFields DEF StreamInv
<1>3. r \in Execution /\ r.pc = exec[w].pc /\ r.snapshot = exec[w].snapshot /\ r.inflight = None
      /\ r.started = exec[w].started
  BY <1>2 DEF Execution
<1> HIDE DEF r
<1>4. WorkTold' /\ JobFits'
  <2>1. r \in Execution' /\ (r.pc = "committed" => session' = "committed")
    BY <1>1, <1>2, <1>3, ToldStays DEF WorkTold
  <2>2. QED
    BY <1>1, <1>2, <2>1, WorkToldSet, JobRests DEF WorkTold
<1>5. ASSUME ~overlapped PROVE Alone' /\ WorkFits' /\ Fits(SnapshotOf(progress), p)
  <2>1. exec[w].pc # "idle"
    BY <1>1, <1>5 DEF StreamInv, WorkFits, Works
  <2>2. SnapshotOf(p) = exec[w].snapshot /\ exec[w].snapshot.status # "failed" /\ progress' = p
        /\ Fits(SnapshotOf(progress), p) /\ (exec[w].started => exec[w].snapshot.status # "queued")
    BY <1>1, <1>5, <2>1, HeldIsAhead DEF Store
  <2>3. Works(r, SnapshotOf(progress'))
    BY <1>3, <2>1, <2>2 DEF Works
  <2>4. Alone' /\ \A v \in Executions : Works(exec[v], SnapshotOf(progress))'
    BY <1>1, <1>5, <2>1, <2>3, StaysAlone
  <2>5. cleanup.pc = "none"
    BY <1>5, <2>1, WorksAlone
  <2>6. QED
    BY <1>1, <2>2, <2>4, <2>5 DEF WorkFits
<1>6. QED
  BY <1>1, <1>2, <1>4, <1>5, StoreStep

LEMMA RequeueFits ==
  ASSUME StreamInv, job.status = "active", Requeue, UNCHANGED <<session, exec, cut>>, overlapped' \in BOOLEAN,
         faults' \in 0..MaxFaults
  PROVE  /\ JobFits' /\ WorkTold'
         /\ job.stalls + 1 <= MaxStalls => job'.status = "waiting" /\ UNCHANGED cleanup
         /\ ~(job.stalls + 1 <= MaxStalls) =>
              job'.status = "failed" /\ cleanup' = [pc |-> "due", base |-> SnapshotOf(progress)]
<1> DEFINE st == IF job.stalls + 1 > MaxStalls THEN "failed" ELSE "waiting"
<1>1. JobFits /\ WorkTold /\ SnapshotOf(progress) \in Told
  BY StoreFields DEF StreamInv
<1>2. /\ job' = [job EXCEPT !.stalls = @ + 1, !.owner = None, !.status = st]
      /\ cleanup' = IF job.stalls + 1 > MaxStalls THEN [pc |-> "due", base |-> SnapshotOf(progress)] ELSE cleanup
  BY DEF Requeue
<1>3. /\ job.stalls + 1 \in 0..(MaxStalls + 1) /\ job.made < MaxAttempts /\ job \in Job /\ cleanup.pc = "none"
      /\ MaxStalls \in Nat /\ None \notin Executions
  BY <1>1, JobIs DEF JobFits
<1>4. /\ job' \in Job /\ job'.stalls = job.stalls + 1 /\ job'.made = job.made /\ job'.status = st
      /\ job'.owner = None
  BY <1>2, <1>3 DEF Job
<1>5. (job.stalls + 1 > MaxStalls) <=> ~(job.stalls + 1 <= MaxStalls)
  BY <1>3
<1>6. JobFits'
  <2>1. CASE job.stalls + 1 > MaxStalls
    BY <1>3, <1>4, <2>1 DEF JobFits
  <2>2. CASE ~(job.stalls + 1 > MaxStalls)
    BY <1>2, <1>3, <1>4, <1>5, <2>2 DEF JobFits
  <2>3. QED
    BY <2>1, <2>2
<1>7. WorkTold'
  <2>1. cleanup' = cleanup \/ cleanup' = [pc |-> "due", base |-> SnapshotOf(progress)]
    BY <1>2
  <2>2. UNCHANGED session /\ UNCHANGED exec /\ cut' = cut /\ overlapped' \in BOOLEAN
    BY <1>1 DEF WorkTold
  <2>3. Told' = Told /\ Execution' = Execution
    BY <2>2 DEF Told, Execution, ToldProgress, ToldEvent, Ends
  <2>4. QED
    BY <1>1, <2>1, <2>2, <2>3 DEF WorkTold
<1>8. QED
  BY <1>2, <1>4, <1>5, <1>6, <1>7

LEMMA StallStep == ASSUME StreamInv, Stall PROVE StreamInv'
<1>1. /\ job.status = "active" /\ Requeue /\ UNCHANGED session /\ UNCHANGED exec /\ UNCHANGED cut
      /\ overlapped' = (overlapped \/ job.stalls + 1 > MaxStalls)
      /\ UNCHANGED progress /\ UNCHANGED <<progress, stream, api, wire, reading>>
  BY DEF Stall
<1>2. faults' \in 0..MaxFaults /\ overlapped' \in BOOLEAN
  BY <1>1, FailsFaults DEF Stall, StreamInv, WorkTold
<1>3. WorkTold' /\ JobFits'
  BY <1>1, <1>2, RequeueFits
<1>4. ASSUME ~overlapped' PROVE ~overlapped /\ Alone' /\ WorkFits'
  <2>1. ~overlapped /\ ~(job.stalls + 1 > MaxStalls) /\ Alone /\ WorkFits
    BY <1>1, <1>4 DEF StreamInv
  <2>2. job.stalls \in Nat /\ MaxStalls \in Nat
    BY JobIs DEF StreamInv
  <2>3. job.stalls + 1 <= MaxStalls
    BY <2>1, <2>2
  <2>4. job'.status = "waiting" /\ UNCHANGED cleanup
    BY <1>1, <1>2, <2>3, RequeueFits
  <2>5. Alone' /\ WorkFits'
    BY <1>1, <2>1, <2>4 DEF Alone, WorkFits
  <2>6. QED
    BY <2>1, <2>5
<1>5. QED
  BY <1>1, <1>3, <1>4, WorkMoves

LEMMA RecoverStep == ASSUME StreamInv, RecoverCrashed PROVE StreamInv'
<1>1. /\ job.status = "active" /\ exec[job.owner].pc = "idle" /\ Requeue
      /\ UNCHANGED session /\ UNCHANGED exec /\ UNCHANGED cut /\ UNCHANGED overlapped /\ UNCHANGED faults
      /\ UNCHANGED progress /\ UNCHANGED <<progress, stream, api, wire, reading>>
  BY DEF RecoverCrashed
<1>2. WorkTold' /\ JobFits'
  BY <1>1, RequeueFits DEF StreamInv, WorkTold
<1>3. ASSUME ~overlapped PROVE Alone' /\ WorkFits'
  <2>1. Alone /\ WorkFits
    BY <1>3 DEF StreamInv
  <2>2. \A v \in Executions : exec[v].pc = "idle"
    BY <1>1, <2>1 DEF Alone
  <2>3. Alone'
    BY <1>1, <2>2 DEF Alone
  <2>4. cleanup.pc = "none" /\ SnapshotOf(progress).status # "failed" /\ SnapshotOf(progress).seq \in Nat
    BY <1>1, <2>1, StoreFields, ToldFields DEF StreamInv, JobFits, WorkFits
  <2>5. cleanup' = cleanup \/ cleanup' = [pc |-> "due", base |-> SnapshotOf(progress)]
    BY <1>1 DEF Requeue
  <2>6. WorkFits'
    BY <1>1, <2>1, <2>4, <2>5 DEF WorkFits
  <2>7. QED
    BY <2>3, <2>6
<1>4. QED
  BY <1>1, <1>2, <1>3, WorkMoves

LEMMA FailRunStep == ASSUME StreamInv, FailRun PROVE StreamInv'
<1>1. /\ cleanup.pc = "due" /\ WorkTold /\ JobFits
      /\ UNCHANGED job /\ UNCHANGED exec /\ UNCHANGED cut /\ UNCHANGED overlapped /\ UNCHANGED faults
      /\ UNCHANGED progress /\ UNCHANGED <<progress, stream, api, wire, reading>>
  BY DEF FailRun, StreamInv
<1>2. /\ session = "held" \/ session' = session
      /\ session' \in {"held", "committed", "released"}
      /\ \E q \in {"publishing", "done"} : /\ cleanup' = [cleanup EXCEPT !.pc = q]
                                           /\ q = "publishing" => session' = "released"
  BY <1>1 DEF FailRun, WorkTold
<1>3. cleanup'.pc \in {"publishing", "done"} /\ cleanup'.base = cleanup.base
      /\ (cleanup'.pc = "publishing" => session' = "released")
      /\ cleanup' \in [pc: {"none", "due", "publishing", "done"}, base: Told']
  BY <1>1, <1>2, ToldStays DEF WorkTold
<1>4. WorkTold'
  <2>1. exec' \in [Executions -> Execution']
    BY <1>1, <1>2, ToldStays DEF WorkTold
  <2>2. \A w \in Executions : exec'[w].pc = "committed" => session' = "committed"
    BY <1>1, <1>2 DEF WorkTold
  <2>3. QED
    BY <1>1, <1>2, <1>3, <2>1, <2>2 DEF WorkTold
<1>5. JobFits'
  BY <1>1 DEF JobFits
<1>6. ASSUME ~overlapped PROVE Alone' /\ WorkFits'
  <2>1. Alone /\ WorkFits
    BY <1>6 DEF StreamInv
  <2>2. Alone'
    BY <1>1, <2>1 DEF Alone
  <2>3. WorkFits'
    BY <1>1, <1>3, <2>1 DEF WorkFits
  <2>4. QED
    BY <2>2, <2>3
<1>7. QED
  BY <1>1, <1>2, <1>4, <1>5, <1>6, WorkMoves

LEMMA PublishFailedStep == ASSUME StreamInv, PublishFailed PROVE StreamInv'
<1> DEFINE e == Numbered(cleanup.base, "run_finished", 0, "failed")
           p == Projected(cleanup.base, e)
<1>1. /\ cleanup.pc = "publishing" /\ WorkTold /\ JobFits
      /\ cleanup' = [cleanup EXCEPT !.pc = "done"]
      /\ UNCHANGED session /\ UNCHANGED job /\ UNCHANGED exec /\ UNCHANGED overlapped /\ UNCHANGED faults
      /\ UNCHANGED <<api, wire, reading>> /\ UNCHANGED <<session, api, wire, reading>>
  BY DEF PublishFailed, StreamInv
<1>2. (Store(p) /\ UNCHANGED cut) \/ (cut' = TRUE /\ UNCHANGED <<progress, stream>>)
  BY DEF PublishFailed
<1>3. cleanup.base \in Told /\ Ends("failed") /\ "failed" \in Terminal
  BY <1>1 DEF WorkTold, Ends, Terminal
<1>4. e \in ToldEvent /\ e.seq = cleanup.base.seq + 1 /\ e.type = "run_finished" /\ e.status = "failed"
  BY <1>3, NumberedTold
<1> HIDE DEF e
<1>5. p \in ToldProgress /\ p.event = e /\ p.snapshot = Reduce(cleanup.base, e) /\ p # None /\ e # None
  BY <1>3, <1>4, ProjectedTold, ProgressFields, EventFields
<1>6. p.snapshot.seq = e.seq /\ p.snapshot.status = "failed" /\ cleanup.base.seq \in Nat
  <2>1. cleanup.base.seq \in Nat /\ cleanup.base.seq < e.seq
    BY <1>3, <1>4, ToldFields
  <2>2. QED
    BY <1>3, <1>4, <1>5, <2>1, ReduceEvent
<1> HIDE DEF p
<1>7. cleanup'.pc = "done" /\ cleanup' \in [pc: {"none", "due", "publishing", "done"}, base: Told]
  BY <1>1 DEF WorkTold
<1>8. WorkTold'
  <2>1. Told' = Told /\ Execution' = Execution
    BY <1>1 DEF Told, Execution, ToldProgress, ToldEvent, Ends
  <2>2. QED
    BY <1>1, <1>2, <1>7, <2>1 DEF WorkTold
<1>9. JobFits'
  BY <1>1, <1>7 DEF JobFits
<1>10. ASSUME ~overlapped
       PROVE  Alone' /\ WorkFits' /\ Fits(SnapshotOf(progress), p)
  <2>1. Alone /\ WorkFits
    BY <1>10 DEF StreamInv
  <2>2. Alone'
    BY <1>1, <2>1 DEF Alone
  <2>3. \A v \in Executions : exec[v].pc = "idle" /\ exec[v].inflight = None
    BY <1>1, <2>1, JobIs DEF Alone, WorkFits, Works, JobFits
  <2>4. WorkFits'
    BY <1>1, <1>7, <2>3 DEF WorkFits, Works
  <2>5. SnapshotOf(progress).seq <= cleanup.base.seq /\ SnapshotOf(progress).status # "failed"
        /\ SnapshotOf(progress).seq \in Nat
    BY <1>1, <2>1, StoreFields, ToldFields DEF WorkFits, StreamInv
  <2>6. SnapshotOf(progress).seq < e.seq
    BY <1>4, <1>6, <2>5
  <2>7. Fits(SnapshotOf(progress), p)
    BY <1>4, <1>5, <1>6, <2>5, <2>6 DEF Fits
  <2>8. QED
    BY <2>2, <2>4, <2>7
<1>11. CASE Store(p)
  BY <1>1, <1>5, <1>8, <1>9, <1>10, <1>11, StoreStep
<1>12. CASE UNCHANGED <<progress, stream>>
  <2>1. UNCHANGED <<progress, stream, api, wire, reading>>
    BY <1>1, <1>12
  <2>2. QED
    BY <1>1, <1>8, <1>9, <1>10, <2>1, WorkMoves
<1>13. QED
  BY <1>2, <1>11, <1>12

(***************************************************************************)
(* The stream: the observation and the page                                *)
(***************************************************************************)

LEMMA PositionNat == ASSUME NEW p \in ToldProgress PROVE Position(p) \in Nat
BY ProgressFields, ToldFields, EventFields DEF Position

\* Who has as many ahead as another is the other.
LEMMA AheadProperties ==
  ASSUME NEW b \in Seq(ToldProgress), NEW i \in 1..Len(b), NEW j \in 1..Len(b)
  PROVE  /\ Cardinality(Ahead(b, i)) \in 0..(Len(b) - 1)
         /\ Cardinality(Ahead(b, i)) = Cardinality(Ahead(b, j)) => i = j
<1>1. /\ Len(b) \in Nat /\ DOMAIN b = 1..Len(b)
      /\ \A k \in 1..Len(b) : Position(b[k]) \in Nat
  BY LenProperties, ElementOfSeq, PositionNat
<1>2. IsFiniteSet(1..Len(b)) /\ Cardinality(1..Len(b)) = Len(b)
  <2>1. 1 \in Int /\ Len(b) \in Int /\ (1 > Len(b) => Len(b) = 0)
    BY <1>1
  <2>2. IsFiniteSet(1..Len(b)) /\ Cardinality(1..Len(b)) = IF 1 > Len(b) THEN 0 ELSE Len(b) - 1 + 1
    BY <2>1, FS_Interval
  <2>3. QED
    BY <1>1, <2>1, <2>2
<1>3. \A k \in 1..Len(b) : Ahead(b, k) \in SUBSET (1..Len(b)) /\ k \notin Ahead(b, k)
  BY <1>1 DEF Ahead
<1>4. \A k \in 1..Len(b) : IsFiniteSet(Ahead(b, k)) /\ Cardinality(Ahead(b, k)) \in Nat
                           /\ Cardinality(Ahead(b, k)) < Len(b)
  <2>1. TAKE k \in 1..Len(b)
  <2>2. IsFiniteSet(Ahead(b, k)) /\ Cardinality(Ahead(b, k)) <= Len(b)
        /\ (Cardinality(Ahead(b, k)) = Len(b) => Ahead(b, k) = 1..Len(b))
    BY <1>2, <1>3, FS_Subset
  <2>3. Cardinality(Ahead(b, k)) \in Nat
    BY <2>2, FS_CardinalityType
  <2>4. Cardinality(Ahead(b, k)) # Len(b)
    BY <1>3, <2>2
  <2>5. QED
    BY <1>1, <2>2, <2>3, <2>4
<1>5. ASSUME NEW k \in 1..Len(b), NEW m \in 1..Len(b), k \in Ahead(b, m)
      PROVE  Cardinality(Ahead(b, k)) < Cardinality(Ahead(b, m))
  <2>1. Ahead(b, k) \in SUBSET Ahead(b, m)
    BY <1>1, <1>5 DEF Ahead
  <2>2. Cardinality(Ahead(b, k)) <= Cardinality(Ahead(b, m))
        /\ (Cardinality(Ahead(b, m)) = Cardinality(Ahead(b, k)) => Ahead(b, m) = Ahead(b, k))
    BY <1>4, <2>1, FS_Subset
  <2>3. Ahead(b, m) # Ahead(b, k)
    BY <1>3, <1>5
  <2>4. QED
    BY <1>4, <2>2, <2>3
<1>6. i # j => i \in Ahead(b, j) \/ j \in Ahead(b, i)
  BY <1>1 DEF Ahead
<1>7. i # j => Cardinality(Ahead(b, i)) # Cardinality(Ahead(b, j))
  <2>1. Cardinality(Ahead(b, i)) \in Nat /\ Cardinality(Ahead(b, j)) \in Nat
    BY <1>4
  <2>2. i # j => \/ Cardinality(Ahead(b, i)) < Cardinality(Ahead(b, j))
                 \/ Cardinality(Ahead(b, j)) < Cardinality(Ahead(b, i))
    BY <1>5, <1>6
  <2>3. QED
    BY <2>1, <2>2
<1>8. Cardinality(Ahead(b, i)) \in 0..(Len(b) - 1)
  BY <1>1, <1>4
<1>9. QED
  BY <1>7, <1>8

\* Sorting keeps what is sorted.
LEMMA SortedTyped ==
  ASSUME NEW b \in Seq(ToldProgress)
  PROVE  /\ Sorted(b) \in Seq(ToldProgress) /\ Len(Sorted(b)) = Len(b)
<1> DEFINE D == 1..Len(b)
           T == 0..(Len(b) - 1)
           f == [i \in D |-> Cardinality(Ahead(b, i))]
<1>1. Len(b) \in Nat /\ DOMAIN b = D
  BY LenProperties
<1>2. f \in [D -> T] /\ \A i, j \in D : f[i] = f[j] => i = j
  BY AheadProperties
<1>3. f \in Injection(D, T)
  BY <1>2 DEF Injection, IsInjective
<1>4. IsFiniteSet(D) /\ Cardinality(D) = Len(b) /\ IsFiniteSet(T) /\ Cardinality(T) = Len(b)
  <2>1. 0 > Len(b) - 1 => Len(b) = 0
    BY <1>1
  <2>2. 1 > Len(b) => Len(b) = 0
    BY <1>1
  <2>3. IsFiniteSet(1..Len(b)) /\ Cardinality(1..Len(b)) = IF 1 > Len(b) THEN 0 ELSE Len(b) - 1 + 1
    BY <1>1, FS_Interval
  <2>4. /\ IsFiniteSet(0..(Len(b) - 1))
        /\ Cardinality(0..(Len(b) - 1)) = IF 0 > Len(b) - 1 THEN 0 ELSE (Len(b) - 1) - 0 + 1
    <3>1. 0 \in Int /\ Len(b) - 1 \in Int
      BY <1>1
    <3>2. QED
      BY <3>1, FS_Interval
  <2>5. QED
    BY <1>1, <2>1, <2>2, <2>3, <2>4
<1>5. f \in Surjection(D, T)
  BY <1>3, <1>4, FS_Injection
<1>6. \A k \in D : \E i \in D : Cardinality(Ahead(b, i)) = k - 1
  <2>1. TAKE k \in D
  <2>2. k - 1 \in T
    BY <1>1
  <2>3. QED
    BY <1>5, <2>2 DEF Surjection
<1>7. \A k \in D : (CHOOSE i \in D : Cardinality(Ahead(b, i)) = k - 1) \in D
  BY <1>6
<1>8. \A i \in D : b[i] \in ToldProgress
  BY ElementOfSeq
<1>9. Sorted(b) \in [D -> ToldProgress]
  BY <1>1, <1>7, <1>8 DEF Sorted
<1>10. QED
  BY <1>1, <1>9, SeqDef, LenProperties

\* What is in order stays as it is.
LEMMA SortedIs ==
  ASSUME NEW b \in Seq(ToldProgress),
         \A i, j \in 1..Len(b) : i <= j => Position(b[i]) <= Position(b[j])
  PROVE  Sorted(b) = b
<1>1. /\ Len(b) \in Nat /\ DOMAIN b = 1..Len(b) /\ b = [i \in 1..Len(b) |-> b[i]]
      /\ \A k \in 1..Len(b) : Position(b[k]) \in Nat
  BY LenProperties, ElementOfSeq, PositionNat
<1>2. ASSUME NEW i \in 1..Len(b) PROVE Ahead(b, i) = 1..(i - 1)
  <2>1. ASSUME NEW j \in 1..Len(b) PROVE j \in Ahead(b, i) <=> j < i
    <3>1. CASE j < i
      <4>1. Position(b[j]) <= Position(b[i]) /\ Position(b[j]) \in Nat /\ Position(b[i]) \in Nat
        BY <1>1, <3>1
      <4>2. QED
        BY <1>1, <3>1, <4>1 DEF Ahead
    <3>2. CASE ~(j < i)
      <4>1. Position(b[i]) <= Position(b[j]) /\ Position(b[j]) \in Nat /\ Position(b[i]) \in Nat
        BY <1>1, <3>2
      <4>2. QED
        BY <1>1, <3>2, <4>1 DEF Ahead
    <3>3. QED
      BY <3>1, <3>2
  <2>2. Ahead(b, i) \subseteq 1..Len(b)
    BY <1>1 DEF Ahead
  <2>3. \A j : j \in 1..(i - 1) <=> j \in 1..Len(b) /\ j < i
    BY <1>1
  <2>4. \A j : j \in Ahead(b, i) <=> j \in 1..(i - 1)
    BY <2>1, <2>2, <2>3
  <2>5. QED
    BY <2>4
<1>3. \A i \in 1..Len(b) : Cardinality(Ahead(b, i)) = i - 1
  <2>1. TAKE i \in 1..Len(b)
  <2>2. 1 \in Int /\ i - 1 \in Int
    BY <1>1
  <2>3. Cardinality(1..(i - 1)) = IF 1 > i - 1 THEN 0 ELSE (i - 1) - 1 + 1
    BY <2>2, FS_Interval
  <2>4. QED
    BY <1>1, <1>2, <2>3
<1>4. ASSUME NEW k \in 1..Len(b)
      PROVE  (CHOOSE i \in 1..Len(b) : Cardinality(Ahead(b, i)) = k - 1) = k
  <2>1. \A i \in 1..Len(b) : Cardinality(Ahead(b, i)) = k - 1 <=> i = k
    BY <1>1, <1>3
  <2>2. QED
    BY <2>1
<1>5. QED
  BY <1>1, <1>4 DEF Sorted

\* The observation and the page move, and the worker rests.
LEMMA PageStep ==
  ASSUME StreamInv, UNCHANGED <<worker, progress, stream, overlapped, cut>>, faults' \in 0..MaxFaults,
         PageTold', ReadingTold', Hidden', ~overlapped => Segment' /\ ViewFits'
  PROVE  StreamInv'
<1>1. /\ UNCHANGED session /\ UNCHANGED job /\ UNCHANGED exec /\ UNCHANGED cleanup
      /\ UNCHANGED progress /\ UNCHANGED stream /\ UNCHANGED overlapped /\ UNCHANGED cut
  BY DEF worker
<1>2. Told' = Told /\ Execution' = Execution /\ ToldProgress' = ToldProgress
  BY <1>1 DEF Told, Execution, ToldProgress, ToldEvent, Ends
<1>3. WorkTold'
  BY <1>1, <1>2 DEF StreamInv, WorkTold
<1>4. StoreTold' /\ JobFits'
  BY <1>1, <1>2 DEF StreamInv, StoreTold, JobFits
<1>5. ASSUME ~overlapped PROVE Alone' /\ WorkFits' /\ StreamFits'
  <2>1. Alone /\ WorkFits /\ StreamFits
    BY <1>5 DEF StreamInv
  <2>2. \A i : Snap(i)' = Snap(i)
    BY <1>1 DEF Snap
  <2>3. QED
    BY <1>1, <2>1, <2>2 DEF Alone, WorkFits, StreamFits
<1>6. QED
  BY <1>1, <1>3, <1>4, <1>5 DEF StreamInv

\* ... and the page reads on.
LEMMA ObserverStep ==
  ASSUME StreamInv, UNCHANGED <<worker, progress, stream, overlapped, cut>>, faults' \in 0..MaxFaults,
         UNCHANGED reading, shown \/ (wire' = <<>> /\ observer'.pc = "off"),
         PageTold', ~overlapped => Segment' /\ ViewFits'
  PROVE  StreamInv'
<1>1. UNCHANGED session /\ UNCHANGED stream
  BY DEF worker
<1>2. \A i \in 0..Len(stream) : i \in 0..Len(stream') /\ Snap(i)' = Snap(i)
  BY <1>1 DEF Snap
<1>3. ReadingTold'
  BY <1>1, <1>2, ReadingStays
<1>4. Hidden'
  BY DEF Hidden, StreamInv, reading
<1>5. QED
  BY <1>3, <1>4, PageStep

\* What a step of the reading does to the requests.
ReadingNext ==
  /\ claimed' \in BOOLEAN /\ known' \in ToldAnswer \cup {None}
  /\ \/ UNCHANGED asks
     \/ \E r \in Requests, q \in Requested : RequestTold(r, q) /\ asks' = [asks EXCEPT ![r] = q]

LEMMA ReadingIs ==
  ASSUME StreamInv, UNCHANGED <<worker, progress, stream>>, ReadingNext,
         shown' \in BOOLEAN, ahead' \in BOOLEAN, stale' \in BOOLEAN, stale' => view'.content # <<>>
  PROVE  ReadingTold'
<1>1. UNCHANGED session /\ UNCHANGED stream
  BY DEF worker
<1>2. ToldAnswer' = ToldAnswer /\ Requested' = Requested /\ \A i : Snap(i)' = Snap(i)
  BY <1>1 DEF ToldAnswer, Requested, Told, Ends, Snap
<1>3. asks \in [Requests -> Requested] /\ \A r \in Requests : RequestTold(r, asks[r])
  BY DEF StreamInv, ReadingTold
<1>4. asks' \in [Requests -> Requested] /\ \A r \in Requests : RequestTold(r, asks'[r])
  <2>1. CASE UNCHANGED asks
    BY <1>3, <2>1
  <2>2. CASE \E r \in Requests, q \in Requested : RequestTold(r, q) /\ asks' = [asks EXCEPT ![r] = q]
    <3>1. PICK r \in Requests, q \in Requested : RequestTold(r, q) /\ asks' = [asks EXCEPT ![r] = q]
      BY <2>2
    <3>2. asks'[r] = q /\ \A t \in Requests : t # r => asks'[t] = asks[t]
      BY <1>3, <3>1
    <3>3. asks' \in [Requests -> Requested]
      BY <1>3, <3>1
    <3>4. \A t \in Requests : RequestTold(t, asks'[t])
      BY <1>3, <3>1, <3>2
    <3>5. QED
      BY <3>3, <3>4
  <2>3. QED
    BY <2>1, <2>2 DEF ReadingNext
<1>5. ASSUME NEW r \in Requests PROVE RequestTold(r, asks[r])'
  <2>1. RequestTold(r, asks'[r])
    BY <1>4
  <2>2. QED
    BY <1>1, <1>2, <2>1 DEF RequestTold
<1>6. QED
  BY <1>2, <1>4, <1>5 DEF ReadingTold, ReadingNext

\* The numbers of what was read, taken and kept.
LEMMA Lengths ==
  ASSUME NEW c \in Nat, NEW a \in Nat, NEW b \in Nat, NEW d \in Nat, d = c - a - b
  PROVE  /\ d + a + b = c /\ d + a + (b + 1) = c + 1 /\ (c + 1) - a - (b + 1) = d
         /\ a \in Nat \ {0} => c - (a - 1) - b = d + 1
OBVIOUS

LEMMA Minus == \A n \in Nat : n - 0 - 0 = n
OBVIOUS

Observers(P) == [pc: {"off", "listening", "open"}, buffered: Seq(P), pending: Seq(P), last: Nat]

\* What the prover needs of a step of the observation.
LEMMA PageFields ==
  ASSUME StreamInv, UNCHANGED <<worker, progress, stream>>
  PROVE  /\ UNCHANGED stream /\ UNCHANGED progress /\ UNCHANGED session
         /\ ToldProgress' = ToldProgress /\ ToldMessage' = ToldMessage /\ Told' = Told
         /\ \A i : Snap(i)' = Snap(i)
         /\ Len(stream) \in Nat /\ cursor \in 0..Len(stream)
         /\ observer \in Observers(ToldProgress) /\ wire \in Seq(ToldMessage) /\ view \in Told
         /\ Len(wire) \in Nat /\ Len(observer.pending) \in Nat /\ Len(observer.buffered) \in Nat
         /\ (cursor' \in 0..Len(stream) /\ observer' \in Observers(ToldProgress)
               /\ wire' \in Seq(ToldMessage) /\ view' \in Told => PageTold')
<1>1. UNCHANGED session /\ UNCHANGED stream /\ UNCHANGED progress
  BY DEF worker
<1>2. ToldProgress' = ToldProgress /\ ToldMessage' = ToldMessage /\ Told' = Told
  BY <1>1 DEF ToldProgress, ToldMessage, ToldEvent, Told, Ends
<1>3. \A i : Snap(i)' = Snap(i)
  BY <1>1 DEF Snap
<1>4. /\ cursor \in 0..Len(stream) /\ observer \in Observers(ToldProgress) /\ wire \in Seq(ToldMessage)
      /\ view \in Told
  BY DEF StreamInv, PageTold, Observers
<1>5. Len(wire) \in Nat /\ Len(observer.pending) \in Nat /\ Len(observer.buffered) \in Nat
  BY <1>4, LenProperties DEF Observers
<1>6. Len(stream) \in Nat
  BY StoreFields DEF StreamInv
<1>7. cursor' \in 0..Len(stream) /\ observer' \in Observers(ToldProgress)
               /\ wire' \in Seq(ToldMessage) /\ view' \in Told => PageTold'
  BY <1>1, <1>2 DEF PageTold, Observers
<1>8. QED
  BY <1>1, <1>2, <1>3, <1>4, <1>5, <1>6, <1>7

\* The displays that the view and the messages on the wire show, by what they do.
LEMMA ShowsIs ==
  ASSUME StreamInv, NEW at \in [0..Len(wire) -> 0..Len(stream)], Shows(at)
  PROVE  /\ Stands(at[0]) /\ at[0] \in 0..Len(stream) /\ at[Len(wire)] \in 0..Len(stream)
         /\ \A k \in 1..Len(wire) : /\ Carries(wire[k], at[k - 1], at[k])
                                    /\ at[k - 1] \in 0..Len(stream) /\ at[k] \in 0..Len(stream)
<1>1. Len(wire) \in Nat
  BY LenProperties DEF StreamInv, PageTold
<1>2. QED
  BY <1>1 DEF Shows

\* The page and its connection stay as they are.
LEMMA ViewRests ==
  ASSUME StreamInv, ~overlapped, UNCHANGED <<worker, progress, stream>>, UNCHANGED wire, UNCHANGED view,
         UNCHANGED ahead, UNCHANGED stale,
         view.status = "failed" /\ observer.pc = "off" => observer'.pc = "off",
         observer'.pc = "open" => observer.pc = "open" /\ observer'.last = observer.last /\ Begins' = Begins
  PROVE  ViewFits'
<1>1. CASE view.status = "failed" /\ wire = <<>> /\ observer.pc = "off"
  BY <1>1 DEF ViewFits
<1>2. CASE \E at \in [0..Len(wire) -> 0..Len(stream)] : Shows(at)
  <2>1. PICK at \in [0..Len(wire) -> 0..Len(stream)] : Shows(at)
    BY <1>2
  <2>2. Shows(at)'
    <3>1. Stands(at[0])'
      BY <2>1, PageFields, StandsStays DEF Shows
    <3>2. QED
      BY <2>1, <3>1, PageFields DEF Shows, Carries
  <2>3. at \in [0..Len(wire') -> 0..Len(stream')]
    BY PageFields
  <2>4. QED
    BY <2>2, <2>3 DEF ViewFits
<1>3. QED
  BY <1>1, <1>2 DEF StreamInv, ViewFits

\* The displays that the view may stand for.
ViewIs(v) ==
  view.seq = Snap(v).seq /\ view.status = Snap(v).status /\ (~stale => view = Snap(v))

LEMMA ViewStands ==
  ASSUME StreamInv, ~overlapped
  PROVE  view.status = "failed" \/ \E v \in 0..Len(stream) : ViewIs(v)
<1>1. CASE view.status = "failed" /\ wire = <<>> /\ observer.pc = "off"
  BY <1>1
<1>2. CASE \E at \in [0..Len(wire) -> 0..Len(stream)] : Shows(at)
  BY <1>2, ShowsIs DEF Stands, ViewIs
<1>3. QED
  BY <1>1, <1>2 DEF StreamInv, ViewFits

\* A connection is given up, and the view is some display.
LEMMA GivenUp ==
  ASSUME StreamInv, UNCHANGED <<worker, progress, stream, overlapped, cut>>,
         cursor' \in 0..Len(stream), GiveUp, faults' \in 0..MaxFaults,
         view' \in Told, ahead' = FALSE, ReadingTold', ~shown' => view' = Queued,
         ~overlapped => view'.status = "failed" \/ \E v \in 0..Len(stream) : ViewIs(v)'
  PROVE  StreamInv'
<1>1. /\ UNCHANGED <<worker, progress, stream, overlapped, cut>> /\ UNCHANGED <<worker, progress, stream>>
      /\ observer' = Off /\ wire' = <<>>
  BY DEF GiveUp
<1>2. Off \in Observers(ToldProgress)
  BY EmptySeq DEF Off, Observers
<1>3. PageTold'
  BY <1>1, <1>2, EmptySeq, PageFields
<1>4. Len(<<>>) = 0 /\ Off.pc = "off" /\ Off.pending = <<>> /\ Off.buffered = <<>> /\ Begins' = cursor'
  <2>1. Len(<<>>) = 0
    BY EmptySeq
  <2>2. Off.pc = "off" /\ Off.pending = <<>> /\ Off.buffered = <<>>
    BY DEF Off
  <2>3. cursor' \in Nat
    BY <1>1, PageFields
  <2>4. Len(observer'.pending) = 0 /\ Len(observer'.buffered) = 0
    BY <1>1, <2>1, <2>2
  <2>5. Begins' = cursor'
    <3>1. PICK c \in Nat : c = cursor'
      BY <2>3
    <3>2. Begins' = c - 0 - 0
      BY <2>4, <3>1 DEF Begins
    <3>3. c \in Nat
      BY <3>1
    <3>4. c - 0 - 0 = c
      BY <3>3, Minus, Zenon
    <3>5. QED
      BY <3>1, <3>2, <3>4, Zenon
  <2>6. QED
    BY <2>1, <2>2, <2>5
<1>5. Segment'
  BY <1>1, <1>4 DEF Segment
<1>6. ASSUME ~overlapped PROVE ViewFits'
  <2>1. CASE view'.status = "failed"
    BY <1>1, <1>4, <2>1 DEF ViewFits
  <2>2. CASE \E v \in 0..Len(stream) : ViewIs(v)'
    <3>1. PICK v \in 0..Len(stream) : ViewIs(v)'
      BY <2>2
    <3> DEFINE f == [k \in 0..0 |-> v]
    <3>2. f \in [0..Len(wire') -> 0..Len(stream')] /\ f[0] = v /\ Len(wire') = 0
      BY <1>1, <1>4, PageFields
    <3> HIDE DEF f
    <3>3. Stands(v)'
      <4>1. v \in 0..Len(stream') /\ v <= v
        BY <1>1, PageFields
      <4>2. QED
        BY <3>1, <4>1 DEF Stands, ViewIs
    <3>4. Shows(f)'
      BY <1>1, <1>4, <3>2, <3>3, PageFields DEF Shows
    <3>5. QED
      BY <3>2, <3>4 DEF ViewFits
  <2>3. QED
    BY <1>6, <2>1, <2>2
<1>7. Hidden'
  BY <1>1, <1>4 DEF Hidden
<1>8. QED
  BY <1>1, <1>3, <1>5, <1>6, <1>7, PageStep

\* The connection is lost, and the page shows what it showed.
LEMMA ConnectionLost ==
  ASSUME StreamInv, UNCHANGED <<worker, progress, stream, view, shown, claimed, asks, known, stale,
                                overlapped, cut>>,
         GiveUp, ahead' = FALSE, cursor' \in 0..Len(stream), faults' \in 0..MaxFaults
  PROVE  StreamInv'
<1>1. /\ UNCHANGED <<worker, progress, stream, overlapped, cut>> /\ UNCHANGED <<worker, progress, stream>>
      /\ UNCHANGED view /\ UNCHANGED shown /\ UNCHANGED claimed /\ UNCHANGED asks /\ UNCHANGED known
      /\ UNCHANGED stale
  OBVIOUS
<1>2. ReadingTold'
  <2>1. ReadingTold
    BY DEF StreamInv
  <2>2. ReadingNext
    BY <1>1, <2>1 DEF ReadingTold, ReadingNext
  <2>3. shown' \in BOOLEAN /\ stale' \in BOOLEAN
    BY <1>1, <2>1 DEF ReadingTold
  <2>4. ahead' \in BOOLEAN
    OBVIOUS
  <2>5. stale' => view'.content # <<>>
    BY <1>1, <2>1 DEF ReadingTold
  <2>6. QED
    BY <1>1, <2>2, <2>3, <2>4, <2>5, ReadingIs
<1>3. view' \in Told /\ (~shown' => view' = Queued)
  BY <1>1 DEF StreamInv, PageTold, Hidden
<1>4. ASSUME ~overlapped PROVE view'.status = "failed" \/ \E v \in 0..Len(stream) : ViewIs(v)'
  <2>1. \A v : ViewIs(v) => ViewIs(v)'
    BY <1>1, PageFields DEF ViewIs
  <2>2. QED
    BY <1>1, <1>4, <2>1, ViewStands
<1>5. QED
  BY <1>1, <1>2, <1>3, <1>4, GivenUp

LEMMA DisconnectStep == ASSUME StreamInv, Disconnect PROVE StreamInv'
<1>1. faults' \in 0..MaxFaults /\ cursor' \in 0..Len(stream)
  BY FailsFaults DEF Disconnect, StreamInv, PageTold
<1>2. QED
  BY <1>1, ConnectionLost DEF Disconnect

LEMMA ApiRestartStep == ASSUME StreamInv, ApiRestart PROVE StreamInv'
<1>1. faults' \in 0..MaxFaults /\ cursor' \in 0..Len(stream)
  BY FailsFaults, StoreFields DEF ApiRestart, StreamInv
<1>2. QED
  BY <1>1, ConnectionLost DEF ApiRestart

LEMMA ConnectStep == ASSUME StreamInv, Connect PROVE StreamInv'
<1>1. /\ observer.pc = "off" /\ wire = <<>> /\ view.status # "failed"
      /\ observer' = [Off EXCEPT !.pc = "listening"]
      /\ UNCHANGED <<worker, progress, stream, overlapped, cut>> /\ UNCHANGED <<worker, progress, stream>>
      /\ UNCHANGED cursor /\ UNCHANGED wire /\ UNCHANGED view /\ UNCHANGED ahead /\ UNCHANGED stale /\ UNCHANGED reading /\ UNCHANGED faults
      /\ shown
  BY DEF Connect, Terminal, reading
<1>2. observer' \in Observers(ToldProgress) /\ observer'.pc = "listening"
      /\ observer'.pending = <<>> /\ observer'.buffered = <<>>
  BY <1>1, EmptySeq DEF Off, Observers
<1>3. PageTold' /\ faults' \in 0..MaxFaults
  BY <1>1, <1>2, PageFields DEF StreamInv, WorkTold
<1>4. Begins' = cursor
  <2>1. Len(<<>>) = 0
    BY EmptySeq
  <2>2. QED
    BY <1>1, <1>2, <2>1, PageFields DEF Begins
<1>5. Segment'
  <2>1. Len(<<>>) = 0 /\ cursor \in Nat
    BY <1>1, EmptySeq, PageFields
  <2>2. QED
    BY <1>1, <1>2, <1>4, <2>1 DEF Segment
<1>6. ASSUME ~overlapped PROVE ViewFits'
  BY <1>1, <1>2, <1>6, ViewRests
<1>7. QED
  BY <1>1, <1>3, <1>5, <1>6, ObserverStep

LEMMA ObserverFields ==
  ASSUME NEW P, NEW o \in Observers(P)
  PROVE  /\ o.pc \in {"off", "listening", "open"} /\ o.buffered \in Seq(P) /\ o.pending \in Seq(P) /\ o.last \in Nat
         /\ Len(o.buffered) \in Nat /\ Len(o.pending) \in Nat
BY LenProperties DEF Observers

LEMMA DeliverStep == ASSUME StreamInv, Deliver PROVE StreamInv'
<1> DEFINE o == [observer EXCEPT !.buffered = Append(@, stream[cursor + 1])]
<1>1. /\ cursor < Len(stream) /\ cursor' = cursor + 1
      /\ observer' = IF observer.pc = "off" THEN observer ELSE o
      /\ UNCHANGED <<worker, progress, stream, overlapped, cut>> /\ UNCHANGED <<worker, progress, stream>>
      /\ UNCHANGED wire /\ UNCHANGED view /\ UNCHANGED ahead /\ UNCHANGED stale /\ UNCHANGED reading /\ UNCHANGED faults
      /\ (shown \/ (wire' = <<>> /\ observer.pc = "off"))
  BY DEF Deliver, reading, StreamInv, Hidden
<1>2. /\ cursor \in Nat /\ Len(stream) \in Nat /\ observer \in Observers(ToldProgress)
      /\ \A i \in 1..Len(stream) : stream[i] \in ToldProgress
      /\ observer.buffered \in Seq(ToldProgress) /\ observer.pending \in Seq(ToldProgress)
      /\ Len(observer.buffered) \in Nat /\ Len(observer.pending) \in Nat
  <2>1. observer \in Observers(ToldProgress) /\ cursor \in 0..Len(stream) /\ Len(stream) \in Nat
        /\ \A i \in 1..Len(stream) : stream[i] \in ToldProgress
    BY <1>1, PageFields, StoreFields DEF StreamInv
  <2>2. QED
    BY <2>1, ObserverFields
<1>3. cursor + 1 \in 1..Len(stream) /\ cursor' \in 0..Len(stream)
  BY <1>1, <1>2
<1> DEFINE q == Append(observer.buffered, stream[cursor + 1])
<1>4. /\ q \in Seq(ToldProgress) /\ Len(q) = Len(observer.buffered) + 1
      /\ q[Len(observer.buffered) + 1] = stream[cursor + 1]
      /\ \A k \in 1..Len(observer.buffered) : q[k] = observer.buffered[k]
  BY <1>2, <1>3, AppendProperties
<1> HIDE DEF q
<1>5. o \in Observers(ToldProgress) /\ o.pc = observer.pc /\ o.pending = observer.pending
      /\ o.buffered = q /\ o.last = observer.last
  BY <1>2, <1>4 DEF Observers, q
<1> HIDE DEF o
<1>6. PageTold' /\ faults' \in 0..MaxFaults
  BY <1>1, <1>2, <1>3, <1>5, PageFields DEF StreamInv, WorkTold
<1>7. CASE observer.pc = "off"
  <2>1. ASSUME ~overlapped PROVE Segment' /\ ViewFits'
    <3>1. Segment /\ observer.pending = <<>> /\ observer.buffered = <<>> /\ UNCHANGED observer
      BY <1>1, <1>7, <2>1 DEF StreamInv, Segment
    <3>2. Len(<<>>) = 0 /\ Begins' = cursor'
      <4>1. Len(<<>>) = 0 /\ cursor' \in Nat
        BY <1>1, <1>2, EmptySeq
      <4>2. QED
        BY <3>1, <4>1 DEF Begins
    <3>3. Segment'
      <4>1. Begins' \in Nat /\ observer' = observer /\ Len(observer.pending) = 0 /\ Len(observer.buffered) = 0
        BY <1>1, <1>2, <3>1, <3>2
      <4>2. QED
        BY <1>7, <3>1, <4>1 DEF Segment
    <3>4. ViewFits'
      BY <1>1, <1>7, <2>1, <3>1, ViewRests
    <3>5. QED
      BY <3>3, <3>4
  <2>2. QED
    BY <1>1, <1>6, <1>7, <2>1, ObserverStep
<1>8. CASE observer.pc # "off"
  <2>1. observer' = o
    BY <1>1, <1>8
  <2>2. ASSUME ~overlapped PROVE Segment' /\ ViewFits'
    <3>1. Segment
      BY <2>2 DEF StreamInv
    <3>2. Begins' = Begins /\ Begins \in Nat
      <4>1. Len(observer'.pending) = Len(observer.pending) /\ Len(observer'.buffered) = Len(observer.buffered) + 1
        BY <1>4, <1>5, <2>1
      <4>2. Begins \in Nat
        BY <3>1 DEF Segment
      <4>3. Begins' = (cursor + 1) - Len(observer.pending) - (Len(observer.buffered) + 1)
        BY <1>1, <4>1 DEF Begins
      <4>4. Begins = cursor - Len(observer.pending) - Len(observer.buffered)
        BY DEF Begins
      <4>5. (cursor + 1) - Len(observer.pending) - (Len(observer.buffered) + 1) = Begins
        BY <1>2, <4>2, <4>4, Lengths
      <4>6. QED
        BY <4>2, <4>3, <4>5
    <3>3. ASSUME NEW k \in 1..Len(q) PROVE q[k] = stream[Begins + Len(observer.pending) + k]
      <4>1. CASE k \in 1..Len(observer.buffered)
        BY <1>4, <3>1, <4>1 DEF Segment
      <4>2. CASE k = Len(observer.buffered) + 1
        <5>1. Begins + Len(observer.pending) + k = cursor + 1
          <6>1. Begins = cursor - Len(observer.pending) - Len(observer.buffered)
            BY DEF Begins
          <6>0. Begins \in Nat /\ cursor \in Nat /\ Len(observer.pending) \in Nat
                /\ Len(observer.buffered) \in Nat
            BY <1>2, <3>2
          <6>2. Begins + Len(observer.pending) + (Len(observer.buffered) + 1) = cursor + 1
            <7>1. PICK c \in Nat, a \in Nat, b \in Nat, d \in Nat :
                    c = cursor /\ a = Len(observer.pending) /\ b = Len(observer.buffered) /\ d = Begins
              BY <6>0
            <7>2. d = c - a - b
              BY <6>1, <7>1, Zenon
            <7>3. d + a + (b + 1) = c + 1
              BY <7>2, Lengths
            <7>4. QED
              BY <7>1, <7>3, Zenon
          <6>3. QED
            BY <4>2, <6>2
        <5>2. QED
          BY <1>4, <4>2, <5>1
      <4>3. QED
        BY <1>2, <1>4, <4>1, <4>2
    <3>4. Segment'
      <4>1. observer'.pc = observer.pc /\ observer'.pending = observer.pending /\ observer'.buffered = q
        BY <1>5, <2>1
      <4>2. \A k \in 1..Len(observer.pending) : observer.pending[k] = stream[Begins + k]
        BY <3>1 DEF Segment
      <4>3. observer.pc = "listening" => observer.pending = <<>> /\ wire = <<>>
        BY <3>1 DEF Segment
      <4>4. QED
        BY <1>1, <1>8, <3>2, <3>3, <4>1, <4>2, <4>3 DEF Segment
    <3>5. ViewFits'
      BY <1>1, <1>5, <1>8, <2>1, <2>2, <3>2, ViewRests
    <3>6. QED
      BY <3>4, <3>5
  <2>3. QED
    BY <1>1, <1>6, <1>8, <2>2, ObserverStep
<1>9. QED
  BY <1>7, <1>8

\* What is published stands in the order of its numbers.
LEMMA PositionIs ==
  ASSUME StreamInv, ~overlapped
  PROVE  /\ \A i \in 1..Len(stream) : Position(stream[i]) = Snap(i).seq /\ stream[i].snapshot = Snap(i)
         /\ \A i, j \in 1..Len(stream) : i <= j => Position(stream[i]) <= Position(stream[j])
<1>1. StreamFits /\ Len(stream) \in Nat
  BY StoreFields DEF StreamInv
<1>2. ASSUME NEW i \in 1..Len(stream) PROVE Position(stream[i]) = Snap(i).seq /\ stream[i].snapshot = Snap(i)
  <2>1. Fits(Snap(i - 1), stream[i]) /\ Snap(i) = stream[i].snapshot
    BY <1>1 DEF StreamFits, Snap
  <2>2. CASE stream[i].event = None
    BY <2>1, <2>2 DEF Position
  <2>3. CASE stream[i].event # None
    BY <2>1, <2>3 DEF Position, Fits
  <2>4. QED
    BY <2>1, <2>2, <2>3
<1>3. \A i, j \in 1..Len(stream) : i <= j => Snap(i).seq <= Snap(j).seq
  BY <1>1 DEF StreamFits
<1>4. QED
  BY <1>2, <1>3

LEMMA DrainStep == ASSUME StreamInv, Drain PROVE StreamInv'
<1> DEFINE q == Sorted(observer.buffered)
           o == [[observer EXCEPT !.pending = q] EXCEPT !.buffered = <<>>]
<1>1. /\ observer.pc = "open" /\ observer.pending = <<>> /\ observer' = o
      /\ UNCHANGED <<worker, progress, stream, overlapped, cut>> /\ UNCHANGED <<worker, progress, stream>>
      /\ UNCHANGED wire /\ UNCHANGED view /\ UNCHANGED ahead /\ UNCHANGED stale /\ UNCHANGED reading /\ UNCHANGED faults
      /\ UNCHANGED cursor /\ shown
  BY DEF Drain, reading, StreamInv, Hidden
<1>2. /\ observer \in Observers(ToldProgress) /\ observer.buffered \in Seq(ToldProgress)
      /\ Len(observer.buffered) \in Nat /\ cursor \in 0..Len(stream) /\ Len(stream) \in Nat
  BY <1>1, PageFields, ObserverFields
<1>3. q \in Seq(ToldProgress) /\ Len(q) = Len(observer.buffered) /\ Len(<<>>) = 0 /\ <<>> \in Seq(ToldProgress)
  BY <1>2, SortedTyped, EmptySeq
<1>4. ~overlapped => q = observer.buffered
  <2>1. SUFFICES ASSUME ~overlapped PROVE q = observer.buffered
    OBVIOUS
  <2>2. Segment
    BY <2>1 DEF StreamInv
  <2>3. Begins \in Nat /\ Begins + Len(observer.buffered) = cursor
    BY <1>1, <1>2, <1>3, <2>2 DEF Segment, Begins
  <2>4. \A k \in 1..Len(observer.buffered) : /\ observer.buffered[k] = stream[Begins + k]
                                            /\ Begins + k \in 1..Len(stream)
    <3>1. TAKE k \in 1..Len(observer.buffered)
    <3>2. Begins + k \in 1..Len(stream)
      BY <1>2, <2>3
    <3>3. observer.buffered[k] = stream[Begins + Len(observer.pending) + k]
      BY <2>2 DEF Segment
    <3>4. QED
      BY <1>1, <1>2, <1>3, <2>3, <3>2, <3>3
  <2>5. \A i, j \in 1..Len(observer.buffered) : i <= j => Position(observer.buffered[i]) <= Position(observer.buffered[j])
    <3>1. TAKE i, j \in 1..Len(observer.buffered)
    <3>2. i <= j => Begins + i <= Begins + j
      BY <1>2, <2>3
    <3>3. QED
      BY <2>1, <2>4, <3>2, PositionIs
  <2>6. QED
    BY <1>2, <2>5, SortedIs
<1> HIDE DEF q
<1>5. /\ o \in Observers(ToldProgress) /\ o.pc = "open" /\ o.pending = q /\ o.buffered = <<>>
      /\ o.last = observer.last
  BY <1>1, <1>2, <1>3 DEF Observers
<1> HIDE DEF o
<1>6. PageTold' /\ faults' \in 0..MaxFaults
  BY <1>1, <1>2, <1>5, PageFields DEF StreamInv, WorkTold
<1>7. ASSUME ~overlapped PROVE Segment' /\ ViewFits'
  <2>1. Segment /\ q = observer.buffered
    BY <1>4, <1>7 DEF StreamInv
  <2>2. Begins' = Begins
    BY <1>1, <1>2, <1>3, <1>5 DEF Begins
  <2>3. Segment'
    <3>1. \A k \in 1..Len(q) : q[k] = stream[Begins + k]
      <4>1. TAKE k \in 1..Len(q)
      <4>2. observer.buffered[k] = stream[Begins + Len(observer.pending) + k] /\ Begins \in Nat
        BY <2>1 DEF Segment
      <4>3. Begins + Len(observer.pending) + k = Begins + k
        BY <1>1, <1>3, <4>2
      <4>4. QED
        BY <2>1, <4>2, <4>3
    <3>2. QED
      BY <1>1, <1>3, <1>5, <2>1, <2>2, <3>1 DEF Segment
  <2>4. ViewFits'
    BY <1>1, <1>5, <1>7, <2>2, ViewRests
  <2>5. QED
    BY <2>3, <2>4
<1>8. QED
  BY <1>1, <1>6, <1>7, ObserverStep

\* A message is sent that takes the page to the y-th display.
LEMMA WireGrows ==
  ASSUME StreamInv, UNCHANGED <<worker, progress, stream>>, UNCHANGED view,
         UNCHANGED ahead, UNCHANGED stale, NEW at \in [0..Len(wire) -> 0..Len(stream)], Shows(at),
         NEW y \in 0..Len(stream), NEW m \in ToldMessage, Carries(m, at[Len(wire)], y),
         wire' = Append(wire, m),
         observer'.pc = "open" => Begins' <= y /\ observer'.last = Snap(y).seq
  PROVE  ViewFits'
<1> DEFINE n == Len(wire)
<1>1. n \in Nat /\ wire \in Seq(ToldMessage) /\ Len(stream) \in Nat /\ UNCHANGED stream
  BY PageFields
<1>2. /\ Len(wire') = n + 1 /\ wire'[n + 1] = m
      /\ \A k \in 1..n : wire'[k] = wire[k]
  BY <1>1, AppendProperties
<1>3. PICK z \in Nat : z = n
  BY <1>1
<1>4. PICK f \in [0..(z + 1) -> 0..Len(stream)] : (\A k \in 0..z : f[k] = at[k]) /\ f[z + 1] = y
  <2> DEFINE g == [k \in 0..(z + 1) |-> IF k = z + 1 THEN y ELSE at[k]]
  <2>1. g \in [0..(z + 1) -> 0..Len(stream)] /\ (\A k \in 0..z : g[k] = at[k]) /\ g[z + 1] = y
    BY <1>1, <1>3
  <2>2. QED
    BY <2>1
<1> HIDE DEF n
<1>5. ASSUME NEW k \in 1..(z + 1) PROVE Carries(wire[k], f[k - 1], f[k])'
  <2>1. CASE k = z + 1
    <3>1. k - 1 = z /\ z \in 0..z
      BY <1>3, <2>1
    <3>2. f[k - 1] = at[z] /\ f[k] = y /\ wire'[k] = m
      BY <1>2, <1>3, <1>4, <2>1, <3>1
    <3>3. Carries(m, at[z], y)
      BY <1>3 DEF n
    <3>4. QED
      BY <3>2, <3>3, PageFields DEF Carries
  <2>2. CASE k \in 1..z
    <3>1. k - 1 \in 0..z /\ k \in 0..z
      BY <1>3, <2>2
    <3>2. f[k - 1] = at[k - 1] /\ f[k] = at[k] /\ wire'[k] = wire[k]
      BY <1>2, <1>3, <1>4, <2>2, <3>1
    <3>3. Carries(wire[k], at[k - 1], at[k])
      BY <1>3, <2>2, ShowsIs DEF n
    <3>4. QED
      BY <3>2, <3>3, PageFields DEF Carries
  <2>3. z \in Nat
    BY <1>3
  <2>4. k = z + 1 \/ k \in 1..z
    BY <2>3
  <2>5. QED
    BY <2>1, <2>2, <2>4
<1>6. Stands(f[0])'
  <2>1. 0 \in 0..z
    BY <1>3
  <2>2. Stands(at[0])'
    BY PageFields, ShowsIs, StandsStays
  <2>3. QED
    BY <1>4, <2>1, <2>2
<1>7. Len(wire') = z + 1
  BY <1>2, <1>3
<1>8. Shows(f)'
  BY <1>4, <1>5, <1>6, <1>7, PageFields DEF Shows
<1>9. f \in [0..Len(wire') -> 0..Len(stream')]
  BY <1>1, <1>4, <1>7
<1>10. QED
  BY <1>8, <1>9 DEF ViewFits

LEMMA ReadSnapshotStep == ASSUME StreamInv, ReadSnapshot PROVE StreamInv'
<1> DEFINE s == SnapshotOf(progress)
           m == [type |-> "run_snapshot", snapshot |-> s]
           o == [[observer EXCEPT !.pc = "open"] EXCEPT !.last = s.seq]
<1>1. /\ observer.pc = "listening" /\ wire' = Append(wire, m)
      /\ observer' = Off \/ observer' = o
      /\ UNCHANGED <<worker, progress, stream, overlapped, cut>> /\ UNCHANGED <<worker, progress, stream>>
      /\ UNCHANGED view /\ UNCHANGED ahead /\ UNCHANGED stale /\ UNCHANGED reading /\ UNCHANGED faults
      /\ UNCHANGED cursor /\ shown
  BY DEF ReadSnapshot, reading, StreamInv, Hidden
<1>2. s \in Told /\ s.seq \in Nat /\ s = Snap(Len(stream))
  BY StoreFields, ToldFields DEF StreamInv
<1>3. m \in ToldMessage /\ m.type = "run_snapshot" /\ m.snapshot = s
  BY <1>2 DEF ToldMessage
<1> HIDE DEF s
<1>4. observer \in Observers(ToldProgress) /\ wire \in Seq(ToldMessage) /\ Len(stream) \in Nat
      /\ cursor \in 0..Len(stream)
  BY <1>1, PageFields
<1>5. o \in Observers(ToldProgress) /\ o.pc = "open" /\ o.pending = observer.pending
      /\ o.buffered = observer.buffered /\ o.last = s.seq
  BY <1>2, <1>4 DEF Observers
<1> HIDE DEF o, m
<1>6. /\ Off \in Observers(ToldProgress) /\ Off.pc = "off" /\ Off.pending = <<>> /\ Off.buffered = <<>>
      /\ Len(<<>>) = 0
  BY EmptySeq DEF Off, Observers
<1>7. wire' \in Seq(ToldMessage)
  BY <1>1, <1>3, <1>4, AppendProperties
<1>8. PageTold' /\ faults' \in 0..MaxFaults
  BY <1>1, <1>4, <1>5, <1>6, <1>7, PageFields DEF StreamInv, WorkTold
<1>9. ASSUME ~overlapped PROVE Segment' /\ ViewFits'
  <2>1. Segment /\ ViewFits /\ observer.pending = <<>> /\ wire = <<>> /\ Begins \in Nat
    BY <1>1, <1>9 DEF StreamInv, Segment
  <2>2. observer' = o => Begins' = Begins
    BY <1>1, <1>5 DEF Begins
  <2>3. observer' = Off => Begins' = cursor
    <3>1. observer' = Off => Begins' = cursor - 0 - 0
      BY <1>1, <1>6 DEF Begins
    <3>2. cursor \in Nat
      BY <1>4
    <3>3. cursor - 0 - 0 = cursor
      BY <3>2, Minus, Zenon
    <3>4. QED
      BY <3>1, <3>3
  <2>4. Segment'
    <3>1. CASE observer' = o
      <4>1. /\ observer'.pc = "open" /\ observer'.pending = observer.pending
            /\ observer'.buffered = observer.buffered
        BY <1>5, <3>1
      <4>2. QED
        BY <1>1, <2>1, <2>2, <3>1, <4>1 DEF Segment
    <3>2. CASE observer' = Off
      <4>1. Begins' \in Nat
        BY <1>4, <2>3, <3>2
      <4>2. QED
        BY <1>6, <3>2, <4>1 DEF Segment
    <3>3. QED
      BY <1>1, <3>1, <3>2
  <2>5. PICK at \in [0..Len(wire) -> 0..Len(stream)] : Shows(at)
    BY <1>1, <2>1 DEF ViewFits
  <2>6. at[Len(wire)] \in 0..Len(stream)
    BY <2>5, ShowsIs
  <2>7. Len(stream) \in 0..Len(stream) /\ at[Len(wire)] <= Len(stream)
    BY <1>4, <2>6
  <2>8. Carries(m, at[Len(wire)], Len(stream))
    BY <1>2, <1>3, <2>7 DEF Carries, m
  <2>9. observer'.pc = "open" => Begins' <= Len(stream) /\ observer'.last = Snap(Len(stream)).seq
    <3>1. observer'.pc = "open" => observer' = o
      BY <1>1, <1>6
    <3>2. Begins <= Len(stream)
      <4>1. PICK c \in Nat, a \in Nat, b \in Nat, d \in Nat :
              c = cursor /\ a = Len(observer.pending) /\ b = Len(observer.buffered) /\ d = Begins
        <5>1. cursor \in Nat /\ Len(observer.pending) \in Nat /\ Len(observer.buffered) \in Nat
              /\ Begins \in Nat
          BY <1>1, <1>4, <2>1, PageFields
        <5>2. QED
          BY <5>1
      <4>2. d = c - a - b
        BY <4>1, Zenon DEF Begins
      <4>3. d + a + b = c
        BY <4>2, Lengths
      <4>4. d <= c
        BY <4>3
      <4>5. c <= Len(stream)
        BY <1>4, <4>1
      <4>6. d <= Len(stream)
        BY <1>4, <4>4, <4>5
      <4>7. QED
        BY <4>1, <4>6, Zenon
    <3>3. QED
      BY <1>2, <1>5, <2>2, <3>1, <3>2
  <2>10. ViewFits'
    BY <1>1, <1>3, <2>5, <2>7, <2>8, <2>9, WireGrows
  <2>11. QED
    BY <2>4, <2>10
<1>10. QED
  BY <1>1, <1>8, <1>9, ObserverStep

\* What the first of the pending does to the page.
LEMMA HeadIs ==
  ASSUME StreamInv, ~overlapped, observer.pc = "open", observer.pending # <<>>,
         UNCHANGED <<worker, progress, stream>>
  PROVE  \E i \in 1..Len(stream) :
           /\ i = Begins + 1 /\ Head(observer.pending) = stream[i]
           /\ \A at \in [0..Len(wire) -> 0..Len(stream)] : Shows(at) =>
                /\ ~Relevant(stream[i]) => i <= at[Len(wire)]
                /\ Relevant(stream[i]) =>
                     \E y \in 0..Len(stream) :
                       /\ Carries(MessageOf(stream[i]), at[Len(wire)], y)
                       /\ i <= y /\ Snap(y).seq = Position(stream[i])
<1>1. /\ Segment /\ StreamFits /\ Begins \in Nat /\ Len(stream) \in Nat /\ cursor \in 0..Len(stream)
      /\ observer.pending \in Seq(ToldProgress)
      /\ Len(observer.pending) \in Nat \ {0} /\ Len(observer.buffered) \in Nat
  <2>1. observer.pending \in Seq(ToldProgress) /\ Len(observer.buffered) \in Nat
    BY PageFields, ObserverFields
  <2>2. Len(observer.pending) \in Nat \ {0}
    BY <2>1, EmptySeq
  <2>3. cursor \in 0..Len(stream) /\ Len(stream) \in Nat
    BY PageFields
  <2>4. QED
    BY <2>1, <2>2, <2>3 DEF StreamInv, Segment
<1>2. Begins + 1 \in 1..Len(stream)
  <2>1. PICK c \in Nat, a \in Nat, b \in Nat, d \in Nat :
          c = cursor /\ a = Len(observer.pending) /\ b = Len(observer.buffered) /\ d = Begins
    <3>1. cursor \in Nat
      BY <1>1
    <3>2. QED
      BY <1>1, <3>1
  <2>2. d = c - a - b
    BY <2>1, Zenon DEF Begins
  <2>3. d + a + b = c
    BY <2>2, Lengths
  <2>4. a # 0 /\ c <= Len(stream)
    BY <1>1, <2>1
  <2>5. d + 1 \in 1..Len(stream)
    BY <1>1, <2>3, <2>4
  <2>6. QED
    BY <2>1, <2>5, Zenon
<1>3. PICK i \in 1..Len(stream) : i = Begins + 1
  BY <1>2
<1>4. Head(observer.pending) = stream[i]
  <2>1. 1 \in 1..Len(observer.pending)
    BY <1>1
  <2>2. observer.pending[1] = stream[Begins + 1]
    BY <1>1, <2>1 DEF Segment
  <2>3. Head(observer.pending) = observer.pending[1]
    BY <1>1
  <2>4. QED
    BY <1>3, <2>2, <2>3
<1> DEFINE p == stream[i]
<1>5. /\ Position(p) = Snap(i).seq /\ p.snapshot = Snap(i) /\ p \in ToldProgress
      /\ \A j \in 0..Len(stream) : Snap(j).seq \in Nat
      /\ Fits(Snap(i - 1), p)
  BY <1>1, PositionIs, StoreFields DEF StreamInv, StreamFits
<1>6. p.event # None => Snap(i - 1).seq < Snap(i).seq /\ p.event.seq = Snap(i).seq
  BY <1>5 DEF Fits
<1>7. p.event = None => Snap(i - 1).seq = Snap(i).seq
  BY <1>5 DEF Fits
<1>8. ASSUME NEW at \in [0..Len(wire) -> 0..Len(stream)], Shows(at)
      PROVE  /\ ~Relevant(p) => i <= at[Len(wire)]
             /\ Relevant(p) => \E y \in 0..Len(stream) :
                                  /\ Carries(MessageOf(p), at[Len(wire)], y)
                                  /\ i <= y /\ Snap(y).seq = Position(p)
  <2>1. PICK z \in 0..Len(stream) : z = at[Len(wire)]
    BY <1>8, ShowsIs
  <2>2. Begins <= z /\ observer.last = Snap(z).seq
    BY <1>8, <2>1 DEF Shows
  <2>3. z = i - 1 \/ i <= z
    <3>1. Begins = i - 1
      BY <1>1, <1>3
    <3>2. i - 1 <= z
      BY <2>2, <3>1
    <3>3. QED
      BY <1>1, <3>2
  <2>4. Relevant(p) <=> IF p.event = None THEN Snap(i).seq >= Snap(z).seq ELSE Snap(i).seq > Snap(z).seq
    BY <1>5, <1>6, <2>2 DEF Relevant
  <2>5. Snap(i).seq \in Nat /\ Snap(z).seq \in Nat /\ i \in 0..Len(stream)
    BY <1>1, <1>5
  <2>6. CASE z = i - 1
    <3>1. Relevant(p)
      BY <1>6, <1>7, <2>4, <2>5, <2>6
    <3>2. Carries(MessageOf(p), z, i)
      BY <1>1, <1>5, <2>6 DEF Carries, MessageOf
    <3>3. QED
      BY <1>5, <2>1, <2>5, <3>1, <3>2
  <2>7. CASE i <= z
    <3>1. Snap(i).seq <= Snap(z).seq
      BY <1>1, <2>5, <2>7 DEF StreamFits
    <3>2. ASSUME Relevant(p) PROVE Carries(MessageOf(p), z, z) /\ Snap(z).seq = Position(p)
      <4>1. p.event = None /\ Snap(i).seq = Snap(z).seq
        BY <2>4, <2>5, <3>1, <3>2
      <4>2. z \in 1..Len(stream)
        BY <1>1, <2>7
      <4>3. Snap(i) = Snap(z)
        BY <1>1, <2>7, <4>1, <4>2 DEF StreamFits
      <4>4. QED
        BY <1>5, <4>1, <4>3 DEF Carries, MessageOf
    <3>3. QED
      BY <2>1, <2>7, <3>2
  <2>8. QED
    BY <2>3, <2>6, <2>7
<1>9. QED
  BY <1>3, <1>4, <1>8

LEMMA YieldStep == ASSUME StreamInv, Yield PROVE StreamInv'
<1> DEFINE p == Head(observer.pending)
           t == [observer EXCEPT !.pending = Tail(@)]
           o == [[observer EXCEPT !.pending = Tail(@)] EXCEPT !.last = Position(p)]
<1>1. /\ observer.pc = "open" /\ observer.pending # <<>>
      /\ UNCHANGED <<worker, progress, stream, overlapped, cut>> /\ UNCHANGED <<worker, progress, stream>>
      /\ UNCHANGED view /\ UNCHANGED ahead /\ UNCHANGED stale /\ UNCHANGED reading /\ UNCHANGED faults
      /\ UNCHANGED cursor /\ shown
      /\ \/ ~Relevant(p) /\ observer' = t /\ UNCHANGED wire
         \/ Relevant(p) /\ wire' = Append(wire, MessageOf(p)) /\ observer' \in {Off, o}
  BY DEF Yield, reading, StreamInv, Hidden
<1>2. /\ observer \in Observers(ToldProgress) /\ wire \in Seq(ToldMessage) /\ cursor \in 0..Len(stream)
      /\ Len(stream) \in Nat /\ observer.pending \in Seq(ToldProgress)
      /\ Len(observer.pending) \in Nat \ {0} /\ Len(observer.buffered) \in Nat
  <2>1. observer \in Observers(ToldProgress) /\ wire \in Seq(ToldMessage) /\ cursor \in 0..Len(stream)
        /\ Len(stream) \in Nat
    BY <1>1, PageFields
  <2>2. observer.pending \in Seq(ToldProgress) /\ Len(observer.buffered) \in Nat
    BY <2>1, ObserverFields
  <2>3. Len(observer.pending) \in Nat \ {0}
    BY <1>1, <2>2, EmptySeq
  <2>4. QED
    BY <2>1, <2>2, <2>3
<1>3. /\ p \in ToldProgress /\ Tail(observer.pending) \in Seq(ToldProgress)
      /\ Len(Tail(observer.pending)) = Len(observer.pending) - 1
      /\ \A k \in 1..Len(Tail(observer.pending)) : Tail(observer.pending)[k] = observer.pending[k + 1]
  BY <1>1, <1>2, HeadTailProperties
<1>4. Position(p) \in Nat /\ MessageOf(p) \in ToldMessage
  BY <1>3, PositionNat, ProgressFields DEF MessageOf, ToldMessage
<1> HIDE DEF p
<1>5. /\ t \in Observers(ToldProgress) /\ t.pc = "open" /\ t.pending = Tail(observer.pending)
      /\ t.buffered = observer.buffered /\ t.last = observer.last
  BY <1>1, <1>2, <1>3 DEF Observers
<1>6. /\ o \in Observers(ToldProgress) /\ o.pc = "open" /\ o.pending = Tail(observer.pending)
      /\ o.buffered = observer.buffered /\ o.last = Position(p)
  BY <1>1, <1>2, <1>3, <1>4 DEF Observers
<1> HIDE DEF t, o
<1>7. /\ Off \in Observers(ToldProgress) /\ Off.pc = "off" /\ Off.pending = <<>> /\ Off.buffered = <<>>
      /\ Len(<<>>) = 0
  BY EmptySeq DEF Off, Observers
<1>8. PageTold' /\ faults' \in 0..MaxFaults
  <2>1. wire' \in Seq(ToldMessage)
    BY <1>1, <1>2, <1>4, AppendProperties
  <2>2. observer' \in Observers(ToldProgress)
    BY <1>1, <1>5, <1>6, <1>7
  <2>3. QED
    BY <1>1, <1>2, <2>1, <2>2, PageFields DEF StreamInv, WorkTold
<1>9. ASSUME ~overlapped PROVE Segment' /\ ViewFits'
  <2>1. Segment /\ Begins \in Nat
    BY <1>9 DEF StreamInv, Segment
  <2>2. PICK i \in 1..Len(stream) :
          /\ i = Begins + 1 /\ p = stream[i]
          /\ \A at \in [0..Len(wire) -> 0..Len(stream)] : Shows(at) =>
               /\ ~Relevant(stream[i]) => i <= at[Len(wire)]
               /\ Relevant(stream[i]) =>
                    \E y \in 0..Len(stream) :
                      /\ Carries(MessageOf(stream[i]), at[Len(wire)], y)
                      /\ i <= y /\ Snap(y).seq = Position(stream[i])
    BY <1>1, <1>9, HeadIs DEF p
  <2>3. PICK at \in [0..Len(wire) -> 0..Len(stream)] : Shows(at)
    BY <1>1, <1>9 DEF StreamInv, ViewFits
  <2>4. observer'.pending = Tail(observer.pending) /\ observer'.buffered = observer.buffered => Begins' = i
    <3>1. SUFFICES ASSUME observer'.pending = Tail(observer.pending), observer'.buffered = observer.buffered
                   PROVE  Begins' = i
      OBVIOUS
    <3>2. PICK c \in Nat, a \in Nat \ {0}, b \in Nat, d \in Nat :
            c = cursor /\ a = Len(observer.pending) /\ b = Len(observer.buffered) /\ d = Begins
      <4>1. cursor \in Nat
        BY <1>2
      <4>2. QED
        BY <1>2, <2>1, <4>1
    <3>3. d = c - a - b
      BY <3>2, Zenon DEF Begins
    <3>4. c - (a - 1) - b = d + 1
      BY <3>3, Lengths
    <3>5. Begins' = c - (a - 1) - b
      BY <1>1, <1>3, <3>1, <3>2, Zenon DEF Begins
    <3>6. QED
      BY <2>2, <3>2, <3>4, <3>5, Zenon
  <2>5. CASE observer' \in {t, o}
    <3>1. /\ observer'.pc = "open" /\ observer'.pending = Tail(observer.pending)
          /\ observer'.buffered = observer.buffered /\ Begins' = i
      BY <1>5, <1>6, <2>4, <2>5
    <3>2. \A k \in 1..Len(Tail(observer.pending)) : Tail(observer.pending)[k] = stream[i + k]
      <4>1. TAKE k \in 1..Len(Tail(observer.pending))
      <4>2. k + 1 \in 1..Len(observer.pending) /\ Begins + (k + 1) = i + k
        BY <1>2, <1>3, <2>1, <2>2
      <4>3. observer.pending[k + 1] = stream[Begins + (k + 1)]
        BY <2>1, <4>2 DEF Segment
      <4>4. QED
        BY <1>3, <4>2, <4>3
    <3>3. \A k \in 1..Len(observer.buffered) :
            observer.buffered[k] = stream[i + Len(Tail(observer.pending)) + k]
      <4>1. TAKE k \in 1..Len(observer.buffered)
      <4>2. Begins + Len(observer.pending) + k = i + Len(Tail(observer.pending)) + k
        <5>1. PICK a \in Nat, d \in Nat : a = Len(observer.pending) /\ d = Begins
          BY <1>2, <2>1
        <5>2. i = d + 1 /\ Len(Tail(observer.pending)) = a - 1
          BY <1>3, <2>2, <5>1
        <5>3. d + a + k = (d + 1) + (a - 1) + k
          OBVIOUS
        <5>4. QED
          BY <5>1, <5>2, <5>3, Zenon
      <4>3. observer.buffered[k] = stream[Begins + Len(observer.pending) + k]
        BY <2>1 DEF Segment
      <4>4. QED
        BY <4>2, <4>3
    <3>4. i \in Nat
      BY <1>2
    <3>5. Segment'
      BY <1>1, <3>1, <3>2, <3>3, <3>4 DEF Segment
    <3>6. CASE ~Relevant(p)
      <4>1. i <= at[Len(wire)] /\ observer'.last = observer.last /\ UNCHANGED wire
        BY <1>1, <1>5, <2>2, <2>3, <3>6
      <4>2. Shows(at)'
        <5>1. Stands(at[0])'
          BY <1>1, <2>3, PageFields, ShowsIs, StandsStays
        <5>2. QED
          BY <1>1, <2>3, <3>1, <4>1, <5>1, PageFields DEF Shows, Carries
      <4>3. at \in [0..Len(wire') -> 0..Len(stream')]
        BY <1>1, <4>1, PageFields
      <4>4. ViewFits'
        BY <4>2, <4>3 DEF ViewFits
      <4>5. QED
        BY <3>5, <4>4
    <3>7. CASE Relevant(p)
      <4>1. PICK y \in 0..Len(stream) : /\ Carries(MessageOf(p), at[Len(wire)], y)
                                        /\ i <= y /\ Snap(y).seq = Position(p)
        BY <2>2, <2>3, <3>7
      <4>2. observer' = o /\ wire' = Append(wire, MessageOf(p))
        BY <1>1, <1>7, <3>1, <3>7
      <4>3. ViewFits'
        BY <1>1, <1>4, <1>6, <2>3, <3>1, <4>1, <4>2, WireGrows
      <4>4. QED
        BY <3>5, <4>3
    <3>8. QED
      BY <3>6, <3>7
  <2>6. CASE observer' = Off
    <3>1. Relevant(p) /\ wire' = Append(wire, MessageOf(p)) /\ observer'.pc = "off"
      BY <1>1, <1>5, <1>7, <2>6
    <3>2. PICK y \in 0..Len(stream) : Carries(MessageOf(p), at[Len(wire)], y)
      BY <2>2, <2>3, <3>1
    <3>3. ViewFits'
      BY <1>1, <1>4, <2>3, <3>1, <3>2, WireGrows
    <3>4. Begins' = cursor
      <4>1. Begins' = cursor - 0 - 0
        BY <1>1, <1>7, <2>6 DEF Begins
      <4>2. cursor \in Nat
        BY <1>2
      <4>3. cursor - 0 - 0 = cursor
        BY <4>2, Minus, Zenon
      <4>4. QED
        BY <4>1, <4>3
    <3>5. Segment'
      <4>1. Begins' \in Nat
        BY <1>2, <3>4
      <4>2. QED
        BY <1>7, <2>6, <4>1 DEF Segment
    <3>6. QED
      BY <3>3, <3>5
  <2>7. QED
    BY <1>1, <2>5, <2>6
<1>10. QED
  BY <1>1, <1>8, <1>9, ObserverStep

\* What receiving the first message on the wire makes of the view.
LEMMA NextView ==
  ASSUME StreamInv, ~overlapped, wire # <<>>
  PROVE  \E at \in [0..Len(wire) -> 0..Len(stream)] :
           /\ Shows(at)
           /\ ~ahead => view.seq <= Reduce(view, Head(wire)).seq
           /\ \/ Reduce(view, Head(wire)).status = "failed" /\ view.status # "failed"
              \/ \E v \in 0..Len(stream) :
                   /\ at[1] <= v
                   /\ ~ahead \/ Head(wire).type = "run_snapshot" \/ Reduce(view, Head(wire)).status # view.status
                        => v = at[1]
                   /\ Reduce(view, Head(wire)).seq = Snap(v).seq
                   /\ Reduce(view, Head(wire)).status = Snap(v).status
                   /\ ~stale \/ Head(wire).type = "run_snapshot" => Reduce(view, Head(wire)) = Snap(v)
<1>1. /\ wire \in Seq(ToldMessage) /\ Len(wire) \in Nat \ {0} /\ view \in Told /\ StreamFits
      /\ Len(stream) \in Nat /\ \A i \in 0..Len(stream) : Snap(i) \in Told /\ Snap(i).seq \in Nat
  BY EmptySeq, StoreFields DEF StreamInv, PageTold
<1>2. Head(wire) = wire[1] /\ wire[1] \in ToldMessage /\ 1 \in 1..Len(wire)
  BY <1>1, ElementOfSeq
<1>3. PICK at \in [0..Len(wire) -> 0..Len(stream)] : Shows(at)
  BY <1>1, <1>2 DEF StreamInv, ViewFits
<1>4. /\ Stands(at[0]) /\ Carries(wire[1], at[0], at[1])
      /\ at[0] \in 0..Len(stream) /\ at[1] \in 0..Len(stream)
  BY <1>2, <1>3, ShowsIs
<1>5. PICK v \in 0..Len(stream) :
        /\ at[0] <= v /\ (~ahead => v = at[0])
        /\ view.seq = Snap(v).seq /\ view.status = Snap(v).status
        /\ ~stale => view = Snap(v)
  BY <1>4 DEF Stands
<1> DEFINE m == wire[1]
           next == Reduce(view, m)
<1>6. view.seq \in Nat
  BY <1>1, ToldFields
<1>7. SUFFICES /\ ~ahead => view.seq <= next.seq
               /\ \/ next.status = "failed" /\ view.status # "failed"
                  \/ \E u \in 0..Len(stream) :
                       /\ at[1] <= u
                       /\ ~ahead \/ m.type = "run_snapshot" \/ next.status # view.status => u = at[1]
                       /\ next.seq = Snap(u).seq /\ next.status = Snap(u).status
                       /\ ~stale \/ m.type = "run_snapshot" => next = Snap(u)
  BY <1>2, <1>3
<1>8. CASE at[0] <= at[1] /\ m.type = "run_snapshot" /\ m.snapshot = Snap(at[1])
  <2>1. next = Snap(at[1])
    BY <1>2, <1>8, ReduceSnapshot
  <2>2. Snap(at[0]).seq <= Snap(at[1]).seq
    BY <1>1, <1>4, <1>8 DEF StreamFits
  <2>3. ~ahead => view.seq <= next.seq
    BY <1>5, <2>1, <2>2
  <2>4. at[1] <= at[1]
    BY <1>4
  <2> HIDE DEF next
  <2>5. QED
    BY <1>4, <2>1, <2>3, <2>4
<1>9. CASE at[1] = at[0] + 1 /\ stream[at[1]].event # None /\ m = stream[at[1]].event
  <2>1. PICK i \in 1..Len(stream) : i = at[1] /\ i - 1 = at[0]
    <3>1. at[1] \in 1..Len(stream) /\ at[1] - 1 = at[0]
      BY <1>1, <1>4, <1>9
    <3>2. QED
      BY <3>1
  <2>2. /\ stream[i] \in ToldProgress /\ Fits(Snap(i - 1), stream[i]) /\ stream[i].snapshot = Snap(i)
        /\ stream[i].event # None /\ m = stream[i].event
    <3>1. stream[i] \in ToldProgress
      BY ElementOfSeq DEF StreamInv, StoreTold
    <3>2. Fits(Snap(i - 1), stream[i])
      BY <1>1 DEF StreamFits
    <3>3. i # 0
      BY <1>1
    <3>4. stream[i].snapshot = Snap(i)
      BY <3>3 DEF Snap
    <3>5. QED
      BY <1>9, <2>1, <3>1, <3>2, <3>4
  <2>3. m \in ToldEvent /\ m.seq \in Nat /\ m.type \in {"delta", "run_finished"} /\ m.type # "run_snapshot"
    BY <2>2, ProgressFields, EventFields
  <2>4. /\ Snap(i - 1).seq < m.seq /\ m.seq = Snap(i).seq /\ Snap(i - 1).status # "failed"
        /\ Snap(i) = Reduce(Snap(i - 1), m) \/ (m.type = "run_finished" /\ m.status = "failed")
    BY <2>2 DEF Fits
  <2>5. i - 1 \in 0..Len(stream) /\ i \in 0..Len(stream) /\ i \in Nat /\ v \in Nat
        /\ Snap(i - 1).seq \in Nat /\ Snap(i).seq \in Nat /\ Snap(v).seq \in Nat /\ Snap(i - 1) \in Told
    <3>1. i - 1 \in 0..Len(stream) /\ i \in 0..Len(stream) /\ i \in Nat /\ v \in Nat
      BY <1>1
    <3>2. QED
      BY <1>1, <3>1
  <2>6. CASE m.seq <= view.seq
    <3>1. next = view
      BY <1>1, <2>3, <2>6, ReduceEvent
    <3>2. v # i - 1
      BY <1>5, <2>4, <2>5, <2>6
    <3>3. ahead /\ i <= v
      BY <1>5, <2>1, <2>5, <3>2
    <3> HIDE DEF next
    <3>4. QED
      BY <1>5, <2>1, <2>3, <3>1, <3>3
  <2>7. CASE view.seq < m.seq
    <3>1. v < i
      <4>1. i <= v => Snap(i).seq <= Snap(v).seq
        BY <1>1, <2>5 DEF StreamFits
      <4>2. ~(Snap(i).seq <= Snap(v).seq)
        BY <1>5, <2>4, <2>5, <2>7
      <4>3. QED
        BY <2>5, <4>1, <4>2
    <3>2. v = i - 1
      BY <1>5, <2>1, <2>5, <3>1
    <3>3. /\ next.seq = m.seq /\ (m.type = "run_finished" => next.status = m.status)
          /\ m.type = "delta" => next.status = view.status
      BY <1>1, <2>3, <2>7, ReduceEvent
    <3>4. view.seq <= next.seq
      BY <1>6, <2>3, <2>7, <3>3
    <3>5. CASE m.type = "run_finished" /\ m.status = "failed"
      <4>1. next.status = "failed" /\ view.status # "failed"
        BY <1>5, <2>4, <3>2, <3>3, <3>5
      <4> HIDE DEF next
      <4>2. QED
        BY <3>4, <4>1
    <3>6. CASE Snap(i) = Reduce(Snap(i - 1), m)
      <4>1. /\ m.type = "run_finished" => Snap(i).status = m.status
            /\ m.type = "delta" => Snap(i).status = Snap(i - 1).status
        BY <2>3, <2>4, <2>5, <3>6, ReduceEvent
      <4>2. next.seq = Snap(i).seq /\ next.status = Snap(i).status
        BY <1>5, <2>3, <2>4, <3>2, <3>3, <4>1
      <4>3. ~stale => next = Snap(i)
        BY <1>5, <3>2, <3>6
      <4>4. i <= i
        BY <2>5
      <4> HIDE DEF next
      <4>5. QED
        BY <2>1, <2>3, <2>5, <3>4, <4>2, <4>3, <4>4
    <3>7. QED
      BY <2>4, <3>5, <3>6
  <2>8. QED
    BY <1>6, <2>3, <2>6, <2>7
<1>10. QED
  BY <1>4, <1>8, <1>9 DEF Carries

\* Who is told of the end finds the session no longer held.
LEMMA EndIsOver ==
  ASSUME NEW m \in ToldMessage, OfEnd(m)
  PROVE  session # "held"
<1>1. CASE m.type = "run_snapshot"
  <2>1. m.snapshot \in Told
    BY <1>1, ReduceSnapshot
  <2>2. Ends(m.snapshot.status) /\ m.snapshot.status \in {"completed", "failed"}
    BY <1>1, <2>1, ToldFields DEF OfEnd, Terminal
  <2>3. QED
    BY <2>2 DEF Ends
<1>2. CASE m \in ToldEvent
  <2>1. m.type = "run_finished"
    BY <1>2, EventFields DEF OfEnd
  <2>2. Ends(m.status) /\ m.status \in {"completed", "failed"}
    BY <1>2, <2>1, EventFields DEF Terminal
  <2>3. QED
    BY <2>2 DEF Ends
<1>3. QED
  BY <1>1, <1>2, MessageFields

LEMMA ReduceKeepsContent ==
  ASSUME NEW s \in Told, NEW m \in ToldEvent, s.content # <<>>
  PROVE  Reduce(s, m).content # <<>>
<1>1. s.seq \in Nat /\ m.seq \in Nat /\ m.type # "run_snapshot" /\ s.content \in Seq(Executions)
      /\ s = [seq |-> s.seq, status |-> s.status, content |-> s.content]
  BY ToldFields, EventFields
<1>2. CASE m.seq <= s.seq
  BY <1>2, ReduceEvent
<1>3. CASE ~(m.seq <= s.seq) /\ m.type = "run_finished"
  <2>1. Reduce(s, m) = [s EXCEPT !.seq = m.seq, !.status = m.status]
    BY <1>1, <1>3 DEF Reduce
  <2>2. QED
    BY <1>1, <2>1
<1>4. CASE ~(m.seq <= s.seq) /\ m.type # "run_finished"
  <2>1. Reduce(s, m) = [s EXCEPT !.seq = m.seq, !.content = Append(@, m.by)]
    BY <1>1, <1>4 DEF Reduce
  <2>2. Reduce(s, m).content = Append(s.content, m.by)
    BY <1>1, <2>1
  <2>3. m.by \in Executions
    BY <1>1, <1>4, EventFields
  <2>4. Len(Append(s.content, m.by)) = Len(s.content) + 1 /\ Len(s.content) \in Nat
    BY <1>1, <2>3, AppendProperties, LenProperties
  <2>5. Len(<<>>) = 0
    BY EmptySeq
  <2>6. QED
    BY <2>2, <2>4, <2>5
<1>5. QED
  BY <1>2, <1>3, <1>4

LEMMA AskedTold == Asked \in Requested /\ Idle \in Requested /\ NotActive \in ToldAnswer /\ "query" \in Requests
                   /\ "refresh" \in Requests /\ Asked.pc = "asked" /\ Idle.pc = "idle" /\ NotActive.live = FALSE
                   /\ NotActive.snapshot = Snap(0)
<1>1. NotActive \in ToldAnswer
  BY SnapshotOfTold DEF NotActive, ToldAnswer
<1>2. QED
  BY <1>1 DEF Asked, Idle, Requested, Requests, NotActive, Snap

LEMMA ReceiveAsks ==
  ASSUME StreamInv, Receive
  PROVE  ReadingTold' /\ Hidden'
<1> DEFINE e == Head(wire)
           next == Reduce(view, e)
<1>1. /\ wire # <<>> /\ view' = next /\ asks' = Refreshed(e)
      /\ ahead' = (ahead /\ ~(e.type = "run_snapshot") /\ next.status = view.status)
      /\ stale' = (stale /\ ~(e.type = "run_snapshot"))
      /\ UNCHANGED <<worker, progress, stream>> /\ UNCHANGED shown /\ UNCHANGED claimed /\ UNCHANGED known
  BY DEF Receive
<1>2. ReadingTold /\ Hidden /\ view \in Told /\ wire \in Seq(ToldMessage)
  BY DEF StreamInv, PageTold
<1>3. e \in ToldMessage
  BY <1>1, <1>2, HeadTailProperties
<1>4. ReadingNext
  <2>1. CASE OfEnd(e) /\ asks["refresh"] = Idle
    <3>1. asks' = [asks EXCEPT !["refresh"] = Asked]
      BY <1>1, <2>1 DEF Refreshed
    <3>2. session # "held"
      BY <1>3, <2>1, EndIsOver
    <3>3. RequestTold("refresh", Asked)
      BY <3>2, AskedTold DEF RequestTold
    <3>4. QED
      BY <1>1, <1>2, <3>1, <3>3, AskedTold DEF ReadingNext, ReadingTold
  <2>2. CASE ~(OfEnd(e) /\ asks["refresh"] = Idle)
    BY <1>1, <1>2, <2>2 DEF ReadingNext, ReadingTold, Refreshed
  <2>3. QED
    BY <2>1, <2>2
<1>5. stale' => view'.content # <<>>
  <2>1. SUFFICES ASSUME stale' PROVE view'.content # <<>>
    OBVIOUS
  <2>2. stale /\ e.type # "run_snapshot"
    BY <1>1, <2>1
  <2>3. view.content # <<>> /\ e \in ToldEvent
    BY <1>2, <1>3, <2>2, MessageFields DEF ReadingTold
  <2>4. QED
    BY <1>1, <1>2, <2>3, ReduceKeepsContent
<1> HIDE DEF next, e
<1>6. shown' \in BOOLEAN
  BY <1>1, <1>2 DEF ReadingTold
<1>7. ahead' \in BOOLEAN
  BY <1>1
<1>8. stale' \in BOOLEAN
  BY <1>1
<1>9. ReadingTold'
  BY <1>1, <1>4, <1>5, <1>6, <1>7, <1>8, ReadingIs
<1>10. Hidden'
  BY <1>1, <1>2 DEF Hidden
<1>11. QED
  BY <1>9, <1>10

LEMMA ReceiveStep ==
  ASSUME StreamInv, Receive
  PROVE  StreamInv' /\ (~overlapped /\ ~ahead => view.seq <= view'.seq)
<1> DEFINE next == Reduce(view, Head(wire))
<1>1. /\ wire # <<>> /\ view' = next
      /\ IF next.status = view.status THEN wire' = Tail(wire) /\ UNCHANGED observer
         ELSE wire' = <<>> /\ observer' = Off
      /\ ahead' = (ahead /\ ~(Head(wire).type = "run_snapshot") /\ next.status = view.status)
      /\ stale' = (stale /\ ~(Head(wire).type = "run_snapshot"))
      /\ UNCHANGED <<worker, progress, stream, overlapped, cut>> /\ UNCHANGED <<worker, progress, stream>>
      /\ UNCHANGED faults /\ UNCHANGED cursor
  BY DEF Receive, GiveUp
<1>2. /\ wire \in Seq(ToldMessage) /\ Len(wire) \in Nat \ {0} /\ view \in Told
      /\ observer \in Observers(ToldProgress) /\ cursor \in 0..Len(stream) /\ Len(stream) \in Nat
  BY <1>1, EmptySeq, PageFields
<1>3. /\ Head(wire) \in ToldMessage /\ Tail(wire) \in Seq(ToldMessage) /\ Len(Tail(wire)) = Len(wire) - 1
      /\ \A k \in 1..Len(Tail(wire)) : Tail(wire)[k] = wire[k + 1]
  BY <1>1, <1>2, HeadTailProperties
<1>4. next \in Told
  BY <1>2, <1>3, ReduceTold
<1> HIDE DEF next
<1>5. /\ Off \in Observers(ToldProgress) /\ Off.pc = "off" /\ Off.pending = <<>> /\ Off.buffered = <<>>
      /\ Len(<<>>) = 0 /\ <<>> \in Seq(ToldMessage)
  BY EmptySeq DEF Off, Observers
<1>6. PageTold' /\ faults' \in 0..MaxFaults
  BY <1>1, <1>2, <1>3, <1>4, <1>5, PageFields DEF StreamInv, WorkTold
<1>7. ASSUME ~overlapped PROVE Segment' /\ ViewFits' /\ (~ahead => view.seq <= view'.seq)
  <2>1. Segment /\ Begins \in Nat
    BY <1>7 DEF StreamInv, Segment
  <2>2. PICK at \in [0..Len(wire) -> 0..Len(stream)] :
          /\ Shows(at) /\ (~ahead => view.seq <= next.seq)
          /\ \/ next.status = "failed" /\ view.status # "failed"
             \/ \E v \in 0..Len(stream) :
                  /\ at[1] <= v
                  /\ ~ahead \/ Head(wire).type = "run_snapshot" \/ next.status # view.status => v = at[1]
                  /\ next.seq = Snap(v).seq /\ next.status = Snap(v).status
                  /\ ~stale \/ Head(wire).type = "run_snapshot" => next = Snap(v)
    BY <1>1, <1>7, NextView DEF next
  <2>3. (next.status = "failed" /\ view.status # "failed") \/ Stands(at[1])'
    <3> SUFFICES ASSUME ~(next.status = "failed" /\ view.status # "failed") PROVE Stands(at[1])'
      OBVIOUS
    <3>1. PICK v \in 0..Len(stream) :
            /\ at[1] <= v
            /\ ~ahead \/ Head(wire).type = "run_snapshot" \/ next.status # view.status => v = at[1]
            /\ next.seq = Snap(v).seq /\ next.status = Snap(v).status
            /\ ~stale \/ Head(wire).type = "run_snapshot" => next = Snap(v)
      BY <2>2
    <3>2. ~ahead' => v = at[1]
      BY <1>1, <3>1
    <3>3. ~stale' => view' = Snap(v)
      BY <1>1, <3>1
    <3>4. v \in 0..Len(stream') /\ Snap(v)' = Snap(v)
      BY <1>1, PageFields
    <3>5. view'.seq = Snap(v).seq /\ view'.status = Snap(v).status
      BY <1>1, <3>1
    <3>6. QED
      BY <3>1, <3>2, <3>3, <3>4, <3>5 DEF Stands
  <2>4. 1 \in 1..Len(wire) /\ at[1] \in 0..Len(stream)
    <3>1. PICK n \in Nat \ {0} : n = Len(wire)
      BY <1>2
    <3>2. 1 \in 1..n /\ 1 \in 0..n
      OBVIOUS
    <3>3. QED
      BY <3>1, <3>2
  <2>5. CASE next.status = view.status
    <3>1. wire' = Tail(wire) /\ UNCHANGED observer /\ Stands(at[1])'
      BY <1>1, <2>5, <2>3
    <3>2. Begins' = Begins
      BY <1>1, <3>1 DEF Begins
    <3>3. observer.pc # "listening"
      BY <1>1, <2>1 DEF Segment
    <3>4. Segment'
      BY <1>1, <2>1, <3>1, <3>2, <3>3 DEF Segment
    <3>5. PICK n \in Nat : n = Len(wire) - 1
      BY <1>2
    <3>6. Len(wire) = n + 1 /\ Len(wire') = n
      BY <1>2, <1>3, <3>1, <3>5
    <3>7. PICK f \in [0..n -> 0..Len(stream)] : \A k \in 0..n : f[k] = at[k + 1]
      <4> DEFINE g == [k \in 0..n |-> at[k + 1]]
      <4>1. \A k \in 0..n : k + 1 \in 0..Len(wire)
        BY <3>6
      <4>2. g \in [0..n -> 0..Len(stream)] /\ \A k \in 0..n : g[k] = at[k + 1]
        BY <4>1
      <4>3. QED
        BY <4>2
    <3>8. ASSUME NEW k \in 1..n PROVE Carries(wire[k], f[k - 1], f[k])'
      <4>1. k - 1 \in 0..n /\ k \in 0..n /\ k + 1 \in 1..Len(wire) /\ (k + 1) - 1 = k /\ (k - 1) + 1 = k
        BY <3>6
      <4>2. f[k - 1] = at[k] /\ f[k] = at[k + 1] /\ wire'[k] = wire[k + 1]
        BY <1>3, <3>1, <3>6, <3>7, <4>1
      <4>3. Carries(wire[k + 1], at[(k + 1) - 1], at[k + 1])
        BY <2>2, <4>1, ShowsIs
      <4>4. Carries(wire[k + 1], at[k], at[k + 1])
        BY <4>1, <4>3
      <4>5. QED
        BY <1>1, <4>2, <4>4, PageFields DEF Carries
    <3>9. f[0] = at[1] /\ f[n] = at[Len(wire)]
      <4>1. 0 \in 0..n /\ n \in 0..n /\ 0 + 1 = 1
        BY <3>5
      <4>2. QED
        BY <3>6, <3>7, <4>1
    <3>10. Shows(f)'
      <4>1. Stands(f[0])'
        BY <3>1, <3>9
      <4>2. observer.pc = "open" => Begins <= at[Len(wire)] /\ observer.last = Snap(at[Len(wire)]).seq
        BY <2>2 DEF Shows
      <4>3. observer'.pc = "open" => Begins' <= f[n] /\ observer'.last = Snap(f[n])'.seq
        BY <1>1, <3>1, <3>2, <3>9, <4>2, PageFields
      <4>4. \A k \in 1..n : Carries(wire[k], f[k - 1], f[k])'
        BY <3>8
      <4>5. QED
        BY <3>6, <4>1, <4>3, <4>4 DEF Shows
    <3>11. f \in [0..Len(wire') -> 0..Len(stream')]
      BY <1>1, <3>6, PageFields
    <3>12. QED
      BY <1>1, <2>2, <3>4, <3>10, <3>11 DEF ViewFits
  <2>6. CASE next.status # view.status
    <3>1. wire' = <<>> /\ observer' = Off
      BY <1>1, <2>6
    <3>2. Begins' = cursor
      <4>1. Begins' = cursor - 0 - 0
        BY <1>1, <1>5, <3>1 DEF Begins
      <4>2. cursor \in Nat
        BY <1>2
      <4>3. cursor - 0 - 0 = cursor
        BY <4>2, Minus, Zenon
      <4>4. QED
        BY <4>1, <4>3
    <3>3. Segment'
      <4>1. Begins' \in Nat
        BY <1>2, <3>2
      <4>2. QED
        BY <1>5, <3>1, <4>1 DEF Segment
    <3>4. ViewFits'
      <4>1. CASE next.status = "failed"
        BY <1>1, <1>5, <3>1, <4>1 DEF ViewFits
      <4>2. CASE Stands(at[1])'
        <5> DEFINE f == [k \in 0..0 |-> at[1]]
        <5>1. f \in [0..Len(wire') -> 0..Len(stream')] /\ f[0] = at[1] /\ Len(wire') = 0
          BY <1>1, <1>5, <2>4, <3>1, PageFields
        <5> HIDE DEF f
        <5>2. Shows(f)'
          BY <1>1, <1>5, <3>1, <4>2, <5>1, PageFields DEF Shows
        <5>3. QED
          BY <5>1, <5>2 DEF ViewFits
      <4>3. QED
        BY <2>3, <4>1, <4>2
    <3>5. QED
      BY <1>1, <2>2, <3>3, <3>4
  <2>7. QED
    BY <2>5, <2>6
<1>8. QED
  BY <1>1, <1>6, <1>7, PageStep, ReceiveAsks

(***************************************************************************)
(* The stream: what the page takes from the session                        *)
(***************************************************************************)

\* A request goes on, and what the page shows stays.
LEMMA RequestGoesOn ==
  ASSUME StreamInv, UNCHANGED <<worker, progress, stream, overlapped, cut>>, faults' \in 0..MaxFaults,
         UNCHANGED api, UNCHANGED wire, UNCHANGED <<view, shown, ahead, stale>>, ReadingNext
  PROVE  StreamInv'
<1>1. /\ UNCHANGED <<worker, progress, stream>> /\ UNCHANGED cursor /\ UNCHANGED observer /\ UNCHANGED wire
      /\ UNCHANGED view /\ UNCHANGED shown /\ UNCHANGED ahead /\ UNCHANGED stale
  BY DEF api
<1>2. PageTold'
  BY <1>1, PageFields
<1>3. ReadingTold'
  <2>1. ReadingTold
    BY DEF StreamInv
  <2>2. shown' \in BOOLEAN /\ ahead' \in BOOLEAN /\ stale' \in BOOLEAN
    BY <1>1, <2>1 DEF ReadingTold
  <2>3. stale' => view'.content # <<>>
    BY <1>1, <2>1 DEF ReadingTold
  <2>4. QED
    BY <1>1, <2>2, <2>3, ReadingIs
<1>4. Hidden'
  BY <1>1 DEF StreamInv, Hidden
<1>5. ASSUME ~overlapped PROVE Segment' /\ ViewFits'
  <2>1. Begins' = Begins
    BY <1>1 DEF Begins
  <2>2. Segment'
    BY <1>1, <1>5, <2>1, PageFields DEF StreamInv, Segment
  <2>3. ViewFits'
    BY <1>1, <1>5, <2>1, ViewRests
  <2>4. QED
    BY <2>2, <2>3
<1>6. QED
  BY <1>2, <1>3, <1>4, <1>5, PageStep

\* The requests in their states.
LEMMA AsksFields ==
  ASSUME StreamInv, NEW r \in Requests
  PROVE  /\ asks[r] \in Requested /\ RequestTold(r, asks[r])
         /\ claimed \in BOOLEAN /\ known \in ToldAnswer \cup {None}
         /\ asks[r].pc = "answered" =>
              /\ asks[r].answer \in ToldAnswer
              /\ asks[r].answer.live \in BOOLEAN /\ asks[r].answer.snapshot \in Told
              /\ \E i \in 0..Len(stream) : asks[r].answer.snapshot = Snap(i)
<1>1. asks[r] \in Requested /\ RequestTold(r, asks[r]) /\ claimed \in BOOLEAN /\ known \in ToldAnswer \cup {None}
  BY DEF StreamInv, ReadingTold
<1>2. QED
  BY <1>1 DEF RequestTold, ToldAnswer

\* A request in its next state.
LEMMA AsksSet ==
  ASSUME StreamInv, NEW r \in Requests, NEW q \in Requested, RequestTold(r, q), asks' = [asks EXCEPT ![r] = q],
         claimed' \in BOOLEAN, known' \in ToldAnswer \cup {None}
  PROVE  ReadingNext
BY DEF ReadingNext

LEMMA QueryStartsStep == ASSUME StreamInv, QueryStarts PROVE StreamInv'
<1>1. faults' \in 0..MaxFaults
  BY FailsFaults DEF QueryStarts, StreamInv
<1>2. RequestTold("query", Asked)
  BY AskedTold DEF RequestTold
<1>3. /\ asks' = [asks EXCEPT !["query"] = Asked] /\ UNCHANGED claimed /\ UNCHANGED known
      /\ UNCHANGED <<worker, progress, stream, overlapped, cut>> /\ UNCHANGED api /\ UNCHANGED wire
      /\ UNCHANGED <<view, shown, ahead, stale>>
  BY DEF QueryStarts
<1>4. claimed' \in BOOLEAN /\ known' \in ToldAnswer \cup {None}
  BY <1>3, AsksFields, AskedTold
<1>5. ReadingNext
  BY <1>2, <1>3, <1>4, AskedTold, AsksSet
<1>6. QED
  BY <1>1, <1>3, <1>5, RequestGoesOn

LEMMA ReadRowStep == ASSUME StreamInv, NEW r \in Requests, ReadRow(r) PROVE StreamInv'
<1> DEFINE q == IF session = "held" THEN [asks[r] EXCEPT !.pc = "row"]
                ELSE [pc |-> "answered", answer |-> NotActive]
<1>1. /\ asks[r].pc = "asked" /\ asks' = [asks EXCEPT ![r] = q] /\ UNCHANGED claimed /\ UNCHANGED known
      /\ UNCHANGED faults
      /\ UNCHANGED <<worker, progress, stream, overlapped, cut>> /\ UNCHANGED api /\ UNCHANGED wire
      /\ UNCHANGED <<view, shown, ahead, stale>>
  BY DEF ReadRow
<1>2. asks[r] \in Requested /\ RequestTold(r, asks[r])
      /\ claimed' \in BOOLEAN /\ known' \in ToldAnswer \cup {None} /\ faults' \in 0..MaxFaults
  BY <1>1, AsksFields DEF StreamInv, WorkTold
<1>3. q \in Requested /\ RequestTold(r, q)
  <2>1. CASE session = "held"
    <3>1. q = [asks[r] EXCEPT !.pc = "row"] /\ r # "refresh"
      BY <1>1, <1>2, <2>1 DEF RequestTold
    <3>2. q \in Requested /\ q.pc = "row"
      BY <1>2, <3>1 DEF Requested
    <3>3. QED
      BY <3>1, <3>2 DEF RequestTold
  <2>2. CASE session # "held"
    <3>1. q = [pc |-> "answered", answer |-> NotActive]
      BY <2>2
    <3>2. q \in Requested /\ q.pc = "answered" /\ q.answer = NotActive
      BY <3>1, AskedTold DEF Requested
    <3>3. 0 \in 0..Len(stream)
      BY StoreFields DEF StreamInv
    <3> HIDE DEF q
    <3>4. QED
      BY <2>2, <3>2, <3>3, AskedTold DEF RequestTold
  <2>3. QED
    BY <2>1, <2>2
<1> HIDE DEF q
<1>4. ReadingNext
  BY <1>1, <1>2, <1>3, AsksSet
<1>5. QED
  BY <1>1, <1>2, <1>4, RequestGoesOn

LEMMA ReadRunStep == ASSUME StreamInv, NEW r \in Requests, ReadRun(r) PROVE StreamInv'
<1> DEFINE a == [live |-> TRUE, snapshot |-> SnapshotOf(progress)]
           q == [pc |-> "answered", answer |-> a]
<1>1. /\ asks[r].pc = "row" /\ asks' = [asks EXCEPT ![r] = q] /\ UNCHANGED claimed /\ UNCHANGED known
      /\ UNCHANGED faults
      /\ UNCHANGED <<worker, progress, stream, overlapped, cut>> /\ UNCHANGED api /\ UNCHANGED wire
      /\ UNCHANGED <<view, shown, ahead, stale>>
  BY DEF ReadRun
<1>2. asks[r] \in Requested /\ RequestTold(r, asks[r])
      /\ claimed' \in BOOLEAN /\ known' \in ToldAnswer \cup {None} /\ faults' \in 0..MaxFaults
  BY <1>1, AsksFields DEF StreamInv, WorkTold
<1>3. r # "refresh"
  BY <1>1, <1>2 DEF RequestTold
<1>4. a \in ToldAnswer /\ a.snapshot = Snap(Len(stream)) /\ Len(stream) \in 0..Len(stream)
  BY StoreFields DEF StreamInv, ToldAnswer
<1> HIDE DEF a
<1>5. q \in Requested /\ q.answer = a
  BY <1>4 DEF Requested
<1> HIDE DEF q
<1>6. RequestTold(r, q)
  BY <1>3, <1>4, <1>5 DEF RequestTold
<1>7. ReadingNext
  BY <1>1, <1>2, <1>5, <1>6, AsksSet
<1>8. QED
  BY <1>1, <1>2, <1>7, RequestGoesOn

\* Who has the number of an earlier display is a reset.
LEMMA EqualNumbers ==
  ASSUME StreamInv, ~overlapped, NEW i \in 0..Len(stream), NEW j \in 0..Len(stream), i < j,
         Snap(i).seq = Snap(j).seq
  PROVE  Snap(j) = [seq |-> Snap(j).seq, status |-> "running", content |-> <<>>]
<1>1. /\ StreamFits /\ Len(stream) \in Nat /\ \A k \in 0..Len(stream) : Snap(k).seq \in Nat
  BY StoreFields DEF StreamInv
<1>2. PICK k \in 1..Len(stream) : k = i + 1
  BY <1>1
<1>3. k - 1 = i /\ i <= k /\ k <= j /\ k \in 0..Len(stream) /\ j \in 1..Len(stream) /\ k # 0
  BY <1>1, <1>2
<1>4. Snap(i).seq <= Snap(k).seq /\ Snap(k).seq <= Snap(j).seq
  BY <1>1, <1>3 DEF StreamFits
<1>5. Snap(k).seq = Snap(i).seq /\ Snap(k).seq = Snap(j).seq
  BY <1>1, <1>3, <1>4
<1>6. Fits(Snap(k - 1), stream[k])
  BY <1>1 DEF StreamFits
<1>7. stream[k].snapshot = Snap(k)
  BY <1>3 DEF Snap
<1>8. stream[k].event = None
  <2>1. SUFFICES ASSUME stream[k].event # None PROVE FALSE
    OBVIOUS
  <2>2. Snap(k).seq = stream[k].event.seq /\ Snap(i).seq < stream[k].event.seq
    BY <1>3, <1>6, <1>7, <2>1 DEF Fits
  <2>3. QED
    BY <1>1, <1>3, <1>5, <2>2
<1>9. Snap(k) = [seq |-> Snap(i).seq, status |-> "running", content |-> <<>>]
  BY <1>3, <1>6, <1>7, <1>8 DEF Fits
<1>10. Snap(k) = Snap(j)
  BY <1>1, <1>3, <1>5, <1>8 DEF StreamFits
<1>11. QED
  BY <1>5, <1>9, <1>10

\* Only the first display is of a run that waits.
LEMMA QueuedFirst ==
  ASSUME StreamInv, ~overlapped, NEW i \in 0..Len(stream), Snap(i).status = "queued"
  PROVE  i = 0
<1>1. SUFFICES ASSUME i # 0 PROVE FALSE
  OBVIOUS
<1>2. i \in 1..Len(stream)
  BY <1>1, StoreFields DEF StreamInv
<1>3. Fits(Snap(i - 1), stream[i])
  BY <1>2 DEF StreamInv, StreamFits
<1>4. stream[i].snapshot.status = "queued"
  BY <1>1 DEF Snap
<1>5. QED
  BY <1>3, <1>4 DEF Fits

\* A response is shown over a connection that goes on.
LEMMA ReplacedStands ==
  ASSUME StreamInv, ~overlapped, NEW i \in 0..Len(stream), Stands(i), NEW r \in 0..Len(stream),
         UNCHANGED stream, view' = Snap(r), Snap(r).status = view.status, view.seq <= Snap(r).seq,
         ahead' = (ahead \/ Snap(r) # view),
         stale' = (Snap(r).seq = view.seq /\ Snap(r).content # <<>> /\ (stale \/ view.content = <<>>))
  PROVE  Stands(i)'
<1>1. PICK v \in 0..Len(stream) :
        /\ i <= v /\ (~ahead => v = i)
        /\ view.seq = Snap(v).seq /\ view.status = Snap(v).status
        /\ ~stale => view = Snap(v)
  BY DEF Stands
<1>2. /\ StreamFits /\ Len(stream) \in Nat /\ \A k \in 0..Len(stream) : Snap(k).seq \in Nat /\ Snap(k) \in Told
      /\ i \in Nat /\ r \in Nat /\ v \in Nat /\ (stale => view.content # <<>>)
  <2>1. Len(stream) \in Nat /\ \A k \in 0..Len(stream) : Snap(k).seq \in Nat /\ Snap(k) \in Told
    BY StoreFields DEF StreamInv
  <2>2. QED
    BY <2>1 DEF StreamInv, ReadingTold
<1>3. SUFFICES \E u \in 0..Len(stream) :
                 /\ i <= u /\ (~ahead' => u = i)
                 /\ Snap(r).seq = Snap(u).seq /\ Snap(r).status = Snap(u).status
                 /\ ~stale' => Snap(r) = Snap(u)
  <2>1. \A k : Snap(k)' = Snap(k)
    BY DEF Snap
  <2>2. QED
    BY <2>1 DEF Stands
<1>4. CASE i <= r /\ ahead'
  BY <1>4
<1>5. CASE i <= r /\ ~ahead'
  <2>1. ~ahead /\ Snap(r) = view /\ v = i
    BY <1>1, <1>5
  <2>2. ~stale' => view = Snap(v)
    BY <1>1, <1>2, <2>1
  <2>3. i <= i
    BY <1>2
  <2>4. QED
    BY <1>1, <1>5, <2>1, <2>2, <2>3
<1>6. CASE r < i
  <2>1. Snap(r).seq <= Snap(i).seq /\ Snap(i).seq <= Snap(v).seq
    BY <1>1, <1>2, <1>6 DEF StreamFits
  <2>2. Snap(r).seq = view.seq /\ Snap(r).seq = Snap(v).seq
    BY <1>1, <1>2, <2>1
  <2>3. r < v
    BY <1>1, <1>2, <1>6
  <2>4. Snap(v) = [seq |-> Snap(v).seq, status |-> "running", content |-> <<>>]
    BY <2>2, <2>3, EqualNumbers
  <2>5. ASSUME ~stale' PROVE Snap(r) = Snap(v)
    <3>1. Snap(r).content = <<>>
      <4>1. SUFFICES ASSUME Snap(r).content # <<>> PROVE FALSE
        OBVIOUS
      <4>2. ~stale /\ view.content # <<>>
        BY <2>2, <2>5, <4>1
      <4>3. view = Snap(v)
        BY <1>1, <4>2
      <4>4. QED
        BY <2>4, <4>2, <4>3
    <3>2. Snap(r) = [seq |-> Snap(r).seq, status |-> Snap(r).status, content |-> Snap(r).content]
      BY <1>2, ToldFields
    <3>3. Snap(v).status = "running"
      BY <2>4
    <3>4. QED
      BY <1>1, <2>2, <2>4, <3>1, <3>2, <3>3
  <2>6. ~ahead' => v = i
    BY <1>1
  <2>7. QED
    BY <1>1, <2>2, <2>5, <2>6
<1>7. QED
  BY <1>2, <1>4, <1>5, <1>6

\* A response is shown.
LEMMA ReplaceStep ==
  ASSUME StreamInv, UNCHANGED <<worker, progress, stream, cursor, overlapped, cut, faults>>, ReadingNext,
         NEW r \in 0..Len(stream), Replace(Snap(r)),
         ~overlapped /\ shown /\ Snap(r).status = view.status /\ Begun => view.seq <= Snap(r).seq
  PROVE  StreamInv'
<1> DEFINE s == Snap(r)
           kept == shown /\ s.status = view.status
<1>1. /\ UNCHANGED <<worker, progress, stream, overlapped, cut>> /\ UNCHANGED <<worker, progress, stream>>
      /\ UNCHANGED cursor /\ UNCHANGED faults /\ UNCHANGED overlapped
  OBVIOUS
<1>2. /\ view' = s /\ shown' = TRUE
      /\ kept => /\ ahead' = (Begun /\ (ahead \/ s # view))
                 /\ stale' = (Begun /\ s.seq = view.seq /\ s.content # <<>> /\ (stale \/ view.content = <<>>))
                 /\ UNCHANGED observer /\ UNCHANGED wire
      /\ ~kept => ahead' = FALSE /\ stale' = FALSE /\ GiveUp
  BY DEF Replace
<1>3. s \in Told /\ faults' \in 0..MaxFaults /\ cursor' \in 0..Len(stream)
  BY <1>1, StoreFields, PageFields DEF StreamInv, WorkTold
<1> HIDE DEF kept
<1>4. ReadingTold'
  <2>1. shown' \in BOOLEAN
    BY <1>2
  <2>2. ahead' \in BOOLEAN /\ stale' \in BOOLEAN
    <3>1. CASE kept
      <4>1. ahead' \in BOOLEAN
        BY <1>2, <3>1
      <4>2. stale' \in BOOLEAN
        BY <1>2, <3>1
      <4>3. QED
        BY <4>1, <4>2
    <3>2. CASE ~kept
      <4>1. ahead' \in BOOLEAN
        BY <1>2, <3>2
      <4>2. stale' \in BOOLEAN
        BY <1>2, <3>2
      <4>3. QED
        BY <4>1, <4>2
    <3>3. QED
      BY <3>1, <3>2
  <2>3. stale' => view'.content # <<>>
    BY <1>2
  <2>4. QED
    BY <1>1, <2>1, <2>2, <2>3, ReadingIs
<1>5. CASE ~kept
  <2>1. GiveUp /\ ahead' = FALSE /\ view' \in Told /\ (~shown' => view' = Queued)
    BY <1>2, <1>3, <1>5
  <2>2. ViewIs(r)'
    BY <1>1, <1>2, PageFields DEF ViewIs
  <2>3. QED
    BY <1>1, <1>3, <1>4, <2>1, <2>2, GivenUp
<1>6. CASE kept
  <2>1. /\ ahead' = (Begun /\ (ahead \/ s # view))
        /\ stale' = (Begun /\ s.seq = view.seq /\ s.content # <<>> /\ (stale \/ view.content = <<>>))
        /\ UNCHANGED observer /\ UNCHANGED wire /\ view' = s
    BY <1>2, <1>6
  <2>2. PageTold'
    BY <1>1, <1>3, <2>1, PageFields
  <2>3. Hidden'
    BY <1>2 DEF Hidden
  <2>4. ASSUME ~overlapped PROVE Segment' /\ ViewFits'
    <3>1. Segment /\ Begins' = Begins
      BY <1>1, <2>1, <2>4 DEF StreamInv, Begins
    <3>2. Segment'
      BY <1>1, <2>1, <3>1, PageFields DEF Segment
    <3>3. CASE ~Begun
      <4>1. wire = <<>> /\ observer.pc # "open" /\ ~ahead' /\ ~stale'
        BY <2>1, <3>3 DEF Begun
      <4> DEFINE f == [k \in 0..0 |-> r]
      <4>2. Len(<<>>) = 0
        BY EmptySeq
      <4>3. f \in [0..Len(wire') -> 0..Len(stream')] /\ f[0] = r /\ Len(wire') = 0
        BY <1>1, <2>1, <4>1, <4>2, PageFields
      <4> HIDE DEF f
      <4>4. Stands(r)'
        <5>1. r \in 0..Len(stream') /\ r <= r /\ Snap(r)' = s
          BY <1>1, PageFields
        <5>2. QED
          BY <2>1, <4>1, <5>1 DEF Stands
      <4>5. Shows(f)'
        BY <1>1, <2>1, <4>1, <4>3, <4>4, PageFields DEF Shows
      <4>6. ViewFits'
        BY <4>3, <4>5 DEF ViewFits
      <4>7. QED
        BY <3>2, <4>6
    <3>4. CASE Begun
      <4>1. PICK at \in [0..Len(wire) -> 0..Len(stream)] : Shows(at)
        BY <2>4, <3>4 DEF Begun, StreamInv, ViewFits
      <4>2. Stands(at[0]) /\ at[0] \in 0..Len(stream)
        BY <4>1, ShowsIs
      <4>3. shown /\ s.status = view.status /\ view.seq <= s.seq
        BY <1>6, <2>4, <3>4 DEF kept
      <4>4. ahead' = (ahead \/ s # view)
        BY <2>1, <3>4
      <4>5. stale' = (s.seq = view.seq /\ s.content # <<>> /\ (stale \/ view.content = <<>>))
        BY <2>1, <3>4
      <4>6. UNCHANGED stream
        BY <1>1, PageFields
      <4>7. Stands(at[0])'
        BY <2>1, <2>4, <4>2, <4>3, <4>4, <4>5, <4>6, ReplacedStands
      <4>8. Shows(at)'
        BY <1>1, <2>1, <3>1, <4>1, <4>7, PageFields DEF Shows, Carries
      <4>9. at \in [0..Len(wire') -> 0..Len(stream')]
        BY <1>1, <2>1, PageFields
      <4>10. ViewFits'
        BY <4>8, <4>9 DEF ViewFits
      <4>11. QED
        BY <3>2, <4>10
    <3>5. QED
      BY <3>3, <3>4
  <2>5. QED
    BY <1>1, <1>3, <1>4, <2>2, <2>3, <2>4, PageStep
<1>7. QED
  BY <1>5, <1>6

LEMMA HideStep ==
  ASSUME StreamInv, UNCHANGED <<worker, progress, stream, cursor, overlapped, cut, faults>>, ReadingNext, Hide
  PROVE  StreamInv'
<1>1. /\ UNCHANGED <<worker, progress, stream, overlapped, cut>> /\ UNCHANGED <<worker, progress, stream>>
      /\ UNCHANGED cursor /\ UNCHANGED faults
      /\ view' = Queued /\ shown' = FALSE /\ ahead' = FALSE /\ stale' = FALSE /\ GiveUp
  BY DEF Hide
<1>2. /\ view' \in Told /\ faults' \in 0..MaxFaults /\ cursor' \in 0..Len(stream) /\ 0 \in 0..Len(stream)
      /\ Queued = Snap(0)
  BY <1>1, SnapshotOfTold, StoreFields, PageFields DEF StreamInv, WorkTold, Snap
<1>3. ReadingTold'
  <2>1. shown' \in BOOLEAN
    BY <1>1
  <2>2. ahead' \in BOOLEAN
    BY <1>1
  <2>3. stale' \in BOOLEAN
    BY <1>1
  <2>4. QED
    BY <1>1, <2>1, <2>2, <2>3, ReadingIs
<1>4. ViewIs(0)'
  BY <1>1, <1>2, PageFields DEF ViewIs
<1>5. QED
  BY <1>1, <1>2, <1>3, <1>4, GivenUp

LEMMA ResponseAppliedStep ==
  ASSUME StreamInv, QueryApplied
  PROVE  StreamInv' /\ (view'.seq < view.seq => ~shown')
<1> DEFINE a == asks["query"].answer
<1>1. /\ asks["query"].pc = "answered" /\ known' = a /\ asks' = [asks EXCEPT !["query"] = Idle]
      /\ IF a = known \/ (a.live /\ shown /\ view.seq > a.snapshot.seq) THEN KeepsView
         ELSE IF a.live THEN Replace(a.snapshot) ELSE Hide
      /\ UNCHANGED <<worker, progress, stream, cursor, overlapped, cut, faults>> /\ UNCHANGED claimed
      /\ UNCHANGED <<worker, progress, stream, overlapped, cut>> /\ UNCHANGED cursor /\ UNCHANGED faults
  BY DEF QueryApplied
<1>2. a \in ToldAnswer /\ a.snapshot \in Told /\ claimed' \in BOOLEAN /\ a.live \in BOOLEAN
  BY <1>1, AsksFields, AskedTold
<1>3. PICK r \in 0..Len(stream) : a.snapshot = Snap(r)
  BY <1>1, AsksFields, AskedTold
<1> HIDE DEF a
<1>4. ReadingNext
  <2>1. RequestTold("query", Idle)
    BY AskedTold DEF RequestTold
  <2>2. QED
    BY <1>1, <1>2, <2>1, AskedTold, AsksSet
<1>5. view.seq \in Nat /\ a.snapshot.seq \in Nat
  BY <1>2, ToldFields DEF StreamInv, PageTold
<1>6. CASE KeepsView
  <2>1. UNCHANGED view /\ UNCHANGED observer /\ UNCHANGED wire /\ UNCHANGED <<view, shown, ahead, stale>>
    BY <1>6 DEF KeepsView
  <2>2. UNCHANGED api /\ faults' \in 0..MaxFaults
    BY <1>1, <2>1 DEF api, StreamInv, WorkTold
  <2>3. ~(view'.seq < view.seq)
    BY <1>5, <2>1
  <2>4. QED
    BY <1>1, <1>4, <2>1, <2>2, <2>3, RequestGoesOn
<1>7. CASE Replace(a.snapshot) /\ ~(a.live /\ shown /\ view.seq > a.snapshot.seq) /\ a.live
  <2>1. shown => view.seq <= a.snapshot.seq
    BY <1>5, <1>7
  <2>2. StreamInv'
    BY <1>1, <1>3, <1>4, <1>7, <2>1, ReplaceStep
  <2>3. ~shown => view.seq = 0
    BY DEF StreamInv, Hidden, Queued
  <2>4. view' = a.snapshot
    BY <1>7 DEF Replace
  <2>5. ~(view'.seq < view.seq)
    BY <1>5, <2>1, <2>3, <2>4
  <2>6. QED
    BY <2>2, <2>5
<1>8. CASE Hide
  <2>1. shown' = FALSE
    BY <1>8 DEF Hide
  <2>2. QED
    BY <1>1, <1>4, <1>8, <2>1, HideStep
<1>9. QED
  BY <1>1, <1>6, <1>7, <1>8

LEMMA RefreshShownStep ==
  ASSUME StreamInv, RefreshApplied
  PROVE  StreamInv' /\ ~shown'
<1> DEFINE a == asks["refresh"].answer
           q == [asks["refresh"] EXCEPT !.pc = "done"]
<1>1. /\ asks["refresh"].pc = "answered" /\ known' = a /\ asks' = [asks EXCEPT !["refresh"].pc = "done"]
      /\ IF a.live THEN Replace(a.snapshot) ELSE Hide
      /\ UNCHANGED <<worker, progress, stream, cursor, overlapped, cut, faults>> /\ UNCHANGED claimed
  BY DEF RefreshApplied
<1>2. /\ a \in ToldAnswer /\ claimed' \in BOOLEAN /\ asks["refresh"] \in Requested
      /\ RequestTold("refresh", asks["refresh"])
  BY <1>1, AsksFields, AskedTold
<1>3. ~a.live /\ session # "held"
  BY <1>1, <1>2 DEF RequestTold
<1>4. q \in Requested /\ q.pc = "done"
  BY <1>2 DEF Requested
<1>5. asks' = [asks EXCEPT !["refresh"] = q]
  BY <1>1
<1> HIDE DEF q
<1>6. RequestTold("refresh", q)
  BY <1>3, <1>4 DEF RequestTold
<1>7. ReadingNext
  BY <1>1, <1>2, <1>4, <1>5, <1>6, AskedTold, AsksSet
<1>8. Hide /\ ~shown'
  BY <1>1, <1>3 DEF Hide
<1>9. QED
  BY <1>1, <1>7, <1>8, HideStep

LEMMA AnswerShownStep ==
  ASSUME StreamInv, AnswerArrives
  PROVE  StreamInv' /\ claimed' # claimed
<1>1. /\ claimed /\ claimed' = FALSE /\ Replace(Queued) /\ UNCHANGED asks /\ UNCHANGED known
      /\ UNCHANGED <<worker, progress, stream, cursor, overlapped, cut, faults>>
  BY DEF AnswerArrives
<1>2. 0 \in 0..Len(stream) /\ Queued = Snap(0) /\ known \in ToldAnswer \cup {None}
  BY StoreFields, AsksFields, AskedTold DEF StreamInv, Snap
<1>3. ReadingNext
  <2>1. claimed' \in BOOLEAN
    BY <1>1
  <2>2. QED
    BY <1>1, <1>2, <2>1 DEF ReadingNext
<1>4. ASSUME ~overlapped, shown, Snap(0).status = view.status, Begun PROVE view.seq <= Snap(0).seq
  <2>1. PICK at \in [0..Len(wire) -> 0..Len(stream)] : Shows(at)
    BY <1>4 DEF Begun, StreamInv, ViewFits
  <2>2. PICK v \in 0..Len(stream) : view.seq = Snap(v).seq /\ view.status = Snap(v).status
    BY <2>1, ShowsIs DEF Stands
  <2>3. Snap(v).status = "queued"
    BY <1>2, <1>4, <2>2 DEF Queued
  <2>4. v = 0
    BY <1>4, <2>3, QueuedFirst
  <2>5. Snap(0).seq \in Nat
    BY <1>2 DEF Queued
  <2>6. QED
    BY <2>2, <2>4, <2>5
<1>5. StreamInv'
  BY <1>1, <1>2, <1>3, <1>4, ReplaceStep
<1>6. QED
  BY <1>1, <1>5

LEMMA StreamInvInit == Init => StreamInv
<1> SUFFICES ASSUME Init PROVE StreamInv
  OBVIOUS
<1>1. /\ session = "held" /\ job = [status |-> "waiting", owner |-> None, made |-> 0, stalls |-> 0, taken |-> 0]
      /\ exec = [w \in Executions |-> NoExec] /\ cleanup = [pc |-> "none", base |-> Queued]
      /\ progress = None /\ stream = <<>> /\ cursor = 0 /\ observer = Off /\ wire = <<>> /\ view = Queued
      /\ shown = FALSE /\ known = None /\ ahead = FALSE /\ stale = FALSE /\ claimed \in BOOLEAN
      /\ asks = [r \in Requests |-> IF r = "query" THEN Asked ELSE Idle]
      /\ overlapped = FALSE /\ cut = FALSE /\ faults = 0
  BY DEF Init
<1>2. Len(<<>>) = 0 /\ \A S : <<>> \in Seq(S)
  BY EmptySeq
<1>3. Queued \in Told /\ Queued.status = "queued" /\ SnapshotOf(None) = Queued
  BY SnapshotOfTold DEF Queued, SnapshotOf
<1>4. WorkTold
  <2>1. faults \in 0..MaxFaults
    BY <1>1, StreamAssumption
  <2>2. exec \in [Executions -> Execution] /\ \A w \in Executions : exec[w].pc = "idle"
    BY <1>1, NoExecTold
  <2>3. QED
    BY <1>1, <1>3, <2>1, <2>2 DEF WorkTold
<1>5. StoreTold
  BY <1>1, <1>2 DEF StoreTold
<1>6. Off \in Observers(ToldProgress) /\ Off.pc = "off" /\ Off.pending = <<>> /\ Off.buffered = <<>>
  BY <1>2 DEF Off, Observers
<1>7. PageTold
  BY <1>1, <1>2, <1>3, <1>6 DEF PageTold, Observers
<1>8. JobFits
  <2>1. None \notin Executions /\ MaxAttempts \in Nat \ {0} /\ MaxStalls \in Nat
    BY StreamAssumption DEF Executions
  <2>2. job \in Job
    BY <1>1, <2>1 DEF Job
  <2>3. QED
    BY <1>1, <2>1, <2>2 DEF JobFits
<1>9. Alone /\ WorkFits
  <2>1. \A w \in Executions : exec[w].pc = "idle" /\ exec[w].inflight = None
    BY <1>1, NoExecTold
  <2>2. Alone
    BY <2>1 DEF Alone
  <2>3. \A w \in Executions : Works(exec[w], SnapshotOf(progress))
    BY <2>1 DEF Works
  <2>4. cleanup.pc = "none" /\ SnapshotOf(progress).status = "queued"
    BY <1>1, <1>3
  <2>5. QED
    BY <2>2, <2>3, <2>4 DEF WorkFits
<1>10. StreamFits
  <2>1. 1..Len(stream) = {} /\ \A i, j \in 0..Len(stream) : i = 0 /\ j = 0
    BY <1>1, <1>2
  <2>2. Snap(0).seq = 0
    BY DEF Snap, Queued
  <2>3. \A i, j \in 0..Len(stream) : i <= j => Snap(i).seq <= Snap(j).seq
    <3>1. 0 <= 0
      OBVIOUS
    <3>2. QED
      BY <2>1, <2>2, <3>1
  <2>4. QED
    BY <2>1, <2>3 DEF StreamFits
<1>11. Segment
  <2>1. Begins = 0 - 0 - 0
    BY <1>1, <1>2, <1>6 DEF Begins
  <2>2. Begins = 0
    BY <2>1
  <2>3. QED
    BY <1>1, <1>2, <1>6, <2>2 DEF Segment
<1>12. ViewFits
  <2> DEFINE f == [k \in 0..0 |-> 0]
  <2>1. f \in [0..Len(wire) -> 0..Len(stream)] /\ f[0] = 0
    BY <1>1, <1>2
  <2>2. Stands(0)
    <3>1. 0 \in 0..Len(stream) /\ 0 <= 0 /\ view = Snap(0)
      BY <1>1, <1>2 DEF Snap
    <3>2. QED
      BY <3>1 DEF Stands
  <2>3. Shows(f)
    BY <1>1, <1>2, <1>6, <2>1, <2>2 DEF Shows
  <2>4. QED
    BY <2>1, <2>3 DEF ViewFits
<1>13. ReadingTold
  <2>1. asks \in [Requests -> Requested] /\ \A r \in Requests : asks[r] \in {Asked, Idle} /\ (r # "query" => asks[r] = Idle)
    BY <1>1, AskedTold
  <2>2. \A r \in Requests : RequestTold(r, asks[r])
    BY <2>1, AskedTold DEF RequestTold
  <2>3. shown \in BOOLEAN
    BY <1>1
  <2>4. ahead \in BOOLEAN
    BY <1>1
  <2>5. stale \in BOOLEAN /\ ~stale
    BY <1>1
  <2>6. QED
    BY <1>1, <2>1, <2>2, <2>3, <2>4, <2>5 DEF ReadingTold
<1>14. Hidden
  BY <1>1, <1>6 DEF Hidden
<1>15. QED
  BY <1>4, <1>5, <1>7, <1>8, <1>9, <1>10, <1>11, <1>12, <1>13, <1>14 DEF StreamInv

LEMMA StreamRests == ASSUME StreamInv, UNCHANGED vars PROVE StreamInv'
<1>1. /\ UNCHANGED <<session, progress, stream, cursor, observer, wire, reading, overlapped>>
      /\ UNCHANGED <<progress, stream, api, wire, reading>> /\ UNCHANGED <<session, job, exec, cleanup, cut, faults>>
  BY DEF vars, worker, api, reading
<1>2. Told' = Told /\ ToldProgress' = ToldProgress /\ Execution' = Execution
  BY <1>1 DEF Told, ToldProgress, ToldEvent, Ends, Execution
<1>3. WorkTold'
  BY <1>1, <1>2 DEF StreamInv, WorkTold
<1>4. JobFits'
  BY <1>1 DEF StreamInv, JobFits
<1>5. ~overlapped' => ~overlapped /\ Alone' /\ WorkFits'
  BY <1>1 DEF StreamInv, Alone, WorkFits, Works
<1>6. QED
  BY <1>1, <1>3, <1>4, <1>5, WorkMoves

LEMMA WorkKeeps == ASSUME StreamInv, NEW w \in Executions,
  Take(w) \/ Load(w) \/ StartAttempt(w) \/ Emit(w) \/ Publish(w) \/ Commit(w) \/ Complete(w) \/ Finish(w)
       \/ AttemptError(w) \/ PublishError(w) \/ WorkerCrash(w)
  PROVE StreamInv' /\ UNCHANGED view
<1>1. StreamInv'
  BY TakeStep, LoadStep, StartAttemptStep, EmitStep, PublishStep, CommitStep, CompleteStep,
     FinishStep, AttemptErrorStep, PublishErrorStep, WorkerCrashStep
<1>2. UNCHANGED view
  BY DEF Take, Load, StartAttempt, Emit, Publish, Commit, Complete, Finish, AttemptError,
     PublishError, WorkerCrash, reading
<1>3. QED
  BY <1>1, <1>2

\* Every step of the stream keeps the invariant, and what takes the page back is a snapshot that
\* follows a response ahead of it, the answer to the action, or the end of showing the run.
LEMMA StreamGoesOn ==
  ASSUME StreamInv, [Next]_vars
  PROVE  StreamInv' /\ (view'.seq < view.seq => overlapped' \/ ahead \/ ~shown' \/ claimed' # claimed)
<1>1. view.seq \in Nat
  BY ToldFields DEF StreamInv, PageTold
<1>2. UNCHANGED view => ~(view'.seq < view.seq)
  BY <1>1
<1>3. CASE UNCHANGED vars
  <2>1. UNCHANGED view
    BY <1>3 DEF vars, reading
  <2>2. QED
    BY <1>2, <1>3, <2>1, StreamRests
<1>4. ASSUME NEW w \in Executions,
             Take(w) \/ Load(w) \/ StartAttempt(w) \/ Emit(w) \/ Publish(w) \/ Commit(w) \/ Complete(w)
               \/ Finish(w) \/ AttemptError(w) \/ PublishError(w) \/ WorkerCrash(w)
      PROVE  StreamInv' /\ ~(view'.seq < view.seq)
  BY <1>2, <1>4, WorkKeeps
<1>5. CASE Stall \/ RecoverCrashed \/ FailRun \/ PublishFailed
  <2>1. UNCHANGED view
    BY <1>5 DEF Stall, RecoverCrashed, FailRun, PublishFailed, reading
  <2>2. QED
    BY <1>2, <1>5, <2>1, StallStep, RecoverStep, FailRunStep, PublishFailedStep
<1>6. CASE Connect \/ ReadSnapshot \/ Deliver \/ Drain \/ Yield \/ Disconnect \/ ApiRestart
  <2>1. UNCHANGED view
    BY <1>6 DEF Connect, ReadSnapshot, Deliver, Drain, Yield, Disconnect, ApiRestart, reading
  <2>2. QED
    BY <1>2, <1>6, <2>1, ConnectStep, ReadSnapshotStep, DeliverStep, DrainStep, YieldStep,
       DisconnectStep, ApiRestartStep
<1>7. CASE Receive
  <2>1. overlapped' = overlapped
    BY <1>7 DEF Receive
  <2>2. StreamInv' /\ (~overlapped /\ ~ahead => view.seq <= view'.seq)
    BY <1>7, ReceiveStep
  <2>3. view'.seq \in Nat
    BY <2>2 DEF StreamInv, PageTold, Told, Snapshot
  <2>4. QED
    BY <1>1, <2>1, <2>2, <2>3
<1>8. CASE QueryStarts
  <2>1. UNCHANGED view
    BY <1>8 DEF QueryStarts
  <2>2. QED
    BY <1>2, <1>8, <2>1, QueryStartsStep
<1>9. ASSUME NEW r \in Requests, ReadRow(r) \/ ReadRun(r) PROVE StreamInv' /\ ~(view'.seq < view.seq)
  <2>1. UNCHANGED view
    BY <1>9 DEF ReadRow, ReadRun
  <2>2. QED
    BY <1>2, <1>9, <2>1, ReadRowStep, ReadRunStep
<1>10. CASE QueryApplied \/ RefreshApplied \/ AnswerArrives
  BY <1>10, ResponseAppliedStep, RefreshShownStep, AnswerShownStep
<1>11. QED
  BY <1>3, <1>4, <1>5, <1>6, <1>7, <1>8, <1>9, <1>10 DEF Next

LEMMA StreamContinues ==
  ASSUME StreamInv, [MCNext]_MCvars
  PROVE  StreamInv' /\ [view'.seq < view.seq => overlapped' \/ ahead \/ ~shown' \/ claimed' # claimed]_vars
<1>1. [Next]_vars
  BY DEF MCNext, MCvars
<1>2. QED
  BY <1>1, StreamGoesOn

LEMMA StreamLasts == MCSpec => []StreamInv
<1>1. MCInit => StreamInv
  BY StreamInvInit DEF MCInit
<1>2. QED
  BY <1>1, StreamContinues, PTL DEF MCSpec

LEMMA StreamTyped == StreamInv => TypeOK
<1> SUFFICES ASSUME StreamInv PROVE TypeOK
  OBVIOUS
<1>1. /\ Told \subseteq Snapshot /\ ToldEvent \subseteq Event /\ ToldEvent \cup {None} \subseteq Event \cup {None}
  BY ToldFields, EventFields
<1>2. ToldProgress \subseteq Progress
  BY <1>1 DEF ToldProgress, Progress
<1>3. ToldMessage \subseteq Message
  BY <1>1 DEF ToldMessage, Message
<1>4. \A A, B : A \subseteq B => Seq(A) \subseteq Seq(B)
  BY SeqMonotonic
<1>5. Seq(ToldProgress) \subseteq Seq(Progress) /\ Seq(ToldMessage) \subseteq Seq(Message)
  BY <1>2, <1>3, <1>4
<1>6. ToldProgress \cup {None} \subseteq Progress \cup {None}
  BY <1>2
<1>7. /\ session \in {"held", "committed", "released"} /\ job \in Job
      /\ overlapped \in BOOLEAN /\ cut \in BOOLEAN /\ faults \in 0..MaxFaults
  BY DEF StreamInv, WorkTold, JobFits
<1>8. exec \in [Executions -> [pc: {"idle", "taken", "running", "committed"},
                              snapshot: Snapshot, started: BOOLEAN, inflight: Progress \cup {None}]]
  BY <1>1, <1>6 DEF StreamInv, WorkTold, Execution
<1>9. cleanup \in [pc: {"none", "due", "publishing", "done"}, base: Snapshot]
  BY <1>1 DEF StreamInv, WorkTold
<1>10. progress \in Progress \cup {None} /\ stream \in Seq(Progress)
  BY <1>5, <1>6, StoreFields DEF StreamInv, StoreTold
<1>11. /\ cursor \in 0..Len(stream) /\ wire \in Seq(Message) /\ view \in Snapshot
       /\ observer \in [pc: {"off", "listening", "open"}, buffered: Seq(Progress),
                        pending: Seq(Progress), last: Nat]
  BY <1>1, <1>5 DEF StreamInv, PageTold
<1>12. known \in Answer \cup {None} /\ claimed \in BOOLEAN
  BY <1>1 DEF StreamInv, ReadingTold, ToldAnswer, Answer
<1>13. asks \in [Requests -> [pc: {"idle", "asked", "row", "answered", "done"}, answer: Answer \cup {None}]]
  <2>1. ToldAnswer \subseteq Answer
    BY <1>1 DEF ToldAnswer, Answer
  <2>2. Requested \subseteq [pc: {"idle", "asked", "row", "answered", "done"}, answer: Answer \cup {None}]
    BY <2>1 DEF Requested
  <2>3. QED
    BY <2>2 DEF StreamInv, ReadingTold
<1>14. shown \in BOOLEAN
  BY DEF StreamInv, ReadingTold
<1>15. ahead \in BOOLEAN /\ stale \in BOOLEAN
  BY DEF StreamInv, ReadingTold
<1>16. QED
  BY <1>7, <1>8, <1>9, <1>10, <1>11, <1>12, <1>13, <1>14, <1>15 DEF TypeOK

LEMMA ViewIsPublished == StreamInv => ViewWasPublished
<1> SUFFICES ASSUME StreamInv, ~overlapped, ~stale, view.status # "failed" PROVE view \in Published
  BY DEF ViewWasPublished
<1>1. PICK at \in [0..Len(wire) -> 0..Len(stream)] : Shows(at)
  BY DEF StreamInv, ViewFits
<1>2. PICK v \in 0..Len(stream) : view = Snap(v)
  BY <1>1, ShowsIs DEF Stands
<1>3. v = 0 \/ v \in 1..Len(stream)
  BY <1>2, StoreFields DEF StreamInv
<1>4. SnapshotOf(None) = Queued
  BY DEF SnapshotOf
<1>5. QED
  BY <1>2, <1>3, <1>4 DEF Published, Snap

LEMMA EndIsTold == StreamInv => EndIsTrue
<1> SUFFICES ASSUME StreamInv PROVE EndIsTrue
  OBVIOUS
<1>1. QED
  BY ToldFields DEF StreamInv, PageTold, Ends, EndIsTrue

(***************************************************************************)
(* Theorems                                                                *)
(***************************************************************************)
\* The variables of the sink keep to their types.
THEOREM SinkTypeCorrect == MCSpec => []Sink!TypeOK
<1>1. SinkInv => Sink!TypeOK
  BY DEF SinkInv
<1>2. QED
  BY <1>1, SinkAlways, PTL

\* Deltas are never merged over the border of a content slot or of a tool call, and whoever
\* waits, waits for an item that the pump has still to pass.
THEOREM MergingIsSound == MCSpec => []SinkIsSound
<1>1. SinkInv => SinkIsSound
  BY DeltasAreApart DEF SinkInv, SinkIsSound
<1>2. QED
  BY <1>1, SinkAlways, PTL

\* The sink is a channel: what is accepted is projected once, in order, and before whoever waits
\* for it is told so, however events are merged and queued.
THEOREM SinkIsChannel == MCSpec => ImplementsChannel
<1>1. MCInit => Sink!Channel!Init
  BY SinkInvInit DEF MCInit
<1>2. QED
  BY <1>1, SinkGoesOn, SinkAlways, PTL DEF MCSpec, ImplementsChannel, Sink!ImplementsChannel,
     Sink!Channel!Spec

\* The session, what the page knows of it and the requests keep to their types.
THEOREM ClientTypeCorrect == MCSpec => [](On("client") => Client!TypeOK)
<1>1. ClientHolds => (On("client") => Client!TypeOK)
  BY DEF ClientHolds, ClientInv
<1>2. QED
  BY <1>1, ClientAlways, PTL

\* A page that was told of a run observes it and stays locked while the run is the active one,
\* unless a response read before it was applied after the answer (useReadingSetupSession).
THEOREM PageFollowsItsSession == MCSpec => []PageFollowsSession
<1>1. ClientHolds => PageFollowsSession
  BY PageFollows DEF ClientHolds, PageFollowsSession
<1>2. QED
  BY <1>1, ClientAlways, PTL

\* The run, its job, what Redis and the API process keep of it, and the page keep to their types.
THEOREM StreamTypeCorrect == MCSpec => []TypeOK
<1>1. QED
  BY StreamTyped, StreamLasts, PTL

\* What the page shows was published by the worker, whatever connections broke, attempts were
\* repeated and responses of the session came in between, unless an attempt goes on that was
\* given up, a response read before a reset came after it and no snapshot has followed yet, or
\* it is the end of a failed run; and when the page shows an end, the outcome is in the session
\* (agent-run-observation.ts, run-reducer.ts, job.ts, useReadingSetupSession.ts).
THEOREM PageShowsThePublished == MCSpec => []ViewIsTrue
<1>1. StreamInv => ViewIsTrue
  BY ViewIsPublished, EndIsTold DEF ViewIsTrue
<1>2. QED
  BY <1>1, StreamLasts, PTL

\* Unless an attempt goes on that was given up, the page goes back to an older display in three
\* cases only: a snapshot of its connection follows a response that was ahead of it, the answer to the action arrives after a response, or
\* the run is no longer shown (run-reducer.ts, useReadingSetupSession.ts).
THEOREM PageNeverGoesBack == MCSpec => ViewNeverGoesBack
<1>1. StreamInv /\ [MCNext]_MCvars =>
       [view'.seq < view.seq => overlapped' \/ ahead \/ ~shown' \/ claimed' # claimed]_vars
  BY StreamContinues
<1>2. QED
  BY <1>1, StreamLasts, PTL DEF MCSpec, ViewNeverGoesBack
=============================================================================
