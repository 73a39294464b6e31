---------------------------- MODULE EventChannel ----------------------------
(***************************************************************************)
(* What the agent loop and the job may rely on when they hand events to    *)
(* the projection of a run: events are projected in the order in which     *)
(* they were accepted, none is skipped, and a caller that is told "done"   *)
(* is told so after everything it waited for.  CoalescingSink implements   *)
(* this specification.                                                     *)
(***************************************************************************)
EXTENDS Naturals

CONSTANTS Callers

VARIABLES
  accepted,   \* how many events were accepted
  projected,  \* the accepted events that were projected, in order
  promise,    \* the call of each caller and the event it waits for
  broken      \* the projection has failed: nothing is accepted any more

vars == <<accepted, projected, promise, broken>>

Prefix(n) == [i \in 1..n |-> i]

Init ==
  /\ accepted = 0 /\ projected = Prefix(0)
  /\ promise = [c \in Callers |-> [state |-> "none", upto |-> 0]]
  /\ broken = FALSE

\* Callers are answered as the projection allows: resolved only when what they wait
\* for has been projected, rejected only when the projection is broken.
Answers ==
  \A c \in Callers :
    \/ promise'[c] = promise[c]
    \/ /\ promise[c].state = "waiting" /\ promise'[c] = [promise[c] EXCEPT !.state = "resolved"]
       /\ \E n \in promise[c].upto..accepted : projected' = Prefix(n)
    \/ /\ promise[c].state = "waiting" /\ promise'[c] = [promise[c] EXCEPT !.state = "rejected"]
       /\ broken'

\* An event is accepted that nobody waits for.
Offer == ~broken /\ accepted' = accepted + 1 /\ UNCHANGED <<projected, promise, broken>>

\* A caller waits for its event, or for all events accepted so far, in which case it
\* may find them projected already.
OfferAndWait ==
  /\ ~broken /\ accepted' \in {accepted, accepted + 1}
  /\ \E c \in Callers, answer \in {"waiting", "resolved"} :
       /\ promise[c].state # "waiting"
       /\ promise' = [promise EXCEPT ![c] = [state |-> answer, upto |-> accepted']]
       /\ answer = "resolved" => projected = Prefix(accepted')
  /\ UNCHANGED <<projected, broken>>

\* A call after the failure is rejected at once.
Refuse ==
  /\ broken
  /\ \E c \in Callers :
       /\ promise[c].state # "waiting"
       /\ promise' = [promise EXCEPT ![c] = [state |-> "rejected", upto |-> accepted]]
  /\ UNCHANGED <<accepted, projected, broken>>

\* The next events are projected.
Project ==
  /\ ~broken
  /\ \E n \in 1..accepted : /\ projected' = Prefix(n)
                            /\ \E m \in 0..n : projected = Prefix(m)
  /\ Answers
  /\ UNCHANGED <<accepted, broken>>

Break ==
  /\ ~broken /\ broken'
  /\ Answers
  /\ UNCHANGED <<accepted, projected>>

Next == Offer \/ OfferAndWait \/ Refuse \/ Project \/ Break

Spec == Init /\ [][Next]_vars
=============================================================================
