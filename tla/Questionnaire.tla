--------------------------- MODULE Questionnaire ---------------------------
(***************************************************************************)
(* One question of the onboarding with several answers (OnboardingPage),   *)
(* and what the server makes of a submission (validateProfileOnboarding-   *)
(* Input and sameOnboarding in apps/api/src/profiles.ts).  The page keeps  *)
(* the options in the order they were chosen; the first submission stands, *)
(* and a repeated one is recognized by comparing normalized answers.       *)
(*                                                                         *)
(* Options are numbered in the order of the server's list.  Free text and  *)
(* the question with a single answer are left out: they have no rules that *)
(* page and server could disagree about.                                   *)
(***************************************************************************)
EXTENDS LibraryConstants, Sequences, FiniteSets, SequencesExt

VARIABLES
  selected,  \* the options chosen, in that order
  stored,    \* reader_profile_onboardings: the normalized answers, or None
  outcome    \* of the last submission

vars == <<selected, stored, outcome>>

TypeOK ==
  /\ selected \in BoundedSeq(Options, MaxChosen + 1)
  /\ stored \in BoundedSeq(Options, MaxChosen) \cup {None}
  /\ outcome \in {"none", "accepted", "different", "invalid"}

Init == selected = <<>> /\ stored = None /\ outcome = "none"

\* The numbers of a set in ascending order: each has as many below it as come before it.
Ascending(numbers) ==
  [n \in 1..Cardinality(numbers) |-> CHOOSE x \in numbers : Cardinality({y \in numbers : y < x}) = n - 1]

(***************************************************************************)
(* The page                                                                *)
(***************************************************************************)
Chosen == ToSet(selected)

\* A further option cannot be ticked when the selection is full; the exclusive one can.
Enabled(o) == o \in Chosen \/ o = Exclusive \/ Exclusive \in Chosen \/ Len(selected) < MaxChosen

Without(s, o) ==
  LET kept == Ascending({i \in DOMAIN s : s[i] # o}) IN [n \in DOMAIN kept |-> s[kept[n]]]

\* The exclusive option replaces the others, any other one replaces it.
Toggled(o) ==
  IF o \in Chosen THEN Without(selected, o)
  ELSE IF o = Exclusive THEN <<o>>
  ELSE LET rest == Without(selected, Exclusive)
       IN IF Len(rest) >= MaxChosen THEN rest ELSE Append(rest, o)

Toggle(o) ==
  /\ Enabled(o)
  /\ selected' = Toggled(o) /\ outcome' = "none"
  /\ UNCHANGED stored

(***************************************************************************)
(* The server                                                              *)
(***************************************************************************)
Valid(value) ==
  /\ Len(value) \in 1..MaxChosen
  /\ IsInjective(value) /\ ToSet(value) \subseteq Options
  /\ Exclusive \in ToSet(value) => Len(value) = 1

\* Faulty variant: the options stay in the order they were chosen.
AsChosen(value) == value

Normalized(value) == Ascending(ToSet(value))

\* The page submits what it lets through; the first answers stand.
Submit ==
  /\ selected # <<>>
  /\ stored' = IF Valid(selected) /\ stored = None THEN Normalized(selected) ELSE stored
  /\ outcome' = IF ~Valid(selected) THEN "invalid"
                ELSE IF stored' = Normalized(selected) THEN "accepted" ELSE "different"
  /\ UNCHANGED selected

\* The page is opened again.
Reload == selected' = <<>> /\ outcome' = "none" /\ UNCHANGED stored

Next == Submit \/ Reload \/ \E o \in Options : Toggle(o)

Spec == Init /\ [][Next]_vars

(***************************************************************************)
(* Property                                                                *)
(***************************************************************************)
\* Whatever the page lets the reader choose is accepted, and the same choice made again, in any
\* order, is recognized as the same.
ChoiceIsRecognized ==
  /\ outcome # "invalid"
  /\ (stored # None /\ outcome # "none") => (outcome = "accepted") = (Chosen = ToSet(stored))
=============================================================================
