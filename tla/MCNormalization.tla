-------------------------- MODULE MCNormalization --------------------------
(***************************************************************************)
(* Instances for TLC of the components that bring a book into the library. *)
(* They share no state in the models: a behaviour is one of a single       *)
(* component, chosen by focus.                                             *)
(***************************************************************************)
EXTENDS Normalization, LibraryParts, TLC

VARIABLES focus, vocabulary, doc, stage, manifest

html   == <<vocabulary, doc, stage, manifest>>
MCvars == <<focus, vars, attempt, tabs, answers, packages, log, html>>

Html == INSTANCE PublishedBook

\* The variables of a component that has not the focus hold nothing.
NoAttempt  == /\ runActive = None /\ rows = None /\ phase = None /\ turns = None /\ box = None
              /\ remote = None /\ reportKey = None /\ claimed = None /\ candidate = None
              /\ unrecorded = None
NoTabs     == /\ account = None /\ session = None /\ cookie = None /\ page = None
              /\ calls = None /\ behind = None /\ budget = None
NoAnswers  == selected = None /\ stored = None /\ outcome = None
NoPackages == /\ conditional = None /\ objects = None /\ directory = None /\ edits = None /\ starts = None
              /\ sharedBook = None /\ ingestRun = None /\ tool = None
NoLog      == /\ buffer = None /\ batch = None /\ timer = None /\ flushing = None
              /\ closing = None /\ recorded = None /\ written = None /\ dropped = None
NoHtml     == vocabulary = None /\ doc = None /\ stage = None /\ manifest = None

MCInit ==
  /\ focus \in {"runs", "attempt", "accounts", "question", "packages", "log", "html"}
  /\ Init
  /\ focus # "runs" => worker = "up"  \* the other components do not depend on it
  /\ IF focus = "attempt" THEN Attempt!Init ELSE NoAttempt
  /\ IF focus = "accounts" THEN Accounts!Init ELSE NoTabs
  /\ IF focus = "question" THEN Question!Init ELSE NoAnswers
  /\ IF focus = "packages" THEN Packages!Init ELSE NoPackages
  /\ IF focus = "log" THEN Log!Init ELSE NoLog
  /\ IF focus = "html" THEN Html!Init ELSE NoHtml

MCNext ==
  /\ UNCHANGED focus
  /\ \/ focus = "runs" /\ Next /\ UNCHANGED <<attempt, tabs, answers, packages, log, html>>
     \/ focus = "attempt" /\ Attempt!Next
        /\ UNCHANGED <<vars, tabs, answers, packages, log, html>>
     \/ focus = "accounts" /\ Accounts!Next
        /\ UNCHANGED <<vars, attempt, answers, packages, log, html>>
     \/ focus = "question" /\ Question!Next
        /\ UNCHANGED <<vars, attempt, tabs, packages, log, html>>
     \/ focus = "packages" /\ Packages!Next
        /\ UNCHANGED <<vars, attempt, tabs, answers, log, html>>
     \/ focus = "log" /\ Log!Next /\ UNCHANGED <<vars, attempt, tabs, answers, packages, html>>
     \/ focus = "html" /\ Html!Next /\ UNCHANGED <<vars, attempt, tabs, answers, packages, log>>

MCSpec == MCInit /\ [][MCNext]_MCvars

\* Which run, request or slot is a matter of names only, and the configuration gives the other
\* components the same names; no liveness is checked of this specification.
Symmetry == UNION {Permutations(s) : s \in {Runs, Requests, Slots}}

(***************************************************************************)
(* The properties of the components, by their names there                  *)
(***************************************************************************)
\* What concerns the other components is not evaluated: they hold nothing.
On(component) == focus = component

\* Every component is in a state of its types.
MCTypeOK == /\ On("runs") => TypeOK
            /\ On("attempt") => Attempt!TypeOK
            /\ On("accounts") => Accounts!TypeOK
            /\ On("question") => Question!TypeOK
            /\ On("packages") => Packages!TypeOK
            /\ On("log") => Log!TypeOK
            /\ On("html") => Html!TypeOK

\* A candidate is what agent and worker attest (NormalizationAttempt).
CandidateIsAttested == On("attempt") => Attempt!CandidateIsAttested

\* What tabs are told of an account agrees with it (Accounts), and the answers to the onboarding
\* are recognized (Questionnaire).
AccountIsAgreed == /\ On("accounts") => Accounts!AccountIsAgreed
                   /\ On("question") => Question!ChoiceIsRecognized

\* What the row of a published book records is in the storage (PackagePublication).
PackageIsWhole == On("packages") => Packages!PackageIsWhole

\* Who reads the html of a published book agrees with its manifest (PublishedBook).
ReadersAgree == On("html") => Html!Sound

\* The performance log accounts for every event (PerfBuffer).
EventsAreKept == On("log") => Log!EventsAreKept
=============================================================================
