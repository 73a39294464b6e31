------------------------- MODULE MCNormalizationProofs -------------------------
(***************************************************************************)
(* Theorems about the run of the components that bring a book into the     *)
(* library (MCNormalization), for every value of their constants.  While   *)
(* the focus is on a component, its invariant holds (LibraryProofs), and   *)
(* the focus stays where it is.                                            *)
(***************************************************************************)
EXTENDS MCNormalization, LibraryProofs

(***************************************************************************)
(* The performance log                                                     *)
(***************************************************************************)
\* While the focus is on the performance log, its invariant holds.
LogHolds == On("log") => PerfInv

LEMMA LogStarts == MCInit => LogHolds
BY PerfInvInit DEF MCInit, On, LogHolds

LEMMA LogGoesOn == ASSUME LogHolds, [MCNext]_MCvars PROVE LogHolds'
<1>1. CASE ~On("log")
  BY <1>1 DEF On, LogHolds, MCNext, MCvars
<1>2. CASE On("log")
  <2>1. [Log!Next]_(Log!vars)
    BY <1>2 DEF MCNext, MCvars, On, log, Log!vars
  <2>2. QED
    BY <1>2, <2>1, PerfInvStep DEF LogHolds
<1>3. QED
  BY <1>1, <1>2

LEMMA LogAlways == MCSpec => []LogHolds
BY LogStarts, LogGoesOn, PTL DEF MCSpec

\* The variables of the log keep to their types.
THEOREM PerfTypeCorrect == MCSpec => [](On("log") => Log!TypeOK)
<1>1. LogHolds => (On("log") => Log!TypeOK)
  BY DEF LogHolds, PerfInv
<1>2. QED
  BY <1>1, LogAlways, PTL

\* No event is lost, written twice or left in the buffer without anything that is going to take
\* it, whatever is recorded while a flush or close is under way and whichever insert fails.
THEOREM EventsAreAccountedFor == MCSpec => []EventsAreKept
<1>1. LogHolds => EventsAreKept
  BY DEF LogHolds, PerfInv, EventsAreKept, Log!EventsAreKept
<1>2. QED
  BY <1>1, LogAlways, PTL

(***************************************************************************)
(* The packages of books                                                   *)
(***************************************************************************)
\* While the focus is on the packages, their invariant holds.
PackagesHold == On("packages") => WholeInv

LEMMA PackagesStart == MCInit => PackagesHold
BY WholeInvInit DEF MCInit, On, PackagesHold

LEMMA PackagesGoOn == ASSUME PackagesHold, [MCNext]_MCvars PROVE PackagesHold'
<1>1. CASE ~On("packages")
  BY <1>1 DEF On, PackagesHold, MCNext, MCvars
<1>2. CASE On("packages")
  <2>1. [Packages!Next]_(Packages!vars)
    BY <1>2 DEF MCNext, MCvars, On, packages, Packages!vars
  <2>2. QED
    BY <1>2, <2>1, WholeInvStep DEF PackagesHold
<1>3. QED
  BY <1>1, <1>2

LEMMA PackagesAlways == MCSpec => []PackagesHold
BY PackagesStart, PackagesGoOn, PTL DEF MCSpec

\* Book, storage, directory and tools keep their types.
THEOREM PackagesTypeCorrect == MCSpec => [](On("packages") => Packages!TypeOK)
<1>1. PackagesHold => (On("packages") => Packages!TypeOK)
  BY DEF PackagesHold, WholeInv, PackagesTyped
<1>2. QED
  BY <1>1, PackagesAlways, PTL

\* Every file of the package of a book is in the storage with the content its row records,
\* whatever failed and whoever published beside (publishImmutablePackage, putIfAbsent).
THEOREM PackagesAreWhole == MCSpec => []PackageIsWhole
<1>1. PackagesHold => PackageIsWhole
  BY DEF PackagesHold, WholeInv, BookIsStored, Sheltered, Present, Stored, PackageIsWhole,
         Packages!PackageIsWhole, Packages!Artifact
<1>2. QED
  BY <1>1, PackagesAlways, PTL

(***************************************************************************)
(* The attempts of a normalization                                         *)
(***************************************************************************)
\* While the focus is on the attempts, their invariant holds.
AttemptHolds == On("attempt") => AttemptInv

LEMMA AttemptStarts == MCInit => AttemptHolds
BY AttemptInvInit DEF MCInit, On, AttemptHolds

LEMMA AttemptGoesOn == ASSUME AttemptHolds, [MCNext]_MCvars PROVE AttemptHolds'
<1>1. CASE ~On("attempt")
  BY <1>1 DEF On, AttemptHolds, MCNext, MCvars
<1>2. CASE On("attempt")
  <2>1. Attempt!Next \/ UNCHANGED attempt
    BY <1>2 DEF MCNext, MCvars, On
  <2>2. CASE Attempt!Next
    BY <1>2, <2>2, AttemptInvStep DEF AttemptHolds
  <2>3. CASE UNCHANGED attempt
    BY <1>2, <2>3, AttemptRests DEF AttemptHolds, attempt
  <2>4. QED
    BY <2>1, <2>2, <2>3
<1>3. QED
  BY <1>1, <1>2

LEMMA AttemptAlways == MCSpec => []AttemptHolds
BY AttemptStarts, AttemptGoesOn, PTL DEF MCSpec

\* Rows, sandbox and what the worker keeps of an attempt keep their types.
THEOREM AttemptTypeCorrect == MCSpec => [](On("attempt") => Attempt!TypeOK)
<1>1. AttemptHolds => (On("attempt") => Attempt!TypeOK)
  BY DEF AttemptHolds, AttemptInv, WorkTyped, OthersTyped, Attempt!TypeOK
<1>2. QED
  BY <1>1, AttemptAlways, PTL

\* What an attempt that succeeded has uploaded is a whole, sound output that agent and worker
\* attest alike: of the attested script unless two writes of it failed unseen, with its own report
\* unless one was not stored (finishNormalization, validateNormalizedCandidate).
THEOREM CandidatesAreAttested == MCSpec => []CandidateIsAttested
<1>1. AttemptHolds => CandidateIsAttested
  BY DEF AttemptHolds, AttemptInv, CandidateIsAttested
<1>2. QED
  BY <1>1, AttemptAlways, PTL

(***************************************************************************)
(* Accounts, sessions and profiles, and the questions of the onboarding    *)
(***************************************************************************)
\* While the focus is on the accounts or on the question, their invariants hold.
AccountsHold == On("accounts") => AccountsInv
QuestionHolds == On("question") => QuestionInv

LEMMA AccountsStart == MCInit => AccountsHold
BY AccountsInvInit DEF MCInit, On, AccountsHold

LEMMA AccountsGoOn == ASSUME AccountsHold, [MCNext]_MCvars PROVE AccountsHold'
<1>1. CASE ~On("accounts")
  BY <1>1 DEF On, AccountsHold, MCNext, MCvars
<1>2. CASE On("accounts")
  <2>1. [Accounts!Next]_(Accounts!vars)
    BY <1>2 DEF MCNext, MCvars, On, tabs, Accounts!vars
  <2>2. QED
    BY <1>2, <2>1, AccountsInvStep DEF AccountsHold
<1>3. QED
  BY <1>1, <1>2

LEMMA AccountsAlways == MCSpec => []AccountsHold
BY AccountsStart, AccountsGoOn, PTL DEF MCSpec

LEMMA QuestionStarts == MCInit => QuestionHolds
BY QuestionInvInit DEF MCInit, On, QuestionHolds

LEMMA QuestionGoesOn == ASSUME QuestionHolds, [MCNext]_MCvars PROVE QuestionHolds'
<1>1. CASE ~On("question")
  BY <1>1 DEF On, QuestionHolds, MCNext, MCvars
<1>2. CASE On("question")
  <2>1. [Question!Next]_(Question!vars)
    BY <1>2 DEF MCNext, MCvars, On, answers, Question!vars
  <2>2. QED
    BY <1>2, <2>1, QuestionInvStep DEF QuestionHolds
<1>3. QED
  BY <1>1, <1>2

LEMMA QuestionAlways == MCSpec => []QuestionHolds
BY QuestionStarts, QuestionGoesOn, PTL DEF MCSpec

\* Accounts, sessions, requests and pages keep their types.
THEOREM AccountsTypeCorrect == MCSpec => [](On("accounts") => Accounts!TypeOK)
<1>1. AccountsHold => (On("accounts") => Accounts!TypeOK)
  BY DEF AccountsHold, AccountsInv
<1>2. QED
  BY <1>1, AccountsAlways, PTL

\* The selection, the stored answers and the outcome keep their types.
THEOREM QuestionTypeCorrect == MCSpec => [](On("question") => Question!TypeOK)
<1>1. QuestionHolds => (On("question") => Question!TypeOK)
  BY QuestionTyped DEF QuestionHolds
<1>2. QED
  BY <1>1, QuestionAlways, PTL

\* A tab with nothing under way shows the reader of the cookie, whoever is told of a profile is told
\* the one that stands (auth.ts, profiles.ts, AuthProvider), and whatever the page lets the reader
\* choose is accepted and recognized when it comes again (OnboardingPage, sameOnboarding).
THEOREM AccountsAreAgreed == MCSpec => []AccountIsAgreed
<1>1. AccountsHold /\ QuestionHolds => AccountIsAgreed
  BY AccountsAgree, QuestionRecognized DEF AccountsHold, QuestionHolds, AccountIsAgreed
<1>2. QED
  BY <1>1, AccountsAlways, QuestionAlways, PTL

(***************************************************************************)
(* The html of a published book, and the types of all components           *)
(***************************************************************************)
\* A document is a sequence of nodes of its vocabulary, each with its place in the tree.
NodeKind == [tag : vocabulary.tags \cup {"bodymatter"}, depth : Nat]
HtmlInv  == Html!TypeOK /\ doc \in Seq(NodeKind)

LEMMA VocabularySizes ==
  ASSUME NEW v \in Html!Vocabularies PROVE v.more \in Nat /\ MaxTree + v.more \in Nat
<1>1. MaxTree \in Nat
  BY TreeAssumption
<1>2. v.more \in {0, 1, 2}
  BY DEF Html!Vocabularies
<1>3. QED
  BY <1>1, <1>2

LEMMA HtmlInvInit == Html!Init => HtmlInv
<1> SUFFICES ASSUME Html!Init PROVE HtmlInv
  OBVIOUS
<1>1. vocabulary \in Html!Vocabularies /\ stage = "writing" /\ manifest = None
  BY DEF Html!Init
<1> DEFINE root == [tag |-> "bodymatter", depth |-> 0]
<1>2. doc = <<root>> /\ root \in NodeKind
  BY DEF Html!Init, NodeKind
<1>3. doc \in Seq(NodeKind) /\ Len(doc) = 1 /\ doc[1].tag = "bodymatter" /\ doc[1].depth = 0
  BY <1>2
<1>4. MaxTree \in Nat \ {0} /\ vocabulary.more \in Nat
  BY <1>1, VocabularySizes, TreeAssumption
<1>5. 1 \in 1..MaxTree + vocabulary.more
  BY <1>4
<1>6. \A i \in Html!Nodes(doc) :
        doc[i].tag \in vocabulary.tags \cup {"bodymatter"} /\ doc[i].depth < i
  <2>1. Html!Nodes(doc) = {1}
    BY <1>3 DEF Html!Nodes
  <2>2. QED
    BY <1>3, <2>1
<1>7. QED
  BY <1>1, <1>3, <1>5, <1>6 DEF HtmlInv, Html!TypeOK

LEMMA WriteKeepsTypes ==
  ASSUME HtmlInv, NEW tag \in vocabulary.tags, NEW depth \in 1..MaxTree + vocabulary.more,
         Html!Write(tag, depth)
  PROVE  HtmlInv'
<1> DEFINE node == [tag |-> tag, depth |-> depth]
<1>1. /\ stage = "writing" /\ Len(Append(doc, node)) <= MaxTree + vocabulary.more
      /\ depth \in 1..Html!Last(doc).depth + 1 /\ doc' = Append(doc, node)
      /\ vocabulary' = vocabulary /\ stage' = stage /\ manifest' = manifest
  BY DEF Html!Write
<1>2. vocabulary \in Html!Vocabularies /\ doc \in Seq(NodeKind) /\ Len(doc) \in Nat \ {0}
        /\ manifest = None
  BY <1>1 DEF HtmlInv, Html!TypeOK
<1>3. vocabulary.more \in Nat /\ MaxTree + vocabulary.more \in Nat
  BY <1>2, VocabularySizes
<1>4. depth \in Nat /\ node \in NodeKind
  BY <1>3 DEF NodeKind
<1>5. /\ doc' \in Seq(NodeKind) /\ Len(doc') = Len(doc) + 1
      /\ \A i \in 1..Len(doc) : doc'[i] = doc[i]
      /\ doc'[Len(doc) + 1] = node
  BY <1>1, <1>2, <1>4, AppendProperties
<1>6. NodeKind' = NodeKind
  BY <1>1 DEF NodeKind
<1>7. Len(doc') \in 1..MaxTree + vocabulary.more
  BY <1>1, <1>2, <1>3, <1>5
<1>8. \A i \in Html!Nodes(doc) :
        doc[i].tag \in vocabulary.tags \cup {"bodymatter"} /\ doc[i].depth < i
  BY DEF HtmlInv, Html!TypeOK
<1>9. Html!Nodes(doc) = 1..Len(doc) /\ Html!Nodes(doc') = 1..Len(doc) + 1
  BY <1>2, <1>5 DEF Html!Nodes
<1>10. depth < Len(doc) + 1
  <2>1. doc[Len(doc)].depth < Len(doc) /\ doc[Len(doc)].depth \in Nat
    <3>1. Len(doc) \in Html!Nodes(doc)
      BY <1>2, <1>9
    <3>2. doc[Len(doc)] \in NodeKind
      BY <1>2
    <3>3. QED
      BY <1>8, <3>1, <3>2 DEF NodeKind
  <2>2. Html!Last(doc) = doc[Len(doc)]
    BY DEF Html!Last
  <2>3. QED
    BY <1>1, <1>2, <1>4, <2>1, <2>2
<1>11. \A i \in 1..Len(doc) + 1 :
         doc'[i].tag \in vocabulary.tags \cup {"bodymatter"} /\ doc'[i].depth < i
  <2>1. TAKE i \in 1..Len(doc) + 1
  <2>2. CASE i \in 1..Len(doc)
    BY <1>5, <1>8, <1>9, <2>2
  <2>3. CASE i = Len(doc) + 1
    BY <1>5, <1>10, <2>3
  <2>4. QED
    BY <1>2, <2>2, <2>3
<1>12. Html!TypeOK'
  BY <1>1, <1>2, <1>7, <1>9, <1>11 DEF HtmlInv, Html!TypeOK
<1>13. QED
  BY <1>5, <1>6, <1>12 DEF HtmlInv

LEMMA HtmlInvStep == ASSUME HtmlInv, [Html!Next]_(Html!vars) PROVE HtmlInv'
<1>1. ASSUME NEW tag \in vocabulary.tags, NEW depth \in 1..MaxTree + vocabulary.more,
             Html!Write(tag, depth)
      PROVE  HtmlInv'
  BY <1>1, WriteKeepsTypes
<1>2. ASSUME vocabulary' = vocabulary, doc' = doc,
             stage' \in {"writing", "built", "published", "refused", "open", "failed"},
             manifest' = IF stage' = "writing" THEN None ELSE Html!Importer!BuildManifest(doc)
      PROVE  HtmlInv'
  BY <1>2 DEF HtmlInv, Html!TypeOK, NodeKind
<1>3. CASE Html!BuildManifest
  BY <1>2, <1>3 DEF Html!BuildManifest
<1>4. CASE Html!PublishNormalizedCandidate
  BY <1>2, <1>4 DEF Html!PublishNormalizedCandidate, HtmlInv, Html!TypeOK
<1>5. CASE Html!OpenBook
  BY <1>2, <1>5 DEF Html!OpenBook, HtmlInv, Html!TypeOK
<1>6. CASE UNCHANGED Html!vars
  BY <1>2, <1>6 DEF Html!vars, HtmlInv, Html!TypeOK
<1>7. QED
  BY <1>1, <1>3, <1>4, <1>5, <1>6 DEF Html!Next

\* While the focus is on the html of a book or on the runs, their invariants hold.
HtmlHolds == On("html") => HtmlInv
RunsHold  == On("runs") => TypeInv

LEMMA HtmlStarts == MCInit => HtmlHolds
BY HtmlInvInit DEF MCInit, On, HtmlHolds

LEMMA HtmlGoesOn == ASSUME HtmlHolds, [MCNext]_MCvars PROVE HtmlHolds'
<1>1. CASE ~On("html")
  BY <1>1 DEF On, HtmlHolds, MCNext, MCvars
<1>2. CASE On("html")
  <2>1. [Html!Next]_(Html!vars)
    BY <1>2 DEF MCNext, MCvars, On, html, Html!vars
  <2>2. QED
    BY <1>2, <2>1, HtmlInvStep DEF HtmlHolds
<1>3. QED
  BY <1>1, <1>2

LEMMA HtmlAlways == MCSpec => []HtmlHolds
BY HtmlStarts, HtmlGoesOn, PTL DEF MCSpec

LEMMA RunsStart == MCInit => RunsHold
BY TypeInvInit DEF MCInit, RunsHold

LEMMA RunsGoOn == ASSUME RunsHold, [MCNext]_MCvars PROVE RunsHold'
<1>1. CASE ~On("runs")
  BY <1>1 DEF On, RunsHold, MCNext, MCvars
<1>2. CASE On("runs")
  <2>1. [Next]_vars
    BY <1>2 DEF MCNext, MCvars, On
  <2>2. QED
    BY <1>2, <2>1, TypeInvNext DEF RunsHold
<1>3. QED
  BY <1>1, <1>2

LEMMA RunsAlways == MCSpec => []RunsHold
BY RunsStart, RunsGoOn, PTL DEF MCSpec

\* Document and manifest keep their types: a manifest is what the importer makes of the document
\* (build_manifest).
THEOREM HtmlTypeCorrect == MCSpec => [](On("html") => Html!TypeOK)
<1>1. HtmlHolds => (On("html") => Html!TypeOK)
  BY DEF HtmlHolds, HtmlInv
<1>2. QED
  BY <1>1, HtmlAlways, PTL

\* Every component of the library keeps its types and bounds.
THEOREM LibraryTypeCorrect == MCSpec => []MCTypeOK
<1>1. RunsHold => (On("runs") => TypeOK)
  BY DEF RunsHold, TypeInv
<1>2. QED
  BY <1>1, RunsAlways, AttemptTypeCorrect, AccountsTypeCorrect, QuestionTypeCorrect,
     PackagesTypeCorrect, PerfTypeCorrect, HtmlTypeCorrect, PTL DEF MCTypeOK
================================================================================
