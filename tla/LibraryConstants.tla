-------------------------- MODULE LibraryConstants --------------------------
(***************************************************************************)
(* The parameters of the components that bring a book into the library,    *)
(* beside Normalization, and what is assumed of them.  MCNormalization     *)
(* gives these their values.                                               *)
(***************************************************************************)
EXTENDS Naturals, Null

\* NormalizationAttempt
CONSTANTS
  Scripts,       \* contents of normalize.py
  SoundScripts,  \* those whose output has no blocking error
  SandboxTries,  \* maxAttempts of runFormalNormalization
  MaxTurns       \* maxTurns of the agent loop (each with one tool call)

ASSUME AttemptAssumption ==
  /\ SoundScripts \in SUBSET Scripts /\ None \notin Scripts
  /\ SandboxTries \in Nat \ {0} /\ MaxTurns \in Nat

\* Accounts
CONSTANTS
  Identities,   \* what a provider tells users apart by
  Tokens,       \* tokens of auth_sessions
  Inputs,       \* answers to the onboarding
  Tabs,         \* of one browser
  MaxRequests   \* requests of all tabs (a bound of the model)

ASSUME AccountsAssumption ==
  /\ None \notin Identities \cup Tokens \cup Inputs /\ MaxRequests \in Nat
  \* None is no row and no request, answered or not, either.
  /\ None \notin [disabled: BOOLEAN, profile: Inputs \cup {None}]
  /\ None \notin [user: Identities, live: BOOLEAN]
  /\ LET Shown  == [user: Identities \cup {None}, completed: BOOLEAN]
         Answer == [status: {"ok", "unauthorized", "refused", "inconsistent"},
                    value: Shown \cup Inputs \cup {None}]
     IN /\ None \notin Answer
        /\ None \notin [op: {"session", "register", "login", "development", "logout", "onboard",
                              "answers", "user", "version"},
                        token: Tokens \cup {None}, who: Identities \cup {None},
                        input: Inputs \cup {None}, seen: BOOLEAN, answer: Answer \cup {None},
                        outdated: BOOLEAN]

\* Questionnaire
CONSTANTS
  Options,    \* of one question, in the order of the server's list
  Exclusive,  \* the option that goes with no other
  MaxChosen   \* how many go together

ASSUME QuestionnaireAssumption ==
  Options \subseteq Nat /\ Exclusive \in Options /\ MaxChosen \in Nat \ {0}

\* PackagePublication
CONSTANTS
  Tools,     \* processes of the importer of presets and of ingest-epub.ts
  Paths,     \* of the files of a package
  Contents,  \* of a file
  MaxEdits,  \* edits of a preset's directory (a bound of the model)
  MaxStarts  \* executions of the tools (a bound of the model)

ASSUME PackageAssumption ==
  None \notin Tools \cup Paths \cup Contents /\ MaxEdits \in Nat /\ MaxStarts \in Nat

\* PerfBuffer
CONSTANTS
  MaxBatch,   \* maxBatch of createPerfSink
  MaxBuffer,  \* maxBuffer of createPerfSink
  MaxEvents   \* events of the process (a bound of the model)

ASSUME PerfAssumption ==
  MaxBatch \in Nat \ {0} /\ MaxBuffer \in Nat \ {0} /\ MaxEvents \in Nat

\* PublishedBook
CONSTANT MaxTree  \* nodes of a document (a bound of the model)

ASSUME TreeAssumption == MaxTree \in Nat \ {0}
=============================================================================
