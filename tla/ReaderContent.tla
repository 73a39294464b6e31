---------------------------- MODULE ReaderContent ----------------------------
(***************************************************************************)
(* What the reader shows of the content that is generated for a node, and  *)
(* which nodes it takes for read (apps/web/src/reader/ReaderPage.tsx,      *)
(* mergeReaderBootstrap of reader/api.ts, buildReaderBootstrap of          *)
(* apps/api/src/user-books.ts).  The page polls while content is under     *)
(* way and gets a bootstrap with every report of the position; the answers *)
(* are built from several reads, arrive in any order and are merged into   *)
(* the cache, which outlives the page.                                     *)
(*                                                                         *)
(* One node of the book.  How its content is generated is                  *)
(* FormalGeneration's; here a generation just changes its status.          *)
(***************************************************************************)
EXTENDS ReaderConstants, FiniteSets

VARIABLES
  version,   \* the current strategy version
  here,      \* is the stored position in the node
  readWith,  \* the row of readerReadNodes: the version it is pinned to, None if it is not read
  made,      \* status of the generation of the node for each version
  open,      \* is the page open
  cache,     \* the bootstrap in the query cache
  polling,   \* the poll under way
  focusing,  \* the reports under way
  marked,    \* markedRef
  post       \* is the request under way that marks the node read

server == <<version, here, readWith, made>>
vars   == <<server, open, cache, polling, focusing, marked, post>>

Versions   == 1..MaxStrategy
Status     == {"queued", "ready", "failed"}
Content    == [of : Versions, status : Status]
Bootstrap  == [version : Versions, content : Content \cup {None}, read : BOOLEAN]
\* A request knows the strategy version before it reads the rest.
Request    == [version : Versions, answer : Bootstrap \cup {None}]

TypeOK ==
  /\ version \in Versions /\ here \in BOOLEAN
  /\ readWith \in Versions \cup {None}
  /\ made \in [Versions -> Status \cup {None}]
  /\ open \in BOOLEAN
  /\ cache \in Bootstrap \cup {None}
  /\ polling \in Request \cup {None}
  /\ focusing \subseteq Request /\ Cardinality(focusing) <= MaxFocusing
  /\ marked \in BOOLEAN /\ post \in BOOLEAN

Init ==
  /\ version = 1 /\ here \in BOOLEAN /\ readWith = None
  /\ made = [v \in Versions |-> None]
  /\ open = FALSE /\ cache = None /\ polling = None /\ focusing = {}
  /\ marked = FALSE /\ post = FALSE

(***************************************************************************)
(* The server                                                              *)
(***************************************************************************)
\* The node the reader is in is shown with the current strategy, a node that was read with the
\* one it is pinned to.
Expected(current) == IF here \/ readWith = None THEN current ELSE readWith

Answer(current) ==
  LET v == Expected(current)
  IN [version |-> current, read |-> readWith # None,
      content |-> IF made[v] = None THEN None ELSE [of |-> v, status |-> made[v]]]

\* A generation is queued, published, failed or queued again.
Generate(v) ==
  /\ v <= version
  /\ \E status \in Status :
       /\ <<made[v], status>> \in {<<None, "queued">>, <<"queued", "ready">>, <<"queued", "failed">>,
                                   <<"failed", "queued">>}
       /\ made' = [made EXCEPT ![v] = status]
  /\ UNCHANGED <<version, here, readWith, open, cache, polling, focusing, marked, post>>

\* A confirmed proposal pins the node of the stored position, if it was read, to its strategy.
ConfirmProposal ==
  /\ version < MaxStrategy
  /\ version' = version + 1
  /\ readWith' = IF here /\ readWith # None THEN version + 1 ELSE readWith
  /\ UNCHANGED <<here, made, open, cache, polling, focusing, marked, post>>

(***************************************************************************)
(* The page                                                                *)
(***************************************************************************)
Seen(bootstrap) == bootstrap # None /\ bootstrap.read

\* The document comes with a bootstrap of its own, which counts only if none is in the cache.
Open ==
  /\ ~open /\ open' = TRUE
  /\ cache' = IF cache = None THEN Answer(version) ELSE cache
  /\ marked' = Seen(cache')
  /\ UNCHANGED <<server, polling, focusing, post>>

\* The row that says a node is read is written once.
Inserted == readWith' = IF readWith = None THEN version ELSE readWith

\* What becomes of a request that marks the node is settled here.
Close ==
  /\ open /\ open' = FALSE
  /\ marked' = FALSE /\ post' = FALSE
  /\ UNCHANGED readWith \/ (post /\ Inserted)
  /\ UNCHANGED <<version, here, made, cache, polling, focusing>>

\* The cache is dropped some time after the page that used it.
Collect ==
  /\ ~open /\ cache # None
  /\ cache' = None /\ polling' = None
  /\ UNCHANGED <<server, open, focusing, marked, post>>

\* The mutated form: what came last is shown.
MergeIncoming(incoming) == incoming

MergeReaderBootstrap(incoming) ==
  LET KeepsReady ==
        /\ incoming.version = cache.version
        /\ cache.content # None /\ incoming.content # None
        /\ cache.content.of = incoming.content.of /\ cache.content.status = "ready"
  IN IF cache = None THEN incoming
     ELSE IF incoming.version < cache.version THEN cache
     ELSE IF KeepsReady THEN [incoming EXCEPT !.content = cache.content]
     ELSE incoming

Arrives(answer) ==
  /\ cache' = MergeReaderBootstrap(answer)
  /\ marked' = (marked \/ (open /\ Seen(cache')))

\* The page asks again every few seconds while content is on its way; it asks once when it opens
\* with a cache that is stale, and after a proposal was confirmed.
Poll ==
  /\ open /\ polling = None
  /\ \/ cache.content # None /\ cache.content.status = "queued"
     \/ cache.version < version
  /\ polling' = [version |-> version, answer |-> None]
  /\ UNCHANGED <<server, open, cache, focusing, marked, post>>

PollRead ==
  /\ polling # None /\ polling.answer = None
  /\ polling' = [polling EXCEPT !.answer = Answer(polling.version)]
  /\ UNCHANGED <<server, open, cache, focusing, marked, post>>

PollAnswered ==
  /\ polling # None /\ polling' = None
  /\ \/ polling.answer # None /\ Arrives(polling.answer)
     \/ UNCHANGED <<cache, marked>>  \* it failed
  /\ UNCHANGED <<server, open, focusing, post>>

\* A report says where the reader is, here or elsewhere, and its node is pinned to the strategy of
\* that moment.
ReportReaderFocus(inNode) ==
  /\ open /\ Cardinality(focusing) < MaxFocusing
  /\ focusing' = focusing \cup {[version |-> version, answer |-> None]}
  /\ here' = inNode
  /\ readWith' = IF inNode /\ readWith # None THEN version ELSE readWith
  /\ UNCHANGED <<version, made, open, cache, polling, marked, post>>

FocusRead(request) ==
  /\ request.answer = None
  /\ focusing' = (focusing \ {request}) \cup {[request EXCEPT !.answer = Answer(request.version)]}
  /\ UNCHANGED <<server, open, cache, polling, marked, post>>

\* The answer goes into the cache also when the page is closed.
FocusAnswered(request) ==
  /\ focusing' = focusing \ {request}
  /\ \/ request.answer # None /\ Arrives(request.answer)
     \/ UNCHANGED <<cache, marked>>
  /\ UNCHANGED <<server, open, polling, post>>

(***************************************************************************)
(* Marking the node read                                                   *)
(***************************************************************************)
Intersects ==
  /\ open /\ ~marked /\ ~post
  /\ marked' = TRUE /\ post' = TRUE
  /\ UNCHANGED <<server, open, cache, polling, focusing>>

MarkedRead ==
  /\ post /\ post' = FALSE
  /\ Inserted
  /\ UNCHANGED <<version, here, made, open, cache, polling, focusing, marked>>

\* The request failed, before or after the row was written: the node is marked again when it is
\* seen again.
MarkFailed ==
  /\ post /\ post' = FALSE
  /\ Inserted \/ UNCHANGED readWith
  /\ marked' = FALSE
  /\ UNCHANGED <<version, here, made, open, cache, polling, focusing>>

Next ==
  \/ ConfirmProposal \/ \E v \in Versions : Generate(v)
  \/ Open \/ Close \/ Collect
  \/ Poll \/ PollRead \/ PollAnswered
  \/ \E inNode \in BOOLEAN : ReportReaderFocus(inNode)
  \/ \E request \in focusing : FocusRead(request) \/ FocusAnswered(request)
  \/ Intersects \/ MarkedRead \/ MarkFailed

Spec == Init /\ [][Next]_vars

(***************************************************************************)
(* Properties                                                              *)
(***************************************************************************)
\* An answer that comes late takes nothing away: the strategy of what is shown never goes back,
\* and content that is shown ready stays so while another strategy or another pin does not
\* replace it by content of its own.
Advances ==
  cache # None /\ cache' # None =>
    /\ cache'.version >= cache.version
    /\ (/\ cache'.version = cache.version
        /\ cache.content # None /\ cache'.content # None
        /\ cache'.content.of = cache.content.of /\ cache.content.status = "ready")
       => cache'.content.status = "ready"

ContentAdvances == [][Advances]_vars

\* A node the page takes for read is read, or a request that marks it is under way.
MarkedIsStored == marked => post \/ readWith # None
===============================================================================
