---------------------------- MODULE SetupClient ----------------------------
(***************************************************************************)
(* The reading-setup page of the browser (useReadingSetupSession in        *)
(* apps/web/src/reading-setup/session) between the user, who acts when     *)
(* nothing is locked, and the session, which has one active run at a time. *)
(*                                                                         *)
(* The session is read in two ways that know nothing of each other: the    *)
(* session query (on mount, focus and retry) and one refresh after each    *)
(* run; a response is applied when it arrives, whatever was known by then. *)
(* Every run stands for the action that started it.  Module ReadingSetup-  *)
(* Run has the session, AgentRunStream the observation of a run; what the  *)
(* page shows of a run and the connection notice are left out.             *)
(***************************************************************************)
EXTENDS SetupPageConstants

VARIABLES
  server,   \* the session row, as far as a page can tell
  page,     \* the state of the hook
  query,    \* the session query under way
  refresh,  \* the refreshes under way, by run
  post,     \* the action under way
  told,     \* history: the run the page was last told of in answer to an action
  overtaken \* history: a response read before that run was claimed was applied since

vars == <<server, page, query, refresh, post, told, overtaken>>

Runs == 1..MaxRuns

\* last: the latest run; live: it is active_run_id.  updated_at changes with every claim
\* and every end, so they tell it.
Session  == [last: 0..MaxRuns, live: BOOLEAN]
Response == Session \cup {None}
Page == [data: Response, run: Runs \cup {None}, ended: BOOLEAN,
         delivery: {"none", "sending", "sent", "failed"},
         base: Response, refreshed: SUBSET Runs, left: BOOLEAN]

\* A request for the session, and the response once it has been read.
Fetch   == [asked: BOOLEAN, answer: Response]
NoFetch == [asked |-> FALSE, answer |-> None]
Asked   == [asked |-> TRUE, answer |-> None]
Unread(f)     == f = Asked
Read(f, s)    == [f EXCEPT !.answer = s]

TypeOK ==
  /\ server \in Session /\ page \in Page /\ query \in Fetch /\ refresh \in [Runs -> Fetch]
  /\ post \in [pc: {"none", "sent", "accepted", "rejected", "failed"}, run: Runs \cup {None}]
  /\ told \in Runs \cup {None} /\ overtaken \in BOOLEAN

NoPost == [pc |-> "none", run |-> None]

Init ==
  /\ server = [last |-> 0, live |-> FALSE]
  /\ page = [data |-> None, run |-> None, ended |-> FALSE, delivery |-> "none",
             base |-> None, refreshed |-> {}, left |-> FALSE]
  /\ query = Asked /\ refresh = [r \in Runs |-> NoFetch]
  /\ post = NoPost /\ told = None /\ overtaken = FALSE

(***************************************************************************)
(* The session                                                             *)
(***************************************************************************)
Claimed(s) == [s EXCEPT !.last = @ + 1, !.live = TRUE]
CanClaim(s) == ~s.live /\ s.last < MaxRuns

\* commitRun, which adds the action and what came of it to the session, or failRun.
RunEnds ==
  /\ server.live /\ server' = [server EXCEPT !.live = FALSE]
  /\ UNCHANGED <<page, query, refresh, post, told, overtaken>>

\* Another page of the user acts.
OtherPageActs ==
  /\ server.last > 0 /\ CanClaim(server)
  /\ server' = Claimed(server)
  /\ UNCHANGED <<page, query, refresh, post, told, overtaken>>

\* getOrCreateSession starts the first run; getSession only reads.
QueryReads ==
  /\ Unread(query)
  /\ LET s == IF server.last = 0 THEN Claimed(server) ELSE server IN
       server' = s /\ query' = Read(query, s)
  /\ UNCHANGED <<page, refresh, post, told, overtaken>>

RefreshReads(r) ==
  /\ Unread(refresh[r])
  /\ refresh' = [refresh EXCEPT ![r] = Read(@, server)]
  /\ UNCHANGED <<server, page, query, post, told, overtaken>>

\* submitAction at the server: claimRun, or the run that is active, or an error.
PostDone ==
  /\ post.pc = "sent"
  /\ \/ /\ CanClaim(server) /\ server' = Claimed(server)
        /\ \E pc \in {"accepted", "failed"} : post' = [pc |-> pc, run |-> server.last + 1]
     \/ /\ server.live /\ post' = [pc |-> "rejected", run |-> server.last]
        /\ UNCHANGED server
     \/ post' = [pc |-> "failed", run |-> None] /\ UNCHANGED server
  /\ UNCHANGED <<page, query, refresh, told, overtaken>>

(***************************************************************************)
(* The page                                                                *)
(***************************************************************************)
Open == ~page.left

\* interactionsLocked
RunBusy     == page.run # None /\ ~page.ended
RequestBusy == page.delivery \in {"sending", "sent"}
InteractionsLocked == RunBusy \/ RequestBusy \/ page.data = None

\* replaceActiveRun on the run of a response.
Observing(p, s) == [p EXCEPT !.run = IF s.live THEN s.last ELSE None, !.ended = FALSE]

\* The effect on new session data; what the page has seen of the same run stays.
Observed(p, s) ==
  IF s.live /\ p.run = s.last /\ p.ended THEN p ELSE Observing(p, s)

\* The effect that drops an optimistic action once the session has moved on.
Settled(p) ==
  IF p.delivery = "sent" /\ p.base # None /\ p.base # p.data
  THEN [p EXCEPT !.delivery = "none", !.base = None]
  ELSE p

Applied(s) == overtaken' = (told # None /\ s.last < told)

QueryApplied ==
  /\ Open /\ query.answer # None
  /\ page' = Settled(IF query.answer = page.data THEN page
                     ELSE Observed([page EXCEPT !.data = query.answer], query.answer))
  /\ query' = NoFetch /\ Applied(query.answer)
  /\ UNCHANGED <<server, refresh, post, told>>

\* Focus, mount or retryConnection; a query under way is not doubled.
QueryStarts ==
  /\ Open /\ query = NoFetch /\ query' = Asked
  /\ UNCHANGED <<server, page, refresh, post, told, overtaken>>

\* The observation of the active run brings its end: complete_reading_setup succeeded and
\* the page goes on to the reader, or the session is refreshed, once for each run.
RunFinished ==
  /\ Open /\ RunBusy /\ (server.last > page.run \/ ~server.live)
  /\ \/ /\ page.run = server.last
        /\ page' = [page EXCEPT !.ended = TRUE, !.left = TRUE]
        /\ UNCHANGED refresh
     \/ /\ page' = [page EXCEPT !.ended = TRUE, !.refreshed = @ \cup {page.run}]
        /\ refresh' = IF page.run \in page.refreshed THEN refresh
                      ELSE [refresh EXCEPT ![page.run] = Asked]
  /\ UNCHANGED <<server, query, post, told, overtaken>>

\* refreshSessionAfterRun
RefreshApplied(r) ==
  /\ Open /\ refresh[r].answer # None
  /\ LET s == refresh[r].answer IN
       /\ page' = Observing([page EXCEPT !.data = s, !.delivery = "none", !.base = None], s)
       /\ Applied(s)
  /\ refresh' = [refresh EXCEPT ![r] = NoFetch]
  /\ UNCHANGED <<server, query, post, told>>

RefreshFails(r) ==
  /\ Open /\ refresh[r].asked
  /\ refresh' = [refresh EXCEPT ![r] = NoFetch]
  /\ UNCHANGED <<server, page, query, post, told, overtaken>>

SubmitAction ==
  /\ Open /\ ~InteractionsLocked /\ post = NoPost
  /\ post' = [NoPost EXCEPT !.pc = "sent"]
  /\ page' = [page EXCEPT !.delivery = "sending", !.base = page.data]
  /\ UNCHANGED <<server, query, refresh, told, overtaken>>

\* Mutant of ActionAnswered: the run is left to the session query.
ActionAnsweredUnobserved ==
  /\ Open /\ post.pc \in {"accepted", "rejected"}
  /\ page' = IF post.pc = "accepted"
             THEN Settled([page EXCEPT !.delivery = "sent"])
             ELSE [page EXCEPT !.delivery = "failed", !.base = None]
  /\ told' = post.run /\ overtaken' = FALSE
  /\ post' = NoPost
  /\ UNCHANGED <<server, query, refresh>>

\* The answer names the run to observe: the new one, or the one that was in the way.
ActionAnswered ==
  /\ Open /\ post.pc \in {"accepted", "rejected"}
  /\ LET seen == [page EXCEPT !.run = post.run, !.ended = FALSE] IN
     page' = IF post.pc = "accepted"
             THEN Settled([seen EXCEPT !.delivery = "sent"])
             ELSE [seen EXCEPT !.delivery = "failed", !.base = None]
  /\ told' = post.run /\ overtaken' = FALSE
  /\ post' = NoPost
  /\ UNCHANGED <<server, query, refresh>>

\* An error, or an answer that is lost: the action may have been admitted.
ActionFails ==
  /\ Open /\ post.pc = "failed"
  /\ page' = [page EXCEPT !.delivery = "failed", !.base = None]
  /\ post' = NoPost
  /\ UNCHANGED <<server, query, refresh, told, overtaken>>

Next ==
  \/ RunEnds \/ OtherPageActs \/ QueryReads \/ PostDone
  \/ QueryStarts \/ QueryApplied \/ RunFinished
  \/ \E r \in Runs : RefreshReads(r) \/ RefreshApplied(r) \/ RefreshFails(r)
  \/ SubmitAction \/ ActionAnswered \/ ActionFails

Spec == Init /\ [][Next]_vars

(***************************************************************************)
(* Properties                                                              *)
(***************************************************************************)
\* While a run the page was told of is active the page observes it and the user cannot
\* act, unless a response to an earlier read of the session was applied after the answer:
\* the run and the action are then taken from the page, and the next action is refused.
PageFollowsSession ==
  Open /\ told # None /\ server.live /\ server.last = told /\ ~overtaken =>
    page.run = told /\ InteractionsLocked
=============================================================================
