------------------------------ MODULE Accounts ------------------------------
(***************************************************************************)
(* Accounts, sessions and reader profiles (apps/api/src/auth.ts and        *)
(* profiles.ts) and what the tabs of one browser know of them              *)
(* (AuthProvider.tsx): the cookie belongs to the browser, the session      *)
(* query to the tab.  Requests are answered in any order, and an answer is *)
(* applied when it arrives, whatever happened since it was computed.       *)
(*                                                                         *)
(* One identity is one user: nothing links two of them.  Tokens, hashes,   *)
(* the checks of Google's answer and the shelf of presets a new user gets  *)
(* are left out: no guard here reads them.                                 *)
(***************************************************************************)
EXTENDS LibraryConstants

VARIABLES
  account,  \* users with their identity, onboarding and profile, by identity
  session,  \* auth_sessions by token
  cookie,   \* the browser's session cookie
  page,     \* the session query of each tab
  calls,    \* the requests under way in each tab, by what they are for
  behind,   \* history: something else changed what a tab was told
  budget    \* requests left (a bound of the model)

vars == <<account, session, cookie, page, calls, behind, budget>>

Kinds == {"session", "form", "onboard", "profile"}
Forms == {"register", "login", "development", "logout"}

Account == [disabled: BOOLEAN, profile: Inputs \cup {None}]
Session == [user: Identities, live: BOOLEAN]
Shown   == [user: Identities \cup {None}, completed: BOOLEAN]
Nobody  == [user |-> None, completed |-> FALSE]
Page    == [known: {"closed", "pending", "known"}, shown: Shown, error: BOOLEAN]
Answer  == [status: {"ok", "unauthorized", "refused", "inconsistent"}, value: Shown \cup Inputs \cup {None}]
Call    == [op: Forms \cup {"session", "onboard", "answers", "user", "version"}, token: Tokens \cup {None},
            who: Identities \cup {None}, input: Inputs \cup {None}, seen: BOOLEAN,
            answer: Answer \cup {None}, outdated: BOOLEAN]

TypeOK ==
  /\ account \in [Identities -> Account \cup {None}]
  /\ session \in [Tokens -> Session \cup {None}]
  /\ cookie \in Tokens \cup {None}
  /\ page \in [Tabs -> Page]
  /\ calls \in [Tabs -> [Kinds -> Call \cup {None}]]
  /\ behind \in [Tabs -> BOOLEAN]
  /\ budget \in 0..MaxRequests

Init ==
  /\ account = [i \in Identities |-> None]
  /\ session = [k \in Tokens |-> None]
  /\ cookie = None
  /\ page = [t \in Tabs |-> [known |-> "closed", shown |-> Nobody, error |-> FALSE]]
  /\ calls = [t \in Tabs |-> [k \in Kinds |-> None]]
  /\ behind = [t \in Tabs |-> FALSE]
  /\ budget = MaxRequests

(***************************************************************************)
(* What the server knows                                                   *)
(***************************************************************************)
UserOf(token) ==
  IF token # None /\ session[token] # None /\ session[token].live
     /\ ~account[session[token].user].disabled
  THEN session[token].user ELSE None

PublicUser(i, a) == [user |-> i, completed |-> a.profile # None]
ShownOf(i) == IF i = None THEN Nobody ELSE PublicUser(i, account[i])

\* A change at the server outdates what was computed before it, but a profile that is made
\* nothing of a request that is about to look at it; a change of the cookie outdates every
\* request that was sent with the old one.
Outdated(c, hit) == IF c # None /\ hit THEN [c EXCEPT !.outdated = TRUE] ELSE c
Computed(c) == c # None /\ (c.answer # None \/ c.op \in {"version", "answers"})
Reads(c)    == Computed(c) /\ (c.answer # None \/ c.op # "answers")
ServerChanged  == [t \in Tabs |-> [k \in Kinds |-> Outdated(calls[t][k], Computed(calls[t][k]))]]
ProfileChanged == [t \in Tabs |-> [k \in Kinds |-> Outdated(calls[t][k], Reads(calls[t][k]))]]
CookieChanged == [t \in Tabs |-> [k \in Kinds |-> Outdated(calls[t][k], TRUE)]]

\* Everybody else is behind after a change made for tab t.
OthersBehind(t) == [u \in Tabs |-> behind[u] \/ u # t]

(***************************************************************************)
(* Requests                                                                *)
(***************************************************************************)
Request(op, who, input) ==
  [op |-> op, token |-> cookie, who |-> who, input |-> input, seen |-> FALSE,
   answer |-> None, outdated |-> FALSE]

Send(t, kind, request) ==
  /\ budget > 0 /\ budget' = budget - 1
  /\ calls' = [calls EXCEPT ![t][kind] = request]

OpenPage(t) ==
  /\ page[t].known = "closed"
  /\ page' = [page EXCEPT ![t].known = "pending"]
  /\ Send(t, "session", Request("session", None, None))
  /\ UNCHANGED <<account, session, cookie, behind>>

\* The window gets the focus, a component mounts, or the reader reconnects: one query at a time.
Refetch(t) ==
  /\ page[t].known = "known" /\ calls[t]["session"] = None
  /\ Send(t, "session", Request("session", None, None))
  /\ UNCHANGED <<account, session, cookie, page, behind>>

SubmitForm(t, op, i) ==
  /\ page[t].known = "known" /\ page[t].shown.user = None /\ calls[t]["form"] = None
  /\ Send(t, "form", Request(op, i, None))
  /\ UNCHANGED <<account, session, cookie, page, behind>>

Inside(t) == page[t].known = "known" /\ ~page[t].error /\ page[t].shown.user # None

Logout(t) ==
  /\ Inside(t) /\ page[t].shown.completed /\ calls[t]["form"] = None
  /\ Send(t, "form", Request("logout", None, None))
  /\ UNCHANGED <<account, session, cookie, page, behind>>

Onboard(t, input) ==
  /\ Inside(t) /\ ~page[t].shown.completed /\ calls[t]["onboard"] = None
  /\ Send(t, "onboard", Request("onboard", None, input))
  /\ UNCHANGED <<account, session, cookie, page, behind>>

AskProfile(t) ==
  /\ Inside(t) /\ calls[t]["profile"] = None
  /\ Send(t, "profile", Request("user", None, None))
  /\ UNCHANGED <<account, session, cookie, page, behind>>

(***************************************************************************)
(* The server                                                              *)
(***************************************************************************)
Waiting(t, kind, op) == calls[t][kind] # None /\ calls[t][kind].op = op /\ calls[t][kind].answer = None

Reply(t, kind, cs, status, value) ==
  calls' = [cs EXCEPT ![t][kind].answer = [status |-> status, value |-> value]]

ServeSession(t) ==
  /\ Waiting(t, "session", "session")
  /\ Reply(t, "session", calls, "ok", ShownOf(UserOf(calls[t]["session"].token)))
  /\ UNCHANGED <<account, session, cookie, page, behind, budget>>

NewAccount == [disabled |-> FALSE, profile |-> None]

\* A session for the user; its token reaches the browser with the answer.
Grants(t, i, a) ==
  \E token \in Tokens :
    /\ session[token] = None
    /\ session' = [session EXCEPT ![token] = [user |-> i, live |-> TRUE]]
    /\ calls' = [calls EXCEPT ![t]["form"].answer = [status |-> "ok", value |-> PublicUser(i, a)],
                              ![t]["form"].token = token]

Register(t) ==
  LET i == calls[t]["form"].who IN
  /\ Waiting(t, "form", "register") /\ account[i] = None
  /\ account' = [account EXCEPT ![i] = NewAccount]
  /\ Grants(t, i, NewAccount)
  /\ UNCHANGED <<cookie, page, behind, budget>>

RegisterAgain(t) ==
  /\ Waiting(t, "form", "register") /\ account[calls[t]["form"].who] # None
  /\ Reply(t, "form", calls, "refused", None)
  /\ UNCHANGED <<account, session, cookie, page, behind, budget>>

Login(t) ==
  LET i == calls[t]["form"].who IN
  /\ Waiting(t, "form", "login") /\ account[i] # None /\ ~account[i].disabled
  /\ Grants(t, i, account[i])
  /\ UNCHANGED <<account, cookie, page, behind, budget>>

\* No such account, the wrong password, or a disabled account.
LoginRefused(t) ==
  /\ Waiting(t, "form", "login")
  /\ \/ Reply(t, "form", calls, "unauthorized", None)
     \/ /\ account[calls[t]["form"].who] # None /\ account[calls[t]["form"].who].disabled
        /\ Reply(t, "form", calls, "refused", None)
  /\ UNCHANGED <<account, session, cookie, page, behind, budget>>

Upserted(i) == IF account[i] = None THEN NewAccount ELSE account[i]
UpsertIdentity(i) == account' = [account EXCEPT ![i] = Upserted(i)]

DevelopmentLogin(t) ==
  LET i == calls[t]["form"].who IN
  /\ Waiting(t, "form", "development")
  /\ UpsertIdentity(i)
  /\ IF Upserted(i).disabled
     THEN Reply(t, "form", calls, "refused", None) /\ UNCHANGED session
     ELSE Grants(t, i, Upserted(i))
  /\ UNCHANGED <<cookie, page, behind, budget>>

\* The callback redirects to a new page, with the cookie of the new session.
ComesBack(t, token) ==
  /\ cookie' = token
  /\ calls' = [CookieChanged EXCEPT ![t] = [k \in Kinds |-> None]]
  /\ behind' = [OthersBehind(t) EXCEPT ![t] = FALSE]
  /\ page' = [page EXCEPT ![t] = [known |-> "closed", shown |-> Nobody, error |-> FALSE]]

\* Google's login leaves the page and comes back to a new one.
GoogleLogin(t, i) ==
  /\ page[t].known = "known" /\ page[t].shown.user = None
  /\ UpsertIdentity(i)
  /\ IF Upserted(i).disabled
     THEN UNCHANGED <<session, cookie, page, calls, behind>>
     ELSE \E token \in Tokens :
            /\ session[token] = None
            /\ session' = [session EXCEPT ![token] = [user |-> i, live |-> TRUE]]
            /\ ComesBack(t, token)
  /\ UNCHANGED budget

\* Any request to log out succeeds, with or without a session.
ServeLogout(t) ==
  LET token == calls[t]["form"].token IN
  /\ Waiting(t, "form", "logout")
  /\ session' = [k \in Tokens |-> IF k = token /\ session[k] # None THEN [session[k] EXCEPT !.live = FALSE]
                                  ELSE session[k]]
  /\ Reply(t, "form", ServerChanged, "ok", Nobody)
  /\ behind' = OthersBehind(t)
  /\ UNCHANGED <<account, cookie, page, budget>>

\* The session is looked up before the request is handled, with its user.
Authenticate(t) ==
  LET i == UserOf(calls[t]["onboard"].token) IN
  /\ Waiting(t, "onboard", "onboard") /\ i # None
  /\ calls' = [calls EXCEPT ![t]["onboard"].op = "answers", ![t]["onboard"].who = i]
  /\ UNCHANGED <<account, session, cookie, page, behind, budget>>

Unauthenticated(t, kind, op) ==
  /\ Waiting(t, kind, op) /\ UserOf(calls[t][kind].token) = None
  /\ Reply(t, kind, calls, "unauthorized", None)
  /\ UNCHANGED <<account, session, cookie, page, behind, budget>>

\* completeOnboarding, one transaction under a lock of the user: the first answers stand.
CompleteOnboarding(t) ==
  LET c == calls[t]["onboard"]  i == c.who IN
  /\ Waiting(t, "onboard", "answers") /\ ~account[i].disabled /\ account[i].profile = None
  /\ account' = [account EXCEPT ![i].profile = c.input]
  /\ Reply(t, "onboard", ProfileChanged, "ok", c.input)
  /\ behind' = OthersBehind(t)
  /\ UNCHANGED <<session, cookie, page, budget>>

OnboardAgain(t) ==
  LET c == calls[t]["onboard"]  i == c.who IN
  /\ Waiting(t, "onboard", "answers") /\ ~account[i].disabled /\ account[i].profile # None
  /\ IF account[i].profile = c.input THEN Reply(t, "onboard", calls, "ok", account[i].profile)
                                     ELSE Reply(t, "onboard", calls, "refused", None)
  /\ UNCHANGED <<account, session, cookie, page, behind, budget>>

\* The user was disabled meanwhile.
OnboardRefused(t) ==
  /\ Waiting(t, "onboard", "answers") /\ account[calls[t]["onboard"].who].disabled
  /\ Reply(t, "onboard", calls, "refused", None)
  /\ UNCHANGED <<account, session, cookie, page, behind, budget>>

\* get: the user and the current version of the profile are read one after the other.
ReadUser(t) ==
  LET c == calls[t]["profile"]  i == UserOf(c.token) IN
  /\ Waiting(t, "profile", "user") /\ i # None
  /\ calls' = [calls EXCEPT ![t]["profile"].op = "version", ![t]["profile"].who = i,
                            ![t]["profile"].seen = (account[i].profile # None)]
  /\ UNCHANGED <<account, session, cookie, page, behind, budget>>

ReadVersion(t) ==
  LET c == calls[t]["profile"]  current == account[c.who].profile IN
  /\ Waiting(t, "profile", "version")
  /\ Reply(t, "profile", calls, IF c.seen = (current # None) THEN "ok" ELSE "inconsistent", current)
  /\ UNCHANGED <<account, session, cookie, page, behind, budget>>

\* Outside this code: an operator disables an account, a session expires.
Disable(i) ==
  /\ account[i] # None /\ ~account[i].disabled
  /\ account' = [account EXCEPT ![i].disabled = TRUE]
  /\ calls' = ServerChanged /\ behind' = [t \in Tabs |-> TRUE]
  /\ UNCHANGED <<session, cookie, page, budget>>

Expire(token) ==
  /\ session[token] # None /\ session[token].live
  /\ session' = [session EXCEPT ![token].live = FALSE]
  /\ calls' = ServerChanged /\ behind' = [t \in Tabs |-> TRUE]
  /\ UNCHANGED <<account, cookie, page, budget>>

(***************************************************************************)
(* The tab                                                                 *)
(***************************************************************************)
Answered(t, kind) == calls[t][kind] # None /\ calls[t][kind].answer # None

Done(cs, t, kind) == [cs EXCEPT ![t][kind] = None]

Shows(t, shown) == page' = [page EXCEPT ![t] = [known |-> "known", shown |-> shown, error |-> FALSE]]

SessionAnswered(t) ==
  /\ Answered(t, "session")
  /\ Shows(t, calls[t]["session"].answer.value)
  /\ behind' = [behind EXCEPT ![t] = calls[t]["session"].outdated]
  /\ calls' = Done(calls, t, "session")
  /\ UNCHANGED <<account, session, cookie, budget>>

\* The answer brings the cookie of the new session, or takes the cookie away.
FormAnswered(t) ==
  LET c == calls[t]["form"] IN
  /\ Answered(t, "form") /\ c.answer.status = "ok"
  /\ cookie' = IF c.op = "logout" THEN None ELSE c.token
  /\ Shows(t, c.answer.value)
  /\ behind' = [OthersBehind(t) EXCEPT ![t] = c.op # "logout" /\ c.outdated]
  /\ calls' = Done(CookieChanged, t, "form")
  /\ UNCHANGED <<account, session, budget>>

\* Faulty variant: the answer is taken without marking the reader in the session query.
OnboardAnsweredUnmarked(t) ==
  /\ Answered(t, "onboard") /\ calls[t]["onboard"].answer.status = "ok"
  /\ behind' = [behind EXCEPT ![t] = @ \/ calls[t]["onboard"].outdated]
  /\ calls' = Done(calls, t, "onboard")
  /\ UNCHANGED <<account, session, cookie, page, budget>>

OnboardAnswered(t) ==
  LET c == calls[t]["onboard"] IN
  /\ Answered(t, "onboard") /\ c.answer.status = "ok"
  /\ page' = [page EXCEPT ![t].shown = IF @.user = None THEN Nobody ELSE [@ EXCEPT !.completed = TRUE],
                          ![t].error = FALSE]
  /\ behind' = [behind EXCEPT ![t] = @ \/ c.outdated]
  /\ calls' = Done(calls, t, "onboard")
  /\ UNCHANGED <<account, session, cookie, budget>>

\* readtailor:unauthorized, whoever hears it.
TurnedAway(t, kind) ==
  /\ Answered(t, kind) /\ calls[t][kind].answer.status = "unauthorized"
  /\ Shows(t, Nobody)
  /\ behind' = [behind EXCEPT ![t] = IF kind = "form" THEN @ \/ cookie # None ELSE calls[t][kind].outdated]
  /\ calls' = Done(calls, t, kind)
  /\ UNCHANGED <<account, session, cookie, budget>>

\* A refusal is shown where it was asked for; a profile is read and the page stays.
AnsweredOnly(t, kind) ==
  /\ Answered(t, kind)
  /\ \/ calls[t][kind].answer.status \in {"refused", "inconsistent"}
     \/ kind = "profile" /\ calls[t][kind].answer.status = "ok"
  /\ calls' = Done(calls, t, kind)
  /\ UNCHANGED <<account, session, cookie, page, behind, budget>>

\* A request fails before or after the server has seen it.
RequestFails(t, kind) ==
  /\ calls[t][kind] # None
  /\ calls' = Done(calls, t, kind)
  /\ behind' = [behind EXCEPT ![t] = @ \/ calls[t][kind].answer # None]
  /\ page' = IF kind = "session" THEN [page EXCEPT ![t].known = "known", ![t].error = TRUE] ELSE page
  /\ UNCHANGED <<account, session, cookie, budget>>

Next ==
  \/ \E t \in Tabs :
       \/ OpenPage(t) \/ Refetch(t) \/ Logout(t) \/ AskProfile(t)
       \/ \E op \in Forms \ {"logout"}, i \in Identities : SubmitForm(t, op, i)
       \/ \E input \in Inputs : Onboard(t, input)
       \/ \E i \in Identities : GoogleLogin(t, i)
       \/ ServeSession(t) \/ Register(t) \/ RegisterAgain(t) \/ Login(t) \/ LoginRefused(t)
       \/ DevelopmentLogin(t) \/ ServeLogout(t)
       \/ Authenticate(t) \/ CompleteOnboarding(t) \/ OnboardAgain(t) \/ OnboardRefused(t)
       \/ Unauthenticated(t, "onboard", "onboard") \/ Unauthenticated(t, "profile", "user")
       \/ ReadUser(t) \/ ReadVersion(t)
       \/ SessionAnswered(t) \/ FormAnswered(t) \/ OnboardAnswered(t)
       \/ \E kind \in Kinds : TurnedAway(t, kind) \/ AnsweredOnly(t, kind) \/ RequestFails(t, kind)
  \/ \E i \in Identities : Disable(i)
  \/ \E token \in Tokens : Expire(token)

(***************************************************************************)
(* Properties                                                              *)
(***************************************************************************)
\* A tab with nothing under way shows the reader of the cookie and whether that reader has a
\* profile, unless something else changed since or an answer overtook a later one.
PageKnowsReader ==
  \A t \in Tabs :
    (page[t].known = "known" /\ ~page[t].error /\ ~behind[t] /\ \A k \in Kinds : calls[t][k] = None)
      => page[t].shown = ShownOf(UserOf(cookie))

\* Whoever is told that the profile is made is told the profile that stands, and is told that it
\* is inconsistent only when an onboarding came between the two statements that read it.
ToldWhatStands(t, kind) ==
  LET c == calls[t][kind] IN
  (c # None /\ c.answer # None) =>
    /\ c.answer.status = "inconsistent" => ~c.seen /\ account[c.who].profile # None
    /\ (kind = "onboard" /\ c.answer.status = "ok") => \E i \in Identities : account[i] # None /\ account[i].profile = c.answer.value
    /\ (kind = "profile" /\ c.answer.status = "ok" /\ c.answer.value # None) => account[c.who].profile = c.answer.value

\* What tabs are told of an account agrees with the account, across requests that overtake each
\* other, answers that are lost and tabs that share a cookie.
AccountIsAgreed == PageKnowsReader /\ \A t \in Tabs : ToldWhatStands(t, "onboard") /\ ToldWhatStands(t, "profile")

=============================================================================
