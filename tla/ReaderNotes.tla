----------------------------- MODULE ReaderNotes -----------------------------
(***************************************************************************)
(* The highlights and the settings of the reader: copies of the page       *)
(* (apps/web/src/reader/ReaderPage.tsx) of rows of the server              *)
(* (apps/api/src/user-books.ts).  They are seeded once, when the page is   *)
(* mounted, from the bootstrap in the query cache; later bootstraps renew  *)
(* the cache only.  A highlight changes in the page when the answer comes, *)
(* a setting at once and at the server after a delay.                      *)
(*                                                                         *)
(* A highlight is its note; where in the text it is, is left out.          *)
(***************************************************************************)
EXTENDS ReaderConstants, SequencesExt

VARIABLES
  rows,        \* highlights: the note of each, None where there is no row
  saved,       \* userReadingSettings
  mounted,     \* is the page open
  mounts,      \* number of openings so far
  cached,      \* what the cached bootstrap has of both
  incoming,    \* a bootstrap on its way
  shownNotes,  \* the highlights of the page
  setting,     \* the settings of the page
  calls,       \* the requests under way that change a highlight
  timer,       \* is a change of the settings waiting to be sent
  puts,        \* the settings under way, in the order they were sent
  astray,      \* history: the highlights of the page were seeded from an older state, or one was
               \* changed twice at a time, or the answer to a change was lost
  stray        \* history: so were the settings, or a change failed or was overtaken

page == <<mounted, mounts, shownNotes, setting>>
vars == <<rows, saved, cached, incoming, page, calls, timer, puts, astray, stray>>

Ids       == 1..MaxNotes
Texts     == {"", "note"}
Notes     == [Ids -> Texts \cup {None}]
Settings  == {"default", "changed"}
Snapshot  == [notes : Notes, settings : Settings]
Calls     == [kind : {"create", "note", "delete"}, id : Ids, text : Texts,
              outcome : {"sent", "ok", "failed"}, mount : 1..MaxOpens]

TypeOK ==
  /\ rows \in Notes /\ saved \in Settings
  /\ mounted \in BOOLEAN /\ mounts \in 0..MaxOpens
  /\ cached \in Snapshot \cup {None} /\ incoming \in Snapshot \cup {None}
  /\ shownNotes \in Notes /\ setting \in Settings
  /\ calls \subseteq Calls /\ Cardinality(calls) <= MaxCalls
  /\ timer \in BOOLEAN
  /\ \E n \in 0..MaxCalls : puts \in [1..n -> Settings]
  /\ astray \in BOOLEAN /\ stray \in BOOLEAN

NoNotes == [id \in Ids |-> None]

Init ==
  /\ rows = NoNotes /\ saved = "default"
  /\ mounted = FALSE /\ mounts = 0 /\ cached = None /\ incoming = None
  /\ shownNotes = NoNotes /\ setting = "default"
  /\ calls = {} /\ timer = FALSE /\ puts = <<>>
  /\ astray = FALSE /\ stray = FALSE

Now == [notes |-> rows, settings |-> saved]

(***************************************************************************)
(* The page and the bootstraps                                             *)
(***************************************************************************)
\* A fresh document counts only if no bootstrap is cached.
Open ==
  /\ ~mounted /\ mounts < MaxOpens
  /\ mounted' = TRUE /\ mounts' = mounts + 1
  /\ cached' = IF cached = None THEN Now ELSE cached
  /\ shownNotes' = cached'.notes /\ setting' = cached'.settings
  /\ astray' = (cached'.notes # rows \/ calls # {})
  /\ stray' = (cached'.settings # saved \/ puts # <<>>)
  /\ UNCHANGED <<rows, saved, incoming, calls, timer, puts>>

\* A change of the settings that waits is never sent.
Close ==
  /\ mounted /\ mounted' = FALSE
  /\ timer' = FALSE
  /\ UNCHANGED <<rows, saved, mounts, shownNotes, setting, cached, incoming, calls, puts, astray, stray>>

Collect ==
  /\ ~mounted /\ cached # None
  /\ cached' = None
  /\ UNCHANGED <<rows, saved, page, incoming, calls, timer, puts, astray, stray>>

BootstrapRead ==
  /\ mounted /\ incoming = None
  /\ incoming' = Now
  /\ UNCHANGED <<rows, saved, page, cached, calls, timer, puts, astray, stray>>

BootstrapArrives ==
  /\ incoming # None /\ incoming' = None
  /\ cached' = incoming
  /\ UNCHANGED <<rows, saved, page, calls, timer, puts, astray, stray>>

(***************************************************************************)
(* Highlights                                                              *)
(***************************************************************************)
Call(kind, id, text) ==
  /\ mounted /\ Cardinality(calls) < MaxCalls
  /\ calls' = calls \cup {[kind |-> kind, id |-> id, text |-> text, outcome |-> "sent",
                            mount |-> mounts]}
  /\ astray' = (astray \/ (kind = "note" /\ \E call \in calls : call.kind = "note" /\ call.id = id))
  /\ UNCHANGED <<rows, saved, page, cached, incoming, timer, puts, stray>>

\* The identifier is the server's; here the next that is free.
CommitHighlight(text) ==
  LET used == {id \in Ids : rows[id] # None \/ shownNotes[id] # None \/ \E call \in calls : call.id = id}
  IN \E id \in Ids \ used : (\A other \in Ids \ used : id <= other) /\ Call("create", id, text)

SaveHighlightNote(id, text) == shownNotes[id] # None /\ Call("note", id, text)

RemoveHighlight(id) == shownNotes[id] # None /\ Call("delete", id, "")

\* A row that is gone is not found.
Serve(call) ==
  LET found == call.kind = "create" \/ rows[call.id] # None
  IN /\ call.outcome = "sent"
     /\ rows' = IF ~found THEN rows
                ELSE [rows EXCEPT ![call.id] = IF call.kind = "delete" THEN None ELSE call.text]
     /\ calls' = (calls \ {call}) \cup {[call EXCEPT !.outcome = IF found THEN "ok" ELSE "failed"]}
     /\ UNCHANGED <<saved, page, cached, incoming, timer, puts, astray, stray>>

\* Only a highlight of the list is renewed or removed; the answer of a page that was closed is
\* for nobody.
Applied(call) ==
  [shownNotes EXCEPT ![call.id] = IF call.kind = "create" THEN call.text
                                  ELSE IF call.kind = "delete" THEN None
                                  ELSE IF @ = None THEN None  \* not in the list any more
                                  ELSE call.text]

Answered(call) ==
  /\ call.outcome # "sent"
  /\ calls' = calls \ {call}
  /\ shownNotes' = IF mounted /\ call.mount = mounts /\ call.outcome = "ok" THEN Applied(call) ELSE shownNotes
  /\ UNCHANGED <<rows, saved, mounted, mounts, setting, cached, incoming, timer, puts, astray, stray>>

\* A request that does not reach the server, or whose answer does not come back.
Lost(call) ==
  /\ calls' = calls \ {call}
  /\ astray' = (astray \/ call.outcome = "ok")
  /\ UNCHANGED <<rows, saved, page, cached, incoming, timer, puts, stray>>

(***************************************************************************)
(* Settings                                                                *)
(***************************************************************************)
Change(to) ==
  /\ mounted /\ setting # to
  /\ setting' = to /\ timer' = TRUE
  /\ UNCHANGED <<rows, saved, mounted, mounts, shownNotes, cached, incoming, calls, puts, astray, stray>>

PutReadingSettings ==
  /\ timer /\ Len(puts) < MaxCalls
  /\ timer' = FALSE /\ puts' = Append(puts, setting)
  /\ UNCHANGED <<rows, saved, page, cached, incoming, calls, astray, stray>>

\* Requests are served in any order, or not at all, and the page is not told.
Put(i) ==
  /\ puts' = RemoveAt(puts, i)
  /\ \/ saved' = puts[i]
        /\ stray' = (stray \/ i # 1)
     \/ stray' = TRUE /\ UNCHANGED saved
  /\ UNCHANGED <<rows, page, cached, incoming, calls, timer, astray>>

Next ==
  \/ Open \/ Close \/ Collect \/ BootstrapRead \/ BootstrapArrives
  \/ \E text \in Texts : CommitHighlight(text)
  \/ \E id \in Ids : RemoveHighlight(id) \/ \E text \in Texts : SaveHighlightNote(id, text)
  \/ \E call \in calls : Serve(call) \/ Answered(call) \/ Lost(call)
  \/ \E to \in Settings : Change(to)
  \/ PutReadingSettings \/ \E i \in DOMAIN puts : Put(i)

Spec == Init /\ [][Next]_vars

(***************************************************************************)
(* Property                                                                *)
(***************************************************************************)
\* When nothing is under way the page shows the highlights and the settings the server has,
\* whatever bootstraps arrived in between and whatever was changed at the same time.
CopiesAgree ==
  mounted =>
    /\ calls = {} /\ ~astray => shownNotes = rows
    /\ ~timer /\ puts = <<>> /\ ~stray => setting = saved
===============================================================================
