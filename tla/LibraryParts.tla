---------------------------- MODULE LibraryParts ----------------------------
(***************************************************************************)
(* The components that bring a book into the library, beside Normalization *)
(* and the html: their variables, and an instance of each.                 *)
(***************************************************************************)
EXTENDS LibraryConstants

VARIABLES
  runActive, rows, phase, turns, box, remote, reportKey, claimed, candidate, unrecorded,
  account, session, cookie, page, calls, behind, budget,
  selected, stored, outcome,
  conditional, objects, directory, edits, starts, sharedBook, ingestRun, tool,
  buffer, batch, timer, flushing, closing, recorded, written, dropped

attempt  == <<runActive, rows, phase, turns, box, remote, reportKey, claimed, candidate, unrecorded>>
tabs     == <<account, session, cookie, page, calls, behind, budget>>
answers  == <<selected, stored, outcome>>
packages == <<conditional, objects, directory, edits, starts, sharedBook, ingestRun, tool>>
log      == <<buffer, batch, timer, flushing, closing, recorded, written, dropped>>

Attempt == INSTANCE NormalizationAttempt WITH lost <- unrecorded
Accounts == INSTANCE Accounts
Question == INSTANCE Questionnaire
Packages == INSTANCE PackagePublication WITH book <- sharedBook, run <- ingestRun
Log == INSTANCE PerfBuffer
=============================================================================
