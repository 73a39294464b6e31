------------------------ MODULE NormalizationAttempt ------------------------
(***************************************************************************)
(* One normalization attempt after the other: the tools the agent works a  *)
(* remote sandbox with (RemoteNormalizationSandbox in apps/worker/src/     *)
(* normalization/e2b-sandbox.ts), the gate that accepts its output, and    *)
(* the worker's own check of what it downloads (coordinator.ts).           *)
(*                                                                         *)
(* A file set is known by what produced it, and so are its inventory hash  *)
(* and the report of nb_check on it; a script is its own hash.  Tools run  *)
(* one at a time.  Any remote call may fail; a write that fails may have   *)
(* reached the sandbox, every other call that fails is over.  Module       *)
(* Normalization has what surrounds an attempt.                            *)
(***************************************************************************)
EXTENDS LibraryConstants, Sequences

VARIABLES
  runActive,  \* normalization_runs.status is running
  rows,       \* normalization_attempts, with the validations recorded for each
  phase,      \* how far the coordinator is with the last of them
  turns,      \* tool calls of the agent
  box,        \* the fields of RemoteNormalizationSandbox
  remote,     \* the sandbox: normalize.py and the output
  reportKey,  \* latestKeys' validation report: what is stored there
  claimed,    \* the binding the agent loop remembers
  candidate,  \* what was downloaded
  lost        \* history: what this attempt's failed calls left unrecorded

vars == <<runActive, rows, phase, turns, box, remote, reportKey, claimed, candidate, lost>>

Files  == [by: Scripts \cup {None}, whole: BOOLEAN]
Empty  == [by |-> None, whole |-> FALSE]
Script == Scripts \cup {None}

\* nb_check finds no blocking error in the output of these scripts; an output that lacks
\* a required file is refused as well.
Passes(files) == files.whole /\ files.by \in SoundScripts

Run        == [sequence: Nat, script: Script]
Validation == [sequence: Nat, script: Script, files: Files]
Binding    == [script: Script, files: Files]
Box == [script: Script, sequence: Nat, run: Run \cup {None},
        validation: Validation \cup {None}, binding: Binding \cup {None}, closed: BOOLEAN]
Row == [status: {"running", "succeeded", "failed"}, agent: Binding \cup {None},
        agentReport: Files \cup {None}, host: Binding \cup {None}, upload: Files \cup {None}]

Phases == {"idle", "agent", "finished", "validating", "validated", "completed", "returned",
           "thrown"}

TypeOK ==
  /\ runActive \in BOOLEAN /\ rows \in Seq(Row) /\ phase \in Phases /\ turns \in 0..MaxTurns
  /\ box \in Box /\ remote \in [script: Script, files: Files]
  /\ reportKey \in Files \cup {None} /\ claimed \in Binding \cup {None}
  /\ candidate \in Files \cup {None}
  /\ lost \in [writes: Nat, reports: Nat]

NewBox == [script |-> None, sequence |-> 0, run |-> None, validation |-> None,
           binding |-> None, closed |-> FALSE]
ClosedBox == [NewBox EXCEPT !.closed = TRUE]
NewRemote == [script |-> None, files |-> Empty]
NewRow == [status |-> "running", agent |-> None, agentReport |-> None, host |-> None,
           upload |-> None]

Init ==
  /\ runActive = TRUE /\ rows = <<>> /\ phase = "idle" /\ turns = 0
  /\ box = ClosedBox /\ remote = NewRemote
  /\ reportKey = None /\ claimed = None /\ candidate = None
  /\ lost = [writes |-> 0, reports |-> 0]

(***************************************************************************)
(* The tools                                                               *)
(***************************************************************************)
coordinator == <<runActive, rows, phase, claimed, candidate>>

\* The agent calls a tool; assertOpen, and the turn limit of the agent loop.
Turn ==
  /\ phase = "agent" /\ ~box.closed /\ turns < MaxTurns
  /\ turns' = turns + 1
  /\ UNCHANGED <<runActive, rows, phase, candidate>>

\* Mutant of Invalidated: the run survives the script it ran.
InvalidatedLater(b, s) == [b EXCEPT !.script = s, !.binding = None]

\* invalidateAfterScriptChange
Invalidated(b, s) == [b EXCEPT !.script = s, !.run = None, !.validation = None, !.binding = None]

\* write_normalizer, and patch_normalizer, which writes the script it has read with a
\* replacement.  The artifact sink may throw after it: the agent sees an error, no more.
WriteNormalizer ==
  /\ Turn
  /\ \E s \in Scripts :
       /\ remote' = [remote EXCEPT !.script = s]
       /\ box' = Invalidated(box, s)
  /\ UNCHANGED <<reportKey, claimed, lost>>

\* The write fails for the worker and may have been done all the same.
WriteFails ==
  /\ Turn
  /\ \E s \in Scripts : remote' = [remote EXCEPT !.script = s]
  /\ lost' = [lost EXCEPT !.writes = @ + 1]
  /\ UNCHANGED <<box, reportKey, claimed>>

\* What clearing the output and starting a run resets.
Cleared(b) == [b EXCEPT !.sequence = @ + 1, !.run = None, !.validation = None, !.binding = None]

\* run_normalizer executes the file of the sandbox, records the hash it remembers and
\* leaves the output locked.
RunNormalizer ==
  /\ Turn /\ box.script # None
  /\ remote' = [remote EXCEPT !.files = [by |-> remote.script, whole |-> TRUE]]
  /\ box' = [Cleared(box) EXCEPT !.run = [sequence |-> box.sequence + 1, script |-> box.script]]
  /\ UNCHANGED <<reportKey, claimed, lost>>

\* The output could not be cleared or prepared: what the sandbox object knows stays.
RunFailsEarly ==
  /\ Turn /\ box.script # None
  /\ remote' = [remote EXCEPT !.files = Empty]
  /\ UNCHANGED <<box, reportKey, claimed, lost>>

\* The script fails, or its wrapper, its logs or their artifacts do.
RunFails ==
  /\ Turn /\ box.script # None
  /\ \E whole \in BOOLEAN :
       remote' = [remote EXCEPT !.files = [by |-> remote.script, whole |-> whole]]
  /\ box' = Cleared(box)
  /\ UNCHANGED <<reportKey, claimed, lost>>

\* run_nb_check: the report is stored under the key of the run, or the sink throws after
\* the validation was kept.
RunNbCheck ==
  /\ Turn /\ box.run # None
  /\ box' = [box EXCEPT !.validation =
               [sequence |-> box.run.sequence, script |-> box.run.script, files |-> remote.files]]
  /\ \/ reportKey' = remote.files /\ UNCHANGED lost
     \/ lost' = [lost EXCEPT !.reports = @ + 1] /\ UNCHANGED reportKey
  /\ UNCHANGED <<remote, claimed>>

\* finish_normalization reads the script again
CurrentScript == remote.script

RunIsCurrent == box.run # None /\ box.run.script = CurrentScript
ValidationIsCurrent ==
  /\ box.validation # None
  /\ box.validation.sequence = box.run.sequence /\ box.validation.script = CurrentScript

\* The attempt gate.  The agent loop goes on if other tools were called in the same turn.
FinishNormalization ==
  /\ Turn /\ RunIsCurrent /\ ValidationIsCurrent
  /\ remote.files = box.validation.files /\ Passes(box.validation.files)
  /\ LET binding == [script |-> CurrentScript, files |-> remote.files] IN
       box' = [box EXCEPT !.binding = binding] /\ claimed' = binding
  /\ UNCHANGED <<remote, reportKey, lost>>

Tool == \/ WriteNormalizer \/ WriteFails \/ RunNormalizer \/ RunFailsEarly \/ RunFails
        \/ RunNbCheck \/ FinishNormalization

(***************************************************************************)
(* runFormalNormalization                                                  *)
(***************************************************************************)
Last == rows[Len(rows)]
SetLast(row) == rows' = [rows EXCEPT ![Len(rows)] = row]
sandbox == <<turns, box, remote, reportKey, claimed, candidate, lost>>

\* The row of an attempt of this run says that it goes on.
RowActive == \E i \in DOMAIN rows : rows[i].status = "running"

\* startAttempt and createSandbox; attachSandbox finds the attempt running.
StartAttempt ==
  /\ phase = "idle" /\ Len(rows) < SandboxTries /\ runActive /\ ~RowActive
  /\ rows' = Append(rows, NewRow) /\ phase' = "agent"
  /\ box' = NewBox /\ lost' = [writes |-> 0, reports |-> 0]
  /\ UNCHANGED <<runActive, turns, remote, reportKey, claimed, candidate>>

\* The loop ends with the last error; what startAttempt throws is not caught either.
GiveUp ==
  /\ phase = "idle" /\ (Len(rows) = SandboxTries \/ ~runActive \/ RowActive)
  /\ phase' = "thrown"
  /\ UNCHANGED <<runActive, rows, sandbox>>

\* The workspace cannot be made between startAttempt and the try: there is no sandbox yet,
\* the error is not caught and the row stays running.
WorkspaceFails ==
  /\ phase = "agent" /\ turns = 0
  /\ phase' = "thrown" /\ box' = ClosedBox
  /\ UNCHANGED <<runActive, rows, turns, remote, reportKey, claimed, candidate, lost>>

\* The agent stopped with a binding: recordAgentFinish, recordValidation.
AgentFinishes ==
  /\ phase = "agent" /\ claimed # None /\ reportKey # None /\ Last.status = "running"
  /\ SetLast([Last EXCEPT !.agent = claimed, !.agentReport = reportKey])
  /\ phase' = "finished"
  /\ UNCHANGED <<runActive, sandbox>>

\* advanceStep and downloadOutput
Download ==
  /\ phase = "finished" /\ runActive
  /\ box.binding # None /\ remote.files = box.binding.files
  /\ candidate' = remote.files /\ phase' = "validating"
  /\ UNCHANGED <<runActive, rows, turns, box, remote, reportKey, claimed, lost>>

\* validateNormalizedCandidate on what was downloaded, with the script that is there now.
HostBinding == [script |-> remote.script, files |-> candidate]

\* The worker's check agrees with the agent's binding; candidate and report are uploaded.
HostValidates ==
  /\ phase = "validating" /\ Passes(candidate) /\ HostBinding = claimed
  /\ SetLast([Last EXCEPT !.host = HostBinding, !.upload = candidate])
  /\ phase' = "validated"
  /\ UNCHANGED <<runActive, sandbox>>

CompleteAttempt ==
  /\ phase = "validated" /\ Last.status = "running"
  /\ SetLast([Last EXCEPT !.status = "succeeded"])
  /\ phase' = "completed"
  /\ UNCHANGED <<runActive, sandbox>>

\* advanceToIndexing and the return of the candidate
Return ==
  /\ phase = "completed" /\ runActive
  /\ phase' = "returned" /\ box' = [box EXCEPT !.closed = TRUE]
  /\ UNCHANGED <<runActive, rows, turns, remote, reportKey, claimed, candidate, lost>>

\* Whatever throws: failAttempt, which leaves an attempt that succeeded alone and whose own
\* error is swallowed; the sandbox is closed, and the next attempt begins with new objects.
AttemptFails ==
  /\ phase \in {"agent", "finished", "validating", "validated", "completed"}
  /\ \/ Last.status = "running" /\ SetLast([Last EXCEPT !.status = "failed"])
     \/ UNCHANGED rows
  /\ phase' = "idle" /\ turns' = 0
  /\ box' = ClosedBox /\ remote' = NewRemote
  /\ reportKey' = None /\ claimed' = None /\ candidate' = None
  /\ UNCHANGED <<runActive, lost>>

\* Another process takes the run for an orphan.
Reconcile ==
  /\ runActive /\ runActive' = FALSE
  /\ phase \notin {"idle", "returned", "thrown"}
  /\ UNCHANGED <<rows, phase, sandbox>>

Next ==
  \/ Tool
  \/ StartAttempt \/ GiveUp \/ WorkspaceFails \/ AgentFinishes \/ Download \/ HostValidates
  \/ CompleteAttempt \/ Return \/ AttemptFails \/ Reconcile

Spec == Init /\ [][Next]_vars

(***************************************************************************)
(* Properties                                                              *)
(***************************************************************************)
\* What an attempt that succeeded uploaded is a whole output without blocking errors that
\* agent and worker attest alike.  That the attested script produced it rests on the
\* worker's knowledge of the file: one failed write is found out, two can cancel out
\* (between them the file differs from the hash run_normalizer records).  That the report
\* recorded for the agent is the one of this output rests on every report being stored:
\* latestKeys keeps the key of an earlier run otherwise.
CandidateIsAttested ==
  \A i \in DOMAIN rows :
    LET row == rows[i] IN
    row.status = "succeeded" =>
      /\ row.host = row.agent /\ row.upload = row.host.files /\ Passes(row.upload)
      /\ i = Len(rows) /\ lost.writes < 2 => row.host.script = row.upload.by
      /\ i = Len(rows) /\ lost.reports = 0 => row.agentReport = row.upload
=============================================================================
