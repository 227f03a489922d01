----------------------------- MODULE ApplyQueue -----------------------------
(***************************************************************************)
(* internal/config: settings are staged as a draft, an apply freezes the   *)
(* draft as a durable submission, the newest submission waits behind the   *)
(* one the controller runs, and a restart resumes the newest. Clients, the *)
(* controller, failing writes and crashes interleave.                      *)
(*                                                                         *)
(* What the engine does with a submission is module Engine; here an apply  *)
(* either records its settings in active.json or fails.                    *)
(***************************************************************************)
EXTENDS Naturals, FiniteSets

CONSTANTS
    Overrides,     \* complete sets of overrides
    Initial,       \* the overrides of a new installation
    Valid,         \* those that Parse accepts
    None,          \* nil
    MaxID,         \* bound on submissions
    MaxFaults,     \* bound on failing writes and failing applies
    MaxCrashes,    \* bound on ends of the process
    SyncDirFails   \* whether AtomicWrite may fail after its rename

ASSUME ApplyAssumption ==
    /\ Initial \in Overrides /\ Valid \subseteq Overrides
    /\ None \notin Overrides
    /\ MaxID \in Nat \ {0} /\ MaxFaults \in Nat /\ MaxCrashes \in Nat
    /\ SyncDirFails \in BOOLEAN

IDs == 1..MaxID

VARIABLES
    \* --- Settings
    staged,      \* s.pending, the draft
    applied,     \* s.applied
    queue,       \* s.applies
    signal,      \* s.applyReady holds its token
    \* --- the configuration directory
    stagedFile,  \* pending.json, None if it does not exist
    queueFile,   \* apply.json
    accepted,    \* the overrides in active.json
    \* --- the controller's loop, and the clients in Wait
    ctl, taken, outcome, waiting,
    \* --- history: what each acknowledged submission froze, the state last
    \* reported for it, and the submission whose overrides are accepted
    frozen, reported, acceptedID,
    faults, crashes

memory  == <<staged, applied, queue, signal>>
files   == <<stagedFile, queueFile, accepted>>
loop    == <<ctl, taken, outcome>>
history == <<frozen, reported, acceptedID>>
vars    == <<memory, files, loop, waiting, history, faults, crashes>>

NoRequest == [id |-> 0, overrides |-> None]
NoResult  == [id |-> 0, state |-> "none"]
Requests  == [id : IDs, overrides : Overrides] \cup {NoRequest}
Results   == [id : IDs, state : {"completed", "failed"}] \cup {NoResult}
Queues    == [sequence : 0..MaxID, running : Requests, pending : Requests, last : Results]

EmptyQueue == [sequence |-> 0, running |-> NoRequest, pending |-> NoRequest, last |-> NoResult]

Fault == faults < MaxFaults /\ faults' = faults + 1

\* A failing AtomicWrite leaves the old contents, unless only the sync of the
\* directory failed.
FailedWrite(old, new) == {old} \cup (IF SyncDirFails THEN {new} ELSE {})

\* Mutant: what was running is resumed first.
ResumedRunning(q) ==
    [q EXCEPT !.pending = IF q.running = NoRequest THEN q.pending ELSE q.running,
              !.running = NoRequest]

\* What loadApply makes of a saved queue: the newest submission, nothing running.
Resumed(q) ==
    [q EXCEPT !.pending = IF q.pending = NoRequest THEN q.running ELSE q.pending,
              !.running = NoRequest]

Init ==
    /\ staged = Initial /\ applied = Initial
    /\ queue = EmptyQueue /\ signal = FALSE
    /\ stagedFile = None /\ queueFile = EmptyQueue /\ accepted = Initial
    /\ ctl = "idle" /\ taken = NoRequest /\ outcome = "none" /\ waiting = {}
    /\ frozen = [i \in IDs |-> None] /\ reported = [i \in IDs |-> "none"]
    /\ acceptedID = 0
    /\ faults = 0 /\ crashes = 0

-----------------------------------------------------------------------------
(* Clients of the control socket.                                           *)

Stage(next) ==
    /\ next # staged
    /\ stagedFile' = next /\ staged' = next
    /\ UNCHANGED <<applied, queue, signal, queueFile, accepted, loop, waiting, history, faults,
                   crashes>>

StageFails(next) ==
    /\ next # staged /\ Fault
    /\ stagedFile' \in FailedWrite(stagedFile, next)
    /\ UNCHANGED <<memory, queueFile, accepted, loop, waiting, history, crashes>>

\* SubmitApply: the same settings are not queued twice in a row.
SubmitAgain ==
    /\ staged \in Valid
    /\ \/ /\ queue.pending.overrides = staged
          /\ signal' = TRUE
          /\ waiting' = waiting \cup {queue.pending.id}
       \/ /\ queue.pending = NoRequest /\ queue.running.overrides = staged
          /\ waiting' = waiting \cup {queue.running.id}
          /\ UNCHANGED signal
    /\ UNCHANGED <<staged, applied, queue, files, loop, history, faults, crashes>>

New == [id |-> queue.sequence + 1, overrides |-> staged]
Enqueued == [queue EXCEPT !.sequence = New.id, !.pending = New]

IsNew ==
    /\ staged \in Valid /\ queue.sequence < MaxID
    /\ queue.pending.overrides # staged
    /\ queue.pending # NoRequest \/ queue.running.overrides # staged

\* Mutant: it is acknowledged from memory.
SubmitUnsaved ==
    /\ IsNew
    /\ queue' = Enqueued
    /\ frozen' = [frozen EXCEPT ![New.id] = staged]
    /\ reported' = [i \in IDs |-> IF i = queue.pending.id THEN "superseded" ELSE reported[i]]
    /\ waiting' = (waiting \ {queue.pending.id}) \cup {New.id}
    /\ signal' = TRUE
    /\ UNCHANGED <<staged, applied, files, loop, acceptedID, faults, crashes>>

\* Mutant: the superseded submission's clients are not told.
SubmitSilently ==
    /\ IsNew
    /\ queueFile' = Enqueued /\ queue' = Enqueued
    /\ frozen' = [frozen EXCEPT ![New.id] = staged]
    /\ reported' = [i \in IDs |-> IF i = queue.pending.id THEN "superseded" ELSE reported[i]]
    /\ waiting' = waiting \cup {New.id}
    /\ signal' = TRUE
    /\ UNCHANGED <<staged, applied, stagedFile, accepted, loop, acceptedID, faults, crashes>>

\* The submission is on disk before it is acknowledged, and supersedes the one
\* that was still waiting.
Submit ==
    /\ IsNew
    /\ queueFile' = Enqueued /\ queue' = Enqueued
    /\ frozen' = [frozen EXCEPT ![New.id] = staged]
    /\ reported' = [i \in IDs |-> IF i = queue.pending.id THEN "superseded" ELSE reported[i]]
    /\ waiting' = (waiting \ {queue.pending.id}) \cup {New.id}
    /\ signal' = TRUE
    /\ UNCHANGED <<staged, applied, stagedFile, accepted, loop, acceptedID, faults, crashes>>

SubmitFails ==
    /\ IsNew /\ Fault
    /\ queueFile' \in FailedWrite(queueFile, Enqueued)
    /\ UNCHANGED <<memory, stagedFile, accepted, loop, waiting, history, crashes>>

-----------------------------------------------------------------------------
(* The controller.                                                          *)

\* Mutant: the draft is applied as it is when the controller comes to it.
TakeDraft ==
    /\ ctl = "idle" /\ signal
    /\ signal' = FALSE
    /\ IF queue.running # NoRequest \/ queue.pending = NoRequest
       THEN UNCHANGED <<queue, ctl, taken>>
       ELSE /\ queue' = [queue EXCEPT !.running = queue.pending, !.pending = NoRequest]
            /\ taken' = [queue.pending EXCEPT !.overrides = staged]
            /\ ctl' = "applying"
    /\ UNCHANGED <<staged, applied, files, outcome, waiting, history, faults, crashes>>

\* TakeApply: what is running is not saved as such, so it stays resumable.
Take ==
    /\ ctl = "idle" /\ signal
    /\ signal' = FALSE
    /\ IF queue.running # NoRequest \/ queue.pending = NoRequest
       THEN UNCHANGED <<queue, ctl, taken>>
       ELSE /\ queue' = [queue EXCEPT !.running = queue.pending, !.pending = NoRequest]
            /\ taken' = queue.pending
            /\ ctl' = "applying"
    /\ UNCHANGED <<staged, applied, files, outcome, waiting, history, faults, crashes>>

\* apply finds that nothing changed.
ApplyNothing ==
    /\ ctl = "applying" /\ taken.overrides = applied
    /\ acceptedID' = taken.id
    /\ ctl' = "finishing" /\ outcome' = "completed"
    /\ UNCHANGED <<memory, files, taken, waiting, frozen, reported, faults, crashes>>

\* The engine records the overrides with the release it publishes.
ApplyRecords ==
    /\ ctl = "applying" /\ taken.overrides \in Valid
    /\ accepted' = taken.overrides /\ acceptedID' = taken.id
    /\ ctl' = "recorded"
    /\ UNCHANGED <<memory, stagedFile, queueFile, taken, outcome, waiting, frozen, reported,
                   faults, crashes>>

\* Settings.Accept follows.
Accept ==
    /\ ctl = "recorded"
    /\ applied' = taken.overrides
    /\ ctl' = "finishing" /\ outcome' = "completed"
    /\ UNCHANGED <<staged, queue, signal, files, taken, waiting, history, faults, crashes>>

ApplyFails ==
    /\ ctl = "applying" /\ Fault
    /\ accepted' \in FailedWrite(accepted, taken.overrides)
    /\ ctl' = "finishing" /\ outcome' = "failed"
    /\ UNCHANGED <<memory, stagedFile, queueFile, taken, waiting, history, crashes>>

\* Mutant: the result is not looked at.
FinishedWell(state) ==
    [queue EXCEPT !.running = NoRequest, !.last = [id |-> taken.id, state |-> "completed"]]

\* FinishApply. A result that cannot be saved is reported as a failure.
Finished(state) ==
    [queue EXCEPT !.running = NoRequest, !.last = [id |-> taken.id, state |-> state]]

Finish ==
    /\ ctl = "finishing"
    /\ \/ /\ queueFile' = Finished(outcome) /\ queue' = Finished(outcome)
          /\ reported' = [reported EXCEPT ![taken.id] = outcome]
          /\ UNCHANGED faults
       \/ /\ Fault
          /\ queueFile' \in FailedWrite(queueFile, Finished(outcome))
          /\ queue' = Finished("failed")
          /\ reported' = [reported EXCEPT ![taken.id] = "failed"]
    /\ waiting' = waiting \ {taken.id}
    /\ signal' = (signal \/ queue.pending # NoRequest)
    /\ ctl' = "idle" /\ taken' = NoRequest /\ outcome' = "none"
    /\ UNCHANGED <<staged, applied, stagedFile, accepted, frozen, acceptedID, crashes>>

\* Mutant: the token of the submission that was resumed is forgotten.
CrashSilently ==
    /\ crashes < MaxCrashes /\ crashes' = crashes + 1
    /\ applied' = accepted
    /\ staged' = IF stagedFile = None THEN accepted ELSE stagedFile
    /\ queue' = Resumed(queueFile)
    /\ signal' = FALSE
    /\ ctl' = "idle" /\ taken' = NoRequest /\ outcome' = "none" /\ waiting' = {}
    /\ UNCHANGED <<files, history, faults>>

\* The process ends, also in the middle of an apply that its end interrupted,
\* and the next one opens the directory.
Crash ==
    /\ crashes < MaxCrashes /\ crashes' = crashes + 1
    /\ applied' = accepted
    /\ staged' = IF stagedFile = None THEN accepted ELSE stagedFile
    /\ queue' = Resumed(queueFile)
    /\ signal' = (queue'.pending # NoRequest)
    /\ ctl' = "idle" /\ taken' = NoRequest /\ outcome' = "none" /\ waiting' = {}
    /\ UNCHANGED <<files, history, faults>>

Clients    == Submit \/ SubmitFails \/ SubmitAgain \/ \E v \in Overrides : Stage(v) \/ StageFails(v)
Controller == Take \/ ApplyNothing \/ ApplyRecords \/ Accept \/ ApplyFails \/ Finish

Next == Clients \/ Controller \/ Crash

Spec == Init /\ [][Next]_vars

\* The controller's loop returns to its select, and an apply ends: the engine
\* bounds its every wait.
FairSpec == Spec /\ WF_vars(Controller)

-----------------------------------------------------------------------------
TypeOK ==
    /\ {staged, applied, accepted} \subseteq Overrides
    /\ stagedFile \in Overrides \cup {None}
    /\ queue \in Queues /\ queueFile \in Queues /\ signal \in BOOLEAN
    /\ ctl \in {"idle", "applying", "recorded", "finishing"}
    /\ taken \in Requests /\ outcome \in {"none", "completed", "failed"}
    /\ waiting \subseteq IDs
    /\ frozen \in [IDs -> Overrides \cup {None}]
    /\ reported \in [IDs -> {"none", "superseded", "completed", "failed"}]
    /\ acceptedID \in 0..MaxID /\ faults \in 0..MaxFaults /\ crashes \in 0..MaxCrashes

\* The newest acknowledged submission, until its result is reported, is what a
\* crash at this moment would resume, with the settings frozen for it.
AcknowledgedDurable ==
    \A i \in IDs :
        /\ frozen[i] # None /\ reported[i] = "none"
        /\ \A j \in IDs : j > i => frozen[j] = None
        => Resumed(queueFile).pending = [id |-> i, overrides |-> frozen[i]]

\* Only submitted settings become accepted, never a draft: edits made after a
\* submission wait for the next one.
AcceptedWasSubmitted == acceptedID # 0 => accepted = frozen[acceptedID]

\* What is reported as completed, to its client or as the last result in
\* apply.json, is recorded in active.json, by itself or by a newer apply.
CompletedIsRecorded ==
    /\ \A i \in IDs : reported[i] = "completed" => acceptedID >= i
    /\ queueFile.last.state = "completed" => acceptedID >= queueFile.last.id

\* An idle controller has a token for every queued submission.
NoLostSubmission == ctl = "idle" /\ queue.pending # NoRequest => signal

\* No restart, failed write or late finish brings the settings of an older
\* submission back over a newer one's.
NewestIntentWins == [][acceptedID' >= acceptedID]_vars

\* Every client that waits for its submission gets an answer, or its connection
\* ends with the process.
EveryWaiterAnswered == \A i \in IDs : i \in waiting ~> i \notin waiting
=============================================================================
