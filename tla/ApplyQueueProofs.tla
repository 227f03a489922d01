--------------------------- MODULE ApplyQueueProofs ---------------------------
(***************************************************************************)
(* Proofs about module ApplyQueue, for any settings and any bounds,        *)
(* provided that a save which fails leaves the old file on disk            *)
(* (SyncDirFails = FALSE): what is acknowledged is durable, what becomes   *)
(* accepted was submitted, what is reported as completed is recorded, and  *)
(* an older submission never wins over a newer one.                        *)
(*                                                                         *)
(* The inductive invariant relates three copies of the queue's newest      *)
(* submission, in memory, on disk and in the hands of the controller, to   *)
(* the history of what was frozen, reported and accepted.                  *)
(***************************************************************************)
EXTENDS ApplyQueue, TLAPS

Newest(q) == Resumed(q).pending

\* What the controller runs is what the queue says is running.
Held ==
    /\ ctl = "idle" <=> queue.running = NoRequest
    /\ ctl # "idle" => taken = queue.running

\* The file numbers submissions as memory does, and would resume the newest.
Saved ==
    /\ queueFile.sequence = queue.sequence
    /\ Newest(queue) # NoRequest => Newest(queueFile) = Newest(queue)

\* Submissions are numbered in order, and none is numbered beyond the sequence.
Numbered ==
    /\ queue.pending # NoRequest => queue.pending.id > queue.running.id
    /\ \A q \in {queue, queueFile} : q.running.id <= q.sequence /\ q.pending.id <= q.sequence

\* Every submission, and nothing else, is frozen, and its settings never change.
Frozen ==
    /\ \A i \in IDs : frozen[i] # None <=> i <= queue.sequence
    /\ \A q \in {queue, queueFile} : \A r \in {q.running, q.pending} :
          r # NoRequest => r.overrides = frozen[r.id]

\* The newest submission is resumed until its result is reported.
Owed ==
    \A i \in IDs : i = queue.sequence /\ reported[i] = "none" => Newest(queueFile).id = i

\* What is accepted is older than what may still be applied,
Progress ==
    /\ acceptedID <= queue.sequence
    /\ ctl = "applying" => acceptedID <= taken.id
    /\ ctl = "recorded" => acceptedID = taken.id
    /\ outcome = "completed" => acceptedID >= taken.id
    /\ ctl = "finishing" <=> outcome # "none"
    /\ Newest(queueFile) # NoRequest => acceptedID <= Newest(queueFile).id

\* and is what active.json holds.
Settled ==
    /\ ctl # "recorded" => applied = accepted
    /\ ctl = "recorded" => accepted = taken.overrides
    /\ AcceptedWasSubmitted

Told ==
    /\ CompletedIsRecorded
    /\ queue.last.state = "completed" => acceptedID >= queue.last.id

QInv == /\ TypeOK /\ Held /\ Saved /\ Numbered /\ Frozen /\ Owed /\ Progress /\ Settled /\ Told
        /\ NoLostSubmission

USE ApplyAssumption DEF IDs

\* A queue's fields, and those of the queues that the operations make of it.
LEMMA QueueFields ==
  ASSUME NEW q \in Queues
  PROVE  /\ q.sequence \in 0..MaxID /\ q.running \in Requests /\ q.pending \in Requests
         /\ q.last \in Results
         /\ Resumed(q) \in Queues /\ Newest(q) \in Requests
         /\ Newest(q) = IF q.pending = NoRequest THEN q.running ELSE q.pending
         /\ Resumed(q).sequence = q.sequence /\ Resumed(q).running = NoRequest
         /\ Resumed(q).last = q.last
  BY DEF Queues, Resumed, Newest, Requests, NoRequest

\* NoRequest is told from a submission by its number and by its settings.
LEMMA RequestFields ==
  /\ NoRequest \in Requests /\ NoRequest.id = 0 /\ NoRequest.overrides = None
  /\ \A r \in Requests : /\ r = NoRequest <=> r.id = 0
                         /\ r # NoRequest => r.id \in IDs /\ r.overrides \in Overrides
  BY DEF Requests, NoRequest

\* A data directory without files starts with an empty queue, of which all holds.
LEMMA InitQInv == Init => QInv
<1> SUFFICES ASSUME Init PROVE QInv
  OBVIOUS
<1>1. EmptyQueue \in Queues /\ EmptyQueue.sequence = 0 /\ EmptyQueue.running = NoRequest
      /\ EmptyQueue.pending = NoRequest /\ EmptyQueue.last.state = "none"
  BY DEF EmptyQueue, Queues, Requests, Results, NoResult
<1>2. TypeOK
  <2>1. queue \in Queues /\ queueFile \in Queues /\ signal \in BOOLEAN
    BY <1>1 DEF Init
  <2>2. /\ frozen \in [IDs -> Overrides \cup {None}]
        /\ reported \in [IDs -> {"none", "superseded", "completed", "failed"}]
    BY DEF Init
  <2>3. /\ taken \in Requests /\ outcome = "none" /\ ctl = "idle" /\ waiting = {}
        /\ staged = Initial /\ applied = Initial /\ accepted = Initial /\ stagedFile = None
        /\ acceptedID = 0 /\ faults = 0 /\ crashes = 0
    BY RequestFields DEF Init
  <2> QED BY <2>1, <2>2, <2>3 DEF TypeOK
<1>3. Held /\ Saved /\ Numbered /\ Frozen
  BY <1>1, RequestFields, QueueFields DEF Init, Held, Saved, Numbered, Frozen
<1>4. Owed /\ Progress
  BY <1>1, RequestFields, QueueFields DEF Init, Owed, Progress
<1>5. Settled /\ NoLostSubmission
  BY <1>1 DEF Init, Settled, NoLostSubmission, AcceptedWasSubmitted
<1>6. Told
  BY <1>1 DEF Init, Told, CompletedIsRecorded
<1> QED BY <1>2, <1>3, <1>4, <1>5, <1>6 DEF QInv

-----------------------------------------------------------------------------
(* Clients.                                                                 *)

\* Staging touches neither the queue nor what is accepted.
LEMMA StagingQInv ==
  ASSUME SyncDirFails = FALSE, QInv, NEW v \in Overrides, Stage(v) \/ StageFails(v)
  PROVE  QInv'
<1>1. /\ UNCHANGED <<applied, queue, signal, queueFile, accepted, loop, waiting, history>>
      /\ staged' \in Overrides /\ stagedFile' \in Overrides \cup {None} /\ faults' \in 0..MaxFaults
      /\ UNCHANGED crashes
  BY DEF Stage, StageFails, FailedWrite, Fault, memory, QInv, TypeOK
<1> QED
  BY <1>1 DEF QInv, TypeOK, Held, Saved, Numbered, Frozen, Owed, Progress, Settled, Told,
              NoLostSubmission, AcceptedWasSubmitted, CompletedIsRecorded, loop, history

\* Submitting what is already queued or running changes only the token.
LEMMA SubmitAgainQInv ==
  ASSUME QInv, SubmitAgain PROVE QInv'
<1>1. /\ UNCHANGED <<staged, applied, queue, files, loop, history, faults, crashes>>
  BY DEF SubmitAgain
<1>2. (signal => signal') /\ signal' \in BOOLEAN
  <2>1. signal \in BOOLEAN
    BY DEF QInv, TypeOK
  <2>2. signal' = TRUE \/ signal' = signal
    BY DEF SubmitAgain
  <2> QED BY <2>1, <2>2, Zenon
<1>3. waiting' \subseteq IDs
  <2>1. queue.pending.overrides = staged => queue.pending.id \in IDs
    BY QueueFields, RequestFields DEF QInv, TypeOK
  <2>2. queue.running.overrides = staged => queue.running.id \in IDs
    BY QueueFields, RequestFields DEF QInv, TypeOK
  <2> QED BY <2>1, <2>2 DEF SubmitAgain, QInv, TypeOK
<1> QED
  BY <1>1, <1>2, <1>3
     DEF QInv, TypeOK, Held, Saved, Numbered, Frozen, Owed, Progress, Settled, Told, files,
         NoLostSubmission, AcceptedWasSubmitted, CompletedIsRecorded, loop, history

\* A submission gets the next number and is saved before it is acknowledged.
LEMMA SubmitQInv ==
  ASSUME QInv, Submit PROVE QInv'
<1> USE DEF QInv
<1>1. /\ Enqueued \in Queues /\ Enqueued.sequence = queue.sequence + 1
      /\ Enqueued.running = queue.running /\ Enqueued.pending = New /\ Enqueued.last = queue.last
      /\ New \in Requests /\ New.id = queue.sequence + 1 /\ New.overrides = staged
      /\ New.id \in IDs /\ New # NoRequest /\ staged \in Overrides
  <2>1. queue.sequence \in 0..MaxID /\ queue.sequence < MaxID /\ staged \in Overrides
    BY QueueFields DEF Submit, IsNew, TypeOK
  <2>2. New \in [id : IDs, overrides : Overrides] /\ New.id = queue.sequence + 1
        /\ New.overrides = staged /\ New.id \in IDs
    BY <2>1 DEF New
  <2>3. New \in Requests /\ New # NoRequest
    BY <2>2, RequestFields DEF Requests
  <2>4. queue \in Queues
    BY DEF TypeOK
  <2>0. queue.sequence + 1 \in 0..MaxID
    BY <2>1
  <2>5. Enqueued = [queue EXCEPT !.sequence = queue.sequence + 1, !.pending = New]
    BY <2>2 DEF Enqueued
  <2>6. /\ Enqueued \in Queues /\ Enqueued.sequence = queue.sequence + 1
        /\ Enqueued.running = queue.running /\ Enqueued.pending = New /\ Enqueued.last = queue.last
    BY <2>0, <2>3, <2>4, <2>5 DEF Queues
  <2> QED BY <2>1, <2>2, <2>3, <2>6
<1>2. queueFile' = Enqueued /\ queue' = Enqueued /\ Newest(queueFile') = New /\ Newest(queue') = New
      /\ UNCHANGED <<staged, applied, stagedFile, accepted, loop, acceptedID, faults, crashes>>
  BY <1>1, QueueFields DEF Submit
<1>3. /\ frozen' = [frozen EXCEPT ![New.id] = staged]
      /\ frozen'[New.id] = staged /\ \A i \in IDs : i # New.id => frozen'[i] = frozen[i]
      /\ \A i \in IDs : reported'[i] \in {reported[i], "superseded"}
  BY <1>1 DEF Submit, TypeOK
<1>4. TypeOK'
  <2>1. /\ queue' \in Queues /\ queueFile' \in Queues /\ signal' \in BOOLEAN /\ waiting' \subseteq IDs
    BY <1>1, <1>2 DEF Submit, TypeOK
  <2>2. /\ frozen' \in [IDs -> Overrides \cup {None}]
        /\ reported' \in [IDs -> {"none", "superseded", "completed", "failed"}]
    BY <1>1 DEF Submit, TypeOK
  <2> QED BY <1>2, <2>1, <2>2 DEF TypeOK, loop
<1>5. Held' /\ Saved'
  BY <1>1, <1>2 DEF Held, Saved, loop
<1>6. Numbered'
  BY <1>1, <1>2, QueueFields, RequestFields DEF Numbered, TypeOK
<1>7. Frozen'
  BY <1>1, <1>2, <1>3, QueueFields, RequestFields DEF Numbered, Frozen, TypeOK
<1>8. Owed' /\ Progress'
  BY <1>1, <1>2, QueueFields, RequestFields DEF Owed, Progress, TypeOK, loop
<1>9. Settled'
  <2>1. acceptedID # 0 => acceptedID \in IDs /\ acceptedID # New.id
    BY <1>1, QueueFields DEF Progress, TypeOK
  <2>2. acceptedID # 0 => frozen'[acceptedID] = frozen[acceptedID]
    BY <2>1, <1>3
  <2> QED BY <1>2, <2>2 DEF Settled, AcceptedWasSubmitted, loop
<1>10. Told'
  BY <1>1, <1>2, <1>3 DEF Told, CompletedIsRecorded, TypeOK
<1>11. NoLostSubmission'
  BY DEF Submit, NoLostSubmission
<1> QED BY <1>4, <1>5, <1>6, <1>7, <1>8, <1>9, <1>10, <1>11

\* One that cannot be saved leaves everything as it was.
LEMMA SubmitFailsQInv ==
  ASSUME SyncDirFails = FALSE, QInv, SubmitFails PROVE QInv'
<1>1. /\ UNCHANGED <<memory, files, loop, waiting, history, crashes>> /\ faults' \in 0..MaxFaults
  BY DEF SubmitFails, FailedWrite, Fault, QInv, TypeOK, files
<1> QED
  BY <1>1 DEF QInv, TypeOK, Held, Saved, Numbered, Frozen, Owed, Progress, Settled, Told, files,
              NoLostSubmission, AcceptedWasSubmitted, CompletedIsRecorded, loop, history, memory

-----------------------------------------------------------------------------
(* The controller.                                                          *)

\* The controller takes the queued submission, or loses its token to nothing.
LEMMA TakeQInv ==
  ASSUME QInv, Take PROVE QInv'
<1> USE DEF QInv
<1>1. CASE queue.pending = NoRequest
  <2>1. UNCHANGED <<staged, applied, queue, files, loop, waiting, history, faults, crashes>>
        /\ signal' = FALSE
    BY <1>1 DEF Take, loop
  <2>2. TypeOK'
    BY <2>1 DEF TypeOK, files, loop, history
  <2>3. Held' /\ Saved' /\ Numbered' /\ Frozen' /\ NoLostSubmission'
    BY <1>1, <2>1 DEF Held, Saved, Numbered, Frozen, NoLostSubmission, files, loop, history
  <2>4. Owed' /\ Progress' /\ Settled' /\ Told'
    BY <2>1 DEF Owed, Progress, Settled, Told, AcceptedWasSubmitted, CompletedIsRecorded, files, loop,
                history
  <2> QED BY <2>2, <2>3, <2>4
<1>2. CASE queue.pending # NoRequest
  <2>1. queue.running = NoRequest /\ outcome = "none" /\ ctl = "idle"
    BY DEF Take, Held, Progress
  <2>2. /\ queue' = [queue EXCEPT !.running = queue.pending, !.pending = NoRequest]
        /\ taken' = queue.pending /\ ctl' = "applying" /\ signal' = FALSE
        /\ UNCHANGED <<staged, applied, files, outcome, waiting, history, faults, crashes>>
    BY <1>2, <2>1 DEF Take
  <2>3. queue \in Queues
    BY DEF TypeOK
  <2>4. /\ queue' \in Queues /\ queue'.running = queue.pending /\ queue'.pending = NoRequest
        /\ queue'.sequence = queue.sequence /\ queue'.last = queue.last
    BY <2>2, <2>3, RequestFields DEF Queues
  <2>5. Newest(queue) = queue.pending /\ Newest(queue') = queue.pending
    BY <1>2, <2>3, <2>4, QueueFields
  <2>6. TypeOK'
    BY <2>2, <2>3, <2>4, QueueFields DEF TypeOK, files, history
  <2>7. Held' /\ Saved'
    BY <1>2, <2>2, <2>4, <2>5 DEF Held, Saved, files
  <2>8. Numbered'
    BY <2>2, <2>3, <2>4, QueueFields, RequestFields DEF Numbered, files, TypeOK
  <2>11. Frozen'
    BY <2>2, <2>4 DEF Frozen, files, history
  <2>9. Owed' /\ Settled' /\ Told' /\ NoLostSubmission'
    BY <2>1, <2>2, <2>4
       DEF Owed, Settled, Told, NoLostSubmission, AcceptedWasSubmitted, CompletedIsRecorded, files,
           history
  <2>10. Progress'
    <3>1. acceptedID <= queue.pending.id
      BY <1>2, <2>5 DEF Progress, Saved
    <3> QED BY <2>1, <2>2, <2>4, <3>1 DEF Progress, files, history
  <2> QED BY <2>6, <2>7, <2>8, <2>9, <2>10, <2>11
<1> QED BY <1>1, <1>2

\* What the controller took is older than the newest submission on disk.
LEMMA TakenIsOldest ==
  ASSUME QInv, ctl # "idle"
  PROVE  /\ taken \in Requests /\ taken # NoRequest /\ taken.id \in IDs
         /\ taken.overrides = frozen[taken.id] /\ taken.overrides \in Overrides
         /\ taken.id <= queue.sequence
         /\ Newest(queueFile) # NoRequest /\ taken.id <= Newest(queueFile).id
<1> USE DEF QInv
<1>1. taken = queue.running /\ taken # NoRequest /\ queue \in Queues /\ taken \in Requests
  BY DEF Held, TypeOK
<1>2. taken.id \in IDs /\ taken.overrides \in Overrides /\ taken.id <= queue.sequence
      /\ taken.overrides = frozen[taken.id]
  BY <1>1, RequestFields DEF Numbered, Frozen
<1>3. Newest(queue) # NoRequest /\ taken.id <= Newest(queue).id
  BY <1>1, <1>2, QueueFields, RequestFields DEF Numbered
<1> QED BY <1>1, <1>2, <1>3 DEF Saved

\* The settings are recorded in active.json, or nothing is.
LEMMA ApplyingQInv ==
  ASSUME SyncDirFails = FALSE, QInv, ApplyNothing \/ ApplyRecords \/ ApplyFails PROVE QInv'
<1> USE DEF QInv
<1>1. /\ UNCHANGED <<memory, stagedFile, queueFile, taken, waiting, frozen, reported, crashes>>
      /\ ctl = "applying" /\ ctl' \in {"recorded", "finishing"} /\ faults' \in 0..MaxFaults
  BY DEF ApplyNothing, ApplyRecords, ApplyFails, Fault, TypeOK, files, history
<1>2. /\ taken.id \in IDs /\ taken.overrides = frozen[taken.id] /\ taken.overrides \in Overrides
      /\ taken.id <= queue.sequence /\ Newest(queueFile) # NoRequest
      /\ taken.id <= Newest(queueFile).id
  BY <1>1, TakenIsOldest
<1>3. outcome = "none" /\ acceptedID <= taken.id /\ applied = accepted /\ acceptedID \in 0..MaxID
  BY <1>1 DEF Progress, Settled, TypeOK
<1>4. \/ ctl' = "recorded" /\ outcome' = "none" /\ acceptedID' = taken.id /\ accepted' = taken.overrides
      \/ ctl' = "finishing" /\ outcome' = "completed" /\ acceptedID' = taken.id
         /\ accepted' = accepted /\ accepted = taken.overrides
      \/ ctl' = "finishing" /\ outcome' = "failed" /\ acceptedID' = acceptedID
         /\ accepted' = accepted
  BY <1>3 DEF ApplyNothing, ApplyRecords, ApplyFails, FailedWrite, files, history
<1>5. TypeOK'
  BY <1>1, <1>2, <1>4 DEF TypeOK, memory
<1>6. Held' /\ Saved' /\ Numbered' /\ Frozen' /\ Owed' /\ NoLostSubmission'
  BY <1>1 DEF Held, Saved, Numbered, Frozen, Owed, NoLostSubmission, memory
<1>7. Progress'
  BY <1>1, <1>2, <1>3, <1>4 DEF Progress, memory
<1>8. Settled'
  BY <1>1, <1>2, <1>3, <1>4 DEF Settled, AcceptedWasSubmitted, memory
<1>9. acceptedID' \in 0..MaxID /\ acceptedID' >= acceptedID
  BY <1>2, <1>3, <1>4
<1>10. \A n \in 0..MaxID : acceptedID >= n => acceptedID' >= n
  BY <1>3, <1>9
<1>11. queueFile.last.id \in 0..MaxID /\ queue.last.id \in 0..MaxID
  BY QueueFields DEF TypeOK, Results, NoResult
<1>12. Told'
  BY <1>1, <1>10, <1>11 DEF Told, CompletedIsRecorded, memory
<1> QED BY <1>5, <1>6, <1>7, <1>8, <1>12

\* The settings in memory follow those in active.json.
LEMMA AcceptQInv ==
  ASSUME QInv, Accept PROVE QInv'
<1> USE DEF QInv
<1>1. /\ UNCHANGED <<staged, queue, signal, files, taken, waiting, history, faults, crashes>>
      /\ ctl = "recorded" /\ ctl' = "finishing" /\ outcome' = "completed"
      /\ applied' = accepted /\ acceptedID = taken.id
  BY DEF Accept, Settled, Progress
<1>2. acceptedID \in 0..MaxID
  BY DEF TypeOK
<1> QED
  BY <1>1, <1>2 DEF TypeOK, Held, Saved, Numbered, Frozen, Owed, Progress, Settled, Told, files,
              NoLostSubmission, AcceptedWasSubmitted, CompletedIsRecorded, history

\* The result is saved with what was queued meanwhile, or cannot be saved.
LEMMA FinishQInv ==
  ASSUME SyncDirFails = FALSE, QInv, Finish PROVE QInv'
<1> USE DEF QInv
<1>1. /\ taken = queue.running /\ taken # NoRequest /\ taken.id \in IDs /\ taken.id <= queue.sequence
      /\ queue \in Queues /\ queueFile \in Queues /\ ctl = "finishing"
  BY TakenIsOldest DEF Finish, Held, TypeOK
<1>2. ASSUME NEW state \in {"completed", "failed"}
      PROVE  /\ Finished(state) \in Queues /\ Finished(state).running = NoRequest
             /\ Finished(state).pending = queue.pending /\ Finished(state).sequence = queue.sequence
             /\ Finished(state).last = [id |-> taken.id, state |-> state]
             /\ Newest(Finished(state)) = queue.pending
  <2>1. [id |-> taken.id, state |-> state] \in Results
    BY <1>1 DEF Results
  <2>2. Finished(state) = [queue EXCEPT !.running = NoRequest, !.last = [id |-> taken.id, state |-> state]]
    BY DEF Finished
  <2>3. /\ Finished(state) \in Queues /\ Finished(state).running = NoRequest
        /\ Finished(state).pending = queue.pending /\ Finished(state).sequence = queue.sequence
        /\ Finished(state).last = [id |-> taken.id, state |-> state]
    BY <1>1, <2>1, <2>2, RequestFields DEF Queues
  <2> QED BY <2>3, QueueFields
<1>3. PICK state \in {"completed", "failed"} :
        /\ queue' = Finished(state) /\ reported' = [reported EXCEPT ![taken.id] = state]
        /\ state = "completed" => outcome = "completed"
        /\ queueFile' \in {queueFile, queue'}
        /\ faults' \in 0..MaxFaults
  <2>1. outcome \in {"completed", "failed"}
    BY <1>1 DEF Progress, Finish, TypeOK
  <2>2. CASE queueFile' = Finished(outcome) /\ UNCHANGED faults /\ queue' = Finished(outcome)
             /\ reported' = [reported EXCEPT ![taken.id] = outcome]
    <3>1. faults' \in 0..MaxFaults
      BY <2>2 DEF TypeOK
    <3> QED BY <2>1, <2>2, <3>1
  <2>3. CASE Fault /\ queueFile' \in FailedWrite(queueFile, Finished(outcome))
             /\ queue' = Finished("failed") /\ reported' = [reported EXCEPT ![taken.id] = "failed"]
    <3>1. faults' \in 0..MaxFaults /\ queueFile' = queueFile
      BY <2>3 DEF TypeOK, Fault, FailedWrite
    <3> QED BY <2>3, <3>1
  <2> QED BY <2>2, <2>3 DEF Finish
<1>4. /\ waiting' = waiting \ {taken.id} /\ signal' = (signal \/ queue.pending # NoRequest)
      /\ ctl' = "idle" /\ taken' = NoRequest /\ outcome' = "none"
      /\ UNCHANGED <<staged, applied, stagedFile, accepted, frozen, acceptedID, crashes>>
  BY DEF Finish
<1>5. /\ queue' \in Queues /\ queue'.running = NoRequest /\ queue'.pending = queue.pending
      /\ queue'.sequence = queue.sequence /\ queue'.last.id = taken.id /\ queue'.last.state = state
      /\ Newest(queue') = queue.pending /\ queueFile' \in Queues
  BY <1>1, <1>2, <1>3
<1>6. queue.pending # NoRequest => Newest(queueFile) = queue.pending /\ Newest(queue) = queue.pending
  BY <1>1, QueueFields DEF Saved
<1>7. TypeOK'
  <2>1. reported' \in [IDs -> {"none", "superseded", "completed", "failed"}]
    BY <1>3 DEF TypeOK
  <2>2. signal' \in BOOLEAN
    BY <1>4
  <2> QED BY <1>3, <1>4, <1>5, <2>1, <2>2, RequestFields DEF TypeOK
<1>8. Held' /\ Saved' /\ NoLostSubmission'
  BY <1>3, <1>4, <1>5, <1>6 DEF Held, Saved, NoLostSubmission
<1>9. Numbered' /\ Frozen'
  BY <1>1, <1>3, <1>4, <1>5, QueueFields, RequestFields DEF Numbered, Frozen
<1>10. Owed'
  <2> SUFFICES ASSUME NEW i \in IDs, i = queue.sequence, reported'[i] = "none"
               PROVE  Newest(queueFile').id = i
    BY <1>5 DEF Owed
  <2>1. i # taken.id /\ reported[i] = "none"
    BY <1>1, <1>3 DEF TypeOK
  <2>2. Newest(queueFile).id = i
    BY <2>1 DEF Owed
  <2>3. queue.pending # NoRequest
    BY <1>1, <2>1, <2>2, QueueFields, RequestFields DEF Saved
  <2> QED BY <1>3, <1>5, <1>6, <2>2, <2>3
<1>11. acceptedID \in 0..MaxID /\ acceptedID <= queue.sequence
       /\ (state = "completed" => acceptedID >= taken.id)
  BY <1>3 DEF TypeOK, Progress
<1>12. Progress'
  BY <1>3, <1>4, <1>5, <1>6, <1>11 DEF Progress
<1>13. Settled'
  BY <1>1, <1>4 DEF Settled, AcceptedWasSubmitted
<1>14. Told'
  BY <1>3, <1>4, <1>5, <1>11 DEF Told, CompletedIsRecorded, TypeOK
<1> QED BY <1>7, <1>8, <1>9, <1>10, <1>12, <1>13, <1>14

-----------------------------------------------------------------------------
(* The end of the process.                                                  *)

\* What the file would resume is what a restart finds.
LEMMA CrashQInv ==
  ASSUME QInv, Crash PROVE QInv'
<1> USE DEF QInv
<1>1. /\ queueFile \in Queues /\ queue' = Resumed(queueFile)
      /\ ctl' = "idle" /\ taken' = NoRequest /\ outcome' = "none" /\ waiting' = {}
      /\ applied' = accepted /\ UNCHANGED <<files, history, faults>>
      /\ signal' = (queue'.pending # NoRequest)
  BY DEF Crash, TypeOK
<1>2. /\ queue' \in Queues /\ queue'.running = NoRequest /\ queue'.pending = Newest(queueFile)
      /\ queue'.sequence = queueFile.sequence /\ queue'.last = queueFile.last
      /\ Newest(queueFile) \in Requests /\ Newest(queue') = Newest(queueFile)
      /\ Newest(queueFile) \in {queueFile.running, queueFile.pending}
  BY <1>1, QueueFields DEF Newest
<1>3. TypeOK'
  <2>1. signal' \in BOOLEAN
    BY <1>1
  <2>2. staged' \in Overrides /\ crashes' \in 0..MaxCrashes
    BY DEF Crash, TypeOK
  <2> QED BY <1>1, <1>2, <2>1, <2>2, RequestFields DEF TypeOK, files, history
<1>4. Held' /\ Saved' /\ NoLostSubmission'
  BY <1>1, <1>2 DEF Held, Saved, NoLostSubmission, files
<1>5. Numbered' /\ Frozen'
  BY <1>1, <1>2, QueueFields, RequestFields DEF Numbered, Frozen, Saved, files, history
<1>6. Owed' /\ Progress'
  BY <1>1, <1>2 DEF Owed, Progress, Saved, files, history
<1>7. Settled' /\ Told'
  BY <1>1, <1>2 DEF Settled, Told, AcceptedWasSubmitted, CompletedIsRecorded, files, history
<1> QED BY <1>3, <1>4, <1>5, <1>6, <1>7

\* The invariant is inductive.
LEMMA StepQInv ==
  ASSUME SyncDirFails = FALSE, QInv, [Next]_vars PROVE QInv'
<1>1. CASE UNCHANGED vars
  BY <1>1 DEF vars, memory, files, loop, history, QInv, TypeOK, Held, Saved, Numbered, Frozen, Owed,
              Progress, Settled, Told, NoLostSubmission, AcceptedWasSubmitted, CompletedIsRecorded
<1>2. CASE Clients
  BY <1>2, SubmitQInv, SubmitFailsQInv, SubmitAgainQInv, StagingQInv DEF Clients
<1>3. CASE Controller
  BY <1>3, TakeQInv, ApplyingQInv, AcceptQInv, FinishQInv DEF Controller
<1> QED BY <1>1, <1>2, <1>3, CrashQInv DEF Next

\* The invariant that the theorems rest on.
THEOREM QueueInvariant ==
  ASSUME SyncDirFails = FALSE PROVE Spec => []QInv
<1> QED BY InitQInv, StepQInv, PTL DEF Spec

\* What a crash would resume is the newest acknowledged submission, as frozen
\* (apply.go: SubmitApply saves before it answers, loadApply).
THEOREM AcknowledgedSurvives ==
  ASSUME SyncDirFails = FALSE PROVE Spec => []AcknowledgedDurable
<1>1. ASSUME QInv PROVE AcknowledgedDurable
  <2> SUFFICES ASSUME NEW i \in IDs, frozen[i] # None, reported[i] = "none",
                      \A j \in IDs : j > i => frozen[j] = None
               PROVE  Resumed(queueFile).pending = [id |-> i, overrides |-> frozen[i]]
    BY DEF AcknowledgedDurable
  <2>1. queue.sequence \in 0..MaxID /\ queueFile \in Queues
    BY <1>1, QueueFields DEF QInv, TypeOK
  <2>2. i = queue.sequence
    <3>1. i <= queue.sequence
      BY <1>1 DEF QInv, Frozen
    <3>2. ~(i < queue.sequence)
      BY <1>1, <2>1 DEF QInv, Frozen
    <3> QED BY <2>1, <3>1, <3>2
  <2>3. Newest(queueFile).id = i
    BY <1>1, <2>2 DEF QInv, Owed
  <2>4. /\ Newest(queueFile) \in Requests /\ Newest(queueFile) # NoRequest
        /\ Newest(queueFile) \in {queueFile.running, queueFile.pending}
    BY <2>1, <2>3, QueueFields, RequestFields
  <2>5. Newest(queueFile).overrides = frozen[i]
    BY <1>1, <2>3, <2>4 DEF QInv, Frozen
  <2>6. Newest(queueFile) \in [id : IDs, overrides : Overrides]
    BY <2>4 DEF Requests
  <2>7. Newest(queueFile) = [id |-> i, overrides |-> frozen[i]]
    BY <2>3, <2>5, <2>6
  <2> QED BY <2>7 DEF Newest
<1> QED BY <1>1, QueueInvariant, PTL

\* Only submitted settings become accepted, as they were when submitted.
THEOREM AcceptedIsSubmitted ==
  ASSUME SyncDirFails = FALSE PROVE Spec => []AcceptedWasSubmitted
<1>1. QInv => AcceptedWasSubmitted
  BY DEF QInv, Settled
<1> QED BY <1>1, QueueInvariant, PTL

\* What a client or apply.json is told is completed is recorded.
THEOREM CompletedRecorded ==
  ASSUME SyncDirFails = FALSE PROVE Spec => []CompletedIsRecorded
<1>1. QInv => CompletedIsRecorded
  BY DEF QInv, Told
<1> QED BY <1>1, QueueInvariant, PTL

\* A submission that waits is signalled to the controller.
THEOREM SubmissionNotLost ==
  ASSUME SyncDirFails = FALSE PROVE Spec => []NoLostSubmission
<1>1. QInv => NoLostSubmission
  BY DEF QInv
<1> QED BY <1>1, QueueInvariant, PTL

\* The accepted submission only ever gets newer, through crashes, failing saves
\* and late results.
THEOREM NewestWins ==
  ASSUME SyncDirFails = FALSE PROVE Spec => NewestIntentWins
<1>1. QInv /\ [Next]_vars => [acceptedID' >= acceptedID]_vars
  <2> SUFFICES ASSUME QInv, [Next]_vars, vars' # vars PROVE acceptedID' >= acceptedID
    OBVIOUS
  <2>1. acceptedID \in Nat
    BY DEF QInv, TypeOK
  <2>2. CASE ApplyNothing \/ ApplyRecords
    BY <2>2 DEF ApplyNothing, ApplyRecords, QInv, Progress
  <2>3. CASE ~(ApplyNothing \/ ApplyRecords)
    <3>1. acceptedID' = acceptedID
      BY <2>3 DEF Next, Clients, Controller, Submit, SubmitFails, SubmitAgain, Stage, StageFails, Take,
                  Accept, ApplyFails, Finish, Crash, history
    <3> QED BY <2>1, <3>1
  <2> QED BY <2>2, <2>3
<1> QED BY <1>1, QueueInvariant, PTL DEF Spec, NewestIntentWins
=============================================================================
