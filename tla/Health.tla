------------------------------- MODULE Health -------------------------------
(***************************************************************************)
(* internal/health and its use in supervisor.watch: a candidate is probed  *)
(* until it answers or its startup time is over; once it is published, it  *)
(* is probed until enough probes in a row have failed. The application may *)
(* stop answering and answer again, its process may exit and the wait be   *)
(* cancelled at any point, also while a probe is under way.                *)
(***************************************************************************)
EXTENDS Naturals

CONSTANT Limits  \* the values of HEALTH_FAILURES

ASSUME HealthAssumption == Limits \subseteq Nat \ {0}

VARIABLES
    \* --- the application and its environment
    answers,    \* it would answer a probe
    exited,     \* p.Done() is closed, for every receiver
    cancelled,  \* ctx.Done() is closed
    late,       \* the startup deadline has passed
    \* --- Ready, then UntilFailure
    phase, pc, err, bad, limit,
    \* --- what became of it: what watch reports
    report,
    streak      \* history: probes in a row that the running application failed

environment == <<answers, exited, cancelled, late>>
vars        == <<environment, phase, pc, err, bad, limit, report, streak>>

Init ==
    /\ answers = FALSE /\ exited = FALSE /\ cancelled = FALSE /\ late = FALSE
    /\ phase = "ready" /\ pc = "check" /\ err = "nil" /\ bad = 0
    /\ limit \in Limits
    /\ report = "none" /\ streak = 0

-----------------------------------------------------------------------------
(* The environment.                                                         *)

Flip ==
    /\ ~exited /\ answers' \in BOOLEAN \ {answers}
    /\ UNCHANGED <<exited, cancelled, late, phase, pc, err, bad, limit, report, streak>>

Exit ==
    /\ ~exited /\ exited' = TRUE /\ answers' = FALSE
    /\ UNCHANGED <<cancelled, late, phase, pc, err, bad, limit, report, streak>>

Cancel ==
    /\ ~cancelled /\ cancelled' = TRUE
    /\ UNCHANGED <<answers, exited, late, phase, pc, err, bad, limit, report, streak>>

Deadline ==
    /\ phase = "ready" /\ ~late /\ late' = TRUE
    /\ UNCHANGED <<answers, exited, cancelled, phase, pc, err, bad, limit, report, streak>>

-----------------------------------------------------------------------------
(* What both loops do.                                                      *)

Goto(next) == pc' = next /\ UNCHANGED <<phase, report>>

\* A loop returns, and its caller with it.
Return(what) == phase' = "done" /\ pc' = "end" /\ report' = what

Cut == exited \/ cancelled \/ (phase = "ready" /\ late)

\* The loops begin with the process; under a context that is done, or without
\* time left, a probe fails at once.
Check ==
    /\ pc = "check"
    /\ IF exited THEN Return(IF phase = "ready" THEN "rejected" ELSE "ended") /\ UNCHANGED err
       ELSE IF Cut THEN err' = "failed" /\ Goto("judge")
       ELSE Goto("probe") /\ UNCHANGED err
    /\ UNCHANGED <<environment, bad, limit, streak>>

\* probeWhileRunning: a probe that the exit, the cancellation or the deadline
\* cuts short has failed like one that was not answered.
Probe ==
    /\ pc = "probe"
    /\ \/ err' = (IF answers THEN "nil" ELSE "failed")
       \/ Cut /\ err' = "failed"
    /\ streak' = IF err' = "nil" THEN 0 ELSE IF Cut \/ phase = "ready" THEN streak ELSE streak + 1
    /\ Goto("judge")
    /\ UNCHANGED <<environment, bad, limit>>

\* The timer between two probes, the end of the process, or the cancellation.
Sleep ==
    /\ pc = "sleep"
    /\ \/ Goto("check")
       \/ exited /\ Return(IF phase = "ready" THEN "rejected" ELSE "ended")
       \/ cancelled /\ Return(IF phase = "ready" THEN "rejected" ELSE "silent")
    /\ UNCHANGED <<environment, err, bad, limit, streak>>

-----------------------------------------------------------------------------
(* Ready.                                                                   *)

\* Mutant: it is probed as long as it takes.
JudgeCandidateForever ==
    /\ pc = "judge" /\ phase = "ready" /\ (err = "failed" \/ exited)
    /\ IF exited THEN Return("rejected") ELSE Goto("sleep")
    /\ UNCHANGED <<environment, err, bad, limit, streak>>

JudgeCandidate ==
    /\ pc = "judge" /\ phase = "ready" /\ (err = "failed" \/ exited)
    /\ IF exited \/ late THEN Return("rejected") ELSE Goto("sleep")
    /\ UNCHANGED <<environment, err, bad, limit, streak>>

\* A candidate that answered is published, unless it was cancelled meanwhile,
\* and watched under a context of its own.
Publish ==
    /\ pc = "judge" /\ phase = "ready" /\ err = "nil" /\ ~exited
    /\ IF cancelled THEN Return("rejected") /\ UNCHANGED cancelled
       ELSE /\ phase' = "watch" /\ pc' = "check" /\ UNCHANGED report
            /\ cancelled' = FALSE
    /\ UNCHANGED <<answers, exited, late, err, bad, limit, streak>>

-----------------------------------------------------------------------------
(* UntilFailure, and the goroutine of watch around it.                      *)

\* Mutant: failures add up over the life of the instance.
CountAll == IF err = "failed" THEN bad + 1 ELSE bad

Count == IF err = "failed" THEN bad + 1 ELSE 0

Judge ==
    /\ pc = "judge" /\ phase = "watch"
    /\ IF err = "failed" /\ exited THEN Return("ended") /\ UNCHANGED bad
       ELSE /\ bad' = Count
            /\ IF err = "failed" /\ bad' >= limit THEN Goto("failed") ELSE Goto("sleep")
    /\ UNCHANGED <<environment, err, limit, streak>>

\* A verdict under a cancelled context is dropped.
Report ==
    /\ \/ pc = "failed" /\ Return(IF cancelled THEN "silent" ELSE "threshold")
       \/ report = "ended" /\ Return(IF cancelled THEN "silent" ELSE "exited")
    /\ UNCHANGED <<environment, err, bad, limit, streak>>

Checker == Check \/ Probe \/ Sleep \/ JudgeCandidate \/ Publish \/ Judge \/ Report

Next == Checker \/ Flip \/ Exit \/ Cancel \/ Deadline

Spec == Init /\ [][Next]_vars

\* Probes have a timeout, timers fire, and time passes; nothing else is promised.
FairSpec == Spec /\ WF_vars(Checker) /\ WF_vars(Deadline)

-----------------------------------------------------------------------------
TypeOK ==
    /\ answers \in BOOLEAN /\ exited \in BOOLEAN /\ cancelled \in BOOLEAN
    /\ late \in BOOLEAN /\ err \in {"nil", "failed"}
    /\ phase \in {"ready", "watch", "done"}
    /\ pc \in {"check", "probe", "judge", "sleep", "failed", "end"}
    /\ report \in {"none", "rejected", "silent", "ended", "exited", "threshold"}
    /\ limit \in Limits /\ bad \in Nat /\ streak \in Nat

\* A failure is reported after exactly HEALTH_FAILURES probes in a row that the
\* running application left unanswered: one it answered begins the count anew,
\* and none that an exit or a cancellation cut short is held against it.
VerdictGenuine == report = "threshold" => streak = limit

\* A deployment never waits for a candidate beyond its startup time, and an
\* application that has exited, or answers no more, is noticed.
WaitsEnd ==
    /\ phase = "ready" ~> phase # "ready"
    /\ (phase = "watch" /\ exited) ~> phase = "done"
    /\ (phase = "watch" /\ [](~answers)) ~> phase = "done"
=============================================================================
