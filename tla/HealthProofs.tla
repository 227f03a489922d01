----------------------------- MODULE HealthProofs -----------------------------
(***************************************************************************)
(* Proofs about module Health, for every set of limits: its types, and     *)
(* that a failure is reported only after HEALTH_FAILURES genuine failures  *)
(* in a row. What makes that inductive is that the count and the history   *)
(* of genuine failures agree at every pc of a watch that goes on.          *)
(***************************************************************************)
EXTENDS Health, TLAPS

\* What was counted is what the running application failed to answer, unless
\* the watch is cancelled; only its judgement may lag behind by one probe.
CountedGenuine ==
    /\ phase = "ready" => bad = 0 /\ streak = 0 /\ report = "none" /\ pc # "failed"
    /\ phase = "watch" => report = "none" /\ pc # "end"
    /\ phase = "watch" /\ pc \in {"check", "probe", "sleep"} /\ ~cancelled /\ ~exited
         => streak = bad /\ bad < limit
    /\ phase = "watch" /\ pc = "judge" /\ ~cancelled /\ ~exited
         => bad < limit /\ streak = (IF err = "failed" THEN bad + 1 ELSE 0)
    /\ phase = "watch" /\ pc = "failed" /\ ~cancelled => streak = limit
    /\ phase = "done" => pc = "end"

USE HealthAssumption DEF environment, Goto, Return, Cut

\* What a probe does.
LEMMA ProbeCases ==
  ASSUME TypeOK, Probe
  PROVE  /\ err' \in {"nil", "failed"} /\ pc = "probe" /\ pc' = "judge"
         /\ UNCHANGED <<phase, report, environment, bad, limit>>
         /\ streak' = IF err' = "nil" THEN 0
                      ELSE IF Cut \/ phase = "ready" THEN streak ELSE streak + 1
  BY DEF Probe

\* The checker and its environment keep to their types.
THEOREM HealthType == Spec => []TypeOK
<1>1. Init => TypeOK
  <2> SUFFICES ASSUME Init PROVE TypeOK
    OBVIOUS
  <2>1. /\ answers \in BOOLEAN /\ exited \in BOOLEAN /\ cancelled \in BOOLEAN
        /\ late \in BOOLEAN /\ err \in {"nil", "failed"}
    BY DEF Init
  <2>2. limit \in Limits /\ bad \in Nat /\ streak \in Nat
    BY DEF Init
  <2>3. /\ phase \in {"ready", "watch", "done"}
        /\ pc \in {"check", "probe", "judge", "sleep", "failed", "end"}
        /\ report \in {"none", "rejected", "silent", "ended", "exited", "threshold"}
    BY DEF Init
  <2> QED BY <2>1, <2>2, <2>3 DEF TypeOK
<1>2. TypeOK /\ [Next]_vars => TypeOK'
  <2> SUFFICES ASSUME TypeOK, [Next]_vars PROVE TypeOK'
    OBVIOUS
  <2> USE DEF TypeOK
  <2>1. CASE Check
    BY <2>1 DEF Check
  <2>2. CASE Probe
    <3>1. streak' \in Nat
      BY <2>2, ProbeCases
    <3>2. err' \in {"nil", "failed"} /\ UNCHANGED <<phase, report, environment, bad, limit>> /\ pc' = "judge"
      BY <2>2, ProbeCases
    <3> QED BY <3>1, <3>2
  <2>3. CASE Sleep
    BY <2>3 DEF Sleep
  <2>4. CASE JudgeCandidate
    BY <2>4 DEF JudgeCandidate
  <2>5. CASE Publish
    BY <2>5 DEF Publish
  <2>6. CASE Judge
    <3>1. bad' \in Nat
      BY <2>6 DEF Judge, Count
    <3>2. /\ UNCHANGED <<environment, err, limit, streak>>
          /\ phase' \in {"watch", "done"} /\ pc' \in {"end", "failed", "sleep"}
          /\ report' \in {"ended", report}
      BY <2>6 DEF Judge
    <3> QED BY <3>1, <3>2
  <2>7. CASE Report
    BY <2>7 DEF Report
  <2>8. CASE Flip \/ Exit \/ Cancel \/ Deadline
    <3>1. CASE Flip
      BY <3>1 DEF Flip
    <3>2. CASE Exit
      BY <3>2 DEF Exit
    <3>3. CASE Cancel
      BY <3>3 DEF Cancel
    <3>4. CASE Deadline
      BY <3>4 DEF Deadline
    <3> QED BY <2>8, <3>1, <3>2, <3>3, <3>4
  <2>9. CASE UNCHANGED vars
    BY <2>9 DEF vars
  <2> QED
    BY <2>1, <2>2, <2>3, <2>4, <2>5, <2>6, <2>7, <2>8, <2>9 DEF Next, Checker
<1> QED
  BY <1>1, <1>2, PTL DEF Spec

\* A failure is reported after exactly HEALTH_FAILURES probes in a row that the
\* running application failed (health.go, UntilFailure).
THEOREM HealthVerdict == Spec => []VerdictGenuine
<1>1. Init => CountedGenuine /\ VerdictGenuine
  BY DEF Init, CountedGenuine, VerdictGenuine
<1>2. TypeOK /\ CountedGenuine /\ VerdictGenuine /\ [Next]_vars
        => (CountedGenuine /\ VerdictGenuine)'
  <2> SUFFICES ASSUME TypeOK, CountedGenuine, VerdictGenuine, [Next]_vars
               PROVE  CountedGenuine' /\ VerdictGenuine'
    OBVIOUS
  <2> USE DEF CountedGenuine, VerdictGenuine
  <2>1. CASE Check
    BY <2>1 DEF Check, TypeOK
  <2>2. CASE Probe
    <3>1. phase = "ready" => streak' = 0
      BY <2>2, ProbeCases
    <3>2. phase = "watch" /\ ~cancelled /\ ~exited => streak' = (IF err' = "failed" THEN bad + 1 ELSE 0)
      BY <2>2, ProbeCases
    <3>3. /\ UNCHANGED <<phase, report, environment, bad, limit>>
          /\ pc = "probe" /\ pc' = "judge" /\ err' \in {"nil", "failed"}
      BY <2>2, ProbeCases
    <3>4. bad \in Nat /\ limit \in Nat \ {0} /\ phase \in {"ready", "watch", "done"}
      BY DEF TypeOK
    <3> QED BY <3>1, <3>2, <3>3, <3>4
  <2>3. CASE Sleep
    BY <2>3 DEF Sleep, TypeOK
  <2>4. CASE JudgeCandidate
    BY <2>4 DEF JudgeCandidate, TypeOK
  <2>5. CASE Publish
    BY <2>5 DEF Publish, TypeOK
  <2>6. CASE Judge
    <3>1. CASE err = "failed" /\ exited
      BY <2>6, <3>1 DEF Judge, TypeOK
    <3>2. CASE ~(err = "failed" /\ exited)
      <4>1. bad' = Count /\ phase = "watch" /\ pc = "judge"
        BY <2>6, <3>2 DEF Judge
      <4>2. bad \in Nat /\ limit \in Nat \ {0}
        BY DEF TypeOK
      <4> QED BY <2>6, <3>2, <4>1, <4>2 DEF Judge, Count
    <3> QED BY <3>1, <3>2
  <2>7. CASE Report
    BY <2>7 DEF Report, TypeOK
  <2>8. CASE Flip \/ Exit \/ Cancel \/ Deadline
    BY <2>8 DEF Flip, Exit, Cancel, Deadline, TypeOK
  <2>9. CASE UNCHANGED vars
    BY <2>9 DEF vars
  <2> QED
    BY <2>1, <2>2, <2>3, <2>4, <2>5, <2>6, <2>7, <2>8, <2>9 DEF Next, Checker
<1> QED
  BY <1>1, <1>2, HealthType, PTL DEF Spec
=============================================================================
