-------------------------- MODULE ControllerProofs --------------------------
(***************************************************************************)
(* Proofs about module Controller, for any number of instances, revisions, *)
(* settings, requests and faults: the loop's types, that a selection to    *)
(* deploy has a timer behind it, that a repair is interrupted once, that   *)
(* the active revision never goes back, and that an accepted revision that *)
(* lost its traffic is not left behind. Each follows from an inductive     *)
(* invariant of its own, and all of them look at a step of the engine only *)
(* by its kind: an operation starts, advances, fails, cuts over, winds up  *)
(* or returns, or something beside it disturbs or halts it. At the end the *)
(* properties of the engine are shown to hold of the two together.         *)
(***************************************************************************)
EXTENDS Controller, EngineProofs

USE EngineAssumption DEF Gens

-----------------------------------------------------------------------------
(* Types.                                                                   *)

\* The selection to deploy is there when the loop goes to deploy it.
Aimed ==
    /\ at \in {"deploy", "deploying"} => pending # None
    /\ at = "refreshed" => target # None

\* The types of the loop's variables, one by one.
ControlTyped ==
    /\ at \in {"select", "drain", "replace", "refreshed", "command", "apply", "recoverFirst",
              "recoverSecond", "recoveringFirst", "recoveringSecond", "deploy", "deploying"}
    /\ recovery \in 0..MaxSeq
    /\ pending \in Revisions \cup {None} /\ selected \in Revisions \cup {None}
    /\ target \in Revisions \cup {None}
    /\ updates \in Revisions \cup {None} /\ polled \in Revisions \cup {None}
    /\ pendingFailed \in BOOLEAN /\ retry \in BOOLEAN
    /\ restoreFirst \in BOOLEAN /\ initialRecovery \in BOOLEAN
    /\ head \in Revisions /\ requests \in 0..MaxRequests /\ losses \in Nat

CTypeInv == TypeInv /\ ControlTyped /\ Aimed

\* The steps of the loop and of the poller.
Turns == GitMoves \/ Polling \/ Select \/ Commands \/ Attempt

\* What the loop does without the engine: at most a result is taken, or given
\* without an operation, or a failed generation loses its traffic.
LEMMA AsideTypeInv ==
  ASSUME TypeInv,
         UNCHANGED <<dataVars, active, cfg, seq, draining, restore, interrupted, watchers, pc,
                     op, killing, up, boots>>,
         proxy' \in {proxy, None}, result' \in {"none", "ok", "failed"},
         failures' \in {failures, 0}, memory' = memory, Fault \/ UNCHANGED faults
  PROVE  TypeInv'
<1>1. faults' \in 0..MaxFaults
  BY DEF TypeInv, TypeOK, Fault
<1> QED BY <1>1 DEF TypeInv, TypeOK, SeqRoom, DeployNamed, ActiveExists, dataVars, watchers

\* The loop's own steps keep the types of the engine,
LEMMA LoopTypeInv ==
  ASSUME CTypeInv, Turns PROVE TypeInv'
<1>0. failures \in 0..MaxSeq /\ memory \in 0..MaxSeq /\ result \in {"none", "ok", "failed"}
      /\ cfg \in Configs /\ 0 \in 0..MaxSeq
  BY DEF CTypeInv, TypeInv, TypeOK
<1> USE DEF CTypeInv, ControlTyped, Aimed
<1>1. ASSUME UNCHANGED vars PROVE TypeInv'
  BY <1>0, <1>1, AsideTypeInv DEF vars, routing, chans, opVars, life
<1>2. ASSUME UNCHANGED <<engine, chans>>, result' \in {"none", "ok", "failed"} PROVE TypeInv'
  BY <1>0, <1>2, AsideTypeInv DEF engine, routing, chans, life
<1>3. ASSUME NEW rev \in Revisions, NEW plan \in Configs, BeginDeploy("deploy", rev, plan),
             UNCHANGED chans
      PROVE  TypeInv'
  BY <1>0, <1>3, BeginsTypeInv DEF chans
<1>4. ASSUME NEW force \in BOOLEAN, NEW g, g = active.gen, BeginRecover(g, force), UNCHANGED chans
      PROVE  TypeInv'
  BY <1>0, <1>4, BeginsTypeInv DEF chans
<1>5. GitMoves \/ Polling => TypeInv'
  BY <1>1 DEF GitMoves, Polling, PollSamples, PollSends
<1>6. ASSUME Select PROVE TypeInv'
  <2>1. CASE TakeUpdate \/ TakeRetry
    BY <1>1, <2>1 DEF TakeUpdate, TakeRetry
  <2>2. CASE TakeFailure
    BY <1>0, <2>2, AsideTypeInv DEF TakeFailure, opVars, life
  <2>3. CASE TakeMemory
    BY <1>0, <2>3, BeginsTypeInv DEF TakeMemory
  <2> QED BY <1>6, <2>1, <2>2, <2>3 DEF Select
<1>7. ASSUME Commands PROVE TypeInv'
  <2>1. CASE Restart
    BY <1>4, <2>1 DEF Restart
  <2>2. CASE Refresh
    BY <1>1, <2>2 DEF Refresh
  <2>3. CASE RequestFails \/ ApplyNothing
    BY <1>2, <2>3 DEF RequestFails, ApplyNothing
  <2>4. ASSUME NEW plan \in Configs, ApplyPolicy(plan) PROVE TypeInv'
    BY <1>0, <2>4, BeginsTypeInv DEF ApplyPolicy, chans
  <2>5. ASSUME NEW plan \in Configs, NEW rev \in Revisions, ApplyReplace(plan, rev) PROVE TypeInv'
    BY <1>3, <2>5 DEF ApplyReplace
  <2> QED BY <1>7, <2>1, <2>2, <2>3, <2>4, <2>5 DEF Commands
<1>8. ASSUME Attempt PROVE TypeInv'
  <2>1. CASE ReplaceReturns \/ RequestSucceeds \/ RequestFailed \/ RecoveryFailed \/ Recovered
             \/ DeployFailed \/ Deployed
    BY <1>2, <2>1 DEF ReplaceReturns, RequestSucceeds, RequestFailed, RecoveryFailed, Recovered,
                      DeployFailed, Deployed, Returned
  <2>2. CASE Redeploy
    <3>1. target \in Revisions
      BY <2>2 DEF Redeploy
    <3> QED BY <1>0, <3>1, <2>2, <1>3 DEF Redeploy
  <2>3. CASE DrainUpdate \/ UpdatesDrained
    BY <1>1, <2>3 DEF DrainUpdate, UpdatesDrained
  <2>4. ASSUME NEW where, NEW returning, Recovery(where, returning) PROVE TypeInv'
    <3>1. CASE recovery = active.gen
      BY <3>1, <1>4, <2>4 DEF Recovery
    <3>2. CASE recovery # active.gen
      BY <3>2, <1>2, <2>4 DEF Recovery
    <3> QED BY <3>1, <3>2
  <2>5. CASE DeployPending
    <3>1. pending \in Revisions
      BY <2>5 DEF DeployPending
    <3> QED BY <1>0, <3>1, <2>5, <1>3 DEF DeployPending
  <2>6. CASE ConfigureFails
    BY <1>0, <2>6, AsideTypeInv DEF ConfigureFails, routing, chans
  <2> QED BY <1>8, <2>1, <2>2, <2>3, <2>4, <2>5, <2>6 DEF Attempt, RecoverFirst, RecoverSecond
<1> QED BY <1>5, <1>6, <1>7, <1>8 DEF Turns

\* and so does what the engine does beside it.
LEMMA EngineTypeInv ==
  ASSUME TypeInv, Steps \/ (\E g \in Gens : Watches(g)) \/ Disturbances \/ Interrupt \/ Reboot
  PROVE  TypeInv'
<1>1. Steps => TypeInv'
  BY PreparingTypeInv, CuttingOverTypeInv DEF Steps
<1>2. Disturbances => Environment \/ Terminate \/ Shutdown \/ ShutdownStops
  BY DEF Disturbances, Environment
<1>3. Interrupt => Environment
  BY DEF Environment
<1> QED BY <1>1, <1>2, <1>3, WatchesTypeInv, EnvironmentTypeInv, ProcessTypeInv

\* The loop keeps the types of its own state:
LEMMA LoopCTypeInv ==
  ASSUME CTypeInv, Turns PROVE CTypeInv'
<1>1. TypeInv'
  BY LoopTypeInv
<1>2. /\ active.gen \in 0..MaxSeq /\ failures \in 0..MaxSeq
      /\ active.rev \in Revisions \cup {None} /\ disk.rev \in Revisions \cup {None}
      /\ 0 \in 0..MaxSeq
  BY DEF CTypeInv, TypeInv, TypeOK, Actives, States
<1>3. ControlTyped /\ Aimed
  BY DEF CTypeInv
<1>4. SUFFICES ControlTyped' /\ Aimed'
  BY <1>1, <1>4 DEF CTypeInv
<1> USE DEF ControlTyped, Aimed
<1> USE DEF desire, booting, feed, Selecting, Returned, Request
<1>6. CASE GitMoves \/ Polling
  BY ControllerAssumption, <1>2, <1>3, <1>6 DEF GitMoves, Polling, PollSamples, PollSends
<1>10. ASSUME AcceptUpdate(updates), updates # None
       PROVE  pending' \in Revisions \cup {None} /\ pendingFailed' \in BOOLEAN /\ losses' \in Nat
  <2>1. pending' \in Revisions \cup {None}
    BY <1>3, <1>10 DEF AcceptUpdate
  <2>2. losses' \in Nat
    BY <1>3, <1>10 DEF AcceptUpdate
  <2>3. pendingFailed' \in BOOLEAN
    BY <1>10 DEF AcceptUpdate
  <2> QED BY <2>1, <2>2, <2>3
<1>7. CASE Select
  <2>1. CASE TakeUpdate
    BY <1>2, <1>3, <1>10, <2>1 DEF TakeUpdate
  <2>2. CASE TakeFailure
    BY <1>2, <1>3, <2>2 DEF TakeFailure
  <2>3. CASE TakeMemory
    BY <1>2, <1>3, <2>3 DEF TakeMemory
  <2>4. CASE TakeRetry
    BY <1>2, <1>3, <2>4 DEF TakeRetry
  <2> QED BY <1>7, <2>1, <2>2, <2>3, <2>4 DEF Select
<1>8. CASE Commands
  <2>0. requests' = requests + 1 /\ requests < MaxRequests => requests' \in 0..MaxRequests
    BY <1>3, ControllerAssumption
  <2>1. CASE Restart
    BY <1>2, <1>3, <2>0, <2>1 DEF Restart
  <2>2. CASE Refresh
    BY <1>2, <1>3, <2>0, <2>2 DEF Refresh
  <2>3. CASE RequestFails
    BY <1>2, <1>3, <2>0, <2>3 DEF RequestFails
  <2>4. CASE ApplyNothing
    BY <1>2, <1>3, <2>0, <2>4 DEF ApplyNothing, StopPoll
  <2>5. ASSUME NEW plan \in Configs, ApplyPolicy(plan) PROVE ControlTyped' /\ Aimed'
    BY <1>2, <1>3, <2>0, <2>5 DEF ApplyPolicy, StopPoll
  <2>6. ASSUME NEW plan \in Configs, NEW rev \in Revisions, ApplyReplace(plan, rev)
        PROVE  ControlTyped' /\ Aimed'
    BY <1>2, <1>3, <2>0, <2>6 DEF ApplyReplace, StopPoll
  <2> QED BY <1>8, <2>1, <2>2, <2>3, <2>4, <2>5, <2>6 DEF Commands
<1>9. CASE Attempt
  <2>1. CASE ReplaceReturns
    BY <1>2, <1>3, <2>1 DEF ReplaceReturns
  <2>2. CASE Redeploy
    BY <1>2, <1>3, <2>2 DEF Redeploy
  <2>3. CASE RequestSucceeds
    <3>1. CASE target = None
      BY <1>2, <1>3, <2>3, <3>1 DEF RequestSucceeds
    <3>2. CASE target # None
      <4>1. /\ selected' = target /\ pending' = None /\ pendingFailed' = FALSE
            /\ restoreFirst' = FALSE /\ initialRecovery' = FALSE
            /\ retry' = FALSE /\ losses' = 0 /\ recovery' = 0 /\ at' = "select"
            /\ target' = None /\ UNCHANGED feed
        BY <2>3, <3>2 DEF RequestSucceeds
      <4> QED BY <1>2, <1>3, <4>1
    <3> QED BY <3>1, <3>2
  <2>4. CASE RequestFailed
    BY <1>2, <1>3, <2>4 DEF RequestFailed
  <2>5. CASE DrainUpdate
    BY <1>2, <1>3, <1>10, <2>5 DEF DrainUpdate
  <2>6. CASE UpdatesDrained
    BY <1>2, <1>3, <2>6 DEF UpdatesDrained
  <2>7. CASE RecoverFirst
    BY <1>2, <1>3, <2>7 DEF RecoverFirst, Recovery
  <2>8. CASE RecoverSecond
    BY <1>2, <1>3, <2>8 DEF RecoverSecond, Recovery
  <2>9. CASE RecoveryFailed
    BY <1>2, <1>3, <2>9 DEF RecoveryFailed
  <2>10. CASE Recovered
    BY <1>2, <1>3, <2>10 DEF Recovered
  <2>11. CASE DeployPending
    BY <1>2, <1>3, <2>11 DEF DeployPending
  <2>12. CASE ConfigureFails
    BY <1>2, <1>3, <2>12 DEF ConfigureFails
  <2>13. CASE DeployFailed
    BY <1>2, <1>3, <2>13 DEF DeployFailed
  <2>14. CASE Deployed
    BY <1>2, <1>3, <2>14 DEF Deployed
  <2> QED BY <1>9, <2>1, <2>2, <2>3, <2>4, <2>5, <2>6, <2>7, <2>8, <2>9, <2>10, <2>11, <2>12,
             <2>13, <2>14 DEF Attempt
<1> QED BY <1>6, <1>7, <1>8, <1>9 DEF Turns

\* The inductive type invariant of the loop and its engine.
THEOREM LoopTypes == CSpec => []CTypeInv
<1>1. CInit => CTypeInv
  <2>1. CInit => 0 \in 0..MaxSeq /\ 0 \in 0..MaxRequests /\ 1 \in Revisions /\ 0 \in Nat
    BY ControllerAssumption DEF CInit
  <2> QED BY <2>1, InitTypeInv DEF CInit, CTypeInv, ControlTyped, Aimed, TypeInv
<1>2. ASSUME CTypeInv, [CNext]_all PROVE CTypeInv'
  <2>1. CASE UNCHANGED all
    <3>1. TypeInv'
      BY <1>2, <2>1 DEF all, vars, CTypeInv, TypeInv, TypeOK, SeqRoom, DeployNamed, ActiveExists,
                        dataVars, routing, watchers, opVars, life, chans
    <3> QED BY <1>2, <2>1, <3>1 DEF all, ctl, desire, booting, feed, CTypeInv, ControlTyped, Aimed, TypeInv
  <2>2. CASE Turns
    BY <1>2, <2>2, LoopCTypeInv
  <2>3. CASE (Steps \/ (\E g \in Gens : Watches(g)) \/ Disturbances) /\ UNCHANGED ctl
    <3>1. TypeInv'
      BY <1>2, <2>3, EngineTypeInv DEF CTypeInv
    <3> QED BY <1>2, <2>3, <3>1 DEF ctl, desire, booting, feed, CTypeInv, ControlTyped, Aimed, TypeInv
  <2>4. CASE Interrupted
    <3>1. TypeInv'
      BY <1>2, <2>4, EngineTypeInv DEF CTypeInv, Interrupted
    <3>2. losses \in Nat
      BY <1>2 DEF CTypeInv, ControlTyped
    <3>3. losses' \in Nat
      BY <3>2, <2>4 DEF Interrupted
    <3> QED BY <1>2, <2>4, <3>1, <3>3 DEF Interrupted, booting, feed, CTypeInv, ControlTyped, Aimed, TypeInv
  <2>5. CASE Restarted
    <3>1. TypeInv'
      BY <1>2, <2>5, EngineTypeInv DEF CTypeInv, Restarted
    <3>2. disk.rev \in Revisions \cup {None} /\ 0 \in 0..MaxSeq
      BY <1>2 DEF CTypeInv, TypeInv, TypeOK, States
    <3> QED BY <1>2, <2>5, <3>1, <3>2 DEF Restarted, booting, feed, CTypeInv, ControlTyped, Aimed, TypeInv
  <2> QED BY <1>2, <2>1, <2>2, <2>3, <2>4, <2>5 DEF CNext, Turns
<1> QED BY <1>1, <1>2, PTL DEF CSpec

\* The types of the loop, for every size of the system.
THEOREM LoopTypeCorrect == CSpec => []CTypeOK
<1>1. CTypeInv => CTypeOK
  BY DEF CTypeInv, ControlTyped, CTypeOK, TypeInv
<1> QED BY <1>1, LoopTypes, PTL


-----------------------------------------------------------------------------
(* What the steps of the engine mean to the loop.                           *)
Halting == {"idle", "shutdown"}

SameOp == /\ op'.kind = op.kind /\ op'.rev = op.rev /\ op'.plan = op.plan
          /\ op'.guarded = op.guarded

\* The active deployment is the same, and not running again.
SameActive == /\ active'.gen = active.gen /\ active'.rev = active.rev /\ active'.inst = active.inst
              /\ Running(active.inst)' => Running(active.inst)

SameWatch == UNCHANGED <<proxy, watch, cancelled, chans>>

\* A call begins an operation: a deployment, a replacement or a recovery.
Starts(kind, rev, plan) ==
    /\ pc = "idle" /\ pc' \in Before /\ up = "up"
    /\ op'.kind = kind /\ op'.rev = rev /\ op'.plan = plan /\ op'.ctx = {}
    /\ UNCHANGED <<inst, disk, active, cfg, seq, up>>

\* An operation goes on towards its cutover,
Advances ==
    /\ pc \in Before /\ pc' \in Before \ {"stop"}
    /\ SameOp /\ op'.ctx = op.ctx /\ SameActive /\ SameWatch
    /\ disk'.rev \in {disk.rev, op.rev} /\ seq' \in {seq, seq + 1}
    /\ UNCHANGED <<cfg, interrupted, up>>

\* fails before it,
Fails ==
    /\ pc \in Before /\ pc' = "idle" /\ op' = NoOp /\ result' = "failed"
    /\ interrupted' = IF op.kind = "deploy" /\ op.ctx = {"serving"}
                      THEN ResumeKey(op.rev, op.plan) ELSE interrupted
    /\ SameActive /\ SameWatch
    /\ UNCHANGED <<disk, cfg, seq, up>>

\* cuts over,
CutsOver ==
    /\ pc = "publish" /\ pc' \in After /\ op' = op /\ op.ctx = {}
    /\ active'.gen = seq + 1 /\ active'.rev = op.rev /\ disk'.rev = op.rev
    /\ cfg' = op.plan /\ seq' = seq + 1 /\ proxy' # None
    /\ watch' = [Stopping(watch, active.gen) EXCEPT ![seq + 1] = "on"]
    /\ cancelled' = IF active.gen = 0 THEN cancelled ELSE cancelled \cup {active.gen}
    /\ UNCHANGED <<interrupted, up>>

\* cleans up behind it,
WindsUp ==
    /\ pc \in After /\ pc' \in After /\ op' = op
    /\ interrupted' = interrupted \/ op.kind = "deploy"
    /\ SameActive /\ SameWatch
    /\ UNCHANGED <<disk, cfg, seq, up>>

\* and returns.
Returns ==
    /\ pc = "done" /\ pc' = "idle" /\ op' = NoOp /\ result' = "ok"
    /\ SameActive /\ SameWatch
    /\ UNCHANGED <<disk, cfg, seq, interrupted, up>>

\* Something beside the operation, which at most cancels it, or stops the process,
Disturbs ==
    /\ pc' = pc /\ SameOp /\ op.ctx \subseteq op'.ctx
    /\ SameActive
    /\ UNCHANGED <<disk, cfg, seq, interrupted, result>>
    /\ \/ up' = up /\ (op' = op \/ at = "command")
       \/ up' # "up" /\ (pc = "idle" \/ op'.ctx # {})

\* whose active deployment is then gone.
Halts ==
    /\ pc' \in Halting /\ op'.kind = "none" /\ op'.rev = None /\ ~op'.guarded
    /\ (active'.gen = 0 /\ active'.rev = None) \/ (SameActive /\ pc = "shutdown")
    /\ UNCHANGED <<disk, cfg, seq, interrupted, result>> /\ up' # "up"

\* The calls of the loop begin operations.
LEMMA CallsStart ==
  ASSUME TypeInv
  PROVE  /\ \A rev, plan : \A kind \in {"deploy", "replace"} : BeginDeploy(kind, rev, plan) =>
              /\ Starts(kind, rev, plan) /\ UNCHANGED <<proxy, watch, cancelled>>
              /\ kind = "deploy" /\ interrupted = ResumeKey(rev, plan) =>
                   ~op'.guarded /\ interrupted' = interrupted
              /\ kind = "replace" => interrupted' = interrupted
         /\ \A g, force : BeginRecover(g, force) =>
              /\ Starts("recover", active.rev, cfg) /\ g = active.gen /\ g # 0
              /\ interrupted' = interrupted /\ proxy' = None
              /\ watch' = Stopping(watch, g) /\ cancelled' = cancelled \cup {g}
         /\ \A g : BeginReplace(g) /\ g # 0 =>
              \/ Starts("replace", active.rev, cfg) /\ interrupted' = interrupted /\ active.gen # 0
                 /\ UNCHANGED <<proxy, watch, cancelled>>
              \/ UNCHANGED engine /\ pc = "idle"
<1>1. ASSUME NEW kind \in {"deploy", "replace"}, NEW rev, NEW plan, BeginDeploy(kind, rev, plan)
      PROVE  /\ Starts(kind, rev, plan) /\ UNCHANGED <<proxy, watch, cancelled>>
             /\ kind = "deploy" /\ interrupted = ResumeKey(rev, plan) =>
                  ~op'.guarded /\ interrupted' = interrupted
             /\ kind = "replace" => interrupted' = interrupted
  BY <1>1 DEF BeginDeploy, Starts, Idle, Before, dataVars, routing, watchers, life
<1>2. ASSUME NEW g, NEW force, BeginRecover(g, force)
      PROVE  /\ Starts("recover", active.rev, cfg) /\ g = active.gen /\ g # 0
             /\ interrupted' = interrupted /\ proxy' = None
             /\ watch' = Stopping(watch, g) /\ cancelled' = cancelled \cup {g}
  BY <1>2 DEF BeginRecover, Starts, Idle, Before, dataVars, life
<1>3. ASSUME NEW g, BeginReplace(g), g # 0
      PROVE  \/ Starts("replace", active.rev, cfg) /\ interrupted' = interrupted /\ active.gen # 0
                /\ UNCHANGED <<proxy, watch, cancelled>>
             \/ UNCHANGED engine /\ pc = "idle"
  <2>1. CASE g = active.gen /\ Running(active.inst)
    BY <1>1, <1>3, <2>1 DEF BeginReplace
  <2>2. CASE ~(g = active.gen /\ Running(active.inst))
    BY <1>3, <2>2 DEF BeginReplace, Idle, engine
  <2> QED BY <2>1, <2>2
<1> QED BY <1>1, <1>2, <1>3

\* Every step of an operation is of one of five kinds.
LEMMA StepsKinds ==
  ASSUME TypeInv, Steps PROVE Advances \/ Fails \/ CutsOver \/ WindsUp \/ Returns
<1> USE DEF Before, After, dataVars, routing, watchers, opVars, life, chans
<1>0. /\ active \in Actives /\ inst \in [Instances -> {"none", "candidate", "released", "exited"}]
      /\ op \in Operations /\ active.inst \in Instances \cup {None}
  BY DEF TypeInv, TypeOK, Actives
<1>1. ASSUME UNCHANGED active, inst' = inst \/ \E i : inst' = [inst EXCEPT ![i] = "exited"]
      PROVE  SameActive
  BY <1>0, <1>1 DEF SameActive, Running
<1>2. ASSUME Fail PROVE /\ pc' = "idle" /\ op' = NoOp /\ result' = "failed"
                        /\ interrupted' = IF op.kind = "deploy" /\ op.ctx = {"serving"}
                                          THEN ResumeKey(op.rev, op.plan) ELSE interrupted
  BY <1>2 DEF Fail, Finish
<1>3. ASSUME NEW i, NEW r, CleanUp(i, r)
      PROVE  inst' = inst \/ inst' = [inst EXCEPT ![i] = "exited"]
  BY <1>3 DEF CleanUp
<1>4. ASSUME FallBackOrFail, pc \in {"start", "reject"}, SameActive, SameWatch,
             UNCHANGED <<disk, cfg, seq, up>>
      PROVE  Advances \/ Fails
  <2>1. CASE Fail
    BY <1>2, <1>4, <2>1 DEF Fails
  <2>2. CASE ~Fail
    <3>1. op' = [op EXCEPT !.reuse = None, !.cand = None] /\ pc' = "prepare"
          /\ interrupted' = interrupted
      BY <1>4, <2>2 DEF FallBackOrFail
    <3>2. SameOp /\ op'.ctx = op.ctx
      BY <1>0, <3>1 DEF SameOp, Operations
    <3> QED BY <1>4, <3>1, <3>2 DEF Advances
  <2> QED BY <2>1, <2>2
<1>5. ASSUME UNCHANGED op PROVE SameOp /\ op'.ctx = op.ctx
  BY <1>5 DEF SameOp
<1>6. StopPrior => Advances
  <2> SUFFICES ASSUME StopPrior PROVE Advances
    OBVIOUS
  <2>1. SameActive
    BY <1>0 DEF StopPrior, SameActive, Running, Actives
  <2> QED BY <1>5, <2>1 DEF StopPrior, Advances, SameWatch
<1>7. StopPriorFails \/ PrepareFails => Fails
  BY <1>1, <1>2 DEF StopPriorFails, PrepareFails, Fails, SameWatch
<1>8. Prepare \/ Ready \/ ReadyFails \/ Refuse => Advances
  BY <1>1, <1>5 DEF Prepare, Ready, ReadyFails, Refuse, Advances, SameWatch
<1>9. StartFresh \/ StartReuse => Advances
  <2> SUFFICES ASSUME StartFresh \/ StartReuse PROVE Advances
    OBVIOUS
  <2>1. PICK i \in Instances : /\ Available(i) /\ inst' = [inst EXCEPT ![i] = "candidate"]
                               /\ op' = [op EXCEPT !.cand = i]
    BY DEF StartFresh, StartReuse
  <2>2. i # active.inst
    BY <2>1 DEF Available, Held
  <2>3. UNCHANGED active
    BY DEF StartFresh, StartReuse
  <2>4. SameActive
    BY <1>0, <2>1, <2>2, <2>3 DEF SameActive, Running
  <2>5. SameOp /\ op'.ctx = op.ctx
    BY <1>0, <2>1 DEF SameOp, Operations
  <2> QED BY <2>4, <2>5 DEF StartFresh, StartReuse, Advances, SameWatch
<1>10. StartFails => Advances \/ Fails
  BY <1>1, <1>4 DEF StartFails, SameWatch
<1>11. Reject => Advances \/ Fails
  BY <1>1, <1>3, <1>4 DEF Reject, SameWatch
<1>12. Publish => CutsOver
  <2> SUFFICES ASSUME Publish PROVE CutsOver
    OBVIOUS
  <2>1. op.ctx = {} /\ op.cand # None
    BY DEF Publish, Overtaken, Running
  <2> QED BY <1>0, <2>1 DEF Publish, CutsOver, Accepted
<1>13. SaveFails => Advances
  BY <1>1, <1>5 DEF SaveFails, Advances, SameWatch, FailedSave, Accepted
<1>14. Abort => Fails
  BY <1>1, <1>2, <1>3 DEF Abort, Fails, SameWatch
<1>15. Commit \/ Drained \/ CleanPrior => WindsUp
  BY <1>1, <1>3 DEF Commit, Drained, CleanPrior, WindsUp, SameWatch
<1>16. Done => Returns
  BY <1>1 DEF Done, Finish, Returns, SameWatch
<1> QED BY <1>6, <1>7, <1>8, <1>9, <1>10, <1>11, <1>12, <1>13, <1>14, <1>15, <1>16 DEF Steps

\* What happens beside it is one of two: the watches touch their channels and
\* the traffic only, the rest neither while the supervisor is up.
LEMMA DisturbancesKinds ==
  ASSUME TypeInv
  PROVE  /\ \A g \in Gens : Watches(g) => Disturbs /\ UNCHANGED <<inst, up, cancelled>>
         /\ Disturbances => Halts \/ (Disturbs /\ (up' = "up" => SameWatch))
         /\ Interrupt => /\ pc' = pc /\ SameOp /\ op'.ctx = {"serving"} /\ op.ctx = {}
                         /\ op.guarded /\ pc \in Before \ {"stop"} /\ SameActive /\ SameWatch
                         /\ UNCHANGED <<disk, cfg, seq, interrupted, result, up>>
<1> USE DEF dataVars, routing, watchers, opVars, life, chans
<1>0. /\ active \in Actives /\ inst \in [Instances -> {"none", "candidate", "released", "exited"}]
      /\ op \in Operations /\ active.inst \in Instances \cup {None}
  BY DEF TypeInv, TypeOK, Actives
<1>1. ASSUME UNCHANGED active, inst' = inst \/ \E i : inst' = [inst EXCEPT ![i] = "exited"]
      PROVE  SameActive
  BY <1>0, <1>1 DEF SameActive, Running
<1>2. ASSUME UNCHANGED op PROVE SameOp /\ op.ctx \subseteq op'.ctx
  BY <1>2 DEF SameOp
<1>3. ASSUME NEW c, op' = [op EXCEPT !.ctx = c] PROVE SameOp /\ op'.ctx = c
  BY <1>0, <1>3 DEF SameOp, Operations
<1>4. ASSUME NEW g \in Gens, Watches(g) PROVE Disturbs /\ UNCHANGED <<inst, up, cancelled>>
  <2>1. UNCHANGED <<inst, up, disk, active, cfg, seq, interrupted, result, pc, op, cancelled>>
    BY <1>4 DEF Watches, WatchFires, MarkUnhealthy, WatchSends, WatchDrops, MemorySample,
                MemorySends, MemoryDrops
  <2> QED BY <1>1, <1>2, <2>1 DEF Disturbs
<1>5. ASSUME Disturbances PROVE Halts \/ (Disturbs /\ (up' = "up" => SameWatch))
  <2>1. CASE at = "command" /\ CancelOp
    BY <1>1, <1>3, <2>1 DEF CancelOp, Disturbs, SameWatch
  <2>2. CASE KillDraining
    BY <1>1, <1>2, <2>2 DEF KillDraining, Disturbs, SameWatch
  <2>3. CASE Terminate
    <3>1. op' = op \/ op' = [op EXCEPT !.ctx = op.ctx \cup {"cancelled"}]
      BY <2>3 DEF Terminate
    <3>2. SameOp /\ op.ctx \subseteq op'.ctx /\ (pc = "idle" \/ op'.ctx # {})
      BY <1>2, <1>3, <2>3, <3>1 DEF Terminate
    <3> QED BY <1>1, <2>3, <3>2 DEF Terminate, Disturbs
  <2>4. CASE Shutdown
    BY <1>0, <2>4 DEF Shutdown, Halts, Halting, NoOp, NoActive
  <2>5. CASE ShutdownStops
    <3>1. SameActive
      BY <1>0, <2>5 DEF ShutdownStops, SameActive, Running
    <3> QED BY <3>1, <2>5 DEF ShutdownStops, Halts, Halting, NoOp
  <2>6. ASSUME NEW i \in Instances, InstanceExits(i) \/ Kill(i) \/ KillFails(i) \/ KillCleans(i)
        PROVE  Disturbs /\ SameWatch
    BY <1>1, <1>2, <2>6 DEF InstanceExits, Kill, KillFails, KillCleans, Disturbs, SameWatch
  <2> QED BY <1>5, <2>1, <2>2, <2>3, <2>4, <2>5, <2>6 DEF Disturbances
<1>6. ASSUME Interrupt
      PROVE  /\ pc' = pc /\ SameOp /\ op'.ctx = {"serving"} /\ op.ctx = {}
             /\ op.guarded /\ pc \in Before \ {"stop"} /\ SameActive /\ SameWatch
             /\ UNCHANGED <<disk, cfg, seq, interrupted, result, up>>
  BY <1>1, <1>3, <1>6 DEF Interrupt, SameWatch, Before
<1> QED BY <1>4, <1>5, <1>6

-----------------------------------------------------------------------------
(* Where the loop stands, and the operation in progress.                    *)
Resting == {"select", "drain", "refreshed", "deploy", "recoverFirst", "recoverSecond"}

\* Where Run is tells which operation may be in progress, and what it is for.
ShapeInv ==
    /\ pc \in Halting => op.kind = "none" /\ ~op.guarded
    /\ pc \notin Halting => op.kind # "none"
    /\ at \in Resting => pc \in Halting
    /\ at = "replace" => op.kind \in {"none", "replace"}
    /\ at \in {"recoveringFirst", "recoveringSecond"} => op.kind \in {"none", "recover"}
    /\ at \in {"deploying", "apply"} => op.kind \in {"none", "deploy"}
    /\ at = "command" => op.kind \in {"none", "deploy", "recover"}
    /\ op.kind \in {"replace", "recover"} => op.plan = cfg /\ op.rev = active.rev /\ active.gen # 0
    /\ at = "deploying" /\ op.kind = "deploy" => op.rev = pending /\ op.plan = cfg
    /\ at \in {"command", "apply"} /\ op.kind = "deploy" => target # None /\ losses = 0

\* What the loop does while no operation is in progress,
Aside == UNCHANGED <<pc, op, cfg, active>>

\* and what it calls.
LEMMA TurnsCalls ==
  ASSUME CTypeInv, Turns
  PROVE  \/ GitMoves \/ Polling
         \/ /\ pc = "idle" /\ up = "up"
            /\ \/ Aside /\ UNCHANGED <<interrupted, inst, disk, seq, up>>
               \/ TakeMemory /\ Starts("replace", active.rev, cfg) /\ active.gen # 0
               \/ /\ Restart \/ RecoverFirst \/ RecoverSecond
                  /\ Starts("recover", active.rev, cfg) /\ active.gen # 0
               \/ Redeploy /\ Starts("deploy", target, cfg)
               \/ DeployPending /\ Starts("deploy", pending, cfg)
               \/ \E plan \in Configs, rev \in Revisions :
                    ApplyReplace(plan, rev) /\ Starts("deploy", rev, plan)
               \/ \E plan \in Configs : ApplyPolicy(plan)
<1>0. TypeInv
  BY DEF CTypeInv
<1> USE DEF Aside, Selecting, Returned, Idle, engine, vars, dataVars, routing, opVars, life
<1>1. CASE Select
  <2>1. CASE TakeUpdate \/ TakeRetry
    BY <2>1 DEF TakeUpdate, TakeRetry
  <2>2. CASE TakeFailure
    BY <2>2 DEF TakeFailure
  <2>3. CASE TakeMemory
    <3>1. BeginReplace(memory) /\ memory # 0
      BY <2>3 DEF TakeMemory
    <3>2. CASE Starts("replace", active.rev, cfg) /\ active.gen # 0
      BY <2>3, <3>2 DEF Starts
    <3>3. CASE UNCHANGED engine /\ pc = "idle"
      BY <2>3, <3>3 DEF TakeMemory
    <3> QED BY <1>0, <3>1, <3>2, <3>3, CallsStart
  <2> QED BY <1>1, <2>1, <2>2, <2>3 DEF Select
<1>2. CASE Commands
  <2>1. CASE Restart
    <3>1. BeginRecover(active.gen, TRUE)
      BY <2>1 DEF Restart
    <3> QED BY <1>0, <2>1, <3>1, CallsStart DEF Starts
  <2>2. CASE Refresh \/ RequestFails \/ ApplyNothing
    BY <2>2 DEF Refresh, RequestFails, ApplyNothing
  <2>3. ASSUME NEW plan \in Configs, ApplyPolicy(plan)
        PROVE  pc = "idle" /\ up = "up"
    BY <2>3 DEF ApplyPolicy
  <2>4. ASSUME NEW plan \in Configs, NEW rev \in Revisions, ApplyReplace(plan, rev)
        PROVE  Starts("deploy", rev, plan)
    <3>1. BeginDeploy("deploy", rev, plan)
      BY <2>4 DEF ApplyReplace
    <3> QED BY <1>0, <3>1, CallsStart
  <2>5. CASE \E plan \in Configs : ApplyPolicy(plan)
    BY <2>3, <2>5
  <2>6. CASE \E plan \in Configs, rev \in Revisions : ApplyReplace(plan, rev)
    BY <2>4, <2>6 DEF Starts
  <2> QED BY <1>2, <2>1, <2>2, <2>5, <2>6 DEF Commands
<1>3. CASE Attempt
  <2>1. CASE ReplaceReturns \/ RequestSucceeds \/ RequestFailed \/ RecoveryFailed \/ Recovered
             \/ DeployFailed \/ Deployed
    BY <2>1 DEF ReplaceReturns, RequestSucceeds, RequestFailed, RecoveryFailed, Recovered,
                DeployFailed, Deployed
  <2>2. CASE Redeploy
    <3>1. BeginDeploy("deploy", target, cfg)
      BY <2>2 DEF Redeploy
    <3>2. Starts("deploy", target, cfg)
      BY <1>0, <3>1, CallsStart
    <3> QED BY <2>2, <3>2 DEF Starts
  <2>3. CASE DrainUpdate \/ UpdatesDrained
    BY <2>3 DEF DrainUpdate, UpdatesDrained
  <2>4. ASSUME NEW where, NEW returning, Recovery(where, returning)
        PROVE  /\ pc = "idle" /\ up = "up"
               /\ \/ Aside /\ UNCHANGED <<interrupted, inst, disk, seq, up>>
                  \/ Starts("recover", active.rev, cfg) /\ active.gen # 0
    <3>1. CASE recovery = active.gen
      <4>1. BeginRecover(recovery, FALSE)
        BY <2>4, <3>1 DEF Recovery
      <4> QED BY <1>0, <3>1, <4>1, CallsStart DEF Starts
    <3>2. CASE recovery # active.gen
      BY <2>4, <3>2 DEF Recovery
    <3> QED BY <3>1, <3>2
  <2>5. CASE RecoverFirst \/ RecoverSecond
    BY <2>4, <2>5 DEF RecoverFirst, RecoverSecond
  <2>6. CASE DeployPending
    <3>1. BeginDeploy("deploy", pending, cfg)
      BY <2>6 DEF DeployPending
    <3>2. Starts("deploy", pending, cfg)
      BY <1>0, <3>1, CallsStart
    <3> QED BY <2>6, <3>2 DEF Starts
  <2>7. CASE ConfigureFails
    BY <2>7 DEF ConfigureFails
  <2> QED BY <1>3, <2>1, <2>2, <2>3, <2>5, <2>6, <2>7 DEF Attempt
<1> QED BY <1>1, <1>2, <1>3 DEF Turns

\* The steps of the engine fit where the loop stands,
LEMMA EngineShapeInv ==
  ASSUME TypeInv, ShapeInv, UNCHANGED ctl,
         Steps \/ (\E g \in Gens : Watches(g)) \/ Disturbances
  PROVE  ShapeInv'
<1>0. /\ op \in Operations /\ NoOp.kind = "none" /\ NoOp.guarded = FALSE
      /\ op.guarded \in BOOLEAN /\ seq \in Nat
  BY DEF TypeInv, TypeOK, Operations, NoOp
<1> USE DEF ShapeInv, ctl, desire, Halting, Resting, Before, After
<1>1. CASE Advances
  BY <1>1 DEF Advances, SameOp, SameActive
<1>2. CASE Fails \/ Returns
  BY <1>0, <1>2 DEF Fails, Returns, SameActive
<1>3. CASE CutsOver
  <2>1. seq + 1 # 0
    BY <1>0
  <2> QED BY <2>1, <1>3 DEF CutsOver
<1>4. CASE WindsUp
  BY <1>4 DEF WindsUp, SameActive
<1>5. CASE Disturbs
  BY <1>5 DEF Disturbs, SameOp, SameActive
<1>6. CASE Halts
  BY <1>6 DEF Halts
<1> QED BY <1>1, <1>2, <1>3, <1>4, <1>5, <1>6, StepsKinds, DisturbancesKinds

\* and so do its calls.
LEMMA TurnsShapeInv ==
  ASSUME CTypeInv, ShapeInv, Turns PROVE ShapeInv'
<1> USE DEF ShapeInv, Halting, Resting
<1>1. CASE GitMoves \/ Polling
  <2>1. UNCHANGED <<pc, op, at, cfg, active, pending, target, losses>>
    BY <1>1 DEF GitMoves, Polling, PollSamples, PollSends, vars, opVars, routing, desire
  <2> QED BY <2>1
<1>2. CASE pc = "idle" /\ Aside
  BY <1>2 DEF Aside
<1>3. ASSUME NEW kind, NEW rev, NEW plan, Starts(kind, rev, plan)
      PROVE  /\ pc' \notin Halting /\ op'.kind = kind /\ op'.rev = rev /\ op'.plan = plan
             /\ UNCHANGED <<cfg, active>>
  BY <1>3 DEF Starts, Before
<1>4. CASE TakeMemory /\ Starts("replace", active.rev, cfg) /\ active.gen # 0
  <2>1. at' = "replace"
    BY <1>4 DEF TakeMemory
  <2> QED BY <1>3, <1>4, <2>1
<1>5. CASE (Restart \/ RecoverFirst \/ RecoverSecond) /\ Starts("recover", active.rev, cfg)
           /\ active.gen # 0
  <2>1. at' \in {"command", "recoveringFirst", "recoveringSecond"}
    BY <1>5 DEF Restart, RecoverFirst, RecoverSecond, Recovery
  <2> QED BY <1>3, <1>5, <2>1
<1>6. CASE Redeploy /\ Starts("deploy", target, cfg)
  <2>1. at' = "command" /\ target' = target /\ target # None /\ losses' = 0
    BY <1>6 DEF Redeploy, CTypeInv, Aimed
  <2> QED BY <1>3, <1>6, <2>1
<1>7. CASE DeployPending /\ Starts("deploy", pending, cfg)
  <2>1. at' = "deploying" /\ pending' = pending
    BY <1>7 DEF DeployPending
  <2> QED BY <1>3, <1>7, <2>1
<1>8. ASSUME NEW plan \in Configs, NEW rev \in Revisions, ApplyReplace(plan, rev),
             Starts("deploy", rev, plan)
      PROVE  ShapeInv'
  <2>1. at' = "apply" /\ target' = rev /\ rev # None /\ losses' = 0
    BY <1>8 DEF ApplyReplace
  <2> QED BY <1>3, <1>8, <2>1
<1>9. ASSUME NEW plan \in Configs, pc = "idle", ApplyPolicy(plan) PROVE ShapeInv'
  <2>1. UNCHANGED <<pc, op>>
    BY <1>9 DEF ApplyPolicy, CommitPolicy, CommitPolicyFails
  <2> QED BY <1>9, <2>1
<1> QED BY <1>1, <1>2, <1>4, <1>5, <1>6, <1>7, <1>8, <1>9, TurnsCalls

\* The inductive invariant holds.
THEOREM ShapeInvKept == CSpec => []ShapeInv
<1>1. CInit => ShapeInv
  BY DEF CInit, Init, ShapeInv, Halting, Resting, NoOp
<1>2. ASSUME CTypeInv, ShapeInv, [CNext]_all PROVE ShapeInv'
  <2>0. TypeInv
    BY <1>2 DEF CTypeInv
  <2>1. CASE UNCHANGED all
    BY <1>2, <2>1 DEF all, vars, opVars, routing, ctl, desire, ShapeInv
  <2>2. CASE (Steps \/ (\E g \in Gens : Watches(g)) \/ Disturbances) /\ UNCHANGED ctl
    BY <1>2, <2>0, <2>2, EngineShapeInv
  <2>3. CASE Interrupted
    <3>1. /\ pc' = pc /\ SameOp /\ SameActive /\ cfg' = cfg /\ pc \notin Halting
          /\ UNCHANGED <<at, pending, target>> /\ (at # "deploying" => losses' = losses)
      BY <2>0, <2>3, DisturbancesKinds DEF Interrupted, Before, Halting
    <3> QED BY <1>2, <3>1 DEF SameOp, SameActive, ShapeInv, Resting
  <2>4. CASE Restarted
    <3>1. pc' = "idle" /\ op' = NoOp
      BY <2>4 DEF Restarted, Reboot
    <3> QED BY <3>1 DEF ShapeInv, Halting, Resting, NoOp
  <2> QED BY <1>2, <2>1, <2>2, <2>3, <2>4, TurnsShapeInv DEF CNext, Turns
<1> QED BY <1>1, <1>2, LoopTypes, PTL DEF CSpec

-----------------------------------------------------------------------------
(* A timer behind every selection that is still to be deployed.             *)

\* The timer stays armed while a command or an apply runs, and a recovery after
\* a deployment that failed leaves it armed.
RetryInv ==
    /\ at \in {"select", "refreshed", "command", "apply"} /\ pending # None => retry
    /\ at \in {"recoverSecond", "recoveringSecond"} => retry

\* The loop arms the timer again whenever it goes back to its select.
LEMMA TurnsRetryInv ==
  ASSUME CTypeInv, RetryInv, Turns PROVE RetryInv'
<1>0. retry \in BOOLEAN
  BY DEF CTypeInv, ControlTyped
<1> USE DEF RetryInv, desire, booting, feed, Selecting, Returned
<1>1. CASE GitMoves \/ Polling
  BY <1>0, <1>1 DEF GitMoves, Polling, PollSamples, PollSends
<1>2. CASE Select
  BY <1>0, <1>2 DEF Select, TakeUpdate, TakeFailure, TakeMemory, TakeRetry, AcceptUpdate
<1>3. CASE Commands
  BY <1>0, <1>3 DEF Commands, Restart, Refresh, RequestFails, ApplyNothing, ApplyPolicy, ApplyReplace
<1>4. CASE Attempt
  <2>1. CASE ReplaceReturns \/ Redeploy \/ RequestFailed
    BY <1>0, <2>1 DEF ReplaceReturns, Redeploy, RequestFailed
  <2>2. CASE RequestSucceeds
    BY <1>0, <2>2 DEF RequestSucceeds
  <2>3. CASE DrainUpdate \/ UpdatesDrained
    BY <1>0, <2>3 DEF DrainUpdate, UpdatesDrained, AcceptUpdate
  <2>4. CASE RecoverFirst \/ RecoverSecond
    BY <1>0, <2>4 DEF RecoverFirst, RecoverSecond, Recovery
  <2>5. CASE RecoveryFailed \/ Recovered
    BY <1>0, <2>5 DEF RecoveryFailed, Recovered
  <2>6. CASE DeployPending \/ ConfigureFails \/ DeployFailed \/ Deployed
    BY <1>0, <2>6 DEF DeployPending, ConfigureFails, DeployFailed, Deployed
  <2> QED BY <1>4, <2>1, <2>2, <2>3, <2>4, <2>5, <2>6 DEF Attempt
<1> QED BY <1>1, <1>2, <1>3, <1>4 DEF Turns

\* The inductive invariant holds,
THEOREM RetryInvKept == CSpec => []RetryInv
<1>1. CInit => RetryInv
  BY DEF CInit, RetryInv
<1>2. ASSUME CTypeInv, RetryInv, [CNext]_all PROVE RetryInv'
  <2>1. CASE UNCHANGED ctl
    BY <1>2, <2>1 DEF RetryInv, ctl, desire
  <2>2. CASE Interrupted \/ Restarted
    BY <1>2, <2>2 DEF RetryInv, Interrupted, Restarted
  <2>3. CASE UNCHANGED all
    BY <2>1, <2>3 DEF all
  <2> QED BY <1>2, <2>1, <2>2, <2>3, TurnsRetryInv DEF CNext, Turns
<1> QED BY <1>1, <1>2, LoopTypes, PTL DEF CSpec

\* and with it the timer: a selection that is still to be deployed is not
\* forgotten in the select, whatever failed, was interrupted or was asked for.
THEOREM Retried == CSpec => []PendingRetried
<1>1. RetryInv => PendingRetried
  BY DEF RetryInv, PendingRetried, Selecting
<1> QED BY <1>1, RetryInvKept, PTL

-----------------------------------------------------------------------------
(* The repair of a crashing revision is interrupted once.                   *)

\* The operation has cut over, or returned after it did.
Committed == pc \in After \/ (pc = "idle" /\ result = "ok")

\* An interruption ends the attempt, makes the next ones immune until one of
\* them has committed, or the supervisor is stopping.
Interrupting == /\ at = "deploying" /\ op.kind = "deploy" /\ op.ctx = {"serving"}
                /\ pc \in Before \ {"stop"}
Immune == interrupted = ResumeKey(pending, cfg) /\ (at = "deploying" => ~op.guarded)
Ending == up # "up" /\ (pc \in Halting \/ op.ctx # {})

LossInv ==
    /\ losses \in {0, 1}
    /\ losses = 1 => /\ pending # None
                     /\ Immune \/ Interrupting \/ (at = "deploying" /\ Committed) \/ Ending

\* An attempt keeps to that,
LEMMA EngineLossInv ==
  ASSUME CTypeInv, ShapeInv, LossInv, UNCHANGED ctl,
         Steps \/ (\E g \in Gens : Watches(g)) \/ Disturbances
  PROVE  LossInv'
<1>0. TypeInv
  BY DEF CTypeInv
<1>1. UNCHANGED <<at, pending, losses>>
  BY DEF ctl, desire
<1>2. op.kind = "deploy" => at \in {"deploying", "command", "apply"}
  BY DEF ShapeInv, Halting, Resting, CTypeInv, ControlTyped
<1>3. op.kind \in {"none", "deploy", "replace", "recover"}
  BY <1>0 DEF TypeInv, TypeOK, Operations
<1> SUFFICES ASSUME losses = 1
             PROVE  (Immune \/ Interrupting \/ (at = "deploying" /\ Committed) \/ Ending)'
  BY <1>1 DEF LossInv
<1>4. /\ pending # None
      /\ Immune \/ Interrupting \/ (at = "deploying" /\ Committed) \/ Ending
      /\ op.kind = "deploy" => at = "deploying" /\ op.rev = pending /\ op.plan = cfg
  BY <1>2 DEF LossInv, ShapeInv
<1>5. op.kind \in {"replace", "recover"} => op.plan = cfg
  BY DEF ShapeInv
<1>6. pc \in Before \/ pc \in After => pc \notin Halting
  BY DEF Before, After, Halting
<1>7. pc \notin Halting => op.kind # "none"
  BY DEF ShapeInv
<1>8. pc \in Before => pc \notin After /\ pc # "idle"
  BY DEF Before, After
<1>9. pc \in After => pc \notin Before
  BY DEF Before, After
<1>10. NoOp.guarded = FALSE
  BY DEF NoOp
<1> USE DEF Immune, Interrupting, Ending
<1>11. CASE Advances
  <2>1. ~Committed
    BY <1>8, <1>11 DEF Advances, Committed
  <2> QED BY <1>1, <1>4, <1>6, <1>11, <2>1 DEF Advances, SameOp
<1>12. CASE Fails
  <2>1. ~Committed
    BY <1>8, <1>12 DEF Fails, Committed
  <2>2. CASE up # "up"
    BY <1>12, <2>2 DEF Fails, Halting
  <2>3. CASE up = "up"
    <3>1. interrupted' = ResumeKey(pending, cfg)
      BY <1>4, <1>12, <2>1, <2>3 DEF Fails
    <3> QED BY <1>1, <1>10, <1>12, <3>1 DEF Fails
  <2> QED BY <2>2, <2>3
<1>13. CASE CutsOver
  <2>1. pc \in Before /\ op.ctx = {} /\ pc' \in After
    BY <1>13 DEF CutsOver, Before
  <2>2. Immune
    BY <1>4, <1>6, <1>8, <2>1 DEF Committed
  <2>3. CASE op.kind = "deploy"
    BY <1>1, <1>4, <2>1, <2>3 DEF Committed
  <2>4. CASE op.kind # "deploy"
    BY <1>1, <1>3, <1>5, <1>6, <1>7, <1>13, <2>1, <2>2, <2>4 DEF CutsOver
  <2> QED BY <2>3, <2>4
<1>14. CASE WindsUp
  <2>1. CASE op.kind = "deploy"
    BY <1>1, <1>4, <1>14, <2>1 DEF WindsUp, Committed
  <2>2. CASE op.kind # "deploy"
    <3>1. interrupted' = interrupted /\ op' = op /\ cfg' = cfg /\ up' = up /\ pc' \in After
          /\ pc \in After
      BY <1>14, <2>2 DEF WindsUp
    <3> QED BY <1>1, <1>4, <1>6, <1>9, <2>2, <3>1 DEF Committed
  <2> QED BY <2>1, <2>2
<1>15. CASE Returns
  <2>1. (at = "deploying" /\ Committed)' \/ at # "deploying"
    BY <1>1, <1>15 DEF Returns, Committed
  <2>2. pc \in After
    BY <1>15 DEF Returns, After
  <2>3. op' = NoOp /\ interrupted' = interrupted /\ cfg' = cfg /\ up' = up /\ pc' = "idle"
    BY <1>15 DEF Returns
  <2> QED BY <1>1, <1>4, <1>6, <1>9, <2>1, <2>2, <2>3 DEF Halting
<1>16. CASE Disturbs
  <2>1. CASE up' # "up" /\ (pc = "idle" \/ op'.ctx # {})
    BY <1>16, <2>1 DEF Disturbs, Halting
  <2>2. CASE up' = up /\ (op' = op \/ at = "command")
    <3>1. SameOp /\ op.ctx \subseteq op'.ctx /\ UNCHANGED <<pc, cfg, interrupted, result>>
      BY <1>16 DEF Disturbs
    <3> QED BY <1>1, <1>4, <2>2, <3>1 DEF SameOp, Committed
  <2> QED BY <1>16, <2>1, <2>2 DEF Disturbs
<1>17. CASE Halts
  BY <1>17 DEF Halts
<1> QED BY <1>0, <1>11, <1>12, <1>13, <1>14, <1>15, <1>16, <1>17, StepsKinds, DisturbancesKinds

\* an interruption is its first,
LEMMA InterruptedLossInv ==
  ASSUME CTypeInv, ShapeInv, LossInv, Interrupted PROVE LossInv'
<1>1. /\ pc' = pc /\ SameOp /\ op'.ctx = {"serving"} /\ op.ctx = {} /\ op.guarded
      /\ pc \in Before \ {"stop"} /\ UNCHANGED <<cfg, interrupted, result, up>>
  BY DisturbancesKinds DEF CTypeInv, Interrupted
<1>2. /\ UNCHANGED <<at, pending>>
      /\ losses' = IF at = "deploying" THEN losses + 1 ELSE losses
  BY DEF Interrupted
<1>3. ~Committed /\ pc \notin Halting
  BY <1>1 DEF Committed, Before, After, Halting
<1> USE DEF LossInv, Immune, Interrupting, Ending
<1>4. CASE at = "deploying"
  <2>1. losses = 0
    BY <1>1, <1>3, <1>4
  <2>2. op.kind = "deploy" /\ pending # None
    BY <1>3, <1>4 DEF ShapeInv, CTypeInv, Aimed
  <2>3. op'.kind = "deploy" /\ pc' \in Before \ {"stop"}
    BY <1>1, <2>2 DEF SameOp
  <2> QED BY <1>1, <1>2, <1>4, <2>1, <2>2, <2>3
<1>5. CASE at # "deploying"
  BY <1>1, <1>2, <1>3, <1>5
<1> QED BY <1>4, <1>5

\* and the loop calls a repair that was interrupted as one that cannot be.
LEMMA TurnsLossInv ==
  ASSUME CTypeInv, ShapeInv, LossInv, Turns PROVE LossInv'
<1>0. TypeInv /\ losses \in {0, 1} /\ NoOp.guarded = FALSE
  BY DEF CTypeInv, LossInv, NoOp
<1>1. CASE GitMoves \/ Polling
  <2>1. UNCHANGED <<pc, op, at, cfg, interrupted, result, up, pending, losses>>
    BY <1>1 DEF GitMoves, Polling, PollSamples, PollSends, vars, opVars, routing, life, desire
  <2> QED BY <2>1 DEF LossInv, Immune, Interrupting, Committed, Ending
<1>2. ASSUME pc = "idle", up = "up", losses = 1
      PROVE  /\ pending # None /\ op.kind = "none" /\ ~op.guarded
             /\ interrupted = ResumeKey(pending, cfg) \/ (at = "deploying" /\ result = "ok")
  BY <1>2 DEF LossInv, Immune, Interrupting, Ending, Committed, ShapeInv, Halting, Before, After
<1>3. ASSUME pc = "idle", up = "up",
             \/ losses' = 0
             \/ /\ UNCHANGED <<losses, pending, interrupted>>
                /\ losses = 1 => ~(at = "deploying" /\ result = "ok")
                /\ AppKey[cfg'] = AppKey[cfg]
                /\ losses = 1 /\ at' = "deploying" => ~op'.guarded
      PROVE  LossInv'
  BY <1>0, <1>2, <1>3 DEF LossInv, Immune, ResumeKey
<1>4. ASSUME AcceptUpdate(updates)
      PROVE  losses' = 0 \/ UNCHANGED <<losses, pending>>
  <2>1. losses = 1 => pending # None
    BY DEF LossInv
  <2> QED BY <1>0, <1>4, <2>1 DEF AcceptUpdate
<1>5. ASSUME pc = "idle", up = "up", Aside, UNCHANGED interrupted, Select \/ Commands \/ Attempt
      PROVE  LossInv'
  <2>1. UNCHANGED cfg /\ op' = op
    BY <1>5 DEF Aside
  <2>2. losses = 1 => ~op'.guarded
    BY <1>2, <1>5, <2>1
  <2>3. losses' = 0 \/ (UNCHANGED <<losses, pending>> /\ ~(at = "deploying" /\ result = "ok"))
    <3> USE DEF Selecting, Returned, desire
    <3>2. CASE Select
      BY <1>4, <3>2 DEF Select, TakeUpdate, TakeFailure, TakeMemory, TakeRetry
    <3>3. CASE Commands
      BY <3>3 DEF Commands, Restart, Refresh, RequestFails, ApplyNothing, ApplyPolicy, ApplyReplace
    <3>4. CASE Attempt
      <4>1. CASE ReplaceReturns \/ Redeploy \/ RequestSucceeds \/ RequestFailed
        BY <4>1 DEF ReplaceReturns, Redeploy, RequestSucceeds, RequestFailed
      <4>2. CASE DrainUpdate \/ UpdatesDrained
        BY <1>4, <4>2 DEF DrainUpdate, UpdatesDrained
      <4>3. CASE RecoverFirst \/ RecoverSecond \/ RecoveryFailed \/ Recovered
        BY <4>3 DEF RecoverFirst, RecoverSecond, Recovery, RecoveryFailed, Recovered
      <4>4. CASE DeployPending \/ ConfigureFails \/ DeployFailed \/ Deployed
        BY <4>4 DEF DeployPending, ConfigureFails, DeployFailed, Deployed
      <4> QED BY <3>4, <4>1, <4>2, <4>3, <4>4 DEF Attempt
    <3> QED BY <1>5, <3>2, <3>3, <3>4
  <2> QED BY <1>3, <1>5, <2>1, <2>2, <2>3
<1>6. CASE TakeMemory /\ Starts("replace", active.rev, cfg)
  <2>1. pc = "idle" /\ up = "up" /\ cfg' = cfg
    BY <1>6 DEF Starts
  <2>2. at = "select" /\ at' = "replace" /\ UNCHANGED <<losses, pending>> /\ memory # 0
        /\ BeginReplace(memory)
    BY <1>6 DEF TakeMemory, Selecting, desire
  <2>3. interrupted' = interrupted
    BY <1>0, <2>2, CallsStart DEF engine
  <2> QED BY <1>3, <2>1, <2>2, <2>3
<1>7. CASE (Restart \/ RecoverFirst \/ RecoverSecond) /\ Starts("recover", active.rev, cfg)
  <2>1. pc = "idle" /\ up = "up" /\ cfg' = cfg
    BY <1>7 DEF Starts
  <2>2. /\ at' \in {"command", "recoveringFirst", "recoveringSecond"} /\ at # "deploying"
        /\ UNCHANGED <<losses, pending>>
        /\ BeginRecover(active.gen, TRUE) \/ BeginRecover(recovery, FALSE) \/ UNCHANGED engine
    BY <1>7 DEF Restart, RecoverFirst, RecoverSecond, Recovery, Selecting, desire
  <2>3. interrupted' = interrupted
    BY <1>0, <2>2, CallsStart DEF engine
  <2> QED BY <1>3, <2>1, <2>2, <2>3
<1>8. CASE Redeploy /\ Starts("deploy", target, cfg)
  <2>1. losses' = 0
    BY <1>8 DEF Redeploy
  <2> QED BY <1>3, <1>8, <2>1 DEF Starts
<1>9. CASE DeployPending /\ Starts("deploy", pending, cfg)
  <2>1. pc = "idle" /\ up = "up" /\ cfg' = cfg
    BY <1>9 DEF Starts
  <2>2. at = "deploy" /\ UNCHANGED <<losses, pending>> /\ BeginDeploy("deploy", pending, cfg)
    BY <1>9 DEF DeployPending
  <2>3. losses = 1 => ~op'.guarded /\ interrupted' = interrupted
    BY <1>0, <1>2, <2>1, <2>2, CallsStart
  <2>4. CASE losses = 1
    BY <1>3, <2>1, <2>2, <2>3, <2>4
  <2>5. CASE losses = 0
    BY <1>3, <2>1, <2>2, <2>5
  <2> QED BY <1>0, <2>4, <2>5
<1>10. ASSUME NEW plan \in Configs, NEW rev \in Revisions, ApplyReplace(plan, rev),
              Starts("deploy", rev, plan)
       PROVE  LossInv'
  <2>1. losses' = 0
    BY <1>10 DEF ApplyReplace
  <2> QED BY <1>3, <1>10, <2>1 DEF Starts
<1>11. ASSUME NEW plan \in Configs, pc = "idle", up = "up", ApplyPolicy(plan) PROVE LossInv'
  <2>1. AppKey[cfg'] = AppKey[cfg] /\ interrupted' = interrupted
    BY <1>11 DEF ApplyPolicy, CommitPolicy, CommitPolicyFails, routing
  <2>2. at = "select" /\ at' = "apply" /\ UNCHANGED <<losses, pending>>
    BY <1>11 DEF ApplyPolicy, Selecting, desire
  <2> QED BY <1>3, <1>11, <2>1, <2>2
<1> QED BY <1>1, <1>5, <1>6, <1>7, <1>8, <1>9, <1>10, <1>11, TurnsCalls DEF Turns

\* The inductive invariant holds,
THEOREM LossInvKept == CSpec => []LossInv
<1>1. CInit => LossInv
  BY DEF CInit, LossInv
<1>2. ASSUME CTypeInv, ShapeInv, LossInv, [CNext]_all PROVE LossInv'
  <2>1. CASE UNCHANGED all
    BY <1>2, <2>1 DEF all, vars, opVars, routing, life, ctl, desire, LossInv, Immune, Interrupting,
                      Committed, Ending
  <2>2. CASE Restarted
    BY <2>2 DEF Restarted, LossInv
  <2> QED BY <1>2, <2>1, <2>2, TurnsLossInv, EngineLossInv, InterruptedLossInv DEF CNext, Turns
<1> QED BY <1>1, <1>2, LoopTypes, ShapeInvKept, PTL DEF CSpec

\* and with it the promise: losing the serving revision cancels the deployment
\* of its repair once at most, whatever else fails, is asked for or restarts.
THEOREM InterruptedOnce == CSpec => []RepairInterruptedOnce
<1>1. LossInv => RepairInterruptedOnce
  BY DEF LossInv, RepairInterruptedOnce
<1> QED BY <1>1, LossInvKept, PTL

-----------------------------------------------------------------------------
(* The active revision never goes back.                                     *)

\* Git had moved to a revision when it was first seen,
Known(r) == r # None => r <= head

\* and no sample that is still to be received is older than it.
Fresh(r) == (updates # None => updates >= r) /\ (polled # None => polled >= r)

AllKnown == /\ Known(pending) /\ Known(target) /\ Known(updates) /\ Known(polled)
            /\ Known(op.rev) /\ Known(active.rev) /\ Known(disk.rev)
Samples  == updates # None /\ polled # None => updates <= polled

\* Nothing that is deployed or to be deployed is newer than a later sample, nor
\* older than what is active; but a command or an apply that has cut over still
\* has the pending selection to clear.
AimFresh    == pending # None => Fresh(pending)
ActiveFresh == active.gen # 0 => active.rev # None /\ Fresh(active.rev)
OpFresh     == op.kind # "none" => /\ op.rev # None /\ Fresh(op.rev)
                                   /\ active.gen # 0 => op.rev >= active.rev
RefreshNew  == at = "refreshed" => /\ polled # None => polled >= target
                                   /\ active.gen # 0 => target >= active.rev
AimForward  == active.gen # 0 /\ pending # None =>
                 \/ pending >= active.rev
                 \/ at \in {"command", "apply"} /\ target # None /\ Committed

FreshInv ==
    AllKnown /\ Samples /\ AimFresh /\ ActiveFresh /\ OpFresh /\ RefreshNew /\ AimForward

\* Revisions are numbered as Git moves over them.
LEMMA RevisionNumbers == /\ \A r \in Revisions : r \in Nat /\ r # None
                         /\ MaxHead \in Nat
                         /\ \A r \in Revisions \cup {None} : r # None => r \in Revisions
  BY ControllerAssumption

\* Everything that is a revision, if it is there.
LEMMA RevisionTypes ==
  ASSUME CTypeInv
  PROVE  /\ pending \in Revisions \cup {None} /\ target \in Revisions \cup {None}
         /\ updates \in Revisions \cup {None} /\ polled \in Revisions \cup {None}
         /\ op.rev \in Revisions \cup {None} /\ active.rev \in Revisions \cup {None}
         /\ disk.rev \in Revisions \cup {None} /\ head \in Revisions
  BY DEF CTypeInv, ControlTyped, TypeInv, TypeOK, Operations, Actives, States

\* The steps of the engine keep that,
LEMMA EngineFreshInv ==
  ASSUME CTypeInv, ShapeInv, FreshInv, UNCHANGED ctl,
         Steps \/ (\E g \in Gens : Watches(g)) \/ Disturbances
  PROVE  FreshInv' /\ (active.gen # 0 /\ active'.gen # 0 => active'.rev >= active.rev)
<1>0. TypeInv /\ NoOp.kind = "none" /\ NoOp.rev = None
  BY DEF CTypeInv, NoOp
<1>1. UNCHANGED <<at, pending, target, updates, polled, head>>
  BY DEF ctl, desire, feed
<1>2. AllKnown /\ Samples /\ AimFresh /\ ActiveFresh /\ OpFresh /\ RefreshNew /\ AimForward
  BY DEF FreshInv
<1>3. Samples' /\ AimFresh'
  BY <1>1, <1>2 DEF Samples, AimFresh, Fresh
<1>4. ASSUME active'.gen = active.gen /\ active'.rev = active.rev
      PROVE  ActiveFresh' /\ RefreshNew'
  BY <1>1, <1>2, <1>4 DEF ActiveFresh, Fresh, RefreshNew
<1>5. ASSUME active'.gen = active.gen /\ active'.rev = active.rev
      PROVE  active.gen # 0 /\ active'.gen # 0 => active'.rev >= active.rev
  BY <1>2, <1>5, RevisionNumbers, RevisionTypes DEF ActiveFresh
<1>6. ASSUME SameOp, active'.gen = active.gen /\ active'.rev = active.rev
      PROVE  OpFresh'
  BY <1>1, <1>2, <1>6 DEF SameOp, OpFresh, Fresh
<1>7. ASSUME op'.kind = "none" PROVE OpFresh'
  BY <1>7 DEF OpFresh
<1>8. ASSUME op'.rev \in {op.rev, None}, active'.rev \in {active.rev, op.rev, None},
             disk'.rev \in {disk.rev, op.rev}
      PROVE  AllKnown'
  BY <1>1, <1>2, <1>8 DEF AllKnown, Known
<1>9. ASSUME active'.gen = active.gen /\ active'.rev = active.rev, Committed => Committed'
      PROVE  AimForward'
  BY <1>1, <1>2, <1>9 DEF AimForward
<1> USE DEF FreshInv
<1>10. CASE Advances
  <2>1. SameOp /\ active'.gen = active.gen /\ active'.rev = active.rev
        /\ disk'.rev \in {disk.rev, op.rev} /\ op'.rev = op.rev
    BY <1>10 DEF Advances, SameOp, SameActive
  <2>2. ~Committed
    BY <1>10 DEF Advances, Committed, Before, After
  <2> QED BY <1>3, <1>4, <1>5, <1>6, <1>8, <1>9, <2>1, <2>2
<1>11. CASE Fails
  <2>1. active'.gen = active.gen /\ active'.rev = active.rev /\ op' = NoOp /\ disk' = disk
    BY <1>11 DEF Fails, SameActive
  <2>2. ~Committed
    BY <1>11 DEF Fails, Committed, Before, After
  <2> QED BY <1>0, <1>3, <1>4, <1>5, <1>7, <1>8, <1>9, <2>1, <2>2
<1>12. CASE CutsOver
  <2>1. /\ active'.rev = op.rev /\ disk'.rev = op.rev /\ op' = op /\ pc' \in After
        /\ pc = "publish"
    BY <1>12 DEF CutsOver
  <2>2. op.kind # "none" /\ ~Committed /\ at \notin Resting
    BY <2>1 DEF ShapeInv, Halting, Committed, After
  <2>3. /\ op.rev # None /\ Fresh(op.rev) /\ (active.gen # 0 => op.rev >= active.rev)
        /\ op.rev \in Nat
    BY <1>2, <2>2, RevisionNumbers, RevisionTypes DEF OpFresh
  <2>4. ActiveFresh' /\ OpFresh' /\ RefreshNew'
    BY <1>1, <2>1, <2>2, <2>3 DEF ActiveFresh, OpFresh, RefreshNew, Fresh, Resting
  <2>5. AimForward'
    <3>1. CASE op.kind = "deploy"
      <4>1. op.rev = pending \/ (at \in {"command", "apply"} /\ target # None)
        BY <2>2, <3>1 DEF ShapeInv, Resting, CTypeInv, ControlTyped
      <4>2. Committed'
        BY <2>1 DEF Committed
      <4> QED BY <1>1, <2>1, <2>3, <4>1, <4>2 DEF AimForward
    <3>2. CASE op.kind # "deploy"
      <4>1. op.rev = active.rev /\ active.gen # 0
        BY <2>2, <3>2 DEF ShapeInv, CTypeInv, TypeInv, TypeOK, Operations
      <4> QED BY <1>1, <1>2, <2>1, <2>2, <4>1 DEF AimForward
    <3> QED BY <3>1, <3>2
  <2> QED BY <1>3, <1>8, <2>1, <2>3, <2>4, <2>5
<1>13. CASE WindsUp
  <2>1. active'.gen = active.gen /\ active'.rev = active.rev /\ op' = op /\ disk' = disk
        /\ Committed' /\ SameOp
    BY <1>13 DEF WindsUp, SameActive, Committed, SameOp
  <2> QED BY <1>3, <1>4, <1>5, <1>6, <1>8, <1>9, <2>1
<1>14. CASE Returns
  <2>1. active'.gen = active.gen /\ active'.rev = active.rev /\ op' = NoOp /\ disk' = disk
        /\ Committed'
    BY <1>14 DEF Returns, SameActive, Committed
  <2> QED BY <1>0, <1>3, <1>4, <1>5, <1>7, <1>8, <1>9, <2>1
<1>15. CASE Disturbs
  <2>1. SameOp /\ active'.gen = active.gen /\ active'.rev = active.rev /\ disk' = disk
        /\ op'.rev = op.rev /\ Committed' = Committed
    BY <1>15 DEF Disturbs, SameOp, SameActive, Committed
  <2> QED BY <1>3, <1>4, <1>5, <1>6, <1>8, <1>9, <2>1
<1>16. CASE Halts
  <2>1. op'.kind = "none" /\ op'.rev = None /\ disk' = disk
    BY <1>16 DEF Halts
  <2>2. CASE active'.gen = 0 /\ active'.rev = None
    <3>1. ActiveFresh' /\ RefreshNew' /\ AimForward'
      BY <1>1, <1>2, <2>2 DEF ActiveFresh, RefreshNew, AimForward
    <3> QED BY <1>3, <1>7, <1>8, <2>1, <2>2, <3>1
  <2>3. CASE SameActive /\ pc = "shutdown"
    <3>1. active'.gen = active.gen /\ active'.rev = active.rev /\ ~Committed
      BY <2>3 DEF SameActive, Committed, After
    <3> QED BY <1>3, <1>4, <1>5, <1>7, <1>8, <1>9, <2>1, <3>1
  <2> QED BY <1>16, <2>2, <2>3 DEF Halts
<1> QED BY <1>0, <1>10, <1>11, <1>12, <1>13, <1>14, <1>15, <1>16, StepsKinds, DisturbancesKinds

\* the poller only brings newer samples,
LEMMA PollerFreshInv ==
  ASSUME CTypeInv, FreshInv, GitMoves \/ Polling PROVE FreshInv'
<1>1. UNCHANGED <<pc, op, active, disk, result, at, pending, target>>
  BY DEF GitMoves, Polling, PollSamples, PollSends, vars, opVars, routing, dataVars, desire
<1>2. \/ head' = head /\ updates' = updates /\ polled' = head
      \/ head' = head /\ updates' = polled /\ polled' = None /\ polled # None
      \/ head' = head + 1 /\ updates' = updates /\ polled' = polled
  BY DEF GitMoves, Polling, PollSamples, PollSends
<1>3. /\ head \in Nat /\ (pending # None => pending \in Nat) /\ (target # None => target \in Nat)
      /\ (updates # None => updates \in Nat) /\ (polled # None => polled \in Nat)
      /\ (op.rev # None => op.rev \in Nat) /\ (active.rev # None => active.rev \in Nat)
      /\ (disk.rev # None => disk.rev \in Nat) /\ head # None
  BY RevisionNumbers, RevisionTypes
<1>4. AllKnown /\ Samples /\ AimFresh /\ ActiveFresh /\ OpFresh /\ RefreshNew /\ AimForward
  BY DEF FreshInv
<1>5. at = "refreshed" => target # None
  BY DEF CTypeInv, Aimed
<1>6. AllKnown'
  BY <1>1, <1>2, <1>3, <1>4 DEF AllKnown, Known
<1>7. Samples'
  BY <1>2, <1>3, <1>4 DEF Samples, AllKnown, Known
<1>8. AimFresh' /\ ActiveFresh' /\ OpFresh'
  <2>1. AimFresh'
    BY <1>1, <1>2, <1>3, <1>4 DEF AimFresh, Fresh, AllKnown, Known
  <2>2. ActiveFresh'
    BY <1>1, <1>2, <1>3, <1>4 DEF ActiveFresh, Fresh, AllKnown, Known
  <2>3. OpFresh'
    BY <1>1, <1>2, <1>3, <1>4 DEF OpFresh, Fresh, AllKnown, Known
  <2> QED BY <2>1, <2>2, <2>3
<1>9. RefreshNew'
  BY <1>1, <1>2, <1>3, <1>4, <1>5 DEF RefreshNew, AllKnown, Known
<1>10. AimForward'
  BY <1>1, <1>4 DEF AimForward, Committed
<1> QED BY <1>6, <1>7, <1>8, <1>9, <1>10 DEF FreshInv

\* What the loop does to the samples and to what it is to deploy.
LEMMA TurnsDesires ==
  ASSUME Select \/ Commands \/ Attempt
  PROVE  /\ head' = head /\ updates' \in {updates, None} /\ polled' \in {polled, None}
         /\ \/ pending' \in {pending, None}
            \/ updates # None /\ pending' = updates /\ updates' = None
         /\ at' # "refreshed" \/ Refresh
         /\ \/ target' \in {target, None, head}
            \/ target' = active.rev /\ active.gen # 0
         /\ at \in {"command", "apply"} /\ target # None /\ Committed => pending' = None
<1> USE DEF desire, feed, Selecting, Returned, Idle
<1>1. ASSUME AcceptUpdate(updates) PROVE pending' \in {None, updates}
  BY <1>1 DEF AcceptUpdate
<1>2. CASE Select
  <2>1. CASE TakeUpdate
    <3>1. /\ at = "select" /\ updates # None /\ updates' = None /\ pending' \in {None, updates}
          /\ at' \in {"drain", "select"} /\ UNCHANGED <<head, polled, target>>
      BY <1>1, <2>1 DEF TakeUpdate
    <3> QED BY <3>1
  <2>2. CASE TakeFailure \/ TakeMemory \/ TakeRetry
    BY <2>2 DEF TakeFailure, TakeMemory, TakeRetry
  <2> QED BY <1>2, <2>1, <2>2 DEF Select
<1>3. CASE Commands
  <2>1. CASE Restart \/ Refresh \/ RequestFails
    BY <2>1 DEF Restart, Refresh, RequestFails
  <2>2. CASE ApplyNothing
    BY <2>2 DEF ApplyNothing, StopPoll
  <2>3. ASSUME NEW plan \in Configs, ApplyPolicy(plan)
        PROVE  /\ at = "select" /\ at' = "apply" /\ active.gen # 0 /\ target' = active.rev
               /\ UNCHANGED <<head, pending>> /\ updates' = None /\ polled' = None
    BY <2>3 DEF ApplyPolicy, StopPoll, CommitPolicy, CommitPolicyFails
  <2>4. ASSUME NEW plan \in Configs, NEW rev \in Revisions, ApplyReplace(plan, rev)
        PROVE  /\ at = "select" /\ at' = "apply"
               /\ target' = head \/ (target' = active.rev /\ active.gen # 0)
               /\ UNCHANGED <<head, pending>> /\ updates' = None /\ polled' = None
    BY <2>4 DEF ApplyReplace, StopPoll
  <2> QED BY <1>3, <2>1, <2>2, <2>3, <2>4 DEF Commands
<1>4. CASE Attempt
  <2>1. CASE ReplaceReturns \/ Redeploy
    BY <2>1 DEF ReplaceReturns, Redeploy
  <2>2. CASE RequestSucceeds
    <3>1. /\ target # None => pending' = None
          /\ target = None => pending' = pending
          /\ at' = "select" /\ target' = None /\ UNCHANGED <<head, updates, polled>>
      BY <2>2 DEF RequestSucceeds
    <3> QED BY <3>1
  <2>3. CASE RequestFailed
    <3>1. ~Committed
      BY <2>3 DEF RequestFailed, Committed, After
    <3>2. at' = "select" /\ target' = None /\ UNCHANGED <<head, updates, polled, pending>>
      BY <2>3 DEF RequestFailed
    <3> QED BY <3>1, <3>2
  <2>4. CASE DrainUpdate
    <3>1. /\ at = "drain" /\ updates # None /\ updates' = None /\ pending' \in {None, updates}
          /\ UNCHANGED <<head, polled, target, at>>
      BY <1>1, <2>4 DEF DrainUpdate
    <3> QED BY <3>1
  <2>5. CASE UpdatesDrained
    BY <2>5 DEF UpdatesDrained
  <2>6. CASE RecoverFirst \/ RecoverSecond
    BY <2>6 DEF RecoverFirst, RecoverSecond, Recovery
  <2>7. CASE RecoveryFailed \/ Recovered
    BY <2>7 DEF RecoveryFailed, Recovered
  <2>8. CASE DeployPending \/ ConfigureFails
    BY <2>8 DEF DeployPending, ConfigureFails
  <2>9. CASE DeployFailed \/ Deployed
    BY <2>9 DEF DeployFailed, Deployed
  <2> QED BY <1>4, <2>1, <2>2, <2>3, <2>4, <2>5, <2>6, <2>7, <2>8, <2>9 DEF Attempt
<1> QED BY <1>2, <1>3, <1>4

\* No sample that is left after a step is older than a revision.
Later(r) == (updates' # None => updates' >= r) /\ (polled' # None => polled' >= r)

\* and the loop deploys only what is new enough.
LEMMA TurnsFreshInv ==
  ASSUME CTypeInv, ShapeInv, FreshInv, Select \/ Commands \/ Attempt
  PROVE  FreshInv' /\ (active.gen # 0 /\ active'.gen # 0 => active'.rev >= active.rev)
<1>1. /\ head' = head /\ updates' \in {updates, None} /\ polled' \in {polled, None}
      /\ \/ pending' \in {pending, None}
         \/ updates # None /\ pending' = updates /\ updates' = None
      /\ at' # "refreshed" \/ Refresh
      /\ \/ target' \in {target, None, head}
         \/ target' = active.rev /\ active.gen # 0
      /\ at \in {"command", "apply"} /\ target # None /\ Committed => pending' = None
  BY TurnsDesires
<1>2. /\ head \in Nat /\ (pending # None => pending \in Nat) /\ (target # None => target \in Nat)
      /\ (updates # None => updates \in Nat) /\ (polled # None => polled \in Nat)
      /\ (active.rev # None => active.rev \in Nat)
      /\ (disk.rev # None => disk.rev \in Nat) /\ head # None
  BY RevisionNumbers, RevisionTypes
<1>3. AllKnown /\ Samples /\ AimFresh /\ ActiveFresh /\ OpFresh /\ RefreshNew /\ AimForward
  BY DEF FreshInv
<1>4. Samples'
  BY <1>1, <1>3 DEF Samples
<1>5. AimFresh'
  BY <1>1, <1>2, <1>3 DEF AimFresh, Fresh, Samples
<1>6. ASSUME active'.rev = active.rev, active'.gen = active.gen \/ active.gen # 0
      PROVE  /\ ActiveFresh' /\ AimForward'
             /\ active.gen # 0 /\ active'.gen # 0 => active'.rev >= active.rev
  <2>1. active'.gen # 0 => active.gen # 0
    BY <1>6
  <2>2. ActiveFresh'
    BY <1>1, <1>3, <1>6, <2>1 DEF ActiveFresh, Fresh
  <2>3. active.gen # 0 => active.rev \in Nat /\ (updates # None => updates >= active.rev)
    BY <1>2, <1>3 DEF ActiveFresh, Fresh
  <2>4. AimForward'
    <3>1. active'.gen # 0 /\ pending' # None => pending' >= active.rev
      BY <1>1, <1>3, <2>1, <2>3 DEF AimForward
    <3> QED BY <3>1, <1>6 DEF AimForward
  <2> QED BY <2>2, <2>3, <2>4, <1>6
<1>7. ASSUME active' = active PROVE RefreshNew'
  BY <1>1, <1>2, <1>3, <1>7 DEF RefreshNew, Refresh, AllKnown, Known, ActiveFresh
<1>8. ASSUME op'.rev = None \/ Known(op'.rev), disk'.rev \in {disk.rev, active.rev},
             active'.rev = active.rev
      PROVE  AllKnown'
  BY <1>1, <1>2, <1>3, <1>8 DEF AllKnown, Known
<1>9. ASSUME NEW kind, NEW rev, NEW plan, Starts(kind, rev, plan), rev # None, Known(rev),
             Later(rev), active.gen # 0 => rev >= active.rev
      PROVE  FreshInv' /\ (active.gen # 0 /\ active'.gen # 0 => active'.rev >= active.rev)
  <2>1. active' = active /\ disk' = disk /\ op'.rev = rev
    BY <1>9 DEF Starts
  <2>2. OpFresh'
    BY <1>1, <1>9, <2>1 DEF OpFresh, Fresh, Later
  <2> QED BY <1>4, <1>5, <1>6, <1>7, <1>8, <1>9, <2>1, <2>2 DEF FreshInv
<1>10. ASSUME NEW rev, rev # None, Fresh(rev) PROVE Later(rev)
  BY <1>1, <1>10 DEF Fresh, Later
<1>11. pc = "idle" => op.kind = "none"
  BY DEF ShapeInv, Halting
<1>12. CASE pc = "idle" /\ Aside /\ disk' = disk
  <2>1. OpFresh' /\ op' = op /\ active' = active
    BY <1>11, <1>12 DEF Aside, OpFresh
  <2>2. op'.rev = None \/ Known(op'.rev)
    BY <1>3, <2>1 DEF AllKnown, Known
  <2> QED BY <1>4, <1>5, <1>6, <1>7, <1>8, <1>12, <2>1, <2>2 DEF FreshInv
<1>13. CASE (Starts("replace", active.rev, cfg) \/ Starts("recover", active.rev, cfg)) /\ active.gen # 0
  <2>1. active.rev # None /\ Known(active.rev) /\ Later(active.rev) /\ active.rev >= active.rev
    BY <1>2, <1>3, <1>10, <1>13 DEF ActiveFresh, AllKnown
  <2> QED BY <1>9, <1>13, <2>1
<1>14. CASE Redeploy /\ Starts("deploy", target, cfg)
  <2>1. at = "refreshed" /\ target # None /\ Known(target) /\ updates' = None
    BY <1>3, <1>14 DEF Redeploy, CTypeInv, Aimed, AllKnown
  <2>2. Later(target) /\ (active.gen # 0 => target >= active.rev)
    BY <1>1, <1>3, <1>14, <2>1 DEF RefreshNew, Later, Redeploy
  <2> QED BY <1>9, <1>14, <2>1, <2>2
<1>15. CASE DeployPending /\ Starts("deploy", pending, cfg)
  <2>1. at = "deploy" /\ pending # None /\ Known(pending)
    BY <1>3, <1>15 DEF DeployPending, CTypeInv, Aimed, AllKnown
  <2>2. Later(pending) /\ (active.gen # 0 => pending >= active.rev)
    BY <1>3, <1>10, <2>1 DEF AimFresh, AimForward
  <2> QED BY <1>9, <1>15, <2>1, <2>2
<1>16. ASSUME NEW plan \in Configs, NEW rev \in Revisions, ApplyReplace(plan, rev),
              Starts("deploy", rev, plan)
       PROVE  FreshInv' /\ (active.gen # 0 /\ active'.gen # 0 => active'.rev >= active.rev)
  <2>1. /\ rev = head \/ (active.gen # 0 /\ rev = active.rev)
        /\ updates' = None /\ polled' = None
    BY <1>16 DEF ApplyReplace, StopPoll
  <2>2. rev # None /\ Known(rev) /\ Later(rev) /\ (active.gen # 0 => rev >= active.rev)
    BY <1>2, <1>3, <2>1 DEF Later, Known, AllKnown, ActiveFresh
  <2> QED BY <1>9, <1>16, <2>2
<1>17. ASSUME NEW plan \in Configs, ApplyPolicy(plan), pc = "idle"
       PROVE  FreshInv' /\ (active.gen # 0 /\ active'.gen # 0 => active'.rev >= active.rev)
  <2>1. /\ active.gen # 0 /\ at' = "apply" /\ op' = op
        /\ active' = active \/ active' = [active EXCEPT !.gen = seq + 1]
        /\ disk' \in {disk, Accepted(active.rev, plan, active.inst)}
    BY <1>17 DEF ApplyPolicy, CommitPolicy, CommitPolicyFails, FailedSave, routing
  <2>2. active'.rev = active.rev
    BY <2>1 DEF CTypeInv, TypeInv, TypeOK, Actives
  <2>3. disk'.rev \in {disk.rev, active.rev}
    BY <2>1 DEF Accepted
  <2>4. OpFresh' /\ RefreshNew'
    BY <1>11, <1>17, <2>1 DEF OpFresh, RefreshNew
  <2>5. op'.rev = None \/ Known(op'.rev)
    BY <1>3, <2>1 DEF AllKnown, Known
  <2> QED BY <1>4, <1>5, <1>6, <1>8, <2>1, <2>2, <2>3, <2>4, <2>5 DEF FreshInv
<1>18. CASE GitMoves \/ Polling
  <2>1. active' = active
    BY <1>18 DEF GitMoves, Polling, PollSamples, PollSends, vars, routing
  <2> QED BY <1>6, <1>18, <2>1, PollerFreshInv
<1> QED BY <1>12, <1>13, <1>14, <1>15, <1>16, <1>17, <1>18, TurnsCalls DEF Turns

\* Every step keeps the invariant, and takes the active revision forward.
LEMMA StepFreshInv ==
  ASSUME CTypeInv, ShapeInv, FreshInv, [CNext]_all
  PROVE  FreshInv' /\ (active.gen # 0 /\ active'.gen # 0 => active'.rev >= active.rev)
<1>0. TypeInv
  BY DEF CTypeInv
<1>1. active.gen # 0 => active.rev \in Nat
  BY RevisionNumbers, RevisionTypes DEF FreshInv, ActiveFresh
<1>2. CASE UNCHANGED <<active, disk, op, pc, result, ctl>>
  BY <1>1, <1>2 DEF ctl, desire, feed, FreshInv, AllKnown, Known, Samples, AimFresh, ActiveFresh,
                    OpFresh, RefreshNew, AimForward, Fresh, Committed
<1>3. CASE UNCHANGED all
  BY <1>2, <1>3 DEF all, vars, opVars, routing, dataVars
<1>4. CASE GitMoves \/ Polling
  <2>1. active' = active
    BY <1>4 DEF GitMoves, Polling, PollSamples, PollSends, vars, routing
  <2> QED BY <1>1, <1>4, <2>1, PollerFreshInv
<1>5. CASE Interrupted
  <2>1. /\ pc' = pc /\ SameOp /\ SameActive /\ UNCHANGED <<disk, result>>
        /\ UNCHANGED <<at, pending, target, updates, polled, head>>
    BY <1>0, <1>5, DisturbancesKinds DEF Interrupted, feed
  <2> QED BY <1>1, <2>1 DEF SameOp, SameActive, FreshInv, AllKnown, Known, Samples, AimFresh,
                            ActiveFresh, OpFresh, RefreshNew, AimForward, Fresh, Committed
<1>6. CASE Restarted
  <2>1. /\ active' = NoActive /\ op' = NoOp /\ disk' = disk /\ head' = head
        /\ pending' = disk.rev /\ target' = None /\ updates' = None /\ polled' = None
        /\ at' = "select"
    BY <1>6 DEF Restarted, Reboot
  <2>2. active'.gen = 0 /\ active'.rev = None /\ op'.rev = None /\ op'.kind = "none"
    BY <2>1 DEF NoActive, NoOp
  <2>3. AllKnown'
    BY <2>1, <2>2 DEF FreshInv, AllKnown, Known
  <2> QED BY <2>1, <2>2, <2>3 DEF FreshInv, Samples, AimFresh, ActiveFresh, OpFresh, RefreshNew,
                                  AimForward, Fresh
<1> QED BY <1>3, <1>4, <1>5, <1>6, TurnsFreshInv, EngineFreshInv DEF CNext

\* The inductive invariant holds,
THEOREM FreshInvKept == CSpec => []FreshInv
<1>1. CInit => FreshInv
  <2> SUFFICES ASSUME CInit PROVE FreshInv
    OBVIOUS
  <2>1. /\ pending = None /\ target = None /\ updates = None /\ polled = None /\ at = "select"
        /\ active.gen = 0 /\ active.rev = None /\ op.rev = None /\ op.kind = "none"
        /\ disk.rev = None
    BY DEF CInit, Init, NoActive, NoOp
  <2> QED BY <2>1 DEF FreshInv, AllKnown, Known, Samples, AimFresh, ActiveFresh, OpFresh,
                      RefreshNew, AimForward, Fresh
<1> QED BY <1>1, StepFreshInv, LoopTypes, ShapeInvKept, PTL DEF CSpec

\* and with it the direction: no stale sample, retry, recovery, memory replacement
\* or command deploys a revision older than the active one.
THEOREM Forward == CSpec => NoRegress
<1>1. CTypeInv /\ ShapeInv /\ FreshInv /\ [CNext]_all
        => [active.gen # 0 /\ active'.gen # 0 => active'.rev >= active.rev]_all
  BY StepFreshInv
<1> QED BY <1>1, FreshInvKept, LoopTypes, ShapeInvKept, PTL DEF CSpec, NoRegress

-----------------------------------------------------------------------------
(* Nothing that lost its traffic is left behind. An apply that deploys        *)
(* nothing is taken for a deployment by runCommand and clears the recovery,   *)
(* so that this holds of the applies that replace the application only.       *)

\* Generations are cancelled when they are left: what serves, or is watched, is
\* not cancelled.
Numbers ==
    /\ active.gen <= seq
    /\ cancelled \subseteq 1..seq
    /\ \A g \in Gens : watch[g] = "on" => g \notin cancelled
    /\ proxy # None => active.gen # 0 /\ active.gen \notin cancelled

\* What makes the loop see the loss, in the channel or on its way to it,
Signals ==
    \/ failures = active.gen
    \/ watch[active.gen] \in {"failing", "marked"} /\ active.gen \notin cancelled
    \/ watch[active.gen] = "on" /\ ~Running(active.inst)

\* a recovery that it carries through its turns until one has committed,
Owed ==
    /\ recovery = active.gen
    /\ \/ at \in {"drain", "replace", "deploy", "recoverFirst", "recoverSecond"}
       \/ at = "select" /\ retry
       \/ at \in {"deploying", "recoveringFirst", "recoveringSecond"} /\ ~Committed

\* and a command or an apply, whose failure makes a recovery of it.
Asked == at = "refreshed" \/ (at \in {"command", "apply"} /\ ~Committed)

Expected == Unserved => Signals \/ Owed \/ Asked
StrandInv == up = "up" => Numbers /\ Expected

\* Where the traffic, its watches and the loop stand, nothing is lost.
LEMMA StillExpected ==
  ASSUME CTypeInv, Numbers, Expected, SameActive, SameWatch, UNCHANGED <<at, recovery, retry>>,
         seq' \in {seq, seq + 1}, Committed' => Committed
  PROVE  Numbers' /\ Expected'
<1>1. seq \in Nat /\ active.gen \in Nat
  BY DEF CTypeInv, TypeInv, TypeOK, Actives
<1>2. Numbers'
  <2>1. active'.gen <= seq' /\ cancelled' \subseteq 1..seq'
    BY <1>1 DEF Numbers, SameActive, SameWatch
  <2> QED BY <2>1 DEF Numbers, SameActive, SameWatch
<1>3. Signals => Signals'
  BY DEF Signals, SameActive, SameWatch, chans, Running
<1>4. Expected'
  BY <1>3 DEF Expected, Unserved, Owed, Asked, SameActive, SameWatch
<1> QED BY <1>2, <1>4

\* An operation,
LEMMA StepsStrandInv ==
  ASSUME CTypeInv, StrandInv, Steps, UNCHANGED ctl PROVE StrandInv'
<1>0. TypeInv
  BY DEF CTypeInv
<1>1. UNCHANGED <<at, recovery, retry>>
  BY DEF ctl, desire
<1>2. CASE Advances
  <2>1. ~Committed'
    BY <1>2 DEF Advances, Committed, Before, After
  <2> QED BY <1>1, <1>2, <2>1, StillExpected DEF StrandInv, Advances
<1>3. CASE Fails
  <2>1. ~Committed'
    BY <1>3 DEF Fails, Committed, After
  <2> QED BY <1>1, <1>3, <2>1, StillExpected DEF StrandInv, Fails
<1>4. CASE WindsUp \/ Returns
  <2>1. Committed
    BY <1>4 DEF WindsUp, Returns, Committed, After
  <2> QED BY <1>1, <1>4, <2>1, StillExpected DEF StrandInv, WindsUp, Returns
<1>5. ASSUME CutsOver, up' = "up" PROVE Numbers' /\ Expected'
  <2>1. Numbers /\ active.gen \in Nat /\ seq \in Nat
        /\ watch \in [Gens -> {"off", "on", "failing", "marked", "sent"}]
    BY <1>0, <1>5 DEF CutsOver, StrandInv, TypeInv, TypeOK, Actives
  <2>2. active'.gen = seq + 1 /\ seq' = seq + 1 /\ proxy' # None
    BY <1>5 DEF CutsOver
  <2>3. cancelled' \subseteq 1..(seq + 1) /\ seq + 1 \notin cancelled'
    BY <1>5, <2>1 DEF CutsOver, Numbers
  <2>4. ASSUME NEW g \in Gens, watch'[g] = "on" PROVE g \notin cancelled'
    BY <1>5, <2>1, <2>3, <2>4 DEF CutsOver, Numbers, Stopping
  <2> QED BY <2>1, <2>2, <2>3, <2>4 DEF Numbers, Expected, Unserved
<1> QED BY <1>0, <1>2, <1>3, <1>4, <1>5, StepsKinds DEF StrandInv

\* a watch,
LEMMA WatchesStrandInv ==
  ASSUME CTypeInv, StrandInv, NEW h \in Gens, Watches(h), UNCHANGED ctl PROVE StrandInv'
<1>1. Disturbs /\ UNCHANGED <<inst, up, cancelled>>
  BY DisturbancesKinds DEF CTypeInv
<1>2. UNCHANGED <<at, recovery, retry, seq, pc, result>> /\ SameActive
  BY <1>1 DEF Disturbs, ctl, desire
<1> SUFFICES ASSUME up = "up", Numbers, Expected PROVE Numbers' /\ Expected'
  BY <1>1 DEF StrandInv
<1>3. active.gen \in 0..MaxSeq /\ seq \in Nat /\ failures \in Nat
      /\ watch \in [Gens -> {"off", "on", "failing", "marked", "sent"}]
  BY DEF CTypeInv, TypeInv, TypeOK, Actives
<1>4. Committed' => Committed
  BY <1>2 DEF Committed
<1>5. (Owed => Owed') /\ (Asked => Asked')
  BY <1>2, <1>4 DEF Owed, Asked, SameActive
<1>6. CASE MemorySample(h) \/ MemorySends(h) \/ MemoryDrops(h)
  <2>1. UNCHANGED <<proxy, watch, cancelled, failures>>
    BY <1>6 DEF MemorySample, MemorySends, MemoryDrops, routing, chans
  <2>2. Signals => Signals'
    BY <1>1, <1>2, <2>1 DEF Signals, SameActive, Running
  <2> QED BY <1>2, <1>5, <2>1, <2>2 DEF Numbers, Expected, Unserved, SameActive
<1>7. CASE WatchFires(h)
  <2>1. watch[h] = "on" /\ watch' = [watch EXCEPT ![h] = "failing"]
        /\ UNCHANGED <<active, proxy, cancelled, failures>>
    BY <1>7 DEF WatchFires, routing, chans
  <2>2. h \notin cancelled
    BY <2>1 DEF Numbers
  <2>3. Numbers'
    BY <1>2, <1>3, <2>1 DEF Numbers
  <2>4. active.gen # 0 /\ Signals => Signals'
    BY <1>1, <1>3, <2>1, <2>2 DEF Signals, Running, Gens
  <2> QED BY <1>5, <2>1, <2>3, <2>4 DEF Expected, Unserved
<1>8. CASE MarkUnhealthy(h)
  <2>1. watch[h] = "failing" /\ watch' = [watch EXCEPT ![h] = "marked"]
        /\ proxy' = (IF active.gen = h THEN None ELSE proxy)
        /\ UNCHANGED <<active, cancelled, failures>>
    BY <1>8 DEF MarkUnhealthy, chans
  <2>2. Numbers'
    BY <1>2, <1>3, <2>1 DEF Numbers
  <2>3. active.gen # 0 /\ Signals => Signals'
    BY <1>1, <1>3, <2>1 DEF Signals, Running, Gens
  <2>4. CASE active.gen = h /\ proxy # None
    <3>1. active.gen \notin cancelled
      BY <2>4 DEF Numbers
    <3>2. watch'[active.gen] = "marked"
      BY <1>3, <2>1, <2>4
    <3>3. Signals'
      BY <2>1, <3>1, <3>2 DEF Signals
    <3> QED BY <2>2, <3>3 DEF Expected
  <2>5. CASE ~(active.gen = h /\ proxy # None)
    BY <1>5, <2>1, <2>2, <2>3, <2>5 DEF Expected, Unserved
  <2> QED BY <2>4, <2>5
<1>9. CASE WatchSends(h)
  <2>1. watch[h] = "marked" /\ watch' = [watch EXCEPT ![h] = "sent"] /\ failures = 0
        /\ failures' = h /\ UNCHANGED <<active, proxy, cancelled>>
    BY <1>9 DEF WatchSends, routing
  <2>2. Numbers'
    BY <1>2, <1>3, <2>1 DEF Numbers
  <2>3. active.gen # 0 /\ Signals => Signals'
    BY <1>1, <1>3, <2>1 DEF Signals, Running, Gens
  <2> QED BY <1>5, <2>1, <2>2, <2>3 DEF Expected, Unserved
<1>10. CASE WatchDrops(h)
  <2>1. watch[h] = "marked" /\ h \in cancelled /\ watch' = [watch EXCEPT ![h] = "off"]
        /\ UNCHANGED <<active, proxy, cancelled, failures>>
    BY <1>10 DEF WatchDrops, routing, chans
  <2>2. Numbers'
    BY <1>2, <1>3, <2>1 DEF Numbers
  <2>3. active.gen # 0 /\ Signals => Signals'
    BY <1>1, <1>3, <2>1 DEF Signals, Running, Gens
  <2> QED BY <1>5, <2>1, <2>2, <2>3 DEF Expected, Unserved
<1> QED BY <1>6, <1>7, <1>8, <1>9, <1>10 DEF Watches

\* and what disturbs it leave nothing behind,
LEMMA DisturbedStrandInv ==
  ASSUME CTypeInv, StrandInv, (Disturbances /\ UNCHANGED ctl) \/ Interrupted PROVE StrandInv'
<1>0. TypeInv
  BY DEF CTypeInv
<1>1. CASE Disturbances /\ UNCHANGED ctl
  <2>1. UNCHANGED <<at, recovery, retry>>
    BY <1>1 DEF ctl, desire
  <2>2. CASE Disturbs /\ SameWatch /\ up' = "up"
    <3>1. (Committed' => Committed) /\ SameActive /\ seq' = seq /\ up = "up"
      BY <2>2 DEF Disturbs, Committed
    <3> QED BY <2>1, <2>2, <3>1, StillExpected DEF StrandInv
  <2>3. CASE up' # "up"
    BY <2>3 DEF StrandInv
  <2> QED BY <1>0, <1>1, <2>2, <2>3, DisturbancesKinds DEF Halts
<1>2. CASE Interrupted
  <2>1. SameActive /\ SameWatch /\ UNCHANGED <<pc, seq, result, up>>
    BY <1>0, <1>2, DisturbancesKinds DEF Interrupted
  <2>2. UNCHANGED <<at, recovery, retry>> /\ (Committed' => Committed)
    BY <1>2, <2>1 DEF Interrupted, Committed
  <2> QED BY <2>1, <2>2, StillExpected DEF StrandInv
<1> QED BY <1>1, <1>2

\* A recovery that the loop begins takes the traffic away for as long as it owes it.
LEMMA RecoverNumbers ==
  ASSUME CTypeInv, Numbers, NEW g, NEW force, BeginRecover(g, force) PROVE Numbers'
<1>1. active.gen \in 0..MaxSeq /\ seq \in Nat /\ g = active.gen /\ g # 0
      /\ watch \in [Gens -> {"off", "on", "failing", "marked", "sent"}]
  BY DEF CTypeInv, TypeInv, TypeOK, Actives, BeginRecover
<1>2. /\ UNCHANGED <<active, seq>> /\ proxy' = None /\ cancelled' = cancelled \cup {g}
      /\ watch' = Stopping(watch, g)
  BY DEF BeginRecover
<1>3. cancelled' \subseteq 1..seq'
  BY <1>1, <1>2 DEF Numbers
<1>4. ASSUME NEW h \in Gens, watch'[h] = "on" PROVE h \notin cancelled'
  BY <1>1, <1>2, <1>4 DEF Numbers, Stopping
<1> QED BY <1>1, <1>2, <1>3, <1>4 DEF Numbers

\* The loop answers a loss that it sees, and pays a recovery that it owes, before
\* it forgets either.
LEMMA TurnsStrandInv ==
  ASSUME ApplyKinds \subseteq {"replace"}, CTypeInv, StrandInv, Turns PROVE StrandInv'
<1>0. TypeInv
  BY DEF CTypeInv
<1> SUFFICES ASSUME up' = "up" PROVE Numbers' /\ Expected'
  BY DEF StrandInv
<1>1. ASSUME up = "up", UNCHANGED <<active, seq, watch, cancelled, inst, failures>>,
             proxy' \in {proxy, None}
      PROVE  Numbers' /\ (Signals => Signals')
  BY <1>1 DEF StrandInv, Numbers, Signals, Running
<1>2. ASSUME up = "up", UNCHANGED <<engine, chans>>
      PROVE  Numbers' /\ (Signals => Signals') /\ Unserved' = Unserved /\ Expected
  BY <1>1, <1>2 DEF engine, dataVars, routing, watchers, chans, Unserved, StrandInv
<1>3. ASSUME NEW rev, NEW plan, BeginDeploy("deploy", rev, plan), UNCHANGED chans
      PROVE  /\ up = "up" /\ Numbers' /\ (Signals => Signals') /\ Unserved' = Unserved
             /\ Expected /\ ~Committed'
  <2>1. Starts("deploy", rev, plan) /\ UNCHANGED <<proxy, watch, cancelled>>
    BY <1>0, <1>3, CallsStart
  <2>2. ~Committed' /\ up = "up"
    BY <2>1 DEF Starts, Committed, Before, After
  <2> QED BY <1>1, <1>3, <2>1, <2>2 DEF Starts, chans, Unserved, StrandInv
<1>4. ASSUME NEW g, NEW force, BeginRecover(g, force)
      PROVE  Numbers' /\ ~Committed' /\ g = active.gen /\ UNCHANGED active
  <2>1. Starts("recover", active.rev, cfg) /\ g = active.gen
    BY <1>0, <1>4, CallsStart
  <2>2. Numbers
    BY <2>1 DEF StrandInv, Starts
  <2> QED BY <1>4, <2>1, <2>2, RecoverNumbers DEF Starts, Committed, Before, After
<1> USE DEF Selecting, Returned, Idle, desire, booting, feed
<1>5. CASE GitMoves \/ Polling
  <2>1. UNCHANGED <<vars, at, recovery, retry>>
    BY <1>5 DEF GitMoves, Polling, PollSamples, PollSends
  <2>2. up = "up" /\ Committed' = Committed
    BY <2>1 DEF vars, life, opVars, Committed
  <2> QED BY <1>2, <2>1, <2>2 DEF Expected, vars, engine, opVars, Owed, Asked, routing
<1>6. CASE Select
  <2>1. CASE TakeUpdate \/ TakeRetry
    <3>1. UNCHANGED <<vars, recovery>> /\ up = "up" /\ at = "select" /\ at' \in {"select", "drain"}
          /\ (at' = "select" => retry' = retry)
      BY <2>1 DEF TakeUpdate, TakeRetry
    <3>2. UNCHANGED <<engine, chans>>
      BY <3>1 DEF vars, engine, opVars
    <3> QED BY <1>2, <3>1, <3>2 DEF Expected, Owed, Asked, engine, routing
  <2>2. CASE TakeFailure
    <3>1. /\ up = "up" /\ at = "select" /\ failures' = 0 /\ failures # 0
          /\ UNCHANGED <<active, seq, watch, cancelled, inst, retry>>
      BY <2>2 DEF TakeFailure, dataVars, watchers
    <3>2. proxy' \in {proxy, None}
      BY <2>2 DEF TakeFailure
    <3>3. Numbers'
      BY <3>1, <3>2 DEF StrandInv, Numbers
    <3>4. CASE failures = active.gen
      BY <2>2, <3>1, <3>3, <3>4 DEF TakeFailure, Expected, Owed
    <3>5. CASE failures # active.gen
      <4>1. UNCHANGED <<proxy, recovery, at>>
        BY <2>2, <3>5 DEF TakeFailure
      <4> QED BY <3>1, <3>3, <3>5, <4>1
              DEF StrandInv, Expected, Unserved, Signals, Owed, Asked, Running
    <3> QED BY <3>4, <3>5
  <2>3. CASE TakeMemory
    <3>1. BeginReplace(memory) /\ memory # 0 /\ up = "up" /\ at = "select" /\ at' = "replace"
          /\ UNCHANGED <<failures, recovery>>
      BY <2>3 DEF TakeMemory
    <3>2. UNCHANGED <<inst, active, seq, proxy, watch, cancelled>>
      BY <1>0, <3>1, CallsStart DEF Starts, engine, dataVars, routing, watchers
    <3> QED BY <1>1, <3>1, <3>2 DEF StrandInv, Expected, Unserved, Owed, Asked
  <2> QED BY <1>6, <2>1, <2>2, <2>3 DEF Select
<1>7. CASE Commands
  <2>1. CASE Restart
    BY <1>4, <2>1 DEF Restart, Expected, Asked
  <2>2. CASE Refresh
    <3>1. UNCHANGED <<engine, chans>> /\ up = "up" /\ at' = "refreshed"
      BY <2>2 DEF Refresh, vars, engine, opVars
    <3> QED BY <1>2, <3>1 DEF Expected, Asked
  <2>3. CASE RequestFails
    <3>1. UNCHANGED <<engine, chans>> /\ up = "up" /\ at' = "command" /\ pc' = "idle"
          /\ result' = "failed"
      BY <2>3 DEF RequestFails, engine
    <3> QED BY <1>2, <3>1 DEF Expected, Asked, Committed, After
  <2>4. ~ApplyNothing /\ \A plan \in Configs : ~ApplyPolicy(plan)
    BY DEF ApplyNothing, ApplyPolicy
  <2>5. ASSUME NEW plan \in Configs, NEW rev \in Revisions, ApplyReplace(plan, rev)
        PROVE  Numbers' /\ Expected'
    BY <1>3, <2>5 DEF ApplyReplace, Expected, Asked
  <2> QED BY <1>7, <2>1, <2>2, <2>3, <2>4, <2>5 DEF Commands
<1>8. CASE Attempt
  <2>1. CASE ReplaceReturns
    <3>1. UNCHANGED <<engine, chans>> /\ up = "up" /\ at = "replace" /\ at' = "drain"
          /\ (recovery' = recovery \/ recovery' = active.gen)
      BY <2>1 DEF ReplaceReturns
    <3> QED BY <1>2, <3>1 DEF Expected, Owed, Asked, engine, routing
  <2>2. CASE Redeploy
    BY <1>3, <2>2 DEF Redeploy, Expected, Asked
  <2>3. CASE RequestSucceeds
    <3>1. UNCHANGED <<engine, chans>> /\ up = "up" /\ at \in {"command", "apply"} /\ Committed
      BY <2>3 DEF RequestSucceeds, Committed
    <3> QED BY <1>2, <3>1 DEF Expected, Owed, Asked
  <2>4. CASE RequestFailed
    <3>1. UNCHANGED <<engine, chans>> /\ up = "up" /\ at \in {"command", "apply"} /\ at' = "select"
          /\ (Unserved => recovery' = active.gen /\ retry' = TRUE)
      BY <2>4 DEF RequestFailed, Unserved
    <3> QED BY <1>2, <3>1 DEF Expected, Owed, engine, routing
  <2>5. CASE DrainUpdate
    <3>1. UNCHANGED <<vars, at, recovery, retry>> /\ up = "up" /\ at = "drain"
      BY <2>5 DEF DrainUpdate
    <3>2. UNCHANGED <<engine, chans>>
      BY <3>1 DEF vars, engine, opVars
    <3> QED BY <1>2, <3>1, <3>2 DEF Expected, Owed, Asked, engine, routing
  <2>6. CASE UpdatesDrained
    <3>1. UNCHANGED <<vars, recovery>> /\ up = "up" /\ at = "drain"
          /\ (recovery # 0 => at' \in {"recoverFirst", "deploy"})
      BY <2>6 DEF UpdatesDrained
    <3>2. UNCHANGED <<engine, chans>>
      BY <3>1 DEF vars, engine, opVars
    <3> QED BY <1>2, <3>1, <3>2 DEF Expected, Unserved, Owed, Asked, engine, routing
  <2>7. ASSUME NEW where \in {"recoverFirst", "recoverSecond"},
               NEW returning \in {"recoveringFirst", "recoveringSecond"}, Recovery(where, returning)
        PROVE  Numbers' /\ Expected'
    <3>1. up = "up" /\ at = where /\ at' = returning /\ recovery' = recovery /\ UNCHANGED chans
      BY <2>7 DEF Recovery
    <3>2. CASE recovery = active.gen
      <4>1. BeginRecover(recovery, FALSE)
        BY <2>7, <3>2 DEF Recovery
      <4> QED BY <1>4, <3>1, <3>2, <4>1 DEF Expected, Owed
    <3>3. CASE recovery # active.gen
      <4>1. UNCHANGED engine
        BY <2>7, <3>3 DEF Recovery
      <4> QED BY <1>2, <3>1, <3>3, <4>1 DEF Expected, Owed, Asked
    <3> QED BY <3>2, <3>3
  <2>8. CASE RecoverFirst \/ RecoverSecond
    BY <2>7, <2>8 DEF RecoverFirst, RecoverSecond
  <2>9. CASE RecoveryFailed
    <3>1. UNCHANGED <<engine, chans, recovery>> /\ up = "up" /\ at' = "select" /\ retry' = TRUE
          /\ at \in {"recoveringFirst", "recoveringSecond"}
      BY <2>9 DEF RecoveryFailed
    <3> QED BY <1>2, <3>1 DEF Expected, Owed, Asked, engine, routing
  <2>10. CASE Recovered \/ Deployed
    <3>1. UNCHANGED <<engine, chans>> /\ up = "up" /\ Committed
          /\ at \in {"recoveringFirst", "recoveringSecond", "deploying"}
      BY <2>10 DEF Recovered, Deployed, Committed
    <3> QED BY <1>2, <3>1 DEF Expected, Owed, Asked
  <2>11. CASE DeployPending
    <3>1. BeginDeploy("deploy", pending, cfg) /\ UNCHANGED <<chans, recovery>> /\ at = "deploy"
          /\ at' = "deploying"
      BY <2>11 DEF DeployPending
    <3>2. UNCHANGED active
      BY <3>1 DEF BeginDeploy, routing
    <3> QED BY <1>3, <3>1, <3>2 DEF Expected, Owed, Asked
  <2>12. CASE ConfigureFails
    <3>1. UNCHANGED <<active, seq, watch, cancelled, inst, failures, proxy>> /\ up = "up"
          /\ active.gen = 0
      BY <2>12 DEF ConfigureFails, dataVars, routing, watchers, chans
    <3> QED BY <1>1, <3>1 DEF Expected, Unserved
  <2>13. CASE DeployFailed
    <3>1. UNCHANGED <<engine, chans, recovery>> /\ up = "up" /\ at = "deploying"
          /\ (recovery # 0 => at' = "recoverSecond")
      BY <2>13 DEF DeployFailed
    <3> QED BY <1>2, <3>1 DEF Expected, Unserved, Owed, Asked, engine, routing
  <2> QED BY <1>8, <2>1, <2>2, <2>3, <2>4, <2>5, <2>6, <2>8, <2>9, <2>10, <2>11, <2>12, <2>13
          DEF Attempt
<1> QED BY <1>5, <1>6, <1>7, <1>8 DEF Turns

\* The inductive invariant holds,
THEOREM StrandInvKept ==
  ASSUME ApplyKinds \subseteq {"replace"} PROVE CSpec => []StrandInv
<1>1. CInit => StrandInv
  BY DEF CInit, Init, StrandInv, Numbers, Expected, Unserved, NoActive, Gens
<1>2. ASSUME CTypeInv, StrandInv, [CNext]_all PROVE StrandInv'
  <2>1. CASE UNCHANGED all
    <3>1. SameActive /\ SameWatch /\ UNCHANGED <<at, recovery, retry, up, seq>>
          /\ Committed' = Committed
      BY <2>1 DEF all, vars, dataVars, routing, chans, watchers, opVars, life, ctl, desire, SameActive,
                  SameWatch, Running, Committed
    <3> QED BY <1>2, <3>1, StillExpected DEF StrandInv
  <2>2. CASE Restarted
    <3>1. active'.gen = 0 /\ seq' = 0 /\ cancelled' = {} /\ proxy' = None
          /\ watch' = [g \in Gens |-> "off"]
      BY <2>2 DEF Restarted, Reboot, NoActive
    <3> QED BY <3>1 DEF StrandInv, Numbers, Expected, Unserved
  <2> QED BY <1>2, <2>1, <2>2, StepsStrandInv, WatchesStrandInv, DisturbedStrandInv, TurnsStrandInv
          DEF CNext, Turns
<1> QED BY <1>1, <1>2, LoopTypes, PTL DEF CSpec

\* and with it the promise that the README makes of recovery: the accepted
\* revision is not left without traffic while the loop waits for something else.
THEOREM Unstranded ==
  ASSUME ApplyKinds \subseteq {"replace"} PROVE CSpec => []NeverStranded
<1>1. StrandInv => NeverStranded
  BY DEF StrandInv, Expected, NeverStranded, Selecting, Idle, Signals, Owed, Asked
<1> QED BY <1>1, StrandInvKept, PTL

-----------------------------------------------------------------------------
(* The engine under the loop. EngineProofs is about an engine whose         *)
(* operations are called at will; the loop calls them as Engine has it, but *)
(* for two kinds of steps of its own, and keeps all of those properties.    *)

\* The loop begins an operation, for a message it has taken or a selection,
Begins ==
    \/ \E kind \in {"deploy", "replace"}, rev \in Revisions \cup {None}, plan \in Configs :
         BeginDeploy(kind, rev, plan)
    \/ \E force \in BOOLEAN : BeginRecover(active.gen, force)

\* or withdraws traffic, if the failure that it takes is that of the active
\* generation; a message or a result is taken at most.
Alone ==
    /\ UNCHANGED <<dataVars, active, cfg, seq, draining, restore, interrupted, watchers, pc, op,
                   killing, up, boots>>
    /\ proxy' = proxy \/ (proxy' = None /\ failures = active.gen /\ failures # 0)

LoopMove == (Alone \/ Begins) /\ failures' \in {failures, 0}

\* A step of the loop's specification is one of the engine's, or one of these.
LEMMA LoopMoves ==
  ASSUME CTypeInv, [CNext]_all PROVE [Next]_vars \/ LoopMove
<1>0. cfg \in Configs /\ active.rev \in Revisions \cup {None}
  BY DEF CTypeInv, TypeInv, TypeOK, Actives
<1>1. ASSUME UNCHANGED <<engine, chans>> PROVE Alone /\ failures' = failures
  BY <1>1 DEF Alone, engine, routing, opVars, life, chans
<1>2. ASSUME NEW rev \in Revisions \cup {None}, NEW plan \in Configs, UNCHANGED failures,
             NEW kind \in {"deploy", "replace"}, BeginDeploy(kind, rev, plan)
      PROVE  LoopMove
  BY <1>2 DEF LoopMove, Begins
<1>3. ASSUME NEW force \in BOOLEAN, NEW g, g = active.gen, UNCHANGED failures, BeginRecover(g, force)
      PROVE  LoopMove
  BY <1>3 DEF LoopMove, Begins
<1>4. CASE Select
  <2>1. CASE TakeUpdate \/ TakeRetry
    BY <2>1 DEF TakeUpdate, TakeRetry
  <2>2. CASE TakeFailure
    BY <2>2 DEF TakeFailure, LoopMove, Alone, opVars, life
  <2>3. CASE TakeMemory
    <3>1. BeginReplace(memory) /\ failures' = failures
      BY <2>3 DEF TakeMemory
    <3>2. CASE memory = active.gen /\ Running(active.inst)
      BY <1>0, <1>2, <3>1, <3>2 DEF BeginReplace
    <3>3. CASE ~(memory = active.gen /\ Running(active.inst))
      BY <3>1, <3>3 DEF BeginReplace, LoopMove, Alone, routing, life
    <3> QED BY <3>2, <3>3
  <2> QED BY <1>4, <2>1, <2>2, <2>3 DEF Select
<1>5. CASE Commands
  <2>1. CASE Restart
    BY <1>3, <2>1 DEF Restart, chans
  <2>2. CASE Refresh
    BY <2>2 DEF Refresh
  <2>3. CASE RequestFails \/ ApplyNothing
    BY <1>1, <2>3 DEF RequestFails, ApplyNothing, LoopMove
  <2>4. ASSUME NEW plan \in Configs, ApplyPolicy(plan) PROVE [Next]_vars
    BY <2>4 DEF ApplyPolicy, Next, Calls
  <2>5. ASSUME NEW plan \in Configs, NEW rev \in Revisions, ApplyReplace(plan, rev) PROVE LoopMove
    BY <1>2, <2>5 DEF ApplyReplace, chans
  <2> QED BY <1>5, <2>1, <2>2, <2>3, <2>4, <2>5 DEF Commands
<1>6. CASE Attempt
  <2>1. CASE ReplaceReturns \/ RequestSucceeds \/ RequestFailed \/ RecoveryFailed \/ Recovered
             \/ DeployFailed \/ Deployed
    BY <1>1, <2>1 DEF ReplaceReturns, RequestSucceeds, RequestFailed, RecoveryFailed, Recovered,
                      DeployFailed, Deployed, LoopMove
  <2>2. CASE Redeploy
    <3>1. target \in Revisions
      BY <2>2 DEF Redeploy, CTypeInv, ControlTyped, Aimed
    <3> QED BY <1>0, <1>2, <2>2, <3>1 DEF Redeploy, chans
  <2>3. CASE DrainUpdate \/ UpdatesDrained
    BY <2>3 DEF DrainUpdate, UpdatesDrained
  <2>4. ASSUME NEW where, NEW returning, Recovery(where, returning) PROVE LoopMove
    <3>1. CASE recovery = active.gen
      BY <1>3, <2>4, <3>1 DEF Recovery, chans
    <3>2. CASE recovery # active.gen
      BY <1>1, <2>4, <3>2 DEF Recovery, LoopMove
    <3> QED BY <3>1, <3>2
  <2>5. CASE DeployPending
    <3>1. pending \in Revisions
      BY <2>5 DEF DeployPending, CTypeInv, ControlTyped, Aimed
    <3> QED BY <1>0, <1>2, <2>5, <3>1 DEF DeployPending, chans
  <2>6. CASE ConfigureFails
    BY <2>6 DEF ConfigureFails, LoopMove, Alone, routing, chans
  <2> QED BY <1>6, <2>1, <2>2, <2>3, <2>4, <2>5, <2>6 DEF Attempt, RecoverFirst, RecoverSecond
<1>7. GitMoves \/ Polling \/ UNCHANGED all => UNCHANGED vars
  BY DEF GitMoves, Polling, PollSamples, PollSends, all
<1>8. Steps \/ (\E g \in Gens : Watches(g)) \/ Disturbances \/ Interrupted \/ Restarted => Next
  BY DEF Next, Disturbances, Environment, Interrupted, Restarted
<1> QED BY <1>4, <1>5, <1>6, <1>7, <1>8 DEF CNext

\* Such a step keeps what was accepted, and withdraws it at most,
LEMMA LoopKept == ASSUME LoopMove PROVE Kept
  BY DEF LoopMove, Alone, Begins, BeginDeploy, BeginRecover, Kept, dataVars, routing

\* and the one that begins no operation loses nothing but traffic.
LEMMA AloneWanes ==
  ASSUME TypeInv, Alone PROVE Wanes /\ (KeepInv => Keeps)
<1>1. /\ UNCHANGED <<inst, bundle, bundles, disk, active, seq, draining, restore, pc, op, killing, up>>
      /\ seq \in Nat /\ killing \subseteq Marked
      /\ inst \in [Instances -> {"none", "candidate", "released", "exited"}]
  BY DEF Alone, dataVars, TypeInv, TypeOK, Marked
<1>2. Stops /\ Forgets
  BY <1>1 DEF Stops, Forgets, Running
<1>3. Proceeds /\ Resumes
  BY <1>1 DEF Proceeds, Resumes
<1>4. KeepInv => Keeps
  BY <1>1 DEF Keeps, InForce, KeepInv, PriorAway
<1> QED BY <1>1, <1>2, <1>3, <1>4 DEF Wanes

\* The steps of the loop's specification keep the invariants of the engine:
\* that of its instances and installations,
LEMMA LoopKillInv ==
  ASSUME CTypeInv, CTypeInv', KillInv, [CNext]_all PROVE KillInv'
<1>1. TypeInv /\ TypeInv' /\ seq' \in Nat
  BY DEF CTypeInv, TypeInv, TypeOK
<1>2. CASE [Next]_vars
  BY <1>1, <1>2, StepKillInv
<1>3. CASE Alone
  BY <1>1, <1>3, AloneWanes, WanesKillInv
<1>4. CASE Begins
  BY <1>1, <1>4, BeginsKillInv DEF Begins
<1> QED BY <1>2, <1>3, <1>4, LoopMoves DEF LoopMove

\* of what is on disk,
LEMMA LoopDurInv ==
  ASSUME SyncDirFails = FALSE, CTypeInv, DurInv, [CNext]_all
  PROVE  DurInv' /\ [R!Next]_<<AcceptedRelease, ServedRelease>>
<1>1. TypeInv
  BY DEF CTypeInv
<1> QED BY <1>1, LoopMoves, LoopKept, KeptDurInv, KeptRelease, StepDurInv, ReleaseStep

\* and of what the next boot resumes.
LEMMA LoopKeepInv ==
  ASSUME SyncDirFails = FALSE, CTypeInv, CTypeInv', DurInv, KillInv, KeepInv, [CNext]_all
  PROVE  KeepInv'
<1>1. TypeInv
  BY DEF CTypeInv
<1>2. CASE [Next]_vars
  BY <1>1, <1>2, LoopKillInv, StepKeepInv
<1>3. CASE Alone
  BY <1>1, <1>3, AloneWanes, KeepsKeepInv
<1>4. CASE Begins
  BY <1>1, <1>4, CallsKeepInv DEF Begins
<1> QED BY <1>2, <1>3, <1>4, LoopMoves DEF LoopMove

\* The instances and installations of the engine, under its loop.
THEOREM LoopKillInvKept == CSpec => []KillInv
<1>1. CInit => KillInv
  BY InitKillInv DEF CInit
<1> QED BY <1>1, LoopKillInv, LoopTypes, PTL DEF CSpec

\* Whatever the loop decides, no two running instances share an installation, the
\* files of a running one stay, one that was replaced can be stopped, and
\* kill-draining does not touch the active one.
THEOREM LoopInstallations ==
  CSpec => [](OneWriterPerBundle /\ RunningHasFiles /\ RetiredReachable /\ KillSparesActive)
<1>1. KillInv => OneWriterPerBundle /\ RunningHasFiles /\ RetiredReachable /\ KillSparesActive
  BY DEF KillInv, FilesInv
<1> QED BY <1>1, LoopKillInvKept, PTL

\* The record on disk, under the loop.
THEOREM LoopDurInvKept ==
  ASSUME SyncDirFails = FALSE PROVE CSpec => []DurInv
<1>1. CInit => DurInv
  BY InitDurInv DEF CInit
<1> QED BY <1>1, LoopDurInv, LoopTypes, PTL DEF CSpec

\* A crash at any moment, in whatever turn of the loop, restores what was served.
THEOREM LoopDurable ==
  ASSUME SyncDirFails = FALSE PROVE CSpec => []ServedIsDurable
<1>1. DurInv => ServedIsDurable
  BY DEF DurInv, ActiveIsDurable, RoutedIsActive, ServedIsDurable
<1> QED BY <1>1, LoopDurInvKept, PTL

\* Clients of the loop and its engine, too, are served by the release that a
\* restart would bring back, or by none.
THEOREM LoopImplements ==
  ASSUME SyncDirFails = FALSE PROVE CSpec => ImplementsRelease
<1>1. CInit => R!Init
  BY DEF CInit, Init, R!Init
<1>2. CTypeInv /\ DurInv /\ [CNext]_all =>
        [R!Next]_<<[rev |-> disk.rev, cfg |-> disk.cfg],
                   IF proxy = None THEN NoRelease ELSE [rev |-> active.rev, cfg |-> cfg]>>
  BY LoopDurInv DEF AcceptedRelease, ServedRelease, Release
<1> QED BY <1>1, <1>2, LoopDurInvKept, LoopTypes, PTL DEF CSpec, ImplementsRelease, R!Spec

\* The installation that the next boot resumes stays on disk, under the loop.
THEOREM LoopResumed ==
  ASSUME SyncDirFails = FALSE PROVE CSpec => []DurableInstallationKept
<1>1. CInit => KeepInv
  BY DEF CInit, Init, KeepInv, DurableInstallationKept, MarkedAway, InForce, CandidateAway, PriorAway,
         NoActive, NoRestore, Tried
<1>2. KeepInv => DurableInstallationKept
  BY DEF KeepInv
<1> QED BY <1>1, <1>2, LoopKeepInv, LoopDurInvKept, LoopKillInvKept, LoopTypes, PTL DEF CSpec

-----------------------------------------------------------------------------
(* Why the loop withdraws traffic.                                          *)

\* A failure in the channel is that of a watch that has sent it, and a new
\* generation takes a number that no watch has.
SentInv ==
    /\ failures # 0 => watch[failures] = "sent"
    /\ \A g \in Gens : watch[g] # "off" => g <= seq

\* A step that starts no watch, and sends nothing, keeps it.
LEMMA QuietSentInv ==
  ASSUME TypeInv, SentInv, failures' \in {failures, 0}, seq' \in {seq, seq + 1},
         \A g \in Gens : watch'[g] \in {watch[g], "off"} /\ (watch[g] = "sent" => watch'[g] = "sent")
  PROVE  SentInv'
<1>1. seq \in Nat /\ failures \in 0..MaxSeq
  BY DEF TypeInv, TypeOK
<1> QED BY <1>1 DEF SentInv

\* A new generation has a number, and a watch, of its own.
LEMMA CutOverSentInv ==
  ASSUME TypeInv, SentInv, failures' = failures, seq' = seq + 1,
         watch' = [Stopping(watch, active.gen) EXCEPT ![seq + 1] = "on"]
  PROVE  SentInv'
<1>1. seq \in Nat /\ failures \in 0..MaxSeq
      /\ watch \in [Gens -> {"off", "on", "failing", "marked", "sent"}]
  BY DEF TypeInv, TypeOK
<1>2. \A g \in Gens : watch'[g] # "off" => g = seq + 1 \/ watch[g] # "off"
  BY <1>1 DEF Stopping
<1>3. \A g \in Gens : watch[g] = "sent" => watch'[g] = "sent"
  BY <1>1 DEF SentInv, Stopping
<1> QED BY <1>1, <1>2, <1>3 DEF SentInv

\* The steps of the engine keep it,
LEMMA StepSentInv ==
  ASSUME TypeInv, SentInv, [Next]_vars PROVE SentInv'
<1>0. /\ watch \in [Gens -> {"off", "on", "failing", "marked", "sent"}]
      /\ seq \in Nat /\ failures \in 0..MaxSeq
  BY DEF TypeInv, TypeOK
<1> USE DEF dataVars, routing, watchers, opVars, life, chans
<1>1. ASSUME UNCHANGED watch, failures' \in {failures, 0}, seq' \in {seq, seq + 1} PROVE SentInv'
  BY <1>0, <1>1, QuietSentInv
<1>2. ASSUME NEW g \in Gens, Watches(g) PROVE SentInv'
  <2>1. CASE WatchSends(g)
    BY <1>0, <2>1 DEF WatchSends, SentInv
  <2>2. CASE WatchFires(g) \/ MarkUnhealthy(g)
    BY <1>0, <2>2 DEF WatchFires, MarkUnhealthy, SentInv
  <2>3. CASE WatchDrops(g)
    BY <1>0, <2>3, QuietSentInv DEF WatchDrops
  <2>4. CASE MemorySample(g) \/ MemorySends(g) \/ MemoryDrops(g)
    BY <1>1, <2>4 DEF MemorySample, MemorySends, MemoryDrops
  <2> QED BY <1>2, <2>1, <2>2, <2>3, <2>4 DEF Watches
<1>3. CASE Environment
  BY <1>1, <1>3 DEF Environment, Interrupt, CancelOp, KillDraining, InstanceExits, Kill, KillFails,
                    KillCleans
<1>4. CASE Steps
  <2>1. CASE Publish
    BY <2>1, CutOverSentInv DEF Publish
  <2>2. CASE \/ StopPrior \/ StopPriorFails \/ Prepare \/ PrepareFails \/ StartFresh \/ StartReuse
             \/ StartFails \/ Ready \/ ReadyFails \/ Reject \/ Refuse
    BY <1>1, <2>2 DEF StopPrior, StopPriorFails, Prepare, PrepareFails, StartFresh, StartReuse,
              StartFails, Ready, ReadyFails, Reject, Refuse
  <2>3. CASE SaveFails \/ Abort \/ Commit \/ Drained \/ CleanPrior \/ Done
    BY <1>1, <2>3 DEF SaveFails, Abort, Commit, Drained, CleanPrior, Done
  <2> QED BY <1>4, <2>1, <2>2, <2>3 DEF Steps
<1>5. CASE Terminate
  BY <1>0, <1>5, QuietSentInv DEF Terminate
<1>6. CASE Shutdown \/ ShutdownStops \/ UNCHANGED vars
  BY <1>1, <1>6 DEF Shutdown, ShutdownStops, vars
<1>7. CASE Reboot
  BY <1>7 DEF Reboot, SentInv
<1>8. CASE Calls
  <2>1. ASSUME NEW kind, NEW rev, NEW plan, BeginDeploy(kind, rev, plan), failures' = failures
        PROVE  SentInv'
    BY <1>1, <2>1 DEF BeginDeploy
  <2>2. ASSUME BeginReplace(memory), failures' = failures PROVE SentInv'
    BY <1>1, <2>1, <2>2 DEF BeginReplace
  <2>3. ASSUME NEW force, BeginRecover(active.gen, force), failures' = 0 PROVE SentInv'
    BY <1>0, <2>3, QuietSentInv DEF BeginRecover, Stopping
  <2>4. ASSUME NEW plan, CommitPolicy(plan), failures' = failures PROVE SentInv'
    BY <2>4, CutOverSentInv DEF CommitPolicy
  <2>5. ASSUME NEW plan, CommitPolicyFails(plan), failures' = failures PROVE SentInv'
    BY <1>1, <2>5 DEF CommitPolicyFails
  <2> QED BY <1>8, <2>1, <2>2, <2>3, <2>4, <2>5 DEF Calls
<1> QED BY <1>2, <1>3, <1>4, <1>5, <1>6, <1>7, <1>8 DEF Next

\* and those of its loop.
LEMMA LoopSentInv ==
  ASSUME CTypeInv, SentInv, [CNext]_all PROVE SentInv'
<1>1. TypeInv /\ watch \in [Gens -> {"off", "on", "failing", "marked", "sent"}]
      /\ seq \in Nat /\ failures \in 0..MaxSeq
  BY DEF CTypeInv, TypeInv, TypeOK
<1>2. ASSUME LoopMove PROVE SentInv'
  <2>1. seq' = seq /\ (watch' = watch \/ watch' = Stopping(watch, active.gen))
        /\ failures' \in {failures, 0}
    BY <1>2 DEF LoopMove, Alone, Begins, BeginDeploy, BeginRecover, routing, watchers
  <2> QED BY <1>1, <2>1, QuietSentInv DEF Stopping
<1> QED BY <1>1, <1>2, LoopMoves, StepSentInv

\* Also the loop withdraws traffic only because the active generation's own watch
\* failed, to recover it, or at the end of the process: the failure that it takes
\* from the channel is never one of another generation, or of an earlier boot.
THEOREM LoopTraffic == CSpec => TrafficKept
<1>1. CInit => SentInv
  BY DEF CInit, Init, SentInv
<1>2. CTypeInv /\ SentInv /\ [CNext]_all =>
        [proxy # None /\ proxy' = None =>
           FailedClosed(active.gen) \/ pc' \in {"stop", "shutdown"} \/ boots' # boots]_vars
  <2> SUFFICES ASSUME CTypeInv, SentInv, [CNext]_all, Withdrawal
               PROVE  FailedClosed(active.gen) \/ pc' \in {"stop", "shutdown"} \/ boots' # boots
    BY DEF Withdrawal
  <2>1. CASE [Next]_vars
    BY <2>1, StepTraffic DEF CTypeInv
  <2>2. CASE Alone
    BY <2>2 DEF Alone, Withdrawal, SentInv, FailedClosed
  <2>3. CASE Begins
    BY <2>3 DEF Begins, BeginDeploy, BeginRecover, Withdrawal, routing
  <2> QED BY <2>1, <2>2, <2>3, LoopMoves DEF LoopMove
<1> QED BY <1>1, <1>2, LoopSentInv, LoopTypes, PTL DEF CSpec, TrafficKept
=============================================================================
