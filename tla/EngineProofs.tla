---------------------------- MODULE EngineProofs ----------------------------
(***************************************************************************)
(* Proofs about module Engine, for all sets of instances, revisions and    *)
(* settings and all bounds: its types; that what receives traffic is what  *)
(* active.json records, and that the engine implements module Release      *)
(* (these two for SyncDirFails = FALSE: a save that fails leaves the old   *)
(* record on disk); who writes to an installation, who may remove it and   *)
(* what kill-draining may reach.                                           *)
(***************************************************************************)
EXTENDS Engine, TLAPS

\* An operation that may still publish has a generation left to publish.
SeqRoom == pc \in {"stop", "prepare", "start", "ready", "reject", "publish"} => seq < MaxSeq

\* A deployment names the revision it deploys.
DeployNamed == op.kind = "deploy" => op.rev \in Revisions

\* There is an instance behind every active generation.
ActiveExists == active.gen # 0 => active.inst \in Instances

TypeInv == TypeOK /\ SeqRoom /\ DeployNamed /\ ActiveExists

USE EngineAssumption DEF Gens

\* The initial state has its types.
LEMMA InitTypeInv == Init => TypeInv
<1> SUFFICES ASSUME Init PROVE TypeInv
  OBVIOUS
<1>1. NoRestore \in Restores /\ NoOp \in Operations /\ NoActive \in Actives
  BY DEF NoRestore, Restores, NoOp, Operations, NoActive, Actives
<1>2. restore \in Restores
  BY <1>1 DEF Init, Restores
<1>3. TypeOK
  BY <1>1, <1>2 DEF Init, TypeOK, States, Keys
<1> QED BY <1>3 DEF Init, TypeInv, SeqRoom, DeployNamed, ActiveExists, NoOp, NoActive

\* One field of a record of its type may change within that field's type.
LEMMA ActiveWith ==
  ASSUME NEW a \in Actives
  PROVE  /\ \A g \in 0..MaxSeq : /\ [a EXCEPT !.gen = g] \in Actives
                                 /\ [a EXCEPT !.gen = g].gen = g
                                 /\ [a EXCEPT !.gen = g].inst = a.inst
                                 /\ [a EXCEPT !.gen = g].rev = a.rev
         /\ \A r \in BOOLEAN : /\ [a EXCEPT !.restarted = r] \in Actives
                              /\ [a EXCEPT !.restarted = r].gen = a.gen
                              /\ [a EXCEPT !.restarted = r].inst = a.inst
                              /\ [a EXCEPT !.restarted = r].rev = a.rev
  BY DEF Actives

\* The same for the candidate of an operation,
LEMMA OpWithCand ==
  ASSUME NEW o \in Operations, NEW i \in Instances
  PROVE  /\ [o EXCEPT !.cand = i] \in Operations
         /\ [o EXCEPT !.cand = i].kind = o.kind /\ [o EXCEPT !.cand = i].rev = o.rev
  BY DEF Operations

\* for an operation that falls back to a fresh installation,
LEMMA OpWithoutReuse ==
  ASSUME NEW o \in Operations
  PROVE  /\ [o EXCEPT !.reuse = None, !.cand = None] \in Operations
         /\ [o EXCEPT !.reuse = None, !.cand = None].kind = o.kind
         /\ [o EXCEPT !.reuse = None, !.cand = None].rev = o.rev
  BY DEF Operations

\* for one that is cancelled,
LEMMA OpWithCtx ==
  ASSUME NEW o \in Operations, NEW c \in SUBSET {"cancelled", "serving"}
  PROVE  /\ [o EXCEPT !.ctx = c] \in Operations
         /\ [o EXCEPT !.ctx = c].kind = o.kind /\ [o EXCEPT !.ctx = c].rev = o.rev
  BY DEF Operations

\* and for what the last boot left to resume.
LEMMA RestoreWith ==
  ASSUME NEW r \in Restores PROVE [r EXCEPT !.usable = FALSE] \in Restores
  BY DEF Restores

\* The parameterised pieces of the actions keep to their types.
LEMMA PiecesTypeInv ==
  ASSUME TypeInv
  PROVE  /\ Fault \/ UNCHANGED faults => faults' \in 0..MaxFaults
         /\ \A r \in {"ok", "failed"} : Finish(r) =>
              /\ pc' = "idle" /\ op' = NoOp /\ op' \in Operations /\ op'.kind = "none"
              /\ result' \in {"ok", "failed"}
         /\ Fail => /\ pc' = "idle" /\ op' \in Operations /\ op'.kind = "none"
                    /\ result' = "failed" /\ interrupted' \in Keys \cup {None}
         /\ \A i \in Instances \cup {None}, r \in BOOLEAN : CleanUp(i, r) =>
              /\ inst' \in [Instances -> {"none", "candidate", "released", "exited"}]
              /\ bundles' \subseteq Instances /\ faults' \in 0..MaxFaults
<1> USE DEF TypeInv, TypeOK
<1>1. Fault \/ UNCHANGED faults => faults' \in 0..MaxFaults
  BY DEF Fault
<1>2. ASSUME NEW r \in {"ok", "failed"}, Finish(r)
      PROVE  /\ pc' = "idle" /\ op' = NoOp /\ op' \in Operations /\ op'.kind = "none"
             /\ result' \in {"ok", "failed"}
  BY <1>2 DEF Finish, NoOp, Operations
<1>3. ASSUME Fail
      PROVE  /\ pc' = "idle" /\ op' \in Operations /\ op'.kind = "none"
             /\ result' = "failed" /\ interrupted' \in Keys \cup {None}
  <2>1. Finish("failed")
    BY <1>3 DEF Fail
  <2>2. op.kind = "deploy" => ResumeKey(op.rev, op.plan) \in Keys
    BY DEF DeployNamed, ResumeKey, Keys, Operations
  <2> QED BY <2>1, <2>2, <1>2, <1>3 DEF Fail, Finish
<1>4. ASSUME NEW i \in Instances \cup {None}, NEW r \in BOOLEAN, CleanUp(i, r)
      PROVE  /\ inst' \in [Instances -> {"none", "candidate", "released", "exited"}]
             /\ bundles' \subseteq Instances /\ faults' \in 0..MaxFaults
  BY <1>1, <1>4 DEF CleanUp, Without
<1> QED BY <1>1, <1>2, <1>3, <1>4

-----------------------------------------------------------------------------
(* The operations that the controller calls.                                *)
\* Beginning a deployment, a replacement, a recovery or a policy keeps the types,
\* whatever the caller does to the channels.
LEMMA BeginsTypeInv ==
  ASSUME TypeInv, failures' \in 0..MaxSeq, memory' \in 0..MaxSeq,
         \/ \E rev \in Revisions, plan \in Configs : BeginDeploy("deploy", rev, plan)
         \/ BeginReplace(memory) /\ memory # 0
         \/ \E force \in BOOLEAN : BeginRecover(active.gen, force)
         \/ \E plan \in Configs : CommitPolicy(plan) \/ CommitPolicyFails(plan)
  PROVE  TypeInv'
<1> USE DEF TypeInv, TypeOK, SeqRoom, DeployNamed, ActiveExists, States, Actives, Restores,
            Operations, Keys, dataVars, routing, watchers, opVars, life, chans
<1>1. ASSUME NEW rev \in Revisions, NEW plan \in Configs, BeginDeploy("deploy", rev, plan)
      PROVE  TypeInv'
  BY <1>1 DEF BeginDeploy, Idle, Serving
<1>2. ASSUME BeginReplace(memory), memory # 0
      PROVE  TypeInv'
  <2>1. CASE memory = active.gen /\ Running(active.inst)
    <3>1. BeginDeploy("replace", active.rev, cfg)
      BY <1>2, <2>1 DEF BeginReplace
    <3>2. op' \in Operations /\ op'.kind = "replace" /\ interrupted' = interrupted
      BY <3>1 DEF BeginDeploy, Serving
    <3> QED BY <1>2, <3>1, <3>2 DEF BeginDeploy, Idle
  <2>2. CASE ~(memory = active.gen /\ Running(active.inst))
    BY <1>2, <2>2 DEF BeginReplace, Idle
  <2> QED BY <2>1, <2>2
<1>3. ASSUME NEW force \in BOOLEAN, BeginRecover(active.gen, force)
      PROVE  TypeInv'
  <2>1. watch' = Stopping(watch, active.gen) /\ memWatch' = Stopping(memWatch, active.gen)
        /\ cancelled' = cancelled \cup {active.gen} /\ active.gen \in Gens
    BY <1>3 DEF BeginRecover
  <2>2. op' \in Operations /\ op'.kind = "recover"
    <3>1. active.inst \in Instances
      BY <1>3 DEF BeginRecover
    <3> QED BY <3>1, <1>3 DEF BeginRecover
  <2>3. /\ watch' \in [Gens -> {"off", "on", "failing", "marked", "sent"}]
        /\ memWatch' \in [Gens -> {"off", "on", "over"}] /\ cancelled' \subseteq Gens
    BY <2>1 DEF Stopping
  <2> QED BY <2>2, <2>3, <1>3 DEF BeginRecover, Idle
<1>4. ASSUME NEW plan \in Configs, CommitPolicy(plan)
      PROVE  TypeInv'
  <2>1. active.inst \in Instances /\ seq + 1 \in Gens /\ active.gen \in Gens
    BY <1>4 DEF CommitPolicy
  <2>2. active' = [active EXCEPT !.gen = seq + 1] /\ active' \in Actives
        /\ active'.inst = active.inst
    BY <2>1, <1>4, ActiveWith DEF CommitPolicy
  <2>3. disk' \in States
    BY <2>1, <1>4 DEF CommitPolicy, Accepted
  <2>4. /\ watch' \in [Gens -> {"off", "on", "failing", "marked", "sent"}]
        /\ memWatch' \in [Gens -> {"off", "on", "over"}] /\ cancelled' \subseteq Gens
        /\ watched' \in [Gens -> Instances \cup {None}]
    BY <2>1, <1>4 DEF CommitPolicy, Stopping
  <2>5. UNCHANGED <<inst, bundle, bundles, proxy, draining, restore, interrupted, pc, op, life>>
        /\ cfg' = plan /\ seq' = seq + 1 /\ result' = "ok" /\ pc = "idle"
    BY <1>4 DEF CommitPolicy, Idle
  <2> QED BY <2>1, <2>2, <2>3, <2>4, <2>5
<1>5. ASSUME NEW plan \in Configs, CommitPolicyFails(plan)
      PROVE  TypeInv'
  BY <1>5 DEF CommitPolicyFails, Idle, Fault, FailedSave, Accepted
<1> HIDE DEF TypeInv
<1> QED BY <1>1, <1>2, <1>3, <1>4, <1>5

\* So does every call of the environment that stands for the controller.
LEMMA CallsTypeInv ==
  ASSUME TypeInv, Calls PROVE TypeInv'
<1>1. failures' \in 0..MaxSeq /\ memory' \in 0..MaxSeq
  BY DEF Calls, TypeInv, TypeOK, chans
<1> QED BY <1>1, BeginsTypeInv DEF Calls

-----------------------------------------------------------------------------
(* The steps of an operation, before its cutover and from there on.         *)
\* So does every step that prepares, starts and rejects a candidate,
LEMMA PreparingTypeInv ==
  ASSUME TypeInv,
         \/ StopPrior \/ StopPriorFails \/ Prepare \/ PrepareFails
         \/ StartFresh \/ StartReuse \/ StartFails \/ Ready \/ ReadyFails \/ Reject
  PROVE  TypeInv'
<1> USE DEF TypeInv, TypeOK, SeqRoom, DeployNamed, ActiveExists,
            dataVars, routing, watchers, opVars, life, chans
<1>1. CASE StopPrior
  BY <1>1, ActiveWith DEF StopPrior
<1>2. CASE StopPriorFails
  BY <1>2, PiecesTypeInv DEF StopPriorFails
<1>3. CASE Prepare
  BY <1>3 DEF Prepare
<1>4. CASE PrepareFails
  BY <1>4, PiecesTypeInv DEF PrepareFails, MayFail
<1>5. CASE StartFresh
  <2>1. PICK i \in Instances : /\ inst' = [inst EXCEPT ![i] = "candidate"]
                               /\ bundle' = [bundle EXCEPT ![i] = i]
                               /\ bundles' = bundles \cup {i}
                               /\ op' = [op EXCEPT !.cand = i]
    BY <1>5 DEF StartFresh
  <2>2. op' \in Operations /\ op'.kind = op.kind /\ op'.rev = op.rev
    BY <2>1, OpWithCand
  <2> QED BY <1>5, <2>1, <2>2 DEF StartFresh
<1>6. CASE StartReuse
  <2>0. op.reuse \in Instances
    BY <1>6 DEF StartReuse
  <2>1. PICK i \in Instances : /\ inst' = [inst EXCEPT ![i] = "candidate"]
                               /\ bundle' = [bundle EXCEPT ![i] = op.reuse]
                               /\ op' = [op EXCEPT !.cand = i]
    BY <1>6 DEF StartReuse
  <2>2. op' \in Operations /\ op'.kind = op.kind /\ op'.rev = op.rev
    BY <2>1, OpWithCand
  <2> QED BY <1>6, <2>0, <2>1, <2>2 DEF StartReuse
<1>7. ASSUME FallBackOrFail, pc \in {"start", "reject"}
      PROVE  /\ op' \in Operations /\ DeployNamed' /\ restore' \in Restores
             /\ pc' \in {"idle", "prepare"} /\ result' \in {"none", "ok", "failed"}
             /\ interrupted' \in Keys \cup {None}
  <2>1. CASE Fail
    BY <1>7, <2>1, RestoreWith, PiecesTypeInv DEF FallBackOrFail
  <2>2. CASE ~Fail
    <3>1. /\ op' = [op EXCEPT !.reuse = None, !.cand = None] /\ pc' = "prepare"
          /\ restore' = [restore EXCEPT !.usable = FALSE]
          /\ UNCHANGED <<interrupted, result>>
      BY <1>7, <2>2 DEF FallBackOrFail
    <3>2. op' \in Operations /\ op'.kind = op.kind /\ op'.rev = op.rev
      BY <3>1, OpWithoutReuse
    <3> QED BY <3>1, <3>2, RestoreWith
  <2> QED BY <2>1, <2>2
<1>8. CASE StartFails
  BY <1>8, <1>7, PiecesTypeInv DEF StartFails
<1>9. CASE Ready
  BY <1>9 DEF Ready
<1>10. CASE ReadyFails
  BY <1>10, PiecesTypeInv DEF ReadyFails, MayFail
<1>11. CASE Reject
  <2>1. op.cand \in Instances \cup {None}
    BY DEF Operations
  <2>2. Spent \in BOOLEAN /\ CleanUp(op.cand, Spent)
    BY <1>11 DEF Reject, Spent
  <2> QED BY <1>11, <1>7, <2>1, <2>2, PiecesTypeInv DEF Reject
<1> HIDE DEF TypeInv
<1> QED BY <1>1, <1>2, <1>3, <1>4, <1>5, <1>6, <1>8, <1>9, <1>10, <1>11

\* every step from publishWith to the end of an operation,
LEMMA CuttingOverTypeInv ==
  ASSUME TypeInv,
         \/ Publish \/ Refuse \/ SaveFails \/ Abort \/ Commit \/ Drained \/ CleanPrior \/ Done
  PROVE  TypeInv'
<1> USE DEF TypeInv, TypeOK, SeqRoom, DeployNamed, ActiveExists,
            dataVars, routing, watchers, opVars, life, chans
<1>0. /\ op.cand \in Instances \cup {None} /\ op.prior \in Instances \cup {None}
      /\ op.rev \in Revisions \cup {None} /\ op.plan \in Configs
      /\ active.gen \in 0..MaxSeq /\ active.inst \in Instances \cup {None}
  BY DEF Operations, Actives
<1>1. CASE Publish
  <2>1. seq + 1 \in Gens /\ op.cand \in Instances
    BY <1>0, <1>1 DEF Publish, Overtaken, Running
  <2>2. disk' \in States
    BY <1>0, <1>1, <2>1 DEF Publish, Accepted, States
  <2>3. active' \in Actives /\ active'.inst \in Instances
    BY <1>0, <1>1, <2>1 DEF Publish, Actives
  <2>4. /\ watch' \in [Gens -> {"off", "on", "failing", "marked", "sent"}]
        /\ memWatch' \in [Gens -> {"off", "on", "over"}] /\ cancelled' \subseteq Gens
        /\ watched' \in [Gens -> Instances \cup {None}]
        /\ draining' \in [Gens -> Instances \cup {None}]
    BY <1>0, <1>1, <2>1 DEF Publish, Retiring, Stopping
  <2>5. /\ inst' \in [Instances -> {"none", "candidate", "released", "exited"}]
        /\ cfg' \in Configs /\ proxy' \in Instances \cup {None} /\ seq' \in 0..MaxSeq
        /\ pc' \in {"commit", "clean", "done"}
        /\ UNCHANGED <<bundle, bundles, restore, interrupted, chans, op, result, life>>
    BY <1>0, <1>1, <2>1 DEF Publish
  <2> QED BY <2>2, <2>3, <2>4, <2>5
<1>2. CASE Refuse
  BY <1>2 DEF Refuse
<1>3. CASE SaveFails
  <2>1. op.cand \in Instances
    BY <1>0, <1>3 DEF SaveFails, Overtaken, Running
  <2>2. Accepted(op.rev, op.plan, op.cand) \in States
    BY <1>0, <2>1 DEF Accepted, States
  <2> QED BY <1>3, <2>2, PiecesTypeInv DEF SaveFails, FailedSave
<1>4. CASE Abort
  <2>1. CleanUp(op.cand, op.reuse = None) /\ (op.reuse = None) \in BOOLEAN
    BY <1>4 DEF Abort
  <2> QED BY <1>0, <1>4, <2>1, PiecesTypeInv DEF Abort
<1>5. CASE Commit
  <2>1. NoRestore \in Restores
    BY DEF NoRestore, Restores
  <2> QED BY <1>5, <2>1 DEF Commit, Without
<1>6. CASE Drained
  BY <1>6 DEF Drained
<1>7. CASE CleanPrior
  BY <1>0, <1>7, PiecesTypeInv DEF CleanPrior
<1>8. CASE Done
  <2>1. draining' \in [Gens -> Instances \cup {None}]
    BY <1>8 DEF Done, Forgetting
  <2> QED BY <1>8, <2>1, PiecesTypeInv DEF Done
<1> HIDE DEF TypeInv
<1> QED BY <1>1, <1>2, <1>3, <1>4, <1>5, <1>6, <1>7, <1>8

-----------------------------------------------------------------------------
(* What happens beside an operation, and the end of the process.            *)
\* every exit, cancellation and kill-draining request,
LEMMA EnvironmentTypeInv ==
  ASSUME TypeInv, Environment PROVE TypeInv'
<1> USE DEF TypeInv, TypeOK, SeqRoom, DeployNamed, ActiveExists,
            dataVars, routing, watchers, opVars, life, chans
<1>0. op.ctx \in SUBSET {"cancelled", "serving"}
  BY DEF Operations
<1>1. CASE Interrupt
  <2>1. op' \in Operations /\ op'.kind = op.kind /\ op'.rev = op.rev
    BY <1>1, OpWithCtx DEF Interrupt
  <2> QED BY <1>1, <2>1 DEF Interrupt
<1>2. CASE CancelOp
  <2>1. op' \in Operations /\ op'.kind = op.kind /\ op'.rev = op.rev
    <3>1. op.ctx \cup {"cancelled"} \in SUBSET {"cancelled", "serving"}
      BY <1>0
    <3> QED BY <3>1, <1>2, OpWithCtx DEF CancelOp
  <2> QED BY <1>2, <2>1, PiecesTypeInv DEF CancelOp
<1>3. CASE KillDraining
  BY <1>3 DEF KillDraining
<1>4. ASSUME NEW i \in Instances, InstanceExits(i) PROVE TypeInv'
  BY <1>4, PiecesTypeInv DEF InstanceExits
<1>5. ASSUME NEW i \in Instances, Kill(i) PROVE TypeInv'
  BY <1>5 DEF Kill
<1>6. ASSUME NEW i \in Instances, KillFails(i) PROVE TypeInv'
  BY <1>6, PiecesTypeInv DEF KillFails
<1>7. ASSUME NEW i \in Instances, KillCleans(i) PROVE TypeInv'
  BY <1>7 DEF KillCleans, Without
<1> HIDE DEF TypeInv
<1> QED BY <1>1, <1>2, <1>3, <1>4, <1>5, <1>6, <1>7 DEF Environment

\* every step of a health or memory watch,
LEMMA WatchesTypeInv ==
  ASSUME TypeInv, NEW g \in Gens, Watches(g) PROVE TypeInv'
<1> USE DEF TypeInv, TypeOK, SeqRoom, DeployNamed, ActiveExists,
            dataVars, routing, watchers, opVars, life, chans
<1>1. CASE WatchFires(g)
  BY <1>1, PiecesTypeInv DEF WatchFires
<1>2. CASE MarkUnhealthy(g)
  BY <1>2 DEF MarkUnhealthy
<1>3. CASE WatchSends(g)
  BY <1>3 DEF WatchSends
<1>4. CASE WatchDrops(g)
  BY <1>4 DEF WatchDrops
<1>5. CASE MemorySample(g)
  BY <1>5, PiecesTypeInv DEF MemorySample
<1>6. CASE MemorySends(g)
  BY <1>6 DEF MemorySends
<1>7. CASE MemoryDrops(g)
  BY <1>7 DEF MemoryDrops
<1> HIDE DEF TypeInv
<1> QED BY <1>1, <1>2, <1>3, <1>4, <1>5, <1>6, <1>7 DEF Watches

\* and the end of the process and its restart.
LEMMA ProcessTypeInv ==
  ASSUME TypeInv, Terminate \/ Shutdown \/ ShutdownStops \/ Reboot PROVE TypeInv'
<1> USE DEF TypeInv, TypeOK, SeqRoom, DeployNamed, ActiveExists,
            dataVars, routing, watchers, opVars, life, chans
<1>0. /\ op.ctx \in SUBSET {"cancelled", "serving"} /\ active.inst \in Instances \cup {None}
      /\ NoActive \in Actives /\ NoActive.gen = 0 /\ NoOp \in Operations /\ NoOp.kind = "none"
  BY DEF Operations, Actives, NoActive, NoOp
<1>1. CASE Terminate
  <2>1. op' \in Operations /\ op'.kind = op.kind /\ op'.rev = op.rev
    <3>1. op.ctx \cup {"cancelled"} \in SUBSET {"cancelled", "serving"}
      BY <1>0
    <3> QED BY <3>1, <1>1, OpWithCtx DEF Terminate
  <2> QED BY <1>1, <2>1, PiecesTypeInv DEF Terminate
<1>2. CASE Shutdown
  <2>1. op' \in Operations /\ op'.kind = "none"
    BY <1>0, <1>2 DEF Shutdown, Operations
  <2> QED BY <1>0, <1>2, <2>1 DEF Shutdown
<1>3. CASE ShutdownStops
  BY <1>0, <1>3, PiecesTypeInv DEF ShutdownStops
<1>4. CASE Reboot
  <2>1. disk.rev \in Revisions \cup {None} /\ disk.cfg \in Configs
        /\ disk.sandbox \in Instances \cup {None}
    BY DEF States
  <2>2. restore' \in Restores
    BY <1>4, <2>1 DEF Reboot, Restores
  <2> QED BY <1>0, <1>4, <2>1, <2>2 DEF Reboot
<1> HIDE DEF TypeInv
<1> QED BY <1>1, <1>2, <1>3, <1>4

\* The inductive invariant: the types, with the three facts that they rest on.
THEOREM TypesKept == Spec => []TypeInv
<1>1. ASSUME TypeInv, [Next]_vars PROVE TypeInv'
  <2>1. CASE UNCHANGED vars
    BY <1>1, <2>1 DEF TypeInv, TypeOK, SeqRoom, DeployNamed, ActiveExists, vars, dataVars,
                      routing, watchers, opVars, life, chans
  <2>2. CASE Next
    BY <1>1, <2>2, CallsTypeInv, PreparingTypeInv, CuttingOverTypeInv, EnvironmentTypeInv,
       WatchesTypeInv, ProcessTypeInv DEF Next, Steps
  <2> QED BY <1>1, <2>1, <2>2
<1> QED BY <1>1, InitTypeInv, PTL DEF Spec

\* The type invariant of the runs, for every size of the system.
THEOREM TypeCorrect == Spec => []TypeOK
<1>1. TypeInv => TypeOK
  BY DEF TypeInv
<1> QED BY <1>1, TypesKept, PTL

-----------------------------------------------------------------------------
(* The record on disk, and the refinement of module Release.                *)

\* The record on disk is the one of the active deployment, serving or not.
ActiveIsDurable ==
    active.gen # 0 => disk = Accepted(active.rev, cfg, active.inst)

\* Nothing but the active instance is ever routed to.
RoutedIsActive == proxy # None => active.gen # 0 /\ proxy = active.inst

DurInv == ActiveIsDurable /\ RoutedIsActive

\* Nothing is active or routed at first.
LEMMA InitDurInv == Init => DurInv
  BY DEF Init, DurInv, ActiveIsDurable, RoutedIsActive, NoActive

\* Preparing a candidate: a fresh identity is never the active one, so the
\* installation of the active instance stays the one it was started on.
LEMMA PreparingDurInv ==
  ASSUME TypeInv, DurInv,
         \/ StopPrior \/ StopPriorFails \/ Prepare \/ PrepareFails
         \/ StartFresh \/ StartReuse \/ StartFails \/ Ready \/ ReadyFails \/ Reject
  PROVE  /\ DurInv'
         /\ UNCHANGED <<disk, cfg, proxy, active.rev>>
<1> USE DEF DurInv, ActiveIsDurable, RoutedIsActive, dataVars, routing
<1>0. active \in Actives /\ bundle \in [Instances -> Instances \cup {None}]
  BY DEF TypeInv, TypeOK
<1>1. CASE StopPrior
  BY <1>0, <1>1, ActiveWith DEF StopPrior, Accepted
<1>2. ASSUME NEW i \in Instances, NEW b, Available(i), bundle' = [bundle EXCEPT ![i] = b],
             UNCHANGED <<disk, routing>>
      PROVE  DurInv' /\ UNCHANGED <<disk, cfg, proxy, active.rev>>
  <2>1. active.inst # i
    BY <1>2 DEF Available, Held
  <2>2. active.gen # 0 => bundle'[active.inst] = bundle[active.inst]
    BY <1>0, <1>2, <2>1 DEF TypeInv, ActiveExists
  <2> QED BY <1>2, <2>2 DEF Accepted
<1>3. CASE StartFresh
  BY <1>2, <1>3 DEF StartFresh
<1>4. CASE StartReuse
  BY <1>2, <1>4 DEF StartReuse
<1>5. CASE \/ StopPriorFails \/ Prepare \/ PrepareFails \/ StartFails \/ Ready \/ ReadyFails
           \/ Reject
  BY <1>5 DEF StopPriorFails, Prepare, PrepareFails, StartFails, Ready, ReadyFails, Reject,
              Accepted
<1> HIDE DEF DurInv
<1> QED BY <1>1, <1>3, <1>4, <1>5

\* What no step outside the cutover, a recovery's start and a policy touches.
Kept == UNCHANGED <<bundle, disk, active, cfg>> /\ proxy' \in {proxy, None}

\* A step that touches none of these keeps the invariant.
LEMMA KeptDurInv == ASSUME DurInv, Kept PROVE DurInv'
  BY DEF DurInv, ActiveIsDurable, RoutedIsActive, Kept, Accepted

\* Watches, exits, kill-draining and the steps after the cutover are such steps.
LEMMA BesideKept ==
  ASSUME \/ Refuse \/ Abort \/ Commit \/ Drained \/ CleanPrior \/ Done
         \/ Environment \/ (\E g \in Gens : Watches(g)) \/ Terminate \/ ShutdownStops
         \/ UNCHANGED vars
  PROVE  Kept
<1> USE DEF Kept, dataVars, routing
<1>1. CASE Refuse \/ Abort \/ Commit \/ Drained \/ CleanPrior \/ Done
  BY <1>1 DEF Refuse, Abort, Commit, Drained, CleanPrior, Done
<1>2. CASE Environment
  BY <1>2 DEF Environment, Interrupt, CancelOp, KillDraining, InstanceExits, Kill, KillFails,
              KillCleans
<1>3. CASE \E g \in Gens : Watches(g)
  BY <1>3 DEF Watches, WatchFires, MarkUnhealthy, WatchSends, WatchDrops, MemorySample,
              MemorySends, MemoryDrops
<1>4. CASE Terminate \/ ShutdownStops \/ UNCHANGED vars
  BY <1>4 DEF Terminate, ShutdownStops, vars
<1> QED BY <1>1, <1>2, <1>3, <1>4

\* The operations the controller calls keep the record, except for a policy.
LEMMA CallsDurInv ==
  ASSUME SyncDirFails = FALSE, TypeInv, DurInv, Calls
  PROVE  /\ DurInv'
         /\ Kept \/ \E plan \in Configs : CommitPolicy(plan)
<1> USE DEF dataVars, routing
<1>1. ASSUME NEW rev \in Revisions, NEW plan \in Configs, BeginDeploy("deploy", rev, plan)
      PROVE  Kept
  BY <1>1 DEF BeginDeploy, Kept
<1>2. ASSUME BeginReplace(memory) PROVE Kept
  BY <1>2 DEF BeginReplace, BeginDeploy, Kept
<1>3. ASSUME NEW force \in BOOLEAN, BeginRecover(active.gen, force) PROVE Kept
  BY <1>3 DEF BeginRecover, Kept
<1>4. ASSUME NEW plan \in Configs, CommitPolicyFails(plan) PROVE Kept
  BY <1>4 DEF CommitPolicyFails, FailedSave, Kept
<1>5. ASSUME NEW plan \in Configs, CommitPolicy(plan) PROVE DurInv'
  <2>1. active' = [active EXCEPT !.gen = seq + 1] /\ seq + 1 \in 0..MaxSeq
        /\ active \in Actives
    BY <1>5 DEF CommitPolicy, TypeInv, TypeOK
  <2>2. active'.rev = active.rev /\ active'.inst = active.inst /\ active'.gen # 0
    <3>1. active'.gen = seq + 1 /\ seq + 1 # 0
      BY <2>1, ActiveWith DEF TypeInv, TypeOK
    <3> QED BY <2>1, <3>1, ActiveWith
  <2>3. disk' = Accepted(active.rev, plan, active.inst) /\ cfg' = plan
        /\ UNCHANGED <<bundle, proxy>> /\ active.gen # 0
    BY <1>5 DEF CommitPolicy
  <2> QED BY <2>2, <2>3 DEF DurInv, ActiveIsDurable, RoutedIsActive, Accepted
<1> QED BY <1>1, <1>2, <1>3, <1>4, <1>5, KeptDurInv DEF Calls

\* The cutover of publishWith changes record, settings, deployment and route together.
LEMMA PublishDurInv ==
  ASSUME TypeInv, DurInv, Publish
  PROVE  /\ DurInv'
         /\ proxy' # None /\ op.rev \in Revisions \cup {None} /\ op.plan \in Configs
         /\ disk'.rev = op.rev /\ disk'.cfg = op.plan /\ active'.rev = op.rev /\ cfg' = op.plan
<1>1. /\ active'.rev = op.rev /\ active'.inst = op.cand /\ active'.gen = seq + 1
      /\ proxy' = op.cand /\ cfg' = op.plan /\ UNCHANGED bundle
      /\ disk' = Accepted(op.rev, op.plan, op.cand)
  BY DEF Publish
<1>2. seq + 1 # 0 /\ op.cand # None
  BY DEF Publish, Overtaken, Running, TypeInv, TypeOK
<1>3. op.rev \in Revisions \cup {None} /\ op.plan \in Configs
  BY DEF TypeInv, TypeOK, Operations
<1> QED BY <1>1, <1>2, <1>3 DEF DurInv, ActiveIsDurable, RoutedIsActive, Accepted

\* A record that could not be saved is the old one, if AtomicWrite keeps its promise.
LEMMA SaveFailsKept == ASSUME SyncDirFails = FALSE, SaveFails PROVE Kept
  BY DEF SaveFails, FailedSave, Kept

\* The end of a process, in order or not, leaves nothing routed.
LEMMA ProcessDurInv ==
  ASSUME DurInv, Shutdown \/ Reboot
  PROVE  DurInv' /\ proxy' = None /\ UNCHANGED disk
  BY DEF DurInv, ActiveIsDurable, RoutedIsActive, Shutdown, Reboot, NoActive, dataVars

\* Every step of the engine keeps the invariant.
LEMMA StepDurInv ==
  ASSUME SyncDirFails = FALSE, TypeInv, DurInv, [Next]_vars
  PROVE  DurInv'
  BY PreparingDurInv, BesideKept, KeptDurInv, CallsDurInv, PublishDurInv, SaveFailsKept,
     ProcessDurInv DEF Next, Steps

\* A crash at any moment restores exactly what clients were being served: the
\* record, the settings and the installation are those of the routed instance.
THEOREM Durability ==
  ASSUME SyncDirFails = FALSE PROVE Spec => []ServedIsDurable
<1>1. DurInv => ServedIsDurable
  BY DEF DurInv, ActiveIsDurable, RoutedIsActive, ServedIsDurable
<1> QED BY <1>1, InitDurInv, StepDurInv, TypesKept, PTL DEF Spec

-----------------------------------------------------------------------------
(* Refinement: every step of the engine is a step of Release or a stutter.  *)
Release(rev, c) == [rev |-> rev, cfg |-> c]
Releases == [rev : Revisions \cup {None}, cfg : Configs]
AcceptedRelease == Release(disk.rev, disk.cfg)
ServedRelease == IF proxy = None THEN NoRelease ELSE Release(active.rev, cfg)

\* Releases is the set that Engine gives to module Release.
LEMMA ReleaseOf == \A rev \in Revisions \cup {None}, c \in Configs : Release(rev, c) \in Releases
  BY DEF Release, Releases

\* A step that touches none of what was accepted withdraws a release at most.
LEMMA KeptRelease ==
  ASSUME Kept PROVE [R!Next]_<<AcceptedRelease, ServedRelease>>
  BY DEF Kept, R!Next, R!Withdraw, AcceptedRelease, ServedRelease, Release

\* Every step of the engine is one of module Release, or leaves it alone.
LEMMA ReleaseStep ==
  ASSUME SyncDirFails = FALSE, TypeInv, DurInv, [Next]_vars
  PROVE  [R!Next]_<<AcceptedRelease, ServedRelease>>
<1> USE DEF AcceptedRelease, ServedRelease, Release
<1>2. CASE \/ StopPrior \/ StopPriorFails \/ Prepare \/ PrepareFails
           \/ StartFresh \/ StartReuse \/ StartFails \/ Ready \/ ReadyFails \/ Reject
  BY <1>2, PreparingDurInv
<1>3. CASE Publish
  <2>1. Release(op.rev, op.plan) \in Releases
    BY <1>3, PublishDurInv, ReleaseOf
  <2>2. R!CutOver(Release(op.rev, op.plan))
    BY <1>3, PublishDurInv DEF R!CutOver
  <2> QED BY <2>1, <2>2 DEF R!Next, Releases
<1>4. ASSUME NEW plan \in Configs, CommitPolicy(plan)
      PROVE  [R!Next]_<<AcceptedRelease, ServedRelease>>
  <2>1. /\ active \in Actives /\ active.rev \in Revisions \cup {None} /\ seq + 1 \in 0..MaxSeq
        /\ active' = [active EXCEPT !.gen = seq + 1]
        /\ disk'.rev = active.rev /\ disk'.cfg = plan /\ cfg' = plan /\ UNCHANGED proxy
    BY <1>4 DEF CommitPolicy, Accepted, TypeInv, TypeOK, Actives
  <2>2. active'.rev = active.rev
    BY <2>1, ActiveWith
  <2>3. Release(active.rev, plan) \in Releases
    BY <2>1, ReleaseOf
  <2>4. R!CutOver(Release(active.rev, plan)) \/ R!Amend(Release(active.rev, plan))
    BY <2>1, <2>2 DEF R!CutOver, R!Amend
  <2> QED BY <2>3, <2>4 DEF R!Next, Releases
<1>5. CASE Shutdown \/ Reboot
  BY <1>5, ProcessDurInv DEF R!Next, R!Withdraw
<1> HIDE DEF AcceptedRelease, ServedRelease, Release
<1> QED BY <1>2, <1>3, <1>4, <1>5, KeptRelease, BesideKept, CallsDurInv, SaveFailsKept
        DEF Next, Steps

\* Clients are served by the release a restart would bring back, or by none.
THEOREM Refinement ==
  ASSUME SyncDirFails = FALSE PROVE Spec => ImplementsRelease
<1>1. Init => R!Init
  BY DEF Init, R!Init
<1>2. TypeInv /\ DurInv /\ [Next]_vars =>
        [R!Next]_<<[rev |-> disk.rev, cfg |-> disk.cfg],
                   IF proxy = None THEN NoRelease ELSE [rev |-> active.rev, cfg |-> cfg]>>
  BY ReleaseStep DEF AcceptedRelease, ServedRelease, Release
<1> QED BY <1>1, <1>2, InitDurInv, StepDurInv, TypesKept, PTL DEF Spec, ImplementsRelease, R!Spec

-----------------------------------------------------------------------------
(* Installations and retired instances.                                     *)

\* An operation before its cutover, with a candidate started, and after it.
Before == {"stop", "prepare", "start", "ready", "reject", "publish", "abort"}
Tried  == {"ready", "reject", "publish", "abort"}
After  == {"commit", "drain", "clean", "done"}

\* The instances that kill-draining stops now, or would on request.
Retired == {draining[g] : g \in Gens} \ {None}
Marked  == killing \cup Retired

\* Generations are numbered; the active one is not a retired one.
Numbered ==
    /\ active.gen = 0 => active.inst = None
    /\ active.gen <= seq
    /\ \A g \in Gens : draining[g] # None => g <= seq /\ g # active.gen

\* Until its cutover, an operation is about to replace what is active,
PriorIsActive == pc \in Before => op.priorGen = active.gen /\ op.prior = active.inst

\* whose installation only a recovery may use again;
Recovering ==
    pc \in Before /\ op.kind = "recover" =>
        active.gen # 0 /\ (op.reuse # None => op.reuse = bundle[op.prior])

\* any other one uses again only what the last boot left, while nothing is retired.
Booting ==
    /\ restore.on => Marked = {} /\ (active.gen # 0 => pc = "commit")
    /\ pc \in Before /\ op.kind # "recover" /\ op.reuse # None => restore.on

\* A candidate is neither active nor retired, and its installation, if fresh,
\* belongs to no other instance.
CandidateApart ==
    pc \in Tried =>
        /\ op.cand \in Instances /\ op.cand \notin Marked /\ op.cand # active.inst
        /\ op.reuse # None => bundle[op.cand] = op.reuse
        /\ op.reuse = None => \A i \in Marked \cup {active.inst} :
                                i # None => bundle[i] # bundle[op.cand]

\* After the cutover of a deployment its old generation retires only what it replaced.
Retirement ==
    pc \in After =>
        /\ active.gen # 0 /\ active.inst = op.cand
        /\ op.kind # "recover" =>
             \A g \in Gens : g = op.priorGen => draining[g] \in {None, op.prior}

FilesInv == OneWriterPerBundle /\ RunningHasFiles
OrderInv == Numbered /\ PriorIsActive /\ Recovering /\ Booting /\ CandidateApart /\ Retirement
KillInv  == FilesInv /\ OrderInv /\ KillSparesActive /\ RetiredReachable

-----------------------------------------------------------------------------
(* Most steps only lose something: an instance exits, a mark or a file goes, *)
(* an operation proceeds or ends.                                            *)

\* Instances only exit, and no running one loses its files.
Stops ==
    /\ bundle' = bundle
    /\ \A i \in Instances : inst'[i] \in {inst[i], "exited"}
    /\ \A i \in Instances : Running(i)' /\ bundle[i] \in bundles => bundle[i] \in bundles'

\* The operation proceeds as what it is, gives up its saved installation or ends.
Proceeds ==
    /\ pc' \in Before => pc \in Before /\ op'.kind = op.kind /\ op'.prior = op.prior
                         /\ op'.priorGen = op.priorGen /\ op'.reuse \in {op.reuse, None}
    /\ pc' \in Tried => pc \in Tried /\ op'.cand = op.cand /\ op'.reuse = op.reuse
    /\ pc' \in After => pc \in After /\ op'.kind = op.kind /\ op'.prior = op.prior
                        /\ op'.priorGen = op.priorGen /\ op'.cand = op.cand

\* What is left to resume stays until a deployment is committed.
Resumes ==
    /\ restore'.on => restore.on /\ (pc = "commit" => pc' = "commit")
    /\ restore.on /\ pc' \in Before => restore'.on

\* Marks go, those of running instances excepted, and none comes.
Forgets ==
    /\ killing' \subseteq Marked
    /\ \A g \in Gens : draining'[g] # draining[g] =>
                         draining'[g] = None /\ inst'[draining[g]] # "released"
    /\ up' = "up" => up = "up"

Wanes ==
    /\ Stops /\ Proceeds /\ Resumes /\ Forgets
    /\ active'.gen = active.gen /\ active'.inst = active.inst
    /\ seq <= seq'

\* No mark comes.
LEMMA ForgetsMarked == ASSUME TypeInv, Forgets PROVE Marked' \subseteq Marked
<1>1. \A g \in Gens : draining'[g] \in {draining[g], None}
  BY DEF Forgets
<1>2. Retired' \subseteq Retired
  BY <1>1 DEF Retired
<1> QED BY <1>2 DEF Forgets, Marked

\* A step that only loses something keeps writers apart and their files in place,
LEMMA StopsFilesInv == ASSUME TypeInv, FilesInv, Stops PROVE FilesInv'
  BY DEF FilesInv, OneWriterPerBundle, RunningHasFiles, Stops, Running

\* and the rest of the invariant.
LEMMA WanesKillInv == ASSUME TypeInv, KillInv, Wanes, seq' \in Nat PROVE KillInv'
<1> USE DEF KillInv, OrderInv, Wanes
<1>0. /\ Marked' \subseteq Marked /\ bundle' = bundle
      /\ active'.gen = active.gen /\ active'.inst = active.inst
      /\ \A g \in Gens : draining'[g] \in {draining[g], None}
      /\ seq \in Nat /\ active.gen \in Nat /\ active.inst \in Instances \cup {None}
      /\ draining \in [Gens -> Instances \cup {None}]
  BY ForgetsMarked DEF Stops, Forgets, TypeInv, TypeOK, Actives
<1>1. FilesInv'
  BY StopsFilesInv
<1>2. Numbered'
  BY <1>0 DEF Numbered
<1>3. PriorIsActive'
  BY <1>0 DEF PriorIsActive, Proceeds
<1>4. Recovering'
  BY <1>0 DEF Recovering, Proceeds
<1>5. Booting'
  <2>1. restore'.on => Marked' = {} /\ (active'.gen # 0 => pc' = "commit")
    BY <1>0 DEF Booting, Resumes
  <2>2. pc' \in Before /\ op'.kind # "recover" /\ op'.reuse # None => restore'.on
    BY DEF Booting, Proceeds, Resumes
  <2> QED BY <2>1, <2>2 DEF Booting
<1>6. CandidateApart'
  BY <1>0 DEF CandidateApart, Proceeds
<1>7. Retirement'
  BY <1>0 DEF Retirement, Proceeds
<1>8. KillSparesActive'
  BY <1>0 DEF KillSparesActive, Marked, Retired
<1>9. RetiredReachable'
  <2> SUFFICES ASSUME NEW i \in Instances, up' = "up", inst'[i] = "released", i # active'.inst
               PROVE  \E g \in Gens : draining'[g] = i
    BY DEF RetiredReachable
  <2>1. PICK g \in Gens : draining[g] = i
    BY <1>0 DEF RetiredReachable, Stops, Forgets
  <2> QED BY <2>1 DEF Forgets
<1> QED BY <1>1, <1>2, <1>3, <1>4, <1>5, <1>6, <1>7, <1>8, <1>9

-----------------------------------------------------------------------------
(* The steps that only lose something.                                       *)

\* What CleanUp stops and removes, and how an operation fails or falls back.
LEMMA PiecesWane ==
  ASSUME TypeInv
  PROVE  /\ \A i \in Instances \cup {None}, r \in BOOLEAN :
              CleanUp(i, r) /\ bundle' = bundle => Stops
         /\ FallBackOrFail /\ pc \in {"start", "reject"} =>
              Proceeds /\ restore'.on = restore.on /\ pc' \in {"idle", "prepare"}
         /\ Fail => Proceeds /\ pc' = "idle"
<1> USE DEF TypeInv, TypeOK
<1>1. ASSUME NEW i \in Instances \cup {None}, NEW r \in BOOLEAN, CleanUp(i, r),
             bundle' = bundle
      PROVE  Stops
  <2>1. \A j \in Instances : inst'[j] \in {inst[j], "exited"}
    BY <1>1 DEF CleanUp
  <2>2. CASE UNCHANGED bundles
    BY <2>1, <2>2, <1>1 DEF Stops
  <2>3. CASE inst' = [inst EXCEPT ![i] = "exited"] /\ bundles' = Without(bundle[i], {i})
    <3>1. ASSUME NEW j \in Instances, Running(j)', bundle[j] \in bundles
          PROVE  bundle[j] \in bundles'
      <4>1. Running(j) /\ j \notin {i}
        BY <2>3, <3>1 DEF Running
      <4> QED BY <2>3, <3>1, <4>1 DEF Without
    <3> QED BY <2>1, <3>1, <1>1 DEF Stops
  <2> QED BY <1>1, <2>2, <2>3 DEF CleanUp
<1>2. Fail => Proceeds /\ pc' = "idle"
  BY DEF Fail, Finish, Proceeds, Before, Tried, After
<1>3. ASSUME FallBackOrFail, pc \in {"start", "reject"}
      PROVE  Proceeds /\ restore'.on = restore.on /\ pc' \in {"idle", "prepare"}
  <2>1. restore'.on = restore.on
    BY <1>3 DEF FallBackOrFail, Restores
  <2>2. CASE Fail
    BY <1>2, <2>1, <2>2
  <2>3. CASE pc' = "prepare" /\ op' = [op EXCEPT !.reuse = None, !.cand = None]
    <3>1. op'.kind = op.kind /\ op'.prior = op.prior /\ op'.priorGen = op.priorGen
          /\ op'.reuse = None
      BY <2>3 DEF Operations
    <3> QED BY <1>3, <2>1, <2>3, <3>1 DEF Proceeds, Before, Tried, After
  <2> QED BY <1>3, <2>2, <2>3 DEF FallBackOrFail
<1> QED BY <1>1, <1>2, <1>3

\* The steps of an operation that start and publish nothing.
LEMMA OperationWanes ==
  ASSUME TypeInv, KillInv,
         \/ StopPrior \/ StopPriorFails \/ Prepare \/ PrepareFails \/ StartFails
         \/ Ready \/ ReadyFails \/ Reject \/ Refuse \/ SaveFails \/ Abort
         \/ Commit \/ Drained \/ CleanPrior \/ Done
  PROVE  Wanes
<1> USE DEF Wanes, Stops, Resumes, Forgets, dataVars, routing, life, Before, After, Tried
<1>0. /\ seq \in Nat /\ active \in Actives /\ restore \in Restores
      /\ inst \in [Instances -> {"none", "candidate", "released", "exited"}]
      /\ op.cand \in Instances \cup {None} /\ op.prior \in Instances \cup {None}
      /\ killing \subseteq Marked
  BY DEF TypeInv, TypeOK, Operations, Marked
<1>1. CASE StopPrior
  <2>1. active'.gen = active.gen /\ active'.inst = active.inst
    BY <1>0, <1>1, ActiveWith DEF StopPrior
  <2> QED BY <1>0, <1>1, <2>1 DEF StopPrior, Proceeds, Running
<1>2. CASE StopPriorFails
  BY <1>0, <1>2, PiecesWane DEF StopPriorFails
<1>3. CASE PrepareFails
  BY <1>0, <1>3, PiecesWane DEF PrepareFails
<1>4. CASE Prepare \/ Ready \/ ReadyFails \/ Refuse \/ Drained
  BY <1>0, <1>4 DEF Prepare, Ready, ReadyFails, Refuse, Drained, Proceeds
<1>5. CASE StartFails
  BY <1>0, <1>5, PiecesWane DEF StartFails
<1>6. CASE Reject
  <2>1. Spent \in BOOLEAN
    BY DEF Spent
  <2> QED BY <1>0, <1>6, <2>1, PiecesWane DEF Reject
<1>7. CASE SaveFails
  BY <1>0, <1>7 DEF SaveFails, Proceeds
<1>8. CASE Abort
  <2>1. PICK r \in BOOLEAN : r = (op.reuse = None)
    OBVIOUS
  <2>2. CleanUp(op.cand, r) /\ bundle' = bundle
    BY <1>8, <2>1 DEF Abort
  <2>3. Stops
    BY <1>0, <2>2, PiecesWane
  <2> QED BY <1>0, <1>8, <2>3, PiecesWane DEF Abort
<1>9. CASE Commit
  <2>1. Stops
    <3>1. \A j \in Instances : Running(j) /\ bundle[j] \in bundles => bundle[j] \in bundles'
      BY <1>9 DEF Commit, Without
    <3> QED BY <1>0, <1>9, <3>1 DEF Commit, Running
  <2>2. ~restore'.on
    BY <1>9 DEF Commit, NoRestore
  <2>3. op' = op /\ pc = "commit" /\ pc' \in {"done", "drain"}
    BY <1>9 DEF Commit
  <2>4. Proceeds
    BY <2>3 DEF Proceeds
  <2> QED BY <1>0, <1>9, <2>1, <2>2, <2>4 DEF Commit
<1>10. CASE CleanPrior
  <2>1. Stops
    BY <1>0, <1>10, PiecesWane DEF CleanPrior
  <2> QED BY <1>0, <1>10, <2>1 DEF CleanPrior, Proceeds
<1>11. CASE Done
  <2>1. \A g \in Gens : draining'[g] # draining[g] =>
                          draining'[g] = None /\ inst'[draining[g]] # "released"
    <3> SUFFICES ASSUME NEW g \in Gens, draining'[g] # draining[g]
                 PROVE  draining'[g] = None /\ inst'[draining[g]] # "released"
      OBVIOUS
    <3>1. op.kind # "recover" /\ g = op.priorGen /\ ~Running(op.prior) /\ draining'[g] = None
          /\ inst' = inst /\ pc = "done"
      BY <1>11 DEF Done, Forgetting
    <3>2. draining[g] = op.prior /\ op.prior # None
      BY <3>1 DEF KillInv, OrderInv, Retirement
    <3> QED BY <3>1, <3>2 DEF Running
  <2> QED BY <1>0, <1>11, <2>1 DEF Done, Finish, Proceeds
<1> QED BY <1>1, <1>2, <1>3, <1>4, <1>5, <1>6, <1>7, <1>8, <1>9, <1>10, <1>11

\* Watches, exits, cancellations, kill-draining, the end of the process, and the
\* calls that come to nothing.
LEMMA BesideWanes ==
  ASSUME TypeInv, KillInv,
         \/ Environment \/ (\E g \in Gens : Watches(g)) \/ Terminate \/ ShutdownStops
         \/ (\E plan \in Configs : CommitPolicyFails(plan)) \/ UNCHANGED vars
         \/ BeginReplace(memory) /\ ~(memory = active.gen /\ Running(active.inst))
  PROVE  Wanes
<1> USE DEF Wanes, Stops, Proceeds, Resumes, Forgets, dataVars, routing, opVars, life
<1>0. /\ seq \in Nat /\ op \in Operations
      /\ inst \in [Instances -> {"none", "candidate", "released", "exited"}]
      /\ killing \subseteq Marked /\ killing \subseteq Instances
  BY DEF TypeInv, TypeOK, Marked
<1>1. ASSUME NEW c, op' = [op EXCEPT !.ctx = c]
      PROVE  /\ op'.kind = op.kind /\ op'.prior = op.prior /\ op'.priorGen = op.priorGen
             /\ op'.cand = op.cand /\ op'.reuse = op.reuse
  BY <1>0, <1>1 DEF Operations
<1>2. CASE Interrupt \/ CancelOp \/ Terminate
  <2>1. op'.kind = op.kind /\ op'.prior = op.prior /\ op'.priorGen = op.priorGen
        /\ op'.cand = op.cand /\ op'.reuse = op.reuse /\ pc' = pc
    BY <1>1, <1>2 DEF Interrupt, CancelOp, Terminate
  <2> QED BY <1>0, <1>2, <2>1 DEF Interrupt, CancelOp, Terminate
<1>3. CASE KillDraining
  BY <1>0, <1>3 DEF KillDraining, Marked, Retired
<1>4. ASSUME NEW i \in Instances, InstanceExits(i) \/ Kill(i) PROVE Wanes
  BY <1>0, <1>4 DEF InstanceExits, Kill, Running
<1>5. ASSUME NEW i \in Instances, KillFails(i) PROVE Wanes
  BY <1>0, <1>5 DEF KillFails
<1>6. ASSUME NEW i \in Instances, KillCleans(i) PROVE Wanes
  <2>1. \A j \in Instances : Running(j)' /\ bundle[j] \in bundles => bundle[j] \in bundles'
    BY <1>6 DEF KillCleans, Without, Running
  <2>2. \A g \in Gens : draining'[g] # draining[g] =>
                          draining'[g] = None /\ inst'[draining[g]] # "released"
    BY <1>0, <1>6 DEF KillCleans, Running
  <2>3. UNCHANGED <<inst, bundle, active, seq, restore, pc, op, up>> /\ killing' \subseteq killing
    BY <1>6 DEF KillCleans
  <2>4. Stops
    BY <2>1, <2>3
  <2>5. Forgets
    BY <1>0, <2>2, <2>3
  <2> QED BY <1>0, <2>3, <2>4, <2>5
<1>7. CASE \E g \in Gens : Watches(g)
  BY <1>0, <1>7 DEF Watches, WatchFires, MarkUnhealthy, WatchSends, WatchDrops, MemorySample,
                    MemorySends, MemoryDrops
<1>8. CASE ShutdownStops
  BY <1>0, <1>8 DEF ShutdownStops, NoOp, Before, Tried, After, Running
<1>9. CASE \E plan \in Configs : CommitPolicyFails(plan)
  BY <1>0, <1>9 DEF CommitPolicyFails
<1>10. CASE BeginReplace(memory) /\ ~(memory = active.gen /\ Running(active.inst))
  BY <1>0, <1>10 DEF BeginReplace
<1>11. CASE UNCHANGED vars
  BY <1>0, <1>11 DEF vars
<1> QED BY <1>2, <1>3, <1>4, <1>5, <1>6, <1>7, <1>8, <1>9, <1>10, <1>11 DEF Environment

-----------------------------------------------------------------------------
(* The steps that add something.                                            *)

\* An operation begins with what is active as its prior deployment.
LEMMA BeginsKillInv ==
  ASSUME TypeInv, KillInv,
         \/ \E kind \in {"deploy", "replace"}, rev \in Revisions \cup {None}, plan \in Configs :
              BeginDeploy(kind, rev, plan)
         \/ \E force \in BOOLEAN : BeginRecover(active.gen, force)
  PROVE  KillInv'
<1> USE DEF KillInv, OrderInv, dataVars, routing, life
<1> DEFINE Begun ==
      /\ UNCHANGED <<inst, bundle, bundles, active, seq, draining, killing, restore, up>>
      /\ op'.prior = active.inst /\ op'.priorGen = active.gen
      /\ pc = "idle" /\ pc' \in {"stop", "prepare", "start"}
      /\ op'.kind = "recover" =>
           active.gen # 0 /\ (op'.reuse # None => op'.reuse = bundle[op'.prior])
      /\ op'.kind # "recover" /\ op'.reuse # None => restore.on
<1>1. Begun
  <2>1. ASSUME NEW kind \in {"deploy", "replace"}, NEW rev \in Revisions \cup {None},
               NEW plan \in Configs, BeginDeploy(kind, rev, plan)
        PROVE  Begun
    BY <2>1 DEF BeginDeploy, Idle, Resumable
  <2>2. ASSUME NEW force \in BOOLEAN, BeginRecover(active.gen, force)
        PROVE  Begun
    BY <2>2 DEF BeginRecover, Idle
  <2> QED BY <2>1, <2>2
<1>2. FilesInv'
  BY <1>1 DEF FilesInv, OneWriterPerBundle, RunningHasFiles, Running
<1>3. Numbered' /\ PriorIsActive' /\ Recovering'
  BY <1>1 DEF Numbered, PriorIsActive, Recovering
<1>4. Marked' = Marked
  BY <1>1 DEF Marked, Retired
<1>5. Booting'
  <2>1. restore.on => active.gen = 0
    BY <1>1 DEF Booting
  <2> QED BY <1>1, <1>4, <2>1 DEF Booting
<1>6. CandidateApart' /\ Retirement'
  BY <1>1 DEF CandidateApart, Retirement, Tried, After
<1>7. KillSparesActive' /\ RetiredReachable'
  BY <1>1, <1>4 DEF KillSparesActive, RetiredReachable, Marked, Retired
<1> QED BY <1>2, <1>3, <1>5, <1>6, <1>7

\* A policy gives the active instance a new generation.
LEMMA PolicyKillInv ==
  ASSUME TypeInv, KillInv, NEW plan \in Configs, CommitPolicy(plan)
  PROVE  KillInv'
<1> USE DEF KillInv, OrderInv, life
<1>1. /\ UNCHANGED <<inst, bundle, bundles, draining, killing, restore, up, pc, op>>
      /\ active.gen # 0 /\ pc = "idle" /\ seq \in Nat /\ seq' = seq + 1
  BY DEF CommitPolicy, Idle, TypeInv, TypeOK
<1>2. active'.gen = seq + 1 /\ active'.inst = active.inst
  BY ActiveWith DEF CommitPolicy, TypeInv, TypeOK
<1>3. Marked' = Marked
  BY <1>1 DEF Marked, Retired
<1>4. FilesInv'
  BY <1>1 DEF FilesInv, OneWriterPerBundle, RunningHasFiles, Running
<1>5. Numbered'
  BY <1>1, <1>2 DEF Numbered
<1>6. PriorIsActive' /\ Recovering' /\ CandidateApart' /\ Retirement'
  BY <1>1 DEF PriorIsActive, Recovering, CandidateApart, Retirement, Before, Tried, After
<1>7. Booting'
  BY <1>1, <1>3 DEF Booting, Before
<1>8. KillSparesActive' /\ RetiredReachable'
  BY <1>1, <1>2 DEF KillSparesActive, RetiredReachable
<1> QED BY <1>4, <1>5, <1>6, <1>7, <1>8

\* A candidate is started under an identity that nothing names, on files of its
\* own or on an installation that nobody uses.
LEMMA StartKillInv ==
  ASSUME TypeInv, KillInv, StartFresh \/ StartReuse
  PROVE  KillInv'
<1> USE DEF KillInv, OrderInv, routing, life
<1>1. PICK i \in Instances :
        /\ Available(i) /\ inst' = [inst EXCEPT ![i] = "candidate"]
        /\ bundle' = [bundle EXCEPT ![i] = IF op.reuse = None THEN i ELSE op.reuse]
        /\ op' = [op EXCEPT !.cand = i]
        /\ IF op.reuse = None THEN bundles' = bundles \cup {i}
                              ELSE bundles' = bundles /\ op.reuse \in bundles /\ Unused(op.reuse)
  BY DEF StartFresh, StartReuse
<1>2. /\ UNCHANGED <<active, seq, draining, killing, restore, up>>
      /\ pc = "start" /\ pc' = "ready"
  BY DEF StartFresh, StartReuse
<1>3. /\ op'.kind = op.kind /\ op'.prior = op.prior /\ op'.priorGen = op.priorGen
      /\ op'.cand = i /\ op'.reuse = op.reuse
  BY <1>1 DEF TypeInv, TypeOK, Operations
<1>4. /\ ~Running(i) /\ i \notin bundles /\ i # active.inst /\ i # op.prior /\ i \notin Marked
      /\ \A j \in Instances : Running(j) \/ j \in Marked \cup {active.inst} => bundle[j] # i
  BY <1>1 DEF Available, Held, Marked, Retired
<1>5. Marked' = Marked /\ Marked \subseteq Instances /\ active.inst \in Instances \cup {None}
  BY <1>2 DEF Marked, Retired, TypeInv, TypeOK, Actives
<1>6. /\ inst \in [Instances -> {"none", "candidate", "released", "exited"}]
      /\ bundle \in [Instances -> Instances \cup {None}]
      /\ op.prior \in Instances \cup {None}
  BY DEF TypeInv, TypeOK, Operations
<1>7. /\ \A j \in Instances \ {i} : bundle'[j] = bundle[j] /\ inst'[j] = inst[j]
      /\ bundle'[i] = (IF op.reuse = None THEN i ELSE op.reuse) /\ inst'[i] = "candidate"
  BY <1>1, <1>6
<1>8. FilesInv'
  <2>1. \A j \in Instances \ {i} : Running(j)' => Running(j) /\ bundle'[j] = bundle[j]
                                                  /\ bundle[j] # bundle'[i]
    BY <1>1, <1>4, <1>7 DEF Running, Unused
  <2>2. \A j \in Instances : Running(j)' => bundle'[j] \in bundles'
    BY <1>1, <1>7, <2>1 DEF FilesInv, RunningHasFiles
  <2>3. \A j, k \in Instances : Running(j)' /\ Running(k)' /\ bundle'[j] = bundle'[k] => j = k
    BY <1>7, <2>1 DEF FilesInv, OneWriterPerBundle
  <2> QED BY <2>2, <2>3 DEF FilesInv, OneWriterPerBundle, RunningHasFiles
<1>9. Numbered' /\ PriorIsActive'
  BY <1>2, <1>3 DEF Numbered, PriorIsActive, Before
<1>10. Recovering'
  <2>1. bundle'[op.prior] = bundle[op.prior] \/ op.prior = None
    BY <1>4, <1>6, <1>7
  <2>2. active.gen # 0 => op.prior # None
    BY <1>2 DEF PriorIsActive, Before, TypeInv, ActiveExists
  <2> QED BY <1>2, <1>3, <2>1, <2>2 DEF Recovering, Before
<1>11. Booting'
  BY <1>2, <1>3, <1>5 DEF Booting, Before
<1>12. CandidateApart'
  <2>1. op.reuse = None => \A j \in Marked \cup {active.inst} : j # None => bundle'[j] # i
    BY <1>4, <1>5, <1>7
  <2> QED BY <1>2, <1>3, <1>4, <1>5, <1>7, <2>1 DEF CandidateApart
<1>13. Retirement'
  BY <1>2 DEF Retirement, After
<1>14. KillSparesActive'
  <2>1. active.gen # 0 => bundle'[active.inst] = bundle[active.inst]
    BY <1>4, <1>7 DEF TypeInv, ActiveExists
  <2>2. \A j \in Marked : bundle'[j] = bundle[j]
    BY <1>4, <1>5, <1>7
  <2> QED BY <1>2, <1>5, <2>1, <2>2 DEF KillSparesActive, Marked, Retired
<1>15. RetiredReachable'
  BY <1>2, <1>7 DEF RetiredReachable
<1> QED BY <1>8, <1>9, <1>10, <1>11, <1>12, <1>13, <1>14, <1>15

\* The cutover: what was active is retired if it still runs, and never runs on
\* the installation of what replaces it.
LEMMA PublishKillInv ==
  ASSUME TypeInv, KillInv, Publish PROVE KillInv'
<1> USE DEF KillInv, OrderInv
<1>1. /\ pc = "publish" /\ Running(op.cand) /\ op.cand \in Instances
      /\ active'.gen = seq + 1 /\ active'.inst = op.cand /\ seq' = seq + 1
      /\ draining' = Retiring /\ inst' = [inst EXCEPT ![op.cand] = "released"]
      /\ pc' = (IF op.kind # "recover" THEN "commit"
                ELSE IF op.reuse = None THEN "clean" ELSE "done")
      /\ UNCHANGED <<bundle, bundles, restore, op, killing, up>>
  BY DEF Publish, Overtaken, Running, life, TypeInv, TypeOK, Operations
<1>2. /\ seq \in Nat /\ active.gen \in 0..MaxSeq /\ active.inst \in Instances \cup {None}
      /\ inst \in [Instances -> {"none", "candidate", "released", "exited"}]
      /\ draining \in [Gens -> Instances \cup {None}] /\ killing \subseteq Instances
      /\ active.gen # 0 => active.inst \in Instances
  BY DEF TypeInv, TypeOK, ActiveExists, Actives
<1>3. /\ op.cand \notin Marked /\ op.cand # active.inst
      /\ op.reuse # None => bundle[op.cand] = op.reuse
      /\ op.reuse = None => \A i \in Marked \cup {active.inst} :
                              i # None => bundle[i] # bundle[op.cand]
  BY <1>1 DEF CandidateApart, Tried
<1>4. \A g \in Gens : draining'[g] = IF g = active.gen /\ Running(active.inst)
                                     THEN active.inst ELSE draining[g]
  BY <1>1 DEF Retiring
<1>5. Marked' \subseteq Marked \cup (IF Running(active.inst) THEN {active.inst} ELSE {})
  BY <1>1, <1>4 DEF Marked, Retired
<1>6. op.priorGen = active.gen /\ op.prior = active.inst
  BY <1>1 DEF PriorIsActive, Before
<1>7. FilesInv'
  <2>1. \A i \in Instances : Running(i)' <=> Running(i)
    BY <1>1, <1>2 DEF Running
  <2> QED BY <1>1, <2>1 DEF FilesInv, OneWriterPerBundle, RunningHasFiles
<1>8. Numbered'
  <2>1. \A g \in Gens : draining'[g] # None => g <= seq
    BY <1>2, <1>4 DEF Numbered
  <2> QED BY <1>1, <1>2, <2>1 DEF Numbered
<1>9. PriorIsActive' /\ Recovering' /\ CandidateApart'
  BY <1>1 DEF PriorIsActive, Recovering, CandidateApart, Before, Tried
<1>10. Booting'
  <2>1. restore.on => active.inst = None /\ op.kind # "recover" /\ Marked = {}
    BY <1>1 DEF Booting, Numbered, Recovering, Before
  <2>2. restore.on => Marked' = {}
    BY <1>5, <2>1 DEF Running
  <2> QED BY <1>1, <2>1, <2>2 DEF Booting, Before
<1>11. Retirement'
  <2>1. \A g \in Gens : g = op.priorGen => draining'[g] \in {None, op.prior}
    BY <1>4, <1>6 DEF Numbered
  <2> QED BY <1>1, <1>2, <2>1 DEF Retirement
<1>12. \A i \in Marked' : i # op.cand /\ bundle[i] # bundle[op.cand]
  <2>1. Running(active.inst) => bundle[active.inst] # bundle[op.cand] /\ active.inst # op.cand
    BY <1>1, <1>2, <1>3 DEF FilesInv, OneWriterPerBundle, Running
  <2>2. ASSUME NEW i \in Marked PROVE bundle[i] # bundle[op.cand]
    <3>1. i # None
      BY <1>2 DEF Marked, Retired
    <3>2. CASE op.reuse = None
      BY <1>3, <3>1, <3>2
    <3>3. CASE op.reuse # None
      <4>1. op.kind = "recover"
        BY <1>1, <3>3 DEF Booting, Before
      <4>2. active.gen # 0 /\ bundle[op.cand] = bundle[active.inst]
        BY <1>1, <1>3, <1>6, <3>3, <4>1 DEF Recovering, Before
      <4> QED BY <4>2 DEF KillSparesActive, Marked, Retired
    <3> QED BY <3>2, <3>3
  <2> QED BY <1>3, <1>5, <2>1, <2>2
<1>13. KillSparesActive'
  BY <1>1, <1>12 DEF KillSparesActive, Marked, Retired
<1>14. RetiredReachable'
  <2> SUFFICES ASSUME NEW i \in Instances, up = "up", inst'[i] = "released", i # op.cand
               PROVE  \E g \in Gens : draining'[g] = i
    BY <1>1 DEF RetiredReachable
  <2>1. inst[i] = "released"
    BY <1>1, <1>2
  <2>2. CASE i = active.inst
    <3>1. active.gen \in Gens /\ Running(active.inst)
      BY <1>2, <2>1, <2>2 DEF Numbered, Running
    <3> QED BY <1>4, <2>2, <3>1
  <2>3. CASE i # active.inst
    <3>1. PICK g \in Gens : draining[g] = i
      BY <2>1, <2>3 DEF RetiredReachable
    <3>2. g # active.gen
      BY <3>1 DEF Numbered
    <3> QED BY <1>4, <3>1, <3>2
  <2> QED BY <2>2, <2>3
<1> QED BY <1>7, <1>8, <1>9, <1>10, <1>11, <1>13, <1>14

\* The end of a process leaves nothing active, its start nothing running.
LEMMA ProcessKillInv ==
  ASSUME TypeInv, KillInv, Shutdown \/ Reboot PROVE KillInv'
<1> USE DEF KillInv, FilesInv, OneWriterPerBundle, RunningHasFiles, Running, OrderInv, Numbered,
            PriorIsActive, Recovering, Booting, CandidateApart, Retirement, KillSparesActive,
            RetiredReachable, NoActive, Before, Tried, After
<1>1. CASE Shutdown
  <2>1. /\ UNCHANGED <<inst, bundle, bundles, seq, draining, restore, killing, up>>
        /\ active'.gen = 0 /\ active'.inst = None
        /\ pc' = "shutdown" /\ pc = "idle" /\ up = "stopping" /\ seq \in Nat
    BY <1>1 DEF Shutdown, dataVars, life, TypeInv, TypeOK
  <2>2. Marked' = Marked
    BY <2>1 DEF Marked, Retired
  <2>3. Numbered'
    BY <2>1
  <2>4. FilesInv'
    BY <2>1
  <2> QED BY <2>1, <2>2, <2>3, <2>4
<1>2. CASE Reboot
  <2>1. \A i \in Instances : inst'[i] \in {"none", "exited"}
    BY <1>2 DEF Reboot
  <2>2. Marked' = {}
    BY <1>2 DEF Reboot, Marked, Retired
  <2> QED BY <1>2, <2>1, <2>2 DEF Reboot
<1> QED BY <1>1, <1>2

\* Nothing runs and nothing is retired at first.
LEMMA InitKillInv == Init => KillInv
<1> SUFFICES ASSUME Init PROVE KillInv
  OBVIOUS
<1>1. Marked = {}
  BY DEF Init, Marked, Retired
<1> QED BY <1>1 DEF Init, KillInv, FilesInv, OneWriterPerBundle, RunningHasFiles, Running, OrderInv,
            Numbered, PriorIsActive, Recovering, Booting, CandidateApart, Retirement,
            KillSparesActive, RetiredReachable, NoActive, Before, Tried, After

\* Every step of the engine keeps the invariant.
LEMMA StepKillInv ==
  ASSUME TypeInv, TypeInv', KillInv, [Next]_vars PROVE KillInv'
<1>1. Wanes => KillInv'
  BY WanesKillInv DEF TypeInv, TypeOK
<1>2. CASE Calls
  <2>1. ASSUME BeginReplace(memory) PROVE KillInv'
    <3>1. CASE memory = active.gen /\ Running(active.inst)
      BY <2>1, <3>1, BeginsKillInv DEF BeginReplace, TypeInv, TypeOK, Actives
    <3> QED BY <1>1, <2>1, <3>1, BesideWanes
  <2> QED BY <1>1, <1>2, <2>1, BeginsKillInv, PolicyKillInv, BesideWanes DEF Calls
<1>3. CASE Steps
  BY <1>1, <1>3, OperationWanes, StartKillInv, PublishKillInv DEF Steps
<1> QED BY <1>1, <1>2, <1>3, BesideWanes, ProcessKillInv DEF Next

\* The inductive invariant.
THEOREM KillInvKept == Spec => []KillInv
  BY InitKillInv, StepKillInv, TypesKept, PTL DEF Spec

\* No two running instances write to one installation.
THEOREM Writers == Spec => []OneWriterPerBundle
<1>1. KillInv => OneWriterPerBundle
  BY DEF KillInv, FilesInv
<1> QED BY <1>1, KillInvKept, PTL

\* No cleanup, by whomever, removes the files under a running instance.
THEOREM Files == Spec => []RunningHasFiles
<1>1. KillInv => RunningHasFiles
  BY DEF KillInv, FilesInv
<1> QED BY <1>1, KillInvKept, PTL

\* A replaced instance that still runs can be reached by kill-draining.
THEOREM Reachable == Spec => []RetiredReachable
<1>1. KillInv => RetiredReachable
  BY DEF KillInv
<1> QED BY <1>1, KillInvKept, PTL

\* kill-draining never holds the active instance or its installation.
THEOREM Spared == Spec => []KillSparesActive
<1>1. KillInv => KillSparesActive
  BY DEF KillInv
<1> QED BY <1>1, KillInvKept, PTL

-----------------------------------------------------------------------------
(* The installation that the next boot resumes, provided that a save which  *)
(* fails leaves the old record on disk.                                     *)

\* Something was accepted since the last boot.
InForce == active.gen # 0 \/ ~restore.on

\* Nothing that may be removed is the recorded installation: not that of a
\* retired instance, of a fresh candidate, or of what a deployment replaced.
MarkedAway == InForce => \A i \in Marked : bundle[i] # disk.sandbox
CandidateAway == pc \in Tried /\ op.reuse = None => bundle[op.cand] # disk.sandbox
PriorAway ==
    pc \in {"commit", "drain", "clean"} =>
        /\ pc = "commit" \/ op.prior # None
        /\ op.prior # None => bundle[op.prior] # disk.sandbox

KeepInv == DurableInstallationKept /\ MarkedAway /\ CandidateAway /\ PriorAway

\* Neither the record nor the installation it names goes.
Keeps ==
    /\ disk' = disk
    /\ InForce' => InForce /\ (disk.sandbox \in bundles => disk.sandbox \in bundles')
    /\ pc' \in {"commit", "drain", "clean"} =>
         pc \in {"commit", "drain", "clean"} /\ (pc' = "commit" \/ op.prior # None)

\* A step that loses only other things keeps the invariant.
LEMMA KeepsKeepInv ==
  ASSUME TypeInv, KeepInv, Wanes, Keeps PROVE KeepInv'
<1> USE DEF KeepInv
<1>1. Marked' \subseteq Marked /\ bundle' = bundle /\ disk' = disk
  BY ForgetsMarked DEF Wanes, Stops, Keeps
<1>2. DurableInstallationKept'
  BY <1>1 DEF DurableInstallationKept, Keeps, InForce
<1>3. MarkedAway'
  BY <1>1 DEF MarkedAway, Keeps
<1>4. CandidateAway'
  BY <1>1 DEF CandidateAway, Wanes, Proceeds
<1>5. PriorAway'
  BY <1>1 DEF PriorAway, Keeps, Wanes, Proceeds, After
<1> QED BY <1>2, <1>3, <1>4, <1>5

\* The installations that the steps of an operation remove are other ones.
LEMMA OperationKeeps ==
  ASSUME SyncDirFails = FALSE, TypeInv, DurInv, KillInv, KeepInv,
         \/ StopPrior \/ StopPriorFails \/ Prepare \/ PrepareFails \/ StartFails
         \/ Ready \/ ReadyFails \/ Reject \/ Refuse \/ SaveFails \/ Abort
         \/ Commit \/ Drained \/ CleanPrior \/ Done
  PROVE  Keeps
<1> USE DEF Keeps, InForce, dataVars, routing
<1>0. active \in Actives
  BY DEF TypeInv, TypeOK
<1>1. CASE StopPrior
  <2>1. active'.gen = active.gen
    BY <1>0, <1>1, ActiveWith DEF StopPrior
  <2> QED BY <1>1, <2>1 DEF StopPrior
<1>2. CASE StopPriorFails \/ PrepareFails
  BY <1>2, PiecesWane DEF StopPriorFails, PrepareFails
<1>3. CASE StartFails
  BY <1>3, PiecesWane DEF StartFails
<1>4. CASE Prepare \/ Ready \/ ReadyFails \/ Refuse
  BY <1>4 DEF Prepare, Ready, ReadyFails, Refuse
<1>5. CASE Drained
  BY <1>5 DEF Drained, KeepInv, PriorAway
<1>6. CASE SaveFails
  BY <1>6 DEF SaveFails, FailedSave
<1>7. CASE Done
  BY <1>7 DEF Done, Finish
<1>8. CASE Reject
  <2>1. pc' \in {"idle", "prepare"} /\ restore'.on = restore.on /\ disk' = disk
        /\ active' = active /\ pc = "reject"
    BY <1>8, PiecesWane DEF Reject
  <2>2. CASE bundles' = bundles
    BY <2>1, <2>2
  <2>3. CASE bundles' = Without(bundle[op.cand], {op.cand}) /\ op.reuse = None
    <3>1. bundle[op.cand] # disk.sandbox
      BY <2>1, <2>3 DEF KeepInv, CandidateAway, Tried
    <3> QED BY <2>1, <2>3, <3>1 DEF Without
  <2>4. CASE op.reuse # None /\ op.kind # "recover"
    <3>1. restore.on /\ active.gen = 0
      BY <2>1, <2>4 DEF KillInv, OrderInv, Booting, Before
    <3> QED BY <2>1, <3>1
  <2> QED BY <1>8, <2>2, <2>3, <2>4 DEF Reject, CleanUp, Spent
<1>9. CASE Abort
  <2>1. pc' = "idle" /\ restore' = restore /\ disk' = disk /\ active' = active /\ pc = "abort"
    BY <1>9, PiecesWane DEF Abort
  <2>2. CASE bundles' = bundles
    BY <2>1, <2>2
  <2>3. CASE bundles' = Without(bundle[op.cand], {op.cand}) /\ op.reuse = None
    <3>1. bundle[op.cand] # disk.sandbox
      BY <2>1, <2>3 DEF KeepInv, CandidateAway, Tried
    <3> QED BY <2>1, <2>3, <3>1 DEF Without
  <2> QED BY <1>9, <2>2, <2>3 DEF Abort, CleanUp
<1>10. CASE Commit
  <2>1. active.gen # 0 /\ disk.sandbox = bundle[op.cand]
    BY <1>10 DEF Commit, KillInv, OrderInv, Retirement, After, DurInv, ActiveIsDurable, Accepted
  <2>2. disk.sandbox \in bundles => disk.sandbox \in bundles'
    BY <1>10, <2>1 DEF Commit, Without
  <2> QED BY <1>10, <2>1, <2>2 DEF Commit
<1>11. CASE CleanPrior
  <2>1. bundle[op.prior] # disk.sandbox
    BY <1>11 DEF CleanPrior, KeepInv, PriorAway
  <2> QED BY <1>11, <2>1 DEF CleanPrior, CleanUp, Without
<1> QED BY <1>1, <1>2, <1>3, <1>4, <1>5, <1>6, <1>7, <1>8, <1>9, <1>10, <1>11

\* Nor does kill-draining, or anything else beside it, remove the recorded one.
LEMMA BesideKeeps ==
  ASSUME SyncDirFails = FALSE, TypeInv, KeepInv,
         \/ Environment \/ (\E g \in Gens : Watches(g)) \/ Terminate \/ ShutdownStops
         \/ (\E plan \in Configs : CommitPolicyFails(plan)) \/ UNCHANGED vars
         \/ BeginReplace(memory) /\ ~(memory = active.gen /\ Running(active.inst))
  PROVE  Keeps
<1> USE DEF Keeps, InForce, dataVars, routing, opVars, life
<1>0. pc \in {"drain", "clean"} => op.prior # None
  BY DEF KeepInv, PriorAway
<1>1. CASE Interrupt \/ CancelOp \/ Terminate \/ KillDraining
  BY <1>0, <1>1 DEF Interrupt, CancelOp, Terminate, KillDraining
<1>2. ASSUME NEW i \in Instances, InstanceExits(i) \/ Kill(i) \/ KillFails(i) PROVE Keeps
  BY <1>0, <1>2 DEF InstanceExits, Kill, KillFails
<1>3. ASSUME NEW i \in Instances, KillCleans(i) PROVE Keeps
  <2>1. InForce => bundle[i] # disk.sandbox
    BY <1>3 DEF KillCleans, KeepInv, MarkedAway, Marked
  <2> QED BY <1>0, <1>3, <2>1 DEF KillCleans, Without
<1>4. CASE \E g \in Gens : Watches(g)
  BY <1>0, <1>4 DEF Watches, WatchFires, MarkUnhealthy, WatchSends, WatchDrops, MemorySample,
                    MemorySends, MemoryDrops
<1>5. CASE ShutdownStops
  BY <1>5 DEF ShutdownStops
<1>6. CASE \E plan \in Configs : CommitPolicyFails(plan)
  BY <1>0, <1>6 DEF CommitPolicyFails, FailedSave
<1>7. CASE BeginReplace(memory) /\ ~(memory = active.gen /\ Running(active.inst))
  BY <1>0, <1>7 DEF BeginReplace
<1>8. CASE UNCHANGED vars
  BY <1>0, <1>8 DEF vars
<1> QED BY <1>1, <1>2, <1>3, <1>4, <1>5, <1>6, <1>7, <1>8 DEF Environment

\* An operation that begins, and a policy, leave the recorded installation as it is.
LEMMA CallsKeepInv ==
  ASSUME TypeInv, DurInv, KeepInv,
         \/ \E kind \in {"deploy", "replace"}, rev \in Revisions \cup {None}, plan \in Configs :
              BeginDeploy(kind, rev, plan)
         \/ \E force \in BOOLEAN : BeginRecover(active.gen, force)
         \/ \E plan \in Configs : CommitPolicy(plan)
  PROVE  KeepInv'
<1> DEFINE RecordKept ==
      /\ UNCHANGED <<bundle, bundles, draining, killing, restore>>
      /\ disk'.sandbox = disk.sandbox /\ (active'.gen # 0 => active.gen # 0)
      /\ pc' \in {"idle", "stop", "prepare", "start"}
<1>1. RecordKept
  <2>1. CASE \E kind \in {"deploy", "replace"}, rev \in Revisions \cup {None}, plan \in Configs :
               BeginDeploy(kind, rev, plan)
    BY <2>1 DEF BeginDeploy, dataVars, routing, life
  <2>2. CASE \E force \in BOOLEAN : BeginRecover(active.gen, force)
    BY <2>2 DEF BeginRecover, dataVars, life
  <2>3. ASSUME NEW plan \in Configs, CommitPolicy(plan) PROVE RecordKept
    BY <2>3 DEF CommitPolicy, Idle, life, DurInv, ActiveIsDurable, Accepted
  <2> QED BY <2>1, <2>2, <2>3
<1>2. Marked' = Marked
  BY <1>1 DEF Marked, Retired
<1> QED BY <1>1, <1>2 DEF KeepInv, DurableInstallationKept, MarkedAway, InForce, CandidateAway,
                          PriorAway, Tried

\* A candidate that is started gets an installation other than the recorded one,
\* unless it is what the last boot left or a recovery may use.
LEMMA StartKeepInv ==
  ASSUME TypeInv, KeepInv, StartFresh \/ StartReuse
  PROVE  KeepInv'
<1>1. PICK i \in Instances :
        /\ Available(i) /\ bundles \subseteq bundles'
        /\ bundle' = [bundle EXCEPT ![i] = IF op.reuse = None THEN i ELSE op.reuse]
        /\ op' = [op EXCEPT !.cand = i]
  BY DEF StartFresh, StartReuse
<1>2. UNCHANGED <<disk, active, draining, killing, restore>> /\ pc' = "ready"
  BY DEF StartFresh, StartReuse, routing, life
<1>3. op'.cand = i /\ op'.reuse = op.reuse
  BY <1>1 DEF TypeInv, TypeOK, Operations
<1>4. i \notin Marked /\ i # disk.sandbox /\ Marked \subseteq Instances /\ Marked' = Marked
  BY <1>1, <1>2 DEF Available, Held, Marked, Retired, TypeInv, TypeOK
<1>5. /\ \A j \in Marked : bundle'[j] = bundle[j]
      /\ op.reuse = None => bundle'[i] = i
  BY <1>1, <1>4 DEF TypeInv, TypeOK
<1> QED BY <1>1, <1>2, <1>3, <1>4, <1>5
        DEF KeepInv, DurableInstallationKept, MarkedAway, InForce, CandidateAway, PriorAway

\* The cutover records the installation of the running candidate, which is not
\* that of any instance it leaves behind.
LEMMA PublishKeepInv ==
  ASSUME TypeInv, KillInv, KillInv', Publish
  PROVE  KeepInv'
<1>1. /\ pc = "publish" /\ Running(op.cand) /\ op.cand \in Instances
      /\ active'.inst = op.cand /\ disk'.sandbox = bundle[op.cand] /\ active'.gen # 0
      /\ pc' \in {"commit", "clean", "done"}
      /\ pc' # "done" /\ op.kind = "recover" => op.reuse = None
      /\ pc' = "clean" => op.kind = "recover"
      /\ UNCHANGED <<bundle, bundles, op>>
  BY DEF Publish, Overtaken, Running, Accepted, TypeInv, TypeOK, Operations
<1>2. bundle[op.cand] \in bundles
  BY <1>1 DEF KillInv, FilesInv, RunningHasFiles
<1>3. MarkedAway'
  BY <1>1 DEF MarkedAway, KillInv, KillSparesActive, Marked, Retired
<1>4. PriorAway'
  <2>1. op.prior = active.inst /\ (op.kind = "recover" => active.gen # 0)
    BY <1>1 DEF KillInv, OrderInv, PriorIsActive, Recovering, Before
  <2>2. op.kind = "recover" => op.prior # None
    BY <2>1 DEF TypeInv, ActiveExists
  <2>3. op.kind # "recover" /\ op.prior # None => op.reuse = None
    BY <1>1, <2>1 DEF KillInv, OrderInv, Booting, Numbered, Before
  <2>4. op.reuse = None /\ op.prior # None => bundle[op.prior] # bundle[op.cand]
    BY <1>1, <2>1 DEF KillInv, OrderInv, CandidateApart, Tried
  <2> QED BY <1>1, <2>2, <2>3, <2>4 DEF PriorAway
<1> QED BY <1>1, <1>2, <1>3, <1>4 DEF KeepInv, DurableInstallationKept, CandidateAway, Tried

\* The end of the process keeps what was accepted; a boot accepts nothing yet.
LEMMA ProcessKeepInv ==
  ASSUME KeepInv, Shutdown \/ Reboot PROVE KeepInv'
<1> USE DEF KeepInv, DurableInstallationKept, MarkedAway, InForce, CandidateAway, PriorAway,
            NoActive, Tried, Marked, Retired
<1>1. CASE Shutdown
  BY <1>1 DEF Shutdown, dataVars, life
<1>2. CASE Reboot
  BY <1>2 DEF Reboot
<1> QED BY <1>1, <1>2

\* The inductive step.
LEMMA StepKeepInv ==
  ASSUME SyncDirFails = FALSE, TypeInv, DurInv, KillInv, KillInv', KeepInv, [Next]_vars
  PROVE  KeepInv'
<1>1. CASE Calls
  <2>1. ASSUME BeginReplace(memory) PROVE KeepInv'
    <3>1. CASE memory = active.gen /\ Running(active.inst)
      BY <2>1, <3>1, CallsKeepInv DEF BeginReplace, TypeInv, TypeOK, Actives
    <3> QED BY <2>1, <3>1, BesideWanes, BesideKeeps, KeepsKeepInv
  <2> QED BY <1>1, <2>1, CallsKeepInv, BesideWanes, BesideKeeps, KeepsKeepInv DEF Calls
<1>2. CASE Steps
  BY <1>2, OperationWanes, OperationKeeps, KeepsKeepInv, StartKeepInv, PublishKeepInv DEF Steps
<1> QED BY <1>1, <1>2, BesideWanes, BesideKeeps, KeepsKeepInv, ProcessKeepInv DEF Next

\* The installation that the next boot resumes is on disk from the moment its
\* deployment is committed, whatever cleans up installations meanwhile.
THEOREM Resumed ==
  ASSUME SyncDirFails = FALSE PROVE Spec => []DurableInstallationKept
<1>1. Init => KeepInv
  BY DEF Init, KeepInv, DurableInstallationKept, MarkedAway, InForce, CandidateAway, PriorAway,
         NoActive, NoRestore, Tried
<1>2. KeepInv => DurableInstallationKept
  BY DEF KeepInv
<1> QED BY <1>1, <1>2, StepKeepInv, InitDurInv, StepDurInv, TypesKept, KillInvKept, PTL DEF Spec

-----------------------------------------------------------------------------
(* Why traffic is withdrawn.                                                *)
Withdrawal == proxy # None /\ proxy' = None

\* Nothing that a controller calls withdraws traffic, but a recovery;
LEMMA CallsTraffic == ASSUME Calls, Withdrawal PROVE pc' = "stop"
<1> USE DEF Withdrawal, routing
<1>1. ASSUME NEW rev \in Revisions, NEW plan \in Configs, BeginDeploy("deploy", rev, plan)
      PROVE  FALSE
  BY <1>1 DEF BeginDeploy
<1>2. ASSUME BeginReplace(memory) PROVE FALSE
  BY <1>2 DEF BeginReplace, BeginDeploy
<1>3. ASSUME NEW plan \in Configs, CommitPolicy(plan) \/ CommitPolicyFails(plan)
      PROVE  FALSE
  BY <1>3 DEF CommitPolicy, CommitPolicyFails
<1>4. ASSUME NEW force \in BOOLEAN, BeginRecover(active.gen, force) PROVE pc' = "stop"
  BY <1>4 DEF BeginRecover
<1> QED BY <1>1, <1>2, <1>3, <1>4 DEF Calls

\* no step of an operation does, and the cutover routes to a running instance;
LEMMA StepsTraffic == ASSUME Steps PROVE ~Withdrawal
<1> USE DEF Withdrawal, routing
<1>1. CASE \/ StopPrior \/ StopPriorFails \/ Prepare \/ PrepareFails \/ StartFresh \/ StartReuse
           \/ StartFails \/ Ready \/ ReadyFails \/ Reject
  BY <1>1 DEF StopPrior, StopPriorFails, Prepare, PrepareFails, StartFresh, StartReuse, StartFails,
              Ready, ReadyFails, Reject
<1>2. CASE Publish
  BY <1>2 DEF Publish, Overtaken, Running
<1>3. CASE Refuse \/ SaveFails \/ Abort \/ Commit \/ Drained \/ CleanPrior \/ Done
  BY <1>3 DEF Refuse, SaveFails, Abort, Commit, Drained, CleanPrior, Done
<1> QED BY <1>1, <1>2, <1>3 DEF Steps

\* a watch does when it is that of the active generation and has failed.
LEMMA WatchesTraffic ==
  ASSUME NEW g \in Gens, Watches(g), Withdrawal PROVE FailedClosed(active.gen)
  BY DEF Withdrawal, routing, FailedClosed, Watches, WatchFires, MarkUnhealthy, WatchSends,
         WatchDrops, MemorySample, MemorySends, MemoryDrops

\* What else withdraws it ends the process.
LEMMA StepTraffic ==
  ASSUME TypeInv, [Next]_vars, Withdrawal
  PROVE  FailedClosed(active.gen) \/ pc' \in {"stop", "shutdown"} \/ boots' # boots
<1>1. CASE Environment
  BY <1>1 DEF Withdrawal, routing, Environment, Interrupt, CancelOp, KillDraining, InstanceExits, Kill,
              KillFails, KillCleans
<1>2. CASE Terminate \/ ShutdownStops \/ UNCHANGED vars
  BY <1>2 DEF Withdrawal, routing, Terminate, ShutdownStops, vars
<1>3. CASE Shutdown
  BY <1>3 DEF Shutdown
<1>4. CASE Reboot
  BY <1>4 DEF Reboot, TypeInv, TypeOK
<1> QED BY <1>1, <1>2, <1>3, <1>4, CallsTraffic, StepsTraffic, WatchesTraffic DEF Next

\* Traffic is withdrawn only because the active generation's own watch failed,
\* to recover it, or at the end of the process.
THEOREM Traffic == Spec => TrafficKept
  BY StepTraffic, TypesKept, PTL DEF Spec, TrafficKept, Withdrawal

-----------------------------------------------------------------------------
(* What may still be accepted.                                              *)

\* The end of the process cancels the operation in progress, and no other begins.
CtxInv ==
    /\ pc = "idle" => op = NoOp
    /\ up # "up" /\ pc \notin {"idle", "shutdown"} => "cancelled" \in op.ctx

\* Every step of an operation keeps what has cancelled it, or ends it.
LEMMA StepsCtx == ASSUME TypeInv, CtxInv, Steps PROVE CtxInv'
<1> USE DEF CtxInv, life
<1>1. pc \notin {"idle", "shutdown"} /\ up' = up
  BY DEF Steps, StopPrior, StopPriorFails, Prepare, PrepareFails, StartFresh, StartReuse, StartFails,
         Ready, ReadyFails, Reject, Publish, Refuse, SaveFails, Abort, Commit, Drained, CleanPrior, Done
<1>2. CASE op' = NoOp /\ pc' = "idle"
  BY <1>2 DEF NoOp
<1>3. CASE op'.ctx = op.ctx /\ pc' \notin {"idle", "shutdown"}
  BY <1>1, <1>3
<1>4. CASE Fail \/ Finish("ok")
  BY <1>2, <1>4 DEF Fail, Finish
<1>5. CASE FallBackOrFail
  <2>1. [op EXCEPT !.reuse = None, !.cand = None].ctx = op.ctx
    BY DEF TypeInv, TypeOK, Operations
  <2> QED BY <1>3, <1>4, <1>5, <2>1 DEF FallBackOrFail
<1>6. CASE StartFresh \/ StartReuse
  <2>1. PICK i \in Instances : op' = [op EXCEPT !.cand = i]
    BY <1>6 DEF StartFresh, StartReuse
  <2>2. op'.ctx = op.ctx
    BY <2>1 DEF TypeInv, TypeOK, Operations
  <2> QED BY <1>3, <1>6, <2>2 DEF StartFresh, StartReuse
<1>7. CASE \/ StopPrior \/ Prepare \/ Ready \/ ReadyFails \/ Publish \/ Refuse \/ SaveFails
           \/ Commit \/ Drained \/ CleanPrior
  BY <1>3, <1>7 DEF StopPrior, Prepare, Ready, ReadyFails, Publish, Refuse, SaveFails, Commit, Drained,
                    CleanPrior
<1>8. CASE StopPriorFails \/ PrepareFails \/ StartFails \/ Reject \/ Abort \/ Done
  BY <1>4, <1>5, <1>8 DEF StopPriorFails, PrepareFails, StartFails, Reject, Abort, Done
<1> QED BY <1>6, <1>7, <1>8 DEF Steps

\* An operation begins with nothing that cancelled it, and only while the process is to go on.
LEMMA CallsCtx == ASSUME CtxInv, Calls PROVE CtxInv'
<1> USE DEF CtxInv, life, opVars, Idle
<1>1. ASSUME NEW kind, NEW rev, NEW plan, BeginDeploy(kind, rev, plan) PROVE CtxInv'
  BY <1>1 DEF BeginDeploy
<1>2. ASSUME BeginReplace(memory) PROVE CtxInv'
  BY <1>1, <1>2 DEF BeginReplace
<1>3. ASSUME NEW plan \in Configs, CommitPolicy(plan) \/ CommitPolicyFails(plan) PROVE CtxInv'
  BY <1>3 DEF CommitPolicy, CommitPolicyFails
<1>4. ASSUME NEW force \in BOOLEAN, BeginRecover(active.gen, force) PROVE CtxInv'
  BY <1>4 DEF BeginRecover
<1> QED BY <1>1, <1>2, <1>3, <1>4 DEF Calls

\* What cancels an operation stays.
LEMMA CancelsCtx == ASSUME TypeInv, CtxInv, Interrupt \/ CancelOp \/ Terminate PROVE CtxInv'
<1>1. \A c : [op EXCEPT !.ctx = c].ctx = c
  BY DEF TypeInv, TypeOK, Operations
<1>2. CASE Interrupt
  BY <1>1, <1>2 DEF Interrupt, CtxInv, life
<1>3. CASE CancelOp
  BY <1>1, <1>3 DEF CancelOp, CtxInv
<1>4. CASE Terminate
  BY <1>1, <1>4 DEF Terminate, CtxInv
<1> QED BY <1>2, <1>3, <1>4

\* The inductive step.
LEMMA StepCtx == ASSUME TypeInv, CtxInv, [Next]_vars PROVE CtxInv'
<1> USE DEF CtxInv, life, opVars
<1>1. CASE Environment
  BY <1>1, CancelsCtx DEF Environment, KillDraining, InstanceExits, Kill, KillFails, KillCleans
<1>2. CASE \E g \in Gens : Watches(g)
  BY <1>2 DEF Watches, WatchFires, MarkUnhealthy, WatchSends, WatchDrops, MemorySample, MemorySends,
              MemoryDrops
<1>3. CASE Shutdown \/ ShutdownStops \/ Reboot
  BY <1>3 DEF Shutdown, ShutdownStops, Reboot, NoOp
<1>4. CASE UNCHANGED vars
  BY <1>4 DEF vars
<1> QED BY <1>1, <1>2, <1>3, <1>4, CallsCtx, StepsCtx, CancelsCtx DEF Next

\* What a step may accept and route to.
Timely ==
    /\ disk' # disk =>
          /\ up = "up" /\ op.ctx = {}
          /\ op.kind = "replace" => op.priorGen = active.gen /\ Running(active.inst)
    /\ proxy' \notin {proxy, None} => Running(proxy')

\* Only the cutover and a change of policy accept anything, and only the former routes.
LEMMA StepTimely == ASSUME TypeInv, CtxInv, [Next]_vars PROVE Timely
<1> USE DEF dataVars, routing
<1>1. CASE Publish \/ SaveFails
  BY <1>1 DEF Publish, SaveFails, Overtaken, CtxInv, Timely
<1>2. ASSUME NEW plan \in Configs, CommitPolicy(plan) \/ CommitPolicyFails(plan) PROVE Timely
  <2>1. op.kind # "replace" /\ op.ctx = {}
    BY <1>2 DEF CommitPolicy, CommitPolicyFails, Idle, CtxInv, NoOp
  <2> QED BY <1>2, <2>1 DEF CommitPolicy, CommitPolicyFails, Idle, Timely
<1>3. CASE disk' = disk /\ proxy' \in {proxy, None}
  BY <1>3 DEF Timely
<1>4. CASE \/ StopPrior \/ StopPriorFails \/ Prepare \/ PrepareFails \/ StartFresh \/ StartReuse
           \/ StartFails \/ Ready \/ ReadyFails \/ Reject
  BY <1>3, <1>4 DEF StopPrior, StopPriorFails, Prepare, PrepareFails, StartFresh, StartReuse,
                    StartFails, Ready, ReadyFails, Reject
<1>5. ASSUME NEW kind, NEW rev, NEW plan, BeginDeploy(kind, rev, plan) PROVE Timely
  BY <1>3, <1>5 DEF BeginDeploy
<1>6. ASSUME BeginReplace(memory) PROVE Timely
  BY <1>3, <1>5, <1>6 DEF BeginReplace
<1>7. ASSUME NEW force \in BOOLEAN, BeginRecover(active.gen, force) PROVE Timely
  BY <1>3, <1>7 DEF BeginRecover
<1>8. CASE Calls
  BY <1>2, <1>5, <1>6, <1>7, <1>8 DEF Calls
<1>9. CASE Shutdown \/ Reboot
  BY <1>3, <1>9 DEF Shutdown, Reboot
<1>10. Kept => Timely
  BY <1>3 DEF Kept
<1> QED BY <1>1, <1>4, <1>8, <1>9, <1>10, BesideKept DEF Next, Steps

\* Nothing is accepted once the supervisor is told to end, the client of the request has
\* gone or the serving revision is lost; a replacement only while what it is to replace
\* still runs; and what begins to receive traffic has not exited before.
THEOREM Timeliness == Spec => NoLateCutover
<1>1. Init => CtxInv
  BY DEF Init, CtxInv, NoOp
<1>2. TypeInv /\ CtxInv /\ [Next]_vars => [Timely]_vars
  BY StepTimely
<1>3. Spec => [][Timely]_vars
  BY <1>1, <1>2, StepCtx, TypesKept, PTL DEF Spec
<1> QED BY <1>3 DEF NoLateCutover, Timely
=============================================================================
