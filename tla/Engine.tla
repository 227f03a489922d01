------------------------------- MODULE Engine -------------------------------
(***************************************************************************)
(* The deployment engine of internal/supervisor: one long operation at a   *)
(* time (a deployment, a memory replacement or a recovery) prepares a      *)
(* candidate, waits for its health and cuts the proxy over to it, while    *)
(* health and memory watches, kill-draining requests, the termination of   *)
(* the supervisor and its crash interleave with every step.                *)
(*                                                                         *)
(* A revision is a Git commit, a configuration a set of accepted settings. *)
(* Requests in flight are the subject of module Proxy, the loop that       *)
(* decides which operation comes next the subject of module Controller.    *)
(***************************************************************************)
EXTENDS Naturals, FiniteSets

CONSTANTS
    Instances,      \* identities of sandboxes (48 random bits in the code)
    Revisions,      \* Git commits
    Broken,         \* the revisions whose application never becomes healthy
    Configs,        \* complete configurations
    InitialConfig,  \* the configuration of the environment, before any apply
    AppKey,         \* AppKey[c]: the part of c that the resume key hashes
    None,           \* nil, and the empty string
    MaxSeq,         \* bound on generations between two boots
    MaxFaults,      \* bound on failures, exits and cancellations in a behaviour
    MaxBoots,       \* bound on restarts of the supervisor
    SyncDirFails    \* whether AtomicWrite may fail after its rename

ASSUME EngineAssumption ==
    /\ InitialConfig \in Configs /\ Broken \subseteq Revisions
    /\ AppKey = [c \in Configs |-> AppKey[c]]
    /\ None \notin Instances \cup Revisions \cup Configs
    /\ MaxSeq \in Nat /\ MaxFaults \in Nat /\ MaxBoots \in Nat
    /\ SyncDirFails \in BOOLEAN

Gens == 1..MaxSeq

VARIABLES
    \* --- sandboxes and the data directory
    inst,         \* inst[i]: "none" | "candidate" | "released" (published) | "exited"
    bundle,       \* bundle[i]: the writable installation i runs on
    bundles,      \* the installations that exist under instances/
    disk,         \* active.json: the accepted revision, settings and sandbox
    \* --- Engine
    active,       \* e.active; generation 0 stands for nil
    cfg,          \* e.Cfg, e.Overrides and the rest of the accepted plan
    proxy,        \* the instance the proxy routes to
    seq,          \* e.seq
    draining,     \* e.draining: generation -> retired instance
    restore,      \* e.Restore
    interrupted,  \* e.interruptedCandidate
    failures,     \* e.Failures, a channel of capacity one
    memory,       \* e.MemoryExceeded, likewise
    \* --- one goroutine per generation for health, one for memory
    watch, watched, cancelled, memWatch,
    \* --- the operation the controller goroutine is in
    pc, op, result,
    \* --- kill-draining requests, the process, and the bounds
    killing, up, faults, boots

dataVars == <<inst, bundle, bundles, disk>>
chans    == <<failures, memory>>
watchers == <<watch, watched, cancelled, memWatch>>
routing  == <<active, cfg, proxy, seq, draining>>
opVars   == <<pc, op, result>>
life     == <<killing, up, faults, boots>>
vars     == <<dataVars, routing, restore, interrupted, chans, watchers, opVars, life>>

-----------------------------------------------------------------------------
States   == [rev : Revisions \cup {None}, cfg : Configs, sandbox : Instances \cup {None}]
Actives  == [gen : 0..MaxSeq, inst : Instances \cup {None},
             rev : Revisions \cup {None}, restarted : BOOLEAN]
Restores == [on : BOOLEAN, usable : BOOLEAN, rev : Revisions \cup {None},
             cfg : Configs, sandbox : Instances \cup {None}]
Keys     == Revisions \X {AppKey[c] : c \in Configs}

\* reuse: the existing installation to start on; prior, priorGen: the
\* deployment that was active when the operation began; ctx: what cancelled it.
Operations == [kind : {"none", "deploy", "replace", "recover"},
               rev : Revisions \cup {None}, plan : Configs, guarded : BOOLEAN,
               cand : Instances \cup {None}, reuse : Instances \cup {None},
               prior : Instances \cup {None}, priorGen : 0..MaxSeq,
               ctx : SUBSET {"cancelled", "serving"}]

NoActive == [gen |-> 0, inst |-> None, rev |-> None, restarted |-> FALSE]
NoOp == [kind |-> "none", rev |-> None, plan |-> InitialConfig, guarded |-> FALSE,
         cand |-> None, reuse |-> None, prior |-> None, priorGen |-> 0, ctx |-> {}]

NoRestore == [on |-> FALSE, usable |-> FALSE, rev |-> None,
              cfg |-> InitialConfig, sandbox |-> None]

Running(i) == i # None /\ inst[i] \in {"candidate", "released"}

\* nextID refuses an identity that still has a directory, and it never draws
\* one that something still names (it is 48 random bits long).
Held == {active.inst, op.cand, op.reuse, op.prior, disk.sandbox, restore.sandbox}
            \cup {draining[g] : g \in Gens} \cup killing
            \cup {watched[g] : g \in {h \in Gens : watch[h] # "off"}}
Available(i) ==
    /\ ~Running(i) /\ i \notin bundles /\ i \notin Held
    /\ \A j \in Instances : (Running(j) \/ j \in Held) => bundle[j] # i

\* Mutant: the installation is removed whoever uses it.
WithoutAsking(b, stopped) == bundles \ {b}

\* RemoveSandbox refuses an installation whose user still runs a process.
\* stopped: instances the same step has just seen exit.
Without(b, stopped) ==
    IF \E j \in Instances \ stopped : Running(j) /\ bundle[j] = b
    THEN bundles ELSE bundles \ {b}

Serving == active.gen # 0 /\ proxy = active.inst /\ Running(active.inst)
ResumeKey(rev, c) == <<rev, AppKey[c]>>

\* e.Restore names an installation of the same release that still exists.
Resumable(rev, c) ==
    /\ restore.on /\ restore.usable
    /\ restore.sandbox \in bundles
    /\ ResumeKey(restore.rev, restore.cfg) = ResumeKey(rev, c)

FailedClosed(g) == g # 0 /\ watch[g] \in {"failing", "marked", "sent"}
Fault == faults < MaxFaults /\ faults' = faults + 1
Idle  == pc = "idle" /\ up = "up"

-----------------------------------------------------------------------------
Init ==
    /\ inst = [i \in Instances |-> "none"]
    /\ bundle = [i \in Instances |-> None]
    /\ bundles = {}
    /\ disk = [rev |-> None, cfg |-> InitialConfig, sandbox |-> None]
    /\ active = NoActive /\ cfg = InitialConfig /\ proxy = None /\ seq = 0
    /\ draining = [g \in Gens |-> None]
    /\ restore = [NoRestore EXCEPT !.on = TRUE]
    /\ interrupted = None
    /\ failures = 0 /\ memory = 0
    /\ watch = [g \in Gens |-> "off"] /\ watched = [g \in Gens |-> None]
    /\ cancelled = {} /\ memWatch = [g \in Gens |-> "off"]
    /\ pc = "idle" /\ op = NoOp /\ result = "none"
    /\ killing = {} /\ up = "up" /\ faults = 0 /\ boots = 0

-----------------------------------------------------------------------------
(* Operations begin when the controller calls the engine; the channels are  *)
(* left to the caller.                                                      *)

\* deployWith up to the choice of the installation to resume. kind "replace" is
\* the call with an expected generation.
BeginDeploy(kind, rev, plan) ==
    /\ Idle /\ seq < MaxSeq
    /\ LET retrying == interrupted = ResumeKey(rev, plan)
           resume   == Resumable(rev, plan)
       IN /\ interrupted' = IF kind = "deploy" /\ ~retrying THEN None ELSE interrupted
          /\ op' = [kind |-> kind, rev |-> rev, plan |-> plan,
                    guarded |-> Serving /\ (kind = "replace" \/ ~retrying),
                    cand |-> None, reuse |-> IF resume THEN restore.sandbox ELSE None,
                    prior |-> active.inst, priorGen |-> active.gen, ctx |-> {}]
          /\ pc' = IF resume THEN "start" ELSE "prepare"
    /\ result' = "none"
    /\ UNCHANGED <<dataVars, routing, restore, watchers, life>>

\* Replace: a stale generation is ignored, an exited instance is an error.
BeginReplace(g) ==
    IF g = active.gen /\ Running(active.inst)
    THEN BeginDeploy("replace", active.rev, cfg)
    ELSE /\ Idle
         /\ result' = IF g = active.gen THEN "failed" ELSE "ok"
         /\ UNCHANGED <<dataVars, routing, restore, interrupted, watchers, pc, op, life>>

Stopping(w, g) == [h \in Gens |-> IF h = g /\ w[h] = "on" THEN "off" ELSE w[h]]

\* recover up to its stop: traffic is withdrawn and the watch cancelled.
BeginRecover(g, force) ==
    /\ Idle /\ seq < MaxSeq
    /\ g # 0 /\ g = active.gen
    /\ proxy' = None
    /\ watch' = Stopping(watch, g) /\ cancelled' = cancelled \cup {g}
    /\ memWatch' = Stopping(memWatch, g)
    /\ pc' = "stop"
    /\ op' = [kind |-> "recover", rev |-> active.rev, plan |-> cfg, guarded |-> FALSE,
              cand |-> None, prior |-> active.inst, priorGen |-> g, ctx |-> {},
              reuse |-> IF force \/ ~active.restarted THEN bundle[active.inst] ELSE None]
    /\ result' = "none"
    /\ UNCHANGED <<dataVars, active, cfg, seq, draining, restore, interrupted, watched, life>>

\* Mutant: the record is rewritten in place.
FailedSaveInPlace(v) == disk' = v

\* What Store.Save leaves on disk when it returns an error: the old record, or,
\* when only the directory's sync failed, the new one.
FailedSave(v) == disk' \in {disk} \cup (IF SyncDirFails THEN {v} ELSE {})

\* Mutant: the record keeps the settings that ran before.
AcceptedStale(rev, c, i) == [rev |-> rev, cfg |-> cfg, sandbox |-> bundle[i]]

\* The record of a release and of the installation that i runs on.
Accepted(rev, c, i) == [rev |-> rev, cfg |-> c, sandbox |-> bundle[i]]

\* commitPolicy: new settings for the same application; the watch is replaced.
\* Controller.apply deploys instead when nothing is active.
CommitPolicy(plan) ==
    /\ Idle /\ seq < MaxSeq
    /\ active.gen # 0 /\ AppKey[plan] = AppKey[cfg]
    /\ disk' = Accepted(active.rev, plan, active.inst)
    /\ cfg' = plan
    /\ seq' = seq + 1
    /\ active' = [active EXCEPT !.gen = seq + 1]
    /\ watch' = [Stopping(watch, active.gen) EXCEPT ![seq + 1] = "on"]
    /\ watched' = [watched EXCEPT ![seq + 1] = active.inst]
    /\ cancelled' = cancelled \cup {active.gen}
    /\ memWatch' = [Stopping(memWatch, active.gen) EXCEPT ![seq + 1] = "on"]
    /\ result' = "ok"
    /\ UNCHANGED <<inst, bundle, bundles, proxy, draining, restore, interrupted, pc, op, life>>

CommitPolicyFails(plan) ==
    /\ Idle /\ seq < MaxSeq /\ Fault
    /\ active.gen # 0 /\ AppKey[plan] = AppKey[cfg]
    /\ FailedSave(Accepted(active.rev, plan, active.inst))
    /\ result' = "failed"
    /\ UNCHANGED <<inst, bundle, bundles, routing, restore, interrupted, watchers, pc, op,
                   killing, up, boots>>

-----------------------------------------------------------------------------
(* The steps of an operation. None of them sends on a channel.              *)

Finish(r) == pc' = "idle" /\ op' = NoOp /\ result' = r

\* Mutant: an interrupted repair may be interrupted again.
FailForgetting == Finish("failed") /\ UNCHANGED interrupted

\* An operation fails: only the loss of the serving revision, and not the
\* cancellation of the request, makes the next attempt of the same release
\* immune to a second interruption.
Fail ==
    /\ Finish("failed")
    /\ interrupted' = IF op.kind = "deploy" /\ op.ctx = {"serving"}
                      THEN ResumeKey(op.rev, op.plan) ELSE interrupted

\* A step may fail of itself (a fault), and must when its context is cancelled.
MayFail == IF op.ctx # {} THEN UNCHANGED faults ELSE Fault

\* recover stops the instance it replaces before it starts another.
StopPrior ==
    /\ pc = "stop"
    /\ inst' = [inst EXCEPT ![op.prior] = "exited"]
    /\ active' = [active EXCEPT !.restarted = TRUE]
    /\ pc' = IF op.reuse = None THEN "prepare" ELSE "start"
    /\ UNCHANGED <<bundle, bundles, disk, cfg, proxy, seq, draining, restore, interrupted,
                   chans, watchers, op, result, life>>

StopPriorFails ==
    /\ pc = "stop" /\ Running(op.prior) /\ Fault
    /\ Fail
    /\ UNCHANGED <<dataVars, routing, restore, chans, watchers, killing, up, boots>>

Prepare ==
    /\ pc = "prepare" /\ op.ctx = {}
    /\ pc' = "start"
    /\ UNCHANGED <<dataVars, routing, restore, interrupted, chans, watchers, op, result, life>>

PrepareFails ==
    /\ pc = "prepare" /\ MayFail
    /\ Fail
    /\ UNCHANGED <<dataVars, routing, restore, chans, watchers, killing, up, boots>>

\* Runtime.Start copies the prepared tree to an installation of its own.
StartFresh ==
    /\ pc = "start" /\ op.reuse = None /\ op.ctx = {}
    /\ \E i \in Instances :
         /\ Available(i)
         /\ inst' = [inst EXCEPT ![i] = "candidate"]
         /\ bundle' = [bundle EXCEPT ![i] = i]
         /\ bundles' = bundles \cup {i}
         /\ op' = [op EXCEPT !.cand = i]
    /\ pc' = "ready"
    /\ UNCHANGED <<disk, routing, restore, interrupted, chans, watchers, result, life>>

\* Mutant: only the active instance is asked.
UnusedByActive(b) == Running(active.inst) => bundle[active.inst] # b

Unused(b) == \A j \in Instances : Running(j) => bundle[j] # b

\* Runtime.Restart runs on an installation that no process of its user is using
\* (AcquireSandboxOwner refuses otherwise). It does not look at the context.
StartReuse ==
    /\ pc = "start" /\ op.reuse # None
    /\ op.reuse \in bundles /\ Unused(op.reuse)
    /\ \E i \in Instances :
         /\ Available(i)
         /\ inst' = [inst EXCEPT ![i] = "candidate"]
         /\ bundle' = [bundle EXCEPT ![i] = op.reuse]
         /\ op' = [op EXCEPT !.cand = i]
    /\ pc' = "ready"
    /\ UNCHANGED <<bundles, disk, routing, restore, interrupted, chans, watchers, result, life>>

\* A saved installation that did not work is not tried again: the resume key is
\* cleared and the loop goes round once more with a fresh one, unless cancelled.
FallBackOrFail ==
    IF op.kind = "recover" \/ op.reuse = None
    THEN Fail /\ UNCHANGED restore
    ELSE /\ restore' = [restore EXCEPT !.usable = FALSE]
         /\ IF op.ctx = {}
            THEN /\ pc' = "prepare"
                 /\ op' = [op EXCEPT !.reuse = None, !.cand = None]
                 /\ UNCHANGED <<interrupted, result>>
            ELSE Fail

StartRefused ==
    \/ op.reuse = None /\ op.ctx # {}
    \/ op.reuse # None /\ (op.reuse \notin bundles \/ ~Unused(op.reuse))
    \/ \A i \in Instances : ~Available(i)

StartFails ==
    /\ pc = "start"
    /\ IF StartRefused THEN UNCHANGED faults ELSE Fault
    /\ FallBackOrFail
    /\ UNCHANGED <<dataVars, routing, chans, watchers, killing, up, boots>>

Ready ==
    /\ pc = "ready" /\ op.ctx = {} /\ Running(op.cand) /\ op.rev \notin Broken
    /\ pc' = "publish"
    /\ UNCHANGED <<dataVars, routing, restore, interrupted, chans, watchers, op, result, life>>

ReadyFails ==
    /\ pc = "ready"
    /\ IF Running(op.cand) /\ op.rev \notin Broken THEN MayFail ELSE UNCHANGED faults
    /\ pc' = "reject"
    /\ UNCHANGED <<dataVars, routing, restore, interrupted, chans, watchers, op, result,
                   killing, up, boots>>

\* cleanup: stop, then remove the installation if asked to. A failed stop
\* defers both.
CleanUp(i, remove) ==
    \/ /\ inst' = [inst EXCEPT ![i] = "exited"]
       /\ bundles' = IF remove THEN Without(bundle[i], {i}) ELSE bundles
       /\ UNCHANGED faults
    \/ /\ Running(i) /\ Fault
       /\ UNCHANGED <<inst, bundles>>

\* Mutant: a recovery is treated like a deployment.
SpentAlways == op.reuse = None \/ op.ctx = {}

\* A deployment keeps a reused installation only if it was cancelled, a recovery
\* always.
Spent == op.reuse = None \/ (op.kind # "recover" /\ op.ctx = {})

\* The candidate did not become healthy.
Reject ==
    /\ pc = "reject"
    /\ CleanUp(op.cand, Spent)
    /\ FallBackOrFail
    /\ UNCHANGED <<bundle, disk, routing, chans, watchers, killing, up, boots>>

\* Mutant: the context of the operation is not looked at again.
OvertakenUnasked ==
    \/ ~Running(op.cand)
    \/ op.kind = "replace" /\ (active.gen # op.priorGen \/ ~Running(active.inst))

\* publishWith checks, under the engine's lock, that nothing overtook it.
Overtaken ==
    \/ op.ctx # {}
    \/ ~Running(op.cand)
    \/ op.kind = "replace" /\ (active.gen # op.priorGen \/ ~Running(active.inst))

Refuse ==
    /\ pc = "publish" /\ Overtaken
    /\ pc' = "abort"
    /\ UNCHANGED <<dataVars, routing, restore, interrupted, chans, watchers, op, result, life>>

\* The generation number is consumed even when the record cannot be saved.
SaveFails ==
    /\ pc = "publish" /\ ~Overtaken /\ Fault
    /\ seq' = seq + 1
    /\ FailedSave(Accepted(op.rev, op.plan, op.cand))
    /\ pc' = "abort"
    /\ UNCHANGED <<inst, bundle, bundles, active, cfg, proxy, draining, restore, interrupted,
                   chans, watchers, op, result, killing, up, boots>>

\* Mutant: an exited instance, whose installation may run again, is retired.
RetiringExited ==
    [h \in Gens |-> IF h = active.gen THEN active.inst ELSE draining[h]]

\* The replaced instance, if it still runs, becomes known to kill-draining.
Retiring ==
    [h \in Gens |-> IF h = active.gen /\ Running(active.inst) THEN active.inst ELSE draining[h]]

\* The cutover: record, settings, active deployment, retirement, route, watches.
Publish ==
    /\ pc = "publish" /\ ~Overtaken
    /\ LET g == seq + 1
       IN /\ seq' = g
          /\ disk' = Accepted(op.rev, op.plan, op.cand)
          /\ cfg' = op.plan
          /\ active' = [gen |-> g, inst |-> op.cand, rev |-> op.rev,
                        restarted |-> op.kind = "recover" /\ op.reuse # None]
          /\ draining' = Retiring
          /\ proxy' = op.cand
          /\ inst' = [inst EXCEPT ![op.cand] = "released"]
          /\ watch' = [Stopping(watch, active.gen) EXCEPT ![g] = "on"]
          /\ watched' = [watched EXCEPT ![g] = op.cand]
          /\ cancelled' = IF active.gen = 0 THEN cancelled ELSE cancelled \cup {active.gen}
          /\ memWatch' = [Stopping(memWatch, active.gen) EXCEPT ![g] = "on"]
    /\ pc' = IF op.kind # "recover" THEN "commit"
             ELSE IF op.reuse = None THEN "clean" ELSE "done"
    /\ UNCHANGED <<bundle, bundles, restore, interrupted, chans, op, result, life>>

Abort ==
    /\ pc = "abort"
    /\ CleanUp(op.cand, op.reuse = None)
    /\ Fail
    /\ UNCHANGED <<bundle, disk, routing, restore, chans, watchers, killing, up, boots>>

\* A committed deployment forgets the interruption and what the last boot saved.
Commit ==
    /\ pc = "commit"
    /\ interrupted' = IF op.kind = "deploy" THEN None ELSE interrupted
    /\ bundles' = IF restore.on /\ restore.sandbox \notin {None, bundle[op.cand]}
                  THEN Without(restore.sandbox, {}) ELSE bundles
    /\ restore' = NoRestore
    /\ pc' = IF op.prior = None THEN "done" ELSE "drain"
    /\ UNCHANGED <<inst, bundle, disk, routing, chans, watchers, op, result, life>>

\* Drain ends: idle, at its deadline, or because kill-draining cancelled it.
Drained ==
    /\ pc = "drain"
    /\ pc' = "clean"
    /\ UNCHANGED <<dataVars, routing, restore, interrupted, chans, watchers, op, result, life>>

CleanPrior ==
    /\ pc = "clean"
    /\ CleanUp(op.prior, TRUE)
    /\ pc' = "done"
    /\ UNCHANGED <<bundle, disk, routing, restore, interrupted, chans, watchers, op, result,
                   killing, up, boots>>

\* Mutant: the instance is forgotten although its stop failed.
ForgettingFailures ==
    [g \in Gens |-> IF op.kind # "recover" /\ g = op.priorGen THEN None ELSE draining[g]]

\* An instance that could not be stopped stays registered for kill-draining.
Forgetting ==
    [g \in Gens |-> IF op.kind # "recover" /\ g = op.priorGen /\ ~Running(op.prior)
                    THEN None ELSE draining[g]]

Done ==
    /\ pc = "done"
    /\ draining' = Forgetting
    /\ Finish("ok")
    /\ UNCHANGED <<dataVars, active, cfg, proxy, seq, restore, interrupted, chans, watchers, life>>

\* The goroutine that guards an operation started while a revision served: it
\* ends the operation when that revision's process or health is lost.
Interrupt ==
    /\ op.guarded /\ op.ctx = {}
    /\ pc \in {"prepare", "start", "ready", "reject", "publish", "abort"}
    /\ ~Running(op.prior) \/ FailedClosed(op.priorGen)
    /\ op' = [op EXCEPT !.ctx = {"serving"}]
    /\ UNCHANGED <<dataVars, routing, restore, interrupted, chans, watchers, pc, result, life>>

\* The client of a control request goes away.
CancelOp ==
    /\ pc # "idle" /\ "cancelled" \notin op.ctx /\ Fault
    /\ op' = [op EXCEPT !.ctx = @ \cup {"cancelled"}]
    /\ UNCHANGED <<dataVars, routing, restore, interrupted, chans, watchers, pc, result,
                   killing, up, boots>>

-----------------------------------------------------------------------------
(* The health and memory watches of each generation, and the instances.     *)

InstanceExits(i) ==
    /\ Running(i) /\ Fault
    /\ inst' = [inst EXCEPT ![i] = "exited"]
    /\ UNCHANGED <<bundle, bundles, disk, routing, restore, interrupted, chans, watchers,
                   opVars, killing, up, boots>>

\* UntilFailure returns, the watch is not cancelled, a.failed is closed.
WatchFires(g) ==
    /\ watch[g] = "on"
    /\ IF Running(watched[g]) THEN Fault ELSE UNCHANGED faults
    /\ watch' = [watch EXCEPT ![g] = "failing"]
    /\ UNCHANGED <<dataVars, routing, restore, interrupted, chans, watched, cancelled, memWatch,
                   opVars, killing, up, boots>>

\* Mutant: the failure of any generation withdraws traffic.
MarkAnyUnhealthy(g) ==
    /\ watch[g] = "failing"
    /\ watch' = [watch EXCEPT ![g] = "marked"]
    /\ proxy' = None
    /\ UNCHANGED <<dataVars, active, cfg, seq, draining, restore, interrupted, chans, watched,
                   cancelled, memWatch, opVars, life>>

\* MarkUnhealthy withdraws traffic only from the generation that failed.
MarkUnhealthy(g) ==
    /\ watch[g] = "failing"
    /\ watch' = [watch EXCEPT ![g] = "marked"]
    /\ proxy' = IF active.gen = g THEN None ELSE proxy
    /\ UNCHANGED <<dataVars, active, cfg, seq, draining, restore, interrupted, chans, watched,
                   cancelled, memWatch, opVars, life>>

WatchSends(g) ==
    /\ watch[g] = "marked" /\ failures = 0
    /\ failures' = g
    /\ watch' = [watch EXCEPT ![g] = "sent"]
    /\ UNCHANGED <<dataVars, routing, restore, interrupted, memory, watched, cancelled, memWatch,
                   opVars, life>>

\* Mutant: a failure is dropped whenever the channel is not looked at.
WatchDropsAny(g) ==
    /\ watch[g] = "marked"
    /\ watch' = [watch EXCEPT ![g] = "off"]
    /\ UNCHANGED <<dataVars, routing, restore, interrupted, chans, watched, cancelled, memWatch,
                   opVars, life>>

WatchDrops(g) ==
    /\ watch[g] = "marked" /\ g \in cancelled
    /\ watch' = [watch EXCEPT ![g] = "off"]
    /\ UNCHANGED <<dataVars, routing, restore, interrupted, chans, watched, cancelled, memWatch,
                   opVars, life>>

\* A sample over SERVICE_MEMORY_LIMIT; it is sent once there is room for it.
MemorySample(g) ==
    /\ memWatch[g] = "on" /\ Running(watched[g]) /\ Fault
    /\ memWatch' = [memWatch EXCEPT ![g] = "over"]
    /\ UNCHANGED <<dataVars, routing, restore, interrupted, chans, watch, watched, cancelled,
                   opVars, killing, up, boots>>

MemorySends(g) ==
    /\ memWatch[g] = "over" /\ memory = 0
    /\ memory' = g
    /\ memWatch' = [memWatch EXCEPT ![g] = "off"]
    /\ UNCHANGED <<dataVars, routing, restore, interrupted, failures, watch, watched, cancelled,
                   opVars, life>>

MemoryDrops(g) ==
    /\ memWatch[g] = "over" /\ g \in cancelled
    /\ memWatch' = [memWatch EXCEPT ![g] = "off"]
    /\ UNCHANGED <<dataVars, routing, restore, interrupted, chans, watch, watched, cancelled,
                   opVars, life>>

-----------------------------------------------------------------------------
(* kill-draining, the end of the process, and its restart.                  *)

KillDraining ==
    /\ up # "down"
    /\ killing' = killing \cup ({draining[g] : g \in Gens} \ {None})
    /\ killing' # killing
    /\ UNCHANGED <<dataVars, routing, restore, interrupted, chans, watchers, opVars,
                   up, faults, boots>>

Kill(i) ==
    /\ i \in killing /\ Running(i)
    /\ inst' = [inst EXCEPT ![i] = "exited"]
    /\ UNCHANGED <<bundle, bundles, disk, routing, restore, interrupted, chans, watchers,
                   opVars, life>>

KillFails(i) ==
    /\ i \in killing /\ Running(i) /\ Fault
    /\ killing' = killing \ {i}
    /\ UNCHANGED <<dataVars, routing, restore, interrupted, chans, watchers, opVars, up, boots>>

KillCleans(i) ==
    /\ i \in killing /\ ~Running(i)
    /\ bundles' = Without(bundle[i], {i})
    /\ draining' = [g \in Gens |-> IF draining[g] = i THEN None ELSE draining[g]]
    /\ killing' = killing \ {i}
    /\ UNCHANGED <<inst, bundle, disk, active, cfg, proxy, seq, restore, interrupted, chans,
                   watchers, opVars, up, faults, boots>>

\* SIGTERM: the root context ends, and with it every watch and operation.
Terminate ==
    /\ up = "up" /\ Fault
    /\ up' = "stopping"
    /\ op' = IF pc = "idle" THEN op ELSE [op EXCEPT !.ctx = @ \cup {"cancelled"}]
    /\ watch' = [g \in Gens |-> IF watch[g] = "on" THEN "off" ELSE watch[g]]
    /\ cancelled' = Gens
    /\ memWatch' = [g \in Gens |-> IF memWatch[g] = "on" THEN "off" ELSE memWatch[g]]
    /\ UNCHANGED <<dataVars, routing, restore, interrupted, chans, watched, pc, result,
                   killing, boots>>

\* Engine.Shutdown runs after the controller's loop has returned.
Shutdown ==
    /\ up = "stopping" /\ pc = "idle"
    /\ active' = NoActive
    /\ proxy' = IF active.gen = 0 THEN proxy ELSE None
    /\ pc' = "shutdown"
    /\ op' = [NoOp EXCEPT !.prior = active.inst]
    /\ UNCHANGED <<dataVars, cfg, seq, draining, restore, interrupted, chans, watchers, result, life>>

ShutdownStops ==
    /\ pc = "shutdown"
    /\ \/ inst' = [i \in Instances |-> IF i = op.prior THEN "exited" ELSE inst[i]] /\ UNCHANGED faults
       \/ Running(op.prior) /\ Fault /\ UNCHANGED inst
    /\ up' = "down" /\ pc' = "idle" /\ op' = NoOp
    /\ UNCHANGED <<bundle, bundles, disk, routing, restore, interrupted, chans, watchers, result,
                   killing, boots>>

\* The process is gone, in order or by a crash, and the next one reconciles:
\* every workload is dead and only the recorded installation survives.
Reboot ==
    /\ boots < MaxBoots
    /\ boots' = boots + 1
    /\ inst' = [i \in Instances |-> IF inst[i] = "none" THEN "none" ELSE "exited"]
    /\ bundles' = bundles \cap {disk.sandbox}
    /\ restore' = [on |-> TRUE, usable |-> disk.sandbox # None, rev |-> disk.rev,
                   cfg |-> disk.cfg, sandbox |-> disk.sandbox]
    /\ active' = NoActive /\ cfg' = disk.cfg /\ proxy' = None /\ seq' = 0
    /\ draining' = [g \in Gens |-> None]
    /\ interrupted' = None
    /\ failures' = 0 /\ memory' = 0
    /\ watch' = [g \in Gens |-> "off"] /\ watched' = [g \in Gens |-> None]
    /\ cancelled' = {} /\ memWatch' = [g \in Gens |-> "off"]
    /\ pc' = "idle" /\ op' = NoOp /\ result' = "none"
    /\ killing' = {} /\ up' = "up"
    /\ UNCHANGED <<bundle, disk, faults>>

-----------------------------------------------------------------------------
Steps ==
    \/ StopPrior \/ StopPriorFails \/ Prepare \/ PrepareFails
    \/ StartFresh \/ StartReuse \/ StartFails
    \/ Ready \/ ReadyFails \/ Reject
    \/ Publish \/ Refuse \/ SaveFails \/ Abort
    \/ Commit \/ Drained \/ CleanPrior \/ Done

Watches(g) ==
    \/ WatchFires(g) \/ MarkUnhealthy(g) \/ WatchSends(g) \/ WatchDrops(g)
    \/ MemorySample(g) \/ MemorySends(g) \/ MemoryDrops(g)

Environment ==
    \/ Interrupt \/ CancelOp \/ KillDraining
    \/ \E i \in Instances : InstanceExits(i) \/ Kill(i) \/ KillFails(i) \/ KillCleans(i)

\* The controller may call any operation whenever none is in progress.
Calls ==
    \/ \E rev \in Revisions, plan \in Configs :
         BeginDeploy("deploy", rev, plan) /\ UNCHANGED chans
    \/ BeginReplace(memory) /\ memory # 0 /\ memory' = 0 /\ UNCHANGED failures
    \/ \E force \in BOOLEAN : BeginRecover(active.gen, force) /\ failures' = 0 /\ UNCHANGED memory
    \/ \E plan \in Configs :
         (CommitPolicy(plan) \/ CommitPolicyFails(plan)) /\ UNCHANGED chans

Next ==
    \/ Calls \/ Steps \/ Environment
    \/ \E g \in Gens : Watches(g)
    \/ Terminate \/ Shutdown \/ ShutdownStops \/ Reboot

Spec == Init /\ [][Next]_vars

-----------------------------------------------------------------------------
TypeOK ==
    /\ inst \in [Instances -> {"none", "candidate", "released", "exited"}]
    /\ bundle \in [Instances -> Instances \cup {None}]
    /\ bundles \subseteq Instances
    /\ disk \in States
    /\ active \in Actives /\ cfg \in Configs /\ proxy \in Instances \cup {None}
    /\ seq \in 0..MaxSeq
    /\ draining \in [Gens -> Instances \cup {None}]
    /\ restore \in Restores
    /\ interrupted \in Keys \cup {None}
    /\ failures \in 0..MaxSeq /\ memory \in 0..MaxSeq
    /\ watch \in [Gens -> {"off", "on", "failing", "marked", "sent"}]
    /\ watched \in [Gens -> Instances \cup {None}]
    /\ cancelled \subseteq Gens
    /\ memWatch \in [Gens -> {"off", "on", "over"}]
    /\ pc \in {"idle", "stop", "prepare", "start", "ready", "reject", "publish", "abort",
              "commit", "drain", "clean", "done", "shutdown"}
    /\ op \in Operations /\ result \in {"none", "ok", "failed"}
    /\ killing \subseteq Instances /\ up \in {"up", "stopping", "down"}
    /\ faults \in 0..MaxFaults /\ boots \in 0..MaxBoots

\* What receives traffic is the active deployment, and active.json names its
\* revision, its settings and its installation: a crash at any moment restores
\* what was being served (README: "Restarts resume its retained installation").
ServedIsDurable ==
    proxy # None =>
        /\ active.gen # 0 /\ proxy = active.inst
        /\ disk = Accepted(active.rev, cfg, proxy)

\* The installation that the next boot resumes is on disk from the moment its
\* deployment is committed, whatever cleans up installations meanwhile.
DurableInstallationKept ==
    active.gen # 0 \/ ~restore.on => disk.sandbox \in bundles

\* A replaced instance that still runs can be reached by kill-draining, also
\* after a stop that failed: nothing that once served is forgotten while it runs.
RetiredReachable ==
    \A i \in Instances :
        up = "up" /\ inst[i] = "released" /\ i # active.inst => \E g \in Gens : draining[g] = i

\* No two running instances share a writable installation, although a restart
\* reuses one and a stop may have failed.
OneWriterPerBundle ==
    \A i, j \in Instances : Running(i) /\ Running(j) /\ bundle[i] = bundle[j] => i = j

\* No cleanup removes the files under a running instance.
RunningHasFiles == \A i \in Instances : Running(i) => bundle[i] \in bundles

\* kill-draining, which runs beside any operation, never holds the active
\* instance, nor one whose installation (that it removes) the active one uses.
KillSparesActive ==
    active.gen # 0 =>
        \A i \in killing \cup ({draining[g] : g \in Gens} \ {None}) :
            i # active.inst /\ bundle[i] # bundle[active.inst]

\* Traffic is withdrawn only because the active generation's own watch failed,
\* to recover it, or at the end of the process: never by the failure of an older
\* generation, a rejected candidate or a deployment under way.
TrafficKept ==
    [][proxy # None /\ proxy' = None =>
         FailedClosed(active.gen) \/ pc' \in {"stop", "shutdown"} \/ boots' # boots]_vars

\* Nothing is accepted once the supervisor is told to end, the client of the request
\* has gone or the serving revision is lost, however long the candidate took to become
\* ready; a replacement only while what it is to replace still runs; and what begins
\* to receive traffic has not exited before.
NoLateCutover ==
    [][/\ disk' # disk =>
            /\ up = "up" /\ op.ctx = {}
            /\ op.kind = "replace" => op.priorGen = active.gen /\ Running(active.inst)
       /\ proxy' \notin {proxy, None} => Running(proxy')]_vars

-----------------------------------------------------------------------------
(* The engine implements the promise of module Release: the accepted release *)
(* is the one active.json records, the served one what the proxy routes to.  *)
NoRelease == [rev |-> None, cfg |-> None]

R == INSTANCE Release WITH
       Releases  <- [rev : Revisions \cup {None}, cfg : Configs],
       NoRelease <- NoRelease,
       accepted  <- [rev |-> disk.rev, cfg |-> disk.cfg],
       served    <- IF proxy = None THEN NoRelease ELSE [rev |-> active.rev, cfg |-> cfg]

\* Clients are served by the release a restart would bring back, or by none:
\* no step of a deployment, a recovery, a policy change, a crash or a restart
\* shows them another, and what is accepted changes only as it is cut over to.
ImplementsRelease == R!Spec
=============================================================================
