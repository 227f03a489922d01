----------------------------- MODULE Controller -----------------------------
(***************************************************************************)
(* Controller.Run: the one goroutine that decides which operation the      *)
(* engine runs next. It selects among control commands, applied settings,  *)
(* polled revisions, health failures, memory alarms and its retry timer,   *)
(* while the polling goroutine samples Git and module Engine goes on.      *)
(***************************************************************************)
EXTENDS Engine

CONSTANTS
    MaxHead,       \* Git's branch moves over the revisions 1 .. MaxHead
    ApplyKinds,    \* which applies are submitted: "noop", "policy", "replace"
    MaxRequests    \* bound on control commands and applies in a behaviour

ASSUME ControllerAssumption ==
    /\ MaxHead \in Nat \ {0} /\ Revisions = 1..MaxHead
    /\ ApplyKinds \subseteq {"noop", "policy", "replace"}
    /\ MaxRequests \in Nat

VARIABLES
    at,               \* where Run is; "select" is its select statement
    recovery,         \* the generation to recover, 0 for nil
    pending,          \* the selection to deploy
    pendingFailed,    \* whether its last attempt failed
    retry,            \* whether the retry timer is armed
    selected,         \* the revision Run believes deployed
    restoreFirst,     \* applied settings wait for the first restoration
    initialRecovery,  \* a revision of an earlier boot is still to be restored
    target,           \* the revision that a command or an apply deploys
    updates,          \* the channel from the poller, capacity one
    polled,           \* the sample the polling goroutine holds
    head,             \* the newest revision in Git
    requests,         \* commands and applies so far
    losses            \* (history) times the serving revision's loss interrupted
                      \* the deployment of the pending selection

booting == <<restoreFirst, initialRecovery>>
desire == <<recovery, pending, pendingFailed, retry, selected, booting, losses>>
feed   == <<updates, polled, head, requests>>
ctl    == <<at, desire, feed, target>>
all    == <<vars, ctl>>

\* Everything of the engine but the result of its last operation.
engine == <<dataVars, routing, restore, interrupted, watchers, pc, op, life>>

CInit ==
    /\ Init
    /\ at = "select" /\ recovery = 0 /\ pending = None /\ pendingFailed = FALSE
    /\ retry = FALSE /\ selected = None /\ restoreFirst = FALSE /\ initialRecovery = FALSE
    /\ target = None
    /\ updates = None /\ polled = None /\ head = 1 /\ requests = 0 /\ losses = 0

Selecting == Idle /\ at = "select"
Returned(where, r) == Idle /\ at = where /\ result = r /\ result' = "none"

-----------------------------------------------------------------------------
(* The polling goroutine. Git only moves forward.                           *)

GitMoves ==
    /\ head < MaxHead
    /\ head' = head + 1
    /\ UNCHANGED <<vars, at, desire, target, updates, polled, requests>>

\* No sample is taken while an apply has the poller stopped.
PollSamples ==
    /\ up = "up" /\ polled = None /\ at # "apply"
    /\ polled' = head
    /\ UNCHANGED <<vars, at, desire, target, updates, head, requests>>

\* A newer sample displaces one that was not received yet.
PollSends ==
    /\ up = "up" /\ polled # None
    /\ updates' = polled /\ polled' = None
    /\ UNCHANGED <<vars, at, desire, target, head, requests>>

-----------------------------------------------------------------------------
(* The cases of the select statement.                                       *)

\* Mutant: a pending selection is completed before a newer one is accepted.
AcceptUpdateLater(s) ==
    /\ pending' = IF pending # None THEN pending ELSE IF s = selected THEN None ELSE s
    /\ UNCHANGED <<pendingFailed, losses>>

\* acceptUpdate: the newest selection owns desired state. moved is its result.
AcceptUpdate(s) ==
    LET moved == IF s = selected THEN pending # None ELSE pending # s
    IN /\ pending' = IF s = selected THEN None ELSE s
       /\ pendingFailed' = (~moved /\ pending # None /\ pendingFailed)
       /\ losses' = IF moved THEN 0 ELSE losses

TakeUpdate ==
    /\ Selecting /\ updates # None
    /\ AcceptUpdate(updates)
    /\ at' = IF pending' # pending THEN "drain" ELSE "select"
    /\ updates' = None
    /\ UNCHANGED <<vars, recovery, retry, selected, booting, polled, head, requests, target>>

\* The failure of a generation that is no longer active is dropped.
TakeFailure ==
    /\ Selecting /\ failures # 0
    /\ failures' = 0
    /\ IF failures = active.gen
       THEN proxy' = None /\ recovery' = failures /\ at' = "drain"
       ELSE UNCHANGED <<proxy, recovery, at>>
    /\ UNCHANGED <<dataVars, active, cfg, seq, draining, restore, interrupted, memory, watchers,
                   opVars, life, pending, pendingFailed, retry, selected, booting, losses,
                   feed, target>>

TakeMemory ==
    /\ Selecting /\ memory # 0
    /\ BeginReplace(memory)
    /\ memory' = 0 /\ at' = "replace"
    /\ UNCHANGED <<failures, desire, feed, target>>

\* A replacement that failed becomes a recovery of the active deployment.
ReplaceReturns ==
    /\ \/ Returned("replace", "ok") /\ UNCHANGED recovery
       \/ Returned("replace", "failed") /\ recovery' = active.gen
    /\ at' = "drain"
    /\ UNCHANGED <<engine, chans, pending, pendingFailed, retry, selected, booting, losses,
                   feed, target>>

TakeRetry ==
    /\ Selecting /\ retry
    /\ retry' = FALSE /\ at' = "drain"
    /\ UNCHANGED <<vars, recovery, pending, pendingFailed, selected, booting, losses,
                   feed, target>>

Request == requests < MaxRequests /\ requests' = requests + 1

\* execute "restart": recover the active generation, always in place.
Restart ==
    /\ Selecting /\ Request
    /\ BeginRecover(active.gen, TRUE)
    /\ at' = "command" /\ target' = None
    /\ UNCHANGED <<chans, desire, updates, polled, head>>

\* execute "redeploy": the polling worker, which has published every sample it
\* took before, selects afresh; then those older samples are discarded.
Refresh ==
    /\ Selecting /\ Request /\ polled = None
    /\ at' = "refreshed" /\ target' = head
    /\ UNCHANGED <<vars, desire, updates, polled, head>>

\* Mutant: an older sample survives the redeploy.
RedeployOverSample ==
    /\ Idle /\ at = "refreshed"
    /\ BeginDeploy("deploy", target, cfg)
    /\ losses' = 0
    /\ at' = "command"
    /\ UNCHANGED <<chans, recovery, pending, pendingFailed, retry, selected, booting, updates,
                   polled, head, requests, target>>

Redeploy ==
    /\ Idle /\ at = "refreshed"
    /\ BeginDeploy("deploy", target, cfg)
    /\ updates' = None /\ losses' = 0
    /\ at' = "command"
    /\ UNCHANGED <<chans, recovery, pending, pendingFailed, retry, selected, booting,
                   polled, head, requests, target>>

\* A command or an apply that fails before it reaches the engine: nothing is
\* deployed, Git or the image is unavailable, the client has gone away.
RequestFails ==
    /\ Selecting /\ Request
    /\ at' = "command" /\ result' = "failed" /\ target' = None
    /\ UNCHANGED <<engine, chans, desire, updates, polled, head>>

\* Mutant: the channel is not emptied.
StopPollOnly == polled' = None /\ UNCHANGED updates

\* runCommand stops the poller and empties its channel before an apply.
StopPoll == polled' = None /\ updates' = None

\* An apply that changes nothing returns success and no revision.
ApplyNothing ==
    /\ "noop" \in ApplyKinds /\ Selecting /\ Request /\ ~restoreFirst
    /\ active.gen # 0
    /\ StopPoll
    /\ at' = "apply" /\ result' = "ok" /\ target' = None
    /\ UNCHANGED <<engine, chans, desire, head>>

\* Settings that do not touch the application: committed in place.
ApplyPolicy(plan) ==
    /\ "policy" \in ApplyKinds /\ Selecting /\ Request /\ ~restoreFirst
    /\ plan # cfg
    /\ CommitPolicy(plan) \/ CommitPolicyFails(plan)
    /\ StopPoll
    /\ at' = "apply" /\ target' = active.rev
    /\ UNCHANGED <<chans, desire, head>>

\* Settings that do, or that select the source afresh (always so while nothing
\* is active): the application is replaced.
ApplyReplace(plan, rev) ==
    /\ "replace" \in ApplyKinds /\ Selecting /\ Request /\ ~restoreFirst
    /\ plan # cfg \/ active.gen = 0
    /\ rev = head \/ (active.gen # 0 /\ rev = active.rev)
    /\ BeginDeploy("deploy", rev, plan)
    /\ StopPoll /\ losses' = 0
    /\ at' = "apply" /\ target' = rev
    /\ UNCHANGED <<chans, recovery, pending, pendingFailed, retry, selected, booting, head>>

\* runCommand after execute or apply: success clears the recovery, and a deployed
\* revision also the pending selection; failure recovers what is down.
RequestSucceeds ==
    /\ \E where \in {"command", "apply"} : Returned(where, "ok")
    /\ recovery' = 0
    /\ IF target = None
       THEN UNCHANGED <<pending, pendingFailed, retry, selected, booting, losses>>
       ELSE /\ selected' = target /\ pending' = None /\ pendingFailed' = FALSE
            /\ restoreFirst' = FALSE /\ initialRecovery' = FALSE
            /\ retry' = FALSE /\ losses' = 0
    /\ at' = "select" /\ target' = None
    /\ UNCHANGED <<engine, chans, feed>>

RequestFailed ==
    /\ \E where \in {"command", "apply"} : Returned(where, "failed")
    /\ IF proxy = None /\ active.gen # 0
       THEN recovery' = active.gen /\ retry' = TRUE
       ELSE UNCHANGED <<recovery, retry>>
    /\ at' = "select" /\ target' = None
    /\ UNCHANGED <<engine, chans, pending, pendingFailed, selected, booting, losses, feed>>

-----------------------------------------------------------------------------
(* An attempt: newer samples first, then recovery and deployment in turn.   *)

DrainUpdate ==
    /\ Idle /\ at = "drain" /\ updates # None
    /\ AcceptUpdate(updates)
    /\ updates' = None
    /\ UNCHANGED <<vars, at, recovery, retry, selected, booting, polled, head, requests, target>>

\* A candidate that already failed must not block the recovery of what served.
UpdatesDrained ==
    /\ Idle /\ at = "drain" /\ updates = None
    /\ at' = IF recovery # 0 /\ (pending = None \/ pendingFailed) THEN "recoverFirst"
             ELSE IF pending # None THEN "deploy" ELSE "select"
    /\ UNCHANGED <<vars, desire, feed, target>>

\* Recover ignores a generation that is no longer active.
Recovery(where, returning) ==
    /\ Idle /\ at = where
    /\ at' = returning
    /\ IF recovery = active.gen
       THEN BeginRecover(recovery, FALSE)
       ELSE result' = "ok" /\ UNCHANGED engine
    /\ UNCHANGED <<chans, desire, feed, target>>

RecoverFirst  == Recovery("recoverFirst", "recoveringFirst")
RecoverSecond == Recovery("recoverSecond", "recoveringSecond")

\* Mutant: no timer is armed.
RecoveryAbandoned ==
    /\ \E where \in {"recoveringFirst", "recoveringSecond"} : Returned(where, "failed")
    /\ at' = "select"
    /\ UNCHANGED <<engine, chans, recovery, pending, pendingFailed, retry, selected, booting,
                   losses, feed, target>>

RecoveryFailed ==
    /\ \E where \in {"recoveringFirst", "recoveringSecond"} : Returned(where, "failed")
    /\ retry' = TRUE /\ at' = "select"
    /\ UNCHANGED <<engine, chans, recovery, pending, pendingFailed, selected, booting,
                   losses, feed, target>>

Recovered ==
    /\ \/ Returned("recoveringFirst", "ok") /\ retry' = (retry \/ pending # None)
       \/ Returned("recoveringSecond", "ok") /\ UNCHANGED retry
    /\ recovery' = 0 /\ pendingFailed' = FALSE /\ at' = "select"
    /\ UNCHANGED <<engine, chans, pending, selected, booting, losses, feed, target>>

DeployPending ==
    /\ Idle /\ at = "deploy"
    /\ restoreFirst' = FALSE /\ at' = "deploying"
    /\ BeginDeploy("deploy", pending, cfg)
    /\ UNCHANGED <<chans, recovery, pending, pendingFailed, retry, selected, initialRecovery, losses,
                   feed, target>>

\* The runtime image cannot be prepared before the first deployment of a boot.
ConfigureFails ==
    /\ Idle /\ at = "deploy" /\ active.gen = 0 /\ Fault
    /\ restoreFirst' = FALSE /\ at' = "deploying"
    /\ result' = "failed"
    /\ UNCHANGED <<dataVars, routing, restore, interrupted, watchers, pc, op, killing, up, boots,
                   chans, recovery, pending, pendingFailed, retry, selected, initialRecovery,
                   losses, feed, target>>

\* Mutant: no timer is armed.
DeployAbandoned ==
    /\ Returned("deploying", "failed")
    /\ pendingFailed' = TRUE
    /\ at' = IF recovery # 0 THEN "recoverSecond" ELSE "select"
    /\ UNCHANGED <<engine, chans, recovery, pending, retry, selected, booting, losses, feed,
                   target>>

DeployFailed ==
    /\ Returned("deploying", "failed")
    /\ pendingFailed' = TRUE /\ retry' = TRUE
    /\ at' = IF recovery # 0 THEN "recoverSecond" ELSE "select"
    /\ UNCHANGED <<engine, chans, recovery, pending, selected, booting, losses, feed, target>>

\* After the first restoration of a boot the poller is started anew.
Deployed ==
    /\ Returned("deploying", "ok")
    /\ selected' = pending /\ pending' = None /\ recovery' = 0 /\ losses' = 0
    /\ initialRecovery' = FALSE
    /\ polled' = IF initialRecovery THEN None ELSE polled
    /\ at' = "select"
    /\ UNCHANGED <<engine, chans, pendingFailed, retry, restoreFirst, updates, head, requests,
                   target>>

-----------------------------------------------------------------------------
(* The engine goes on beside the loop.                                      *)

Interrupted ==
    /\ Interrupt
    /\ losses' = IF at = "deploying" THEN losses + 1 ELSE losses
    /\ UNCHANGED <<at, recovery, pending, pendingFailed, retry, selected, booting, feed, target>>

\* main: a recorded revision becomes the initial selection of the next boot.
Restarted ==
    /\ Reboot
    /\ pending' = disk.rev /\ retry' = (disk.rev # None) /\ restoreFirst' = (disk.rev # None)
    /\ initialRecovery' = (disk.rev # None)
    /\ at' = "select" /\ recovery' = 0 /\ pendingFailed' = FALSE /\ selected' = None
    /\ target' = None /\ updates' = None /\ polled' = None /\ losses' = 0
    /\ UNCHANGED <<head, requests>>

Polling == PollSamples \/ PollSends

Select ==
    \/ TakeUpdate \/ TakeFailure \/ TakeMemory \/ TakeRetry

Commands ==
    \/ Restart \/ Refresh \/ RequestFails \/ ApplyNothing
    \/ \E plan \in Configs :
         ApplyPolicy(plan) \/ \E rev \in Revisions : ApplyReplace(plan, rev)

Attempt ==
    \/ ReplaceReturns \/ Redeploy \/ RequestSucceeds \/ RequestFailed
    \/ DrainUpdate \/ UpdatesDrained \/ RecoverFirst \/ RecoverSecond \/ RecoveryFailed
    \/ Recovered \/ DeployPending \/ ConfigureFails \/ DeployFailed \/ Deployed

\* Only restart and redeploy run for a client that can go away.
Disturbances ==
    \/ at = "command" /\ CancelOp
    \/ KillDraining \/ Terminate \/ Shutdown \/ ShutdownStops
    \/ \E i \in Instances : InstanceExits(i) \/ Kill(i) \/ KillFails(i) \/ KillCleans(i)

CNext ==
    \/ GitMoves \/ Polling \/ Select \/ Commands \/ Attempt
    \/ Steps /\ UNCHANGED ctl
    \/ \E g \in Gens : Watches(g) /\ UNCHANGED ctl
    \/ Disturbances /\ UNCHANGED ctl
    \/ Interrupted \/ Restarted

CSpec == CInit /\ [][CNext]_all
\* Go's select chooses at random among the cases that are ready, so a case that
\* is ready again and again is taken: strong fairness. Timers fire, Git is polled,
\* goroutines that can step do, an exited process is noticed. A poll takes longer
\* than a turn of the draining loop, which therefore ends. Nothing is assumed of
\* instances, clients, Git, SIGTERM or a crash.
Fairness ==
    /\ SF_all(TakeUpdate) /\ SF_all(TakeFailure) /\ SF_all(TakeMemory) /\ SF_all(TakeRetry)
    /\ WF_all(PollSamples) /\ WF_all(PollSends) /\ WF_all(Attempt) /\ SF_all(UpdatesDrained)
    /\ WF_all(Steps /\ UNCHANGED ctl)
    /\ \A g \in Gens :
         /\ WF_all(WatchFires(g) /\ ~Running(watched[g]) /\ UNCHANGED ctl)
         /\ WF_all(MarkUnhealthy(g) /\ UNCHANGED ctl)
         /\ WF_all((WatchSends(g) \/ WatchDrops(g)) /\ UNCHANGED ctl)
    /\ \A i \in Instances : WF_all((Kill(i) \/ KillFails(i) \/ KillCleans(i)) /\ UNCHANGED ctl)

FairSpec == CSpec /\ Fairness

-----------------------------------------------------------------------------
CTypeOK ==
    /\ TypeOK
    /\ at \in {"select", "drain", "replace", "refreshed", "command", "apply", "recoverFirst",
              "recoverSecond", "recoveringFirst", "recoveringSecond", "deploy", "deploying"}
    /\ recovery \in 0..MaxSeq
    /\ {pending, selected, target, updates, polled} \subseteq Revisions \cup {None}
    /\ {pendingFailed, retry, restoreFirst, initialRecovery} \subseteq BOOLEAN
    /\ head \in Revisions /\ requests \in 0..MaxRequests /\ losses \in Nat

Unserved == active.gen # 0 /\ proxy = None

\* When Run waits in its select and the accepted revision gets no traffic,
\* something under way will bring it back: an armed retry, a failure in the
\* channel or in the hands of its watch, or an exit its watch is to notice
\* (README: "Recovery keeps retrying the accepted revision").
NeverStranded ==
    Selecting /\ Unserved =>
        \/ recovery = active.gen /\ retry
        \/ failures = active.gen
        \/ watch[active.gen] \in {"failing", "marked"} /\ active.gen \notin cancelled
        \/ watch[active.gen] = "on" /\ ~Running(active.inst)

\* A selection that is still to be deployed always has a timer behind it.
PendingRetried == Selecting /\ pending # None => retry

\* The loss of the serving revision interrupts the deployment of its repair at
\* most once ("A crashing serving revision must not repeatedly cancel its repair").
RepairInterruptedOnce == losses <= 1

\* While Git moves forward the active revision never goes back: no stale sample
\* of the poller, retry or command deploys over a newer revision.
NoRegress ==
    [][active.gen # 0 /\ active'.gen # 0 => active'.rev >= active.rev]_all

\* An accepted revision that lost its traffic is served again, or another in its
\* place, unless the supervisor is stopped.
ServedAgain == (Unserved /\ up = "up") ~> (proxy # None \/ up # "up")

\* The newest revision, if it can work at all, is deployed in the end and stays.
EventuallyCurrent ==
    <>[](up = "up") => <>[](head \in Broken \/ active.rev = head)
=============================================================================
