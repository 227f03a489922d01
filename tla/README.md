# Formal models of Easy Service

Easy Service is a single-host supervisor: it follows a Git branch, prepares each
revision in a sandbox on a container image, waits for it to become healthy, cuts
a reverse proxy over to it, watches it, and repairs or replaces it. This
directory models its core in TLA+, checks the models with TLC and proves the
central properties of all of them with TLAPS.

## Inventory

| Component (source) | State it keeps | Operations | Interacts through |
|---|---|---|---|
| Deployment engine (`internal/supervisor/supervisor.go`, `settings.go`) | `active`, `Cfg` and the accepted plan, `seq`, `draining`, `Restore`, `interruptedCandidate`, channels `Failures` and `MemoryExceeded` | `Deploy`, `Replace`, `recover`, `commitPolicy`, `publish`, `drain`, `KillDraining`, `MarkUnhealthy`, `watch`, `Shutdown` | calls from the controller; one goroutine per watch and per guarded deployment; the store, the proxy, the runtime |
| Controller (`Controller.Run`, `poll`, `control.go`) | pending selection, recovery, retry timer, selected revision, boot flags | `acceptUpdate`, `runCommand`, `execute`, `apply`, the attempt that follows a select | channels from the poller, the control socket, the watches and the apply queue |
| Reverse proxy (`internal/proxy`) | current backend; per backend a count, a draining flag and a channel | `ServeHTTP`, `enter`, `leave`, `Drain`, `Set` | a lock for selection and one per backend |
| Settings and apply queue (`internal/config/apply.go`, `settings.go`) | draft, applied overrides, queue, its token, waiting clients; `pending.json`, `apply.json` | `Stage`, `SubmitApply`, `TakeApply`, `FinishApply`, `Accept`, `Wait`, `Open` | the control socket and the controller |
| Store (`internal/state/state.go`) | `active.json`, the directories of the data volume | `Save`, `Load`, `Reconcile`, `Clear` | files; every boot reconciles |
| UID leases (`internal/state/runtime.go`, `sandbox.go`) | `/run/easy-service/users`, owner records of installations | acquire, release, remove, reconcile | the runtime and the store |
| Sandbox runtime (`internal/sandbox`) | live processes | `Prepare`, `Start`, `Restart`, `Stop`, `Kill` | processes, the leases |
| Health checker (`internal/health`) | the count of failures in a row | `Ready`, `UntilFailure` | HTTP probes, process exit, the contexts of the engine |
| Image manager (`internal/image`) | `DATA_DIR/images`, one directory per reference and digest, complete with its `ready.json` | `Cached`, `Prepare`, `Prune` | skopeo and umoci; called by `Configure` in `main` and by the engine's collection |
| Revision manager (`internal/revision`) | `DATA_DIR/git-mirrors`, one bare clone per URL | `Fetch`, `Select`, `Checkout`, `Prune` | Git; the poller, the operations and collection share a mirror |
| Log pages (`internal/logs`) | page table, current pages, open handles, total, policy; page files | `New`, `write`, `Trim`, `Configure`, `Release`, `Close` | one mutex for all instances; files that others may remove |
| Process helpers, configuration, CLI | none | sampling `/proc`, parsing, a client of the socket | |

What is hard in it, and what makes each component correct:

* **Engine.** A deployment takes minutes and is interleaved with crashes of the
  serving instance, watches that fire for old and new generations, kill-draining
  requests, SIGTERM, a crash of the supervisor and failing stops and saves. What
  is served must be what `active.json` records; an installation must have one
  writer, keep its files while it runs and survive as long as the record names
  it; nothing that runs may be forgotten; traffic may be withdrawn only for a
  reason.
* **Controller.** Go's `select` picks any ready case, so failures, alarms,
  samples, commands and retries come in every order. An outage must always have
  something under way that ends it, a repair must not be starved by the crashes it
  repairs, and no stale sample may bring an older revision back.
* **Proxy.** A request chooses a backend and enters it in two steps while the
  engine replaces and drains it. Idle must mean idle, a drain must be woken, and a
  channel be closed once.
* **Apply queue.** Acknowledged submissions must survive crashes and failing
  writes, newer intent must win over older, and each client get its answer.
* **Leases and reconciliation.** A user is claimed, recorded, given files, started,
  stopped and released in many steps on two file systems, of which `/run` may be lost.
  Crashes, failures and concurrent removals come between any two. No user may own
  files of, or run on, two installations, and the accepted installation must survive.
* **Caches.** What a failed attempt or a restart no longer needs goes, and what is in
  force, or accepted and not yet restored, must stay: its digest although the tag has moved,
  its prepared tree, and the mirror that the poller is fetching into.
* **Log pages.** Every line is split over pages within a byte budget while pages expire,
  vanish, cannot be created or removed. The running total must stay true, a write
  must end, and no write may reach a removed file.
* **Health.** Exits, cancellations and deadlines cut probes short. Only failures of a
  running application may count, and every wait must end.

## Modules

```
Release                     abstract: one accepted release, served or not
  ^ implemented by
Engine -- MCEngine          detailed engine            EngineProofs
  ^ extended by
Controller -- MCController  the loop on top of it      ControllerProofs
Proxy -- MCProxy            request level cutover      ProxyProofs
ApplyQueue -- MCApplyQueue  submissions and drafts     ApplyQueueProofs
Leases -- MCLeases          users of installations,    LeasesProofs
                            removal, the boot
Caches -- MCCaches          images, mirrors, trees     CachesProofs
LogPages -- MCLogPages      pages within a budget      LogPagesProofs
Health                      probes and their verdict   HealthProofs
```

**Engine.** The controller goroutine is in at most one operation: `pc` is where it
is, `op` what it works on (kind, revision, plan, candidate, the installation it
reuses, the deployment that was active when it began and what has cancelled
its context). `BeginDeploy`, `BeginReplace` and `BeginRecover` run up to the first
point where something else can interleave; `StopPrior`, `Prepare`,
`StartFresh`/`StartReuse`, `Ready`, `Publish`, `Commit`, `Drained`, `CleanPrior` and
`Done` follow the code from there, each with its failing twin. `Publish` is the
critical section of `publishWith`: record, settings, active deployment,
retirement, route and watches change together, as under `e.mu`. Instances are
identities of sandboxes: `inst[i]` says whether the process of `i` runs and whether
it was ever published, `bundle[i]` which installation it runs on (its own, or,
after `Restart`, an older one). `watch[g]` is the health goroutine of generation `g`:
`on`, `failing` (`UntilFailure` returned and `failed` is closed), `marked`
(`MarkUnhealthy` done, the send to come) and `sent`; `memWatch[g]` is the memory
goroutine. `Reboot` is a crash or an orderly restart at any moment, together with
`Reconcile` and the load of `active.json` in `main`.

`CommitPolicy` is one action: the settings are saved and the watch is replaced
under the lock. `RequestSucceeds` and the like belong to the loop, below.

**Controller** extends `Engine`: `at` is the place of `Run` between two select
statements, and every engine action goes on beside it. A begin action of the engine
is conjoined with the loop's own step; its `result` is consumed when it returns
(`Returned`). An apply that changes nothing, one that commits a policy and one that
deploys are `ApplyNothing`, `ApplyPolicy` and `ApplyReplace`. Git is a counter that
only grows, a revision its value. `losses` is history.

**Proxy** splits `ServeHTTP` where it can be interleaved: the choice under the read
lock, `enter`, the release of the lock, `leave`. `held[b]` follows the channel that a
drain waits on when `enter` has replaced `b.zero` meanwhile. `Drain` may be called
on any backend that was published, also on the current one: that is the contract of
`Backend`; the engine drains only withdrawn ones, and `withdrawn` marks those calls
the completeness property is about.

**ApplyQueue** has the draft, the queue in memory and in `apply.json`, and the overrides
in `active.json`. `frozen`, `reported` and `acceptedID` are history: what each
acknowledged submission froze, what was last said of it, and whose overrides are
accepted. What the engine does with a submission is reduced to: it records the
settings, or it fails.

**Leases** models what `Engine` takes for granted of the data directory: `claimed` and
`lease` are the directories under `/run/easy-service/users` and the `owner.json` in them,
`files[b]` the users whose files an installation has, `owner[b]` the record in it,
`ready` and `torn` whether a prepared tree is marked complete and whether its
removal has begun. `work[a]` is where an actor is: the engine's goroutine
(`Runtime.start`, `AcquireSandboxOwner`, `RemoveSandbox`, also those of a boot) or a
kill-draining request (`RemoveSandbox`). Every system call that another actor or a crash
can come between is a step: `Claim` (mkdir) and `Record` (sample and `owner.json`), `Own`
and `Owned` (the walk and `SaveSandbox`), `Reclaim` and `Relabel`, `Check`, `Delete`,
`Deleted`, `Release` and `Unlink`. `phase` follows `Store.Reconcile` from `owners`
(`reconcileRuntimeOwners`) over `discard` to `reserve`. What the engine decides is
reduced to: it accepts a running instance, reuses only the accepted installation, gives
it up when it did not become healthy, and removes anything else.

**Caches** gives each image, mirror and prepared tree a level: `absent`, `partial` or `ready`.
`cfg`, `rootfs` and `active` are what is in force this boot, `accepted` what `active.json`
names, `resumable` the installation of the accepted deployment. `op` is the operation of the
controller, from its start (`Deploy`, `Recover`, `Apply`) over the image (`Configure`, `Pull`,
`Pulled`), the revision (`Select`, `Selected`) and the tree (`Resume`, `Reuse`, `Prepare`,
`Prepared`) to `Publish`, each with its failing twin. Both ends lead to the collection:
`Publish` for the plan now in force, `GiveUp` (`collectFailed`) for what is in force or, before
anything is, for the plan that failed; `CollectTrees`, `CollectImages` and `CollectMirrors`
are its three steps. The poller fetches beside all of it, except during an apply. `Known` is
the image that `Configure` takes without asking the registry.

**LogPages** has the manager's fields (`pages`, `current`, `open`, `total`, `policy`) and the files
on `disk`. A write is a call with one line; `Roll` and `Create` make a page, `Reopen` opens one
whose handle was closed, `MakeRoom` trims for the next bytes and `AppendBytes` writes what fits,
until the line is used up. The other operations
(`Trim`, `Configure`, `Release`, `Close`) take the mutex between calls. `Doomed` is what `trim`
would remove: what is due, and oldest first what does not fit, where age is the time `created`.
`Restart` ends the process anywhere and scans the directory, taking `created` from the file's last
write; `made` is history, the call that did make the page. `Start` is the trim with which `New` ends.

**Health** is one candidate and its watch: `phase` is `Ready`, then `UntilFailure`; `Check`, `Probe`,
`Sleep` are the loop both have, `JudgeCandidate`, `Publish`, `Judge` and `Report` what they and
`watch` make of a probe. `Cut` says that an exit, a cancellation or the deadline may end a probe
before its answer. `streak` is history: the failures in a row that are the application's own.

**Release** is the promise to users: at each moment one release is accepted, and
clients are served by that release or by none.

### Abstractions

* A configuration is an element of `Configs`; `AppKey` gives the part that forces a
  new application. The digest of the image belongs to it.
* The registrations of log pages and the status page have no influence on the state
  modelled and are left out. What an application writes in its installation is not modelled
  either.
* In `Caches` the removal of one directory is atomic (removals that are cut short are the subject of
  `Leases`), the environment is the same at every restart, and a tree is named by its revision
  and image. Health and the lives of instances are in `Engine`. A prepared tree whose setup
  cannot be stopped is in `Leases`.
* In `LogPages` the number of a call is its time, so what one call creates has one
  creation time; the clock does not go back; one line is one call. A page whose header could
  not be written can be removed. `Doomed` is the closed form of the loop of `trim`.
* In `Health` the memory watch is left out (it is in `Engine`), and a probe is one step: it is
  answered, not answered, or cut short.
* Fresh identities: `nextID` refuses one with a directory and draws 48 random bits, so
  the model reuses an identity only when nothing names it (`Available`). When no
  identity of a finite instance is left, the start fails.
* Failures, exits, unhealthy verdicts on running instances, memory samples,
  cancellations and SIGTERM are environment choices, counted by `MaxFaults`.
* A failing step whose context is cancelled needs no fault.
* In `Leases` a recursive walk takes two steps: its first file, and the rest. A removal
  deletes any part of marker, record and files first. A new instance has a name that
  nothing names (`Fresh`), while a prepared tree has the digest of its inputs and may
  return. `SampleUser` and the removal of an empty claim do not fail, and no write
  of `Leases` fails after its rename. Only one supervisor uses `/run/easy-service/users`, and
  nobody else tampers with it.
* Kill-draining requests of several clients are one set, `killing`, of the instances
  such requests have read and not finished with.

## Runs

All bounds are constants of the modules and appear as guards: `MaxSeq` (generations
between two boots; in `LogPages` the pages of an instance and day), `MaxFaults`, `MaxBoots`,
`MaxHead`, `MaxRequests`, `MaxID`, `MaxCrashes`, `MaxMoves`, `MaxCalls`, `MaxDay`, `MaxRestarts`.
`SyncDirFails`, `Departures`, `ApplyKinds` and `ApplyBeforeRestore` switch on
what *Findings* describes. `CHECK_DEADLOCK FALSE` is set everywhere: a supervisor that has shut
down stops, and so does a behaviour that has used up its bounds.

| Run | Checks | Bounds, and why they are enough |
|---|---|---|
| Engine | `ServedIsDurable`, `DurableInstallationKept`, `RetiredReachable`, `OneWriterPerBundle`, `RunningHasFiles`, `KillSparesActive`, `TrafficKept`, `NoLateCutover`, `ImplementsRelease` | three instances, two revisions, two configurations of the same application, three generations, two faults, one restart: the active, a retired and a candidate instance at once, a failed stop or save followed by another failure, a policy, and a resumed installation |
| CtlLoop | `NeverStranded`, `PendingRetried`, `RepairInterruptedOnce` | the branch moves once, a command, two faults: enough to lose the serving revision twice around one repair |
| CtlApply | `NoRegress` | each kind of apply or command, the branch moves once, a fault, one restart |
| CtlLive | `EventuallyCurrent`, `ServedAgain` | three revisions, the second of which never becomes healthy |
| CtlPolicy | `NeverStranded` is violated (finding 1) | the smallest instance that shows it |
| MCProxy | `DrainedMeansIdle`, `NoLostWakeup`, `NoDoubleClose` | three requests on three backends: one that lets a drain begin, one that leaves last and one that comes late |
| ApplyQueue | `AcknowledgedDurable`, `AcceptedWasSubmitted`, `CompletedIsRecorded`, `NoLostSubmission`, `NewestIntentWins`, `EveryWaiterAnswered` | three submissions (running, waiting or superseded, and new), two faults, two crashes |
| Leases | `UserRunsOnce`, `FilesArePrivate`, `ReservedWhileStopped`, `AcceptedKept`, `NoLeaseWithoutFiles` | two instances, two prepared trees and three users, so that a user comes free while others are taken; a kill-draining request; two crashes, the second in the boot that the first causes; a failing step |
| LogPages | `Accounted`, `HandlesCurrent`, `BudgetKept`, `OldestFirst`, `WriteEnds` | two instances and three lines over three days, some longer than a page and some shorter; a page number of two, so that numbers run out and are used again; a wider and a narrower policy; a failing step or lost file; a restart, after which the age of a page is that of its file |
| LogLoop | `WriteEnds` is violated (finding 2) | one line of two pages' length under a total below two pages |
| Caches | `CachesBounded`, `ImagePreserved`, `PollerUndisturbed`, `ServingTreeKept` | two URLs, references, revisions and digests, so that everything can be exchanged for another; a tag moves; two faults, so that an attempt fails and then its collection; one restart |
| Health | `VerdictGenuine`, `WaitsEnd` | limits one and three: the first failure decides, or a count is begun anew on the way |

Symmetry is used for instances, revisions, requests, backends, users, installations and, in `Caches`,
sources (URLs), revisions and digests, but not references; it is not used in the runs with liveness properties. The types that a run does not
list are proved (*Proofs*).

### Fairness

`Controller!FairSpec` assumes strong fairness for each case of the select statement:
Go chooses at random among ready cases, so one that is ready again and again is taken
with probability one. Weak fairness covers the goroutines that can step (the operation,
the watches, kill-draining, the poller) and the timers of the code, by which every wait
of an operation ends; an exit is noticed by `UntilFailure`, which selects on it. The
loop that drains newer samples before an attempt ends because a poll takes longer than
a turn of it (strong fairness of `UpdatesDrained`). Nothing is assumed of instances,
clients, Git, SIGTERM or crashes. `ApplyQueue!FairSpec` assumes only that the
controller goes on. `LogPages!FairSpec` assumes weak fairness of a write that has begun: it holds
the mutex, and nothing in it waits but for the file system. `Health!FairSpec` assumes it of the
checker (a probe has a timeout, the wait between two a timer) and of the startup deadline.

## Findings

Two are kept as runs:

1. *An apply of policy settings loses a health failure.* `commitPolicy` renews the generation
   (`settings.go:131-139`). If the old watch has withdrawn the traffic and its failure
   is still to be delivered, `Run` drops it as stale (`supervisor.go:870-873`), and
   the new watch only speaks up if the instance fails again. Run CtlPolicy.
2. *A long line under a tight budget is written for ever.* The pages of one call share their
   creation time, and the lowest free number names a page (`logs.go:239-256`, `280-285`).
   So `trim` may take the newest page of a line for the oldest (finding 8). When the total is below
   two full pages, that is the page just created, and it is removed again and again, under the mutex
   that all writers and `nextID` need: `LOG_MAX_FILE_SIZE=1024`, a total of 2000 and one line of
   2200 bytes. Run LogLoop; `LogPages` itself has budgets of at least two pages, where writes end.

The others are shown by configurations that belong to no run; each is the command
`tlc -config <name>.cfg <module>`:

3. *An apply that changes nothing cancels a recovery* (`CtlNoop.cfg`, `MCController`). `Run` clears
   `recovery` after every request that returns without error (`supervisor.go:826`), and
   `Controller.apply` returns so without touching anything when no setting changed
   (`settings.go:35-43`). If the accepted revision is down because its recovery failed, it
   stays down; the README (line 224) promises that recovery keeps retrying. `NeverStranded` fails.
4. *A failed directory sync accepts a failed apply* (`EngineSyncFailure.cfg`, `MCEngine`). `AtomicWrite`
   returns the error of the sync after its rename (`state.go:64-67`), so the engine keeps the old
   deployment while `active.json` has the new one; README, lines 129-130, says that failed applies
   keep the accepted settings. `ServedIsDurable` fails.
5. *A crash while the accepted user is reserved discards the accepted installation*
   (`LeaseBoot.cfg`, `MCLeases`). After the loss of `/run`, `AcquireSandboxOwner` makes the claim and
   then writes its `owner.json` (`state/sandbox.go:88-105`). A crash between the two makes the next
   boot see a claim of nobody, refuse, and remove the accepted installation, which a
   restart resumes with its files and user according to the README (lines 227-228). `AcceptedKept` fails.
6. *A prepared tree whose removal was cut short counts as complete* (`LeaseTorn.cfg`, `MCLeases`).
   `RemoveAll` has no order, and `ValidatePrepared` looks only for the marker, `rootfs` and
   `rootfs/app`. `PreparedComplete` fails. The same holds for an accepted installation whose removal,
   after it failed to become healthy, a crash interrupted: its record may still be there,
   and the next boot resumes it.
7. *A failed apply before the accepted release is back removes its image* (`CacheBoot.cfg`, `MCCaches`).
   After a boot whose restoration failed, nothing is in force; an apply with another
   image or URL that fails then collects for its own plan (`supervisor.go:462-467`) and deletes the
   image and mirror of the accepted release. The next attempt pulls whatever the tag names by
   then, where `image.go:61` says that pruning waits for a usable deployment or a return to the previous
   image, and the README (line 237) that restarting preserves the accepted image.
   `ImagePreserved` fails.
8. *The newest page of a line goes before an older one* (`LogOrder.cfg`, `MCLogPages`). All pages of a call have one time, and the
   name decides between them (`logs.go:280-285`); but names are used again. With a total of two pages
   and a line that needs four or more, page 1 is removed for the third and made anew, and then removed again for
   the fourth, while the older page 2 stays. The README (lines 195-196) says that the oldest pages go.
   Nothing but the order of output is lost: the budget holds, and with two pages or more the
   write ends. `OldestFirst`, which `LogPages` satisfies, leaves out pages of one line, and speaks of those
   of which one was made and last written by earlier lines. `CurrentKept` fails.

The passing runs leave out what leads to most of these, each by a constant: `CtlLoop`, `CtlApply` and `CtlLive`
the applies of the first and the third (`ApplyKinds`), `LogPages` the budgets of the second, all of them
the fourth with `SyncDirFails = FALSE`, `Leases` the fifth with `Departures = {}`, and `Caches` the
seventh with `ApplyBeforeRestore = FALSE`.

The constant `Departures` of `Leases` names the steps that break its properties; the run
Leases has none of them, and one at a time shows what it leads to. `"claim"` is finding 5.
The others are rarer, and no run is kept for them:

* `"walk"` breaks `FilesArePrivate` (two instances, two prepared trees, two users, one crash):
  `Reconcile` passes over installations without an owner record (`state.go:142`). A prepared
  tree whose ownership walk a crash interrupted is one; if `/run` is lost with that
  crash, nothing reserves the user whose files remain.
* `"copy"` breaks `FilesArePrivate` (two instances, one prepared tree, two users, two faults): until
  its ownership walk, a copy belongs to the user of the prepared tree. If its start and then
  its removal fail, the removal of the prepared tree releases that user while files of the copy
  remain (`state/sandbox.go:134`).
* `"release"` breaks `ReservedWhileStopped` (two instances, two users, one request): `Release`
  compares and removes without a lock (`runtime.go:89-109`), and a deployment and a kill-draining
  request may clean up the same retired instance. The late one deletes the lease of a
  new instance that drew the same slot in between.

## Proofs

For every value of the constants (number of instances, generations, requests, ...):

* `EngineProofs`: `TypeCorrect`, that is `Spec => []TypeOK`. `TypeOK` alone is not
  inductive: a generation is drawn at the cutover, in a state several steps after
  `MaxSeq` was looked at, and an operation must still have a revision to make a key of. The
  invariant `TypeInv` adds `SeqRoom` (a running operation has a generation left),
  `DeployNamed` (a deployment has a revision) and `ActiveExists` (an active
  generation has an instance).
  `Durability` (`Spec => []ServedIsDurable`) and `Refinement`
  (`Spec => ImplementsRelease`), both from the assumption `SyncDirFails = FALSE`;
  finding 4 shows that without it they are false. `ServedIsDurable` speaks
  only of states with traffic; the invariant `DurInv` says that `active.json` describes the
  active deployment whether it is routed to or not, and that only the active one
  is. The first part needs that a fresh identity is never the active one, since its
  installation would change otherwise. The refinement then maps a cutover and a policy of
  a served deployment to `CutOver`, a policy without traffic to `Amend`, every withdrawal
  and the reboot to `Withdraw`, and all else to stuttering.
  `Writers`, `Files`, `Reachable` and `Spared` (`OneWriterPerBundle`, `RunningHasFiles`,
  `RetiredReachable`, `KillSparesActive`) from the invariant `KillInv`; `Resumed`
  (`DurableInstallationKept`) from `KeepInv`, again with `SyncDirFails = FALSE`; `Traffic` (`TrafficKept`); and
  `Timeliness` (`NoLateCutover`) from `CtxInv`: outside operations nothing is cancelled, and the end of the process
  has cancelled the one that is still under way.
  Only the first two are inductive. That kill-draining spares the active installation rests on the cutover,
  and there on what the operation was begun for: a fresh candidate shares nothing with anybody
  (`CandidateApart`), a recovery reuses the installation of the active instance (`Recovering`), which is
  then not retired because two writers would run on it, and anything else reuses what the last
  boot left, while nothing is retired (`Booting`). `PriorIsActive`, `Numbered` and `Retirement` say that nothing
  overtakes an operation and that its end forgets only what it replaced. `KeepInv` adds that what a cleanup
  may remove (`MarkedAway`, `CandidateAway`, `PriorAway`) is never the recorded installation. Most
  steps only lose something; `Wanes` and `Keeps` say what, and the lemmas about them leave the few steps
  that start, publish and begin.
* `ControllerProofs`, about the loop and the engine under it. `LoopTypeCorrect`, from `CTypeInv`: the type
  invariant of the engine, and that the selection to deploy is there when the loop goes to deploy it
  (`Aimed`). `ShapeInv` says which operation of the engine each place of the loop waits for, and
  with which plan and revision. Then one inductive invariant for each property:
  - `Retried` (`PendingRetried`) from `RetryInv`: the timer stays armed while a command or an apply runs,
    and while the recovery runs that follows a failed deployment.
  - `InterruptedOnce` (`RepairInterruptedOnce`) from `LossInv`: after the first loss the attempt for the
    pending selection is not guarded again (`interruptedCandidate` is its key), or the one that was
    guarded is still on its way out, or has cut over, or the supervisor ends.
  - `Forward` (`NoRegress`) from `FreshInv`: nothing that is active, deployed or to be deployed is newer than
    a sample that the poller or the channel still holds, nor older than what is active; except that
    a command or an apply that has cut over has yet to clear the pending selection.
  - `Unstranded` (`NeverStranded`) from `StrandInv`, which says at every place of the loop, and not only
    in the select, what still ends the outage. Its hypothesis is that `ApplyKinds` has `"replace"` only:
    with the other two kinds the property is false (findings 1 and 3).

  A turn of the loop and a step of the engine are classified once by what they may do to the engine's
  operation (`Starts`, `Advances`, `Fails`, `CutsOver`, `WindsUp`, `Returns`, `Disturbs`, `Halts`), and
  the proofs go by these kinds.

  The engine's theorems are about an engine whose operations are called at will. The loop is not
  one more caller of that kind: `Alone` is what it does itself (it takes a failure from the channel and
  withdraws the traffic in the same step, it reports a result that no operation gave), and it
  begins operations for other messages than `Calls` has (`Begins`). `LoopMoves` shows that there is
  nothing else, and `LoopInstallations`, `LoopDurable`, `LoopImplements` and `LoopResumed` carry the
  properties over to `CSpec`, the last three again from `SyncDirFails = FALSE`. `LoopTraffic` needs
  `SentInv`: a failure in the channel is that of a watch that sent it, and no generation is given a number
  that some watch has.
* `ProxyProofs`: `DrainIsComplete`, `DrainIsWoken` and `ClosedOnce`. The invariant `PInv` counts:
  `in[b]` is the number of requests inside `b`; a request between choice and
  entry is on the current backend; the channel of a draining backend is closed
  exactly when it is idle after someone left.
* `ApplyQueueProofs`, again from `SyncDirFails = FALSE`: `QueueInvariant`, and from it
  `AcknowledgedSurvives`, `AcceptedIsSubmitted`, `CompletedRecorded`, `SubmissionNotLost` and `NewestWins`.
  None of these is inductive: there are three copies of the newest submission, in memory,
  in `apply.json` and in the hands of the controller, and each operation changes one or two of them. `QInv`
  relates them: what the controller runs is what the queue says (`Held`), the file would
  resume what memory would (`Saved`), numbers grow (`Numbered`), submissions keep their
  settings (`Frozen`), the newest is resumed until it is answered (`Owed`), and what is
  accepted is never newer than what may still be applied (`Progress`, `Settled`, `Told`).
* `CachesProofs`: `CachesType`, `PollerSafe` and `ServingTreeSafe` from the invariant `BaseInv`;
  `BoundHolds` (`CachesBounded`) from `BoundInv`; and `AcceptedImageStays` and `DigestKept` from `ImageInv`, under the assumption
  `ApplyBeforeRestore = FALSE` (finding 7 shows that it is needed). `BaseInv` says what an operation knows
  at each step, that what is in force is what is accepted, that only an apply
  has another plan and stops the poller while it has, and that a collection keeps the active
  tree. `ImageInv` adds that no operation has another digest for the accepted reference,
  that what it deploys is whole, and that collection is for the accepted image. `BoundInv` follows a
  collection through its three steps: what the steps behind it have left, that the image in force is whole,
  without which nothing would be pruned, and that only an operation's own plan has come since.
  It holds with applies before a restore, too.
* `HealthProofs`: `HealthType` and `HealthVerdict`. The invariant `CountedGenuine` says that the
  counter agrees with the genuine failures at every point of a watch that goes on, with one
  probe's difference while it is judged; under an exit or a cancellation the two may part, and
  no verdict follows.
* `LeasesProofs`: `Alone`, `Private`, `Reservation`, `Survives` and `Released`, the five properties
  of the run Leases, under the assumption `Departures = {}` (*Findings* says what each
  departure leads to). Each is a consequence of `LeaseInv`, and none inductive: a user is on record in the
  lease, in the installation, on its files and among the processes, and each step of a
  start, a removal and a boot changes one of them. `Backing` relates the four; `Reserving` and
  `Knowing` say what an actor under way has reserved and what a removal knows of the lease it will
  release, `Apart` that a request removes nothing that the engine makes or reuses. `Holding` says whose
  files there are: those of the leaseholder; those of the tree's user in a copy (`Copy`), which is
  private because nothing runs on a complete tree; and, between a crash and the reservations,
  those that only an unrecorded instance may still have, which the boot discards before
  any user is claimed. `Keeping` adds that the user of the accepted installation is reserved
  for it or free.

* `LogPagesProofs`: `AccountsKept` and `HandlesKept` (`Accounted`, `HandlesCurrent`), `Budget` (`BudgetKept`),
  from `LogInv`, and `Oldest` (`OldestFirst`), from `LogInv` and `AgeInv`. `StoreInv` relates the page table to the files, the handles
  and the total; `WriteInv` says that what room was made for still fits when it is taken, although files get
  lost meanwhile, and that the page is still there. `Bytes` is a fold over a set. That it adds up the sizes,
  in any order and for any part of the set (`BytesWithout`, `BytesParts`), would be an induction; it is
  proved from a smallest subset for which it would fail (`SmallestSubset`), which exists because numbers are
  well-founded. In the same way a finite set of pages has an oldest one (`OldestPage`), behind which
  `Doomed` leaves what fits (`TrimmedFits`). What `trim` compares is `created`, which a scan replaces; `AgeInv`
  says that it still puts a page first that was both made and last written by earlier calls. That needs that
  only pages made since the scan are current, and thus written to, and that those are younger than all it found.

Only model-checked: the liveness properties `EventuallyCurrent`, `ServedAgain`, `EveryWaiterAnswered`,
`WriteEnds` and `WaitsEnd`, which are out of the prover's reach, as ENABLED is. No module declares a recursive
operator.

## Not modelled

Git and GitHub, image tools, HTTP, `/proc` and signals are I/O whose outcomes are
choices of the models. Parsing of settings and `Match` of the revision manager are pure functions.
`Register`, `Output`, `Forget` and `HasInstance` of the log manager read and write registrations that
no page or budget depends on. Secret redaction, formatting and the CLI have no state of their own.

## Plan

Done: the engine with its abstract specification, the loop, the proxy, the apply queue, the
leases, the caches, the log pages and the health checker, in this order; proofs of
all their safety properties. Left:

1. `Controller` composed with `ApplyQueue`, so that a submission interrupted by a restart is
   taken up after the first restoration (`restoreFirst`).
2. `Match` of the revision manager against a reference.
3. Proofs: the properties of `Leases` under those of the departures that do not break them.
