------------------------------- MODULE Caches -------------------------------
(***************************************************************************)
(* The caches under DATA_DIR and their collection: runtime images          *)
(* (internal/image), Git mirrors (internal/revision) and prepared          *)
(* installations (internal/supervisor). A deployment or an apply pulls,    *)
(* fetches and prepares; whatever its end, it collects what the deployment *)
(* in force does not need. The poller fetches beside it, registries move   *)
(* their tags, every step may fail, and the process may end anywhere.      *)
(*                                                                         *)
(* A cache entry is absent, partial or ready: an image is ready with its   *)
(* ready.json, an installation with its marker, a mirror when a fetch has  *)
(* filled it. Health, routing and the lives of instances are in Engine.    *)
(***************************************************************************)
EXTENDS Naturals, FiniteSets

CONSTANTS
    Sources,    \* GIT_URLs
    Refs,       \* RUNTIME_IMAGEs
    Shas,       \* revisions
    Digests,    \* what a registry may return for a reference
    None,       \* nil, and the empty string
    MaxFaults,  \* bound on failing steps
    MaxMoves,   \* bound on tags that move
    MaxBoots,   \* bound on starts of the process
    ApplyBeforeRestore \* whether applies may run while the accepted deployment
                       \* has not come back after a restart

Images == [ref : Refs, digest : Digests]
Trees  == [sha : Shas, img : Images]
Plans  == [sha : Shas, url : Sources, img : Images]
Needs  == [url : Sources, img : Images]
Levels == {"absent", "partial", "ready"}

ASSUME CacheAssumption ==
    /\ None \notin Sources \cup Refs \cup Shas \cup Images \cup Trees \cup Plans \cup Needs
    /\ MaxFaults \in Nat /\ MaxMoves \in Nat /\ MaxBoots \in Nat \ {0}
    /\ ApplyBeforeRestore \in BOOLEAN

VARIABLES
    \* --- on disk
    images, mirrors, trees, \* the three caches
    accepted,  \* active.json: [sha, url, img], or None
    \* --- in memory
    cfg,       \* Engine.Cfg and Controller.Cfg: [url, ref]
    rootfs,    \* Engine.Rootfs and Digest: the image in force this boot, or None
    active,    \* the installation of Engine.active, or None
    resumable, \* Engine.Restore and its ResumeKey
    restoring, \* restoreFirst
    op,        \* the deployment, recovery or apply of the controller
    poller,    \* [url, at]
    \* --- elsewhere
    registry,  \* [Refs -> the digest a tag names now]
    \* --- history: a removal of the last collection failed
    littered,
    faults, moves, boots

disk   == <<images, mirrors, trees>>
inforce == <<accepted, cfg, rootfs, active>>
world  == <<registry, moves, boots>>
vars   == <<disk, inforce, resumable, restoring, op, poller, world, littered, faults>>

NoOp == [kind |-> "none", pc |-> "idle", url |-> None, ref |-> None, sha |-> None, img |-> None,
         tree |-> None, keep |-> {}, collect |-> None]

At(pc)    == op.pc = pc
Goto(pc)  == op' = [op EXCEPT !.pc = pc]
Fault     == faults < MaxFaults /\ faults' = faults + 1
Waiting   == [url |-> cfg.url, at |-> "waiting"]
Present(cache) == {k \in DOMAIN cache : cache[k] # "absent"}
Set(cache, k, level) == [cache EXCEPT ![k] = level]

Init ==
    /\ images = [i \in Images |-> "absent"]
    /\ mirrors = [s \in Sources |-> "absent"]
    /\ trees = [t \in Trees |-> "absent"]
    /\ accepted = None
    /\ cfg \in [url : Sources, ref : Refs]
    /\ rootfs = None /\ active = None /\ resumable = FALSE /\ restoring = FALSE
    /\ op = NoOp
    /\ poller = Waiting
    /\ registry \in [Refs -> Digests]
    /\ littered = FALSE /\ faults = 0 /\ moves = 0 /\ boots = 1

-----------------------------------------------------------------------------
(* The controller starts an operation.                                      *)

\* deploySelection: the image is configured again only until something was
\* published this boot.
Deploy(sha) ==
    /\ op = NoOp
    /\ op' = [NoOp EXCEPT !.kind = "deploy", !.pc = IF rootfs = None THEN "configure" ELSE "prepare",
                          !.url = cfg.url, !.ref = cfg.ref, !.sha = sha, !.img = rootfs]
    /\ restoring' = FALSE
    /\ UNCHANGED <<disk, inforce, resumable, poller, world, littered, faults>>

\* recover with a fresh installation.
Recover ==
    /\ op = NoOp /\ active # None
    /\ op' = [NoOp EXCEPT !.kind = "recover", !.pc = "prepare", !.url = cfg.url, !.ref = cfg.ref,
                          !.sha = active.sha, !.img = rootfs]
    /\ UNCHANGED <<disk, inforce, resumable, restoring, poller, world, littered, faults>>

MayApply == ~restoring /\ (ApplyBeforeRestore \/ active # None \/ accepted = None)

\* Mutant: the old source's poller goes on.
ApplyBesidePoller(url, ref) ==
    /\ op = NoOp /\ MayApply
    /\ op' = [NoOp EXCEPT !.kind = "apply", !.pc = "configure", !.url = url, !.ref = ref]
    /\ UNCHANGED <<disk, inforce, resumable, restoring, poller, world, littered, faults>>

\* An apply stops the poller and waits for it; its fetch is cut short.
Apply(url, ref) ==
    /\ op = NoOp /\ MayApply
    /\ op' = [NoOp EXCEPT !.kind = "apply", !.pc = "configure", !.url = url, !.ref = ref]
    /\ poller' = [url |-> None, at |-> "stopped"]
    /\ UNCHANGED <<disk, inforce, resumable, restoring, world, littered, faults>>

\* An operation ends; after an apply the poller starts again.
Ended(kind) ==
    /\ op' = NoOp
    /\ poller' = IF kind = "apply" THEN Waiting ELSE poller

\* What collection is for: the plan in force, and before there is one, the plan
\* that failed, if it got an image.
NeededBy(img) ==
    IF rootfs # None THEN [url |-> cfg.url, img |-> rootfs]
    ELSE IF img # None THEN [url |-> op.url, img |-> img]
    ELSE None

CollectFor(keep, needed) ==
    /\ op' = [op EXCEPT !.pc = "trees", !.keep = keep \ {None}, !.collect = needed]
    /\ littered' = FALSE
    /\ UNCHANGED poller

\* A recovery, and a deployment that was never configured, collect nothing.
Quits(img) == op.kind = "recover" \/ (op.kind = "deploy" /\ img = None)

\* Mutant: an apply that fails before it deploys is not collected for.
ReturnEarly(img) ==
    IF Quits(img) \/ op.tree = None THEN Ended(op.kind) /\ UNCHANGED littered
    ELSE CollectFor({op.tree, active}, NeededBy(img))

\* Mutant: only the candidate's installation is kept.
GiveUpServing(img) ==
    IF Quits(img) THEN Ended(op.kind) /\ UNCHANGED littered
    ELSE CollectFor({op.tree}, NeededBy(img))

\* An operation fails, with an image unless Configure failed: collectFailed
\* keeps what is active and the candidate's installation.
GiveUp(img) ==
    IF Quits(img) THEN Ended(op.kind) /\ UNCHANGED littered
    ELSE CollectFor({op.tree, active}, NeededBy(img))

-----------------------------------------------------------------------------
(* Configure: the runtime image.                                            *)

\* Mutant: every start asks the registry.
InForceOnly == IF rootfs # None /\ op.ref = cfg.ref THEN rootfs ELSE None

\* The image that Configure takes without asking the registry: the one in force,
\* or, after a restart, the accepted one if it is still cached.
Known ==
    IF rootfs # None THEN IF op.ref = cfg.ref THEN rootfs ELSE None
    ELSE IF accepted = None THEN None
    ELSE IF accepted.img.ref = op.ref /\ images[accepted.img] = "ready" THEN accepted.img
    ELSE None

Resolved == [ref |-> op.ref, digest |-> registry[op.ref]]

\* An apply selects a revision when its source, branch or token changes, or when
\* nothing is active; it may change nothing that a deployment is made for.
Configured(img) ==
    \E pc \in IF op.kind = "deploy" THEN {"prepare"}
              ELSE IF active = None \/ op.url # cfg.url THEN {"select"}
              ELSE {"select", "prepare"} :
        op' = [op EXCEPT !.img = img, !.pc = pc,
                         !.sha = IF op.kind = "deploy" THEN op.sha
                                 ELSE IF active = None THEN None ELSE active.sha]

Configure ==
    /\ At("configure")
    /\ \E img \in {IF Known # None THEN Known ELSE Resolved} :
          /\ images[img] = "ready" /\ Configured(img)
    /\ UNCHANGED <<disk, inforce, resumable, restoring, poller, world, littered, faults>>

\* The registry cannot be reached, or the image in force is gone.
ConfigureFails ==
    /\ At("configure")
    /\ IF Known # None THEN images[Known] # "ready" /\ UNCHANGED faults ELSE Fault
    /\ GiveUp(None)
    /\ UNCHANGED <<disk, inforce, resumable, restoring, world>>

Pull ==
    /\ At("configure") /\ Known = None /\ images[Resolved] # "ready"
    /\ images' = Set(images, Resolved, "partial")
    /\ op' = [op EXCEPT !.pc = "pull", !.img = Resolved]
    /\ UNCHANGED <<mirrors, trees, inforce, resumable, restoring, poller, world, littered, faults>>

Pulled ==
    /\ At("pull")
    /\ images' = Set(images, op.img, "ready")
    /\ Configured(op.img)
    /\ UNCHANGED <<mirrors, trees, inforce, resumable, restoring, poller, world, littered, faults>>

PullFails ==
    /\ At("pull") /\ Fault
    /\ images' = Set(images, op.img, "absent")
    /\ GiveUp(None)
    /\ UNCHANGED <<mirrors, trees, inforce, resumable, restoring, world>>

-----------------------------------------------------------------------------
(* The revision, the installation and the candidate.                        *)

\* Select: a fetch that is cut short leaves a mirror that the next one repairs.
Fetched(url, level) == mirrors' = IF mirrors[url] = "ready" THEN mirrors ELSE Set(mirrors, url, level)

Select ==
    /\ At("select")
    /\ Fetched(op.url, "partial") /\ Goto("fetch")
    /\ UNCHANGED <<images, trees, inforce, resumable, restoring, poller, world, littered, faults>>

Selected ==
    /\ At("fetch")
    /\ Fetched(op.url, "ready")
    /\ \E sha \in Shas : op' = [op EXCEPT !.pc = "prepare", !.sha = sha]
    /\ UNCHANGED <<images, trees, inforce, resumable, restoring, poller, world, littered, faults>>

SelectFails ==
    /\ At("fetch") /\ Fault
    /\ GiveUp(op.img)
    /\ UNCHANGED <<disk, inforce, resumable, restoring, world>>

Plan   == [sha |-> op.sha, url |-> op.url, img |-> op.img]
Tree   == [sha |-> op.sha, img |-> op.img]
Serves == active = Tree /\ op.img = rootfs /\ op.url = cfg.url

\* commitPolicy: nothing changed that the application depends on.
CommitPolicy ==
    /\ At("prepare") /\ op.kind = "apply" /\ Serves
    /\ \/ Ended("apply") /\ UNCHANGED <<littered, faults>>
       \/ Fault /\ GiveUp(op.img)
    /\ UNCHANGED <<disk, inforce, resumable, restoring, world>>

\* The sandbox that the accepted deployment left is started as it is: neither
\* its image nor its installation is needed.
Resume ==
    /\ At("prepare") /\ op.kind # "recover"
    /\ resumable /\ accepted = Plan
    /\ op' = [op EXCEPT !.pc = "resume", !.tree = Tree]
    /\ UNCHANGED <<disk, inforce, resumable, restoring, poller, world, littered, faults>>

ResumeFails ==
    /\ At("resume") /\ Fault
    /\ resumable' = FALSE
    /\ op' = [op EXCEPT !.pc = "prepare", !.tree = None]
    /\ UNCHANGED <<disk, inforce, restoring, poller, world, littered>>

Resumes == resumable /\ accepted = Plan /\ op.kind # "recover"

\* prepareWith: a complete installation is used again.
Reuse ==
    /\ At("prepare") /\ ~Resumes /\ trees[Tree] = "ready"
    /\ op' = [op EXCEPT !.pc = "start", !.tree = Tree]
    /\ UNCHANGED <<disk, inforce, resumable, restoring, poller, world, littered, faults>>

\* Otherwise it is made from the mirror and the image.
Prepare ==
    /\ At("prepare") /\ ~Resumes /\ trees[Tree] # "ready"
    /\ mirrors[op.url] = "ready" /\ images[op.img] = "ready"
    /\ trees' = Set(trees, Tree, "partial")
    /\ Goto("setup")
    /\ UNCHANGED <<images, mirrors, inforce, resumable, restoring, poller, world, littered, faults>>

Prepared ==
    /\ At("setup")
    /\ trees' = Set(trees, Tree, "ready")
    /\ op' = [op EXCEPT !.pc = "start", !.tree = Tree]
    /\ UNCHANGED <<images, mirrors, inforce, resumable, restoring, poller, world, littered, faults>>

\* The checkout, the copy or the setup fails; what it began is removed.
PrepareFails ==
    /\ \/ At("setup") /\ Fault
       \/ /\ At("prepare") /\ ~Resumes /\ trees[Tree] # "ready"
          /\ IF mirrors[op.url] = "ready" /\ images[op.img] = "ready" THEN Fault ELSE UNCHANGED faults
    /\ trees' = Set(trees, Tree, "absent")
    /\ GiveUp(op.img)
    /\ UNCHANGED <<images, mirrors, inforce, resumable, restoring, world>>

\* An installation that does not start is not used again; one whose application
\* is not ready is.
StartFails ==
    /\ At("start") /\ Fault
    /\ \E level \in {"absent", trees[Tree]} : trees' = Set(trees, Tree, level)
    /\ GiveUp(op.img)
    /\ UNCHANGED <<images, mirrors, inforce, resumable, restoring, world>>

\* publishWith, and the plan is in force.
Publish ==
    /\ At("start") \/ At("resume")
    /\ IF op.kind = "recover" THEN UNCHANGED <<inforce, resumable, littered>>
       ELSE /\ accepted' = Plan
            /\ cfg' = [url |-> op.url, ref |-> op.ref]
            /\ rootfs' = op.img /\ active' = Tree
            /\ resumable' = FALSE /\ littered' = FALSE
    /\ op' = [op EXCEPT !.pc = "trees", !.keep = {Tree},
                        !.collect = IF op.kind = "recover" THEN None
                                    ELSE [url |-> op.url, img |-> op.img]]
    /\ UNCHANGED <<disk, restoring, poller, world, faults>>

-----------------------------------------------------------------------------
(* Collection. A removal that fails leaves some of what was to go.          *)

\* All that is not kept goes, or a fault spares some of it.
Emptied(cache, keep, spared) ==
    [k \in DOMAIN cache |-> IF k \in keep \cup spared THEN cache[k] ELSE "absent"]

Sweep(cache, keep, new) ==
    \/ new = Emptied(cache, keep, {}) /\ UNCHANGED <<littered, faults>>
    \/ /\ Fault /\ littered' = TRUE
       /\ \E spared \in SUBSET (Present(cache) \ keep) : new = Emptied(cache, keep, spared)

\* removeOtherPrepared.
CollectTrees ==
    /\ At("trees")
    /\ Sweep(trees, op.keep, trees')
    /\ IF op.collect = None THEN Ended(op.kind) ELSE Goto("images") /\ UNCHANGED poller
    /\ UNCHANGED <<images, mirrors, inforce, resumable, restoring, world>>

\* CollectCaches: images are pruned only for one that is whole.
CollectImages ==
    /\ At("images")
    /\ IF images[op.collect.img] = "ready" THEN Sweep(images, {op.collect.img}, images')
       ELSE UNCHANGED <<images, littered, faults>>
    /\ Goto("mirrors")
    /\ UNCHANGED <<mirrors, trees, inforce, resumable, restoring, poller, world>>

CollectMirrors ==
    /\ At("mirrors")
    /\ Sweep(mirrors, {op.collect.url}, mirrors')
    /\ Ended(op.kind)
    /\ UNCHANGED <<images, trees, inforce, resumable, restoring, world>>

-----------------------------------------------------------------------------
(* The poller, the registry, the end of the process.                        *)

Poll ==
    /\ poller.at = "waiting"
    /\ Fetched(poller.url, "partial")
    /\ poller' = [poller EXCEPT !.at = "fetching"]
    /\ UNCHANGED <<images, trees, inforce, resumable, restoring, op, world, littered, faults>>

PollEnds ==
    /\ poller.at = "fetching"
    /\ Fetched(poller.url, "ready") \/ UNCHANGED mirrors
    /\ poller' = [poller EXCEPT !.at = "waiting"]
    /\ UNCHANGED <<images, trees, inforce, resumable, restoring, op, world, littered, faults>>

TagMoves ==
    /\ moves < MaxMoves /\ moves' = moves + 1
    /\ \E r \in Refs, d \in Digests : registry[r] # d /\ registry' = Set(registry, r, d)
    /\ UNCHANGED <<disk, inforce, resumable, restoring, op, poller, boots, littered, faults>>

\* The process ends anywhere; the next one finds the accepted overrides.
Boot ==
    /\ boots < MaxBoots /\ boots' = boots + 1
    /\ cfg' = IF accepted = None THEN cfg ELSE [url |-> accepted.url, ref |-> accepted.img.ref]
    /\ rootfs' = None /\ active' = None
    /\ resumable' = (accepted # None) /\ restoring' = (accepted # None)
    /\ op' = NoOp
    /\ poller' = [url |-> cfg'.url, at |-> "waiting"]
    /\ UNCHANGED <<disk, accepted, registry, moves, littered, faults>>

Next ==
    \/ \E sha \in Shas : Deploy(sha)
    \/ \E url \in Sources, ref \in Refs : Apply(url, ref)
    \/ Recover \/ Configure \/ ConfigureFails \/ Pull \/ Pulled \/ PullFails
    \/ Select \/ Selected \/ SelectFails \/ CommitPolicy
    \/ Resume \/ ResumeFails \/ Reuse \/ Prepare \/ Prepared \/ PrepareFails
    \/ StartFails \/ Publish
    \/ CollectTrees \/ CollectImages \/ CollectMirrors
    \/ Poll \/ PollEnds \/ TagMoves \/ Boot

Spec == Init /\ [][Next]_vars

-----------------------------------------------------------------------------
TypeOK ==
    /\ images \in [Images -> Levels] /\ mirrors \in [Sources -> Levels]
    /\ trees \in [Trees -> Levels]
    /\ accepted \in Plans \cup {None}
    /\ cfg \in [url : Sources, ref : Refs]
    /\ rootfs \in Images \cup {None} /\ active \in Trees \cup {None}
    /\ resumable \in BOOLEAN /\ restoring \in BOOLEAN /\ littered \in BOOLEAN
    /\ poller \in [url : Sources \cup {None}, at : {"stopped", "waiting", "fetching"}]
    /\ registry \in [Refs -> Digests]
    /\ faults \in 0..MaxFaults /\ moves \in 0..MaxMoves /\ boots \in 1..MaxBoots

\* The image of the accepted deployment stays whole, whatever is pulled, fails
\* or is collected: a restart can bring the deployment back offline.
AcceptedImageKept == accepted # None => images[accepted.img] = "ready"

\* As long as the accepted RUNTIME_IMAGE is the same, so is the digest it stands
\* for, through restarts, failed applies and tags that move.
ImagePreserved ==
    [][ /\ accepted # None
        /\ accepted'.img.ref = accepted.img.ref
        => accepted'.img = accepted.img ]_vars

\* No mirror is removed under the poller that fetches into it.
PollerUndisturbed ==
    [][ /\ poller.at = "fetching" /\ mirrors[poller.url] # "absent"
        => mirrors'[poller.url] # "absent" ]_vars

\* No other deployment, however it ends, costs the one that stays in force its
\* complete installation.
ServingTreeKept ==
    [][ /\ active # None /\ active' = active
        /\ trees[active] = "ready" /\ trees'[active] # "ready"
        => Tree = active ]_vars

\* When nothing is under way and a deployment is in force, its image and mirror
\* are all that is cached, and at most one candidate's installation beside its
\* own, unless a removal of the last collection failed.
CachesBounded ==
    op = NoOp /\ rootfs # None /\ ~littered =>
        /\ Present(images) \subseteq {rootfs}
        /\ Present(mirrors) \subseteq {cfg.url}
        /\ Cardinality(Present(trees) \ {active}) <= 1
=============================================================================
