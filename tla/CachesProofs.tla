---------------------------- MODULE CachesProofs ----------------------------
(***************************************************************************)
(* Proofs about module Caches, for any sources, references, revisions and  *)
(* digests and any number of faults, moves and restarts: what collection   *)
(* never takes away, and what it never leaves. The accepted image is kept  *)
(* provided that no apply runs before a restart has brought its deployment *)
(* back.                                                                   *)
(***************************************************************************)
EXTENDS Caches, FiniteSetTheorems, TLAPS

\* An operation, its plan as far as it knows it, and its collection.
Operations ==
    [kind : {"none", "deploy", "recover", "apply"},
     pc : {"idle", "configure", "pull", "select", "fetch", "prepare", "resume", "setup", "start",
           "trees", "images", "mirrors"},
     url : Sources \cup {None}, ref : Refs \cup {None}, sha : Shas \cup {None},
     img : Images \cup {None}, tree : Trees \cup {None}, keep : SUBSET Trees,
     collect : Needs \cup {None}]

Working   == {"select", "fetch", "prepare", "resume", "setup", "start"}
Finishing == {"trees", "images", "mirrors"}

\* How far an operation is says what it knows.
OpKnows ==
    /\ op = NoOp <=> op.kind = "none"
    /\ op.kind # "none" => op.pc # "idle" /\ op.url \in Sources /\ op.ref \in Refs
    /\ op.kind \in {"deploy", "recover"} => op.sha \in Shas
    /\ op.pc \in {"prepare", "resume", "setup", "start"} => op.sha \in Shas
    /\ op.pc \in Working \cup {"pull"} => op.img \in Images /\ op.img.ref = op.ref
    /\ op.kind = "recover" => op.pc \in {"prepare", "setup", "start", "trees"} /\ op.collect = None
    /\ op.pc \in {"images", "mirrors"} => op.collect \in Needs
    /\ op.pc \in {"start", "resume"} => op.tree = Tree
    /\ op.pc \in {"idle", "configure", "pull", "select", "fetch", "prepare", "setup"} => op.tree = None

\* What is in force this boot is what is accepted.
InForce ==
    /\ rootfs = None <=> active = None
    /\ rootfs # None => accepted # None /\ accepted.img = rootfs /\ active.img = rootfs
    /\ accepted # None => cfg = [url |-> accepted.url, ref |-> accepted.img.ref]
    /\ rootfs # None => ~resumable

\* A deployment or a recovery has the plan in force; only an apply has another,
\* and while it runs, the poller does not.
PlanOf ==
    /\ op.kind \in {"deploy", "recover"} => op.url = cfg.url /\ op.ref = cfg.ref
    /\ op.kind = "recover" => rootfs # None /\ op.img = rootfs /\ op.sha = active.sha
    /\ op.kind = "apply" => poller.at = "stopped"
    /\ poller.at # "stopped" => poller.url = cfg.url

\* The installation in force is among those that collection keeps.
KeepsActive == op.pc = "trees" /\ active # None => active \in op.keep

\* A deployment collects for its own source.
KeepsMirror ==
    op.kind = "deploy" /\ op.collect # None => op.collect.url = cfg.url

BaseInv == TypeOK /\ op \in Operations /\ OpKnows /\ InForce /\ PlanOf /\ KeepsActive /\ KeepsMirror

\* An apply runs only while the accepted deployment is in force.
AppliesInForce == op.kind = "apply" /\ accepted # None => rootfs # None

\* No operation has another image for the accepted reference than the accepted,
\* and none but a whole one.
SameDigest ==
    op.pc \in Working \cup {"pull"} /\ accepted # None =>
        (op.img.ref = accepted.img.ref => op.img = accepted.img)
WholeImage ==
    /\ op.pc \in Working /\ op.kind # "recover" => images[op.img] = "ready"
    /\ op.pc = "pull" => images[op.img] # "ready"
CollectsAccepted ==
    op.collect # None /\ accepted # None => op.collect.img = accepted.img

ImageInv == BaseInv /\ AppliesInForce /\ SameDigest /\ WholeImage /\ CollectsAccepted /\ AcceptedImageKept

USE CacheAssumption

\* The operation that is none.
LEMMA NoOpTyped ==
  /\ NoOp \in Operations /\ NoOp.kind = "none" /\ NoOp.pc = "idle" /\ NoOp.tree = None
  /\ NoOp.collect = None
  BY DEF NoOp, Operations

\* Nothing is cached and nothing in force at first.
LEMMA InitImageInv == Init => ImageInv
<1> SUFFICES ASSUME Init PROVE ImageInv
  OBVIOUS
<1>1. TypeOK
  <2>1. /\ images \in [Images -> Levels] /\ mirrors \in [Sources -> Levels]
        /\ trees \in [Trees -> Levels]
    BY DEF Init, Levels
  <2>2. /\ cfg \in [url : Sources, ref : Refs] /\ registry \in [Refs -> Digests]
        /\ poller \in [url : Sources \cup {None}, at : {"stopped", "waiting", "fetching"}]
    BY DEF Init, Waiting
  <2>3. /\ accepted = None /\ rootfs = None /\ active = None
        /\ resumable \in BOOLEAN /\ restoring \in BOOLEAN /\ littered \in BOOLEAN
    BY DEF Init
  <2>4. faults \in 0..MaxFaults /\ moves \in 0..MaxMoves /\ boots \in 1..MaxBoots
    BY DEF Init
  <2> QED BY <2>1, <2>2, <2>3, <2>4 DEF TypeOK
<1>2. op = NoOp /\ accepted = None /\ rootfs = None /\ active = None /\ poller = Waiting
  BY DEF Init
<1>3. BaseInv
  BY <1>1, <1>2, NoOpTyped DEF BaseInv, OpKnows, InForce, PlanOf, KeepsActive, KeepsMirror, Waiting, Working
<1> QED
  BY <1>2, <1>3, NoOpTyped DEF ImageInv, AppliesInForce, SameDigest, WholeImage, CollectsAccepted,
                               AcceptedImageKept, Working

-----------------------------------------------------------------------------
(* The ends of an operation.                                                *)

\* What of the state an operation that ends, or turns to collection, may change.
LEMMA EndedKnows ==
  ASSUME BaseInv, op.kind # "none", Ended(op.kind)
  PROVE  /\ op' = NoOp /\ op' \in Operations /\ (poller'.at # "stopped" => poller'.url = cfg.url)
         /\ poller' \in [url : Sources \cup {None}, at : {"stopped", "waiting", "fetching"}]
  BY NoOpTyped DEF Ended, Waiting, BaseInv, TypeOK, PlanOf

\* An operation that gives up ends, or collects for what is in force or for its own plan.
LEMMA GiveUpKnows ==
  ASSUME BaseInv, op.kind # "none", NEW img \in Images \cup {None}, GiveUp(img)
  PROVE  /\ op' \in Operations /\ littered' \in BOOLEAN
         /\ poller' \in [url : Sources \cup {None}, at : {"stopped", "waiting", "fetching"}]
         /\ poller'.at # "stopped" => poller'.url = cfg.url
         /\ \/ op' = NoOp
            \/ /\ op.kind \in {"deploy", "apply"} /\ (op.kind = "deploy" => img # None)
               /\ op' = [op EXCEPT !.pc = "trees", !.keep = {op.tree, active} \ {None},
                                   !.collect = NeededBy(img)]
               /\ UNCHANGED poller
               /\ op'.kind = op.kind /\ op'.url = op.url /\ op'.ref = op.ref /\ op'.sha = op.sha
               /\ op'.pc = "trees" /\ op'.keep = {op.tree, active} \ {None}
               /\ op'.collect = NeededBy(img) /\ op'.tree = op.tree
<1> USE DEF BaseInv
<1>1. CASE Quits(img)
  <2>1. Ended(op.kind) /\ littered' = littered
    BY <1>1 DEF GiveUp
  <2>2. littered' \in BOOLEAN
    BY <2>1 DEF TypeOK
  <2> QED BY <2>1, <2>2, EndedKnows
<1>2. CASE ~Quits(img)
  <2>1. /\ op' = [op EXCEPT !.pc = "trees", !.keep = {op.tree, active} \ {None},
                            !.collect = NeededBy(img)]
        /\ littered' = FALSE /\ UNCHANGED poller
    BY <1>2 DEF GiveUp, CollectFor
  <2>2. op.kind \in {"deploy", "apply"} /\ (op.kind = "deploy" => img # None)
    BY <1>2 DEF Quits, Operations
  <2>3. {op.tree, active} \ {None} \in SUBSET Trees
    BY DEF Operations, TypeOK
  <2>4. NeededBy(img) \in Needs \cup {None}
    BY <2>2 DEF NeededBy, Needs, TypeOK, OpKnows
  <2>5. op' \in Operations
    BY <2>1, <2>3, <2>4 DEF Operations
  <2> QED BY <2>1, <2>2, <2>5 DEF TypeOK, PlanOf, Operations
<1> QED BY <1>1, <1>2

-----------------------------------------------------------------------------
(* The base invariant, action by action.                                    *)

\* The image in force is one for the reference in force.
LEMMA RootfsIsCurrent ==
  ASSUME TypeOK, InForce, rootfs # None
  PROVE  /\ rootfs \in Images /\ rootfs.ref = cfg.ref /\ accepted # None /\ accepted.img = rootfs
         /\ active \in Trees /\ active.sha \in Shas /\ active = [sha |-> active.sha, img |-> rootfs]
         /\ cfg.url \in Sources /\ cfg.ref \in Refs
<1>1. rootfs \in Images /\ active \in Trees /\ accepted # None /\ accepted.img = rootfs
      /\ cfg = [url |-> accepted.url, ref |-> accepted.img.ref] /\ active.img = rootfs
  BY DEF TypeOK, InForce
<1>2. cfg.ref = rootfs.ref /\ cfg.url \in Sources /\ cfg.ref \in Refs
  BY <1>1 DEF TypeOK
<1> QED BY <1>1, <1>2 DEF Trees

\* An operation that starts takes its plan from what is in force, or from the apply.
LEMMA StartsBase ==
  ASSUME BaseInv,
         \/ \E sha \in Shas : Deploy(sha)
         \/ \E url \in Sources, ref \in Refs : Apply(url, ref)
         \/ Recover
  PROVE  BaseInv'
<1> USE DEF BaseInv
<1>1. ASSUME NEW sha \in Shas, Deploy(sha) PROVE BaseInv'
  <2>1. /\ op' = [NoOp EXCEPT !.kind = "deploy", !.pc = IF rootfs = None THEN "configure" ELSE "prepare",
                          !.url = cfg.url, !.ref = cfg.ref, !.sha = sha, !.img = rootfs]
        /\ restoring' = FALSE
        /\ UNCHANGED <<disk, inforce, resumable, poller, world, littered, faults>>
    BY <1>1 DEF Deploy
  <2>2. op' \in Operations
    <3>1. (IF rootfs = None THEN "configure" ELSE "prepare") \in {"configure", "prepare"}
      OBVIOUS
    <3>2. cfg.url \in Sources /\ cfg.ref \in Refs /\ rootfs \in Images \cup {None}
      BY DEF TypeOK
    <3> QED BY <2>1, <3>1, <3>2, NoOpTyped DEF Operations
  <2>3. /\ op'.kind = "deploy" /\ op'.url = cfg.url /\ op'.ref = cfg.ref /\ op'.sha = sha
        /\ op'.img = rootfs /\ op'.tree = None /\ op'.collect = None
        /\ op'.pc = IF rootfs = None THEN "configure" ELSE "prepare"
    BY <2>1 DEF NoOp
  <2>4. TypeOK'
    BY <2>1 DEF TypeOK, disk, inforce, world
  <2>5. OpKnows'
    <3>1. cfg.url \in Sources /\ cfg.ref \in Refs /\ op' # NoOp
      BY <2>3, NoOpTyped DEF TypeOK
    <3> QED BY <2>3, <3>1, RootfsIsCurrent DEF OpKnows, Working
  <2>6. InForce' /\ PlanOf' /\ KeepsActive' /\ KeepsMirror'
    BY <2>1, <2>3 DEF InForce, PlanOf, KeepsActive, KeepsMirror, inforce
  <2> QED BY <2>2, <2>4, <2>5, <2>6
<1>2. ASSUME NEW url \in Sources, NEW ref \in Refs, Apply(url, ref) PROVE BaseInv'
  <2>1. /\ op' = [NoOp EXCEPT !.kind = "apply", !.pc = "configure", !.url = url, !.ref = ref]
        /\ poller' = [url |-> None, at |-> "stopped"]
        /\ UNCHANGED <<disk, inforce, resumable, restoring, world, littered, faults>>
    BY <1>2 DEF Apply
  <2>2. op' \in Operations
    BY <2>1, NoOpTyped DEF Operations
  <2>3. /\ op'.kind = "apply" /\ op'.url = url /\ op'.ref = ref /\ op'.tree = None
        /\ op'.collect = None /\ op'.pc = "configure"
    BY <2>1 DEF NoOp
  <2>4. TypeOK'
    BY <2>1 DEF TypeOK, disk, inforce, world
  <2>5. OpKnows'
    BY <2>1, <2>3, NoOpTyped DEF OpKnows, InForce, TypeOK, Working
  <2>6. InForce' /\ PlanOf' /\ KeepsActive' /\ KeepsMirror'
    BY <2>1, <2>3 DEF InForce, PlanOf, KeepsActive, KeepsMirror, inforce
  <2> QED BY <2>2, <2>4, <2>5, <2>6
<1>3. ASSUME Recover PROVE BaseInv'
  <2>1. /\ active # None
        /\ op' = [NoOp EXCEPT !.kind = "recover", !.pc = "prepare", !.url = cfg.url, !.ref = cfg.ref,
                              !.sha = active.sha, !.img = rootfs]
        /\ UNCHANGED <<disk, inforce, resumable, restoring, poller, world, littered, faults>>
    BY <1>3 DEF Recover
  <2>2. op' \in Operations
    BY <2>1, NoOpTyped DEF Operations, TypeOK, Trees
  <2>3. /\ op'.kind = "recover" /\ op'.url = cfg.url /\ op'.ref = cfg.ref /\ op'.sha = active.sha
        /\ op'.img = rootfs /\ op'.tree = None /\ op'.collect = None /\ op'.pc = "prepare"
    BY <2>1 DEF NoOp
  <2>4. TypeOK'
    BY <2>1 DEF TypeOK, disk, inforce, world
  <2>5. OpKnows'
    <3>1. rootfs # None /\ op' # NoOp
      BY <2>1, <2>3, NoOpTyped DEF InForce
    <3> QED BY <2>3, <3>1, RootfsIsCurrent DEF OpKnows, Working
  <2>6. InForce' /\ PlanOf' /\ KeepsActive' /\ KeepsMirror'
    BY <2>1, <2>3 DEF InForce, PlanOf, KeepsActive, KeepsMirror, inforce
  <2> QED BY <2>2, <2>4, <2>5, <2>6
<1> QED BY <1>1, <1>2, <1>3

\* A step of an operation that stays what it is, with what is in force.
LEMMA GoesOn ==
  ASSUME BaseInv, op.kind # "none", UNCHANGED <<inforce, poller>>, resumable' \in {resumable, FALSE},
         TypeOK', op' \in Operations, OpKnows', op'.kind = op.kind, op'.url = op.url,
         op'.ref = op.ref, op.kind = "recover" => op'.img = op.img /\ op'.sha = op.sha,
         op'.pc = "trees" => active = None \/ active \in op'.keep,
         op'.collect = op.collect \/ op'.collect = None \/ op'.collect.url = cfg.url \/ op.kind = "apply"
  PROVE  BaseInv'
<1>1. InForce' /\ PlanOf'
  BY DEF BaseInv, InForce, PlanOf, inforce, TypeOK
<1>2. KeepsActive' /\ KeepsMirror'
  BY DEF BaseInv, KeepsActive, KeepsMirror, inforce
<1> QED BY <1>1, <1>2 DEF BaseInv

\* An operation that ends, or turns to collection, while the disk changes.
LEMMA GivesUp ==
  ASSUME BaseInv, op.kind # "none", NEW img \in Images \cup {None}, GiveUp(img),
         UNCHANGED <<inforce, restoring, world>>, resumable' \in {resumable, FALSE},
         faults' \in 0..MaxFaults, images' \in [Images -> Levels], mirrors' \in [Sources -> Levels],
         trees' \in [Trees -> Levels]
  PROVE  BaseInv'
<1>1. resumable' \in BOOLEAN
  BY DEF BaseInv, TypeOK
<1>2. TypeOK'
  BY <1>1, GiveUpKnows DEF BaseInv, TypeOK, inforce, world
<1>3. CASE op' = NoOp
  BY <1>2, <1>3, NoOpTyped, GiveUpKnows
     DEF BaseInv, OpKnows, InForce, PlanOf, KeepsActive, KeepsMirror, inforce, Working, TypeOK
<1>4. CASE op' # NoOp
  <2>1. /\ op.kind \in {"deploy", "apply"} /\ (op.kind = "deploy" => img # None)
        /\ UNCHANGED poller
        /\ op'.kind = op.kind /\ op'.url = op.url /\ op'.ref = op.ref /\ op'.sha = op.sha
        /\ op'.pc = "trees" /\ op'.keep = {op.tree, active} \ {None} /\ op' \in Operations
        /\ op'.collect = NeededBy(img) /\ op'.tree = op.tree
    BY <1>4, GiveUpKnows
  <2>2. OpKnows'
    BY <1>4, <2>1 DEF BaseInv, OpKnows, Working
  <2>3. op.kind = "deploy" => op'.collect = None \/ op'.collect.url = cfg.url
    BY <2>1 DEF NeededBy, BaseInv, PlanOf
  <2> QED BY <1>2, <2>1, <2>2, <2>3, GoesOn
<1> QED BY <1>3, <1>4

\* What Configure does to an operation.
LEMMA ConfiguredKnows ==
  ASSUME BaseInv, op.pc \in {"configure", "pull"}, NEW img \in Images, img.ref = op.ref,
         Configured(img)
  PROVE  /\ op' \in Operations /\ OpKnows' /\ op'.img = img /\ op'.kind = op.kind
         /\ op'.url = op.url /\ op'.ref = op.ref /\ op'.collect = op.collect
         /\ op'.pc \in {"select", "prepare"} /\ op.kind \in {"deploy", "apply"}
<1> USE DEF BaseInv
<1>1. op.kind \in {"deploy", "apply"} /\ op.url \in Sources /\ op.ref \in Refs /\ op.tree = None
  BY DEF OpKnows, Operations, NoOp
<1> DEFINE sha == IF op.kind = "deploy" THEN op.sha ELSE IF active = None THEN None ELSE active.sha
<1>2. PICK pc \in {"select", "prepare"} :
        /\ op' = [op EXCEPT !.img = img, !.pc = pc, !.sha = sha]
        /\ op.kind = "deploy" \/ active # None \/ pc = "select"
  BY DEF Configured
<1>3. sha \in Shas \cup {None}
  <2>1. active # None => active.sha \in Shas
    BY DEF TypeOK, Trees
  <2>2. op.sha \in Shas \cup {None}
    BY DEF Operations
  <2> QED BY <2>1, <2>2
<1>4. op' \in Operations
  <2> HIDE DEF sha
  <2> QED BY <1>2, <1>3 DEF Operations
<1>5. /\ op'.img = img /\ op'.kind = op.kind /\ op'.url = op.url /\ op'.ref = op.ref
      /\ op'.collect = op.collect /\ op'.pc = pc /\ op'.tree = None
      /\ op'.sha = sha
  <2> HIDE DEF sha
  <2> QED BY <1>1, <1>2 DEF Operations
<1>6. pc = "prepare" => op'.sha \in Shas
  BY <1>1, <1>2, <1>5 DEF OpKnows, TypeOK, Trees
<1>7. op' # NoOp /\ op'.kind # "none" /\ op'.kind # "recover"
  BY <1>1, <1>5, NoOpTyped
<1>8. op'.kind = "deploy" => op'.sha \in Shas
  BY <1>5 DEF OpKnows
<1>9. OpKnows'
  BY <1>1, <1>2, <1>5, <1>6, <1>7, <1>8 DEF OpKnows, Working
<1> QED BY <1>1, <1>4, <1>5, <1>9

\* An operation at work is not NoOp.
LEMMA AtWork ==
  ASSUME BaseInv, op.pc # "idle"
  PROVE  /\ op.kind \in {"deploy", "recover", "apply"} /\ op # NoOp
         /\ op.url \in Sources /\ op.ref \in Refs
  BY NoOpTyped DEF BaseInv, OpKnows, Operations

\* Configure takes or pulls an image of the reference it was asked for.
LEMMA KnownIsImage ==
  ASSUME TypeOK, op.ref \in Refs
  PROVE  /\ Resolved \in Images /\ Resolved.ref = op.ref
         /\ Known # None /\ InForce => Known \in Images /\ Known.ref = op.ref
<1>1. Resolved \in Images /\ Resolved.ref = op.ref
  BY DEF Resolved, TypeOK, Images
<1>2. ASSUME Known # None, InForce PROVE Known \in Images /\ Known.ref = op.ref
  <2>1. CASE rootfs # None
    BY <1>2, <2>1, RootfsIsCurrent DEF Known
  <2>2. CASE rootfs = None
    BY <1>2, <2>2 DEF Known, TypeOK, Plans
  <2> QED BY <2>1, <2>2
<1> QED BY <1>1, <1>2

\* Steps that find the image keep the invariant,
LEMMA ConfiguresBase ==
  ASSUME BaseInv, Configure \/ ConfigureFails \/ Pull \/ Pulled \/ PullFails
  PROVE  BaseInv'
<1> USE DEF BaseInv, At
<1>0. op.pc # "idle" /\ op.kind \in {"deploy", "recover", "apply"} /\ op.ref \in Refs /\ op.url \in Sources
  BY AtWork DEF Configure, ConfigureFails, Pull, Pulled, PullFails
<1>1. CASE Configure
  <2>1. PICK img \in {IF Known # None THEN Known ELSE Resolved} : Configured(img)
    BY <1>1 DEF Configure
  <2>2. img \in Images /\ img.ref = op.ref
    BY <1>0, <2>1, KnownIsImage
  <2>3. op.pc = "configure" /\ UNCHANGED <<disk, inforce, resumable, restoring, poller, world, littered, faults>>
    BY <1>1 DEF Configure
  <2>4. TypeOK'
    BY <2>3 DEF TypeOK, disk, inforce, world
  <2> QED BY <1>0, <2>1, <2>2, <2>3, <2>4, ConfiguredKnows, GoesOn
<1>2. CASE ConfigureFails
  <2>1. GiveUp(None) /\ UNCHANGED <<disk, inforce, resumable, restoring, world>>
    BY <1>2 DEF ConfigureFails
  <2>2. faults' \in 0..MaxFaults
    BY <1>2 DEF ConfigureFails, Fault, TypeOK
  <2> QED BY <1>0, <2>1, <2>2, GivesUp DEF TypeOK, disk
<1>3. CASE Pull
  <2>1. /\ images' = Set(images, Resolved, "partial") /\ op.pc = "configure"
        /\ op' = [op EXCEPT !.pc = "pull", !.img = Resolved]
        /\ UNCHANGED <<mirrors, trees, inforce, resumable, restoring, poller, world, littered, faults>>
    BY <1>3 DEF Pull
  <2>2. Resolved \in Images /\ Resolved.ref = op.ref
    BY <1>0, KnownIsImage
  <2>3. TypeOK'
    BY <2>1, <2>2 DEF TypeOK, Set, Levels, inforce, world
  <2>4. op' \in Operations /\ op'.pc = "pull" /\ op'.img = Resolved /\ op'.kind = op.kind
        /\ op'.url = op.url /\ op'.ref = op.ref /\ op'.sha = op.sha /\ op'.tree = op.tree
        /\ op'.collect = op.collect
    BY <2>1, <2>2 DEF Operations
  <2>5. OpKnows'
    BY <1>0, <2>1, <2>2, <2>4, NoOpTyped DEF OpKnows, Working
  <2>6. op.kind # "recover"
    BY <2>1 DEF OpKnows
  <2> QED BY <1>0, <2>1, <2>3, <2>4, <2>5, <2>6, GoesOn
<1>4. CASE Pulled
  <2>1. /\ images' = Set(images, op.img, "ready") /\ op.pc = "pull" /\ Configured(op.img)
        /\ UNCHANGED <<mirrors, trees, inforce, resumable, restoring, poller, world, littered, faults>>
    BY <1>4 DEF Pulled
  <2>2. op.img \in Images /\ op.img.ref = op.ref
    BY <2>1 DEF OpKnows
  <2>3. TypeOK'
    BY <2>1, <2>2 DEF TypeOK, Set, Levels, inforce, world
  <2> QED BY <1>0, <2>1, <2>2, <2>3, ConfiguredKnows, GoesOn
<1>5. CASE PullFails
  <2>1. GiveUp(None) /\ UNCHANGED <<mirrors, trees, inforce, resumable, restoring, world>>
        /\ images' = Set(images, op.img, "absent")
    BY <1>5 DEF PullFails
  <2>2. faults' \in 0..MaxFaults
    BY <1>5 DEF PullFails, Fault, TypeOK
  <2>3. images' \in [Images -> Levels]
    BY <2>1 DEF TypeOK, Set, Levels
  <2> QED BY <1>0, <2>1, <2>2, <2>3, GivesUp DEF TypeOK
<1> QED BY <1>1, <1>2, <1>3, <1>4, <1>5

-----------------------------------------------------------------------------
\* as do those that find the revision,
LEMMA SelectsBase ==
  ASSUME BaseInv, Select \/ Selected \/ SelectFails
  PROVE  BaseInv'
<1> USE DEF BaseInv, At
<1>0. op.pc \in {"select", "fetch"} /\ op.kind \in {"deploy", "apply"} /\ op.url \in Sources
      /\ op.img \in Images /\ op.img.ref = op.ref /\ op # NoOp /\ op.tree = None /\ op.ref \in Refs
  <2>1. op.pc \in {"select", "fetch"}
    BY DEF Select, Selected, SelectFails
  <2>2. op.pc \in Working /\ op.kind # "recover" /\ op.tree = None
    BY <2>1 DEF Working, OpKnows
  <2>3. op.img \in Images /\ op.img.ref = op.ref
    BY <2>2 DEF OpKnows
  <2> QED BY <2>1, <2>2, <2>3, AtWork
<1>1. \A level \in Levels : Fetched(op.url, level) => mirrors' \in [Sources -> Levels]
  BY <1>0 DEF Fetched, TypeOK, Set
<1>2. CASE Select
  <2>1. /\ mirrors' \in [Sources -> Levels] /\ op' = [op EXCEPT !.pc = "fetch"]
        /\ UNCHANGED <<images, trees, inforce, resumable, restoring, poller, world, littered, faults>>
    BY <1>1, <1>2 DEF Select, Goto, Levels
  <2>2. op' \in Operations /\ op'.pc = "fetch" /\ op'.img = op.img /\ op'.kind = op.kind
        /\ op'.url = op.url /\ op'.ref = op.ref /\ op'.sha = op.sha /\ op'.tree = op.tree
        /\ op'.collect = op.collect
    BY <2>1 DEF Operations
  <2>3. OpKnows'
    BY <1>0, <2>2, NoOpTyped DEF OpKnows, Working
  <2>4. TypeOK'
    BY <2>1 DEF TypeOK, inforce, world
  <2> QED BY <1>0, <2>1, <2>2, <2>3, <2>4, GoesOn
<1>3. CASE Selected
  <2>1. PICK sha \in Shas :
          /\ mirrors' \in [Sources -> Levels] /\ op' = [op EXCEPT !.pc = "prepare", !.sha = sha]
          /\ UNCHANGED <<images, trees, inforce, resumable, restoring, poller, world, littered, faults>>
    BY <1>1, <1>3 DEF Selected, Levels
  <2>2. op' \in Operations /\ op'.pc = "prepare" /\ op'.img = op.img /\ op'.kind = op.kind
        /\ op'.url = op.url /\ op'.ref = op.ref /\ op'.sha = sha /\ op'.tree = op.tree
        /\ op'.collect = op.collect
    BY <2>1 DEF Operations
  <2>3. OpKnows'
    BY <1>0, <2>2, NoOpTyped DEF OpKnows, Working
  <2>4. TypeOK'
    BY <2>1 DEF TypeOK, inforce, world
  <2> QED BY <1>0, <2>1, <2>2, <2>3, <2>4, GoesOn
<1>4. CASE SelectFails
  <2>1. GiveUp(op.img) /\ UNCHANGED <<disk, inforce, resumable, restoring, world>>
    BY <1>4 DEF SelectFails
  <2>2. faults' \in 0..MaxFaults
    BY <1>4 DEF SelectFails, Fault, TypeOK
  <2> QED BY <1>0, <2>1, <2>2, GivesUp DEF TypeOK, disk
<1> QED BY <1>2, <1>3, <1>4

-----------------------------------------------------------------------------
\* An operation that has an image and a revision has an installation.
LEMMA HasTree ==
  ASSUME BaseInv, op.pc \in {"prepare", "resume", "setup", "start"}
  PROVE  /\ Tree \in Trees /\ op.img \in Images /\ op.img.ref = op.ref /\ op.sha \in Shas
         /\ op.kind # "none" /\ op.url \in Sources /\ op.ref \in Refs /\ Plan \in Plans
<1>1. op.img \in Images /\ op.img.ref = op.ref /\ op.sha \in Shas
  BY DEF BaseInv, OpKnows, Working
<1> QED BY <1>1, AtWork DEF Tree, Trees, Plan, Plans

\* An operation moves on, and may have got its installation.
LEMMA Advances ==
  ASSUME BaseInv, op.pc \in {"prepare", "resume", "setup"},
         NEW pc \in {"prepare", "resume", "setup", "start"}, NEW tree,
         tree = IF pc \in {"start", "resume"} THEN Tree ELSE None,
         op' = [op EXCEPT !.pc = pc, !.tree = tree], op.kind = "recover" => pc # "resume",
         UNCHANGED <<images, mirrors, inforce, restoring, poller, world, littered>>,
         resumable' \in {resumable, FALSE},
         faults' \in 0..MaxFaults, trees' \in [Trees -> Levels]
  PROVE  BaseInv'
<1>1. tree \in Trees \cup {None}
  BY HasTree
<1>2. op' \in Operations /\ op'.pc = pc /\ op'.img = op.img /\ op'.kind = op.kind
      /\ op'.url = op.url /\ op'.ref = op.ref /\ op'.sha = op.sha /\ op'.tree = tree
      /\ op'.collect = op.collect
  <2>1. op \in Operations
    BY DEF BaseInv
  <2>2. op' = [op EXCEPT !.pc = pc, !.tree = tree]
    OBVIOUS
  <2> QED BY <1>1, <2>1, <2>2 DEF Operations
<1>3. Tree' = Tree
  BY <1>2 DEF Tree
<1>4. OpKnows'
  BY <1>2, <1>3, HasTree, NoOpTyped DEF BaseInv, OpKnows, Working
<1>5. resumable' \in BOOLEAN
  BY DEF BaseInv, TypeOK
<1>6. TypeOK'
  BY <1>5 DEF BaseInv, TypeOK, inforce, world
<1> QED BY <1>2, <1>4, <1>6, GoesOn, HasTree

\* that make or reuse the installation,
LEMMA PreparesBase ==
  ASSUME BaseInv, Resume \/ ResumeFails \/ Reuse \/ Prepare \/ Prepared
  PROVE  BaseInv'
<1> USE DEF At
<1>0. /\ Tree \in Trees /\ trees \in [Trees -> Levels] /\ faults \in 0..MaxFaults
      /\ op \in Operations /\ op.pc \in {"prepare", "resume", "setup"}
  BY HasTree DEF Resume, ResumeFails, Reuse, Prepare, Prepared, BaseInv, TypeOK
<1>1. CASE Resume
  BY <1>0, <1>1, Advances DEF Resume, disk
<1>2. CASE ResumeFails
  <2>1. faults' \in 0..MaxFaults /\ trees' = trees
    BY <1>0, <1>2 DEF ResumeFails, Fault, disk
  <2> QED BY <1>0, <1>2, <2>1, Advances DEF ResumeFails, disk
<1>3. CASE Reuse
  BY <1>0, <1>3, Advances DEF Reuse, disk
<1>4. CASE Prepare
  <2>1. op' = [op EXCEPT !.pc = "setup", !.tree = None]
    BY <1>0, <1>4 DEF Prepare, Goto, Operations, BaseInv, OpKnows
  <2>2. trees' \in [Trees -> Levels]
    BY <1>0, <1>4 DEF Prepare, Set, Levels
  <2> QED BY <1>0, <1>4, <2>1, <2>2, Advances DEF Prepare
<1>5. CASE Prepared
  <2>1. trees' \in [Trees -> Levels]
    BY <1>0, <1>5 DEF Prepared, Set, Levels
  <2> QED BY <1>0, <1>5, <2>1, Advances DEF Prepared
<1> QED BY <1>1, <1>2, <1>3, <1>4, <1>5

\* that fail on the way,
LEMMA FailsBase ==
  ASSUME BaseInv, CommitPolicy \/ PrepareFails \/ StartFails
  PROVE  BaseInv'
<1> USE DEF At
<1>0. /\ Tree \in Trees /\ trees \in [Trees -> Levels] /\ faults \in 0..MaxFaults
      /\ op.img \in Images /\ op.kind # "none" /\ TypeOK
  BY HasTree DEF CommitPolicy, PrepareFails, StartFails, BaseInv, TypeOK
<1>1. CASE CommitPolicy
  <2>1. CASE Ended("apply") /\ UNCHANGED <<littered, faults>>
    <3>1. op.kind = "apply" /\ UNCHANGED <<disk, inforce, resumable, restoring, world>>
      BY <1>1 DEF CommitPolicy
    <3>2. /\ op' = NoOp /\ (poller'.at # "stopped" => poller'.url = cfg.url)
          /\ poller' \in [url : Sources \cup {None}, at : {"stopped", "waiting", "fetching"}]
      BY <2>1, <3>1, EndedKnows
    <3>3. TypeOK'
      BY <1>0, <2>1, <3>1, <3>2 DEF TypeOK, disk, inforce, world
    <3>4. OpKnows' /\ InForce' /\ PlanOf' /\ KeepsActive' /\ KeepsMirror'
      BY <3>1, <3>2, NoOpTyped
         DEF BaseInv, OpKnows, InForce, PlanOf, KeepsActive, KeepsMirror, inforce, Working
    <3> QED BY <3>2, <3>3, <3>4, NoOpTyped DEF BaseInv
  <2>2. CASE Fault /\ GiveUp(op.img)
    BY <1>0, <1>1, <2>2, GivesUp DEF CommitPolicy, Fault, disk, TypeOK
  <2> QED BY <1>1, <2>1, <2>2 DEF CommitPolicy
<1>2. CASE PrepareFails
  <2>1. faults' \in 0..MaxFaults
    BY <1>0, <1>2 DEF PrepareFails, Fault
  <2>2. trees' \in [Trees -> Levels]
    BY <1>0, <1>2 DEF PrepareFails, Set, Levels
  <2> QED BY <1>0, <1>2, <2>1, <2>2, GivesUp DEF PrepareFails, TypeOK
<1>3. CASE StartFails
  <2>1. faults' \in 0..MaxFaults
    BY <1>0, <1>3 DEF StartFails, Fault
  <2>2. trees' \in [Trees -> Levels]
    BY <1>0, <1>3 DEF StartFails, Set, Levels
  <2> QED BY <1>0, <1>3, <2>1, <2>2, GivesUp DEF StartFails, TypeOK
<1> QED BY <1>1, <1>2, <1>3

\* that put the plan in force,
LEMMA PublishBase ==
  ASSUME BaseInv, Publish PROVE BaseInv'
<1> USE DEF At
<1>0. /\ Tree \in Trees /\ Plan \in Plans /\ op.img \in Images /\ op.img.ref = op.ref
      /\ op.kind # "none" /\ op \in Operations /\ op.url \in Sources /\ op.ref \in Refs
      /\ op.sha \in Shas /\ op.tree = Tree
  BY HasTree DEF Publish, BaseInv, OpKnows
<1> DEFINE needs == IF op.kind = "recover" THEN None ELSE [url |-> op.url, img |-> op.img]
<1>1. op' = [op EXCEPT !.pc = "trees", !.keep = {Tree}, !.collect = needs]
      /\ UNCHANGED <<disk, restoring, poller, world, faults>>
  BY DEF Publish
<1>2. needs \in Needs \cup {None}
  BY <1>0 DEF Needs
<1>3. op' \in Operations /\ op'.pc = "trees" /\ op'.img = op.img /\ op'.kind = op.kind
      /\ op'.url = op.url /\ op'.ref = op.ref /\ op'.sha = op.sha /\ op'.tree = op.tree
      /\ op'.collect = needs /\ op'.keep = {Tree}
  <2> HIDE DEF needs
  <2> QED BY <1>0, <1>1, <1>2 DEF Operations
<1>4. OpKnows'
  BY <1>0, <1>3, NoOpTyped DEF BaseInv, OpKnows, Working
<1>5. CASE op.kind = "recover"
  <2>1. UNCHANGED <<inforce, resumable, littered>>
    BY <1>5 DEF Publish
  <2>2. TypeOK'
    BY <1>1, <2>1 DEF BaseInv, TypeOK, disk, inforce, world
  <2>3. active = Tree
    BY <1>5, <1>0, RootfsIsCurrent DEF BaseInv, PlanOf, Tree
  <2> QED BY <1>0, <1>1, <1>3, <1>4, <1>5, <2>1, <2>2, <2>3, GoesOn
<1>6. CASE op.kind # "recover"
  <2>1. /\ accepted' = Plan /\ cfg' = [url |-> op.url, ref |-> op.ref]
        /\ rootfs' = op.img /\ active' = Tree /\ resumable' = FALSE /\ littered' = FALSE
    BY <1>6 DEF Publish
  <2>2. TypeOK'
    BY <1>0, <1>1, <2>1 DEF BaseInv, TypeOK, disk, world
  <2>3. Plan.url = op.url /\ Plan.img = op.img /\ Tree.img = op.img
    BY DEF Plan, Tree
  <2>4. InForce'
    BY <1>0, <2>1, <2>3 DEF InForce
  <2>5. PlanOf'
    BY <1>0, <1>1, <1>3, <1>6, <2>1 DEF BaseInv, PlanOf, Operations
  <2>6. KeepsActive' /\ KeepsMirror'
    BY <1>3, <1>6, <2>1 DEF KeepsActive, KeepsMirror
  <2> QED BY <1>3, <1>4, <2>2, <2>4, <2>5, <2>6 DEF BaseInv
<1> QED BY <1>5, <1>6

-----------------------------------------------------------------------------
\* A removal keeps a cache a cache, and what is to be kept.
LEMMA SweepKeeps ==
  ASSUME TypeOK, NEW D, NEW cache \in [D -> Levels], NEW keep, NEW new, Sweep(cache, keep, new)
  PROVE  /\ new \in [D -> Levels] /\ faults' \in 0..MaxFaults /\ littered' \in BOOLEAN
         /\ \A k \in D : k \in keep => new[k] = cache[k]
         /\ \A k \in D : new[k] \in {cache[k], "absent"}
<1>1. PICK spared : new = Emptied(cache, keep, spared)
  BY DEF Sweep
<1>2. faults' \in 0..MaxFaults /\ littered' \in BOOLEAN
  <2>1. \/ UNCHANGED <<littered, faults>>
        \/ Fault /\ littered' = TRUE
    BY DEF Sweep
  <2>2. faults' \in 0..MaxFaults
    BY <2>1 DEF Fault, TypeOK
  <2>3. littered' = littered \/ littered' = TRUE
    BY <2>1
  <2>4. littered' \in BOOLEAN
    BY <2>3, Zenon DEF TypeOK
  <2> QED BY <2>2, <2>4
<1>3. new = [k \in D |-> IF k \in keep \cup spared THEN cache[k] ELSE "absent"]
  BY <1>1 DEF Emptied
<1> QED BY <1>2, <1>3 DEF Levels

\* An operation that ends while nothing else of the controller changes.
LEMMA Ends ==
  ASSUME BaseInv, op.kind # "none", Ended(op.kind), TypeOK', UNCHANGED <<inforce, resumable>>
  PROVE  BaseInv'
<1>1. op' = NoOp /\ (poller'.at # "stopped" => poller'.url = cfg.url)
  BY EndedKnows
<1>2. OpKnows' /\ InForce' /\ PlanOf' /\ KeepsActive' /\ KeepsMirror'
  BY <1>1, NoOpTyped
     DEF BaseInv, OpKnows, InForce, PlanOf, KeepsActive, KeepsMirror, inforce, Working
<1> QED BY <1>1, <1>2, NoOpTyped DEF BaseInv

\* that collect,
LEMMA CollectsBase ==
  ASSUME BaseInv, CollectTrees \/ CollectImages \/ CollectMirrors
  PROVE  BaseInv'
<1> USE DEF At
<1>0. /\ op.kind # "none" /\ op \in Operations /\ op.pc \in Finishing /\ TypeOK
      /\ trees \in [Trees -> Levels] /\ images \in [Images -> Levels]
      /\ mirrors \in [Sources -> Levels]
  BY AtWork DEF CollectTrees, CollectImages, CollectMirrors, BaseInv, TypeOK, Finishing
<1>1. ASSUME NEW pc \in {"images", "mirrors"}, op.collect # None, Goto(pc), UNCHANGED <<inforce, resumable, poller>>, TypeOK'
      PROVE  BaseInv'
  <2>1. op' = [op EXCEPT !.pc = pc]
    BY <1>1 DEF Goto
  <2>2. op' \in Operations /\ op'.pc = pc /\ op'.img = op.img /\ op'.kind = op.kind
        /\ op'.url = op.url /\ op'.ref = op.ref /\ op'.sha = op.sha /\ op'.tree = op.tree
        /\ op'.collect = op.collect
    BY <1>0, <2>1 DEF Operations
  <2>3. OpKnows'
    BY <1>0, <1>1, <2>2, NoOpTyped DEF BaseInv, OpKnows, Working, Operations, Finishing
  <2> QED BY <1>0, <1>1, <2>2, <2>3, GoesOn
<1>2. CASE CollectTrees
  <2>1. trees' \in [Trees -> Levels] /\ faults' \in 0..MaxFaults /\ littered' \in BOOLEAN
        /\ UNCHANGED <<images, mirrors, inforce, resumable, restoring, world>>
    BY <1>0, <1>2, SweepKeeps DEF CollectTrees
  <2>2. CASE op.collect = None
    <3>1. Ended(op.kind)
      BY <1>2, <2>2 DEF CollectTrees
    <3>2. TypeOK'
      BY <1>0, <2>1, <3>1, EndedKnows DEF TypeOK, inforce, world
    <3> QED BY <1>0, <2>1, <3>1, <3>2, Ends
  <2>3. CASE op.collect # None
    <3>1. Goto("images") /\ UNCHANGED poller
      BY <1>2, <2>3 DEF CollectTrees
    <3>2. TypeOK'
      BY <1>0, <2>1, <3>1 DEF TypeOK, inforce, world
    <3> QED BY <1>1, <2>1, <2>3, <3>1, <3>2
  <2> QED BY <2>2, <2>3
<1>3. CASE CollectImages
  <2>1. CASE images[op.collect.img] = "ready"
    <3>1. images' \in [Images -> Levels] /\ faults' \in 0..MaxFaults /\ littered' \in BOOLEAN
      BY <1>0, <1>3, <2>1, SweepKeeps DEF CollectImages
    <3>2. TypeOK'
      BY <1>0, <1>3, <3>1 DEF CollectImages, TypeOK, inforce, world
    <3> QED BY <1>1, <1>3, <3>2 DEF CollectImages, BaseInv, OpKnows, Needs
  <2>2. CASE images[op.collect.img] # "ready"
    <3>1. TypeOK'
      BY <1>0, <1>3, <2>2 DEF CollectImages, TypeOK, inforce, world
    <3> QED BY <1>1, <1>3, <3>1 DEF CollectImages, BaseInv, OpKnows, Needs
  <2> QED BY <2>1, <2>2
<1>4. CASE CollectMirrors
  <2>1. mirrors' \in [Sources -> Levels] /\ faults' \in 0..MaxFaults /\ littered' \in BOOLEAN
    BY <1>0, <1>4, SweepKeeps DEF CollectMirrors
  <2>2. TypeOK'
    BY <1>0, <1>4, <2>1, EndedKnows DEF CollectMirrors, TypeOK, inforce, world
  <2> QED BY <1>0, <1>4, <2>2, Ends DEF CollectMirrors
<1> QED BY <1>2, <1>3, <1>4

\* and those of the poller, the registry and a restart.
LEMMA WorldBase ==
  ASSUME BaseInv, Poll \/ PollEnds \/ TagMoves \/ Boot
  PROVE  BaseInv'
<1>0. TypeOK /\ op \in Operations
  BY DEF BaseInv
<1>1. CASE Poll \/ PollEnds
  <2>1. /\ poller.at # "stopped" /\ poller'.at # "stopped" /\ poller'.url = poller.url
        /\ poller' \in [url : Sources \cup {None}, at : {"stopped", "waiting", "fetching"}]
        /\ UNCHANGED <<images, trees, inforce, resumable, restoring, op, world, littered, faults>>
    BY <1>0, <1>1 DEF Poll, PollEnds, TypeOK
  <2>2. poller.url \in Sources
    BY <1>0, <2>1 DEF BaseInv, PlanOf, TypeOK
  <2>3. mirrors' \in [Sources -> Levels]
    BY <1>0, <1>1, <2>2 DEF Poll, PollEnds, Fetched, Set, Levels, TypeOK
  <2>4. TypeOK'
    BY <1>0, <2>1, <2>3 DEF TypeOK, inforce, world
  <2>5. Tree' = Tree
    BY <2>1 DEF Tree
  <2> QED
    BY <2>1, <2>4, <2>5 DEF BaseInv, OpKnows, InForce, PlanOf, KeepsActive, KeepsMirror, inforce
<1>2. CASE TagMoves
  <2>1. UNCHANGED <<disk, inforce, resumable, restoring, op, poller, boots, littered, faults>>
    BY <1>2 DEF TagMoves
  <2>2. registry' \in [Refs -> Digests] /\ moves' \in 0..MaxMoves
    BY <1>0, <1>2 DEF TagMoves, TypeOK, Set
  <2>3. TypeOK'
    BY <1>0, <2>1, <2>2 DEF TypeOK, disk, inforce
  <2>4. Tree' = Tree
    BY <2>1 DEF Tree
  <2> QED
    BY <2>1, <2>3, <2>4 DEF BaseInv, OpKnows, InForce, PlanOf, KeepsActive, KeepsMirror, inforce
<1>3. CASE Boot
  <2>1. /\ cfg' = IF accepted = None THEN cfg ELSE [url |-> accepted.url, ref |-> accepted.img.ref]
        /\ rootfs' = None /\ active' = None /\ op' = NoOp /\ accepted' = accepted
        /\ poller' = [url |-> cfg'.url, at |-> "waiting"]
        /\ UNCHANGED <<disk, registry, moves, littered, faults>>
    BY <1>3 DEF Boot
  <2>2. boots' \in 1..MaxBoots /\ resumable' \in BOOLEAN /\ restoring' \in BOOLEAN
    BY <1>0, <1>3 DEF Boot, TypeOK
  <2>3. cfg' \in [url : Sources, ref : Refs]
    BY <1>0, <2>1 DEF TypeOK, Plans, Images
  <2>4. poller' \in [url : Sources \cup {None}, at : {"stopped", "waiting", "fetching"}]
    BY <2>1, <2>3
  <2>5. TypeOK'
    BY <1>0, <2>1, <2>2, <2>3, <2>4 DEF TypeOK, disk
  <2>6. OpKnows' /\ InForce' /\ PlanOf' /\ KeepsActive' /\ KeepsMirror'
    BY <2>1, NoOpTyped DEF BaseInv, OpKnows, InForce, PlanOf, KeepsActive, KeepsMirror, Working
  <2> QED BY <2>1, <2>5, <2>6, NoOpTyped DEF BaseInv
<1> QED BY <1>1, <1>2, <1>3

\* BaseInv is inductive.
LEMMA StepBase ==
  ASSUME BaseInv, [Next]_vars PROVE BaseInv'
<1>1. CASE UNCHANGED vars
  <2>1. Tree' = Tree
    BY <1>1 DEF vars, Tree
  <2> QED
    BY <1>1, <2>1 DEF vars, disk, inforce, world, BaseInv, TypeOK, OpKnows, InForce, PlanOf, KeepsActive,
                      KeepsMirror
<1> QED
  BY <1>1, StartsBase, ConfiguresBase, SelectsBase, PreparesBase, FailsBase, PublishBase, CollectsBase,
     WorldBase DEF Next

-----------------------------------------------------------------------------
(* The image invariant.                                                     *)

\* All but the base invariant.
ImageParts == AppliesInForce /\ SameDigest /\ WholeImage /\ CollectsAccepted /\ AcceptedImageKept

\* Configure takes the accepted image wherever the accepted reference stands.
LEMMA KnownIsAccepted ==
  ASSUME ImageInv
  PROVE  /\ Known # None => accepted # None /\ Known = accepted.img
         /\ accepted # None /\ op.ref = accepted.img.ref => Known = accepted.img /\ Known # None
<1>1. accepted # None => images[accepted.img] = "ready" /\ accepted.img # None /\ cfg.ref = accepted.img.ref
  BY DEF ImageInv, AcceptedImageKept, BaseInv, InForce, TypeOK, Plans
<1>2. rootfs # None => accepted # None /\ accepted.img = rootfs
  BY DEF ImageInv, BaseInv, InForce
<1> QED BY <1>1, <1>2 DEF Known

\* An operation starts from the accepted image, and an apply only while that is in force.
LEMMA StartsImage ==
  ASSUME ApplyBeforeRestore = FALSE, ImageInv,
         \/ \E sha \in Shas : Deploy(sha)
         \/ \E url \in Sources, ref \in Refs : Apply(url, ref)
         \/ Recover
  PROVE  ImageParts'
<1> USE DEF ImageParts
<1>1. /\ UNCHANGED <<disk, inforce>> /\ op'.collect = None /\ op'.pc # "pull"
      /\ op'.pc \in Working => op'.img = rootfs /\ rootfs # None
  <2>1. ASSUME NEW sha \in Shas, Deploy(sha)
        PROVE  /\ UNCHANGED <<disk, inforce>> /\ op'.collect = None /\ op'.pc # "pull"
               /\ op'.pc \in Working => op'.img = rootfs /\ rootfs # None
    BY <2>1 DEF Deploy, NoOp, Working
  <2>2. ASSUME NEW url \in Sources, NEW ref \in Refs, Apply(url, ref)
        PROVE  /\ UNCHANGED <<disk, inforce>> /\ op'.collect = None /\ op'.pc # "pull"
               /\ op'.pc \in Working => op'.img = rootfs /\ rootfs # None
    BY <2>2 DEF Apply, NoOp, Working
  <2>3. CASE Recover
    BY <2>3 DEF Recover, NoOp, Working, ImageInv, BaseInv, InForce
  <2> QED BY <2>1, <2>2, <2>3
<1>2. op'.kind = "apply" => active # None \/ accepted = None
  BY DEF Deploy, Apply, Recover, NoOp, MayApply
<1>3. AppliesInForce'
  BY <1>1, <1>2 DEF AppliesInForce, inforce, ImageInv, BaseInv, InForce
<1>4. rootfs # None => accepted # None /\ accepted.img = rootfs /\ images[rootfs] = "ready"
  BY DEF ImageInv, BaseInv, InForce, AcceptedImageKept
<1> QED
  BY <1>1, <1>3, <1>4
     DEF ImageInv, SameDigest, WholeImage, CollectsAccepted, AcceptedImageKept, disk, inforce, Working

\* The plan that collection is for has the accepted image.
LEMMA GivesUpImage ==
  ASSUME ImageInv, op.kind # "none", NEW img \in Images \cup {None}, GiveUp(img), UNCHANGED inforce,
         img # None => img = op.img /\ op.pc \in Working,
         accepted # None => images'[accepted.img] = "ready"
  PROVE  ImageParts'
<1>1. \/ op' = NoOp
      \/ /\ op.kind \in {"deploy", "apply"} /\ op'.kind = op.kind /\ op'.pc = "trees"
         /\ op'.collect = NeededBy(img)
  BY GiveUpKnows DEF ImageInv
<1>2. op'.pc \in {"idle", "trees"} /\ op'.kind \in {"none", op.kind}
  BY <1>1, NoOpTyped
<1>3. AppliesInForce' /\ SameDigest' /\ WholeImage' /\ AcceptedImageKept'
  BY <1>2 DEF ImageInv, AppliesInForce, SameDigest, WholeImage, AcceptedImageKept, inforce, Working
<1>4. CollectsAccepted'
  <2> SUFFICES ASSUME op'.collect # None, accepted # None PROVE op'.collect.img = accepted.img
    BY DEF CollectsAccepted, inforce
  <2>1. op' # NoOp /\ op.kind \in {"deploy", "apply"} /\ op'.collect = NeededBy(img)
    BY <1>1, NoOpTyped
  <2>2. CASE rootfs # None
    BY <2>1, <2>2 DEF NeededBy, ImageInv, BaseInv, InForce
  <2>3. CASE rootfs = None
    <3>1. img # None /\ op'.collect.img = img
      BY <2>1, <2>3 DEF NeededBy
    <3>2. op.kind = "deploy"
      BY <2>1, <2>3 DEF ImageInv, AppliesInForce
    <3>3. op.img.ref = op.ref /\ op.ref = cfg.ref /\ cfg.ref = accepted.img.ref
      BY <3>1, <3>2 DEF ImageInv, BaseInv, OpKnows, PlanOf, InForce
    <3> QED BY <3>1, <3>3 DEF ImageInv, SameDigest
  <2> QED BY <2>2, <2>3
<1> QED BY <1>3, <1>4 DEF ImageParts

\* An operation that keeps its image while it works, and one that gets another.
LEMMA GoesOnImage ==
  ASSUME ImageInv, UNCHANGED inforce, op'.kind = op.kind, op'.collect = op.collect,
         accepted # None => images'[accepted.img] = "ready",
         op'.pc \in Working \cup {"pull"} /\ accepted # None /\ op'.img.ref = accepted.img.ref
           => op'.img = accepted.img,
         op'.pc \in Working /\ op.kind # "recover" => images'[op'.img] = "ready",
         op'.pc = "pull" => images'[op'.img] # "ready"
  PROVE  ImageParts'
  BY DEF ImageInv, ImageParts, AppliesInForce, SameDigest, WholeImage, CollectsAccepted,
         AcceptedImageKept, inforce

\* The accepted reference is never resolved again while its image is whole.
LEMMA ConfiguresImage ==
  ASSUME ImageInv, Configure \/ ConfigureFails \/ Pull \/ Pulled \/ PullFails
  PROVE  ImageParts'
<1> USE DEF At
<1>0. /\ op.pc \in {"configure", "pull"} /\ op.kind # "none" /\ op.ref \in Refs /\ BaseInv
      /\ images \in [Images -> Levels]
      /\ accepted # None => accepted.img \in Images /\ images[accepted.img] = "ready"
  BY AtWork DEF Configure, ConfigureFails, Pull, Pulled, PullFails, ImageInv, BaseInv, TypeOK, Plans,
                AcceptedImageKept
<1>1. Resolved \in Images /\ Resolved.ref = op.ref
  BY <1>0, KnownIsImage DEF BaseInv
<1>2. CASE Configure
  <2>1. PICK img \in {IF Known # None THEN Known ELSE Resolved} :
          images[img] = "ready" /\ Configured(img)
    BY <1>2 DEF Configure
  <2>2. img \in Images /\ img.ref = op.ref
    BY <1>0, <2>1, KnownIsImage DEF BaseInv
  <2>3. accepted # None /\ img.ref = accepted.img.ref => img = accepted.img
    BY <2>1, <2>2, KnownIsAccepted
  <2>4. op'.img = img /\ op'.kind = op.kind /\ op'.collect = op.collect /\ op'.pc \in {"select", "prepare"}
    BY <1>0, <2>1, <2>2, ConfiguredKnows
  <2>5. UNCHANGED <<images, inforce>>
    BY <1>2 DEF Configure, disk
  <2> QED BY <1>0, <2>1, <2>3, <2>4, <2>5, GoesOnImage
<1>3. CASE ConfigureFails
  <2>1. GiveUp(None) /\ UNCHANGED <<images, inforce>>
    BY <1>3 DEF ConfigureFails, disk
  <2> QED BY <1>0, <2>1, GivesUpImage
<1>4. CASE Pull
  <2>1. /\ images' = [images EXCEPT ![Resolved] = "partial"] /\ UNCHANGED inforce
        /\ op' = [op EXCEPT !.pc = "pull", !.img = Resolved]
        /\ Known = None /\ images[Resolved] # "ready"
    BY <1>4 DEF Pull, Set
  <2>2. op'.pc = "pull" /\ op'.img = Resolved /\ op'.kind = op.kind /\ op'.collect = op.collect
    BY <2>1 DEF ImageInv, BaseInv, Operations
  <2>3. accepted # None => Resolved.ref # accepted.img.ref /\ accepted.img # Resolved
    BY <1>0, <1>1, <2>1, KnownIsAccepted
  <2> QED BY <1>0, <1>1, <2>1, <2>2, <2>3, GoesOnImage DEF Working
<1>5. CASE Pulled
  <2>1. images' = [images EXCEPT ![op.img] = "ready"] /\ Configured(op.img) /\ op.pc = "pull" /\ UNCHANGED inforce
    BY <1>5 DEF Pulled, Set
  <2>2. op.img \in Images /\ op.img.ref = op.ref
    BY <2>1 DEF ImageInv, BaseInv, OpKnows
  <2>3. op'.img = op.img /\ op'.kind = op.kind /\ op'.collect = op.collect /\ op'.pc \in {"select", "prepare"}
    BY <1>0, <2>1, <2>2, ConfiguredKnows
  <2>4. accepted # None /\ op.img.ref = accepted.img.ref => op.img = accepted.img
    BY <2>1 DEF ImageInv, SameDigest
  <2> QED BY <1>0, <2>1, <2>2, <2>3, <2>4, GoesOnImage
<1>6. CASE PullFails
  <2>1. images' = [images EXCEPT ![op.img] = "absent"] /\ GiveUp(None) /\ op.pc = "pull" /\ UNCHANGED inforce
    BY <1>6 DEF PullFails, Set
  <2>2. images[op.img] # "ready" /\ op.img \in Images
    BY <2>1 DEF ImageInv, WholeImage, BaseInv, OpKnows
  <2> QED BY <1>0, <2>1, <2>2, GivesUpImage
<1> QED BY <1>2, <1>3, <1>4, <1>5, <1>6

\* What goes on, or fails, leaves the images alone.
LEMMA WorksImage ==
  ASSUME ImageInv, \/ Select \/ Selected \/ SelectFails \/ Resume \/ ResumeFails \/ Reuse \/ Prepare
                   \/ Prepared \/ CommitPolicy \/ PrepareFails \/ StartFails
  PROVE  ImageParts'
<1> USE DEF At
<1>0. /\ op.pc \in Working /\ op.kind # "none" /\ op \in Operations /\ op.img \in Images /\ BaseInv
      /\ accepted # None => images[accepted.img] = "ready"
      /\ UNCHANGED <<images, inforce>>
  <2>1. op.pc \in Working /\ UNCHANGED <<images, inforce>>
    BY DEF Select, Selected, SelectFails, Resume, ResumeFails, Reuse, Prepare, Prepared, CommitPolicy,
           PrepareFails, StartFails, Working, disk
  <2>2. op.pc # "idle"
    BY <2>1 DEF Working
  <2> QED BY <2>1, <2>2, AtWork DEF ImageInv, BaseInv, OpKnows, AcceptedImageKept
<1>1. CASE SelectFails \/ PrepareFails \/ StartFails \/ (CommitPolicy /\ GiveUp(op.img))
  <2>1. GiveUp(op.img)
    BY <1>1 DEF SelectFails, PrepareFails, StartFails
  <2> QED BY <1>0, <2>1, GivesUpImage
<1>2. CASE CommitPolicy /\ ~GiveUp(op.img)
  <2>1. op' = NoOp
    BY <1>2 DEF CommitPolicy, Ended
  <2> QED
    BY <1>0, <2>1, NoOpTyped
       DEF ImageInv, ImageParts, AppliesInForce, SameDigest, WholeImage, CollectsAccepted,
           AcceptedImageKept, inforce, Working
<1>3. CASE Select \/ Selected \/ Resume \/ ResumeFails \/ Reuse \/ Prepare \/ Prepared
  <2>1. op'.img = op.img /\ op'.kind = op.kind /\ op'.collect = op.collect /\ op'.pc \in Working
    <3>1. \/ op' = [op EXCEPT !.pc = "fetch"] \/ op' = [op EXCEPT !.pc = "setup"]
          \/ \E sha \in Shas : op' = [op EXCEPT !.pc = "prepare", !.sha = sha]
          \/ op' = [op EXCEPT !.pc = "resume", !.tree = Tree]
          \/ op' = [op EXCEPT !.pc = "prepare", !.tree = None]
          \/ op' = [op EXCEPT !.pc = "start", !.tree = Tree]
      BY <1>3 DEF Select, Selected, Resume, ResumeFails, Reuse, Prepare, Prepared, Goto
    <3>2. CASE op' = [op EXCEPT !.pc = "fetch"] \/ op' = [op EXCEPT !.pc = "setup"]
      BY <1>0, <3>2 DEF Operations, Working
    <3>3. CASE \E sha \in Shas : op' = [op EXCEPT !.pc = "prepare", !.sha = sha]
      BY <1>0, <3>3 DEF Operations, Working
    <3>4. ASSUME NEW pc \in {"resume", "prepare", "start"}, NEW tree,
                 op' = [op EXCEPT !.pc = pc, !.tree = tree]
          PROVE  op'.img = op.img /\ op'.kind = op.kind /\ op'.collect = op.collect /\ op'.pc = pc
      BY <1>0, <3>4 DEF Operations
    <3> QED BY <3>1, <3>2, <3>3, <3>4 DEF Working
  <2>2. /\ op.kind # "recover" => images[op.img] = "ready"
        /\ accepted # None /\ op.img.ref = accepted.img.ref => op.img = accepted.img
    BY <1>0 DEF ImageInv, WholeImage, SameDigest
  <2>3. op'.pc # "pull"
    BY <2>1 DEF Working
  <2> QED BY <1>0, <2>1, <2>2, <2>3, GoesOnImage
<1> QED BY <1>1, <1>2, <1>3

\* The image that becomes the accepted one is whole.
LEMMA PublishImage ==
  ASSUME ImageInv, Publish PROVE ImageParts'
<1> USE DEF At
<1>0. /\ op.pc \in Working /\ op \in Operations /\ op.pc \in {"start", "resume"}
  BY DEF Publish, Working, ImageInv, BaseInv
<1> DEFINE needs == IF op.kind = "recover" THEN None ELSE [url |-> op.url, img |-> op.img]
<1>1. op' = [op EXCEPT !.pc = "trees", !.keep = {Tree}, !.collect = needs] /\ UNCHANGED images
  BY DEF Publish, disk
<1>2. op'.pc = "trees" /\ op'.kind = op.kind /\ op'.collect = needs
  <2> HIDE DEF needs
  <2> QED BY <1>0, <1>1 DEF Operations
<1>3. SameDigest' /\ WholeImage'
  BY <1>2 DEF SameDigest, WholeImage, Working
<1>4. CASE op.kind = "recover"
  BY <1>1, <1>2, <1>4 DEF Publish, inforce, ImageInv, ImageParts, AppliesInForce, SameDigest, WholeImage,
                          CollectsAccepted, AcceptedImageKept, Working
<1>5. CASE op.kind # "recover"
  <2>1. accepted' = Plan /\ rootfs' = op.img /\ Plan.img = op.img /\ op'.collect.img = op.img
    BY <1>2, <1>5 DEF Publish, Plan
  <2>2. images[op.img] = "ready" /\ op.img # None
    BY <1>0, <1>5 DEF ImageInv, WholeImage, BaseInv, OpKnows
  <2> QED
    BY <1>1, <1>3, <2>1, <2>2 DEF ImageParts, AppliesInForce, CollectsAccepted, AcceptedImageKept
<1> QED BY <1>4, <1>5

\* A collection is for the accepted image, which it keeps.
LEMMA CollectsImage ==
  ASSUME ImageInv, CollectTrees \/ CollectImages \/ CollectMirrors
  PROVE  ImageParts'
<1> USE DEF At
<1>0. /\ op \in Operations /\ op.kind # "none" /\ BaseInv /\ UNCHANGED inforce
      /\ accepted # None => accepted.img \in Images /\ images[accepted.img] = "ready"
      /\ images \in [Images -> Levels] /\ TypeOK
  BY AtWork DEF CollectTrees, CollectImages, CollectMirrors, ImageInv, BaseInv, TypeOK, Plans,
                AcceptedImageKept
<1>1. accepted # None => images'[accepted.img] = "ready"
  <2>1. CASE CollectTrees \/ CollectMirrors
    BY <1>0, <2>1 DEF CollectTrees, CollectMirrors
  <2>2. CASE CollectImages
    <3>1. CASE images[op.collect.img] = "ready"
      <4>1. \A k \in Images : k \in {op.collect.img} => images'[k] = images[k]
        BY <1>0, <2>2, <3>1, SweepKeeps DEF CollectImages
      <4>2. accepted # None => op.collect.img = accepted.img
        BY <2>2 DEF CollectImages, ImageInv, BaseInv, OpKnows, CollectsAccepted, Needs
      <4> QED BY <1>0, <4>1, <4>2
    <3>2. CASE images[op.collect.img] # "ready"
      BY <1>0, <2>2, <3>2 DEF CollectImages
    <3> QED BY <3>1, <3>2
  <2> QED BY <2>1, <2>2
<1>2. op' = NoOp \/ op' = [op EXCEPT !.pc = "images"] \/ op' = [op EXCEPT !.pc = "mirrors"]
  BY DEF CollectTrees, CollectImages, CollectMirrors, Ended, Goto
<1>3. CASE op' = NoOp
  BY <1>0, <1>1, <1>3, NoOpTyped
     DEF ImageParts, AppliesInForce, SameDigest, WholeImage, CollectsAccepted, AcceptedImageKept, inforce,
         Working
<1>4. CASE op' # NoOp
  <2>1. op'.pc \in {"images", "mirrors"} /\ op'.kind = op.kind /\ op'.collect = op.collect
    BY <1>0, <1>2, <1>4 DEF Operations
  <2>2. op'.pc \notin Working \cup {"pull"}
    BY <2>1 DEF Working
  <2> QED BY <1>0, <1>1, <2>1, <2>2, GoesOnImage
<1> QED BY <1>3, <1>4

\* The poller, the registry and a restart leave the images alone.
LEMMA WorldImage ==
  ASSUME ImageInv, Poll \/ PollEnds \/ TagMoves \/ Boot \/ UNCHANGED vars
  PROVE  ImageParts'
<1>1. CASE Poll \/ PollEnds \/ TagMoves \/ UNCHANGED vars
  <2>1. UNCHANGED <<images, inforce, op>>
    BY <1>1 DEF Poll, PollEnds, TagMoves, vars, disk
  <2> QED
    BY <2>1 DEF ImageInv, ImageParts, AppliesInForce, SameDigest, WholeImage, CollectsAccepted,
                AcceptedImageKept, inforce
<1>2. CASE Boot
  <2>1. UNCHANGED <<images, accepted>> /\ op' = NoOp
    BY <1>2 DEF Boot, disk
  <2> QED
    BY <2>1, NoOpTyped DEF ImageInv, ImageParts, AppliesInForce, SameDigest, WholeImage,
                           CollectsAccepted, AcceptedImageKept, Working
<1> QED BY <1>1, <1>2

\* ImageInv is inductive.
LEMMA StepImage ==
  ASSUME ApplyBeforeRestore = FALSE, ImageInv, [Next]_vars PROVE ImageInv'
<1>1. BaseInv'
  BY StepBase DEF ImageInv
<1>2. ImageParts'
  BY StartsImage, ConfiguresImage, WorksImage, PublishImage, CollectsImage, WorldImage DEF Next
<1> QED BY <1>1, <1>2 DEF ImageInv, ImageParts

-----------------------------------------------------------------------------
\* The caches, what is in force and the operation keep to their types.
THEOREM CachesType == Spec => []TypeOK
<1>1. Init => BaseInv
  BY InitImageInv DEF ImageInv
<1>2. BaseInv => TypeOK
  BY DEF BaseInv
<1> QED BY <1>1, <1>2, StepBase, PTL DEF Spec

\* The invariant behind what collection keeps.
THEOREM BaseInvariant == Spec => []BaseInv
<1>1. Init => BaseInv
  BY InitImageInv DEF ImageInv
<1> QED BY <1>1, StepBase, PTL DEF Spec

\* The invariant behind what it keeps of the images.
THEOREM ImageInvariant ==
  ASSUME ApplyBeforeRestore = FALSE PROVE Spec => []ImageInv
<1> QED BY InitImageInv, StepImage, PTL DEF Spec

\* The accepted image stays whole, whatever is pulled, fails or is collected, so
\* that a restart finds it offline (image.go, Prune; supervisor.go, collectFailed).
THEOREM AcceptedImageStays ==
  ASSUME ApplyBeforeRestore = FALSE PROVE Spec => []AcceptedImageKept
<1>1. ImageInv => AcceptedImageKept
  BY DEF ImageInv
<1> QED BY <1>1, ImageInvariant, PTL

\* No tag that moves changes the digest of the accepted deployment.
THEOREM DigestKept ==
  ASSUME ApplyBeforeRestore = FALSE PROVE Spec => ImagePreserved
<1>1. ImageInv /\ [Next]_vars =>
        [accepted # None /\ accepted'.img.ref = accepted.img.ref => accepted'.img = accepted.img]_vars
  <2> SUFFICES ASSUME ImageInv, [Next]_vars, vars' # vars, accepted # None,
                      accepted'.img.ref = accepted.img.ref
               PROVE  accepted'.img = accepted.img
    OBVIOUS
  <2>1. CASE Publish /\ op.kind # "recover"
    <3>1. accepted'.img = op.img /\ op.pc \in Working
      BY <2>1 DEF Publish, Plan, At, Working
    <3> QED BY <3>1 DEF ImageInv, SameDigest
  <2>2. CASE ~(Publish /\ op.kind # "recover")
    <3>1. accepted' = accepted
      BY <2>2 DEF Next, Deploy, Apply, Recover, Configure, ConfigureFails, Pull, Pulled, PullFails, Select,
                  Selected, SelectFails, CommitPolicy, Resume, ResumeFails, Reuse, Prepare, Prepared,
                  PrepareFails, StartFails, Publish, CollectTrees, CollectImages, CollectMirrors, Poll,
                  PollEnds, TagMoves, Boot, inforce
    <3> QED BY <3>1
  <2> QED BY <2>1, <2>2
<1> QED BY <1>1, ImageInvariant, PTL DEF Spec, ImagePreserved

\* Collection never removes the mirror that the poller fetches into: it runs for
\* the poller's own source, or while an apply has stopped the poller.
THEOREM PollerSafe == Spec => PollerUndisturbed
<1>1. BaseInv /\ [Next]_vars =>
        [poller.at = "fetching" /\ mirrors[poller.url] # "absent" => mirrors'[poller.url] # "absent"]_vars
  <2> SUFFICES ASSUME BaseInv, [Next]_vars, vars' # vars, poller.at = "fetching",
                      mirrors[poller.url] # "absent"
               PROVE  mirrors'[poller.url] # "absent"
    OBVIOUS
  <2>1. poller.url = cfg.url /\ poller.url \in Sources /\ mirrors \in [Sources -> Levels] /\ TypeOK
    BY DEF BaseInv, PlanOf, TypeOK
  <2>2. ASSUME NEW url, NEW level \in {"partial", "ready"}, Fetched(url, level)
        PROVE  mirrors'[poller.url] # "absent"
    BY <2>1, <2>2 DEF Fetched, Set
  <2>3. CASE Select \/ Selected \/ Poll \/ PollEnds
    BY <2>2, <2>3 DEF Select, Selected, Poll, PollEnds
  <2>4. CASE CollectMirrors
    <3>1. op.collect.url = poller.url
      <4>1. op.pc = "mirrors" /\ op.kind # "apply" /\ op.kind # "recover" /\ op.collect # None
        BY <2>4 DEF CollectMirrors, At, BaseInv, PlanOf, OpKnows
      <4>2. op.kind = "deploy"
        BY <4>1, AtWork
      <4> QED BY <2>1, <4>1, <4>2 DEF BaseInv, KeepsMirror
    <3>2. \A k \in Sources : k \in {op.collect.url} => mirrors'[k] = mirrors[k]
      BY <2>1, <2>4, SweepKeeps DEF CollectMirrors
    <3> QED BY <2>1, <3>1, <3>2
  <2>5. CASE ~(Select \/ Selected \/ Poll \/ PollEnds \/ CollectMirrors)
    <3>1. mirrors' = mirrors
      BY <2>5 DEF Next, Deploy, Apply, Recover, Configure, ConfigureFails, Pull, Pulled, PullFails,
                  SelectFails, CommitPolicy, Resume, ResumeFails, Reuse, Prepare, Prepared, PrepareFails,
                  StartFails, Publish, CollectTrees, CollectImages, TagMoves, Boot, disk
    <3> QED BY <3>1
  <2> QED BY <2>3, <2>4, <2>5
<1> QED BY <1>1, BaseInvariant, PTL DEF Spec, PollerUndisturbed

\* The installation in force stays complete but for the operation that prepares
\* that very installation again (supervisor.go, collectFailed and collect).
THEOREM ServingTreeSafe == Spec => ServingTreeKept
<1>1. BaseInv /\ [Next]_vars =>
        [active # None /\ active' = active /\ trees[active] = "ready" /\ trees'[active] # "ready"
           => Tree = active]_vars
  <2> SUFFICES ASSUME BaseInv, [Next]_vars, vars' # vars, active # None, trees[active] = "ready",
                      trees'[active] # "ready"
               PROVE  Tree = active
    OBVIOUS
  <2>1. active \in Trees /\ trees \in [Trees -> Levels] /\ TypeOK
    BY DEF BaseInv, TypeOK
  <2>2. CASE Prepare \/ Prepared \/ PrepareFails \/ StartFails
    BY <2>1, <2>2 DEF Prepare, Prepared, PrepareFails, StartFails, Set
  <2>3. CASE CollectTrees
    <3>1. \A k \in Trees : k \in op.keep => trees'[k] = trees[k]
      BY <2>1, <2>3, SweepKeeps DEF CollectTrees
    <3> QED BY <2>1, <2>3, <3>1 DEF CollectTrees, At, BaseInv, KeepsActive
  <2>4. CASE ~(Prepare \/ Prepared \/ PrepareFails \/ StartFails \/ CollectTrees)
    <3>1. trees' = trees
      BY <2>4 DEF Next, Deploy, Apply, Recover, Configure, ConfigureFails, Pull, Pulled, PullFails, Select,
                  Selected, SelectFails, CommitPolicy, Resume, ResumeFails, Reuse, Publish,
                  CollectImages, CollectMirrors, Poll, PollEnds, TagMoves, Boot, disk
    <3> QED BY <3>1
  <2> QED BY <2>2, <2>3, <2>4
<1> QED BY <1>1, BaseInvariant, PTL DEF Spec, ServingTreeKept

-----------------------------------------------------------------------------
(* The bound on the caches, with or without applies before a restore.       *)

\* A deployment configures its image only when none is in force.
ConfiguresFirst == op.kind = "deploy" /\ op.pc \in {"configure", "pull"} => rootfs = None

\* The image in force is whole, so that collection prunes the others; and
\* collection is for what is in force, if anything is.
RootfsWhole == rootfs # None => images[rootfs] = "ready"
CollectsInForce ==
    op.collect # None /\ rootfs # None => op.collect = [url |-> cfg.url, img |-> rootfs]

\* It keeps one installation at most beside the one in force.
KeepsOne == op.pc \in Finishing /\ rootfs # None => \E c \in Trees : op.keep \subseteq {active, c}

\* Between a collection and the next, only an operation's own plan is cached
\* beside what is in force and what the collection kept.
Bound == rootfs # None /\ ~littered
ImagesHeld ==
    Bound /\ (op.pc \in {"trees", "images"} => op.collect = None) =>
        \A i \in Images : \/ images[i] = "absent" \/ i = rootfs
                          \/ op.pc \in Working \cup {"pull"} /\ i = op.img
MirrorsHeld ==
    Bound /\ (op.pc \in Finishing => op.collect = None) =>
        \A s \in Sources : mirrors[s] = "absent" \/ s = cfg.url \/ (op.pc \in Working /\ s = op.url)
TreesSwept ==
    Bound /\ op.pc \in {"images", "mirrors"} => \A t \in Trees : trees[t] = "absent" \/ t \in op.keep
TreesHeld ==
    Bound /\ (op.kind = "recover" \/ op.pc \notin {"setup", "start"} \cup Finishing) =>
        \E c \in Trees : \A t \in Trees : trees[t] = "absent" \/ t \in {active, c}

BoundParts == /\ WholeImage /\ ConfiguresFirst /\ RootfsWhole /\ CollectsInForce /\ KeepsOne
              /\ ImagesHeld /\ MirrorsHeld /\ TreesSwept /\ TreesHeld
BoundInv == BaseInv /\ BoundParts

\* A step of an operation on its way, which caches no more than its own plan.
LEMMA GoesOnBound ==
  ASSUME BoundInv, UNCHANGED <<inforce, littered>>, op.pc \notin Finishing, op'.pc \notin Finishing,
         op'.kind = op.kind, op'.collect = op.collect, op'.url = op.url,
         op.kind = "deploy" /\ op'.pc \in {"configure", "pull"} => op.pc \in {"configure", "pull"},
         op'.pc \in Working /\ op.kind # "recover" => images'[op'.img] = "ready",
         op'.pc = "pull" => images'[op'.img] # "ready",
         rootfs # None => images'[rootfs] = "ready",
         op.pc \in Working \cup {"pull"} => op'.pc \in Working \cup {"pull"} /\ op'.img = op.img,
         op.pc \in Working => op'.pc \in Working,
         \A i \in Images : \/ images'[i] \in {images[i], "absent"}
                           \/ op'.pc \in Working \cup {"pull"} /\ i = op'.img,
         \A s \in Sources : \/ mirrors'[s] \in {mirrors[s], "absent"}
                            \/ op'.pc \in Working /\ s = op.url,
         \A t \in Trees : \/ trees'[t] \in {trees[t], "absent"} \/ t = active
                          \/ op.kind # "recover" /\ op'.pc \in {"setup", "start"},
         op.kind # "recover" /\ op.pc \in {"setup", "start"} => op'.pc \in {"setup", "start"}
  PROVE  BoundParts'
<1>1. WholeImage' /\ ConfiguresFirst' /\ RootfsWhole' /\ CollectsInForce' /\ KeepsOne'
  BY DEF BoundInv, BoundParts, WholeImage, ConfiguresFirst, RootfsWhole, CollectsInForce, KeepsOne, inforce
<1>2. ImagesHeld' /\ MirrorsHeld'
  <2>1. op.pc \notin {"trees", "images"}
    BY DEF Finishing
  <2> QED BY <2>1 DEF BoundInv, BoundParts, ImagesHeld, MirrorsHeld, Bound, inforce
<1>3. TreesSwept' /\ TreesHeld'
  <2>1. op'.pc \notin {"images", "mirrors"}
    BY DEF Finishing
  <2> QED BY <2>1 DEF BoundInv, BoundParts, TreesSwept, TreesHeld, Bound, inforce
<1> QED BY <1>1, <1>2, <1>3 DEF BoundParts

\* An operation that gives up has a collection before it, unless it brought nothing.
LEMMA GivesUpBound ==
  ASSUME BoundInv, op.kind # "none", op.pc \notin Finishing, NEW img \in Images \cup {None},
         GiveUp(img), UNCHANGED inforce,
         IF op.pc \in Working THEN img = op.img ELSE img = None /\ op.pc \in {"configure", "pull"},
         \A i \in Images : images'[i] \in {images[i], "absent"},
         rootfs # None => images'[rootfs] = "ready",
         UNCHANGED mirrors,
         \A t \in Trees : trees'[t] \in {trees[t], "absent"}
  PROVE  BoundParts'
<1>0. /\ op \in Operations /\ TypeOK /\ OpKnows /\ InForce /\ PlanOf
      /\ op.kind \in {"deploy", "recover", "apply"}
  BY DEF BoundInv, BaseInv, Operations
<1>1. CASE Quits(img)
  <2>1. op' = NoOp /\ littered' = littered
    BY <1>1 DEF GiveUp, Ended
  <2>2. /\ op'.pc = "idle" /\ op'.kind = "none" /\ op'.collect = None
        /\ op'.pc \notin Working \cup Finishing \cup {"pull", "configure"}
    BY <2>1, NoOpTyped DEF Working, Finishing
  <2>3. op.kind = "recover" \/ rootfs = None
    <3>1. CASE op.kind = "deploy"
      <4>1. img = None
        BY <1>1, <3>1 DEF Quits
      <4>2. op.pc \in Working => op.img # None
        BY <1>0 DEF OpKnows
      <4>3. op.pc \in {"configure", "pull"}
        BY <4>1, <4>2
      <4> QED BY <3>1, <4>3 DEF BoundInv, BoundParts, ConfiguresFirst
    <3> QED BY <1>0, <1>1, <3>1 DEF Quits
  <2>4. op.kind = "recover" => op.url = cfg.url /\ op.img = rootfs
    BY <1>0 DEF PlanOf
  <2>5. WholeImage' /\ ConfiguresFirst' /\ RootfsWhole' /\ CollectsInForce' /\ KeepsOne' /\ TreesSwept'
    BY <2>2 DEF WholeImage, ConfiguresFirst, RootfsWhole, CollectsInForce, KeepsOne, TreesSwept, inforce
  <2>6. ImagesHeld' /\ MirrorsHeld'
    <3>1. op.pc \notin {"trees", "images"}
      BY DEF Finishing
    <3> QED BY <2>1, <2>2, <2>3, <2>4, <3>1 DEF BoundInv, BoundParts, ImagesHeld, MirrorsHeld, Bound, inforce
  <2>7. TreesHeld'
    BY <2>1, <2>2, <2>3 DEF BoundInv, BoundParts, TreesHeld, Bound, inforce
  <2> QED BY <2>5, <2>6, <2>7 DEF BoundParts
<1>2. CASE ~Quits(img)
  <2>1. op' = [op EXCEPT !.pc = "trees", !.keep = {op.tree, active} \ {None}, !.collect = NeededBy(img)]
    BY <1>2 DEF GiveUp, CollectFor
  <2>2. /\ op'.pc = "trees" /\ op'.keep = {op.tree, active} \ {None} /\ op'.collect = NeededBy(img)
        /\ op'.kind = op.kind /\ op.kind # "recover"
    BY <1>0, <1>2, <2>1 DEF Operations, Quits
  <2>3. rootfs # None => op'.collect = [url |-> cfg.url, img |-> rootfs] /\ op'.collect # None
    <3>1. ASSUME rootfs # None PROVE [url |-> cfg.url, img |-> rootfs] # None
      BY <1>0, <3>1, RootfsIsCurrent DEF Needs
    <3> QED BY <2>2, <3>1 DEF NeededBy
  <2>4. KeepsOne'
    <3>1. ASSUME rootfs # None PROVE \E c \in Trees : op'.keep \subseteq {active, c}
      <4>1. active \in Trees
        BY <1>0, <3>1, RootfsIsCurrent
      <4>2. CASE op.tree = None
        BY <2>2, <4>1, <4>2
      <4>3. CASE op.tree # None
        BY <1>0, <2>2, <4>3 DEF Operations
      <4> QED BY <4>2, <4>3
    <3> QED BY <3>1 DEF KeepsOne, inforce
  <2>5. WholeImage' /\ ConfiguresFirst' /\ RootfsWhole' /\ CollectsInForce' /\ TreesSwept'
    BY <2>2, <2>3 DEF WholeImage, ConfiguresFirst, RootfsWhole, CollectsInForce, TreesSwept, Working, inforce
  <2>6. ImagesHeld' /\ MirrorsHeld' /\ TreesHeld'
    BY <2>2, <2>3 DEF ImagesHeld, MirrorsHeld, TreesHeld, Bound, Finishing, inforce
  <2> QED BY <2>4, <2>5, <2>6 DEF BoundParts
<1> QED BY <1>1, <1>2

\* An operation that starts takes nothing along but what is in force.
LEMMA StartsBound ==
  ASSUME BoundInv,
         \/ \E sha \in Shas : Deploy(sha)
         \/ \E url \in Sources, ref \in Refs : Apply(url, ref)
         \/ Recover
  PROVE  BoundParts'
<1>1. /\ op = NoOp /\ UNCHANGED <<disk, inforce, littered>> /\ op'.collect = None
      /\ op'.pc \in {"configure", "prepare"} /\ (op'.kind = "recover" => op'.pc = "prepare")
      /\ op'.pc = "prepare" => op'.img = rootfs /\ rootfs # None
      /\ op'.kind = "deploy" /\ op'.pc = "configure" => rootfs = None
  <2>1. ASSUME NEW sha \in Shas, Deploy(sha)
        PROVE  /\ op = NoOp /\ UNCHANGED <<disk, inforce, littered>> /\ op'.collect = None
               /\ op'.pc \in {"configure", "prepare"} /\ op'.kind = "deploy"
               /\ op'.pc = "prepare" => op'.img = rootfs /\ rootfs # None
               /\ op'.pc = "configure" => rootfs = None
    BY <2>1 DEF Deploy, NoOp
  <2>2. ASSUME NEW url \in Sources, NEW ref \in Refs, Apply(url, ref)
        PROVE  /\ op = NoOp /\ UNCHANGED <<disk, inforce, littered>> /\ op'.collect = None
               /\ op'.pc = "configure" /\ op'.kind = "apply"
    BY <2>2 DEF Apply, NoOp
  <2>3. ASSUME Recover
        PROVE  /\ op = NoOp /\ UNCHANGED <<disk, inforce, littered>> /\ op'.collect = None
               /\ op'.pc = "prepare" /\ op'.kind = "recover"
               /\ op'.img = rootfs /\ rootfs # None
    BY <2>3 DEF Recover, NoOp, BoundInv, BaseInv, InForce
  <2>4. CASE \E sha \in Shas : Deploy(sha)
    BY <2>1, <2>4
  <2>5. CASE \E url \in Sources, ref \in Refs : Apply(url, ref)
    BY <2>2, <2>5
  <2>6. CASE Recover
    BY <2>3, <2>6
  <2> QED BY <2>4, <2>5, <2>6
<1>2. /\ op.pc = "idle" /\ op.pc \notin Working \cup Finishing \cup {"pull"}
      /\ op'.pc \notin Finishing \cup {"pull", "setup", "start"}
  BY <1>1, NoOpTyped DEF Working, Finishing
<1>3. WholeImage' /\ ConfiguresFirst' /\ RootfsWhole' /\ CollectsInForce' /\ KeepsOne' /\ TreesSwept'
  <2>1. RootfsWhole /\ op'.pc \notin {"images", "mirrors"}
    BY <1>1 DEF BoundInv, BoundParts
  <2>2. ConfiguresFirst' /\ RootfsWhole' /\ CollectsInForce' /\ KeepsOne' /\ TreesSwept'
    BY <1>1, <1>2, <2>1 DEF ConfiguresFirst, RootfsWhole, CollectsInForce, KeepsOne, TreesSwept, disk,
                            inforce
  <2>3. WholeImage'
    BY <1>1, <1>2, <2>1 DEF WholeImage, RootfsWhole, Working, disk
  <2> QED BY <2>2, <2>3
<1>4. ImagesHeld' /\ MirrorsHeld'
  <2>1. op.pc \notin {"trees", "images"}
    BY <1>2
  <2> QED BY <1>1, <1>2, <2>1 DEF BoundInv, BoundParts, ImagesHeld, MirrorsHeld, Bound, disk, inforce
<1>5. TreesHeld'
  BY <1>1, <1>2 DEF BoundInv, BoundParts, TreesHeld, Bound, Finishing, disk, inforce
<1> QED BY <1>3, <1>4, <1>5 DEF BoundParts

\* The image in force is none that Configure would pull.
LEMMA ConfiguresBound ==
  ASSUME BoundInv, Configure \/ ConfigureFails \/ Pull \/ Pulled \/ PullFails
  PROVE  BoundParts'
<1> USE DEF At
<1>0. /\ op.pc \in {"configure", "pull"} /\ op.kind # "none" /\ op.ref \in Refs /\ BaseInv
      /\ images \in [Images -> Levels] /\ mirrors \in [Sources -> Levels]
      /\ trees \in [Trees -> Levels] /\ op \in Operations /\ TypeOK
      /\ op.pc \notin Working \cup Finishing /\ rootfs \in Images \cup {None}
      /\ rootfs # None => images[rootfs] = "ready"
  BY AtWork DEF Configure, ConfigureFails, Pull, Pulled, PullFails, BoundInv, BoundParts, RootfsWhole,
                BaseInv, TypeOK, Working, Finishing
<1>1. Resolved \in Images /\ Resolved.ref = op.ref
  BY <1>0, KnownIsImage DEF BaseInv
<1>2. CASE Configure
  <2>1. PICK img \in {IF Known # None THEN Known ELSE Resolved} :
          images[img] = "ready" /\ Configured(img)
    BY <1>2 DEF Configure
  <2>2. img \in Images /\ img.ref = op.ref
    BY <1>0, <2>1, KnownIsImage DEF BaseInv
  <2>3. /\ op'.img = img /\ op'.kind = op.kind /\ op'.collect = op.collect /\ op'.url = op.url
        /\ op'.pc \in {"select", "prepare"}
    BY <1>0, <2>1, <2>2, ConfiguredKnows
  <2>4. UNCHANGED <<disk, inforce, littered>> /\ op.pc = "configure"
    BY <1>2 DEF Configure
  <2>5. op'.pc \in Working /\ op'.pc \notin Finishing \cup {"configure", "pull"}
    BY <2>3 DEF Working, Finishing
  <2> QED BY <1>0, <2>1, <2>3, <2>4, <2>5, GoesOnBound DEF disk
<1>3. CASE ConfigureFails
  <2>1. GiveUp(None) /\ UNCHANGED <<disk, inforce>>
    BY <1>3 DEF ConfigureFails
  <2> QED BY <1>0, <2>1, GivesUpBound DEF disk
<1>4. CASE Pull
  <2>1. /\ images' = [images EXCEPT ![Resolved] = "partial"] /\ UNCHANGED <<mirrors, trees, inforce, littered>>
        /\ op' = [op EXCEPT !.pc = "pull", !.img = Resolved]
        /\ Known = None /\ images[Resolved] # "ready" /\ op.pc = "configure"
    BY <1>4 DEF Pull, Set
  <2>2. /\ op'.pc = "pull" /\ op'.img = Resolved /\ op'.kind = op.kind /\ op'.collect = op.collect
        /\ op'.url = op.url
    BY <1>0, <2>1 DEF Operations
  <2>3. op'.pc \notin Working \cup Finishing
    BY <2>2 DEF Working, Finishing
  <2>4. rootfs # None => images'[rootfs] = "ready"
    BY <1>0, <1>1, <2>1
  <2>5. \A i \in Images : images'[i] = images[i] \/ i = op'.img
    BY <1>0, <2>1, <2>2
  <2>6. images'[op'.img] # "ready"
    BY <1>0, <1>1, <2>1, <2>2
  <2>7. op.pc \notin Working \cup {"pull"}
    BY <1>0, <2>1
  <2> QED BY <1>0, <2>1, <2>2, <2>3, <2>4, <2>5, <2>6, <2>7, GoesOnBound
<1>5. CASE Pulled
  <2>1. /\ images' = [images EXCEPT ![op.img] = "ready"] /\ Configured(op.img) /\ op.pc = "pull"
        /\ UNCHANGED <<mirrors, trees, inforce, littered>>
    BY <1>5 DEF Pulled, Set
  <2>2. op.img \in Images /\ op.img.ref = op.ref
    BY <1>0, <2>1 DEF BaseInv, OpKnows
  <2>3. /\ op'.img = op.img /\ op'.kind = op.kind /\ op'.collect = op.collect /\ op'.url = op.url
        /\ op'.pc \in {"select", "prepare"}
    BY <1>0, <2>1, <2>2, ConfiguredKnows
  <2>4. op'.pc \in Working /\ op'.pc \notin Finishing \cup {"configure", "pull"}
    BY <2>3 DEF Working, Finishing
  <2>5. \A i \in Images : images'[i] = images[i] \/ i = op'.img
    BY <1>0, <2>1, <2>3
  <2>6. images'[op'.img] = "ready" /\ (rootfs # None => images'[rootfs] = "ready")
    BY <1>0, <2>1, <2>2, <2>3
  <2> QED BY <1>0, <2>1, <2>2, <2>3, <2>4, <2>5, <2>6, GoesOnBound
<1>6. CASE PullFails
  <2>1. /\ images' = [images EXCEPT ![op.img] = "absent"] /\ GiveUp(None) /\ op.pc = "pull"
        /\ UNCHANGED <<mirrors, trees, inforce>>
    BY <1>6 DEF PullFails, Set
  <2>2. images[op.img] # "ready" /\ op.img \in Images
    BY <2>1 DEF BoundInv, BoundParts, WholeImage, BaseInv, OpKnows
  <2>3. \A i \in Images : images'[i] \in {images[i], "absent"}
    BY <1>0, <2>1
  <2>4. rootfs # None => images'[rootfs] = "ready"
    BY <1>0, <2>1, <2>2
  <2> QED BY <1>0, <2>1, <2>3, <2>4, GivesUpBound
<1> QED BY <1>2, <1>3, <1>4, <1>5, <1>6

\* An operation at work writes to the mirror and the installation of its plan only.
LEMMA WorksBound ==
  ASSUME BoundInv, \/ Select \/ Selected \/ Resume \/ ResumeFails \/ Reuse \/ Prepare \/ Prepared
  PROVE  BoundParts'
<1> USE DEF At
<1>0. /\ op.pc \in Working /\ op.pc \notin Finishing \cup {"configure", "pull"} /\ op \in Operations
      /\ op.kind # "none" /\ BaseInv /\ TypeOK /\ UNCHANGED <<images, inforce, littered>>
      /\ op.kind # "recover" => images[op.img] = "ready"
      /\ rootfs # None => images[rootfs] = "ready"
  <2>1. /\ op.pc \in {"select", "fetch", "prepare", "resume", "setup"}
        /\ UNCHANGED <<images, inforce, littered>>
    BY DEF Select, Selected, Resume, ResumeFails, Reuse, Prepare, Prepared, disk
  <2>2. op.pc \in Working /\ op.pc \notin Finishing \cup {"configure", "pull", "idle"}
    BY <2>1 DEF Working, Finishing
  <2> QED BY <2>1, <2>2, AtWork DEF BoundInv, BoundParts, WholeImage, RootfsWhole, BaseInv, OpKnows
<1>1. /\ op'.img = op.img /\ op'.kind = op.kind /\ op'.collect = op.collect /\ op'.url = op.url
      /\ op'.pc \in {"fetch", "prepare", "resume", "setup", "start"}
  <2>1. \/ op' = [op EXCEPT !.pc = "fetch"] \/ op' = [op EXCEPT !.pc = "setup"]
        \/ \E sha \in Shas : op' = [op EXCEPT !.pc = "prepare", !.sha = sha]
        \/ op' = [op EXCEPT !.pc = "resume", !.tree = Tree]
        \/ op' = [op EXCEPT !.pc = "prepare", !.tree = None]
        \/ op' = [op EXCEPT !.pc = "start", !.tree = Tree]
    BY DEF Select, Selected, Resume, ResumeFails, Reuse, Prepare, Prepared, Goto
  <2>2. CASE op' = [op EXCEPT !.pc = "fetch"] \/ op' = [op EXCEPT !.pc = "setup"]
    BY <1>0, <2>2 DEF Operations
  <2>3. CASE \E sha \in Shas : op' = [op EXCEPT !.pc = "prepare", !.sha = sha]
    BY <1>0, <2>3 DEF Operations
  <2>4. ASSUME NEW pc \in {"resume", "prepare", "start"}, NEW tree,
               op' = [op EXCEPT !.pc = pc, !.tree = tree]
        PROVE  /\ op'.img = op.img /\ op'.kind = op.kind /\ op'.collect = op.collect
               /\ op'.url = op.url /\ op'.pc = pc
    BY <1>0, <2>4 DEF Operations
  <2> QED BY <2>1, <2>2, <2>3, <2>4
<1>2. op'.pc \in Working /\ op'.pc \notin Finishing \cup {"configure", "pull"}
  BY <1>1 DEF Working, Finishing
<1>3. \A s \in Sources : mirrors'[s] = mirrors[s] \/ s = op.url
  <2>1. mirrors' = mirrors \/ \E level : mirrors' = [mirrors EXCEPT ![op.url] = level]
    BY DEF Select, Selected, Resume, ResumeFails, Reuse, Prepare, Prepared, Fetched, Set, disk
  <2> QED BY <1>0, <2>1 DEF TypeOK
<1>4. /\ trees' = trees \/ (op'.pc \in {"setup", "start"} /\ \E level : trees' = [trees EXCEPT ![Tree] = level])
      /\ op.pc \in {"setup", "start"} => op'.pc \in {"setup", "start"}
  <2>1. CASE Select \/ Selected \/ Resume \/ ResumeFails \/ Reuse
    BY <1>0, <2>1 DEF Select, Selected, Resume, ResumeFails, Reuse, disk
  <2>2. CASE Prepare
    BY <1>0, <2>2 DEF Prepare, Goto, Set, Operations
  <2>3. CASE Prepared
    BY <1>0, <2>3 DEF Prepared, Set, Operations
  <2> QED BY <2>1, <2>2, <2>3
<1>5. \A t \in Trees : \/ trees'[t] = trees[t] \/ t = active
                       \/ op.kind # "recover" /\ op'.pc \in {"setup", "start"}
  <2>1. op.kind = "recover" => Tree = active
    BY <1>0, RootfsIsCurrent DEF BaseInv, PlanOf, Tree
  <2> QED BY <1>0, <1>4, <2>1 DEF TypeOK
<1> QED BY <1>0, <1>1, <1>2, <1>3, <1>4, <1>5, GoesOnBound

\* One that fails leaves its plan to collection.
LEMMA FailsBound ==
  ASSUME BoundInv, SelectFails \/ CommitPolicy \/ PrepareFails \/ StartFails
  PROVE  BoundParts'
<1> USE DEF At
<1>0. /\ op.pc \in Working /\ op.pc \notin Finishing /\ op \in Operations
      /\ op.kind # "none" /\ BaseInv /\ TypeOK /\ UNCHANGED <<images, mirrors, inforce>>
      /\ op.img \in Images /\ (rootfs # None => images[rootfs] = "ready")
  <2>1. op.pc \in {"fetch", "prepare", "setup", "start"} /\ UNCHANGED <<images, mirrors, inforce>>
    BY DEF SelectFails, CommitPolicy, PrepareFails, StartFails, disk
  <2>2. op.pc \in Working /\ op.pc \notin Finishing \cup {"idle"}
    BY <2>1 DEF Working, Finishing
  <2> QED BY <2>1, <2>2, AtWork DEF BoundInv, BoundParts, RootfsWhole, BaseInv, OpKnows
<1>1. CASE GiveUp(op.img)
  <2>1. trees' = trees \/ trees' = [trees EXCEPT ![Tree] = "absent"]
        \/ \E level \in {"absent", trees[Tree]} : trees' = [trees EXCEPT ![Tree] = level]
    BY DEF SelectFails, CommitPolicy, PrepareFails, StartFails, Set, disk
  <2>2. \A t \in Trees : trees'[t] \in {trees[t], "absent"}
    BY <1>0, <2>1 DEF TypeOK
  <2> QED BY <1>0, <1>1, <2>2, GivesUpBound
<1>2. CASE ~GiveUp(op.img)
  <2>1. /\ op' = NoOp /\ op.pc = "prepare" /\ op.kind = "apply" /\ Serves
        /\ UNCHANGED <<disk, littered>>
    BY <1>2 DEF SelectFails, CommitPolicy, PrepareFails, StartFails, Ended
  <2>2. op.img = rootfs /\ op.url = cfg.url
    BY <2>1 DEF Serves
  <2>3. /\ op'.pc = "idle" /\ op'.kind = "none" /\ op'.collect = None
        /\ op'.pc \notin Working \cup Finishing \cup {"pull", "configure"}
    BY <2>1, NoOpTyped DEF Working, Finishing
  <2>4. WholeImage' /\ ConfiguresFirst' /\ RootfsWhole' /\ CollectsInForce' /\ KeepsOne' /\ TreesSwept'
    BY <1>0, <2>3 DEF WholeImage, ConfiguresFirst, RootfsWhole, CollectsInForce, KeepsOne, TreesSwept, inforce
  <2>5. ImagesHeld' /\ MirrorsHeld' /\ TreesHeld'
    BY <1>0, <2>1, <2>2, <2>3 DEF BoundInv, BoundParts, ImagesHeld, MirrorsHeld, TreesHeld, Bound, Finishing,
                                  disk, inforce
  <2> QED BY <2>4, <2>5 DEF BoundParts
<1> QED BY <1>1, <1>2

\* What is published is collected for; a recovery brought nothing new.
LEMMA PublishBound ==
  ASSUME BoundInv, Publish PROVE BoundParts'
<1> USE DEF At
<1>0. /\ op.pc \in {"start", "resume"} /\ op.pc \in Working /\ op.pc \notin Finishing /\ op \in Operations
      /\ BaseInv /\ op.img \in Images /\ op.url \in Sources /\ Tree \in Trees /\ TypeOK
      /\ UNCHANGED disk
  BY HasTree DEF Publish, Working, Finishing, BoundInv, BaseInv
<1> DEFINE needs == IF op.kind = "recover" THEN None ELSE [url |-> op.url, img |-> op.img]
<1>1. op' = [op EXCEPT !.pc = "trees", !.keep = {Tree}, !.collect = needs]
  BY DEF Publish
<1>2. op'.pc = "trees" /\ op'.kind = op.kind /\ op'.collect = needs /\ op'.keep = {Tree}
  <2> HIDE DEF needs
  <2> QED BY <1>0, <1>1 DEF Operations
<1>3. op'.pc \notin Working \cup {"pull", "configure", "images", "mirrors"} /\ op'.pc \in Finishing
  BY <1>2 DEF Working, Finishing
<1>4. WholeImage' /\ ConfiguresFirst' /\ TreesSwept'
  BY <1>3 DEF WholeImage, ConfiguresFirst, TreesSwept
<1>5. KeepsOne'
  <2>1. op'.keep \subseteq {active', Tree}
    BY <1>2
  <2> QED BY <1>0, <2>1 DEF KeepsOne
<1>6. CASE op.kind = "recover"
  <2>1. UNCHANGED <<images, mirrors, trees, inforce, littered>> /\ op'.collect = None
    BY <1>0, <1>2, <1>6 DEF Publish, disk
  <2>2. op.img = rootfs /\ op.url = cfg.url
    BY <1>0, <1>6 DEF BaseInv, PlanOf
  <2>3. RootfsWhole' /\ CollectsInForce'
    BY <2>1 DEF BoundInv, BoundParts, RootfsWhole, CollectsInForce, inforce
  <2>4. ImagesHeld' /\ MirrorsHeld'
    <3>1. op.pc \notin {"trees", "images"}
      BY <1>0
    <3> QED BY <1>0, <1>3, <2>1, <2>2, <3>1 DEF BoundInv, BoundParts, ImagesHeld, MirrorsHeld, Bound, inforce
  <2>5. TreesHeld'
    BY <1>2, <1>6, <2>1 DEF BoundInv, BoundParts, TreesHeld, Bound, inforce
  <2> QED BY <1>4, <1>5, <2>3, <2>4, <2>5 DEF BoundParts
<1>7. CASE op.kind # "recover"
  <2>1. /\ cfg' = [url |-> op.url, ref |-> op.ref] /\ rootfs' = op.img
        /\ op'.collect = [url |-> op.url, img |-> op.img]
    BY <1>2, <1>7 DEF Publish
  <2>2. op'.collect # None
    BY <1>0, <2>1 DEF Needs
  <2>3. images[op.img] = "ready"
    BY <1>0, <1>7 DEF BoundInv, BoundParts, WholeImage
  <2>4. RootfsWhole' /\ CollectsInForce'
    BY <1>0, <2>1, <2>3 DEF RootfsWhole, CollectsInForce, disk
  <2>5. ImagesHeld' /\ MirrorsHeld' /\ TreesHeld'
    BY <1>2, <1>3, <1>7, <2>2 DEF ImagesHeld, MirrorsHeld, TreesHeld
  <2> QED BY <1>4, <1>5, <2>4, <2>5 DEF BoundParts
<1> QED BY <1>6, <1>7

\* A removal of which nothing failed leaves what is kept only.
LEMMA SweepEmpties ==
  ASSUME NEW D, NEW cache \in [D -> Levels], NEW keep, NEW new, Sweep(cache, keep, new)
  PROVE  ~littered' => ~littered /\ \A k \in D : new[k] = "absent" \/ k \in keep
<1>1. CASE new = Emptied(cache, keep, {}) /\ UNCHANGED <<littered, faults>>
  <2>1. new = [k \in D |-> IF k \in keep \cup {} THEN cache[k] ELSE "absent"]
    BY <1>1 DEF Emptied
  <2> QED BY <1>1, <2>1
<1>2. CASE ~(new = Emptied(cache, keep, {}) /\ UNCHANGED <<littered, faults>>)
  BY <1>2 DEF Sweep
<1> QED BY <1>1, <1>2

\* Collection leaves what is in force, and one installation beside it.
LEMMA CollectsBound ==
  ASSUME BoundInv, CollectTrees \/ CollectImages \/ CollectMirrors
  PROVE  BoundParts'
<1> USE DEF At
<1>0. /\ op \in Operations /\ op.pc \in Finishing /\ op.kind # "none" /\ BaseInv /\ UNCHANGED inforce
      /\ images \in [Images -> Levels] /\ mirrors \in [Sources -> Levels]
      /\ trees \in [Trees -> Levels] /\ TypeOK
      /\ op.pc \notin Working \cup {"idle", "configure", "pull", "setup", "start"}
      /\ op.pc \in {"images", "mirrors"} => op.collect \in Needs /\ op.collect # None
  BY AtWork DEF CollectTrees, CollectImages, CollectMirrors, BoundInv, BaseInv, TypeOK, Working, Finishing,
                OpKnows
<1>1. \/ /\ op' = NoOp /\ op'.pc = "idle" /\ op'.collect = None
      \/ /\ op'.pc \in {"images", "mirrors"} /\ op'.kind = op.kind /\ op'.collect = op.collect
         /\ op'.keep = op.keep /\ op'.kind # "recover"
  <2>1. CASE op' = NoOp
    BY <2>1, NoOpTyped
  <2>2. CASE op' # NoOp
    <3>1. /\ op' = [op EXCEPT !.pc = "images"] \/ op' = [op EXCEPT !.pc = "mirrors"]
          /\ op.pc \in {"images", "mirrors"} \/ op.collect # None
      BY <2>2 DEF CollectTrees, CollectImages, CollectMirrors, Ended, Goto
    <3>2. op.kind # "recover"
      BY <1>0, <3>1 DEF BaseInv, OpKnows
    <3> QED BY <1>0, <3>1, <3>2 DEF Operations
  <2> QED BY <2>1, <2>2
<1>2. op'.pc \notin Working \cup {"pull", "configure", "trees", "setup", "start"}
  BY <1>1 DEF Working
<1>3. WholeImage' /\ ConfiguresFirst' /\ CollectsInForce' /\ KeepsOne'
  BY <1>0, <1>1, <1>2 DEF BoundInv, BoundParts, WholeImage, ConfiguresFirst, CollectsInForce, KeepsOne,
                          Finishing, inforce
<1>4. ASSUME rootfs # None
      PROVE  /\ op.collect # None => op.collect.img = rootfs /\ op.collect.url = cfg.url
             /\ rootfs \in Images /\ images[rootfs] = "ready"
             /\ \E c \in Trees : op.keep \subseteq {active, c}
  BY <1>0, <1>4 DEF BoundInv, BoundParts, CollectsInForce, RootfsWhole, KeepsOne, TypeOK
<1>5. CASE CollectTrees
  <2>1. op.pc = "trees" /\ UNCHANGED <<images, mirrors>>
    BY <1>5 DEF CollectTrees
  <2>2. ~littered' => ~littered /\ \A t \in Trees : trees'[t] = "absent" \/ t \in op.keep
    BY <1>0, <1>5, SweepEmpties DEF CollectTrees
  <2>3. op' = NoOp => op.collect = None
    <3>1. op' = [op EXCEPT !.pc = "images"] => op'.pc = "images"
      BY <1>0 DEF Operations
    <3> QED BY <1>5, <3>1, NoOpTyped DEF CollectTrees, Goto
  <2>4. op' # NoOp => op.collect # None /\ op'.pc = "images"
    <3>1. op' = [op EXCEPT !.pc = "images"] => op'.pc = "images"
      BY <1>0 DEF Operations
    <3> QED BY <1>5, <3>1 DEF CollectTrees, Ended, Goto
  <2>5. RootfsWhole'
    BY <1>0, <1>4, <2>1 DEF RootfsWhole, inforce
  <2>6. ImagesHeld' /\ MirrorsHeld'
    BY <1>0, <1>1, <1>2, <2>1, <2>2, <2>3, <2>4
       DEF BoundInv, BoundParts, ImagesHeld, MirrorsHeld, Bound, Finishing, inforce
  <2>7. TreesSwept'
    BY <1>0, <1>1, <2>2 DEF TreesSwept, Bound, inforce
  <2>8. TreesHeld'
    BY <1>0, <1>1, <1>4, <2>2 DEF TreesHeld, Bound, Finishing, inforce
  <2> QED BY <1>3, <2>5, <2>6, <2>7, <2>8 DEF BoundParts
<1>6. CASE CollectImages
  <2>1. op.pc = "images" /\ UNCHANGED <<trees, mirrors>> /\ op'.pc = "mirrors" /\ op' # NoOp
    <3>1. op' = [op EXCEPT !.pc = "mirrors"] /\ op.pc = "images" /\ UNCHANGED <<trees, mirrors>>
      BY <1>6 DEF CollectImages, Goto
    <3>2. op'.pc = "mirrors"
      BY <1>0, <3>1 DEF Operations
    <3> QED BY <3>1, <3>2, NoOpTyped
  <2>2. ASSUME rootfs # None
        PROVE  /\ images'[rootfs] = "ready"
               /\ ~littered' => ~littered /\ \A i \in Images : images'[i] = "absent" \/ i = rootfs
    <3>1. op.collect.img = rootfs /\ Sweep(images, {rootfs}, images')
      BY <1>0, <1>4, <1>6, <2>1, <2>2 DEF CollectImages
    <3> DEFINE new == images'
    <3>2. /\ \A i \in Images : i \in {rootfs} => new[i] = images[i]
          /\ ~littered' => ~littered /\ \A i \in Images : new[i] = "absent" \/ i \in {rootfs}
      <4>1. Sweep(images, {rootfs}, new)
        BY <3>1
      <4> HIDE DEF new
      <4> QED BY <1>0, <4>1, SweepKeeps, SweepEmpties
    <3> QED BY <1>4, <2>2, <3>2
  <2>3. RootfsWhole'
    BY <1>0, <2>2 DEF RootfsWhole, inforce
  <2>4. ImagesHeld' /\ MirrorsHeld'
    BY <1>0, <1>1, <1>2, <2>1, <2>2 DEF ImagesHeld, MirrorsHeld, Bound, Finishing, inforce
  <2>5. ~littered' => ~littered
    BY <1>6 DEF CollectImages, Sweep
  <2>6. TreesSwept' /\ TreesHeld'
    BY <1>0, <1>1, <2>1, <2>5
       DEF BoundInv, BoundParts, TreesSwept, TreesHeld, Bound, Finishing, inforce
  <2> QED BY <1>3, <2>3, <2>4, <2>6 DEF BoundParts
<1>7. CASE CollectMirrors
  <2>1. op.pc = "mirrors" /\ UNCHANGED <<trees, images>> /\ op' = NoOp
    BY <1>7 DEF CollectMirrors, Ended
  <2>2. ~littered' => ~littered /\ \A s \in Sources : mirrors'[s] = "absent" \/ s = op.collect.url
    BY <1>0, <1>7, SweepEmpties DEF CollectMirrors
  <2>3. op'.pc = "idle" /\ op'.kind = "none" /\ op'.collect = None
    BY <2>1, NoOpTyped
  <2>4. RootfsWhole'
    BY <1>0, <1>4, <2>1 DEF RootfsWhole, inforce
  <2>5. ImagesHeld'
    BY <1>0, <2>1, <2>2, <2>3 DEF BoundInv, BoundParts, ImagesHeld, Bound, inforce
  <2>6. MirrorsHeld'
    BY <1>0, <1>4, <2>1, <2>2, <2>3 DEF MirrorsHeld, Bound, inforce
  <2>7. TreesSwept'
    BY <2>3 DEF TreesSwept
  <2>8. TreesHeld'
    BY <1>0, <1>4, <2>1, <2>2, <2>3 DEF BoundInv, BoundParts, TreesSwept, TreesHeld, Bound, inforce
  <2> QED BY <1>3, <2>4, <2>5, <2>6, <2>7, <2>8 DEF BoundParts
<1> QED BY <1>5, <1>6, <1>7

\* The poller fetches for the source in force; a restart has nothing in force.
LEMMA WorldBound ==
  ASSUME BoundInv, Poll \/ PollEnds \/ TagMoves \/ Boot \/ UNCHANGED vars
  PROVE  BoundParts'
<1>1. CASE Poll \/ PollEnds \/ TagMoves \/ UNCHANGED vars
  <2>1. UNCHANGED <<images, trees, inforce, op, littered>>
    BY <1>1 DEF Poll, PollEnds, TagMoves, vars, disk
  <2>2. \A s \in Sources : mirrors'[s] = mirrors[s] \/ s = cfg.url
    <3>1. mirrors' = mirrors \/ \E level : mirrors' = [mirrors EXCEPT ![poller.url] = level]
      BY <1>1 DEF Poll, PollEnds, TagMoves, vars, disk, Fetched, Set
    <3>2. mirrors' = mirrors \/ poller.url = cfg.url
      BY <1>1 DEF Poll, PollEnds, TagMoves, vars, disk, BoundInv, BaseInv, PlanOf
    <3> QED BY <3>1, <3>2 DEF BoundInv, BaseInv, TypeOK
  <2>3. MirrorsHeld'
    BY <2>1, <2>2 DEF BoundInv, BoundParts, MirrorsHeld, Bound, inforce
  <2>4. /\ WholeImage' /\ ConfiguresFirst' /\ RootfsWhole' /\ CollectsInForce' /\ KeepsOne'
        /\ ImagesHeld' /\ TreesSwept' /\ TreesHeld'
    BY <2>1 DEF BoundInv, BoundParts, WholeImage, ConfiguresFirst, RootfsWhole, CollectsInForce, KeepsOne,
                ImagesHeld, TreesSwept, TreesHeld, Bound, inforce
  <2> QED BY <2>3, <2>4 DEF BoundParts
<1>2. CASE Boot
  <2>1. rootfs' = None /\ op' = NoOp
    BY <1>2 DEF Boot
  <2>2. op'.pc = "idle"
    BY <2>1, NoOpTyped
  <2> QED
    BY <2>1, <2>2 DEF BoundParts, WholeImage, ConfiguresFirst, RootfsWhole, CollectsInForce, KeepsOne,
                      ImagesHeld, MirrorsHeld, TreesSwept, TreesHeld, Bound, Working, Finishing
<1> QED BY <1>1, <1>2

\* BoundInv is inductive.
LEMMA StepBound ==
  ASSUME BoundInv, [Next]_vars PROVE BoundInv'
<1>1. BaseInv'
  BY StepBase DEF BoundInv
<1>2. BoundParts'
  BY StartsBound, ConfiguresBound, WorksBound, FailsBound, PublishBound, CollectsBound, WorldBound DEF Next
<1> QED BY <1>1, <1>2 DEF BoundInv

\* Nothing is in force at first.
LEMMA InitBound == Init => BoundInv
<1> SUFFICES ASSUME Init PROVE BoundInv
  OBVIOUS
<1>1. BaseInv /\ op = NoOp /\ rootfs = None
  BY InitImageInv DEF Init, ImageInv
<1> QED
  BY <1>1, NoOpTyped DEF BoundInv, BoundParts, WholeImage, ConfiguresFirst, RootfsWhole, CollectsInForce,
                         KeepsOne, ImagesHeld, MirrorsHeld, TreesSwept, TreesHeld, Bound, Working, Finishing

\* What the caches may hold between operations follows from the invariant.
LEMMA BoundInvBounds ==
  ASSUME BoundInv PROVE CachesBounded
<1> SUFFICES ASSUME op = NoOp, rootfs # None, ~littered
             PROVE  /\ Present(images) \subseteq {rootfs} /\ Present(mirrors) \subseteq {cfg.url}
                    /\ Cardinality(Present(trees) \ {active}) <= 1
  BY DEF CachesBounded
<1>0. /\ images \in [Images -> Levels] /\ mirrors \in [Sources -> Levels]
      /\ trees \in [Trees -> Levels]
      /\ op.pc = "idle" /\ op.pc \notin Working \cup Finishing \cup {"pull", "trees", "images", "setup", "start"}
  BY NoOpTyped DEF BoundInv, BaseInv, TypeOK, Working, Finishing
<1>1. \A i \in Images : images[i] = "absent" \/ i = rootfs
  BY <1>0 DEF BoundInv, BoundParts, ImagesHeld, Bound
<1>2. \A s \in Sources : mirrors[s] = "absent" \/ s = cfg.url
  BY <1>0 DEF BoundInv, BoundParts, MirrorsHeld, Bound
<1>3. PICK c \in Trees : \A t \in Trees : trees[t] = "absent" \/ t \in {active, c}
  BY <1>0 DEF BoundInv, BoundParts, TreesHeld, Bound
<1>4. Present(images) \subseteq {rootfs} /\ Present(mirrors) \subseteq {cfg.url}
  BY <1>0, <1>1, <1>2 DEF Present
<1>5. Present(trees) \ {active} \in SUBSET {c}
  BY <1>0, <1>3 DEF Present
<1>6. Cardinality(Present(trees) \ {active}) <= 1
  <2>1. IsFiniteSet({c}) /\ Cardinality({c}) = 1
    BY FS_Singleton
  <2> QED BY <1>5, <2>1, FS_Subset
<1> QED BY <1>4, <1>6

\* The invariant behind the bound.
THEOREM BoundInvariant == Spec => []BoundInv
<1> QED BY InitBound, StepBound, PTL DEF Spec

\* Between operations nothing is cached but the image and mirror in force, and
\* one installation beside the active one, unless a removal failed
\* (supervisor.go, collect and collectFailed; image.go, Prune).
THEOREM BoundHolds == Spec => []CachesBounded
<1> QED BY BoundInvBounds, BoundInvariant, PTL
=============================================================================
