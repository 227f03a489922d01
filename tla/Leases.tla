------------------------------- MODULE Leases -------------------------------
(***************************************************************************)
(* The unprivileged users of internal/state: every writable installation   *)
(* belongs to a user of its own, which a directory under /run reserves and *)
(* a record inside the installation remembers. Claiming, removing and      *)
(* releasing take several steps; the engine's goroutine, kill-draining     *)
(* requests and crashes of the supervisor come between them, and /run can  *)
(* be lost while the data directory survives.                              *)
(***************************************************************************)
EXTENDS Naturals, FiniteSets

CONSTANTS
    Instances,   \* installations under instances/
    Prepared,    \* installations under prepared/
    Users,       \* the workload UIDs
    Killers,     \* kill-draining requests
    None,
    MaxFaults,   \* bound on failing steps
    MaxCrashes,  \* bound on crashes
    Departures   \* which of the known ways to break a property may happen:
                 \* "walk"     /run is lost during an ownership walk
                 \* "copy"     a copy that is not its own user's cannot be removed
                 \* "claim"    a crash between the two steps of a reservation
                 \* "release"  two releases of one lease at once

ASSUME LeaseAssumption ==
    /\ Instances \cap Prepared = {}
    /\ None \notin Instances \cup Prepared \cup Users
    /\ "loop" \notin Killers
    /\ MaxFaults \in Nat /\ MaxCrashes \in Nat
    /\ Departures \subseteq {"walk", "copy", "claim", "release"}

Bundles == Instances \cup Prepared
Actors  == {"loop"} \cup Killers

VARIABLES
    claimed,   \* users whose directory under /run/easy-service/users exists
    lease,     \* lease[u]: the installation that owner.json in it names
    exists,    \* installations that have a directory
    files,     \* files[b]: users to whom files of b belong
    owner,     \* owner[b]: the user that the record inside b names
    ready,     \* prepared installations marked complete
    torn,      \* prepared installations whose removal has begun
    running,   \* <<b, u>>: processes of user u run on b
    accepted,  \* the installation that active.json names
    rejected,  \* whether that was given up: it did not become healthy, or a boot
               \* failed to write its lease
    phase,     \* "up", or what Reconcile is doing
    work,      \* what each actor is doing
    faults, crashes

disk   == <<exists, files, owner, ready, torn>>
run    == <<claimed, lease>>
bounds == <<faults, crashes>>
record == <<accepted, rejected>>
vars   == <<disk, run, running, record, phase, work, bounds>>

Removals == {"check", "delete", "deleting", "release", "unlink"}

\* Where an actor is, on which installation, with which user, and with the users
\* RemoveSandbox has found to reserve it.
Works == [pc : {"idle", "claim", "record", "own", "owned", "reclaim", "relabel", "launch",
                "setup"} \cup Removals,
          b : Bundles \cup {None}, u : Users \cup {None}, us : SUBSET Users]

AtRest == [pc |-> "idle", b |-> None, u |-> None, us |-> {}]
On(pc, b) == [AtRest EXCEPT !.pc = pc, !.b = b]
Do(a, w) == work' = [work EXCEPT ![a] = w]
Goes(a, pc) == Do(a, [work[a] EXCEPT !.pc = pc])

\* Mutant: processes of a setup are overlooked.
BusyInstance(u) == \E b \in Instances : <<b, u>> \in running

\* SampleUser finds processes of the user.
Busy(u) == \E b \in Bundles : <<b, u>> \in running
Loop == work["loop"]
Ready(pc) == Loop.pc = pc
Fault == faults < MaxFaults /\ faults' = faults + 1

Init ==
    /\ claimed = {} /\ lease = [u \in Users |-> None]
    /\ exists = {} /\ files = [b \in Bundles |-> {}] /\ owner = [b \in Bundles |-> None]
    /\ ready = {} /\ torn = {} /\ running = {} /\ accepted = None
    /\ rejected = FALSE /\ phase = "up" /\ work = [a \in Actors |-> AtRest]
    /\ faults = 0 /\ crashes = 0

-----------------------------------------------------------------------------
(* The engine's goroutine prepares, starts and restarts installations.      *)

\* Runtime.Prepare: a tree that belongs to root, and a setup to run on it if the
\* configuration has one. Its name is a digest, so it may come back.
Prepare(p) ==
    /\ phase = "up" /\ Ready("idle") /\ p \notin exists
    /\ exists' = exists \cup {p}
    /\ \/ Do("loop", On("claim", p)) /\ UNCHANGED ready
       \/ ready' = ready \cup {p} /\ UNCHANGED work
    /\ UNCHANGED <<files, owner, torn, run, running, record, phase, bounds>>

\* nextID draws 48 random bits: an identity that something still names is not drawn.
Fresh(b) ==
    /\ b \notin exists /\ b # accepted
    /\ \A a \in Actors : work[a].b # b
    /\ \A u \in Users : lease[u] # b

\* Runtime.Start: the copy of the tree belongs to those the tree belongs to.
Start(b, p) ==
    /\ phase = "up" /\ Ready("idle") /\ Fresh(b) /\ p \in ready
    /\ exists' = exists \cup {b}
    /\ files' = [files EXCEPT ![b] = files[p]]
    /\ Do("loop", On("claim", b))
    /\ UNCHANGED <<owner, ready, torn, run, running, record, phase, bounds>>

\* Runtime.Restart: the engine reuses only the installation it has accepted.
Restart ==
    /\ phase = "up" /\ Ready("idle")
    /\ accepted \in exists /\ owner[accepted] # None
    /\ Do("loop", On("reclaim", accepted))
    /\ UNCHANGED <<disk, run, running, record, phase, bounds>>

\* Mutant: it may exist already.
ClaimTaken(u) ==
    /\ Ready("claim")
    /\ claimed' = claimed \cup {u}
    /\ Do("loop", [Loop EXCEPT !.pc = "record", !.u = u])
    /\ UNCHANGED <<disk, lease, running, record, phase, bounds>>

\* newRuntimeOwner: the directory is made if nobody else has it.
Claim(u) ==
    /\ Ready("claim") /\ u \notin claimed
    /\ claimed' = claimed \cup {u}
    /\ Do("loop", [Loop EXCEPT !.pc = "record", !.u = u])
    /\ UNCHANGED <<disk, lease, running, record, phase, bounds>>

\* A user with processes is given up for the next one.
Record ==
    /\ Ready("record")
    /\ IF Busy(Loop.u)
       THEN claimed' = claimed \ {Loop.u} /\ Goes("loop", "claim") /\ UNCHANGED lease
       ELSE lease' = [lease EXCEPT ![Loop.u] = Loop.b] /\ Goes("loop", "own") /\ UNCHANGED claimed
    /\ UNCHANGED <<disk, running, record, phase, bounds>>

\* The ownership walk reaches the first files.
Own ==
    /\ Ready("own")
    /\ files' = [files EXCEPT ![Loop.b] = @ \cup {Loop.u}]
    /\ Goes("loop", "owned")
    /\ UNCHANGED <<exists, owner, ready, torn, run, running, record, phase, bounds>>

\* It is complete, and SaveSandbox records its user.
Owned ==
    /\ Ready("owned")
    /\ files' = [files EXCEPT ![Loop.b] = {Loop.u}]
    /\ owner' = [owner EXCEPT ![Loop.b] = Loop.u]
    /\ Goes("loop", "launch")
    /\ UNCHANGED <<exists, ready, torn, run, running, record, phase, bounds>>

\* What AcquireSandboxOwner requires of an installation and its user.
Reusable(b) ==
    LET u == owner[b]
    IN /\ u # None /\ files[b] = {u} /\ ~Busy(u)
       /\ u \in claimed => lease[u] = b

\* AcquireSandboxOwner on an installation with a record. A boot goes on to the
\* next one, and discards an installation that cannot be reserved.
Reclaim ==
    /\ Ready("reclaim")
    /\ IF ~Reusable(Loop.b)
       THEN Do("loop", IF phase = "up" THEN AtRest ELSE On("check", Loop.b)) /\ UNCHANGED claimed
       ELSE /\ claimed' = claimed \cup {owner[Loop.b]}
            /\ Do("loop", [Loop EXCEPT !.pc = "relabel", !.u = owner[Loop.b]])
    /\ UNCHANGED <<disk, lease, running, record, phase, bounds>>

Relabel ==
    /\ Ready("relabel")
    /\ lease' = [lease EXCEPT ![Loop.u] = Loop.b]
    /\ IF phase = "up" THEN Goes("loop", "launch") ELSE Do("loop", AtRest)
    /\ UNCHANGED <<disk, claimed, running, record, phase, bounds>>

Launch ==
    /\ Ready("launch")
    /\ running' = running \cup {<<Loop.b, Loop.u>>}
    /\ IF Loop.b \in Prepared THEN Goes("loop", "setup") ELSE Do("loop", AtRest)
    /\ UNCHANGED <<disk, run, record, phase, bounds>>

\* Prepare waits for the end of its setup, and removes the tree if it failed.
SetupEnds ==
    /\ Ready("setup") /\ \A u \in Users : <<Loop.b, u>> \notin running
    /\ \/ ready' = ready \cup {Loop.b} /\ Do("loop", AtRest)
       \/ Do("loop", On("check", Loop.b)) /\ UNCHANGED ready
    /\ UNCHANGED <<exists, files, owner, torn, run, running, record, phase, bounds>>

\* A setup that cannot be stopped keeps its tree, which is never complete.
SetupAbandoned ==
    /\ Ready("setup") /\ Fault
    /\ Do("loop", AtRest)
    /\ UNCHANGED <<disk, run, running, record, phase, crashes>>

\* A start that fails removes what it made; a restart leaves it alone, a boot
\* discards it.
StartFails ==
    /\ Loop.pc \in {"claim", "record", "own", "owned", "relabel", "launch"}
    /\ IF Ready("claim") /\ claimed = Users THEN UNCHANGED faults ELSE Fault
    /\ claimed' = IF Ready("record") THEN claimed \ {Loop.u} ELSE claimed
    /\ Do("loop", IF phase = "up" /\ Loop.b = accepted THEN AtRest ELSE On("check", Loop.b))
    /\ rejected' = (rejected \/ (phase # "up" /\ Loop.b = accepted))
    /\ UNCHANGED <<disk, lease, running, accepted, phase, crashes>>

\* publishWith: a running instance becomes the accepted one. Only accepted
\* instances retire, so nobody is removing it.
Accept(b) ==
    /\ phase = "up" /\ Ready("idle")
    /\ b \in Instances /\ \E u \in Users : <<b, u>> \in running
    /\ \A a \in Actors : work[a].b # b
    /\ accepted' = b /\ rejected' = FALSE
    /\ UNCHANGED <<disk, run, running, phase, work, bounds>>

\* deployWith: the saved installation did not become healthy, and is removed.
Reject ==
    /\ phase = "up" /\ Ready("idle")
    /\ accepted \in exists /\ \A u \in Users : <<accepted, u>> \notin running
    /\ rejected' = TRUE
    /\ UNCHANGED <<disk, run, running, accepted, phase, work, bounds>>

Exit(b, u) ==
    /\ <<b, u>> \in running
    /\ running' = running \ {<<b, u>>}
    /\ UNCHANGED <<disk, run, record, phase, work, bounds>>

-----------------------------------------------------------------------------
(* RemoveSandbox, by the engine's goroutine, a kill-draining request or a   *)
(* boot.                                                                    *)

\* The engine removes the accepted installation only when it has given it up, and
\* a request only retired ones, never one that is being started.
Remove(a, b) ==
    /\ phase = "up" /\ work[a].pc = "idle" /\ b \in exists
    /\ b # accepted \/ (a = "loop" /\ rejected)
    /\ a \in Killers => b \in Instances /\ (Loop.b = b => Loop.pc \in Removals)
    /\ Do(a, On("check", b))
    /\ UNCHANGED <<disk, run, running, record, phase, bounds>>

\* An installation whose user has processes is kept.
Check(a) ==
    /\ work[a].pc = "check"
    /\ LET b == work[a].b
           us == {u \in Users : lease[u] = b}
       IN Do(a, IF b \notin exists \/ \E u \in us : Busy(u) THEN AtRest
                ELSE [On("delete", b) EXCEPT !.us = us])
    /\ UNCHANGED <<disk, run, running, record, phase, bounds>>

\* RemoveAll deletes one thing after another, in no order.
Delete(a) ==
    /\ work[a].pc = "delete"
    /\ LET b == work[a].b
       IN /\ owner' \in {owner, [owner EXCEPT ![b] = None]}
          /\ files' \in {files, [files EXCEPT ![b] = {}]}
          /\ ready' \in {ready, ready \ {b}}
          /\ torn' = torn \cup ({b} \cap Prepared)
    /\ Goes(a, "deleting")
    /\ UNCHANGED <<exists, run, running, record, phase, bounds>>

Deleted(a) ==
    /\ work[a].pc = "deleting"
    /\ LET b == work[a].b
       IN /\ exists' = exists \ {b} /\ ready' = ready \ {b} /\ torn' = torn \ {b}
          /\ files' = [files EXCEPT ![b] = {}] /\ owner' = [owner EXCEPT ![b] = None]
          /\ Do(a, IF work[a].us = {} THEN AtRest ELSE [work[a] EXCEPT !.pc = "release"])
    /\ UNCHANGED <<run, running, record, phase, bounds>>

\* RemoveAll stops half way. A boot that cannot remove fails, and begins anew.
DeleteFails(a) ==
    /\ work[a].pc = "deleting" /\ Fault
    /\ "copy" \in Departures \/ \A u \in files[work[a].b] : lease[u] = work[a].b
    /\ Do(a, AtRest)
    /\ phase' = IF phase = "up" THEN "up" ELSE "owners"
    /\ UNCHANGED <<disk, run, running, record, crashes>>

Rest(a, u) ==
    LET us == work[a].us \ {u}
    IN IF us = {} THEN AtRest ELSE [work[a] EXCEPT !.pc = "release", !.us = us]

\* Release: the lease must still be the one that was found, and its user idle.
Release(a, u) ==
    /\ work[a].pc = "release" /\ u \in work[a].us
    /\ "release" \in Departures \/ \A c \in Actors : work[c].pc = "unlink" => work[c].u # u
    /\ Do(a, IF lease[u] = None THEN Rest(a, u)
             ELSE IF lease[u] = work[a].b /\ ~Busy(u)
             THEN [work[a] EXCEPT !.pc = "unlink", !.u = u] ELSE AtRest)
    /\ UNCHANGED <<disk, run, running, record, phase, bounds>>

Unlink(a) ==
    /\ work[a].pc = "unlink"
    /\ claimed' = claimed \ {work[a].u} /\ lease' = [lease EXCEPT ![work[a].u] = None]
    /\ Do(a, Rest(a, work[a].u))
    /\ UNCHANGED <<disk, running, record, phase, bounds>>

-----------------------------------------------------------------------------
(* A crash, and Store.Reconcile on the way up.                              *)

\* The workloads die with the container, or are left behind by a supervisor
\* that died alone; only with the container can /run be lost.
Crash ==
    /\ crashes < MaxCrashes /\ crashes' = crashes + 1
    /\ "claim" \in Departures \/ ~(Ready("relabel") /\ lease[Loop.u] = None)
    /\ \/ running' \in {running, {}} /\ UNCHANGED run
       \/ /\ running' = {} /\ claimed' = {} /\ lease' = [u \in Users |-> None]
          /\ "walk" \in Departures \/ \A p \in Prepared : owner[p] = None => files[p] = {}
    /\ phase' = "owners" /\ work' = [a \in Actors |-> AtRest]
    /\ UNCHANGED <<disk, record, faults>>

Booting(where) == phase = where /\ Ready("idle")

\* Mutant: a lease whose installation is gone is taken for one in use.
SettledOrGone(u) ==
    /\ ~Busy(u)
    /\ lease[u] # None => owner[lease[u]] = u \/ lease[u] \notin exists

\* reconcileRuntimeOwners has nothing left to do for u. A directory without
\* owner.json is passed over, whatever runs.
Settled(u) == lease[u] # None => ~Busy(u) /\ owner[lease[u]] = u

\* Mutant: a lease that its installation confirms is not passed over.
ReconcileEvery(u) ==
    /\ Booting("owners") /\ ~Settled(u)
    /\ running' = {r \in running : r[2] # u}
    /\ LET b == lease[u]
       IN Do("loop", IF b \in exists THEN On("check", b)
                     ELSE [On("release", b) EXCEPT !.us = {u}])
    /\ UNCHANGED <<disk, run, record, phase, bounds>>

\* The processes are killed. A lease that its installation does not confirm is
\* released, together with what there is of the installation.
ReconcileOwner(u) ==
    /\ Booting("owners") /\ ~Settled(u)
    /\ running' = {r \in running : r[2] # u}
    /\ LET b == lease[u]
       IN Do("loop", IF owner[b] = u THEN AtRest
                     ELSE IF b \in exists THEN On("check", b)
                     ELSE [On("release", b) EXCEPT !.us = {u}])
    /\ UNCHANGED <<disk, run, record, phase, bounds>>

OwnersReconciled ==
    /\ Booting("owners") /\ \A u \in Users : Settled(u)
    /\ phase' = "discard"
    /\ UNCHANGED <<disk, run, running, record, work, bounds>>

Kept == {b \in {accepted} : b \in exists /\ owner[b] # None}

Discard(b) ==
    /\ Booting("discard") /\ b \in (Instances \cap exists) \ Kept
    /\ Do("loop", On("check", b))
    /\ UNCHANGED <<disk, run, running, record, phase, bounds>>

Discarded ==
    /\ Booting("discard") /\ (Instances \cap exists) \subseteq Kept
    /\ phase' = "reserve"
    /\ UNCHANGED <<disk, run, running, record, work, bounds>>

\* Mutant: prepared installations are forgotten.
UnreservedInstance(b) ==
    b \in Instances \cap exists /\ owner[b] # None /\ (lease[owner[b]] # b \/ ~Reusable(b))

\* Installations of either area whose user has lost its lease with /run, or
\* whose files are gone.
Unreserved(b) ==
    b \in exists /\ owner[b] # None /\ (lease[owner[b]] # b \/ ~Reusable(b))

Reserve(b) ==
    /\ Booting("reserve") /\ Unreserved(b)
    /\ Do("loop", On("reclaim", b))
    /\ UNCHANGED <<disk, run, running, record, phase, bounds>>

Reserved ==
    /\ Booting("reserve") /\ \A b \in Bundles : ~Unreserved(b)
    /\ phase' = "up"
    /\ UNCHANGED <<disk, run, running, record, work, bounds>>

Boot ==
    \/ OwnersReconciled \/ Discarded \/ Reserved
    \/ \E u \in Users : ReconcileOwner(u)
    \/ \E b \in Bundles : Discard(b) \/ Reserve(b)

Starting ==
    \/ Record \/ Own \/ Owned \/ Reclaim \/ Relabel \/ Launch \/ SetupEnds \/ SetupAbandoned
    \/ StartFails \/ Reject \/ Restart \/ \E u \in Users : Claim(u)
    \/ \E p \in Prepared : Prepare(p) \/ \E b \in Instances : Start(b, p)

Removing(a) ==
    \/ Check(a) \/ Delete(a) \/ Deleted(a) \/ DeleteFails(a) \/ Unlink(a)
    \/ \E u \in Users : Release(a, u)
    \/ \E b \in Bundles : Remove(a, b)

Next ==
    \/ Starting \/ Boot \/ Crash
    \/ \E a \in Actors : Removing(a)
    \/ \E b \in Bundles : Accept(b) \/ \E u \in Users : Exit(b, u)

Spec == Init /\ [][Next]_vars

-----------------------------------------------------------------------------
TypeOK ==
    /\ claimed \subseteq Users /\ lease \in [Users -> Bundles \cup {None}]
    /\ exists \subseteq Bundles /\ files \in [Bundles -> SUBSET Users]
    /\ owner \in [Bundles -> Users \cup {None}] /\ ready \subseteq Prepared
    /\ torn \subseteq Prepared /\ running \subseteq Bundles \X Users /\ accepted \in Instances \cup {None}
    /\ rejected \in BOOLEAN /\ phase \in {"owners", "discard", "reserve", "up"}
    /\ work \in [Actors -> Works]
    /\ faults \in 0..MaxFaults /\ crashes \in 0..MaxCrashes

\* The processes of a user belong to one installation: "a UID is never reused
\* while its processes remain alive", also after /run was lost.
UserRunsOnce == \A p, q \in running : p[2] = q[2] => p[1] = q[1]

\* A running workload owns no file of any other installation: a user is not
\* given to a new one before the last files of the old one are gone.
FilesArePrivate ==
    \A r \in running : \A b \in Bundles \ {r[1]} : r[2] \notin files[b]

\* Writable sandboxes reserve their user even while stopped: once the supervisor
\* is up, the record in an installation is backed by the lease of its user.
ReservedWhileStopped ==
    phase = "up" => \A b \in Bundles : owner[b] # None => lease[owner[b]] = b

\* The accepted installation survives every crash with its files and its user,
\* unless it was given up.
AcceptedKept ==
    accepted # None /\ ~rejected =>
        /\ accepted \in exists
        /\ owner[accepted] # None /\ files[accepted] = {owner[accepted]}

\* No lease on record stays behind for an installation that is gone: whatever crashed,
\* a finished boot has released it, and later removals release theirs. (A claim without
\* a record, which a crash may leave, names no installation and is not meant.)
NoLeaseWithoutFiles ==
    phase = "up" /\ (\A a \in Actors : work[a].pc = "idle") =>
        \A u \in Users : lease[u] # None => lease[u] \in exists
\* A prepared installation passes validation only if it is complete: one whose
\* removal was cut short is never copied again.
PreparedComplete ==
    phase = "up" => \A p \in torn \cap ready : work["loop"].b = p
=============================================================================
