---------------------------- MODULE LeasesProofs ----------------------------
(***************************************************************************)
(* Users and installations, for any number of both, of kill-draining       *)
(* requests, failures and crashes, while none of the known departures      *)
(* happens: no user runs or has files on two installations, what has a     *)
(* record keeps its user, and the accepted installation survives.          *)
(***************************************************************************)
EXTENDS Leases, TLAPS

USE LeaseAssumption DEF Bundles, Actors

At(pcs) == Loop.pc \in pcs

\* An installation is being made, and removed.
Making   == {"claim", "record", "own", "owned"}
Deleting == {"delete", "deleting"}
Freeing  == {"release", "unlink"}

\* A request removes what the engine does not use.
Apart ==
    \A a \in Killers : work[a].pc # "idle" =>
        /\ work[a].pc \in Removals /\ work[a].b \in Instances /\ work[a].b # accepted
        /\ Loop.b = work[a].b => At(Removals)

\* Who may be where, on which installation.
Places ==
    /\ \A a \in Actors : IF work[a].pc = "idle" THEN work[a].b = None ELSE work[a].b \in Bundles
    /\ \A a \in Actors : work[a].pc = "unlink" => work[a].u \in work[a].us
    /\ phase # "up" => /\ \A a \in Killers : work[a].pc = "idle"
                       /\ At({"idle", "reclaim", "relabel"} \cup Removals)
                       /\ At({"reclaim", "relabel"}) => phase = "reserve"
    /\ At({"record", "own", "owned", "relabel", "launch"}) => Loop.u \in Users
    /\ At({"reclaim", "relabel"}) => owner[Loop.b] # None /\ (phase = "up" => Loop.b = accepted)
    /\ At(Making \cup {"launch", "setup"}) => Loop.b \in exists
    /\ At(Making \cup {"launch"}) => Loop.b \notin ready
    /\ At(Making) => Loop.b # accepted /\ owner[Loop.b] = None
    /\ At({"setup"}) => Loop.b \in Prepared
    /\ At(Removals) /\ Loop.b = accepted => rejected

\* Leases, records and processes agree.
Backing ==
    /\ \A u \in Users : lease[u] # None => u \in claimed /\ owner[lease[u]] \in {u, None}
    /\ \A u, v \in Users : lease[u] = lease[v] /\ lease[u] # None => u = v
    /\ \A b \in Bundles : owner[b] # None =>
         b \in exists /\ files[b] \subseteq {owner[b]} /\ lease[owner[b]] \in {b, None}
    /\ \A b, c \in Bundles : owner[b] # None /\ owner[b] = owner[c] => b = c
    /\ \A b \in Bundles : b \notin exists => files[b] = {} /\ b \notin ready
    /\ \A b \in Bundles, u \in Users : <<b, u>> \in running =>
         lease[u] = b /\ owner[b] = u /\ files[b] = {u} /\ b \notin ready
    /\ phase \in {"discard", "reserve"} => running = {}
    /\ phase = "up" => \A b \in Bundles : owner[b] # None => lease[owner[b]] = b

\* What an actor that makes or reuses an installation has reserved.
Reserving ==
    /\ At({"claim", "record"}) => \A u \in Users : lease[u] # Loop.b
    /\ At({"record"}) => Loop.u \in claimed /\ lease[Loop.u] = None
    /\ At({"own", "owned", "launch"}) => lease[Loop.u] = Loop.b
    /\ At({"relabel"}) => Loop.u \in claimed /\ lease[Loop.u] \in {None, Loop.b}
    /\ At({"relabel", "launch"}) => owner[Loop.b] = Loop.u /\ files[Loop.b] = {Loop.u}

\* A removal knows the lease of what it removes, and that nobody runs on it.
Knowing ==
    /\ \A a \in Actors : work[a].pc \in Freeing => work[a].b \notin exists
    /\ \A a \in Actors : work[a].pc = "unlink" => lease[work[a].u] = work[a].b
    /\ \A a, c \in Actors :
         work[a].pc = "unlink" /\ work[c].pc = "unlink" /\ work[a].u = work[c].u => a = c
    /\ \A a \in Actors : \A u, v \in work[a].us : u = v
    /\ \A a \in Actors : work[a].pc \in Deleting => \A u \in Users : <<work[a].b, u>> \notin running
    /\ phase # "owners" =>
         /\ \A a \in Actors : work[a].pc \in Deleting \cup Freeing =>
              \A u \in Users : lease[u] = work[a].b => u \in work[a].us
         /\ \A u \in Users : lease[u] # None /\ lease[u] \notin exists =>
              \E a \in Actors : work[a].pc \in Freeing /\ work[a].b = lease[u]

\* A copy whose ownership has not been settled.
Copy(b) == b \in Instances /\ b = Loop.b /\ owner[b] = None
           /\ At(Making \cup {"check"} \cup Deleting)

\* Whose files there are.
Holding ==
    /\ phase = "up" => \A b \in Bundles : \A u \in files[b] :
         u \in claimed /\ (lease[u] \in {b, None} \/ (Copy(b) /\ lease[u] \in ready))
    /\ phase = "up" /\ At({"record", "own", "owned", "relabel", "launch"}) =>
         \A b \in Bundles : Loop.u \in files[b] => b = Loop.b /\ ~At({"record"})
    /\ phase # "up" => \A b \in Bundles : \A u \in files[b] : owner[b] = None =>
         \/ u \in claimed /\ lease[u] \in {b, None}
         \/ b \in Instances /\ phase \in {"owners", "discard"}
    /\ phase = "reserve" =>
         /\ \A b \in Instances \cap exists : owner[b] = None => b = Loop.b /\ At({"deleting"})
         /\ At({"check"} \cup Deleting) =>
              \A u \in files[Loop.b] : u \in claimed /\ lease[u] \in {Loop.b, None}

    /\ \A b, c \in Bundles : b # c /\ owner[b] # None /\ owner[b] \in files[c] => c \in Instances
    /\ phase \in {"owners", "discard"} /\ At({"check"} \cup Deleting) =>
         Loop.b \in Instances \/ owner[Loop.b] = None
    /\ phase = "owners" => FilesArePrivate

\* What was accepted.
Keeping ==
    /\ AcceptedKept
    /\ ~rejected /\ accepted # None /\ owner[accepted] # None /\ owner[accepted] \in claimed =>
         lease[owner[accepted]] = accepted \/ (At({"relabel"}) /\ Loop.b = accepted)

LeaseInv == TypeOK /\ Apart /\ Places /\ Backing /\ Reserving /\ Knowing /\ Holding /\ Keeping

-----------------------------------------------------------------------------
(* Moves of one actor.                                                      *)
Moves(a, pc, b, u, us) ==
    /\ work' \in [Actors -> Works]
    /\ work'[a].pc = pc /\ work'[a].b = b /\ work'[a].u = u /\ work'[a].us = us
    /\ \A c \in Actors : c # a => work'[c] = work[c]

PCs == {"idle", "claim", "record", "own", "owned", "reclaim", "relabel", "launch",
        "setup"} \cup Removals

\* A record of what an actor does, with another step.
LEMMA WorkPc ==
  ASSUME NEW w \in Works, NEW pc \in PCs
  PROVE  LET x == [w EXCEPT !.pc = pc] IN
         x \in Works /\ x.pc = pc /\ x.b = w.b /\ x.u = w.u /\ x.us = w.us
  BY DEF Works, PCs

\* A new one on an installation,
LEMMA OnWork ==
  ASSUME NEW pc \in PCs, NEW b \in Bundles \cup {None}
  PROVE  LET x == On(pc, b) IN
         x \in Works /\ x.pc = pc /\ x.b = b /\ x.u = None /\ x.us = {}
  BY DEF On, AtRest, Works, PCs

\* with users to release,
LEMMA ForWork ==
  ASSUME NEW pc \in PCs, NEW b \in Bundles \cup {None}, NEW us \in SUBSET Users
  PROVE  LET x == [On(pc, b) EXCEPT !.us = us] IN
         x \in Works /\ x.pc = pc /\ x.b = b /\ x.u = None /\ x.us = us
  BY DEF On, AtRest, Works, PCs

\* and none.
LEMMA RestWork == AtRest \in Works /\ AtRest.pc = "idle" /\ AtRest.b = None /\ AtRest.u = None
                  /\ AtRest.us = {}
  BY DEF AtRest, Works

\* It stops,
LEMMA MovesRest == ASSUME TypeOK, NEW a \in Actors, Do(a, AtRest)
                   PROVE Moves(a, "idle", None, None, {})
  BY RestWork DEF Do, Moves, TypeOK

\* begins on an installation,
LEMMA MovesOn ==
  ASSUME TypeOK, NEW a \in Actors, NEW pc \in PCs, NEW b \in Bundles \cup {None}, Do(a, On(pc, b))
  PROVE  Moves(a, pc, b, None, {})
<1> DEFINE w == On(pc, b)
<1>1. w \in Works /\ w.pc = pc /\ w.b = b /\ w.u = None /\ w.us = {}
  BY OnWork
<1>2. work' = [work EXCEPT ![a] = w]
  BY DEF Do
<1> HIDE DEF w
<1> QED BY <1>1, <1>2 DEF Moves, TypeOK

\* with users to release,
LEMMA MovesFor ==
  ASSUME TypeOK, NEW a \in Actors, NEW pc \in PCs, NEW b \in Bundles \cup {None},
         NEW us \in SUBSET Users, Do(a, [On(pc, b) EXCEPT !.us = us])
  PROVE  Moves(a, pc, b, None, us)
<1> DEFINE w == [On(pc, b) EXCEPT !.us = us]
<1>1. w \in Works /\ w.pc = pc /\ w.b = b /\ w.u = None /\ w.us = us
  BY ForWork
<1>2. work' = [work EXCEPT ![a] = w]
  BY DEF Do
<1> HIDE DEF w
<1> QED BY <1>1, <1>2 DEF Moves, TypeOK

\* goes on with the same,
LEMMA MovesTo ==
  ASSUME TypeOK, NEW a \in Actors, NEW pc \in PCs, Goes(a, pc)
  PROVE  Moves(a, pc, work[a].b, work[a].u, work[a].us)
  BY WorkPc DEF Goes, Do, Moves, TypeOK

\* or with another user.
LEMMA MovesWith ==
  ASSUME TypeOK, NEW a \in Actors, NEW pc \in PCs, NEW u \in Users \cup {None},
         Do(a, [work[a] EXCEPT !.pc = pc, !.u = u])
  PROVE  Moves(a, pc, work[a].b, u, work[a].us)
<1> DEFINE w == [work[a] EXCEPT !.pc = pc, !.u = u]
<1>1. w \in Works /\ w.pc = pc /\ w.b = work[a].b /\ w.u = u /\ w.us = work[a].us
  <2>1. work[a] \in Works
    BY DEF TypeOK
  <2> QED BY <2>1 DEF Works, PCs
<1>2. work' = [work EXCEPT ![a] = w]
  BY DEF Do
<1> HIDE DEF w
<1> QED BY <1>1, <1>2 DEF Moves, TypeOK

\* The engine makes or reuses nothing that a request removes.
LEMMA ApartKept ==
  ASSUME Apart, NEW pc, NEW b, NEW u, NEW us, Moves("loop", pc, b, u, us),
         accepted' = accepted,
         \/ pc \in Removals
         \/ \A a \in Killers : work[a].pc # "idle" => work[a].b # b
  PROVE  Apart'
<1> SUFFICES ASSUME NEW a \in Killers, work'[a].pc # "idle"
             PROVE  /\ work'[a].pc \in Removals /\ work'[a].b \in Instances
                    /\ work'[a].b # accepted'
                    /\ work'["loop"].b = work'[a].b => work'["loop"].pc \in Removals
  BY DEF Apart, At, Loop
<1>1. work'[a] = work[a] /\ work'["loop"].b = b /\ work'["loop"].pc = pc
  BY DEF Moves
<1> QED BY <1>1 DEF Apart

\* What a removal knows holds on while the engine does something else.
LEMMA KnowingKept ==
  ASSUME Knowing, NEW pc, NEW b, NEW u, NEW us, Moves("loop", pc, b, u, us),
         Loop.pc \notin Freeing, pc \notin Deleting \cup Freeing, us \in {{}, Loop.us},
         running' \subseteq running, UNCHANGED <<lease, exists>>,
         phase' = phase \/ phase' = "owners"
  PROVE  Knowing'
<1>1. /\ work'["loop"].pc = pc /\ work'["loop"].us = us
      /\ \A a \in Actors : a # "loop" => work'[a] = work[a]
  BY DEF Moves
<1>2. \A a \in Actors : work[a].pc \in Freeing => work'[a] = work[a]
  BY <1>1 DEF Loop
<1> QED BY <1>1, <1>2 DEF Knowing, Deleting, Freeing, Loop

\* The engine turns to a removal, or to nothing.
LEMMA PlacesLeft ==
  ASSUME Places, NEW pc \in {"idle"} \cup Removals, NEW b, NEW u, NEW us,
         Moves("loop", pc, b, u, us),
         IF pc = "idle" THEN b = None ELSE b \in Bundles,
         pc = "unlink" => u \in us,
         pc # "idle" /\ b = accepted' => rejected',
         phase' = "up" \/ phase # "up"
  PROVE  Places'
<1> USE DEF Loop
<1>1. /\ work'["loop"].pc = pc /\ work'["loop"].b = b
      /\ work'["loop"].u = u /\ work'["loop"].us = us
      /\ \A a \in Killers : work'[a] = work[a]
  BY DEF Moves
<1>2. \A a \in Actors : a = "loop" \/ a \in Killers
  OBVIOUS
<1>3. \A a \in Actors : /\ IF work'[a].pc = "idle" THEN work'[a].b = None
                              ELSE work'[a].b \in Bundles
                        /\ work'[a].pc = "unlink" => work'[a].u \in work'[a].us
  BY <1>1, <1>2 DEF Places
<1>4. phase' # "up" => \A a \in Killers : work'[a].pc = "idle"
  BY <1>1 DEF Places
<1> QED BY <1>1, <1>3, <1>4 DEF Places, At, Removals, Making

-----------------------------------------------------------------------------
(* Preparing and starting.                                                  *)
USE DEF disk, run, bounds, record, Loop

\* The directory of a digest that is gone has neither files nor a lease.
LEMMA PrepareInv == ASSUME LeaseInv, NEW p \in Prepared, Prepare(p) PROVE LeaseInv'
<1> USE DEF LeaseInv
<1>1. /\ phase = "up" /\ Loop.pc = "idle" /\ p \notin exists /\ exists' = exists \cup {p}
      /\ UNCHANGED <<files, owner, torn, claimed, lease, running, accepted, rejected, phase, faults,
                     crashes>>
  BY DEF Prepare, Ready
<1>2. \/ Moves("loop", "claim", p, None, {}) /\ ready' = ready
      \/ work' = work /\ ready' = ready \cup {p}
  BY MovesOn DEF Prepare, PCs
<1>3. /\ p \notin ready /\ owner[p] = None /\ p # accepted /\ p # None
      /\ \A a \in Actors : work[a].b # p
      /\ \A u \in Users : lease[u] # p
  <2>1. p \notin ready /\ owner[p] = None
    BY <1>1 DEF Backing
  <2>2. \A a \in Actors : work[a].b # p
    BY <1>1 DEF Apart, Places
  <2>3. \A u \in Users : lease[u] # p
    BY <1>1, <2>2 DEF Knowing
  <2> QED BY <2>1, <2>2, <2>3 DEF TypeOK
<1>4. TypeOK'
  BY <1>1, <1>2 DEF TypeOK, Moves
<1>5. Places'
  <2>1. CASE work' = work
    BY <1>1, <2>1, <1>2 DEF Places, At
  <2>2. CASE Moves("loop", "claim", p, None, {}) /\ ready' = ready
    BY <1>1, <1>3, <2>2 DEF Places, At, Moves, Making, Removals
  <2> QED BY <1>2, <2>1, <2>2
<1>6. Backing'
  BY <1>1, <1>2 DEF Backing, TypeOK
<1>7. Reserving'
  BY <1>1, <1>2, <1>3 DEF Reserving, At, Moves
<1>8. Knowing'
  <2>1. CASE work' = work
    BY <1>1, <1>3, <2>1 DEF Knowing
  <2>2. CASE Moves("loop", "claim", p, None, {})
    BY <1>1, <1>3, <2>2 DEF Knowing, Moves, Deleting, Freeing
  <2> QED BY <1>2, <2>1, <2>2
<1>9. Holding'
  BY <1>1, <1>2 DEF Holding, Copy, At, Moves, Making, Deleting, FilesArePrivate
<1>10. Keeping'
  BY <1>1, <1>2 DEF Keeping, At, Moves, AcceptedKept, Places
<1>11. Apart'
  BY <1>1, <1>2, <1>3, ApartKept DEF Apart, At, Loop
<1> QED BY <1>4, <1>5, <1>6, <1>7, <1>8, <1>9, <1>10, <1>11

\* The files of the copy are those of a complete tree, on which nothing runs.
LEMMA StartInv ==
  ASSUME LeaseInv, NEW b \in Instances, NEW p \in Prepared, Start(b, p) PROVE LeaseInv'
<1> USE DEF LeaseInv
<1>1. /\ phase = "up" /\ Loop.pc = "idle" /\ p \in ready
      /\ b \notin exists /\ b # accepted /\ exists' = exists \cup {b}
      /\ \A a \in Actors : work[a].b # b
      /\ \A u \in Users : lease[u] # b
      /\ files' = [files EXCEPT ![b] = files[p]]
      /\ UNCHANGED <<owner, ready, torn, claimed, lease, running, accepted, rejected, phase, faults,
                     crashes>>
  BY DEF Start, Fresh, Ready
<1>2. Moves("loop", "claim", b, None, {})
  BY MovesOn DEF Start, PCs
<1>3. /\ b \notin ready /\ owner[b] = None /\ b # p
      /\ files'[b] = files[p] /\ \A c \in Bundles : c # b => files'[c] = files[c]
      /\ \A u \in Users : <<b, u>> \notin running
  BY <1>1 DEF Backing, TypeOK
<1>4. TypeOK'
  BY <1>1, <1>2 DEF TypeOK, Moves
<1>5. Places'
  BY <1>1, <1>2, <1>3 DEF Places, At, Moves, Making, Removals
<1>6. Backing'
  BY <1>1, <1>3 DEF Backing, TypeOK
<1>7. Reserving'
  BY <1>1, <1>2 DEF Reserving, At, Moves
<1>8. Knowing'
  BY <1>1, <1>2 DEF Knowing, Moves, Deleting, Freeing
<1>9. Holding'
  <2>1. ASSUME NEW c \in Bundles, NEW u \in files'[c]
        PROVE  u \in claimed' /\ (lease'[u] \in {c, None} \/ (Copy(c)' /\ lease'[u] \in ready'))
    <3>1. CASE c = b
      <4>1. u \in files[p] /\ ~Copy(p)
        BY <1>3, <2>1, <3>1 DEF Copy
      <4> QED BY <1>1, <1>2, <1>3, <3>1, <4>1 DEF Holding, Copy, At, Moves, Making
    <3>2. CASE c # b
      <4>1. u \in files[c] /\ ~Copy(c)
        BY <1>1, <1>3, <2>1, <3>2 DEF Copy, At, Making, Deleting
      <4> QED BY <1>1, <4>1 DEF Holding
    <3> QED BY <3>1, <3>2
  <2> QED BY <1>1, <1>2, <2>1 DEF Holding, At, Moves
<1>10. Keeping'
  BY <1>1, <1>2, <1>3 DEF Keeping, At, Moves, AcceptedKept, TypeOK
<1>11. Apart'
  BY <1>1, <1>2, ApartKept
<1> QED BY <1>4, <1>5, <1>6, <1>7, <1>8, <1>9, <1>10, <1>11

\* A user without a directory has no files: whoever has, kept its directory.
LEMMA ClaimInv == ASSUME LeaseInv, NEW u \in Users, Claim(u) PROVE LeaseInv'
<1> USE DEF LeaseInv
<1>1. /\ Loop.pc = "claim" /\ u \notin claimed /\ claimed' = claimed \cup {u}
      /\ UNCHANGED <<exists, files, owner, ready, torn, lease, running, accepted, rejected, phase,
                     faults, crashes>>
  BY DEF Claim, Ready
<1>2. Moves("loop", "record", Loop.b, u, Loop.us)
  BY MovesWith DEF Claim, PCs
<1>3. /\ phase = "up" /\ lease[u] = None /\ \A b \in Bundles : u \notin files[b]
      /\ Loop.b \in Bundles
  BY <1>1 DEF Places, Backing, Holding, At, Removals
<1>4. TypeOK'
  BY <1>1, <1>2 DEF TypeOK, Moves
<1>5. Places'
  BY <1>1, <1>2, <1>3 DEF Places, At, Moves, Making, Removals
<1>6. Backing'
  BY <1>1 DEF Backing
<1>7. Reserving'
  BY <1>1, <1>2, <1>3 DEF Reserving, At, Moves
<1>8. Knowing'
  BY <1>1, <1>2, KnowingKept DEF Deleting, Freeing
<1>9. Holding'
  BY <1>1, <1>2, <1>3 DEF Holding, Copy, At, Moves, Making
<1>10. Keeping'
  BY <1>1, <1>2, <1>3 DEF Keeping, Backing, At, Moves, AcceptedKept, TypeOK
<1>11. Apart'
  BY <1>1, <1>2, ApartKept DEF Apart, At, Removals
<1> QED BY <1>4, <1>5, <1>6, <1>7, <1>8, <1>9, <1>10, <1>11

\* Given up for its processes, it is as it was before; otherwise it has its lease.
LEMMA RecordInv == ASSUME LeaseInv, Record PROVE LeaseInv'
<1> USE DEF LeaseInv
<1> DEFINE u == Loop.u
           b == Loop.b
<1>1. /\ Loop.pc = "record"
      /\ UNCHANGED <<exists, files, owner, ready, torn, running, accepted, rejected, phase,
                     faults, crashes>>
  BY DEF Record, Ready
<1>2. /\ phase = "up" /\ u \in Users /\ b \in Bundles /\ b \in exists /\ b # accepted
      /\ owner[b] = None /\ b \notin ready
      /\ u \in claimed /\ lease[u] = None /\ \A v \in Users : lease[v] # b
      /\ \A c \in Bundles : u \notin files[c]
      /\ \A c \in Bundles : owner[c] # u
      /\ \A a \in Killers : work[a].b # b
  <2>1. /\ phase = "up" /\ u \in Users /\ b \in Bundles /\ b \in exists /\ b # accepted
        /\ owner[b] = None /\ b \notin ready /\ \A a \in Killers : work[a].b # b
    BY <1>1 DEF Apart, Places, At, Removals, Making
  <2>2. u \in claimed /\ lease[u] = None /\ \A v \in Users : lease[v] # b
    BY <1>1 DEF Reserving, At
  <2>3. \A c \in Bundles : u \notin files[c]
    BY <1>1, <2>1 DEF Holding, At
  <2>4. \A c \in Bundles : owner[c] # u
    BY <2>1, <2>2 DEF Backing
  <2> QED BY <2>1, <2>2, <2>3, <2>4
<1>3. CASE claimed' = claimed \ {u} /\ Goes("loop", "claim") /\ UNCHANGED lease
  <2>1. Moves("loop", "claim", b, u, Loop.us)
    BY <1>3, MovesTo DEF PCs
  <2>2. TypeOK'
    BY <1>1, <1>3, <2>1 DEF TypeOK, Moves
  <2>3. Places'
    BY <1>1, <1>2, <1>3, <2>1 DEF Places, At, Moves, Making, Removals
  <2>4. Backing'
    BY <1>1, <1>2, <1>3 DEF Backing
  <2>5. Reserving'
    BY <1>1, <1>2, <1>3, <2>1 DEF Reserving, At, Moves
  <2>6. Knowing'
    BY <1>1, <1>3, <2>1 DEF Knowing, Moves, Deleting, Freeing
  <2>7. Holding'
    BY <1>1, <1>2, <1>3, <2>1 DEF Holding, Copy, At, Moves, Making
  <2>8. Keeping'
    BY <1>1, <1>2, <1>3, <2>1 DEF Keeping, At, Moves, AcceptedKept
  <2>9. Apart'
    BY <1>1, <1>2, <2>1, ApartKept
  <2> QED BY <2>2, <2>3, <2>4, <2>5, <2>6, <2>7, <2>8, <2>9
<1>4. CASE lease' = [lease EXCEPT ![u] = b] /\ Goes("loop", "own") /\ UNCHANGED claimed
  <2>1. Moves("loop", "own", b, u, Loop.us)
    BY <1>4, MovesTo DEF PCs
  <2>2. lease'[u] = b /\ \A v \in Users : v # u => lease'[v] = lease[v]
    BY <1>2, <1>4 DEF TypeOK
  <2>3. TypeOK'
    BY <1>1, <1>2, <1>4, <2>1 DEF TypeOK, Moves
  <2>4. Places'
    BY <1>1, <1>2, <2>1 DEF Places, At, Moves, Making, Removals
  <2>5. Backing'
    BY <1>1, <1>2, <1>4, <2>2 DEF Backing, TypeOK
  <2>6. Reserving'
    BY <1>2, <2>1, <2>2 DEF Reserving, At, Moves
  <2>7. Knowing'
    <3>1. \A a \in Actors : a # "loop" => work'[a] = work[a] /\ work[a].b # b
      BY <1>2, <2>1 DEF Moves
    <3>2. work'["loop"].pc = "own" /\ work'["loop"].us = Loop.us
      BY <2>1 DEF Moves
    <3>3. \A a \in Actors : work[a].pc = "unlink" => work[a].u # u /\ work[a].u \in Users
      BY <1>2 DEF Knowing, Places, TypeOK, Works
    <3> QED BY <1>1, <1>2, <2>2, <3>1, <3>2, <3>3 DEF Knowing, Deleting, Freeing
  <2>8. Holding'
    BY <1>1, <1>2, <1>4, <2>1, <2>2 DEF Holding, Copy, At, Moves, Making, TypeOK
  <2>9. Keeping'
    BY <1>1, <1>2, <1>4, <2>1, <2>2 DEF Keeping, At, Moves, AcceptedKept, TypeOK
  <2>10. Apart'
    BY <1>1, <1>2, <2>1, ApartKept
  <2> QED BY <2>3, <2>4, <2>5, <2>6, <2>7, <2>8, <2>9, <2>10
<1> QED BY <1>3, <1>4 DEF Record

\* The first files of the user are on the installation that its lease names.
LEMMA OwnInv == ASSUME LeaseInv, Own PROVE LeaseInv'
<1> USE DEF LeaseInv
<1> DEFINE u == Loop.u
           b == Loop.b
<1>1. /\ Loop.pc = "own" /\ files' = [files EXCEPT ![b] = @ \cup {u}]
      /\ UNCHANGED <<exists, owner, ready, torn, claimed, lease, running, accepted, rejected, phase,
                     faults, crashes>>
  BY DEF Own, Ready
<1>2. Moves("loop", "owned", b, u, Loop.us)
  BY MovesTo DEF Own, PCs
<1>3. /\ phase = "up" /\ u \in Users /\ b \in Bundles /\ b \in exists /\ b # accepted
      /\ owner[b] = None /\ b \notin ready /\ lease[u] = b /\ u \in claimed
  BY <1>1 DEF Places, Reserving, Backing, At, Removals, Making
<1>4. files'[b] = files[b] \cup {u} /\ \A c \in Bundles : c # b => files'[c] = files[c]
  BY <1>1, <1>3 DEF TypeOK
<1>5. TypeOK'
  BY <1>1, <1>2, <1>3 DEF TypeOK, Moves
<1>6. Places'
  BY <1>1, <1>2, <1>3 DEF Places, At, Moves, Making, Removals
<1>7. Backing'
  BY <1>1, <1>3, <1>4 DEF Backing
<1>8. Reserving'
  BY <1>1, <1>2, <1>3 DEF Reserving, At, Moves
<1>9. Knowing'
  BY <1>1, <1>2 DEF Knowing, Moves, Deleting, Freeing
<1>10. Holding'
  BY <1>1, <1>2, <1>3, <1>4 DEF Holding, Backing, Copy, At, Moves, Making
<1>11. Keeping'
  BY <1>1, <1>2, <1>3, <1>4 DEF Keeping, At, Moves, AcceptedKept, TypeOK
<1>12. Apart'
  BY <1>1, <1>2, ApartKept DEF Apart, At, Removals
<1> QED BY <1>5, <1>6, <1>7, <1>8, <1>9, <1>10, <1>11, <1>12

\* The record is written only when no other file is left.
LEMMA OwnedInv == ASSUME LeaseInv, Owned PROVE LeaseInv'
<1> USE DEF LeaseInv
<1> DEFINE u == Loop.u
           b == Loop.b
<1>1. /\ Loop.pc = "owned" /\ files' = [files EXCEPT ![b] = {u}] /\ owner' = [owner EXCEPT ![b] = u]
      /\ UNCHANGED <<exists, ready, torn, claimed, lease, running, accepted, rejected, phase,
                     faults, crashes>>
  BY DEF Owned, Ready
<1>2. Moves("loop", "launch", b, u, Loop.us)
  BY MovesTo DEF Owned, PCs
<1>3. /\ phase = "up" /\ u \in Users /\ b \in Bundles /\ b \in exists /\ b # accepted
      /\ owner[b] = None /\ b \notin ready /\ lease[u] = b /\ u \in claimed
      /\ \A c \in Bundles : owner[c] # u
  BY <1>1 DEF Places, Reserving, Backing, At, Removals, Making
<1>4. /\ files'[b] = {u} /\ \A c \in Bundles : c # b => files'[c] = files[c]
      /\ owner'[b] = u /\ \A c \in Bundles : c # b => owner'[c] = owner[c]
  BY <1>1, <1>3 DEF TypeOK
<1>5. TypeOK'
  BY <1>1, <1>2, <1>3 DEF TypeOK, Moves
<1>6. Places'
  BY <1>1, <1>2, <1>3 DEF Places, At, Moves, Making, Removals
<1>7. Backing'
  BY <1>1, <1>3, <1>4 DEF Backing, TypeOK
<1>8. Reserving'
  BY <1>1, <1>2, <1>3, <1>4 DEF Reserving, At, Moves
<1>9. Knowing'
  BY <1>1, <1>2 DEF Knowing, Moves, Deleting, Freeing
<1>10. Holding'
  BY <1>1, <1>2, <1>3, <1>4 DEF Holding, Copy, At, Moves, Making
<1>11. Keeping'
  BY <1>1, <1>2, <1>3, <1>4 DEF Keeping, At, Moves, AcceptedKept, TypeOK
<1>12. Apart'
  BY <1>1, <1>2, ApartKept DEF Apart, At, Removals
<1> QED BY <1>5, <1>6, <1>7, <1>8, <1>9, <1>10, <1>11, <1>12

\* No request removes the accepted installation.
LEMMA RestartInv == ASSUME LeaseInv, Restart PROVE LeaseInv'
<1> USE DEF LeaseInv
<1>1. /\ phase = "up" /\ Loop.pc = "idle" /\ accepted \in exists /\ owner[accepted] # None
      /\ accepted \in Bundles
      /\ UNCHANGED <<exists, files, owner, ready, torn, claimed, lease, running, accepted, rejected,
                     phase, faults, crashes>>
  BY DEF Restart, Ready, TypeOK
<1>2. Moves("loop", "reclaim", accepted, None, {})
  BY <1>1, MovesOn DEF Restart, PCs
<1>3. TypeOK'
  BY <1>1, <1>2 DEF TypeOK, Moves
<1>4. Apart'
  BY <1>1, <1>2, ApartKept DEF Apart
<1>5. Places'
  BY <1>1, <1>2 DEF Places, At, Moves, Making, Removals
<1>6. Backing'
  BY <1>1 DEF Backing
<1>7. Reserving'
  BY <1>1, <1>2 DEF Reserving, At, Moves
<1>8. Knowing'
  BY <1>1, <1>2, KnowingKept DEF Deleting, Freeing
<1>9. Holding'
  BY <1>1, <1>2 DEF Holding, Copy, At, Moves, Making, Deleting
<1>10. Keeping'
  BY <1>1, <1>2 DEF Keeping, At, Moves, AcceptedKept
<1> QED BY <1>3, <1>4, <1>5, <1>6, <1>7, <1>8, <1>9, <1>10

\* The user of a record is free or reserved for it; a boot gives up what is not whole.
LEMMA ReclaimInv == ASSUME LeaseInv, Reclaim PROVE LeaseInv'
<1> USE DEF LeaseInv
<1> DEFINE b == Loop.b
           u == owner[b]
<1>1. /\ Loop.pc = "reclaim"
      /\ UNCHANGED <<exists, files, owner, ready, torn, lease, running, accepted, rejected, phase,
                     faults, crashes>>
  BY DEF Reclaim, Ready
<1>2. /\ b \in Bundles /\ u \in Users /\ b \in exists /\ phase \in {"up", "reserve"}
      /\ phase = "up" => b = accepted
      /\ \A a \in Killers : work[a].pc # "idle" => work[a].b # b
  <2>1. b \in Bundles /\ u # None /\ phase \in {"up", "reserve"} /\ (phase = "up" => b = accepted)
    BY <1>1 DEF Places, At, Removals, TypeOK
  <2> QED BY <1>1, <2>1 DEF Backing, TypeOK, Apart, At, Removals
<1>3. CASE ~Reusable(b) /\ phase = "up" /\ claimed' = claimed /\ Do("loop", AtRest)
  <2>1. Moves("loop", "idle", None, None, {})
    BY <1>3, MovesRest
  <2>2. TypeOK'
    BY <1>1, <1>3, <2>1 DEF TypeOK, Moves
  <2>3. Apart'
    BY <1>1, <2>1, ApartKept DEF Apart, TypeOK
  <2>4. Places'
    BY <1>1, <1>3, <2>1, PlacesLeft
  <2>5. Backing'
    BY <1>1, <1>3 DEF Backing
  <2>6. Reserving'
    BY <1>1, <2>1 DEF Reserving, At, Moves
  <2>7. Knowing'
    BY <1>1, <2>1, KnowingKept DEF Deleting, Freeing
  <2>8. Holding'
    BY <1>1, <1>3, <2>1 DEF Holding, Copy, At, Moves, Making, Deleting
  <2>9. Keeping'
    BY <1>1, <1>3, <2>1 DEF Keeping, At, Moves, AcceptedKept
  <2> QED BY <2>2, <2>3, <2>4, <2>5, <2>6, <2>7, <2>8, <2>9
<1>4. CASE ~Reusable(b) /\ phase = "reserve" /\ claimed' = claimed /\ Do("loop", On("check", b))
  <2>1. Moves("loop", "check", b, None, {})
    BY <1>2, <1>4, MovesOn DEF PCs, Removals
  <2>2. ~Busy(u)
    BY <1>4 DEF Busy, Backing
  <2>3. files[b] = {} \/ (u \in claimed /\ lease[u] = None)
    BY <1>2, <1>4, <2>2 DEF Reusable, Backing
  <2>4. b = accepted => rejected
    BY <1>1, <1>2, <2>3 DEF Keeping, AcceptedKept, At
  <2>5. TypeOK'
    BY <1>1, <1>4, <2>1 DEF TypeOK, Moves
  <2>6. Apart'
    BY <1>1, <2>1, ApartKept DEF Removals
  <2>7. Places'
    BY <1>1, <1>2, <1>4, <2>1, <2>4, PlacesLeft DEF Removals
  <2>8. Backing'
    BY <1>1, <1>4 DEF Backing
  <2>9. Reserving'
    BY <1>1, <2>1 DEF Reserving, At, Moves
  <2>10. Knowing'
    BY <1>1, <2>1, KnowingKept DEF Deleting, Freeing
  <2>11. Holding'
    BY <1>1, <1>2, <1>4, <2>1, <2>3 DEF Holding, Backing, Copy, At, Moves, Making, Deleting
  <2>12. Keeping'
    BY <1>1, <1>4, <2>1, <2>4 DEF Keeping, At, Moves, AcceptedKept
  <2> QED BY <2>5, <2>6, <2>7, <2>8, <2>9, <2>10, <2>11, <2>12
<1>5. CASE Reusable(b) /\ claimed' = claimed \cup {u}
             /\ Do("loop", [Loop EXCEPT !.pc = "relabel", !.u = u])
  <2>1. Moves("loop", "relabel", b, u, Loop.us)
    BY <1>2, <1>5, MovesWith DEF PCs
  <2>2. files[b] = {u} /\ lease[u] \in {b, None}
    BY <1>2, <1>5 DEF Reusable, Backing
  <2>3. TypeOK'
    BY <1>1, <1>2, <1>5, <2>1 DEF TypeOK, Moves
  <2>4. Apart'
    BY <1>1, <1>2, <2>1, ApartKept
  <2>5. Places'
    BY <1>1, <1>2, <1>5, <2>1 DEF Places, At, Moves, Making, Removals
  <2>6. Backing'
    BY <1>1, <1>5 DEF Backing
  <2>7. Reserving'
    BY <1>1, <1>5, <2>1, <2>2 DEF Reserving, At, Moves
  <2>8. Knowing'
    BY <1>1, <2>1, KnowingKept DEF Deleting, Freeing
  <2>9. Holding'
    <3>1. phase = "up" => \A c \in Bundles : u \in files[c] => c = b
      BY <1>1, <1>2 DEF Holding, Backing, Copy, At, Making, Deleting
    <3> QED BY <1>1, <1>2, <1>5, <2>1, <3>1 DEF Holding, Copy, At, Moves, Making, Deleting
  <2>10. Keeping'
    BY <1>1, <1>2, <1>5, <2>1 DEF Keeping, Backing, At, Moves, AcceptedKept, TypeOK
  <2> QED BY <2>3, <2>4, <2>5, <2>6, <2>7, <2>8, <2>9, <2>10
<1> QED BY <1>2, <1>3, <1>4, <1>5 DEF Reclaim

\* No file of the user is anywhere else, so that the lease is its only one.
LEMMA RelabelInv == ASSUME LeaseInv, Relabel PROVE LeaseInv'
<1> USE DEF LeaseInv
<1> DEFINE b == Loop.b
           u == Loop.u
<1>1. /\ Loop.pc = "relabel" /\ lease' = [lease EXCEPT ![u] = b]
      /\ UNCHANGED <<exists, files, owner, ready, torn, claimed, running, accepted, rejected, phase,
                     faults, crashes>>
  BY DEF Relabel, Ready
<1>2. /\ b \in Bundles /\ u \in Users /\ owner[b] = u /\ b \in exists /\ phase \in {"up", "reserve"}
      /\ u \in claimed /\ files[b] = {u} /\ lease[u] \in {b, None} /\ (phase = "up" => lease[u] = b)
      /\ phase = "up" => b = accepted
  <2>1. b \in Bundles /\ u \in Users /\ phase \in {"up", "reserve"}
        /\ (phase = "up" => b = accepted)
    BY <1>1 DEF Places, At, Removals
  <2> QED BY <1>1, <2>1 DEF Backing, TypeOK, Reserving, At
<1>3. lease'[u] = b /\ \A v \in Users : v # u => lease'[v] = lease[v]
  BY <1>1, <1>2 DEF TypeOK
<1>4. CASE phase = "up" /\ Goes("loop", "launch")
  <2>1. Moves("loop", "launch", b, u, Loop.us)
    BY <1>4, MovesTo DEF PCs
  <2>2. lease' = lease
    BY <1>1, <1>2, <1>4 DEF TypeOK
  <2>3. TypeOK'
    BY <1>1, <2>1, <2>2 DEF TypeOK, Moves
  <2>4. Apart'
    BY <1>1, <1>2, <1>4, <2>1, ApartKept DEF Apart
  <2>5. Places'
    <3>1. b \notin ready
      BY <1>1, <1>2, <1>4 DEF TypeOK
    <3> QED BY <1>1, <1>2, <1>4, <2>1, <3>1 DEF Places, At, Moves, Making, Removals
  <2>6. Backing'
    BY <1>1, <2>2 DEF Backing
  <2>7. Reserving'
    BY <1>1, <1>2, <1>4, <2>1, <2>2 DEF Reserving, At, Moves
  <2>8. Knowing'
    BY <1>1, <2>1, <2>2, KnowingKept DEF Deleting, Freeing
  <2>9. Holding'
    BY <1>1, <1>2, <1>4, <2>1, <2>2 DEF Holding, Copy, At, Moves, Making, Deleting
  <2>10. Keeping'
    BY <1>1, <1>2, <1>4, <2>1, <2>2 DEF Keeping, At, Moves, AcceptedKept
  <2> QED BY <2>3, <2>4, <2>5, <2>6, <2>7, <2>8, <2>9, <2>10
<1>5. CASE phase = "reserve" /\ Do("loop", AtRest)
  <2>1. Moves("loop", "idle", None, None, {})
    BY <1>5, MovesRest
  <2>2. TypeOK'
    BY <1>1, <1>2, <2>1 DEF TypeOK, Moves
  <2>3. Apart'
    BY <1>1, <2>1, ApartKept DEF Apart, TypeOK
  <2>4. Places'
    BY <1>5, <2>1, PlacesLeft
  <2>5. Backing'
    BY <1>1, <1>2, <1>3 DEF Backing, TypeOK
  <2>6. Reserving'
    BY <2>1 DEF Reserving, At, Moves
  <2>7. Knowing'
    <3>1. \A a \in Actors : /\ work[a].pc \notin Deleting \cup Freeing
                            /\ work'[a].pc \notin Deleting \cup Freeing
                            /\ work'[a].us = work[a].us \/ work'[a].us = {}
      BY <1>1, <1>5, <2>1 DEF Places, Moves, Deleting, Freeing
    <3> QED BY <1>1, <1>2, <1>3, <1>5, <3>1 DEF Knowing, Deleting, Freeing
  <2>8. Holding'
    <3>1. \A c \in Bundles : u \in files[c] => c = b
      BY <1>1, <1>2, <1>5 DEF Holding, Backing, At, Deleting
    <3> QED BY <1>1, <1>2, <1>3, <1>5, <2>1, <3>1
            DEF Holding, Backing, Copy, At, Moves, Making, Deleting, TypeOK
  <2>9. Keeping'
    BY <1>1, <1>2, <1>3, <2>1 DEF Keeping, Backing, At, Moves, AcceptedKept, TypeOK
  <2> QED BY <2>2, <2>3, <2>4, <2>5, <2>6, <2>7, <2>8, <2>9
<1> QED BY <1>2, <1>4, <1>5 DEF Relabel

\* The process runs as the user that the lease and the record name.
LEMMA LaunchInv == ASSUME LeaseInv, Launch PROVE LeaseInv'
<1> USE DEF LeaseInv
<1> DEFINE u == Loop.u
           b == Loop.b
<1>1. /\ Loop.pc = "launch" /\ running' = running \cup {<<b, u>>}
      /\ UNCHANGED <<exists, files, owner, ready, torn, claimed, lease, accepted, rejected, phase,
                     faults, crashes>>
  BY DEF Launch, Ready
<1>2. /\ phase = "up" /\ u \in Users /\ b \in Bundles /\ b \in exists /\ b \notin ready
      /\ lease[u] = b /\ owner[b] = u /\ files[b] = {u}
      /\ \A a \in Killers : work[a].pc # "idle" => work[a].b # b
  <2>1. phase = "up" /\ u \in Users /\ b \in Bundles /\ b \in exists /\ b \notin ready
    BY <1>1 DEF Places, At, Removals
  <2> QED BY <1>1, <2>1 DEF Reserving, Apart, At, Removals
<1>3. Backing'
  BY <1>1, <1>2 DEF Backing
<1>4. ASSUME NEW pc \in {"idle", "setup"}, NEW c, NEW v, NEW us, Moves("loop", pc, c, v, us),
             us \in {{}, Loop.us},
             IF pc = "idle" THEN c = None ELSE c = b /\ b \in Prepared
      PROVE  LeaseInv'
  <2>1. TypeOK'
    BY <1>1, <1>2, <1>4 DEF TypeOK, Moves
  <2>2. Apart'
    BY <1>1, <1>2, <1>4, ApartKept DEF Apart, TypeOK
  <2>3. Places'
    BY <1>1, <1>2, <1>4 DEF Places, At, Moves, Making, Removals
  <2>4. Reserving'
    BY <1>1, <1>4 DEF Reserving, At, Moves
  <2>5. Knowing'
    <3>1. \A a \in Actors : a # "loop" =>
                work'[a] = work[a] /\ (work[a].pc # "idle" => work[a].b # b)
      BY <1>2, <1>4 DEF Moves
    <3>2. work'["loop"].pc = pc /\ work'["loop"].us \in {{}, Loop.us}
      BY <1>4 DEF Moves
    <3> QED BY <1>1, <3>1, <3>2 DEF Knowing, Deleting, Freeing
  <2>6. Holding'
    BY <1>1, <1>2, <1>4 DEF Holding, Copy, At, Moves, Making, Deleting
  <2>7. Keeping'
    BY <1>1, <1>4 DEF Keeping, At, Moves, AcceptedKept
  <2> QED BY <1>3, <2>1, <2>2, <2>3, <2>4, <2>5, <2>6, <2>7
<1>5. CASE b \in Prepared /\ Goes("loop", "setup")
  BY <1>4, <1>5, MovesTo DEF PCs
<1>6. CASE Do("loop", AtRest)
  BY <1>4, <1>6, MovesRest
<1> QED BY <1>5, <1>6 DEF Launch

\* A tree is complete only when nothing runs on it any more.
LEMMA SetupEndsInv == ASSUME LeaseInv, SetupEnds PROVE LeaseInv'
<1> USE DEF LeaseInv
<1> DEFINE b == Loop.b
<1>1. /\ Loop.pc = "setup" /\ \A u \in Users : <<b, u>> \notin running
      /\ UNCHANGED <<exists, files, owner, torn, claimed, lease, running, accepted, rejected, phase,
                     faults, crashes>>
  BY DEF SetupEnds, Ready
<1>2. phase = "up" /\ b \in Prepared /\ b \in exists /\ b # accepted
  BY <1>1 DEF Places, At, Removals, TypeOK
<1>3. ASSUME NEW pc \in {"idle", "check"}, NEW c, Moves("loop", pc, c, None, {}),
             IF pc = "idle" THEN c = None ELSE c = b,
             ready' \in {ready, ready \cup {b}}
      PROVE  LeaseInv'
  <2>1. TypeOK'
    BY <1>1, <1>2, <1>3 DEF TypeOK, Moves
  <2>2. Apart'
    BY <1>1, <1>3, ApartKept DEF Apart, Removals, TypeOK
  <2>3. Places'
    BY <1>1, <1>2, <1>3, PlacesLeft DEF Removals
  <2>4. Backing'
    BY <1>1, <1>2, <1>3 DEF Backing
  <2>5. Reserving'
    BY <1>1, <1>3 DEF Reserving, At, Moves
  <2>6. Knowing'
    BY <1>1, <1>3, KnowingKept DEF Deleting, Freeing
  <2>7. Holding'
    BY <1>1, <1>2, <1>3 DEF Holding, Copy, At, Moves, Making, Deleting
  <2>8. Keeping'
    BY <1>1, <1>3 DEF Keeping, At, Moves, AcceptedKept
  <2> QED BY <2>1, <2>2, <2>3, <2>4, <2>5, <2>6, <2>7, <2>8
<1>4. CASE ready' = ready \cup {b} /\ Do("loop", AtRest)
  BY <1>3, <1>4, MovesRest
<1>5. CASE Do("loop", On("check", b)) /\ ready' = ready
  BY <1>2, <1>3, <1>5, MovesOn DEF PCs, Removals
<1> QED BY <1>4, <1>5 DEF SetupEnds

\* A tree whose setup may still run is never complete.
LEMMA SetupAbandonedInv == ASSUME LeaseInv, SetupAbandoned PROVE LeaseInv'
<1> USE DEF LeaseInv
<1>1. /\ Loop.pc = "setup" /\ faults < MaxFaults /\ faults' = faults + 1
      /\ UNCHANGED <<exists, files, owner, ready, torn, claimed, lease, running, accepted, rejected,
                     phase, crashes>>
  BY DEF SetupAbandoned, Ready, Fault
<1>2. Moves("loop", "idle", None, None, {})
  BY MovesRest DEF SetupAbandoned
<1>3. phase = "up"
  BY <1>1 DEF Places, At, Removals
<1>4. TypeOK'
  BY <1>1, <1>2 DEF TypeOK, Moves
<1>5. Apart'
  BY <1>1, <1>2, ApartKept DEF Apart, TypeOK
<1>6. Places'
  BY <1>1, <1>2, PlacesLeft
<1>7. Backing'
  BY <1>1 DEF Backing
<1>8. Reserving'
  BY <1>1, <1>2 DEF Reserving, At, Moves
<1>9. Knowing'
  BY <1>1, <1>2, KnowingKept DEF Deleting, Freeing
<1>10. Holding'
  BY <1>1, <1>2, <1>3 DEF Holding, Copy, At, Moves, Making, Deleting
<1>11. Keeping'
  BY <1>1, <1>2 DEF Keeping, At, Moves, AcceptedKept
<1> QED BY <1>4, <1>5, <1>6, <1>7, <1>8, <1>9, <1>10, <1>11

\* What a start leaves behind, its removal finds.
LEMMA StartFailsInv == ASSUME LeaseInv, StartFails PROVE LeaseInv'
<1> USE DEF LeaseInv
<1> DEFINE b == Loop.b
           u == Loop.u
<1>1. /\ Loop.pc \in {"claim", "record", "own", "owned", "relabel", "launch"}
      /\ claimed' = (IF Loop.pc = "record" THEN claimed \ {u} ELSE claimed)
      /\ rejected' = (rejected \/ (phase # "up" /\ b = accepted))
      /\ faults' \in {faults, faults + 1} /\ faults' \in 0..MaxFaults
      /\ UNCHANGED <<exists, files, owner, ready, torn, lease, running, accepted, phase, crashes>>
  BY DEF StartFails, Ready, Fault, TypeOK
<1>2. /\ b \in Bundles /\ phase \in {"up", "reserve"}
      /\ phase = "reserve" => Loop.pc = "relabel"
  BY <1>1 DEF Places, At, Removals, TypeOK
<1>3. Loop.pc = "record" => /\ u \in Users /\ lease[u] = None /\ phase = "up"
                            /\ \A c \in Bundles : u \notin files[c] /\ owner[c] # u
  <2>1. SUFFICES ASSUME Loop.pc = "record"
                 PROVE  /\ u \in Users /\ lease[u] = None /\ phase = "up"
                        /\ \A c \in Bundles : u \notin files[c] /\ owner[c] # u
    OBVIOUS
  <2>2. u \in Users /\ lease[u] = None /\ phase = "up"
    BY <1>2, <2>1 DEF Places, Reserving, At
  <2>3. \A c \in Bundles : u \notin files[c]
    BY <2>1, <2>2 DEF Holding, At
  <2> QED BY <2>2, <2>3 DEF Backing
<1>4. Backing'
  BY <1>1, <1>3 DEF Backing
<1>5. ASSUME NEW pc \in {"idle", "check"}, NEW c, Moves("loop", pc, c, None, {}),
             IF phase = "up" /\ b = accepted THEN pc = "idle" /\ c = None ELSE pc = "check" /\ c = b
      PROVE  LeaseInv'
  <2>1. TypeOK'
    BY <1>1, <1>2, <1>5 DEF TypeOK, Moves
  <2>2. Apart'
    BY <1>1, <1>5, ApartKept DEF Apart, Removals, TypeOK
  <2>3. Places'
    BY <1>1, <1>2, <1>5, PlacesLeft DEF Removals
  <2>4. Reserving'
    BY <1>1, <1>5 DEF Reserving, At, Moves
  <2>5. Knowing'
    BY <1>1, <1>5, KnowingKept DEF Deleting, Freeing
  <2>6. Holding'
    <3>1. CASE phase = "up"
      <4>1. \A c1 \in Bundles : Copy(c1) => Copy(c1)'
        BY <1>1, <1>5 DEF Copy, At, Moves, Making, Deleting, Places
      <4> QED BY <1>1, <1>3, <1>5, <3>1, <4>1 DEF Holding, At, Moves
    <3>2. CASE phase = "reserve"
      <4>1. /\ u \in claimed /\ lease[u] \in {b, None} /\ files[b] = {u} /\ owner[b] = u
            /\ u # None /\ Loop.pc = "relabel"
        BY <1>1, <1>2, <3>2 DEF Reserving, Places, At
      <4> QED BY <1>1, <1>2, <1>5, <3>2, <4>1 DEF Holding, At, Moves, Deleting
    <3> QED BY <1>2, <3>1, <3>2
  <2>7. Keeping'
    BY <1>1, <1>2, <1>3, <1>5 DEF Keeping, Backing, At, Moves, AcceptedKept, TypeOK
  <2> QED BY <1>4, <2>1, <2>2, <2>3, <2>4, <2>5, <2>6, <2>7
<1>6. CASE phase = "up" /\ b = accepted /\ Do("loop", AtRest)
  BY <1>5, <1>6, MovesRest
<1>7. CASE ~(phase = "up" /\ b = accepted) /\ Do("loop", On("check", b))
  BY <1>2, <1>5, <1>7, MovesOn DEF PCs, Removals
<1> QED BY <1>6, <1>7 DEF StartFails

\* What runs has its record and its lease.
LEMMA AcceptInv == ASSUME LeaseInv, NEW b \in Bundles, Accept(b) PROVE LeaseInv'
<1> USE DEF LeaseInv
<1>1. /\ phase = "up" /\ Loop.pc = "idle" /\ b \in Instances /\ accepted' = b /\ rejected' = FALSE
      /\ \A a \in Actors : work[a].b # b
      /\ UNCHANGED <<exists, files, owner, ready, torn, claimed, lease, running, phase, work,
                     faults, crashes>>
  BY DEF Accept, Ready
<1>2. PICK u \in Users : <<b, u>> \in running
  BY DEF Accept
<1>3. b \in exists /\ owner[b] = u /\ files[b] = {u} /\ lease[u] = b
  BY <1>2 DEF Backing
<1>4. TypeOK'
  BY <1>1 DEF TypeOK
<1>5. Apart'
  BY <1>1 DEF Apart, At
<1>6. Places'
  BY <1>1 DEF Places, At, Making, Removals
<1>7. Backing' /\ Reserving'
  BY <1>1 DEF Backing, Reserving, At
<1>8. Knowing'
  BY <1>1 DEF Knowing
<1>9. Holding'
  BY <1>1 DEF Holding, Copy, At
<1>10. Keeping'
  BY <1>1, <1>2, <1>3 DEF Keeping, AcceptedKept
<1> QED BY <1>4, <1>5, <1>6, <1>7, <1>8, <1>9, <1>10

\* A rejected installation may be removed by the engine.
LEMMA RejectInv == ASSUME LeaseInv, Reject PROVE LeaseInv'
<1> USE DEF LeaseInv
<1>1. /\ rejected' = TRUE
      /\ UNCHANGED <<exists, files, owner, ready, torn, claimed, lease, running, accepted, phase,
                     work, faults, crashes>>
  BY DEF Reject
<1>2. TypeOK' /\ Apart' /\ Places'
  BY <1>1 DEF TypeOK, Apart, Places, At
<1>3. Backing' /\ Reserving'
  BY <1>1 DEF Backing, Reserving, At
<1>4. Knowing' /\ Keeping'
  BY <1>1 DEF Knowing, Keeping, AcceptedKept
<1>5. Holding'
  BY <1>1 DEF Holding, Copy, At, FilesArePrivate
<1> QED BY <1>2, <1>3, <1>4, <1>5

\* Fewer processes.
LEMMA ExitInv == ASSUME LeaseInv, NEW b \in Bundles, NEW u \in Users, Exit(b, u) PROVE LeaseInv'
<1> USE DEF LeaseInv
<1>1. /\ running' = running \ {<<b, u>>}
      /\ UNCHANGED <<exists, files, owner, ready, torn, claimed, lease, accepted, rejected, phase,
                     work, faults, crashes>>
  BY DEF Exit
<1>2. TypeOK' /\ Apart' /\ Places'
  BY <1>1 DEF TypeOK, Apart, Places, At
<1>3. Backing' /\ Reserving'
  BY <1>1 DEF Backing, Reserving, At
<1>4. Knowing' /\ Keeping'
  BY <1>1 DEF Knowing, Keeping, AcceptedKept, At
<1>5. Holding'
  BY <1>1 DEF Holding, Copy, At, FilesArePrivate
<1> QED BY <1>2, <1>3, <1>4, <1>5

-----------------------------------------------------------------------------
(* Removing.                                                                *)

\* A removal stays on its installation until it is over.
LEMMA Withdraws ==
  ASSUME TypeOK, Apart, Places, NEW a \in Actors, NEW pc \in {"idle"} \cup Removals,
         NEW b, NEW u, NEW us, Moves(a, pc, b, u, us),
         work[a].pc \in Removals,
         IF pc = "idle" THEN b = None ELSE b = work[a].b,
         pc = "unlink" => u \in us,
         \A c \in Bundles : c # work[a].b =>
           owner'[c] = owner[c] /\ (c \in exists => c \in exists'),
         ready' \subseteq ready, UNCHANGED <<accepted, rejected>>,
         phase' = phase \/ (phase # "up" /\ phase' # "up")
  PROVE  Apart' /\ Places'
<1>1. /\ work'[a].pc = pc /\ work'[a].b = b /\ work'[a].u = u /\ work'[a].us = us
      /\ \A c \in Actors : c # a => work'[c] = work[c]
  BY DEF Moves
<1>2. work[a].b \in Bundles
  BY DEF Places, Removals
<1>3. CASE a = "loop"
  <2>1. Apart'
    <3> SUFFICES ASSUME NEW k \in Killers, work'[k].pc # "idle"
                 PROVE  /\ work'[k].pc \in Removals /\ work'[k].b \in Instances
                        /\ work'[k].b # accepted'
                        /\ work'["loop"].b = work'[k].b => work'["loop"].pc \in Removals
      BY DEF Apart, At
    <3>1. work'[k] = work[k] /\ work[k].b \in Bundles
      BY <1>1, <1>3 DEF Places
    <3> QED BY <1>1, <1>3, <3>1 DEF Apart
  <2>2. pc # "idle" /\ b = accepted' => rejected'
    BY <1>2, <1>3 DEF Places, At
  <2>3. Places'
    BY <1>2, <1>3, <2>2, PlacesLeft
  <2> QED BY <2>1, <2>3
<1>4. CASE a \in Killers
  <2>1. /\ a # "loop" /\ work'["loop"] = Loop /\ phase = "up" /\ phase' = "up"
        /\ work[a].b \in Instances /\ work[a].b # accepted
        /\ Loop.b = work[a].b => At(Removals)
    BY <1>1, <1>4 DEF Apart, Places, Removals
  <2>2. Apart'
    <3> SUFFICES ASSUME NEW k \in Killers, work'[k].pc # "idle"
                 PROVE  /\ work'[k].pc \in Removals /\ work'[k].b \in Instances
                        /\ work'[k].b # accepted'
                        /\ work'["loop"].b = work'[k].b => work'["loop"].pc \in Removals
      BY DEF Apart, At
    <3> QED BY <1>1, <2>1 DEF Apart, At
  <2>3. \A c \in Actors : /\ IF work'[c].pc = "idle" THEN work'[c].b = None
                                ELSE work'[c].b \in Bundles
                          /\ work'[c].pc = "unlink" => work'[c].u \in work'[c].us
    BY <1>1, <1>2 DEF Places
  <2>4. ~At(Removals) => owner'[Loop.b] = owner[Loop.b] \/ Loop.pc = "idle"
    BY <2>1 DEF Places, At
  <2>5. ~At(Removals) /\ Loop.pc # "idle" => (Loop.b \in exists => Loop.b \in exists')
    BY <2>1 DEF Places, At
  <2> QED BY <2>1, <2>2, <2>3, <2>4, <2>5 DEF Places, At, Making, Removals
<1> QED BY <1>3, <1>4

\* A copy stays a copy while its removal goes on.
LEMMA CopyKept ==
  ASSUME NEW a \in Actors, NEW pc, NEW b, NEW u, NEW us, Moves(a, pc, b, u, us),
         a = "loop" => /\ pc \in {"check"} \cup Deleting /\ b = Loop.b,
         NEW c \in Bundles, Copy(c), owner'[c] = None
  PROVE  Copy(c)'
  BY DEF Moves, Copy, At, Making, Deleting

\* An installation that is being started is not removed by a request.
LEMMA RemoveInv ==
  ASSUME LeaseInv, NEW a \in Actors, NEW b \in Bundles, Remove(a, b) PROVE LeaseInv'
<1> USE DEF LeaseInv
<1>1. /\ phase = "up" /\ work[a].pc = "idle" /\ b \in exists
      /\ b # accepted \/ (a = "loop" /\ rejected)
      /\ a \in Killers => b \in Instances /\ (Loop.b = b => Loop.pc \in Removals)
      /\ UNCHANGED <<exists, files, owner, ready, torn, claimed, lease, running, accepted, rejected,
                     phase, faults, crashes>>
  BY DEF Remove
<1>2. Moves(a, "check", b, None, {})
  BY MovesOn DEF Remove, PCs, Removals
<1>3. /\ work'[a].pc = "check" /\ work'[a].b = b /\ work'[a].us = {}
      /\ \A c \in Actors : c # a => work'[c] = work[c]
  BY <1>2 DEF Moves
<1>4. TypeOK'
  BY <1>1, <1>2 DEF TypeOK, Moves
<1>5. CASE a = "loop"
  <2>1. Apart'
    BY <1>1, <1>2, <1>5, ApartKept DEF Removals
  <2>2. Places'
    BY <1>1, <1>2, <1>5, PlacesLeft DEF Removals
  <2>3. Reserving'
    BY <1>1, <1>3, <1>5 DEF Reserving, At
  <2>4. Knowing'
    BY <1>1, <1>2, <1>5, KnowingKept DEF Deleting, Freeing
  <2>5. Holding'
    BY <1>1, <1>3, <1>5 DEF Holding, Copy, At, Making, Deleting
  <2>6. Keeping'
    BY <1>1, <1>3, <1>5 DEF Keeping, At, AcceptedKept
  <2> QED BY <1>1, <1>4, <2>1, <2>2, <2>3, <2>4, <2>5, <2>6 DEF Backing
<1>6. CASE a \in Killers
  <2>1. a # "loop" /\ work'["loop"] = Loop
    BY <1>3, <1>6
  <2>2. Apart'
    BY <1>1, <1>3, <1>6, <2>1 DEF Apart, At, Removals
  <2>3. Places'
    <3>1. \A c \in Actors : /\ IF work'[c].pc = "idle" THEN work'[c].b = None
                                  ELSE work'[c].b \in Bundles
                            /\ work'[c].pc = "unlink" => work'[c].u \in work'[c].us
      BY <1>3 DEF Places
    <3> QED BY <1>1, <2>1, <3>1 DEF Places, At
  <2>4. Reserving'
    BY <1>1, <2>1 DEF Reserving, At
  <2>5. Knowing'
    <3>1. \A c \in Actors : work'[c] = work[c] \/ (work'[c].pc = "check" /\ work'[c].us = {})
      BY <1>3
    <3>2. \A c \in Actors : work[c].pc \in Freeing => work'[c] = work[c]
      BY <1>1, <1>3 DEF Freeing
    <3>3. \A c \in Actors : work'[c].pc \in Deleting \cup Freeing => work'[c] = work[c]
      BY <3>1 DEF Deleting, Freeing
    <3>4. \A c \in Actors : work'[c].pc = "unlink" => work'[c] = work[c]
      BY <3>1
    <3> QED BY <1>1, <3>1, <3>2, <3>3, <3>4 DEF Knowing
  <2>6. Holding'
    BY <1>1, <2>1 DEF Holding, Copy, At
  <2>7. Keeping'
    BY <1>1, <2>1 DEF Keeping, At, AcceptedKept
  <2> QED BY <1>1, <1>4, <2>2, <2>3, <2>4, <2>5, <2>6, <2>7 DEF Backing
<1> QED BY <1>5, <1>6

\* A removal goes on only if no process of the lease is left.
LEMMA CheckInv == ASSUME LeaseInv, NEW a \in Actors, Check(a) PROVE LeaseInv'
<1> USE DEF LeaseInv
<1> DEFINE b == work[a].b
           us == {u \in Users : lease[u] = b}
<1>1. /\ work[a].pc = "check"
      /\ UNCHANGED <<exists, files, owner, ready, torn, claimed, lease, running, accepted, rejected,
                     phase, faults, crashes>>
  BY DEF Check
<1>2. b \in Bundles /\ \A u, v \in us : u = v
  BY <1>1 DEF Places, Backing, TypeOK
<1>3. \A u \in Users : <<b, u>> \in running => u \in us /\ Busy(u) /\ owner[b] = u
  BY <1>2 DEF Backing, Busy
<1>4. CASE /\ b \notin exists \/ \E u \in us : Busy(u)
           /\ Do(a, AtRest)
  <2>1. Moves(a, "idle", None, None, {})
    BY <1>4, MovesRest
  <2>2. /\ work'[a].pc = "idle" /\ work'[a].us = {}
        /\ \A c \in Actors : c # a => work'[c] = work[c]
    BY <2>1 DEF Moves
  <2>3. b \in exists => owner[b] # None
    <3> SUFFICES ASSUME b \in exists PROVE owner[b] # None
      OBVIOUS
    <3>1. PICK u \in us : Busy(u)
      BY <1>4
    <3>2. PICK c \in Bundles : <<c, u>> \in running
      BY <3>1 DEF Busy
    <3> QED BY <1>3, <3>1, <3>2 DEF Backing
  <2>4. b \notin exists => files[b] = {}
    BY <1>2 DEF Backing
  <2>5. TypeOK'
    BY <1>1, <2>1 DEF TypeOK, Moves
  <2>6. Apart' /\ Places'
    BY <1>1, <2>1, Withdraws DEF Removals
  <2>7. Backing'
    BY <1>1 DEF Backing
  <2>8. Reserving'
    BY <1>1, <2>2 DEF Reserving, At
  <2>9. Knowing'
    <3>1. \A c \in Actors : work'[c] = work[c] \/ (work'[c].pc = "idle" /\ work'[c].us = {})
      BY <2>2
    <3>2. \A c \in Actors : work[c].pc \in Freeing => work'[c] = work[c]
      BY <1>1, <2>2 DEF Freeing
    <3>3. \A c \in Actors : work'[c].pc \in Deleting \cup Freeing => work'[c] = work[c]
      BY <3>1 DEF Deleting, Freeing
    <3>4. \A c \in Actors : work'[c].pc = "unlink" => work'[c] = work[c]
      BY <3>1
    <3> QED BY <1>1, <3>1, <3>2, <3>3, <3>4 DEF Knowing
  <2>10. Holding'
    <3>1. \A c \in Bundles : Copy(c) /\ files[c] # {} => Copy(c)'
      BY <1>1, <2>2, <2>3, <2>4 DEF Copy, At
    <3>2. At({"check"} \cup Deleting)' => At({"check"} \cup Deleting) /\ Loop' = Loop
      BY <1>1, <2>2 DEF At, Deleting
    <3>3. At({"record", "own", "owned", "relabel", "launch"})' => Loop' = Loop
      BY <2>2 DEF At
    <3>4. ASSUME phase = "reserve", NEW c \in Instances \cap exists, owner[c] = None
          PROVE  c = Loop'.b /\ At({"deleting"})'
      BY <1>1, <2>2, <3>4 DEF Holding, Places, At
    <3> QED BY <1>1, <3>1, <3>2, <3>3, <3>4 DEF Holding, At, FilesArePrivate
  <2>11. Keeping'
    BY <1>1, <2>2 DEF Keeping, At, AcceptedKept
  <2> QED BY <2>5, <2>6, <2>7, <2>8, <2>9, <2>10, <2>11
<1>5. CASE /\ b \in exists /\ \A u \in us : ~Busy(u)
           /\ Do(a, [On("delete", b) EXCEPT !.us = us])
  <2>1. Moves(a, "delete", b, None, us)
    BY <1>2, <1>5, MovesFor DEF PCs, Removals
  <2>2. /\ work'[a].pc = "delete" /\ work'[a].us = us /\ work'[a].b = b
        /\ \A c \in Actors : c # a => work'[c] = work[c]
    BY <2>1 DEF Moves
  <2>3. TypeOK'
    BY <1>1, <2>1 DEF TypeOK, Moves
  <2>4. Apart' /\ Places'
    BY <1>1, <2>1, Withdraws DEF Removals
  <2>5. Backing'
    BY <1>1 DEF Backing
  <2>6. Reserving'
    BY <1>1, <2>2 DEF Reserving, At
  <2>7. Knowing'
    <3>1. \A c \in Actors : c = a \/ work'[c] = work[c]
      BY <2>2
    <3>2. \A c \in Actors : work[c].pc \in Freeing => work'[c] = work[c]
      BY <1>1, <2>2 DEF Freeing
    <3>3. \A c \in Actors : work'[c].pc \in Freeing \cup {"unlink"} => work'[c] = work[c]
      BY <2>2, <3>1 DEF Freeing
    <3>4. \A u \in Users : <<b, u>> \notin running
      BY <1>3, <1>5
    <3>5. \A u \in Users : lease[u] = b => u \in us
      OBVIOUS
    <3> QED BY <1>1, <1>2, <2>2, <3>1, <3>2, <3>3, <3>4, <3>5 DEF Knowing
  <2>8. Holding'
    BY <1>1, <2>2 DEF Holding, Copy, At, Making, Deleting, FilesArePrivate
  <2>9. Keeping'
    BY <1>1, <2>2 DEF Keeping, At, AcceptedKept
  <2> QED BY <2>3, <2>4, <2>5, <2>6, <2>7, <2>8, <2>9
<1> QED BY <1>4, <1>5 DEF Check

\* Files go before their user is released, whatever goes first.
LEMMA DeleteInv == ASSUME LeaseInv, NEW a \in Actors, Delete(a) PROVE LeaseInv'
<1> USE DEF LeaseInv
<1> DEFINE b == work[a].b
<1>1. /\ work[a].pc = "delete"
      /\ owner' \in {owner, [owner EXCEPT ![b] = None]}
      /\ files' \in {files, [files EXCEPT ![b] = {}]}
      /\ ready' \in {ready, ready \ {b}}
      /\ torn' = torn \cup ({b} \cap Prepared)
      /\ UNCHANGED <<exists, claimed, lease, running, accepted, rejected, phase, faults, crashes>>
  BY DEF Delete
<1>2. Moves(a, "deleting", b, work[a].u, work[a].us)
  BY MovesTo DEF Delete, PCs, Removals
<1>3. /\ work'[a].pc = "deleting" /\ work'[a].us = work[a].us /\ work'[a].b = b
      /\ \A c \in Actors : c # a => work'[c] = work[c]
  BY <1>2 DEF Moves
<1>4. b \in Bundles
  BY <1>1 DEF Places
<1>5. /\ owner'[b] \in {owner[b], None} /\ files'[b] \in {files[b], {}}
      /\ \A c \in Bundles : c # b => owner'[c] = owner[c] /\ files'[c] = files[c]
  BY <1>1, <1>4 DEF TypeOK
<1>6. a # "loop" => phase = "up" /\ b \in Instances /\ b # accepted /\ (Loop.b = b => At(Removals))
  BY <1>1 DEF Apart, Places
<1>7. a = "loop" /\ b = accepted => rejected
  BY <1>1 DEF Places, At, Removals
<1>8. TypeOK'
  BY <1>1, <1>2, <1>4 DEF TypeOK, Moves
<1>9. Apart' /\ Places'
  BY <1>1, <1>2, <1>5, Withdraws DEF Removals
<1>10. Backing'
  <2>1. \A u \in Users : <<b, u>> \notin running
    BY <1>1 DEF Knowing, Deleting
  <2>2. \A c \in Bundles : owner'[c] \in {owner[c], None} /\ files'[c] \in {files[c], {}}
    BY <1>5
  <2>3. \A u \in Users : lease[u] # None => lease[u] \in Bundles
    BY DEF TypeOK
  <2> QED BY <1>1, <1>4, <1>5, <2>1, <2>2, <2>3 DEF Backing
<1>11. Reserving'
  <2>1. a = "loop" => ~At({"claim", "record", "own", "owned", "launch", "relabel"})'
    BY <1>3 DEF At
  <2>2. a # "loop" => Loop' = Loop
    BY <1>3
  <2>3. a # "loop" /\ At({"relabel", "launch"}) =>
          Loop.b \in Bundles /\ owner'[Loop.b] = owner[Loop.b] /\ files'[Loop.b] = files[Loop.b]
    BY <1>5, <1>6 DEF At, Removals, Places
  <2> QED BY <1>1, <2>1, <2>2, <2>3 DEF Reserving, At
<1>12. Knowing'
  <2>1. \A c \in Actors : /\ work'[c].b = work[c].b /\ work'[c].us = work[c].us
                          /\ work'[c].pc \in Freeing \/ work[c].pc \in Freeing => work'[c] = work[c]
                          /\ work'[c].pc = "unlink" => work'[c] = work[c]
                          /\ work'[c].pc \in Deleting => work[c].pc \in Deleting
    BY <1>1, <1>3 DEF Freeing, Deleting
  <2> QED BY <1>1, <2>1 DEF Knowing
<1>13. Holding'
  <2>1. \A c \in Bundles : Copy(c) => Copy(c)'
    <3>1. SUFFICES ASSUME NEW c \in Bundles, Copy(c) PROVE Copy(c)'
      OBVIOUS
    <3>2. owner'[c] = None
      BY <1>5, <3>1 DEF Copy
    <3> QED BY <1>2, <3>1, <3>2, CopyKept DEF Deleting
  <2>2. \A c \in Bundles : files'[c] \subseteq files[c]
    BY <1>5
  <2>3. ASSUME phase = "up", NEW c \in Bundles, NEW u \in files'[c]
        PROVE  u \in claimed /\ (lease[u] \in {c, None} \/ (Copy(c)' /\ lease[u] \in ready'))
    <3>1. u \in claimed /\ (lease[u] \in {c, None} \/ (Copy(c) /\ lease[u] \in ready))
      BY <2>2, <2>3 DEF Holding
    <3>2. Copy(c) /\ lease[u] \in ready => b \notin Prepared
      BY <1>1, <1>6 DEF Copy
    <3> QED BY <1>1, <2>1, <3>1, <3>2 DEF TypeOK
  <2>4. phase = "up" /\ At({"record", "own", "owned", "relabel", "launch"})' =>
          \A c \in Bundles : Loop'.u \in files'[c] => c = Loop'.b /\ ~At({"record"})'
    BY <1>3, <2>2 DEF Holding, At
  <2>5. ASSUME phase # "up", NEW c \in Bundles, NEW u \in files'[c], owner'[c] = None
        PROVE  \/ u \in claimed /\ lease[u] \in {c, None}
               \/ c \in Instances /\ phase \in {"owners", "discard"}
    <3>1. a = "loop" /\ u \in files[c]
      BY <1>6, <2>2, <2>5
    <3>2. c # b \/ owner[c] = None \/ phase = "reserve" \/ b \in Instances
      <4>1. phase \in {"owners", "discard"} => b \in Instances \/ owner[b] = None
        BY <1>1, <3>1 DEF Holding, At, Deleting
      <4> QED BY <2>5, <4>1 DEF TypeOK
    <3> QED BY <1>1, <1>5, <2>5, <3>1, <3>2 DEF Holding, At, Deleting, TypeOK
  <2>6. ASSUME phase = "reserve"
        PROVE  /\ \A c \in Instances \cap exists' : owner'[c] = None =>
                    c = Loop'.b /\ At({"deleting"})'
               /\ At({"check"} \cup Deleting)' =>
                    \A u \in files'[Loop'.b] : u \in claimed' /\ lease'[u] \in {Loop'.b, None}
    BY <1>1, <1>3, <1>4, <1>5, <1>6, <2>2, <2>6 DEF Holding, At, Deleting
  <2>7. \A c, d \in Bundles : c # d /\ owner'[c] # None /\ owner'[c] \in files'[d] =>
          d \in Instances
    BY <1>5, <2>2 DEF Holding
  <2>8. phase \in {"owners", "discard"} /\ At({"check"} \cup Deleting)' =>
          Loop'.b \in Instances \/ owner'[Loop'.b] = None
    BY <1>1, <1>3, <1>4, <1>5, <1>6 DEF Holding, At, Deleting
  <2>9. phase = "owners" => FilesArePrivate'
    BY <1>1, <2>2 DEF Holding, FilesArePrivate, TypeOK
  <2> QED BY <1>1, <2>3, <2>4, <2>5, <2>6, <2>7, <2>8, <2>9 DEF Holding
<1>14. Keeping'
  BY <1>1, <1>3, <1>5, <1>6, <1>7 DEF Keeping, At, AcceptedKept, TypeOK
<1> QED BY <1>8, <1>9, <1>10, <1>11, <1>12, <1>13, <1>14

\* The directory goes last, and its removal still knows the lease.
LEMMA DeletedInv == ASSUME LeaseInv, NEW a \in Actors, Deleted(a) PROVE LeaseInv'
<1> USE DEF LeaseInv
<1> DEFINE b == work[a].b
           us == work[a].us
<1>1. /\ work[a].pc = "deleting"
      /\ exists' = exists \ {b} /\ ready' = ready \ {b} /\ torn' = torn \ {b}
      /\ files' = [files EXCEPT ![b] = {}] /\ owner' = [owner EXCEPT ![b] = None]
      /\ UNCHANGED <<claimed, lease, running, accepted, rejected, phase, faults, crashes>>
  BY DEF Deleted
<1>2. b \in Bundles
  BY <1>1 DEF Places
<1>3. /\ owner'[b] = None /\ files'[b] = {}
      /\ \A c \in Bundles : c # b => owner'[c] = owner[c] /\ files'[c] = files[c]
  BY <1>1, <1>2 DEF TypeOK
<1>4. a # "loop" => phase = "up" /\ b \in Instances /\ b # accepted /\ (Loop.b = b => At(Removals))
  BY <1>1 DEF Apart, Places
<1>5. a = "loop" /\ b = accepted => rejected
  BY <1>1 DEF Places, At, Removals
<1>6. Backing'
  <2>1. \A u \in Users : <<b, u>> \notin running
    BY <1>1 DEF Knowing, Deleting
  <2>2. \A c \in Bundles : owner'[c] \in {owner[c], None} /\ files'[c] \in {files[c], {}}
    BY <1>3
  <2>3. \A u \in Users : lease[u] # None => lease[u] \in Bundles
    BY DEF TypeOK
  <2> QED BY <1>1, <1>2, <1>3, <2>1, <2>2, <2>3 DEF Backing
<1>7. ASSUME NEW pc \in {"idle", "release"}, NEW d, NEW v, NEW vs, Moves(a, pc, d, v, vs),
             IF us = {} THEN pc = "idle" /\ d = None /\ vs = {}
                 ELSE pc = "release" /\ d = b /\ vs = us
      PROVE  LeaseInv'
  <2>1. /\ work'[a].pc = pc /\ work'[a].b = d /\ work'[a].us = vs
        /\ \A c \in Actors : c # a => work'[c] = work[c]
    BY <1>7 DEF Moves
  <2>2. TypeOK'
    BY <1>1, <1>7 DEF TypeOK, Moves
  <2>3. Apart' /\ Places'
    BY <1>1, <1>3, <1>7, Withdraws DEF Removals
  <2>4. Reserving'
    <3>1. a = "loop" => ~At({"claim", "record", "own", "owned", "launch", "relabel"})'
      BY <1>7, <2>1 DEF At
    <3>2. a # "loop" => Loop' = Loop
      BY <2>1
    <3>3. a # "loop" /\ At({"relabel", "launch"}) =>
            Loop.b \in Bundles /\ owner'[Loop.b] = owner[Loop.b] /\ files'[Loop.b] = files[Loop.b]
      BY <1>3, <1>4 DEF At, Removals, Places
    <3> QED BY <1>1, <3>1, <3>2, <3>3 DEF Reserving, At
  <2>5. Knowing'
    <3>1. \A c \in Actors : c = a \/ work'[c] = work[c]
      BY <2>1
    <3>2. \A c \in Actors : work[c].pc \in Freeing => work'[c] = work[c]
      BY <1>1, <2>1 DEF Freeing
    <3>3. \A c \in Actors : work'[c].pc \in Deleting \cup {"unlink"} => work'[c] = work[c]
      BY <1>7, <2>1, <3>1 DEF Deleting
    <3>4. \A c \in Actors : work'[c].us = work[c].us
      BY <1>7, <2>1
    <3>5. phase # "owners" => \A u \in Users : lease[u] = b => u \in us
      BY <1>1 DEF Knowing, Deleting
    <3>6. \A u \in Users : lease[u] # None => lease[u] \in Bundles
      BY DEF TypeOK
    <3>7. \A c \in Actors : work'[c].pc \in Freeing => work'[c].b \notin exists'
      BY <1>1, <1>7, <2>1 DEF Knowing, Freeing
    <3>8. \A c, e \in Actors : work'[c].pc = "unlink" /\ work'[e].pc = "unlink"
            /\ work'[c].u = work'[e].u => c = e
      BY <3>3 DEF Knowing
    <3>9. \A c \in Actors : \A u, w \in work'[c].us : u = w
      BY <3>4 DEF Knowing
    <3>10. \A c \in Actors : /\ work'[c].pc = "unlink" => lease'[work'[c].u] = work'[c].b
                             /\ work'[c].pc \in Deleting =>
                                  \A u \in Users : <<work'[c].b, u>> \notin running'
      BY <1>1, <3>3 DEF Knowing, Deleting
    <3>11. ASSUME phase' # "owners", NEW c \in Actors, work'[c].pc \in Deleting \cup Freeing,
                  NEW u \in Users, lease'[u] = work'[c].b
           PROVE  u \in work'[c].us
      BY <1>1, <1>7, <2>1, <3>5, <3>11 DEF Knowing, Deleting, Freeing
    <3>12. ASSUME phase' # "owners", NEW u \in Users, lease'[u] # None, lease'[u] \notin exists'
           PROVE  \E c \in Actors : work'[c].pc \in Freeing /\ work'[c].b = lease'[u]
      <4>1. CASE lease[u] = b
        BY <1>1, <1>7, <2>1, <3>5, <3>12, <4>1 DEF Freeing
      <4>2. CASE lease[u] # b
        <5>1. PICK c \in Actors : work[c].pc \in Freeing /\ work[c].b = lease[u]
          BY <1>1, <3>12, <4>2 DEF Knowing
        <5> QED BY <1>1, <3>2, <5>1
      <4> QED BY <4>1, <4>2
    <3> QED BY <3>7, <3>8, <3>9, <3>10, <3>11, <3>12 DEF Knowing
  <2>6. Holding'
    <3>1. \A c \in Bundles : Copy(c) /\ files'[c] # {} => Copy(c)'
      BY <1>3, <2>1 DEF Copy, At
    <3>2. \A c \in Bundles : files'[c] \subseteq files[c] /\ owner'[c] \in {owner[c], None}
      BY <1>3
    <3>3. ASSUME phase = "up", NEW c \in Bundles, NEW u \in files'[c]
          PROVE  u \in claimed /\ (lease[u] \in {c, None} \/ (Copy(c)' /\ lease[u] \in ready'))
      <4>1. u \in claimed /\ (lease[u] \in {c, None} \/ (Copy(c) /\ lease[u] \in ready)) /\ c # b
        BY <1>3, <3>2, <3>3 DEF Holding
      <4>2. Copy(c) /\ lease[u] \in ready => b \notin Prepared
        BY <1>1, <1>4, <4>1 DEF Copy
      <4> QED BY <1>1, <3>1, <3>3, <4>1, <4>2 DEF TypeOK
    <3>4. phase = "up" /\ At({"record", "own", "owned", "relabel", "launch"})' =>
            \A c \in Bundles : Loop'.u \in files'[c] => c = Loop'.b /\ ~At({"record"})'
      BY <1>7, <2>1, <3>2 DEF Holding, At
    <3>5. ASSUME phase # "up", NEW c \in Bundles, NEW u \in files'[c], owner'[c] = None
          PROVE  \/ u \in claimed /\ lease[u] \in {c, None}
                 \/ c \in Instances /\ phase \in {"owners", "discard"}
      BY <1>3, <3>2, <3>5 DEF Holding
    <3>6. ASSUME phase = "reserve"
          PROVE  /\ \A c \in Instances \cap exists' : owner'[c] = None =>
                      c = Loop'.b /\ At({"deleting"})'
                 /\ ~At({"check"} \cup Deleting)'
      BY <1>1, <1>3, <1>4, <1>7, <2>1, <3>6 DEF Holding, At, Deleting
    <3>7. \A c, e \in Bundles : c # e /\ owner'[c] # None /\ owner'[c] \in files'[e] =>
            e \in Instances
      BY <3>2 DEF Holding
    <3>8. phase \in {"owners", "discard"} => ~At({"check"} \cup Deleting)'
      BY <1>4, <1>7, <2>1 DEF At, Deleting
    <3>9. phase = "owners" => FilesArePrivate'
      BY <1>1, <3>2 DEF Holding, FilesArePrivate, TypeOK
    <3> QED BY <1>1, <3>3, <3>4, <3>5, <3>6, <3>7, <3>8, <3>9 DEF Holding
  <2>7. Keeping'
    BY <1>1, <1>3, <1>4, <1>5, <2>1 DEF Keeping, At, AcceptedKept, TypeOK
  <2> QED BY <1>6, <2>2, <2>3, <2>4, <2>5, <2>6, <2>7
<1>8. CASE us = {} /\ Do(a, AtRest)
  BY <1>7, <1>8, MovesRest
<1>9. CASE us # {} /\ Do(a, [work[a] EXCEPT !.pc = "release"])
  BY <1>7, <1>9, MovesTo DEF PCs, Removals, Goes
<1> QED BY <1>8, <1>9 DEF Deleted

\* What stays behind stays reserved.
LEMMA DeleteFailsInv ==
  ASSUME LeaseInv, Departures = {}, NEW a \in Actors, DeleteFails(a) PROVE LeaseInv'
<1> USE DEF LeaseInv
<1> DEFINE b == work[a].b
<1>1. /\ work[a].pc = "deleting" /\ faults < MaxFaults /\ faults' = faults + 1
      /\ \A u \in files[b] : lease[u] = b
      /\ phase' = (IF phase = "up" THEN "up" ELSE "owners")
      /\ UNCHANGED <<exists, files, owner, ready, torn, claimed, lease, running, accepted, rejected,
                     crashes>>
  BY DEF DeleteFails, Fault
<1>2. Moves(a, "idle", None, None, {})
  BY MovesRest DEF DeleteFails
<1>3. /\ work'[a].pc = "idle" /\ work'[a].us = {}
      /\ \A c \in Actors : c # a => work'[c] = work[c]
  BY <1>2 DEF Moves
<1>4. b \in Bundles
  BY <1>1 DEF Places
<1>5. a # "loop" => phase = "up"
  BY <1>1 DEF Places
<1>6. TypeOK'
  BY <1>1, <1>2 DEF TypeOK, Moves
<1>7. Apart' /\ Places'
  BY <1>1, <1>2, Withdraws DEF Removals
<1>8. Backing'
  BY <1>1 DEF Backing
<1>9. Reserving'
  BY <1>1, <1>3 DEF Reserving, At
<1>10. Knowing'
  <2>1. \A c \in Actors : work'[c] = work[c] \/ (work'[c].pc = "idle" /\ work'[c].us = {})
    BY <1>3
  <2>2. \A c \in Actors : work[c].pc \in Freeing => work'[c] = work[c]
    BY <1>1, <1>3 DEF Freeing
  <2>3. \A c \in Actors : work'[c].pc \in Deleting \cup Freeing => work'[c] = work[c]
    BY <2>1 DEF Deleting, Freeing
  <2>4. \A c \in Actors : work'[c].pc = "unlink" => work'[c] = work[c]
    BY <2>1
  <2>5. phase' # "owners" => phase # "owners"
    BY <1>1
  <2> QED BY <1>1, <2>1, <2>2, <2>3, <2>4, <2>5 DEF Knowing
<1>11. Holding'
  <2>1. \A c \in Bundles \ {b} : Copy(c) => Copy(c)'
    BY <1>1, <1>3 DEF Copy, At
  <2>2. \A u \in files[b] : u \in claimed
    BY <1>1, <1>4 DEF Backing, TypeOK
  <2>3. phase = "up" => \A c \in Bundles : \A u \in files[c] :
          u \in claimed /\ (lease[u] \in {c, None} \/ (Copy(c)' /\ lease[u] \in ready))
    BY <1>1, <2>1, <2>2 DEF Holding
  <2>4. phase = "up" /\ At({"record", "own", "owned", "relabel", "launch"})' =>
          \A c \in Bundles : Loop'.u \in files[c] => c = Loop'.b /\ ~At({"record"})'
    BY <1>3 DEF Holding, At
  <2>5. phase # "up" => \A c \in Bundles : \A u \in files[c] : owner[c] = None =>
          (u \in claimed /\ lease[u] \in {c, None}) \/ c \in Instances
    BY DEF Holding
  <2>6. phase # "up" => ~At({"check"} \cup Deleting)'
    BY <1>3, <1>5 DEF At, Deleting
  <2>7. phase' = "owners" => FilesArePrivate
    BY <1>1 DEF Holding, FilesArePrivate, Backing, TypeOK
  <2>8. FilesArePrivate' <=> FilesArePrivate
    BY <1>1 DEF FilesArePrivate
  <2>9. \A c, e \in Bundles : c # e /\ owner[c] # None /\ owner[c] \in files[e] => e \in Instances
    BY DEF Holding
  <2> QED BY <1>1, <2>3, <2>4, <2>5, <2>6, <2>7, <2>8, <2>9 DEF Holding
<1>12. Keeping'
  BY <1>1, <1>3 DEF Keeping, At, AcceptedKept
<1> QED BY <1>6, <1>7, <1>8, <1>9, <1>10, <1>11, <1>12

\* There is one user at most to release.
LEMMA RestLast ==
  ASSUME LeaseInv, NEW a \in Actors, NEW u \in work[a].us
  PROVE  Rest(a, u) = AtRest
<1>1. work[a].us \ {u} = {}
  BY DEF LeaseInv, Knowing
<1> QED BY <1>1 DEF Rest

\* A release that finds its user released, or the lease of another, is over.
LEMMA ReleasedInv ==
  ASSUME LeaseInv, NEW a \in Actors, work[a].pc = "release", Moves(a, "idle", None, None, {}),
         phase # "owners" => \A u \in Users : lease[u] # work[a].b,
         UNCHANGED <<disk, run, running, record, phase, bounds>>
  PROVE  LeaseInv'
<1> USE DEF LeaseInv
<1>1. /\ work'[a].pc = "idle" /\ work'[a].us = {}
      /\ \A c \in Actors : c # a => work'[c] = work[c]
  BY DEF Moves
<1>2. UNCHANGED <<exists, files, owner, ready, torn, claimed, lease, running, accepted, rejected,
                  phase, faults, crashes>>
  OBVIOUS
<1>3. TypeOK'
  BY <1>2 DEF TypeOK, Moves
<1>4. Apart' /\ Places'
  BY <1>2, Withdraws DEF Removals
<1>5. Backing'
  BY <1>2 DEF Backing
<1>6. Reserving'
  BY <1>1, <1>2 DEF Reserving, At
<1>7. Knowing'
  <2>1. \A c \in Actors : work'[c] = work[c] \/ (work'[c].pc = "idle" /\ work'[c].us = {})
    BY <1>1
  <2>2. \A c \in Actors : c = a \/ work'[c] = work[c]
    BY <1>1
  <2>3. \A c \in Actors : work'[c].pc \in Deleting \cup Freeing => work'[c] = work[c]
    BY <2>1 DEF Deleting, Freeing
  <2>4. \A c \in Actors : work'[c].pc = "unlink" => work'[c] = work[c]
    BY <2>1
  <2>5. ASSUME phase # "owners", NEW u \in Users, lease[u] # None, lease[u] \notin exists
        PROVE  \E c \in Actors : work'[c].pc \in Freeing /\ work'[c].b = lease[u]
    <3>1. PICK c \in Actors : work[c].pc \in Freeing /\ work[c].b = lease[u]
      BY <2>5 DEF Knowing
    <3> QED BY <2>2, <2>5, <3>1
  <2> QED BY <1>2, <2>1, <2>3, <2>4, <2>5 DEF Knowing
<1>8. Holding'
  BY <1>1, <1>2 DEF Holding, Copy, At, Making, Deleting, FilesArePrivate
<1>9. Keeping'
  BY <1>1, <1>2 DEF Keeping, At, AcceptedKept
<1> QED BY <1>3, <1>4, <1>5, <1>6, <1>7, <1>8, <1>9

\* A lease is released by one removal.
LEMMA ReleaseInv ==
  ASSUME LeaseInv, Departures = {}, NEW a \in Actors, NEW u \in Users, Release(a, u)
  PROVE  LeaseInv'
<1> USE DEF LeaseInv
<1> DEFINE b == work[a].b
<1>1. /\ work[a].pc = "release" /\ u \in work[a].us
      /\ \A c \in Actors : work[c].pc = "unlink" => work[c].u # u
      /\ UNCHANGED <<disk, run, running, record, phase, bounds>>
  BY DEF Release
<1>2. Rest(a, u) = AtRest
  BY <1>1, RestLast
<1>3. b \in Bundles /\ b \notin exists /\ \A v \in work[a].us : v = u
  BY <1>1 DEF Places, Knowing, Freeing
<1>4. phase # "owners" => \A v \in Users : lease[v] = b => v = u
  BY <1>1, <1>3 DEF Knowing, Freeing
<1>5. CASE /\ lease[u] = None \/ lease[u] # b \/ Busy(u)
           /\ Do(a, AtRest)
  <2>1. lease[u] # b
    <3> SUFFICES ASSUME lease[u] = b PROVE FALSE
      OBVIOUS
    <3>1. PICK c \in Bundles : <<c, u>> \in running
      BY <1>3, <1>5 DEF Busy
    <3> QED BY <1>3, <3>1 DEF Backing
  <2> QED BY <1>1, <1>4, <1>5, <2>1, MovesRest, ReleasedInv
<1>6. CASE lease[u] = b /\ Do(a, [work[a] EXCEPT !.pc = "unlink", !.u = u])
  <2>1. Moves(a, "unlink", b, u, work[a].us)
    BY <1>6, MovesWith DEF PCs, Removals
  <2>2. /\ work'[a].pc = "unlink" /\ work'[a].us = work[a].us /\ work'[a].b = b /\ work'[a].u = u
        /\ \A c \in Actors : c # a => work'[c] = work[c]
    BY <2>1 DEF Moves
  <2>3. UNCHANGED <<exists, files, owner, ready, torn, claimed, lease, running, accepted,
                    rejected, phase, faults, crashes>>
    BY <1>1
  <2>4. TypeOK'
    BY <2>1, <2>3 DEF TypeOK, Moves
  <2>5. Apart' /\ Places'
    BY <1>1, <2>1, <2>3, Withdraws DEF Removals
  <2>6. Backing'
    BY <2>3 DEF Backing
  <2>7. Reserving'
    BY <1>1, <2>2, <2>3 DEF Reserving, At
  <2>8. Knowing'
    <3>1. \A c \in Actors : c = a \/ work'[c] = work[c]
      BY <2>2
    <3>2. \A c \in Actors : /\ work'[c].b = work[c].b /\ work'[c].us = work[c].us
                            /\ work'[c].pc \in Freeing <=> work[c].pc \in Freeing
                            /\ work'[c].pc \in Deleting <=> work[c].pc \in Deleting
      BY <1>1, <2>2, <3>1 DEF Freeing, Deleting
    <3>3. \A c \in Actors : work'[c].pc = "unlink" => lease[work'[c].u] = work'[c].b
      BY <1>6, <2>2, <3>1 DEF Knowing
    <3>4. \A c, e \in Actors : work'[c].pc = "unlink" /\ work'[e].pc = "unlink"
            /\ work'[c].u = work'[e].u => c = e
      BY <1>1, <2>2, <3>1 DEF Knowing
    <3> QED BY <2>3, <3>2, <3>3, <3>4 DEF Knowing
  <2>9. Holding'
    BY <1>1, <2>2, <2>3 DEF Holding, Copy, At, Making, Deleting, FilesArePrivate
  <2>10. Keeping'
    BY <1>1, <2>2, <2>3 DEF Keeping, At, AcceptedKept
  <2> QED BY <2>4, <2>5, <2>6, <2>7, <2>8, <2>9, <2>10
<1> QED BY <1>2, <1>5, <1>6 DEF Release

\* The user is free when it has neither files nor processes.
LEMMA UnlinkInv == ASSUME LeaseInv, NEW a \in Actors, Unlink(a) PROVE LeaseInv'
<1> USE DEF LeaseInv
<1> DEFINE b == work[a].b
           u == work[a].u
<1>1. /\ work[a].pc = "unlink"
      /\ claimed' = claimed \ {u} /\ lease' = [lease EXCEPT ![u] = None]
      /\ UNCHANGED <<exists, files, owner, ready, torn, running, accepted, rejected, phase, faults,
                     crashes>>
  BY DEF Unlink
<1>2. /\ b \in Bundles /\ b \notin exists /\ u \in work[a].us /\ u \in Users /\ lease[u] = b
      /\ owner[b] = None /\ files[b] = {} /\ \A v \in work[a].us : v = u
  <2>1. b \in Bundles /\ b \notin exists /\ u \in work[a].us /\ lease[u] = b
    BY <1>1 DEF Places, Knowing, Freeing
  <2>2. u \in Users
    BY <2>1 DEF TypeOK, Works
  <2> QED BY <2>1, <2>2 DEF Backing, Knowing
<1>3. Rest(a, u) = AtRest
  BY <1>2, RestLast
<1>4. Moves(a, "idle", None, None, {})
  BY <1>3, MovesRest DEF Unlink
<1>5. /\ work'[a].pc = "idle" /\ work'[a].us = {}
      /\ \A c \in Actors : c # a => work'[c] = work[c]
  BY <1>4 DEF Moves
<1>6. lease'[u] = None /\ \A v \in Users : v # u => lease'[v] = lease[v]
  BY <1>1, <1>2 DEF TypeOK
<1>7. /\ \A c \in Bundles : owner[c] # u
      /\ \A v \in Users : v # u => lease[v] # b
  BY <1>2 DEF Backing
<1>8. a = "loop" \/ (phase = "up" /\ b \in Instances)
  BY <1>1 DEF Apart, Places
<1>9. TypeOK'
  BY <1>1, <1>2, <1>4 DEF TypeOK, Moves
<1>10. Apart' /\ Places'
  BY <1>1, <1>4, Withdraws DEF Removals
<1>11. Backing'
  <2>1. \A v \in Users : lease'[v] # None => v # u /\ lease'[v] = lease[v]
    BY <1>6
  <2>2. \A c \in Bundles : owner[c] # None =>
          owner[c] \in Users /\ owner[c] # u /\ lease'[owner[c]] = lease[owner[c]]
    BY <1>6, <1>7 DEF TypeOK
  <2>3. \A c \in Bundles, v \in Users : <<c, v>> \in running => v # u
    BY <1>7 DEF Backing
  <2> QED BY <1>1, <1>6, <2>1, <2>2, <2>3 DEF Backing
<1>12. Reserving'
  <2>1. ~At({"claim", "record", "own", "owned", "launch", "relabel"})'
        \/ (Loop' = Loop /\ a # "loop")
    BY <1>5 DEF At
  <2>2. At({"claim", "record", "own", "owned", "launch", "relabel"}) =>
          Loop.b \in exists /\ Loop.b \in Bundles
    BY DEF Places, Backing, At, Making
  <2>3. At({"record"}) => Loop.u # u
    BY <1>2 DEF Reserving, At
  <2>4. At({"own", "owned", "launch", "relabel"}) => Loop.u # u /\ Loop.u \in Users
    BY <1>2, <1>7, <2>2 DEF Reserving, At, Places
  <2>5. At({"record"}) => Loop.u \in Users
    BY DEF Places, At
  <2> QED BY <1>1, <1>6, <2>1, <2>2, <2>3, <2>4, <2>5 DEF Reserving, At
<1>13. Knowing'
  <2>1. \A c \in Actors : work'[c] = work[c] \/ (work'[c].pc = "idle" /\ work'[c].us = {})
    BY <1>5
  <2>2. \A c \in Actors : c = a \/ work'[c] = work[c]
    BY <1>5
  <2>3. \A c \in Actors : work'[c].pc \in Deleting \cup Freeing => work'[c] = work[c]
    BY <2>1 DEF Deleting, Freeing
  <2>4. \A c \in Actors : work'[c].pc = "unlink" => c # a /\ work'[c] = work[c]
    BY <1>5, <2>1
  <2>5. \A c \in Actors : work'[c].pc = "unlink" => work[c].u # u /\ work[c].u \in Users
    BY <1>1, <2>4 DEF Knowing, Places, TypeOK, Works
  <2>6. ASSUME phase # "owners", NEW v \in Users, lease'[v] # None, lease'[v] \notin exists
        PROVE  \E c \in Actors : work'[c].pc \in Freeing /\ work'[c].b = lease'[v]
    <3>1. v # u /\ lease'[v] = lease[v] /\ lease[v] # b
      BY <1>6, <1>7, <2>6
    <3>2. PICK c \in Actors : work[c].pc \in Freeing /\ work[c].b = lease[v]
      BY <2>6, <3>1 DEF Knowing
    <3> QED BY <2>2, <3>1, <3>2
  <2>7. \A c \in Actors : \A v \in Users :
          work'[c].pc \in Deleting \cup Freeing /\ lease'[v] = work'[c].b => lease[v] = work[c].b
    BY <1>6, <2>3 DEF Places, Deleting, Freeing
  <2> QED BY <1>1, <1>6, <2>1, <2>3, <2>4, <2>5, <2>6, <2>7 DEF Knowing
<1>14. Holding'
  <2>1. a = "loop" => \A c \in Bundles : ~Copy(c)
    BY <1>1 DEF Copy, At, Making, Deleting
  <2>2. a # "loop" => \A c \in Bundles : Copy(c)' <=> Copy(c)
    BY <1>1, <1>5 DEF Copy, At
  <2>3. phase = "up" => \A c \in Bundles : u \notin files[c]
    BY <1>2, <1>8, <2>1 DEF Holding, TypeOK
  <2>4. ASSUME phase = "up", NEW c \in Bundles, NEW v \in files[c]
        PROVE  v \in claimed' /\ (lease'[v] \in {c, None} \/ (Copy(c)' /\ lease'[v] \in ready))
    BY <1>1, <1>6, <2>1, <2>2, <2>3, <2>4 DEF Holding, TypeOK
  <2>5. phase = "up" /\ At({"record", "own", "owned", "relabel", "launch"})' =>
          \A c \in Bundles : Loop'.u \in files[c] => c = Loop'.b /\ ~At({"record"})'
    BY <1>5 DEF Holding, At
  <2>6. ASSUME phase # "up", NEW c \in Bundles, NEW v \in files[c], owner[c] = None
        PROVE  \/ v \in claimed' /\ lease'[v] \in {c, None}
               \/ c \in Instances /\ phase \in {"owners", "discard"}
    <3>1. v \in Users
      BY <2>6 DEF TypeOK
    <3> QED BY <1>1, <1>2, <1>6, <2>6, <3>1 DEF Holding
  <2>7. phase = "reserve" => /\ \A c \in Instances \cap exists : owner[c] # None
                             /\ ~At({"check"} \cup Deleting)'
    BY <1>1, <1>5, <1>8 DEF Holding, At, Deleting
  <2>8. phase \in {"owners", "discard"} => ~At({"check"} \cup Deleting)'
    BY <1>5, <1>8 DEF At, Deleting
  <2>9. phase = "owners" => FilesArePrivate'
    BY <1>1 DEF Holding, FilesArePrivate
  <2>10. \A c, e \in Bundles : c # e /\ owner[c] # None /\ owner[c] \in files[e] => e \in Instances
    BY DEF Holding
  <2> QED BY <1>1, <2>4, <2>5, <2>6, <2>7, <2>8, <2>9, <2>10 DEF Holding
<1>15. Keeping'
  BY <1>1, <1>5, <1>6, <1>7 DEF Keeping, At, AcceptedKept, TypeOK
<1> QED BY <1>9, <1>10, <1>11, <1>12, <1>13, <1>14, <1>15

-----------------------------------------------------------------------------
(* A crash, and the way up.                                                 *)

\* The files stay, the leases stay or go together, and the records tell whose they were.
LEMMA CrashInv == ASSUME LeaseInv, Departures = {}, Crash PROVE LeaseInv'
<1> USE DEF LeaseInv
<1>1. /\ crashes < MaxCrashes /\ crashes' = crashes + 1
      /\ ~(Loop.pc = "relabel" /\ lease[Loop.u] = None)
      /\ phase' = "owners" /\ work' = [a \in Actors |-> AtRest] /\ running' \in {running, {}}
      /\ \/ claimed' = claimed /\ lease' = lease
         \/ /\ running' = {} /\ claimed' = {} /\ lease' = [u \in Users |-> None]
            /\ \A p \in Prepared : owner[p] = None => files[p] = {}
      /\ UNCHANGED <<exists, files, owner, ready, torn, accepted, rejected, faults>>
  BY DEF Crash, Ready
<1>2. \A a \in Actors : work'[a].pc = "idle" /\ work'[a].b = None /\ work'[a].us = {}
  BY <1>1, RestWork
<1>3. work' \in [Actors -> Works]
  BY <1>1, RestWork
<1>4. TypeOK'
  BY <1>1, <1>3 DEF TypeOK
<1>5. Apart' /\ Places' /\ Reserving'
  BY <1>1, <1>2 DEF Apart, Places, Reserving, At, Removals, Making
<1>6. Backing'
  <2>1. CASE claimed' = claimed /\ lease' = lease
    BY <1>1, <2>1 DEF Backing
  <2>2. CASE running' = {} /\ claimed' = {} /\ lease' = [u \in Users |-> None]
    <3>1. \A u \in Users : lease'[u] = None
      BY <2>2
    <3> QED BY <1>1, <2>2, <3>1 DEF Backing, TypeOK
  <2> QED BY <1>1, <2>1, <2>2
<1>7. Knowing'
  BY <1>1, <1>2 DEF Knowing, Deleting, Freeing
<1>8. FilesArePrivate'
  <2>1. phase = "up" => FilesArePrivate
    <3> SUFFICES ASSUME phase = "up", NEW r \in running, NEW b \in Bundles \ {r[1]}
                 PROVE  r[2] \notin files[b]
      BY DEF FilesArePrivate
    <3>1. PICK c \in Bundles, u \in Users : r = <<c, u>>
      BY DEF TypeOK
    <3>2. lease[u] = c /\ owner[c] = u /\ c \notin ready /\ c # b
      BY <3>1 DEF Backing
    <3> QED BY <3>1, <3>2 DEF Holding
  <2>2. FilesArePrivate
    BY <2>1 DEF Holding, Backing, TypeOK, FilesArePrivate
  <2> QED BY <1>1, <2>2 DEF FilesArePrivate
<1>9. Holding'
  <2>1. ASSUME NEW b \in Bundles, NEW u \in files[b], owner[b] = None
        PROVE  (u \in claimed' /\ lease'[u] \in {b, None}) \/ b \in Instances
    <3>1. CASE claimed' = claimed /\ lease' = lease
      BY <2>1, <3>1 DEF Holding, Copy
    <3>2. CASE \A p \in Prepared : owner[p] = None => files[p] = {}
      BY <2>1, <3>2
    <3> QED BY <1>1, <3>1, <3>2
  <2>2. \A c, e \in Bundles : c # e /\ owner[c] # None /\ owner[c] \in files[e] => e \in Instances
    BY DEF Holding
  <2> QED BY <1>1, <1>2, <1>8, <2>1, <2>2 DEF Holding, At, Deleting
<1>10. Keeping'
  <2>1. CASE claimed' = claimed /\ lease' = lease
    <3>1. accepted # None /\ owner[accepted] # None /\ At({"relabel"}) /\ Loop.b = accepted =>
            lease[owner[accepted]] = accepted
      BY <1>1 DEF Reserving, At
    <3> QED BY <1>1, <1>2, <2>1, <3>1 DEF Keeping, At, AcceptedKept
  <2>2. CASE claimed' = {}
    BY <1>1, <2>2 DEF Keeping, AcceptedKept
  <2> QED BY <1>1, <2>1, <2>2
<1> QED BY <1>4, <1>5, <1>6, <1>7, <1>9, <1>10

\* A lease without a record takes its installation with it.
LEMMA ReconcileOwnerInv ==
  ASSUME LeaseInv, NEW u \in Users, ReconcileOwner(u) PROVE LeaseInv'
<1> USE DEF LeaseInv
<1> DEFINE b == lease[u]
<1>1. /\ phase = "owners" /\ Loop.pc = "idle" /\ ~Settled(u)
      /\ running' = {r \in running : r[2] # u}
      /\ UNCHANGED <<exists, files, owner, ready, torn, claimed, lease, accepted, rejected, phase,
                     faults, crashes>>
  BY DEF ReconcileOwner, Booting, Ready
<1>2. b \in Bundles /\ owner[b] \in {u, None}
  BY <1>1 DEF Settled, TypeOK, Backing
<1>3. Backing'
  BY <1>1 DEF Backing
<1>4. ASSUME NEW pc \in {"idle", "check", "release"}, NEW d, NEW us, Moves("loop", pc, d, None, us),
             pc = "idle" => d = None /\ us = {},
             pc = "check" => d = b /\ us = {} /\ owner[b] = None,
             pc = "release" => d = b /\ us = {u} /\ b \notin exists /\ owner[b] = None
      PROVE  LeaseInv'
  <2>1. /\ work'["loop"].pc = pc /\ work'["loop"].b = d /\ work'["loop"].us = us
        /\ \A a \in Actors : a # "loop" => work'[a] = work[a]
    BY <1>4 DEF Moves
  <2>2. pc # "idle" /\ b = accepted => rejected
    BY <1>2, <1>4 DEF Keeping, AcceptedKept
  <2>3. TypeOK'
    BY <1>1, <1>4 DEF TypeOK, Moves
  <2>4. Apart'
    BY <1>1, <1>4, ApartKept DEF Apart, Removals, TypeOK
  <2>5. Places'
    BY <1>1, <1>2, <1>4, <2>2, PlacesLeft DEF Removals
  <2>6. Reserving'
    BY <1>4, <2>1 DEF Reserving, At
  <2>7. Knowing'
    BY <1>1, <1>4, <2>1 DEF Knowing, Deleting, Freeing
  <2>8. Holding'
    BY <1>1, <1>4, <2>1 DEF Holding, At, Deleting, FilesArePrivate
  <2>9. Keeping'
    BY <1>1, <1>4, <2>1 DEF Keeping, At, AcceptedKept
  <2> QED BY <1>3, <2>3, <2>4, <2>5, <2>6, <2>7, <2>8, <2>9
<1>5. CASE owner[b] = u /\ Do("loop", AtRest)
  BY <1>4, <1>5, MovesRest
<1>6. CASE owner[b] # u /\ b \in exists /\ Do("loop", On("check", b))
  BY <1>2, <1>4, <1>6, MovesOn DEF PCs, Removals
<1>7. CASE owner[b] # u /\ b \notin exists /\ Do("loop", [On("release", b) EXCEPT !.us = {u}])
  BY <1>2, <1>4, <1>7, MovesFor DEF PCs, Removals
<1> QED BY <1>5, <1>6, <1>7 DEF ReconcileOwner

\* Nothing runs any more: a process has a lease, and every lease was settled.
LEMMA OwnersReconciledInv == ASSUME LeaseInv, OwnersReconciled PROVE LeaseInv'
<1> USE DEF LeaseInv
<1>1. /\ phase = "owners" /\ phase' = "discard" /\ Loop.pc = "idle"
      /\ \A u \in Users : lease[u] # None => ~Busy(u) /\ owner[lease[u]] = u
      /\ UNCHANGED <<exists, files, owner, ready, torn, claimed, lease, running, accepted,
                     rejected, work, faults, crashes>>
  BY DEF OwnersReconciled, Booting, Ready, Settled
<1>2. \A a \in Actors : work[a].pc = "idle"
  BY <1>1 DEF Places
<1>3. running = {}
  <2> SUFFICES ASSUME NEW r \in running PROVE FALSE
    OBVIOUS
  <2>1. PICK b \in Bundles, u \in Users : r = <<b, u>>
    BY DEF TypeOK
  <2>2. lease[u] = b /\ b # None
    BY <2>1 DEF Backing
  <2> QED BY <1>1, <2>1, <2>2 DEF Busy
<1>4. TypeOK' /\ Apart' /\ Places' /\ Reserving'
  BY <1>1 DEF TypeOK, Apart, Places, Reserving, At
<1>5. Backing'
  BY <1>1, <1>3 DEF Backing
<1>6. Knowing'
  <2>1. \A u \in Users : lease[u] # None => lease[u] \in exists
    BY <1>1 DEF Backing, TypeOK
  <2> QED BY <1>1, <1>2, <2>1 DEF Knowing, Deleting, Freeing
<1>7. Holding' /\ Keeping'
  BY <1>1 DEF Holding, Keeping, AcceptedKept, At, Deleting
<1> QED BY <1>4, <1>5, <1>6, <1>7

\* The accepted installation goes only if it was given up.
LEMMA DiscardInv == ASSUME LeaseInv, NEW b \in Bundles, Discard(b) PROVE LeaseInv'
<1> USE DEF LeaseInv
<1>1. /\ phase = "discard" /\ Loop.pc = "idle" /\ b \in Instances /\ b \in exists
      /\ b # accepted \/ owner[b] = None
      /\ UNCHANGED <<exists, files, owner, ready, torn, claimed, lease, running, accepted, rejected,
                     phase, faults, crashes>>
  BY DEF Discard, Booting, Ready, Kept
<1>2. Moves("loop", "check", b, None, {})
  BY MovesOn DEF Discard, PCs, Removals
<1>3. b = accepted => rejected
  BY <1>1 DEF Keeping, AcceptedKept
<1>4. TypeOK'
  BY <1>1, <1>2 DEF TypeOK, Moves
<1>5. Apart'
  BY <1>1, <1>2, ApartKept DEF Removals
<1>6. Places'
  BY <1>1, <1>2, <1>3, PlacesLeft DEF Removals
<1>7. Backing'
  BY <1>1 DEF Backing
<1>8. Reserving'
  BY <1>2 DEF Reserving, At, Moves
<1>9. Knowing'
  BY <1>1, <1>2, KnowingKept DEF Deleting, Freeing
<1>10. Holding'
  BY <1>1, <1>2 DEF Holding, At, Moves, Deleting
<1>11. Keeping'
  BY <1>1, <1>2 DEF Keeping, At, Moves, AcceptedKept
<1> QED BY <1>4, <1>5, <1>6, <1>7, <1>8, <1>9, <1>10, <1>11

\* Every instance that is left has a record.
LEMMA DiscardedInv == ASSUME LeaseInv, Discarded PROVE LeaseInv'
<1> USE DEF LeaseInv
<1>1. /\ phase = "discard" /\ phase' = "reserve" /\ Loop.pc = "idle"
      /\ \A b \in Instances \cap exists : owner[b] # None
      /\ UNCHANGED <<exists, files, owner, ready, torn, claimed, lease, running, accepted,
                     rejected, work, faults, crashes>>
  BY DEF Discarded, Booting, Ready, Kept
<1>2. TypeOK' /\ Apart' /\ Places' /\ Reserving'
  BY <1>1 DEF TypeOK, Apart, Places, Reserving, At
<1>3. Backing' /\ Knowing'
  BY <1>1 DEF Backing, Knowing
<1>4. Holding'
  <2>1. \A b \in Bundles : b \notin exists => files[b] = {}
    BY DEF Backing
  <2> QED BY <1>1, <2>1 DEF Holding, At, Deleting
<1>5. Keeping'
  BY <1>1 DEF Keeping, AcceptedKept, At
<1> QED BY <1>2, <1>3, <1>4, <1>5

\* A record without its lease is claimed again.
LEMMA ReserveInv == ASSUME LeaseInv, NEW b \in Bundles, Reserve(b) PROVE LeaseInv'
<1> USE DEF LeaseInv
<1>1. /\ phase = "reserve" /\ Loop.pc = "idle" /\ owner[b] # None
      /\ UNCHANGED <<exists, files, owner, ready, torn, claimed, lease, running, accepted, rejected,
                     phase, faults, crashes>>
  BY DEF Reserve, Booting, Ready, Unreserved
<1>2. Moves("loop", "reclaim", b, None, {})
  BY MovesOn DEF Reserve, PCs
<1>3. \A a \in Killers : work[a].pc = "idle"
  BY <1>1 DEF Places
<1>4. TypeOK'
  BY <1>1, <1>2 DEF TypeOK, Moves
<1>5. Apart'
  BY <1>1, <1>2, <1>3, ApartKept
<1>6. Places'
  <2>1. /\ work'["loop"].pc = "reclaim" /\ work'["loop"].b = b
        /\ \A a \in Actors : a # "loop" => work'[a] = work[a]
    BY <1>2 DEF Moves
  <2>2. \A a \in Actors : /\ IF work'[a].pc = "idle" THEN work'[a].b = None
                                ELSE work'[a].b \in Bundles
                          /\ work'[a].pc = "unlink" => work'[a].u \in work'[a].us
    BY <2>1 DEF Places
  <2> QED BY <1>1, <1>3, <2>1, <2>2 DEF Places, At, Making, Removals
<1>7. Backing'
  BY <1>1 DEF Backing
<1>8. Reserving'
  BY <1>2 DEF Reserving, At, Moves
<1>9. Knowing'
  BY <1>1, <1>2, KnowingKept DEF Deleting, Freeing
<1>10. Holding'
  BY <1>1, <1>2 DEF Holding, At, Moves, Deleting
<1>11. Keeping'
  BY <1>1, <1>2 DEF Keeping, At, Moves, AcceptedKept
<1> QED BY <1>4, <1>5, <1>6, <1>7, <1>8, <1>9, <1>10, <1>11

\* Every record has its lease.
LEMMA ReservedInv == ASSUME LeaseInv, Reserved PROVE LeaseInv'
<1> USE DEF LeaseInv
<1>1. /\ phase = "reserve" /\ phase' = "up" /\ Loop.pc = "idle"
      /\ \A b \in Bundles : b \in exists /\ owner[b] # None => lease[owner[b]] = b
      /\ UNCHANGED <<exists, files, owner, ready, torn, claimed, lease, running, accepted,
                     rejected, work, faults, crashes>>
  BY DEF Reserved, Booting, Ready, Unreserved
<1>2. TypeOK' /\ Apart' /\ Places' /\ Reserving'
  BY <1>1 DEF TypeOK, Apart, Places, Reserving, At, Making, Removals
<1>3. Backing'
  BY <1>1 DEF Backing
<1>4. Knowing'
  BY <1>1 DEF Knowing
<1>5. Holding'
  <2>1. ASSUME NEW b \in Bundles, NEW u \in files[b]
        PROVE  u \in claimed /\ lease[u] \in {b, None}
    <3>1. CASE owner[b] = None
      BY <1>1, <2>1, <3>1 DEF Holding
    <3>2. CASE owner[b] # None
      BY <1>1, <2>1, <3>2 DEF Backing, TypeOK
    <3> QED BY <3>1, <3>2
  <2>2. \A c, e \in Bundles : c # e /\ owner[c] # None /\ owner[c] \in files[e] => e \in Instances
    BY DEF Holding
  <2> QED BY <1>1, <2>1, <2>2 DEF Holding, At
<1>6. Keeping'
  BY <1>1 DEF Keeping, AcceptedKept, At
<1> QED BY <1>2, <1>3, <1>4, <1>5, <1>6

-----------------------------------------------------------------------------
(* What follows from it.                                                    *)

\* The invariant holds on an empty disk,
LEMMA LeaseInit == Init => LeaseInv
<1> SUFFICES ASSUME Init PROVE LeaseInv
  OBVIOUS
<1> USE DEF Init
<1>1. \A a \in Actors : work[a].pc = "idle" /\ work[a].b = None /\ work[a].us = {}
                          /\ work[a] \in Works
  BY RestWork
<1>2. TypeOK
  <2>1. work \in [Actors -> Works]
    BY RestWork
  <2>2. faults \in 0..MaxFaults /\ crashes \in 0..MaxCrashes
    OBVIOUS
  <2> QED BY <2>1, <2>2 DEF TypeOK
<1>3. Apart /\ Places /\ Reserving
  BY <1>1 DEF Apart, Places, Reserving, At, Making, Removals
<1>4. Backing /\ Knowing
  BY <1>1 DEF Backing, Knowing, Deleting, Freeing
<1>5. Holding /\ Keeping
  BY <1>1 DEF Holding, Keeping, AcceptedKept, At
<1> QED BY <1>2, <1>3, <1>4, <1>5 DEF LeaseInv

\* every step keeps it,
LEMMA LeaseStep == ASSUME Departures = {}, LeaseInv, [Next]_vars PROVE LeaseInv'
<1>1. CASE Starting
  BY <1>1, PrepareInv, StartInv, ClaimInv, RecordInv, OwnInv, OwnedInv, RestartInv, ReclaimInv,
     RelabelInv, LaunchInv, SetupEndsInv, SetupAbandonedInv, StartFailsInv, RejectInv DEF Starting
<1>2. CASE Boot
  BY <1>2, ReconcileOwnerInv, OwnersReconciledInv, DiscardInv, DiscardedInv, ReserveInv, ReservedInv
  DEF Boot
<1>3. CASE Crash
  BY <1>3, CrashInv
<1>4. CASE \E a \in Actors : Removing(a)
  BY <1>4, RemoveInv, CheckInv, DeleteInv, DeletedInv, DeleteFailsInv, ReleaseInv, UnlinkInv
  DEF Removing
<1>5. CASE \E b \in Bundles : Accept(b) \/ \E u \in Users : Exit(b, u)
  BY <1>5, AcceptInv, ExitInv
<1>6. CASE UNCHANGED vars
  BY <1>6 DEF vars, LeaseInv, TypeOK, Apart, Places, Backing, Reserving, Knowing, Holding, Keeping,
              At, Copy, AcceptedKept, FilesArePrivate
<1> QED BY <1>1, <1>2, <1>3, <1>4, <1>5, <1>6 DEF Next

\* and so it always holds, if none of the known departures happens.
LEMMA LeaseInvariant == ASSUME Departures = {} PROVE Spec => []LeaseInv
<1>1. LeaseInv /\ [Next]_vars => LeaseInv'
  BY LeaseStep
<1> QED BY LeaseInit, <1>1, PTL DEF Spec

\* Installations, users, leases and the positions of all actors keep their types.
THEOREM LeasesType == ASSUME Departures = {} PROVE Spec => []TypeOK
<1>1. LeaseInv => TypeOK
  BY DEF LeaseInv
<1> QED BY LeaseInvariant, <1>1, PTL

\* All processes of a user run on one installation, the one that its lease names: a
\* user is not given away before newRuntimeOwner and Reconcile know it to be idle.
THEOREM Alone == ASSUME Departures = {} PROVE Spec => []UserRunsOnce
<1>1. LeaseInv => UserRunsOnce
  BY DEF LeaseInv, Backing, TypeOK, UserRunsOnce
<1> QED BY LeaseInvariant, <1>1, PTL

\* No process owns a file of another installation. Only a copy has files of another's
\* user, that of the complete tree it was made from, on which nothing runs.
THEOREM Private == ASSUME Departures = {} PROVE Spec => []FilesArePrivate
<1>1. ASSUME LeaseInv, NEW r \in running, NEW b \in Bundles \ {r[1]} PROVE r[2] \notin files[b]
  <2>1. PICK c \in Bundles, u \in Users : r = <<c, u>>
    BY <1>1 DEF LeaseInv, TypeOK
  <2>2. lease[u] = c /\ owner[c] = u /\ c \notin ready /\ c # b
    BY <1>1, <2>1 DEF LeaseInv, Backing
  <2>3. CASE phase = "up"
    BY <1>1, <2>1, <2>2, <2>3 DEF LeaseInv, Holding
  <2>4. CASE phase = "owners"
    BY <1>1, <2>4 DEF LeaseInv, Holding, FilesArePrivate
  <2>5. CASE phase \in {"discard", "reserve"}
    BY <1>1, <2>5 DEF LeaseInv, Backing
  <2> QED BY <1>1, <2>3, <2>4, <2>5 DEF LeaseInv, TypeOK
<1>2. LeaseInv => FilesArePrivate
  BY <1>1 DEF FilesArePrivate
<1> QED BY LeaseInvariant, <1>2, PTL

\* Once the supervisor is up, every record is backed by its lease: Reconcile reserves
\* it again, and RemoveSandbox deletes the record before the lease.
THEOREM Reservation == ASSUME Departures = {} PROVE Spec => []ReservedWhileStopped
<1>1. LeaseInv => ReservedWhileStopped
  BY DEF LeaseInv, Backing, ReservedWhileStopped
<1> QED BY LeaseInvariant, <1>1, PTL

\* The accepted installation keeps its directory, its record and its files until it is
\* given up: no removal and no boot takes it, and its user is free when it is reclaimed.
THEOREM Survives == ASSUME Departures = {} PROVE Spec => []AcceptedKept
<1>1. LeaseInv => AcceptedKept
  BY DEF LeaseInv, Keeping
<1> QED BY LeaseInvariant, <1>1, PTL

\* A lease outlives its installation only until RemoveSandbox releases it: a boot that
\* finds one whose installation is gone releases it before the supervisor is up.
THEOREM Released == ASSUME Departures = {} PROVE Spec => []NoLeaseWithoutFiles
<1>1. LeaseInv => NoLeaseWithoutFiles
  BY DEF LeaseInv, Knowing, Freeing, NoLeaseWithoutFiles
<1> QED BY LeaseInvariant, <1>1, PTL
=============================================================================
