---------------------------- MODULE ProxyProofs ----------------------------
(***************************************************************************)
(* Proofs about module Proxy, for any number of requests and backends: a   *)
(* drained backend has no request, a drain that still waits is woken, and  *)
(* no channel is closed twice. All three follow from one inductive         *)
(* invariant, whose core is that b.in counts the requests inside b and     *)
(* that b.zero is only ever closed while that count is zero.               *)
(***************************************************************************)
EXTENDS Proxy, FiniteSetTheorems, TLAPS

\* The requests that b.in counts: between enter and leave.
Inside(b) == {r \in Requests : at[r] \in {"entered", "forwarded"} /\ on[r] = b}

\* A request has a backend while it is being served, and holds the selection
\* lock, which keeps that backend current, until it is forwarded.
Routed ==
    \A r \in Requests :
        /\ at[r] = "idle" <=> on[r] = None
        /\ at[r] \in {"reading", "entered"} => on[r] = current

Counted == \A b \in Backends : in[b] = Cardinality(Inside(b))

ClosedMeansZero == \A b \in Backends : b \in closed => b \in draining /\ in[b] = 0

Draining == \A b \in Backends : b \in draining <=> drain[b] # "none"

\* The channel Drain holds was closed when it was replaced, or is the current
\* one and closes when the last request leaves.
Waiting ==
    \A b \in Backends : drain[b] = "waiting" =>
        \/ held[b] = "old closed"
        \/ held[b] = "same" /\ (in[b] = 0 => b \in closed)

\* A backend that left the proxy never returns, and keeps its channel.
Withdrawn ==
    /\ current # None => current \in used
    /\ \A b \in Backends : b \in withdrawn =>
         /\ b \in used /\ b # current /\ drain[b] # "none" /\ held[b] = "same"
         /\ drain[b] = "idle" => in[b] = 0

PInv ==
    /\ TypeOK /\ Routed /\ Counted /\ ClosedMeansZero /\ Draining /\ Waiting /\ Withdrawn
    /\ panics = {}

USE ProxyAssumption

\* The requests inside a backend can be counted, and none are when the count is zero.
LEMMA InsideFinite ==
  ASSUME NEW b
  PROVE  /\ IsFiniteSet(Inside(b)) /\ Cardinality(Inside(b)) \in Nat
         /\ Cardinality(Inside(b)) = 0 <=> Inside(b) = {}
<1>1. Inside(b) \in SUBSET Requests
  BY DEF Inside
<1>2. IsFiniteSet(Inside(b))
  BY <1>1, FS_Subset
<1> QED BY <1>2, FS_CardinalityType, FS_EmptySet

\* No request and no drain exist at first.
LEMMA InitPInv == Init => PInv
<1> SUFFICES ASSUME Init PROVE PInv
  OBVIOUS
<1>1. \A b \in Backends : Inside(b) = {}
  BY DEF Init, Inside
<1>2. Counted
  BY <1>1, FS_EmptySet DEF Init, Counted
<1> QED BY <1>2 DEF Init, PInv, TypeOK, Routed, ClosedMeansZero, Draining, Waiting, Withdrawn

-----------------------------------------------------------------------------
(* Requests.                                                                *)
\* Reading p.current under the read lock keeps the invariant.
LEMMA ChoosePInv == ASSUME PInv, NEW r \in Requests, Choose(r) PROVE PInv'
<1> USE DEF PInv, TypeOK, backends
<1>1. \A b \in Backends : Inside(b)' = Inside(b)
  BY DEF Choose, Inside
<1>2. Counted'
  BY <1>1 DEF Choose, Counted
<1>3. TypeOK' /\ panics' = {}
  BY DEF Choose
<1>4. Routed'
  BY DEF Choose, Routed
<1>5. ClosedMeansZero' /\ Draining' /\ Waiting' /\ Withdrawn'
  BY DEF Choose, ClosedMeansZero, Draining, Waiting, Withdrawn
<1> QED BY <1>2, <1>3, <1>4, <1>5

\* Backend.enter keeps it, also when it renews the channel of a draining backend.
LEMMA EnterPInv == ASSUME PInv, NEW r \in Requests, Enter(r) PROVE PInv'
<1>0. PICK b \in Backends : b = on[r]
  BY DEF Enter, Routed, PInv, TypeOK
<1>1. b = current /\ b \notin withdrawn /\ at[r] = "reading"
  BY <1>0 DEF Enter, Routed, Withdrawn, PInv
<1>2. /\ at' = [at EXCEPT ![r] = "entered"] /\ in' = [in EXCEPT ![b] = in[b] + 1]
      /\ UNCHANGED <<current, used, on, draining, drain, withdrawn, panics>>
      /\ closed' = IF in[b] = 0 /\ b \in draining THEN closed \ {b} ELSE closed
      /\ held' = [held EXCEPT ![b] =
                    IF in[b] = 0 /\ b \in draining /\ held[b] = "same"
                    THEN IF b \in closed THEN "old closed" ELSE "old open" ELSE held[b]]
  BY <1>0 DEF Enter
<1>3. /\ in' \in [Backends -> Nat] /\ in'[b] = in[b] + 1 /\ in'[b] # 0
      /\ \A c \in Backends \ {b} : in'[c] = in[c]
  <2>1. in \in [Backends -> Nat] /\ in' = [in EXCEPT ![b] = in[b] + 1]
    BY <1>2 DEF PInv, TypeOK
  <2> QED BY <2>1
<1>4. /\ held' \in [Backends -> {"none", "same", "old closed", "old open"}]
      /\ \A c \in Backends \ {b} : held'[c] = held[c] /\ (c \in closed' <=> c \in closed)
  BY <1>2 DEF PInv, TypeOK
<1>5. TypeOK' /\ panics' = {}
  BY <1>2, <1>3, <1>4 DEF PInv, TypeOK
<1>6. Routed'
  BY <1>0, <1>1, <1>2 DEF PInv, TypeOK, Routed
<1>7. Counted'
  <2>1. Inside(b)' = Inside(b) \cup {r} /\ r \notin Inside(b)
    BY <1>0, <1>1, <1>2 DEF Inside, PInv, TypeOK
  <2>2. Cardinality(Inside(b)') = Cardinality(Inside(b)) + 1
    BY <2>1, InsideFinite, FS_AddElement
  <2>3. \A c \in Backends \ {b} : Inside(c)' = Inside(c)
    BY <1>0, <1>1, <1>2 DEF Inside, PInv, TypeOK
  <2> QED BY <1>3, <2>2, <2>3 DEF Counted, PInv
<1>8. ClosedMeansZero' /\ Draining'
  <2>1. b \notin closed'
    BY <1>2 DEF ClosedMeansZero, PInv
  <2> QED BY <1>2, <1>3, <1>4, <2>1 DEF ClosedMeansZero, Draining, PInv
<1>9. Waiting'
  <2>1. ASSUME drain[b] = "waiting"
        PROVE  held'[b] = "old closed" \/ held'[b] = "same"
    BY <1>2, <2>1 DEF Draining, Waiting, PInv, TypeOK
  <2> QED BY <1>2, <1>3, <1>4, <2>1 DEF Waiting, PInv
<1>10. Withdrawn'
  BY <1>1, <1>2, <1>3, <1>4 DEF Withdrawn, PInv
<1> QED BY <1>5, <1>6, <1>7, <1>8, <1>9, <1>10 DEF PInv

\* Releasing the read lock keeps it.
LEMMA ForwardPInv == ASSUME PInv, NEW r \in Requests, Forward(r) PROVE PInv'
<1> USE DEF PInv, TypeOK, backends
<1>1. \A b \in Backends : Inside(b)' = Inside(b)
  BY DEF Forward, Inside
<1>2. Counted'
  BY <1>1 DEF Forward, Counted
<1> QED BY <1>2 DEF Forward, Routed, ClosedMeansZero, Draining, Waiting, Withdrawn

\* Backend.leave keeps it: the last request out closes a channel that is open.
LEMMA LeavePInv == ASSUME PInv, NEW r \in Requests, Leave(r) PROVE PInv'
<1>0. PICK b \in Backends : b = on[r]
  BY DEF Leave, Routed, PInv, TypeOK
<1>1. at[r] = "forwarded" /\ r \in Inside(b)
  BY <1>0 DEF Leave, Inside
<1>2. in[b] \in Nat \ {0} /\ b \notin closed
  BY <1>1, InsideFinite DEF Counted, ClosedMeansZero, PInv
<1>3. /\ at' = [at EXCEPT ![r] = "idle"] /\ on' = [on EXCEPT ![r] = None]
      /\ in' = [in EXCEPT ![b] = in[b] - 1]
      /\ closed' = IF in[b] = 1 /\ b \in draining THEN closed \cup {b} ELSE closed
      /\ UNCHANGED <<current, used, draining, held, drain, withdrawn, panics>>
  BY <1>0, <1>2 DEF Leave
<1>4. /\ in' \in [Backends -> Nat] /\ in'[b] = in[b] - 1
      /\ \A c \in Backends \ {b} : in'[c] = in[c] /\ (c \in closed' <=> c \in closed)
  <2>0. in[b] - 1 \in Nat
    BY <1>2
  <2>1. in \in [Backends -> Nat] /\ in' = [in EXCEPT ![b] = in[b] - 1]
    BY <1>3 DEF PInv, TypeOK
  <2>2. in' \in [Backends -> Nat] /\ in'[b] = in[b] - 1
        /\ \A c \in Backends \ {b} : in'[c] = in[c]
    BY <2>0, <2>1
  <2> QED BY <1>3, <2>2
<1>5. b \in closed' <=> in'[b] = 0 /\ b \in draining
  BY <1>2, <1>3, <1>4
<1>6. TypeOK' /\ panics' = {}
  BY <1>3, <1>4 DEF PInv, TypeOK
<1>7. Routed'
  BY <1>1, <1>3 DEF Routed, PInv, TypeOK
<1>8. Counted'
  <2>1. Inside(b)' = Inside(b) \ {r}
    BY <1>0, <1>1, <1>3 DEF Inside, PInv, TypeOK
  <2>2. Cardinality(Inside(b)') = Cardinality(Inside(b)) - 1
    BY <1>1, <2>1, InsideFinite, FS_RemoveElement
  <2>3. \A c \in Backends \ {b} : Inside(c)' = Inside(c)
    BY <1>0, <1>3 DEF Inside, PInv, TypeOK
  <2> QED BY <1>4, <2>2, <2>3 DEF Counted, PInv
<1>9. ClosedMeansZero' /\ Draining'
  BY <1>3, <1>4, <1>5 DEF ClosedMeansZero, Draining, PInv
<1>10. Waiting'
  BY <1>3, <1>4, <1>5 DEF Draining, Waiting, PInv
<1>11. Withdrawn'
  <2>1. ASSUME b \in withdrawn PROVE drain[b] # "idle"
    BY <1>2, <2>1 DEF Withdrawn, PInv
  <2> QED BY <1>3, <1>4, <2>1 DEF Withdrawn, PInv
<1> QED BY <1>6, <1>7, <1>8, <1>9, <1>10, <1>11 DEF PInv

-----------------------------------------------------------------------------
(* The engine.                                                              *)
\* Proxy.Set keeps it: no request is between its choice and its entry.
LEMMA SetPInv == ASSUME PInv, NEW b \in Backends \cup {None}, Set(b) PROVE PInv'
<1> USE DEF PInv, TypeOK, requests, backends
<1>1. \A c \in Backends : Inside(c)' = Inside(c)
  BY DEF Set, Inside
<1>2. Counted'
  BY <1>1 DEF Set, Counted
<1>3. TypeOK' /\ panics' = {}
  BY DEF Set
<1>4. Routed'
  BY DEF Set, Routed
<1>5. ClosedMeansZero' /\ Draining' /\ Waiting'
  BY DEF Set, ClosedMeansZero, Draining, Waiting
<1>6. Withdrawn'
  BY DEF Set, Withdrawn
<1> QED BY <1>2, <1>3, <1>4, <1>5, <1>6

\* The steps of Backend.Drain keep it.
LEMMA RetirePInv == ASSUME PInv, NEW b \in Backends, Retire(b) PROVE PInv'
<1> USE DEF PInv, TypeOK, requests, backends
<1>1. \A c \in Backends : Inside(c)' = Inside(c)
  BY DEF Retire, Drain, DrainWakes, DrainGivesUp, Inside
<1>2. Counted'
  BY <1>1 DEF Retire, Drain, DrainWakes, DrainGivesUp, Counted
<1>3. TypeOK' /\ panics' = {}
  BY DEF Retire, Drain, DrainWakes, DrainGivesUp
<1>4. Routed'
  BY DEF Retire, Drain, DrainWakes, DrainGivesUp, Routed
<1>5. ClosedMeansZero' /\ Draining'
  BY DEF Retire, Drain, DrainWakes, DrainGivesUp, ClosedMeansZero, Draining
<1>6. Waiting'
  BY DEF Retire, Drain, DrainWakes, DrainGivesUp, Draining, Waiting
<1>7. Withdrawn'
  BY DEF Retire, Drain, DrainWakes, DrainGivesUp, Woken, ClosedMeansZero, Withdrawn
<1> QED BY <1>2, <1>3, <1>4, <1>5, <1>6, <1>7

\* The inductive invariant holds throughout.
LEMMA PInvKept == Spec => []PInv
<1>1. ASSUME PInv, UNCHANGED vars PROVE PInv'
  <2> USE <1>1 DEF vars, requests, backends
  <2>1. \A b \in Backends : Inside(b)' = Inside(b)
    BY DEF Inside
  <2>2. Counted'
    BY <2>1 DEF PInv, Counted
  <2> QED BY <2>2 DEF PInv, TypeOK, Routed, ClosedMeansZero, Draining, Waiting, Withdrawn
<1>2. ASSUME PInv, Next PROVE PInv'
  BY <1>2, ChoosePInv, EnterPInv, ForwardPInv, LeavePInv, SetPInv, RetirePInv DEF Next, Serve
<1> QED BY <1>1, <1>2, InitPInv, PTL DEF Spec

\* An instance that is stopped once its drain reports it idle has no request
\* left: none is inside, has chosen it, or can choose it again.
THEOREM DrainIsComplete == Spec => []DrainedMeansIdle
<1>1. ASSUME PInv PROVE DrainedMeansIdle
  <2> SUFFICES ASSUME NEW b \in Backends, b \in withdrawn, drain[b] = "idle",
                      NEW r \in Requests, on[r] = b
               PROVE  FALSE
    BY DEF DrainedMeansIdle
  <2>1. Inside(b) = {} /\ b # current
    BY <1>1, InsideFinite DEF PInv, Counted, Withdrawn
  <2>2. at[r] # "idle" /\ at[r] \notin {"reading", "entered"}
    BY <1>1, <2>1 DEF PInv, Routed
  <2>3. at[r] = "forwarded"
    BY <1>1, <2>2 DEF PInv, TypeOK
  <2> QED BY <2>1, <2>3 DEF Inside
<1> QED BY <1>1, PInvKept, PTL

\* A drain whose backend has become idle is woken, whatever came and went.
THEOREM DrainIsWoken == Spec => []NoLostWakeup
<1>1. PInv => NoLostWakeup
  BY DEF PInv, Waiting, NoLostWakeup, Woken
<1> QED BY <1>1, PInvKept, PTL

\* The supervisor never panics on the close of a closed channel.
THEOREM ClosedOnce == Spec => []NoDoubleClose
<1>1. PInv => NoDoubleClose
  BY DEF PInv, NoDoubleClose
<1> QED BY <1>1, PInvKept, PTL
=============================================================================
