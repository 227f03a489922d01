------------------------------- MODULE Proxy -------------------------------
(***************************************************************************)
(* The cutover of internal/proxy: requests choose the current backend and  *)
(* enter it while holding the selection lock for reading, Set replaces the *)
(* backend while holding it for writing, and Drain waits until the replaced*)
(* backend has no request left. The engine stops an instance when Drain    *)
(* has returned, so a request it forgot would be cut off.                  *)
(***************************************************************************)
EXTENDS Naturals, FiniteSets

CONSTANTS
    Requests,  \* HTTP requests in progress
    Backends,  \* one per published instance
    None       \* nil

ASSUME ProxyAssumption == IsFiniteSet(Requests) /\ None \notin Backends

VARIABLES
    current,   \* p.current
    used,      \* the backends that were ever current: a Backend is set only once
    at,        \* where each request is in ServeHTTP
    on,        \* the backend it chose
    in,        \* b.in
    draining,  \* the backends with b.draining set
    closed,    \* those whose channel b.zero is closed
    held,      \* the channel Drain waits on: b.zero ("same") or one replaced since
    drain,     \* where Drain(b) is
    withdrawn, \* the backends out of the proxy when Drain was called on them
    panics     \* the backends whose channel was closed twice

requests == <<at, on>>
backends == <<in, draining, closed, held>>
vars == <<current, used, requests, backends, drain, withdrawn, panics>>

Init ==
    /\ current = None /\ used = {}
    /\ at = [r \in Requests |-> "idle"] /\ on = [r \in Requests |-> None]
    /\ in = [b \in Backends |-> 0]
    /\ draining = {} /\ closed = {}
    /\ held = [b \in Backends |-> "none"]
    /\ drain = [b \in Backends |-> "none"]
    /\ withdrawn = {} /\ panics = {}

-----------------------------------------------------------------------------
(* ServeHTTP. Without a backend the request gets 503 and nothing changes.   *)

\* RLock, and the read of p.current.
Choose(r) ==
    /\ at[r] = "idle" /\ current # None
    /\ at' = [at EXCEPT ![r] = "reading"]
    /\ on' = [on EXCEPT ![r] = current]
    /\ UNCHANGED <<current, used, backends, drain, withdrawn, panics>>

\* Mutant: b.zero is renewed even while a drain still waits on it.
EnterRenewing(r) ==
    LET b == on[r] renew == b \in draining
    IN /\ at[r] = "reading"
       /\ at' = [at EXCEPT ![r] = "entered"]
       /\ in' = [in EXCEPT ![b] = @ + 1]
       /\ closed' = IF renew THEN closed \ {b} ELSE closed
       /\ held' = [held EXCEPT ![b] = IF renew /\ @ = "same"
                                      THEN IF b \in closed THEN "old closed" ELSE "old open"
                                      ELSE @]
       /\ UNCHANGED <<current, used, on, draining, drain, withdrawn, panics>>

\* Mutant: b.zero is never renewed.
EnterClosed(r) ==
    /\ at[r] = "reading"
    /\ at' = [at EXCEPT ![r] = "entered"]
    /\ in' = [in EXCEPT ![on[r]] = @ + 1]
    /\ UNCHANGED <<current, used, on, draining, closed, held, drain, withdrawn, panics>>

\* b.enter: a late request of a draining backend needs a channel of its own.
Enter(r) ==
    LET b == on[r] renew == in[b] = 0 /\ b \in draining
    IN /\ at[r] = "reading"
       /\ at' = [at EXCEPT ![r] = "entered"]
       /\ in' = [in EXCEPT ![b] = @ + 1]
       /\ closed' = IF renew THEN closed \ {b} ELSE closed
       /\ held' = [held EXCEPT ![b] = IF renew /\ @ = "same"
                                      THEN IF b \in closed THEN "old closed" ELSE "old open"
                                      ELSE @]
       /\ UNCHANGED <<current, used, on, draining, drain, withdrawn, panics>>

\* RUnlock; the request is forwarded.
Forward(r) ==
    /\ at[r] = "entered"
    /\ at' = [at EXCEPT ![r] = "forwarded"]
    /\ UNCHANGED <<current, used, on, backends, drain, withdrawn, panics>>

\* b.leave: the last request of a draining backend closes its channel.
Leave(r) ==
    LET b == on[r] last == in[b] = 1 /\ b \in draining
    IN /\ at[r] = "forwarded"
       /\ at' = [at EXCEPT ![r] = "idle"]
       /\ on' = [on EXCEPT ![r] = None]
       /\ in' = [in EXCEPT ![b] = @ - 1]
       /\ closed' = IF last THEN closed \cup {b} ELSE closed
       /\ panics' = IF last /\ b \in closed THEN panics \cup {b} ELSE panics
       /\ UNCHANGED <<current, used, draining, held, drain, withdrawn>>

-----------------------------------------------------------------------------
(* The engine.                                                              *)

\* Mutant: the backend is replaced between the choice of it and its entry.
SetUnlocked(b) ==
    /\ b \notin used /\ b # current
    /\ current' = b
    /\ used' = IF b = None THEN used ELSE used \cup {b}
    /\ UNCHANGED <<requests, backends, drain, withdrawn, panics>>

\* Set waits for the requests that hold the lock. Every publication makes a
\* backend of its own; nil withdraws all traffic.
Set(b) ==
    /\ b \notin used /\ b # current
    /\ \A r \in Requests : at[r] \notin {"reading", "entered"}
    /\ current' = b
    /\ used' = IF b = None THEN used ELSE used \cup {b}
    /\ UNCHANGED <<requests, backends, drain, withdrawn, panics>>

\* Drain up to its select.
Drain(b) ==
    /\ b \in used /\ drain[b] = "none"
    /\ draining' = draining \cup {b}
    /\ held' = [held EXCEPT ![b] = "same"]
    /\ drain' = [drain EXCEPT ![b] = IF in[b] = 0 THEN "idle" ELSE "waiting"]
    /\ withdrawn' = IF b = current THEN withdrawn ELSE withdrawn \cup {b}
    /\ UNCHANGED <<current, used, requests, in, closed, panics>>

Woken(b) == held[b] = "old closed" \/ (held[b] = "same" /\ b \in closed)

DrainWakes(b) ==
    /\ drain[b] = "waiting" /\ Woken(b)
    /\ drain' = [drain EXCEPT ![b] = "idle"]
    /\ UNCHANGED <<current, used, requests, backends, withdrawn, panics>>

\* Its deadline passes, or kill-draining cancels it.
DrainGivesUp(b) ==
    /\ drain[b] = "waiting"
    /\ drain' = [drain EXCEPT ![b] = "gave up"]
    /\ UNCHANGED <<current, used, requests, backends, withdrawn, panics>>

Serve(r) == Choose(r) \/ Enter(r) \/ Forward(r) \/ Leave(r)
Retire(b) == Drain(b) \/ DrainWakes(b) \/ DrainGivesUp(b)

Next ==
    \/ \E r \in Requests : Serve(r)
    \/ \E b \in Backends : Retire(b)
    \/ \E b \in Backends \cup {None} : Set(b)

Spec == Init /\ [][Next]_vars

-----------------------------------------------------------------------------
TypeOK ==
    /\ current \in Backends \cup {None} /\ used \subseteq Backends
    /\ at \in [Requests -> {"idle", "reading", "entered", "forwarded"}]
    /\ on \in [Requests -> Backends \cup {None}]
    /\ in \in [Backends -> Nat]
    /\ draining \subseteq Backends /\ closed \subseteq Backends
    /\ held \in [Backends -> {"none", "same", "old closed", "old open"}]
    /\ drain \in [Backends -> {"none", "waiting", "idle", "gave up"}]
    /\ withdrawn \subseteq Backends /\ panics \subseteq Backends

\* When Drain reports that a withdrawn backend is idle, no request is using it,
\* has chosen it or will: the instance behind it may be stopped.
DrainedMeansIdle ==
    \A b \in Backends :
        b \in withdrawn /\ drain[b] = "idle" => \A r \in Requests : on[r] # b

\* A drain that still waits although the backend has become idle will be woken:
\* the close of the channel is not lost, whatever entered and left meanwhile.
NoLostWakeup ==
    \A b \in Backends : drain[b] = "waiting" /\ in[b] = 0 => Woken(b)

\* leave never closes a closed channel, which would crash the supervisor.
NoDoubleClose == panics = {}
=============================================================================
