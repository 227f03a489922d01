------------------------------ MODULE Release ------------------------------
(***************************************************************************)
(* What the supervisor promises about a service, whatever fails inside it: *)
(* at every moment one release (a revision with its settings) is accepted, *)
(* and clients are either served by that release or by none.               *)
(***************************************************************************)
CONSTANTS Releases, NoRelease

VARIABLES accepted,  \* the release that a restart would bring back
          served     \* the release that receives traffic, or NoRelease

Init == accepted \in Releases /\ served = NoRelease

\* A healthy candidate is accepted and receives traffic in the same instant.
CutOver(r) == accepted' = r /\ served' = r

\* New settings are accepted while the service is down.
Amend(r) == served = NoRelease /\ accepted' = r /\ UNCHANGED served

\* The service goes down; what was accepted stays.
Withdraw == served' = NoRelease /\ UNCHANGED accepted

Next == Withdraw \/ \E r \in Releases : CutOver(r) \/ Amend(r)

Spec == Init /\ [][Next]_<<accepted, served>>
=============================================================================
