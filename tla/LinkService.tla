----------------------------- MODULE LinkService -----------------------------
(***************************************************************************)
(* What the client's link layer promises to the sessions above it: links   *)
(* come one after another, a new one only after the previous one is lost,  *)
(* and the mux is attached to each of them at most once.  A mux that let   *)
(* go of a link therefore never sends on it again, which is what keeps a   *)
(* truncated frame at the end of its link and a gap out of every stream.   *)
(* ClientLink (the reconnect loop and the sender task) and Tunnel (the     *)
(* sessions) are both checked to implement it.                             *)
(***************************************************************************)
EXTENDS Naturals

CONSTANT MaxLinks   \* bound on the links that come up

VARIABLES
    latest,     \* the newest link that came up, 0 before the first
    live,       \* is that link still up
    spent,      \* has the mux already been attached to it
    attached    \* the link the mux sends on, 0 for none

vars == <<latest, live, spent, attached>>

Init ==
    /\ latest = 0
    /\ live = FALSE
    /\ spent = TRUE
    /\ attached = 0

Establish ==
    /\ ~live
    /\ spent
    /\ attached = 0
    /\ \E l \in (latest + 1)..MaxLinks : latest' = l
    /\ live' = TRUE
    /\ spent' = FALSE
    /\ UNCHANGED attached

Lose ==
    /\ live
    /\ live' = FALSE
    /\ UNCHANGED <<latest, spent, attached>>

Attach ==
    /\ ~spent
    /\ spent' = TRUE
    /\ attached' = latest
    /\ UNCHANGED <<latest, live>>

Detach ==
    /\ attached # 0
    /\ attached' = 0
    /\ UNCHANGED <<latest, live, spent>>

Next == Establish \/ Lose \/ Attach \/ Detach

Spec == Init /\ [][Next]_vars

=============================================================================
