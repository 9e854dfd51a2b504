---------------------------- MODULE MCClientLink ----------------------------
(***************************************************************************)
(* What TLC checks of ClientLink beyond its safety: that the client comes  *)
(* back, under fairness, and two statements of the documentation that the  *)
(* code does not keep.                                                     *)
(***************************************************************************)
EXTENDS ClientLink

(***************************************************************************)
(* Fairness: the tokio tasks run whenever they can, a sleep ends, a lookup *)
(* ends one way or the other, and RNS, while its node runs, reports a link *)
(* it was asked for as established or closed.  That lookups and            *)
(* create_link do not fail for ever is assumed as strong fairness of       *)
(* Retry, which a node that ended does not keep from failing.              *)
(***************************************************************************)
LinkAnswers ==
    /\ \E l \in Links : LinkComesUp(l) \/ LinkFails(l)
    /\ UNCHANGED <<node, taskVars, link_id, sendVars>>

FairSpec ==
    /\ Spec
    /\ WF_vars(LinkAnswers)
    /\ WF_vars(EventTask)
    /\ WF_vars(Wake)
    /\ WF_vars(LookupFails \/ RetryFails \/ Retry)
    /\ SF_vars(Retry)
    /\ WF_vars(Sender)

-----------------------------------------------------------------------------
(* dispatch_and_reconnect never gets stuck: after a loss the client is     *)
(* back in its dispatch loop on another link, unless the bound on links is *)
(* used up or the node ended.                                              *)
ReconnectCompletes ==
    \A l \in Links : (phase = "clearing" /\ attempt = l)
                        ~> ((phase = "dispatch" /\ attempt # l) \/ attempt = MaxLinks \/ node = "gone")

(* README.md:60: the client reconnects "with exponential backoff".  Each   *)
(* failed try of dispatch_and_reconnect makes it wait longer.              *)
BackoffGrows ==
    [][ (phase \in {"lookup", "waiting"} /\ phase' = "sleeping")
            => (delay' > delay \/ delay' = MaxDelay) ]_vars

(* mux.rs:140, is_connected: "Check if link is active."  A client that is  *)
(* back in its dispatch loop on a link that stays up ends up with that     *)
(* link in its mux.                                                        *)
IsConnectedTellsLink ==
    (phase = "dispatch" /\ link_state[attempt] = "up")
        ~> (link_id = attempt \/ phase # "dispatch")

=============================================================================
