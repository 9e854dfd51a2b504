------------------------------ MODULE MCServer ------------------------------
(***************************************************************************)
(* Liveness of Server.  tokio runs the event loop, the sender tasks and    *)
(* the sessions' tasks whenever they can run; resolving, connecting and    *)
(* binding end with or without success.  Nothing is assumed of clients,    *)
(* links and targets, or of start-up: a send may fail on a link that is up *)
(* and stays up, after which its mux is silent, as the property says.      *)
(***************************************************************************)
EXTENDS Server

FairSpec ==
    /\ Spec
    /\ WF_vars(EventLoop)
    /\ \A l \in Links : WF_vars(Sender(l))
    /\ \A s \in Sessions : WF_vars(Task(s))

-----------------------------------------------------------------------------
(* CONNECTs and links are bounded, so that each of them is dealt with says *)
(* the same as that there is always a time when none is left.              *)

(* Every CONNECT is answered, also one whose payload does not parse, as    *)
(* long as its link is up (a crash ends it) and no send on it has failed:  *)
(* a failed send clears link_id (mux.rs:94), and although the link is up   *)
(* the mux drops every frame from then on.                                 *)
Silenced == link_muxes \ attached
Unanswered(s) ==
    asked[s] # "none" /\ Link(s) \in up \ Silenced /\ told[s] = "none"
ConnectAnswered == []<>(\A s \in Sessions : ~Unanswered(s))

(* The event loop always gets on: it forgets every link that is gone, also *)
(* while the frame channel it waits for is full and its link is lost.      *)
LinksForgotten == []<>(link_muxes \subseteq up)

Public == {"public"}
PublicAndLocal == {"public", "localhost"}
=============================================================================
