------------------------------ MODULE MCTunnel ------------------------------
(***************************************************************************)
(* What TLC checks of Tunnel beyond its safety: that each end of a relay   *)
(* ends with the other, under fairness, and a comment of the code that it  *)
(* does not keep.  Session ids and links are ordered, so there is no       *)
(* symmetry to use.                                                        *)
(***************************************************************************)
EXTENDS Tunnel

LOCAL INSTANCE Functions

(***************************************************************************)
(* Fairness: tokio runs the event loops, the sender tasks and every        *)
(* session's tasks; a full channel serves its waiting senders in turn, a   *)
(* socket takes what is written to it and an abort arrives.  Nothing is    *)
(* assumed of the links, the applications and the targets: every send may  *)
(* fail or be lost.                                                        *)
(***************************************************************************)
FairSpec ==
    /\ Spec
    /\ \A e \in Ends : WF_vars(EventLoop(e)) /\ WF_vars(Sender(e))
    /\ \A e \in Ends, s \in Sids : WF_vars(Relays(e, s))

-----------------------------------------------------------------------------
(* While a link is up, the CLOSE that ends a session at its end e may not  *)
(* get through to the peer: RNS lost it, or a failed send had cleared the  *)
(* link_id of e's mux (mux.rs:94).  Neither end hears of it.               *)
CloseOf(e, f, s) == f.type = "Close" /\ f.from = e /\ f.sid = s
OnItsWay(e, p, s) ==
    \E f \in Range(data_sender_buf[e]) \cup {sending[e].frame} \cup Range(rx[p]) \cup Range(inbox[p][s]) :
        CloseOf(e, f, s)
CloseIsLost(e, p, l, s) ==
    /\ IsUp(l) /\ (l \in lossy \/ link_id[e] # l)
    /\ pc[e][s] \in {"dropping", "ended"}
    /\ ~OnItsWay(e, p, s)

Open(e, s) == pc[e][s] \in {"relay", "closing", "dropping"}

(* The end of the relay at the server, and the loss of the link, end the   *)
(* client's relay: it does not stay open for ever, however full the        *)
(* channels are, unless the server's CLOSE is lost and the link stays up.  *)
ClientRelayEnds ==
    \A s \in Sids, l \in Links :
        []<>~(/\ Open(Client, s) /\ pc[l][s] \notin {"none", "dialing"}
              /\ pc[l][s] # "relay" \/ ~IsUp(l)
              /\ ~CloseIsLost(l, Client, l, s))

(* The end of the relay at the client ends the server's, unless the CLOSE  *)
(* is lost or the client's mux leaves the link first.                      *)
ServerRelayEnds ==
    \A s \in Sids, l \in Links :
        []<>~(/\ Open(l, s) /\ pc[Client][s] \in {"closing", "dropping", "ended"}
              /\ why[Client][s] \notin {"refused", "timeout"}
              /\ link_id[Client] = l
              /\ ~CloseIsLost(Client, l, l, s))

(* client.rs:435: "Reply to SOCKS5 client based on RNS connection result". *)
(* An application whose CONNECT the server refused is told so.             *)
RefusedIsReplied ==
    \A s \in Sids : why[Client][s] = "refused" => reply[s] # "none"

=============================================================================
