----------------------------- MODULE MCUdpRelay -----------------------------
(***************************************************************************)
(* What TLC checks of UdpRelay beyond its safety: that sessions end, under *)
(* fairness, and a comment that the code does not keep.                    *)
(***************************************************************************)
EXTENDS UdpRelay

(***************************************************************************)
(* Fairness: tokio runs every task that can run, a waiting sender gets the *)
(* room in the channel in its turn, and the server's socket can be bound   *)
(* or not.  Nothing is assumed of the link, the application and the peers: *)
(* every send may fail or be lost.                                         *)
(***************************************************************************)
FairSpec ==
    /\ Spec
    /\ WF_vars(Binds \/ BindFails)
    /\ \A e \in Ends :
          /\ WF_vars(Sender(e)) /\ WF_vars(EventLoop(e))
          /\ WF_vars(ReaderSteps(e)) /\ WF_vars(WriterSteps(e)) /\ WF_vars(OwnSteps(e))

-----------------------------------------------------------------------------
(* The mutex of the application's port is held across a send into the      *)
(* frame channel (relay.rs:130), which may be full for as long as the link *)
(* is slow or being replaced: it is always released again.                 *)
PortIsReleased == []<>(holding["client"] # "sending")

(* The loss of the link and the end of the server's relay end the client's *)
(* association or forwarded session: it does not stay open for ever.       *)
(* There is one way out: on a link that stays up the server's CLOSE does   *)
(* not get through, because RNS lost it or a failed send had cleared the   *)
(* link_id of the server's mux (mux.rs:94).  The client is not told, and   *)
(* its session stays until the link goes down.                             *)
CloseIsLost == link_up /\ ("server" \in close_lost \/ ~attached["server"])
StaysOpen ==
    /\ pc["client"] \in {"relay", "closing", "dropping"}
    /\ ~link_up \/ pc["server"] \in {"closing", "dropping", "ended"}
    /\ ~CloseIsLost
ClientSessionEnds == []<>~StaysOpen

(* relay.rs:312: "basically, the client can stop the udp connection either *)
(* by the reticulum link breaking OR the process using the udp connection  *)
(* stops while the server only stops in the first scenario".  The loss of  *)
(* the link ends the server's relay.                                       *)
ServerStopsWithLink == (pc["server"] = "relay" /\ ~link_up) ~> pc["server"] = "ended"

=============================================================================
