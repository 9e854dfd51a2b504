------------------------------- MODULE Tunnel -------------------------------
(***************************************************************************)
(* Proxied TCP sessions over the links of one client and one server.       *)
(*                                                                         *)
(* There is one mux at the client and one per link at the server; both are *)
(* MuxHandle, both relay with relay_bidirectional_tcp, so they are the     *)
(* same actions here, for the ends Client and 1..MaxLinks.  So does        *)
(* relay_forwarded_tcp, which repeats it for forwarded ports.  The client  *)
(* side of the link is ClientLink with the setup of a link in one step.    *)
(*                                                                         *)
(* A frame travels whole: ClientLink shows that a link is sent whole       *)
(* frames in order, cut only at its end.  RNS is external: it delivers in  *)
(* order what a live link accepted, and loses the rest of it when the link *)
(* goes down.  On a lossy path it loses packets of a live link as well     *)
(* (README.md:7).  A frame that misses a packet is missing whole here, and *)
(* the properties promise nothing of such a link's streams: what the       *)
(* receiver may make of the rest of a longer frame is Reassembly's.        *)
(***************************************************************************)
EXTENDS Naturals, Sequences

LOCAL INSTANCE Functions

CONSTANTS
    MaxLinks,     \* bound: links that come up
    MaxSessions,  \* bound: connections the SOCKS5 listener accepts
    MaxData,      \* bound: reads from sockets, all sessions together
    Capacity      \* capacity of a mux's frame channel, 5 in the code

ASSUME TunnelAssumption ==
    /\ MaxLinks \in Nat \ {0}
    /\ MaxSessions \in Nat \ {0}
    /\ MaxData \in Nat
    /\ Capacity \in Nat \ {0}

None == 0
Client == 0                       \* the client's mux
Links == 1..MaxLinks              \* and the server's, one per link
Ends == {Client} \cup Links
Sids == 1..MaxSessions

VARIABLES
    latest,           \* the newest link
    live,             \* is it up
    lossy,            \* the links of which RNS lost a packet while they were up
    cphase,           \* the client's event task: "dispatch", "clearing", "reconnect"
    server_muxes,     \* link_muxes: the links the server has a mux for
    rx,               \* per end, the events RNS has for it, frames included
    link_id,          \* per end, MuxInner.link_id
    sessions,         \* per end, the keys of MuxInner.sessions
    data_sender_buf,  \* per end, the channel of frames to send
    sending,          \* per end, the frame in send_on_link and its link
    next_sid,         \* MuxInner.next_sid of the client
    accepting,        \* the accept loop saw is_connected and has no sid yet
    pc,               \* per end and session, where its task is
    tasks,            \* per end and session, its relay tasks still running
    holding,          \* per end and session, tcp_to_rns has read and not yet sent
    inbox,            \* per end and session, session_rx
    read,             \* per end and session, how often the socket was read
    written,          \* per end and session, the payloads written to the socket
    why,              \* per end and session, how its relay ended
    reply             \* per session, the SOCKS5 reply the application got

linkVars == <<latest, live, lossy, cphase, server_muxes>>
muxVars == <<link_id, data_sender_buf, sending>>
acceptVars == <<next_sid, accepting>>
relayVars == <<tasks, holding, read, written, why>>
sessionVars == <<pc, inbox, reply, relayVars>>
vars == <<linkVars, rx, muxVars, sessions, acceptVars, sessionVars>>

FrameTypes == {"Connect", "ConnectOk", "ConnectErr", "Data", "Close"}
LinkEvents == {"LinkEstablished", "LinkClosed"}
Frame == [type : FrameTypes, sid : Sids, from : Ends, n : Nat]
Signal(type) == [type |-> type, sid |-> 0, from |-> Client, n |-> 0]
Events == Frame \cup {Signal(t) : t \in LinkEvents}
Reader == "tcp_to_rns"
Writer == "rns_to_tcp"
Idle == [frame |-> Signal("none"), link |-> None]

EachSession(v) == [e \in Ends |-> [s \in Sids |-> v]]

Init ==
    /\ latest = 0
    /\ live = FALSE
    /\ lossy = {}
    /\ cphase = "reconnect"
    /\ server_muxes = {}
    /\ rx = [e \in Ends |-> <<>>]
    /\ link_id = [e \in Ends |-> None]
    /\ sessions = [e \in Ends |-> {}]
    /\ data_sender_buf = [e \in Ends |-> <<>>]
    /\ sending = [e \in Ends |-> Idle]
    /\ next_sid = 0
    /\ accepting = FALSE
    /\ pc = EachSession("none")
    /\ tasks = EachSession({})
    /\ holding = EachSession(FALSE)
    /\ inbox = EachSession(<<>>)
    /\ read = EachSession(0)
    /\ written = EachSession(<<>>)
    /\ why = EachSession("none")
    /\ reply = [s \in Sids |-> "none"]

-----------------------------------------------------------------------------
(***************************************************************************)
(* RNS and the client's reconnect loop.                                    *)
(***************************************************************************)
(* The client asks for a link only after it read the close of the last one. *)
LinkComesUp ==
    /\ cphase = "reconnect" /\ ~live /\ rx[Client] = <<>>
    /\ latest < MaxLinks
    /\ latest' = latest + 1
    /\ live' = TRUE
    /\ rx' = [rx EXCEPT ![Client] = <<Signal("LinkEstablished")>>,
                        ![latest + 1] = <<Signal("LinkEstablished")>>]
    /\ UNCHANGED <<lossy, cphase, server_muxes, muxVars, sessions, acceptVars, sessionVars>>

(* What an end has not read yet is lost from some point on, and the close  *)
(* of the link is the last it hears of it.  LinkEstablished is not lost.   *)
Cut(q, k) == Append(SubSeq(q, 1, k), Signal("LinkClosed"))
MayKeep(q) == {k \in 0..Len(q) : k = 0 => (q = <<>> \/ q[1].type # "LinkEstablished")}

LinkGoesDown ==
    /\ live
    /\ live' = FALSE
    /\ \E j \in MayKeep(rx[Client]), k \in MayKeep(rx[latest]) :
          rx' = [rx EXCEPT ![Client] = Cut(@, j), ![latest] = Cut(@, k)]
    /\ UNCHANGED <<latest, lossy, cphase, server_muxes, muxVars, sessions, acceptVars, sessionVars>>

Gets(e, type) == rx[e] # <<>> /\ Head(rx[e]).type = type
Take(e) == rx' = [rx EXCEPT ![e] = Tail(@)]

ClientAttaches ==
    /\ cphase = "reconnect"
    /\ Gets(Client, "LinkEstablished") /\ Take(Client)
    /\ link_id' = [link_id EXCEPT ![Client] = latest]
    /\ cphase' = "dispatch"
    /\ UNCHANGED <<latest, live, lossy, server_muxes, data_sender_buf, sending, sessions,
                   acceptVars, sessionVars>>

(* mux.reset(): first link_id, then the sessions; each takes its own lock. *)
LosesLinkKeepsId ==
    /\ cphase = "dispatch"
    /\ Gets(Client, "LinkClosed") /\ Take(Client)
    /\ cphase' = "clearing"
    /\ UNCHANGED <<latest, live, lossy, server_muxes, muxVars, sessions, acceptVars, sessionVars>>

ClientLosesLink ==
    /\ cphase = "dispatch"
    /\ Gets(Client, "LinkClosed") /\ Take(Client)
    /\ link_id' = [link_id EXCEPT ![Client] = None]
    /\ cphase' = "clearing"
    /\ UNCHANGED <<latest, live, lossy, server_muxes, data_sender_buf, sending, sessions,
                   acceptVars, sessionVars>>

ClearsNoSessions ==
    /\ cphase = "clearing"
    /\ cphase' = "reconnect"
    /\ UNCHANGED <<latest, live, lossy, server_muxes, rx, muxVars, sessions, acceptVars, sessionVars>>

ClientClearsSessions ==
    /\ cphase = "clearing"
    /\ sessions' = [sessions EXCEPT ![Client] = {}]
    /\ cphase' = "reconnect"
    /\ UNCHANGED <<latest, live, lossy, server_muxes, rx, muxVars, acceptVars, sessionVars>>

(* The server gets a mux for a new link and forgets it when it closes; its *)
(* sessions keep their own handle and are told nothing.                    *)
ServerOpensMux(l) ==
    /\ Gets(l, "LinkEstablished") /\ Take(l)
    /\ server_muxes' = server_muxes \cup {l}
    /\ link_id' = [link_id EXCEPT ![l] = l]
    /\ UNCHANGED <<latest, live, lossy, cphase, data_sender_buf, sending, sessions,
                   acceptVars, sessionVars>>

ServerDropsMux(l) ==
    /\ Gets(l, "LinkClosed") /\ Take(l)
    /\ server_muxes' = server_muxes \ {l}
    /\ UNCHANGED <<latest, live, lossy, cphase, muxVars, sessions, acceptVars, sessionVars>>

-----------------------------------------------------------------------------
(***************************************************************************)
(* The mux: the frame channel, the sender task and dispatch.               *)
(***************************************************************************)
Unbounded(e) == TRUE
Room(e) == Len(data_sender_buf[e]) < Capacity

(* mux.send: waits for room in the channel.                                *)
Send(e, type, s, n) ==
    /\ Room(e)
    /\ data_sender_buf' = [data_sender_buf EXCEPT ![e] =
                              Append(@, [type |-> type, sid |-> s, from |-> e, n |-> n])]

SenderTake(e) ==
    /\ sending[e] = Idle
    /\ data_sender_buf[e] # <<>>
    /\ data_sender_buf' = [data_sender_buf EXCEPT ![e] = Tail(@)]
    /\ sending' = [sending EXCEPT ![e] =
                      IF link_id[e] = None
                      THEN Idle
                      ELSE [frame |-> Head(data_sender_buf[e]), link |-> link_id[e]]]
    /\ UNCHANGED <<linkVars, rx, link_id, sessions, acceptVars, sessionVars>>

IsUp(l) == live /\ latest = l
Dest(e, l) == IF e = Client THEN l ELSE Client

SenderSends(e) ==
    /\ sending[e] # Idle
    /\ IsUp(sending[e].link)
    /\ rx' = [rx EXCEPT ![Dest(e, sending[e].link)] = Append(@, sending[e].frame)]
    /\ sending' = [sending EXCEPT ![e] = Idle]
    /\ UNCHANGED <<linkVars, link_id, data_sender_buf, sessions, acceptVars, sessionVars>>

(* RNS accepted the frame and lost it: no error reaches the sender.        *)
SenderLoses(e) ==
    /\ sending[e] # Idle
    /\ IsUp(sending[e].link)
    /\ lossy' = lossy \cup {sending[e].link}
    /\ sending' = [sending EXCEPT ![e] = Idle]
    /\ UNCHANGED <<latest, live, cphase, server_muxes, rx, link_id, data_sender_buf, sessions,
                   acceptVars, sessionVars>>

SenderSkips(e) ==
    /\ sending[e] # Idle
    /\ sending' = [sending EXCEPT ![e] = Idle]
    /\ UNCHANGED <<linkVars, rx, link_id, data_sender_buf, sessions, acceptVars, sessionVars>>

(* send_on_link may fail on any link, one that is up included.             *)
SenderFails(e) ==
    /\ sending[e] # Idle
    /\ sending' = [sending EXCEPT ![e] = Idle]
    /\ link_id' = [link_id EXCEPT ![e] = None]
    /\ UNCHANGED <<linkVars, rx, data_sender_buf, sessions, acceptVars, sessionVars>>

Sender(e) == SenderTake(e) \/ SenderSends(e) \/ SenderLoses(e) \/ SenderFails(e)

(* dispatch: into the session's channel, if there is one and its receiver  *)
(* still exists.                                                           *)
Receiving(e, s) == pc[e][s] \in {"accepted", "waiting", "dialing"} \/ Writer \in tasks[e][s]

Dispatch(e, f) ==
    inbox' = IF f.sid \in sessions[e] /\ Receiving(e, f.sid)
             THEN [inbox EXCEPT ![e][f.sid] = Append(@, f)]
             ELSE inbox

ClientDispatches ==
    /\ cphase = "dispatch"
    /\ \E t \in FrameTypes : Gets(Client, t)
    /\ Take(Client)
    /\ Dispatch(Client, Head(rx[Client]))
    /\ UNCHANGED <<linkVars, muxVars, sessions, acceptVars, pc, reply, relayVars>>

ServerDispatches(l) ==
    /\ Gets(l, "Data") \/ Gets(l, "Close")
    /\ l \in server_muxes
    /\ Take(l)
    /\ Dispatch(l, Head(rx[l]))
    /\ UNCHANGED <<linkVars, muxVars, sessions, acceptVars, pc, reply, relayVars>>

ServerConnects(l) ==
    /\ Gets(l, "Connect")
    /\ l \in server_muxes
    /\ Take(l)
    /\ LET s == Head(rx[l]).sid
       IN  /\ sessions' = [sessions EXCEPT ![l] = @ \cup {s}]
           /\ pc' = [pc EXCEPT ![l][s] = "dialing"]
    /\ UNCHANGED <<linkVars, muxVars, acceptVars, inbox, reply, relayVars>>

EventLoop(e) ==
    IF e = Client
    THEN ClientAttaches \/ ClientLosesLink \/ ClientClearsSessions \/ ClientDispatches
    ELSE ServerOpensMux(e) \/ ServerDropsMux(e) \/ ServerDispatches(e) \/ ServerConnects(e)

-----------------------------------------------------------------------------
(***************************************************************************)
(* The client's session: accept loop, handshake and CONNECT.               *)
(***************************************************************************)
Becomes(e, s, p) == pc' = [pc EXCEPT ![e][s] = p]

AcceptChecks ==
    /\ ~accepting
    /\ next_sid < MaxSessions
    /\ link_id[Client] # None
    /\ accepting' = TRUE
    /\ UNCHANGED <<linkVars, rx, muxVars, sessions, next_sid, sessionVars>>

(* next_session_id, register_session, spawn; the link may be gone by now.  *)
AcceptRegisters ==
    /\ accepting
    /\ accepting' = FALSE
    /\ next_sid' = next_sid + 1
    /\ sessions' = [sessions EXCEPT ![Client] = @ \cup {next_sid + 1}]
    /\ Becomes(Client, next_sid + 1, "accepted")
    /\ UNCHANGED <<linkVars, rx, muxVars, inbox, reply, relayVars>>

(* A failed handshake, or TCPBind: the session stays registered.           *)
HandshakeFails(s) ==
    /\ pc[Client][s] = "accepted"
    /\ Becomes(Client, s, "ended")
    /\ UNCHANGED <<linkVars, rx, muxVars, sessions, acceptVars, inbox, reply, relayVars>>

Connect(s) ==
    /\ pc[Client][s] = "accepted"
    /\ Send(Client, "Connect", s, 0)
    /\ Becomes(Client, s, "waiting")
    /\ UNCHANGED <<linkVars, rx, link_id, sending, sessions, acceptVars, inbox, reply,
                   relayVars>>

InboxHas(e, s, types) == inbox[e][s] # <<>> /\ Head(inbox[e][s]).type \in types
Pop(e, s) == inbox' = [inbox EXCEPT ![e][s] = Tail(@)]

(* CONN_OK: the success reply reaches the application, or its socket is    *)
(* gone and the session is closed.                                         *)
GetsOk(s) ==
    /\ pc[Client][s] = "waiting"
    /\ InboxHas(Client, s, {"ConnectOk"}) /\ Pop(Client, s)
    /\ \/ /\ reply' = [reply EXCEPT ![s] = "success"]
          /\ tasks' = [tasks EXCEPT ![Client][s] = {Reader, Writer}]
          /\ Becomes(Client, s, "relay")
       \/ /\ Becomes(Client, s, "closing")
          /\ UNCHANGED <<reply, tasks>>
    /\ UNCHANGED <<linkVars, rx, muxVars, sessions, acceptVars, holding, read, written, why>>

(* CONN_ERR, the 60 s timeout or a closed channel: handle_tcp_connect      *)
(* returns None, which drops the socket without a reply and leaves the     *)
(* session registered.                                                     *)
GetsErr(s) ==
    /\ pc[Client][s] = "waiting"
    /\ InboxHas(Client, s, {"ConnectErr"}) /\ Pop(Client, s)
    /\ why' = [why EXCEPT ![Client][s] = "refused"]
    /\ Becomes(Client, s, "ended")
    /\ UNCHANGED <<linkVars, rx, muxVars, sessions, acceptVars, reply, tasks, holding,
                   read, written>>

(* `_ => continue`: the data of a session whose CONN_OK was lost.          *)
Discards(s) ==
    /\ pc[Client][s] = "waiting"
    /\ InboxHas(Client, s, FrameTypes \ {"ConnectOk", "ConnectErr"}) /\ Pop(Client, s)
    /\ UNCHANGED <<linkVars, rx, muxVars, sessions, acceptVars, pc, reply, relayVars>>

GivesUp(s) ==
    /\ pc[Client][s] = "waiting"
    /\ inbox' = [inbox EXCEPT ![Client][s] = <<>>]
    /\ why' = [why EXCEPT ![Client][s] = "timeout"]
    /\ Becomes(Client, s, "ended")
    /\ UNCHANGED <<linkVars, rx, muxVars, sessions, acceptVars, reply, tasks, holding,
                   read, written>>

(***************************************************************************)
(* The server's session: TcpStream::connect and the answer to CONNECT.     *)
(***************************************************************************)
DialSucceeds(l, s) ==
    /\ pc[l][s] = "dialing"
    /\ Send(l, "ConnectOk", s, 0)
    /\ tasks' = [tasks EXCEPT ![l][s] = {Reader, Writer}]
    /\ Becomes(l, s, "relay")
    /\ UNCHANGED <<linkVars, rx, link_id, sending, sessions, acceptVars, inbox, reply,
                   holding, read, written, why>>

(* Refused by the filter, or by the target.                                *)
DialFails(l, s) ==
    /\ pc[l][s] = "dialing"
    /\ Send(l, "ConnectErr", s, 0)
    /\ inbox' = [inbox EXCEPT ![l][s] = <<>>]
    /\ Becomes(l, s, "dropping")
    /\ UNCHANGED <<linkVars, rx, link_id, sending, sessions, acceptVars, reply, relayVars>>

-----------------------------------------------------------------------------
(***************************************************************************)
(* relay_bidirectional_tcp at either end.                                  *)
(***************************************************************************)
Running(e, s, task) == task \in tasks[e][s]

(* A task takes what it owns with it: the chunk it was sending, or the     *)
(* receiver of the session's channel.                                      *)
TaskEnds(e, s, task) ==
    /\ tasks' = [tasks EXCEPT ![e][s] = @ \ {task}]
    /\ holding' = [holding EXCEPT ![e][s] = @ /\ task # Reader]
    /\ inbox' = IF task = Writer THEN [inbox EXCEPT ![e][s] = <<>>] ELSE inbox

(* The first relay task to end decides how the relay ended; select! aborts *)
(* the other one, which may still run until the abort reaches it.          *)
Finish(e, s, task, reason) ==
    /\ TaskEnds(e, s, task)
    /\ IF pc[e][s] = "relay"
       THEN Becomes(e, s, "closing") /\ why' = [why EXCEPT ![e][s] = reason]
       ELSE UNCHANGED <<pc, why>>
    /\ UNCHANGED <<linkVars, rx, muxVars, sessions, acceptVars, reply, read, written>>

Aborted(e, s) ==
    /\ pc[e][s] # "relay"
    /\ \E t \in tasks[e][s] : TaskEnds(e, s, t)
    /\ UNCHANGED <<linkVars, rx, muxVars, sessions, acceptVars, pc, reply, read, written, why>>

Total(f) == FoldFunction(+, 0, f)
AllReads == Total([e \in Ends |-> Total(read[e])])

ReadsData(e, s) ==
    /\ Running(e, s, Reader) /\ ~holding[e][s]
    /\ AllReads < MaxData
    /\ read' = [read EXCEPT ![e][s] = @ + 1]
    /\ holding' = [holding EXCEPT ![e][s] = TRUE]
    /\ UNCHANGED <<linkVars, rx, muxVars, sessions, acceptVars, pc, inbox, reply, tasks,
                   written, why>>

SendsData(e, s) ==
    /\ Running(e, s, Reader) /\ holding[e][s]
    /\ Send(e, "Data", s, read[e][s])
    /\ holding' = [holding EXCEPT ![e][s] = FALSE]
    /\ UNCHANGED <<linkVars, rx, link_id, sending, sessions, acceptVars, pc, inbox, reply,
                   tasks, read, written, why>>

(* read returned 0 or an error.                                            *)
ReadEndsUnsent(e, s) ==
    /\ Running(e, s, Reader)
    /\ Finish(e, s, Reader, "eof")

ReadEnds(e, s) ==
    /\ Running(e, s, Reader) /\ ~holding[e][s]
    /\ Finish(e, s, Reader, "eof")

Writes(e, s) ==
    /\ Running(e, s, Writer)
    /\ InboxHas(e, s, {"Data"}) /\ Pop(e, s)
    /\ written' = [written EXCEPT ![e][s] = Append(@, Head(inbox[e][s]))]
    /\ UNCHANGED <<linkVars, rx, muxVars, sessions, acceptVars, pc, reply, tasks, holding,
                   read, why>>

WriteFails(e, s) ==
    /\ Running(e, s, Writer)
    /\ InboxHas(e, s, {"Data"})
    /\ Finish(e, s, Writer, "write_error")

GetsClose(e, s) ==
    /\ Running(e, s, Writer)
    /\ InboxHas(e, s, {"Close", "ConnectErr"})
    /\ Finish(e, s, Writer, "closed")

(* recv returned None: the session is no longer registered.                *)
ChannelCloses(e, s) ==
    /\ Running(e, s, Writer)
    /\ inbox[e][s] = <<>> /\ s \notin sessions[e]
    /\ Finish(e, s, Writer, "lost")

(* The CLOSE, then drop_session.                                           *)
ClosesSilently(e, s) ==
    /\ pc[e][s] = "closing"
    /\ Becomes(e, s, "dropping")
    /\ UNCHANGED <<linkVars, rx, muxVars, sessions, acceptVars, inbox, reply, relayVars>>

Closes(e, s) ==
    /\ pc[e][s] = "closing"
    /\ Send(e, "Close", s, 0)
    /\ Becomes(e, s, "dropping")
    /\ UNCHANGED <<linkVars, rx, link_id, sending, sessions, acceptVars, inbox, reply,
                   relayVars>>

DropsSession(e, s) ==
    /\ pc[e][s] = "dropping"
    /\ sessions' = [sessions EXCEPT ![e] = @ \ {s}]
    /\ Becomes(e, s, "ended")
    /\ UNCHANGED <<linkVars, rx, muxVars, acceptVars, inbox, reply, relayVars>>

-----------------------------------------------------------------------------
(* What the sessions' own tasks do once the sockets have nothing to say,   *)
(* and what depends on the application and the target.                     *)
Relays(e, s) ==
    \/ SendsData(e, s) \/ Writes(e, s) \/ GetsClose(e, s) \/ ChannelCloses(e, s)
    \/ Aborted(e, s) \/ Closes(e, s) \/ DropsSession(e, s)

Sockets(e, s) == ReadsData(e, s) \/ ReadEnds(e, s) \/ WriteFails(e, s)

ConnectSteps(s) ==
    \/ HandshakeFails(s) \/ Connect(s)
    \/ GetsOk(s) \/ GetsErr(s) \/ Discards(s) \/ GivesUp(s)
    \/ \E l \in Links : DialSucceeds(l, s) \/ DialFails(l, s)

Next ==
    \/ LinkComesUp \/ LinkGoesDown
    \/ \E e \in Ends : EventLoop(e) \/ Sender(e)
    \/ AcceptChecks \/ AcceptRegisters
    \/ \E s \in Sids : ConnectSteps(s) \/ \E e \in Ends : Relays(e, s) \/ Sockets(e, s)

Spec == Init /\ [][Next]_vars

-----------------------------------------------------------------------------
(* Type invariant of the muxes, the sessions and their relays.             *)
TypeOK ==
    /\ latest \in 0..MaxLinks
    /\ live \in BOOLEAN
    /\ lossy \subseteq Links
    /\ cphase \in {"dispatch", "clearing", "reconnect"}
    /\ server_muxes \subseteq Links
    /\ rx \in [Ends -> Seq(Events)]
    /\ link_id \in [Ends -> {None} \cup Links]
    /\ sessions \in [Ends -> SUBSET Sids]
    /\ data_sender_buf \in [Ends -> Seq(Frame)]
    /\ \A e \in Ends : Len(data_sender_buf[e]) <= Capacity
    /\ sending \in [Ends -> [frame : Frame, link : Links] \cup {Idle}]
    /\ next_sid \in 0..MaxSessions
    /\ accepting \in BOOLEAN
    /\ pc \in [Ends -> [Sids -> {"none", "accepted", "waiting", "dialing", "relay",
                                 "closing", "dropping", "ended"}]]
    /\ tasks \in [Ends -> [Sids -> SUBSET {Reader, Writer}]]
    /\ holding \in [Ends -> [Sids -> BOOLEAN]]
    /\ inbox \in [Ends -> [Sids -> Seq(Frame)]]
    /\ read \in [Ends -> [Sids -> Nat]]
    /\ written \in [Ends -> [Sids -> Seq(Frame)]]
    /\ why \in [Ends -> [Sids -> {"none", "refused", "timeout", "eof", "write_error",
                                  "closed", "lost"}]]
    /\ reply \in [Sids -> {"none", "success"}]

(* The two ends of one session, and their link.                            *)
Peers(e) == IF e = Client THEN Links ELSE {Client}
LinkOf(e, p) == IF e = Client THEN p ELSE e
Joined(e, p, s) == pc[LinkOf(e, p)][s] # "none" /\ LinkOf(e, p) \notin lossy

(* relay_bidirectional_tcp: what is written to a socket is what the peer's *)
(* socket gave, from the first read on, without a gap, a repetition or a   *)
(* byte of another session or link, although sends fail, links go down and *)
(* frames stay queued when one does.  It holds of the sessions of a link   *)
(* that lost no packet while it was up.                                    *)
StreamPrefix ==
    \A e \in Ends, s \in Sids : \A p \in Peers(e) :
        Joined(e, p, s) =>
            /\ Len(written[e][s]) <= read[p][s]
            /\ written[e][s] = [i \in 1..Len(written[e][s]) |->
                                   [type |-> "Data", sid |-> s, from |-> p, n |-> i]]

(* A session that was ended by the peer's CLOSE after the peer's socket    *)
(* reached its end has had all the peer read: no data is overtaken by the  *)
(* CLOSE or left in a channel.  This too is said of links that lost no     *)
(* packet while they were up.                                              *)
CompleteOnClose ==
    \A e \in Ends, s \in Sids : \A p \in Peers(e) :
        Joined(e, p, s) /\ why[e][s] = "closed" /\ why[p][s] = "eof"
            => Len(written[e][s]) = read[p][s]

(* A registered relay of the client talks to a server session of the link  *)
(* the client dispatches for: a relay of a lost link does not survive into *)
(* the next one, though sessions are accepted and cleared concurrently.    *)
RelayOnCurrentLink ==
    \A s \in Sids :
        cphase = "dispatch" /\ pc[Client][s] = "relay" /\ s \in sessions[Client]
            => pc[latest][s] # "none"

(* The arms `_ => continue` of connect_tcp_server_side and `_ => {}` of    *)
(* the relay drop frames unseen; they never meet one on a link that lost   *)
(* no packet: the answer to CONNECT comes first, and data and CLOSE only   *)
(* after it.                                                               *)
NothingDiscarded ==
    \A e \in Ends, s \in Sids : \A p \in Peers(e) :
        inbox[e][s] # <<>> /\ Joined(e, p, s) =>
            /\ pc[e][s] \in {"accepted", "waiting"} => InboxHas(e, s, {"ConnectOk", "ConnectErr"})
            /\ Running(e, s, Writer) => InboxHas(e, s, {"Data", "Close"})

(* The mux is attached to one link after the other and never to one again. *)
LS == INSTANCE LinkService WITH
        latest <- latest,
        live <- live,
        spent <- ~(cphase = "reconnect" /\ Gets(Client, "LinkEstablished")),
        attached <- link_id[Client]
ImplementsLinkService == LS!Spec

=============================================================================
