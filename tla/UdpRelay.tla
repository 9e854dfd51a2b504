------------------------------ MODULE UdpRelay ------------------------------
(***************************************************************************)
(* One UDP session between the client and the server of a link: CONNECT    *)
(* and its answer, the relays of both ends and the CLOSE.  At the client   *)
(* it is a SOCKS5 UDP association or a forwarded port.                     *)
(*                                                                         *)
(* Unlike relay_bidirectional_tcp, the UDP relays do not abort their       *)
(* tasks: select! drops the JoinHandles, which detaches them, so each task *)
(* runs on until its own loop ends.                                        *)
(*                                                                         *)
(* The link, the muxes and the event loops are those of Tunnel for one     *)
(* link.  What a sender task would send on a later link does not come back *)
(* to this session, which that link's mux does not know; here it is        *)
(* dropped.  While the link is up a send may fail, and RNS may lose what   *)
(* was sent.  A frame that misses a packet is missing whole here; what a   *)
(* receiver may make of the rest of a longer one is left to Reassembly.    *)
(***************************************************************************)
EXTENDS Naturals, Sequences

CONSTANTS
    Datagrams,    \* bound: datagrams read from the sockets of both ends
    Capacity      \* capacity of a mux's frame channel, 5 in the code

ASSUME UdpRelayAssumption ==
    /\ Datagrams \in Nat
    /\ Capacity \in Nat \ {0}

Ends == {"client", "server"}
Peer(e) == IF e = "client" THEN "server" ELSE "client"

VARIABLES
    kind,             \* what the session is at the client: "socks" or "forwarded"
    link_up,          \* is the link up
    attached,         \* per end, is it still MuxInner.link_id
    close_lost,       \* the ends whose CLOSE RNS lost while the link was up
    rx,               \* per end, the frames and the close on their way to it
    data_sender_buf,  \* per end, the channel of frames to send
    registered,       \* per end, is the session in MuxInner.sessions
    pc,               \* per end, where the session's own task is
    tasks,            \* per end, its relay tasks still running
    inbox,            \* per end, session_rx
    port_known,       \* client_local_port is Some
    holding,          \* per end, the datagram of udp_to_rns: "none", "read", "sending"
    read,             \* per end, the datagrams read from the socket
    delivered,        \* per end, the datagrams sent to the socket
    closed_after      \* per end, the datagrams queued before its CLOSE

linkVars == <<kind, link_up, attached, close_lost>>
socketVars == <<port_known, holding, read, delivered>>
vars == <<linkVars, rx, data_sender_buf, registered, pc, tasks, inbox, socketVars,
          closed_after>>

Reader == "udp_to_rns"
Writer == "rns_to_udp"
TcpCheck == "break_connection_tcp_check"
Types == {"Connect", "ConnectOk", "ConnectErr", "Data", "Close", "LinkClosed"}
Frame == [type : Types, n : Nat]
Signal(type) == [type |-> type, n |-> 0]

Init ==
    /\ kind \in {"socks", "forwarded"}
    /\ link_up = TRUE
    /\ attached = [e \in Ends |-> TRUE]
    /\ close_lost = {}
    /\ rx = [e \in Ends |-> <<>>]
    /\ data_sender_buf = [e \in Ends |-> <<>>]
    /\ registered = [e \in Ends |-> e = "client"]
    /\ pc = [e \in Ends |-> IF e = "client" THEN "accepted" ELSE "none"]
    /\ tasks = [e \in Ends |-> {}]
    /\ inbox = [e \in Ends |-> <<>>]
    /\ port_known = FALSE
    /\ holding = [e \in Ends |-> "none"]
    /\ read = [e \in Ends |-> 0]
    /\ delivered = [e \in Ends |-> <<>>]
    /\ closed_after = [e \in Ends |-> Datagrams]

-----------------------------------------------------------------------------
(***************************************************************************)
(* The link, the sender tasks and the event loops.                         *)
(***************************************************************************)
(* What is still on its way is lost from some point on.                    *)
Cut(q, k) == Append(SubSeq(q, 1, k), Signal("LinkClosed"))
LinkGoesDown ==
    /\ link_up
    /\ link_up' = FALSE
    /\ \E i \in 0..Len(rx["client"]), j \in 0..Len(rx["server"]) :
          rx' = [rx EXCEPT !["client"] = Cut(@, i), !["server"] = Cut(@, j)]
    /\ UNCHANGED <<kind, attached, close_lost, data_sender_buf, registered, pc, tasks, inbox,
                   socketVars, closed_after>>

SendUnbounded(e, type, n) ==
    data_sender_buf' = [data_sender_buf EXCEPT ![e] = Append(@, [type |-> type, n |-> n])]

Send(e, type, n) ==
    /\ Len(data_sender_buf[e]) < Capacity
    /\ data_sender_buf' = [data_sender_buf EXCEPT ![e] = Append(@, [type |-> type, n |-> n])]

(* run_link_sender takes a frame; what becomes of it on the link.          *)
TakesFrame(e) ==
    /\ data_sender_buf[e] # <<>>
    /\ data_sender_buf' = [data_sender_buf EXCEPT ![e] = Tail(@)]
    /\ UNCHANGED <<kind, link_up, registered, pc, tasks, inbox, socketVars, closed_after>>

Carries(e) == link_up /\ attached[e]
Arrives(e) == rx' = [rx EXCEPT ![Peer(e)] = Append(@, Head(data_sender_buf[e]))]

DeliversTwice(e) ==
    /\ Carries(e)
    /\ TakesFrame(e)
    /\ LET frame == Head(data_sender_buf[e])
       IN  rx' = [rx EXCEPT ![Peer(e)] = @ \o <<frame, frame>>]
    /\ UNCHANGED <<attached, close_lost>>

Delivers(e) ==
    /\ Carries(e)
    /\ TakesFrame(e) /\ Arrives(e)
    /\ UNCHANGED <<attached, close_lost>>

(* README.md:7: lossy paths lose packets, and no send fails for that.      *)
LosesFrame(e) ==
    /\ Carries(e)
    /\ TakesFrame(e)
    /\ close_lost' = IF Head(data_sender_buf[e]).type = "Close" THEN close_lost \cup {e}
                                                               ELSE close_lost
    /\ UNCHANGED <<rx, attached>>

(* send_on_link failed, which clears link_id, or there was no link_id: the *)
(* frame is dropped.                                                       *)
FailsOnce(e) ==
    /\ attached[e]
    /\ TakesFrame(e)
    /\ attached' = [attached EXCEPT ![e] = FALSE]
    /\ UNCHANGED <<rx, close_lost>>

Fails(e) ==
    /\ TakesFrame(e)
    /\ attached' = [attached EXCEPT ![e] = FALSE]
    /\ UNCHANGED <<rx, close_lost>>

Sender(e) == Delivers(e) \/ LosesFrame(e) \/ Fails(e)

Gets(e, types) == rx[e] # <<>> /\ Head(rx[e]).type \in types
TakeEvent(e) == rx' = [rx EXCEPT ![e] = Tail(@)]

(* dispatch: frames for a receiver that no longer exists are dropped.      *)
Receiving(e) == pc[e] \in {"accepted", "waiting", "binding"} \/ Writer \in tasks[e]
Dispatches(e) ==
    /\ Gets(e, IF e = "client" THEN Types \ {"LinkClosed"} ELSE {"Data", "Close"})
    /\ TakeEvent(e)
    /\ inbox' = IF registered[e] /\ Receiving(e)
                THEN [inbox EXCEPT ![e] = Append(@, Head(rx[e]))]
                ELSE inbox
    /\ UNCHANGED <<linkVars, data_sender_buf, registered, pc, tasks, socketVars, closed_after>>

(* reset at the client.  The server forgets its mux, which the session     *)
(* keeps alive together with its entry in the table.                       *)
ForgetsOnlyLink(e) ==
    /\ Gets(e, {"LinkClosed"}) /\ TakeEvent(e)
    /\ UNCHANGED <<linkVars, data_sender_buf, registered, pc, tasks, inbox, socketVars,
                   closed_after>>

LosesLink(e) ==
    /\ Gets(e, {"LinkClosed"}) /\ TakeEvent(e)
    /\ registered' = [registered EXCEPT ![e] = @ /\ e = "server"]
    /\ attached' = [attached EXCEPT ![e] = @ /\ e = "server"]
    /\ UNCHANGED <<kind, link_up, close_lost, data_sender_buf, pc, tasks, inbox, socketVars, closed_after>>

-----------------------------------------------------------------------------
(***************************************************************************)
(* CONNECT: udp_bind_connect and its callers, handle_server_session_udp.   *)
(***************************************************************************)
Becomes(e, p) == pc' = [pc EXCEPT ![e] = p]
Answer == IF inbox["client"] = <<>> THEN "none" ELSE Head(inbox["client"]).type

Connect ==
    /\ pc["client"] = "accepted"
    /\ Send("client", "Connect", 0)
    /\ Becomes("client", "waiting")
    /\ UNCHANGED <<linkVars, rx, registered, tasks, inbox, socketVars, closed_after>>

GetsOk ==
    /\ pc["client"] = "waiting" /\ Answer = "ConnectOk"
    /\ inbox' = [inbox EXCEPT !["client"] = Tail(@)]
    /\ Becomes("client", "relay")
    /\ tasks' = [tasks EXCEPT !["client"] =
                    {Reader, Writer} \cup (IF kind = "socks" THEN {TcpCheck} ELSE {})]
    /\ UNCHANGED <<linkVars, rx, data_sender_buf, registered, socketVars, closed_after>>

(* The SOCKS5 reply could not be sent.                                     *)
ReplyFails ==
    /\ pc["client"] = "waiting" /\ Answer = "ConnectOk" /\ kind = "socks"
    /\ inbox' = [inbox EXCEPT !["client"] = <<>>]
    /\ Becomes("client", "closing")
    /\ UNCHANGED <<linkVars, rx, data_sender_buf, registered, tasks, socketVars, closed_after>>

(* CONN_ERR, 60 s without an answer, or the channel closed: an association *)
(* is dropped, a forwarded port leaves its session registered.             *)
GetsNoOk ==
    /\ pc["client"] = "waiting"
    /\ inbox' = [inbox EXCEPT !["client"] = <<>>]
    /\ Becomes("client", IF kind = "socks" THEN "dropping" ELSE "ended")
    /\ UNCHANGED <<linkVars, rx, data_sender_buf, registered, tasks, socketVars, closed_after>>

ServerConnects ==
    /\ Gets("server", {"Connect"}) /\ TakeEvent("server")
    /\ registered' = [registered EXCEPT !["server"] = TRUE]
    /\ Becomes("server", "binding")
    /\ UNCHANGED <<linkVars, data_sender_buf, tasks, inbox, socketVars, closed_after>>

Binds ==
    /\ pc["server"] = "binding"
    /\ Send("server", "ConnectOk", 0)
    /\ Becomes("server", "relay")
    /\ tasks' = [tasks EXCEPT !["server"] = {Reader, Writer}]
    /\ UNCHANGED <<linkVars, rx, registered, inbox, socketVars, closed_after>>

BindFails ==
    /\ pc["server"] = "binding"
    /\ Send("server", "ConnectErr", 0)
    /\ inbox' = [inbox EXCEPT !["server"] = <<>>]
    /\ Becomes("server", "dropping")
    /\ UNCHANGED <<linkVars, rx, registered, tasks, socketVars, closed_after>>

-----------------------------------------------------------------------------
(***************************************************************************)
(* The relays: relay_bidirectional_udp_client_side, relay_forwarded_udp    *)
(* and relay_bidirectional_udp_server_side.                                *)
(***************************************************************************)
(* The association keeps the application's port behind a mutex, which      *)
(* udp_to_rns holds until its datagram is in the frame channel.            *)
Locking(e) == e = "client" /\ kind = "socks"
PortFree(e) == Locking(e) => holding[e] # "sending"

(* The first task to end ends the relay; the others run on.                *)
TaskEnds(e, task) ==
    /\ tasks' = [tasks EXCEPT ![e] = @ \ {task}]
    /\ inbox' = IF task = Writer THEN [inbox EXCEPT ![e] = <<>>] ELSE inbox
    /\ pc' = IF pc[e] = "relay" THEN [pc EXCEPT ![e] = "closing"] ELSE pc
    /\ UNCHANGED <<linkVars, rx, data_sender_buf, registered, socketVars, closed_after>>

(* The server skips datagrams from addresses its filter excludes: reading  *)
(* such a one changes nothing.                                             *)
Reads(e) ==
    /\ Reader \in tasks[e] /\ holding[e] = "none"
    /\ read["client"] + read["server"] < Datagrams
    /\ read' = [read EXCEPT ![e] = @ + 1]
    /\ holding' = [holding EXCEPT ![e] = IF Locking(e) THEN "read" ELSE "sending"]
    /\ UNCHANGED <<linkVars, rx, data_sender_buf, registered, pc, tasks, inbox, port_known,
                   delivered, closed_after>>

LocksPort ==
    /\ holding["client"] = "read"
    /\ holding' = [holding EXCEPT !["client"] = "sending"]
    /\ port_known' = TRUE
    /\ UNCHANGED <<linkVars, rx, data_sender_buf, registered, pc, tasks, inbox, read,
                   delivered, closed_after>>

SendsData(e) ==
    /\ holding[e] = "sending"
    /\ Send(e, "Data", read[e])
    /\ holding' = [holding EXCEPT ![e] = "none"]
    /\ UNCHANGED <<linkVars, rx, registered, pc, tasks, inbox, port_known, read, delivered,
                   closed_after>>

(* An empty datagram or an error.                                          *)
ReadEnds(e) ==
    /\ Reader \in tasks[e] /\ holding[e] = "none"
    /\ TaskEnds(e, Reader)

(* The application closed the association's TCP connection.                *)
TcpEnds ==
    /\ TcpCheck \in tasks["client"]
    /\ TaskEnds("client", TcpCheck)

WriterGets(e, types) == Writer \in tasks[e] /\ inbox[e] # <<>> /\ Head(inbox[e]).type \in types

(* A datagram is delivered, unless the application's port is not yet known *)
(* or the server's filter refuses the target.                              *)
Writes(e) ==
    /\ WriterGets(e, {"Data"}) /\ PortFree(e)
    /\ inbox' = [inbox EXCEPT ![e] = Tail(@)]
    /\ \/ /\ Locking(e) => port_known
          /\ delivered' = [delivered EXCEPT ![e] = Append(@, Head(inbox[e]).n)]
       \/ /\ e = "server" \/ (Locking(e) /\ ~port_known)
          /\ UNCHANGED delivered
    /\ UNCHANGED <<linkVars, rx, data_sender_buf, registered, pc, tasks, port_known, holding,
                   read, closed_after>>

(* A send error, or a datagram whose SOCKS5 header cannot be parsed.       *)
WriteFails(e) ==
    /\ WriterGets(e, {"Data"}) /\ PortFree(e)
    /\ TaskEnds(e, Writer)

IgnoresClose(e) ==
    /\ WriterGets(e, {"Close"})
    /\ inbox' = [inbox EXCEPT ![e] = Tail(@)]
    /\ UNCHANGED <<linkVars, rx, data_sender_buf, registered, pc, tasks, socketVars,
                   closed_after>>

GetsClose(e) ==
    /\ WriterGets(e, {"Close"})
    /\ TaskEnds(e, Writer)

(* recv returned None: the session is no longer registered.                *)
ChannelCloses(e) ==
    /\ Writer \in tasks[e] /\ inbox[e] = <<>> /\ ~registered[e]
    /\ TaskEnds(e, Writer)

Queued(e) == IF holding[e] = "none" THEN read[e] ELSE read[e] - 1
Closes(e) ==
    /\ pc[e] = "closing"
    /\ Send(e, "Close", 0)
    /\ closed_after' = [closed_after EXCEPT ![e] = Queued(e)]
    /\ Becomes(e, "dropping")
    /\ UNCHANGED <<linkVars, rx, registered, tasks, inbox, socketVars>>

DropsSession(e) ==
    /\ pc[e] = "dropping"
    /\ registered' = [registered EXCEPT ![e] = FALSE]
    /\ Becomes(e, "ended")
    /\ UNCHANGED <<linkVars, rx, data_sender_buf, tasks, inbox, socketVars, closed_after>>

-----------------------------------------------------------------------------
EventLoop(e) == Dispatches(e) \/ LosesLink(e) \/ (e = "server" /\ ServerConnects)
ReaderSteps(e) == (e = "client" /\ LocksPort) \/ SendsData(e)
WriterSteps(e) == Writes(e) \/ GetsClose(e) \/ ChannelCloses(e)
OwnSteps(e) == Closes(e) \/ DropsSession(e)

Next ==
    \/ LinkGoesDown
    \/ Connect \/ GetsOk \/ ReplyFails \/ GetsNoOk \/ Binds \/ BindFails
    \/ TcpEnds
    \/ \E e \in Ends :
          \/ Sender(e) \/ EventLoop(e)
          \/ ReaderSteps(e) \/ WriterSteps(e) \/ OwnSteps(e)
          \/ Reads(e) \/ ReadEnds(e) \/ WriteFails(e)

Spec == Init /\ [][Next]_vars

-----------------------------------------------------------------------------
(* Type invariant of the session at both ends.                             *)
TypeOK ==
    /\ kind \in {"socks", "forwarded"}
    /\ link_up \in BOOLEAN
    /\ attached \in [Ends -> BOOLEAN]
    /\ close_lost \subseteq Ends
    /\ rx \in [Ends -> Seq(Frame)]
    /\ data_sender_buf \in [Ends -> Seq(Frame)]
    /\ \A e \in Ends : Len(data_sender_buf[e]) <= Capacity
    /\ registered \in [Ends -> BOOLEAN]
    /\ pc \in [Ends -> {"none", "accepted", "waiting", "binding", "relay", "closing",
                        "dropping", "ended"}]
    /\ tasks \in [Ends -> SUBSET {Reader, Writer, TcpCheck}]
    /\ inbox \in [Ends -> Seq(Frame)]
    /\ port_known \in BOOLEAN
    /\ holding \in [Ends -> {"none", "read", "sending"}]
    /\ read \in [Ends -> Nat] /\ closed_after \in [Ends -> Nat]
    /\ read["client"] + read["server"] <= Datagrams
    /\ \A e \in Ends : closed_after[e] <= Datagrams
    /\ delivered \in [Ends -> Seq(Nat)]

(* The relays keep the order of datagrams: some may be missing, none is    *)
(* repeated, reordered or made up.  This is said of frames that are lost   *)
(* whole: the rest of a longer one, misread, may come out as anything.     *)
DatagramsInOrder ==
    \A e \in Ends :
        /\ \A i \in 1..Len(delivered[e]) : delivered[e][i] <= read[Peer(e)]
        /\ \A i \in 1..(Len(delivered[e]) - 1) : delivered[e][i] < delivered[e][i + 1]

(* Although an ended relay's tasks run on and send, no datagram sent after *)
(* the CLOSE reaches a socket, whichever frames were lost, unless it was   *)
(* that CLOSE itself.                                                      *)
NothingAfterClose ==
    \A e \in Ends : Peer(e) \notin close_lost =>
        \A i \in 1..Len(delivered[e]) : delivered[e][i] <= closed_after[Peer(e)]

-----------------------------------------------------------------------------
(***************************************************************************)
(* What makes the invariants inductive.  A datagram goes from an end e to  *)
(* its peer p: data_sender_buf[e], rx[p], inbox[p], delivered[p].          *)
(***************************************************************************)
Has(q, type) == \E i \in 1..Len(q) : q[i].type = type

(* Relay tasks run once the session's task reached its relay, which at the *)
(* client is after the server began to serve the CONNECT.                  *)
Relaying(e) == pc[e] \in {"relay", "closing", "dropping", "ended"}
StartedInv ==
    /\ pc["client"] # "none"
    /\ \A e \in Ends : tasks[e] # {} => Relaying(e)
    /\ pc["server"] = "none" =>
          /\ tasks["client"] = {} /\ holding["client"] = "none"
          /\ pc["client"] \notin {"relay", "closing"}
          /\ \A q \in {data_sender_buf["server"], rx["client"], inbox["client"]} : ~Has(q, "ConnectOk")
          /\ \A q \in {data_sender_buf["client"], rx["server"]} : \A i \in 1..Len(q) :
                q[i].type \in {"Connect", "LinkClosed"}

(* There is one CONNECT, and it is served once.                            *)
OneConnect(q) == \A i, j \in 1..Len(q) : q[i].type = "Connect" /\ q[j].type = "Connect" => i = j
ConnectInv ==
    /\ OneConnect(data_sender_buf["client"]) /\ OneConnect(rx["server"])
    /\ ~(Has(data_sender_buf["client"], "Connect") /\ Has(rx["server"], "Connect"))
    /\ pc["client"] = "accepted" \/ pc["server"] # "none" =>
          ~Has(data_sender_buf["client"], "Connect") /\ ~Has(rx["server"], "Connect")
    /\ pc["client"] = "accepted" => pc["server"] = "none"

(* Datagrams increase all the way: there are bounds a, b, c between those  *)
(* of one queue and those of the next.                                     *)
Rising(q, low, high) ==
    \A i \in 1..Len(q) : q[i].type = "Data" =>
        /\ low < q[i].n /\ q[i].n <= high
        /\ \A j \in 1..Len(q) : j < i /\ q[j].type = "Data" => q[j].n < q[i].n
Delivered(d, high) ==
    /\ \A i \in 1..Len(d) : d[i] <= high
    /\ \A i, j \in 1..Len(d) : j < i => d[j] < d[i]
Ordered(d, in, way, out, queued) ==
    \E a, b, c \in 0..queued :
        /\ a <= b /\ b <= c
        /\ Delivered(d, a) /\ Rising(in, a, b) /\ Rising(way, b, c) /\ Rising(out, c, queued)
OrderInv ==
    \A e \in Ends :
        /\ holding[e] # "none" => read[e] > 0
        /\ Ordered(delivered[Peer(e)], inbox[Peer(e)], rx[Peer(e)], data_sender_buf[e], Queued(e))

(* A datagram sent after the CLOSE is behind it, or cannot get any further *)
(* since the peer takes no more frames or the link carries none of e's;    *)
(* unless RNS lost the CLOSE.                                              *)
Behind(q, after) ==
    \A i \in 1..Len(q) : q[i].type = "Data" /\ q[i].n > after =>
        \E j \in 1..Len(q) : j < i /\ q[j].type = "Close"
Shut(p) == pc[p] # "none" /\ ~(registered[p] /\ Receiving(p))
Stopped(d, in, way, out, after, max, shut, carries) ==
    /\ \A i \in 1..Len(d) : d[i] <= after
    /\ Behind(in, after)
    /\ Has(in, "Close") \/ shut \/ Behind(way, after)
    /\ Has(in, "Close") \/ shut \/ Has(way, "Close") \/ ~carries \/ Behind(out, after)
    /\ after < max => Has(in, "Close") \/ shut \/ Has(way, "Close") \/ ~carries \/ Has(out, "Close")
CloseInv ==
    \A e \in Ends \ close_lost :
        Stopped(delivered[Peer(e)], inbox[Peer(e)], rx[Peer(e)], data_sender_buf[e],
                closed_after[e], Datagrams, Shut(Peer(e)), Carries(e))

IInv == TypeOK /\ StartedInv /\ ConnectInv /\ OrderInv /\ CloseInv

=============================================================================
