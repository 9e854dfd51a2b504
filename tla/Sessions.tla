------------------------------ MODULE Sessions ------------------------------
(***************************************************************************)
(* Session ids: the connections of `rns-proxy connect`, accepted by one    *)
(* loop per forwarded port and protocol, over the links of one client.     *)
(*                                                                         *)
(* All accept loops share the mux's counter and session table.  Tables go  *)
(* by id, so what is modelled here is who an id stands for, at both ends,  *)
(* while ids wrap, frames outlive links and answers outlive timeouts.      *)
(* A frame records the connection it is about: no code reads that field.   *)
(*                                                                         *)
(* Data is left out: it goes where answers and CLOSE go, as Tunnel shows.  *)
(* RNS is external, as in Tunnel.                                          *)
(***************************************************************************)
EXTENDS ConnectPayload, FiniteSets

CONSTANTS
    Options,    \* command lines of `connect`: the <<server port, client port>> of
                \*   each of -t, -u and -b
    MaxLinks,   \* bound: links that come up
    MaxWork,    \* bound: tunnels and connections, together
    MaxOpen,    \* bound: connections of the client at a time
    SidSpan,    \* how many session ids there are, 2^32 in the code
    Capacity    \* capacity of a mux's frame channel, 5 in the code

ASSUME SessionsAssumption ==
    /\ Options \subseteq [t : SUBSET (U16 \X U16), u : SUBSET (U16 \X U16),
                          b : SUBSET (U16 \X U16)]
    /\ MaxLinks \in Nat \ {0}
    /\ MaxWork \in Nat \ {0}
    /\ MaxOpen \in Nat \ {0}
    /\ SidSpan \in Nat \ {0}
    /\ Capacity \in Nat \ {0}

None == 0
Conns == 1..(MaxWork - 1)
Links == 1..MaxLinks
Sids == 0..(SidSpan - 1)

(* connect_vec_merging_connect, and the tunnels run_client_forward starts  *)
(* for each port: TcpUdp starts one of each kind.                          *)
ForwardedPorts(o) ==
    [port : o.t, type : {"Tcp"}] \cup [port : o.u, type : {"Udp"}]
        \cup [port : o.b, type : {"TcpUdp"}]
Tunnel(p, udp) == [udp |-> udp, server_port |-> p.port[1], client_port |-> p.port[2]]
TunnelsOf(o) ==
    {Tunnel(p, FALSE) : p \in {q \in ForwardedPorts(o) : q.type \in {"Tcp", "TcpUdp"}}} \cup
    {Tunnel(p, TRUE) : p \in {q \in ForwardedPorts(o) : q.type \in {"Udp", "TcpUdp"}}}
AllTunnels == UNION {TunnelsOf(o) : o \in Options}

(* What a tunnel asks the server for: its port on the server's localhost.  *)
(* The bytes of the address are not told apart, so one stands for them.    *)
Localhost == <<1>>
Payload(t) == encode_connect_payload(Localhost, t.server_port, t.udp)

VARIABLES
    options,          \* the command line
    latest,           \* the newest link
    live,             \* is it up
    dispatching,      \* does the client dispatch for it, or wait for the next
    link_id,          \* the client mux's link_id
    next_sid,         \* the client mux's next_sid
    sessions,         \* the client mux's sessions: per id, whose channel it is
    data_sender_buf,  \* the client mux's channel of frames to send
    rx,               \* the frames RNS has for the client
    accepted,         \* how many ids were handed out
    loop,             \* per tunnel, where its accept loop is
    sid,              \* per connection, its id
    via,              \* per connection, the tunnel that accepted it
    pc,               \* per connection, where the client's task is
    inbox,            \* per connection, session_rx
    result,           \* per connection, connect_result
    server_rx,        \* the frames RNS has for the server, of all links
    server_sessions,  \* per link, per id, whose channel it is
    server_pc,        \* per connection, where the server's task is
    server_link,      \* per connection, the link its CONNECT came on
    server_inbox,     \* per connection, the server's session_rx
    target,           \* per connection, what the server read in its CONNECT
    socket            \* per connection, what the server's socket is connected to, or was

linkVars == <<latest, live, dispatching>>
sendVars == <<link_id, data_sender_buf>>
tableVars == <<sessions, next_sid>>
acceptVars == <<accepted, loop, sid, via>>
connVars == <<pc, inbox, result>>
taskVars == <<server_pc, server_link, server_inbox, target, socket>>
clientVars == <<linkVars, sendVars, tableVars, acceptVars, connVars>>
serverVars == <<server_sessions, taskVars>>
vars == <<options, clientVars, rx, server_rx, serverVars>>

FrameTypes == {"Connect", "ConnectOk", "ConnectErr", "Close"}
Frame(type, c) == [type |-> type, sid |-> sid[c], conn |-> c,
                   payload |-> IF type = "Connect" THEN Payload(via[c]) ELSE <<>>]
NoTunnel == [udp |-> FALSE, server_port |-> 0, client_port |-> 0]

Init ==
    /\ options \in Options
    /\ latest = 0 /\ live = FALSE /\ dispatching = FALSE
    /\ link_id = None /\ next_sid = 0
    /\ sessions = [i \in Sids |-> None]
    /\ data_sender_buf = <<>>
    /\ rx = <<>> /\ server_rx = <<>>
    /\ accepted = 0
    /\ loop = [t \in AllTunnels |-> "listening"]
    /\ sid = [c \in Conns |-> 0]
    /\ via = [c \in Conns |-> NoTunnel]
    /\ pc = [c \in Conns |-> "none"]
    /\ inbox = [c \in Conns |-> <<>>]
    /\ result = [c \in Conns |-> "none"]
    /\ server_sessions = [l \in Links |-> [i \in Sids |-> None]]
    /\ server_pc = [c \in Conns |-> "none"]
    /\ server_link = [c \in Conns |-> None]
    /\ server_inbox = [c \in Conns |-> <<>>]
    /\ target = [c \in Conns |-> Invalid]
    /\ socket = [c \in Conns |-> Invalid]

-----------------------------------------------------------------------------
(* RNS: links come up one after the other; when one goes down, what was    *)
(* under way to the client is lost from some point on, and the client      *)
(* hears of the close last.  The server may be far behind with its events. *)
LinkComesUp ==
    /\ ~dispatching /\ latest < MaxLinks
    /\ latest' = latest + 1
    /\ live' = TRUE
    /\ dispatching' = TRUE
    /\ link_id' = latest + 1
    /\ UNCHANGED <<data_sender_buf, tableVars, acceptVars, connVars, rx, server_rx, serverVars>>

LinkGoesDown ==
    /\ live
    /\ live' = FALSE
    /\ \E k \in 0..Len(rx) : rx' = SubSeq(rx, 1, k)
    /\ UNCHANGED <<latest, dispatching, sendVars, tableVars, acceptVars, connVars, server_rx,
                   serverVars>>

(* reset clears link_id and the table; it keeps next_sid and the channel.  *)
LosesLink ==
    /\ dispatching /\ ~live /\ rx = <<>>
    /\ dispatching' = FALSE
    /\ link_id' = None
    /\ sessions' = [i \in Sids |-> None]

ResetsIds ==
    /\ LosesLink
    /\ next_sid' = 0
    /\ UNCHANGED <<latest, live, data_sender_buf, acceptVars, connVars, rx, server_rx, serverVars>>

Resets ==
    /\ LosesLink
    /\ UNCHANGED <<latest, live, data_sender_buf, next_sid, acceptVars, connVars, rx, server_rx,
                   serverVars>>

Registered(c) == sessions[sid[c]] = c
Receiving(c) == pc[c] \in {"accepted", "waiting", "relay"}

Dispatches ==
    /\ dispatching /\ rx # <<>>
    /\ rx' = Tail(rx)
    /\ LET to == sessions[Head(rx).sid]
       IN  inbox' = IF to # None /\ Receiving(to)
                    THEN [inbox EXCEPT ![to] = Append(@, Head(rx))]
                    ELSE inbox
    /\ UNCHANGED <<linkVars, sendVars, tableVars, acceptVars, pc, result, server_rx, serverVars>>

-----------------------------------------------------------------------------
(* The client's frame channel and sender task.  A send may fail for any    *)
(* reason, the loss of an earlier link among them, and clears link_id; on  *)
(* a lossy path (README.md:7) what was sent may be lost unnoticed.         *)
Send(type, c) ==
    /\ Len(data_sender_buf) < Capacity
    /\ data_sender_buf' = Append(data_sender_buf, Frame(type, c))

Sender ==
    /\ data_sender_buf # <<>>
    /\ data_sender_buf' = Tail(data_sender_buf)
    /\ \/ /\ link_id # None /\ live
          /\ \/ server_rx' = Append(server_rx, [link |-> latest, frame |-> Head(data_sender_buf)])
             \/ UNCHANGED server_rx
          /\ UNCHANGED link_id
       \/ /\ link_id' = None
          /\ UNCHANGED server_rx
    /\ UNCHANGED <<linkVars, tableVars, acceptVars, connVars, rx, serverVars>>

-----------------------------------------------------------------------------
(* The accept loops of tcp_tunnel and udp_tunnel: is_connected, then       *)
(* next_session_id, then register_session, each awaited for itself.        *)
Tunnels == TunnelsOf(options)
Checked == {t \in Tunnels : loop[t] = "connected"}
Open == {c \in 1..accepted : pc[c] # "ended"}

Accepts(t) ==
    /\ loop[t] = "listening"
    /\ Cardinality(Tunnels) + accepted + Cardinality(Checked) < MaxWork
    /\ Cardinality(Open) + Cardinality(Checked) < MaxOpen
    /\ link_id # None
    /\ loop' = [loop EXCEPT ![t] = "connected"]
    /\ UNCHANGED <<linkVars, sendVars, tableVars, accepted, sid, via, connVars, rx, server_rx,
                   serverVars>>

WithoutWrap == next_sid + 1
next_session_id == (next_sid + 1) % SidSpan

TakesId(t) ==
    /\ loop[t] = "connected"
    /\ accepted' = accepted + 1
    /\ next_sid' = next_session_id
    /\ sid' = [sid EXCEPT ![accepted'] = next_session_id]
    /\ via' = [via EXCEPT ![accepted'] = t]
    /\ loop' = [loop EXCEPT ![t] = "registering"]
    /\ UNCHANGED <<linkVars, sendVars, sessions, connVars, rx, server_rx, serverVars>>

Becomes(c, p) == pc' = [pc EXCEPT ![c] = p]

Registers(c) ==
    /\ c <= accepted /\ pc[c] = "none"
    /\ loop' = [loop EXCEPT ![via[c]] = "listening"]
    /\ sessions' = [sessions EXCEPT ![sid[c]] = c]
    /\ Becomes(c, "accepted")
    /\ UNCHANGED <<linkVars, sendVars, next_sid, accepted, sid, via, inbox, result, rx, server_rx,
                   serverVars>>

-----------------------------------------------------------------------------
(* A connection's task at the client: CONNECT, its answer, the relay.      *)
Connects(c) ==
    /\ pc[c] = "accepted"
    /\ Send("Connect", c)
    /\ Becomes(c, "waiting")
    /\ UNCHANGED <<linkVars, link_id, tableVars, acceptVars, inbox, result, rx, server_rx,
                   serverVars>>

(* recv; what is no answer is skipped by `_ => continue`.                  *)
Receives(c) ==
    /\ pc[c] = "waiting" /\ inbox[c] # <<>>
    /\ inbox' = [inbox EXCEPT ![c] = Tail(@)]
    /\ IF Head(inbox[c]).type = "ConnectOk"
       THEN Becomes(c, "relay") /\ result' = [result EXCEPT ![c] = "Ok"]
       ELSE Head(inbox[c]).type = "Close" /\ UNCHANGED <<pc, result>>
    /\ UNCHANGED <<linkVars, sendVars, tableVars, acceptVars, rx, server_rx, serverVars>>

(* CONN_ERR, 60 s without an answer, or the channel closed: the task ends, *)
(* and its id stays in the table until the next reset.                     *)
Fails(c) ==
    /\ pc[c] = "waiting"
    /\ inbox' = [inbox EXCEPT ![c] = <<>>]
    /\ result' = [result EXCEPT ![c] = "Err"]
    /\ Becomes(c, "ended")
    /\ UNCHANGED <<linkVars, sendVars, tableVars, acceptVars, rx, server_rx, serverVars>>

(* The relay ends when the application or a socket ends it, with the CLOSE *)
(* of the peer, or with the closing of its channel.                        *)
Closes(c) ==
    /\ pc[c] = "relay"
    /\ Send("Close", c)
    /\ inbox' = [inbox EXCEPT ![c] = <<>>]
    /\ Becomes(c, "dropping")
    /\ UNCHANGED <<linkVars, link_id, tableVars, acceptVars, result, rx, server_rx, serverVars>>

DropsNothing(c) ==
    /\ pc[c] = "dropping"
    /\ Becomes(c, "ended")
    /\ UNCHANGED <<linkVars, sendVars, tableVars, acceptVars, inbox, result, rx, server_rx,
                   serverVars>>

(* drop_session removes whatever the id stands for by now.                 *)
Drops(c) ==
    /\ pc[c] = "dropping"
    /\ sessions' = [sessions EXCEPT ![sid[c]] = None]
    /\ Becomes(c, "ended")
    /\ UNCHANGED <<linkVars, sendVars, next_sid, acceptVars, inbox, result, rx, server_rx,
                   serverVars>>

-----------------------------------------------------------------------------
(* The server: one event loop for all links, a table per link.             *)
Event == Head(server_rx).frame
From == Head(server_rx).link
TakesEvent == server_rx # <<>> /\ server_rx' = Tail(server_rx)

ServerConnects ==
    /\ TakesEvent
    /\ Event.type = "Connect" /\ decode_connect_payload(Event.payload).valid
    /\ server_sessions' = [server_sessions EXCEPT ![From][Event.sid] = Event.conn]
    /\ server_pc' = [server_pc EXCEPT ![Event.conn] = "dialing"]
    /\ server_link' = [server_link EXCEPT ![Event.conn] = From]
    /\ target' = [target EXCEPT ![Event.conn] = decode_connect_payload(Event.payload)]
    /\ UNCHANGED <<clientVars, rx, server_inbox, socket>>

ServerDispatches ==
    /\ TakesEvent
    /\ Event.type = "Close"
    /\ LET to == server_sessions[From][Event.sid]
       IN  server_inbox' = IF to # None /\ server_pc[to] \in {"dialing", "relay"}
                           THEN [server_inbox EXCEPT ![to] = Append(@, Event)]
                           ELSE server_inbox
    /\ UNCHANGED <<clientVars, rx, server_sessions, server_pc, server_link, target, socket>>

(* A connection's task at the server.  The channel of its mux, whose link  *)
(* never changes, only delays what rx delays; on a dead link a frame is    *)
(* lost, on a live one it may be.                                          *)
Answers(type, c) ==
    \/ live /\ latest = server_link[c] /\ rx' = Append(rx, Frame(type, c))
    \/ UNCHANGED rx

(* The socket is there and CONN_OK sent.                                   *)
Serves(c, s) ==
    /\ Answers("ConnectOk", c)
    /\ server_pc' = [server_pc EXCEPT ![c] = "relay"]
    /\ socket' = [socket EXCEPT ![c] = s]
    /\ UNCHANGED <<clientVars, server_rx, server_sessions, server_link, server_inbox, target>>

DialSucceeds(c) ==
    /\ server_pc[c] = "dialing" /\ ~target[c].udp
    /\ Serves(c, target[c])

(* For UDP the target is not looked at: a socket is bound to 0.0.0.0:0,    *)
(* connected to nothing, and every datagram brings its own address.        *)
Unconnected == Parsed(<<>>, 0, TRUE)
Binds(c) ==
    /\ server_pc[c] = "dialing" /\ target[c].udp
    /\ Serves(c, Unconnected)

(* The end of a session at the server: its last frame, then drop_session.  *)
Leaves(c, last, end) ==
    /\ Answers(last, c)
    /\ server_pc' = [server_pc EXCEPT ![c] = end]
    /\ server_sessions' = [server_sessions EXCEPT ![server_link[c]][sid[c]] = None]
    /\ server_inbox' = [server_inbox EXCEPT ![c] = <<>>]
    /\ UNCHANGED <<clientVars, server_rx, server_link, target, socket>>

(* Refused by the filter or not connected, or, for UDP, not bound.         *)
DialFails(c) == server_pc[c] = "dialing" /\ Leaves(c, "ConnectErr", "refused")
ServerCloses(c) == server_pc[c] = "relay" /\ Leaves(c, "Close", "ended")

-----------------------------------------------------------------------------
ClientTask(c) ==
    Registers(c) \/ Connects(c) \/ Receives(c) \/ Fails(c) \/ Closes(c) \/ Drops(c)
ServerTask(c) == DialSucceeds(c) \/ Binds(c) \/ DialFails(c) \/ ServerCloses(c)

Step ==
    \/ LinkComesUp \/ LinkGoesDown \/ Resets \/ Dispatches \/ Sender
    \/ \E t \in Tunnels : Accepts(t) \/ TakesId(t)
    \/ \E c \in Conns : ClientTask(c) \/ ServerTask(c)
    \/ ServerConnects \/ ServerDispatches

Next == Step /\ UNCHANGED options

Spec == Init /\ [][Next]_vars

-----------------------------------------------------------------------------
(* Type invariant of the tables, the accept loops and the tasks.           *)
TypeOK ==
    /\ options \in Options
    /\ latest \in 0..MaxLinks /\ live \in BOOLEAN /\ dispatching \in BOOLEAN
    /\ link_id \in {None, latest}
    /\ next_sid \in Sids
    /\ sessions \in [Sids -> {None} \cup Conns]
    /\ Len(data_sender_buf) <= Capacity
    /\ accepted \in {0} \cup Conns
    /\ loop \in [AllTunnels -> {"listening", "connected", "registering"}]
    /\ sid \in [Conns -> Sids]
    /\ via \in [Conns -> AllTunnels \cup {NoTunnel}]
    /\ pc \in [Conns -> {"none", "accepted", "waiting", "relay", "dropping", "ended"}]
    /\ result \in [Conns -> {"none", "Ok", "Err"}]
    /\ server_sessions \in [Links -> [Sids -> {None} \cup Conns]]
    /\ server_pc \in [Conns -> {"none", "dialing", "relay", "refused", "ended"}]
    /\ server_link \in [Conns -> {None} \cup Links]

(* Ids wrap; connections that got theirs a whole round apart share it.     *)
Namesakes(c) == {d \in Conns : d % SidSpan = c % SidSpan}

(* What a connection or its server session receives is about itself or a   *)
(* namesake, though frames and answers outlive timeouts, resets and links: *)
(* the reset of the table must not begin the ids again.                    *)
OwnFrames ==
    \A c \in Conns : \A q \in {inbox[c], server_inbox[c]} : \A i \in DOMAIN q :
        q[i].conn \in Namesakes(c)

(* What stays in the client's table once its connection has ended is a     *)
(* failed CONNECT; a connection that relayed leaves nothing behind.        *)
LeaksOnlyFailures ==
    \A c \in Conns : Registered(c) /\ pc[c] = "ended" => result[c] = "Err"

(* A connection that waits or relays loses its place in the table only to  *)
(* a reset or to a namesake, not to the end of another connection that     *)
(* was accepted on an earlier link.                                        *)
LosesPlace(c) == Registered(c) /\ pc[c] \in {"waiting", "relay"} /\ ~Registered(c)'
EntriesAreKept ==
    [][\A c \in Conns : LosesPlace(c) =>
          \/ dispatching /\ ~dispatching'
          \/ \E d \in Namesakes(c) \ {c} : pc'[d] # pc[d]]_vars

(* A TCP connection that is told CONN_OK has the server connected to what  *)
(* it asked for, the server port of the tunnel that accepted it on the     *)
(* server's own host, and a UDP one has a socket there that is connected   *)
(* to nothing; the server connects to nothing that was not asked for.      *)
Wanted(t) == Parsed(Localhost, t.server_port, t.udp)
Targets == {Wanted(t) : t \in AllTunnels}
TcpTargets == {t \in Targets : ~t.udp}
UdpTargets == {t \in Targets : t.udp}
CS == INSTANCE ConnectService WITH
        wanted <- [c \in Conns |-> IF pc[c] \in {"none", "accepted"} THEN Invalid
                                                                     ELSE Wanted(via[c])],
        reached <- socket
ImplementsConnectService == CS!Spec

-----------------------------------------------------------------------------
(***************************************************************************)
(* What makes the invariants inductive.                                    *)
(***************************************************************************)
Frames == [type : FrameTypes, sid : Sids, conn : Conns,
           payload : {<<>>} \cup {Payload(t) : t \in AllTunnels}]
QueuesOK ==
    /\ data_sender_buf \in Seq(Frames) /\ rx \in Seq(Frames)
    /\ server_rx \in Seq([link : Links, frame : Frames])
    /\ inbox \in [Conns -> Seq(Frames)] /\ server_inbox \in [Conns -> Seq(Frames)]
    /\ target \in [Conns -> Targets \cup {Invalid}]
    /\ socket \in [Conns -> Targets \cup {Unconnected, Invalid}]

(* An accept loop that passed is_connected will find an id for it.         *)
BoundInv == Checked # {} => Cardinality(Tunnels) + accepted + Cardinality(Checked) <= MaxWork

(* The id of a connection is its number, wrapped; a table that has it      *)
(* under an id has it under its own.                                       *)
IdOf(c) == c % SidSpan
IdsInv ==
    /\ next_sid = IdOf(accepted)
    /\ \A c \in Conns : c <= accepted => sid[c] = IdOf(c) /\ via[c] \in AllTunnels
    /\ \A c \in Conns : pc[c] # "none" => c <= accepted
    /\ \A i \in Sids : sessions[i] # None => IdOf(sessions[i]) = i
    /\ \A l \in Links, i \in Sids :
          server_sessions[l][i] # None => IdOf(server_sessions[l][i]) = i

(* Every frame has the id and the payload of the connection it is about.   *)
(* Once a connection asked, the server may have a task for it.             *)
HasAsked(c) == pc[c] \notin {"none", "accepted"}
Genuine(f) ==
    /\ f.conn <= accepted /\ HasAsked(f.conn)
    /\ f.sid = IdOf(f.conn)
    /\ f.type = "Connect" => f.payload = Payload(via[f.conn])
FramesInv ==
    /\ \A i \in 1..Len(data_sender_buf) : Genuine(data_sender_buf[i])
    /\ \A i \in 1..Len(rx) : Genuine(rx[i])
    /\ \A i \in 1..Len(server_rx) : Genuine(server_rx[i].frame)
    /\ \A c \in Conns : \A i \in 1..Len(inbox[c]) : inbox[c][i].sid = IdOf(c) /\ Genuine(inbox[c][i])
    /\ \A c \in Conns : \A i \in 1..Len(server_inbox[c]) :
          server_inbox[c][i].sid = IdOf(c) /\ Genuine(server_inbox[c][i])

(* A connection's CONNECT is sent once, and until the server has it there  *)
(* is no task for it.                                                      *)
Asks(f) == f.type = "Connect"
AskInv ==
    /\ \A i \in 1..Len(data_sender_buf) : Asks(data_sender_buf[i]) =>
          /\ server_pc[data_sender_buf[i].conn] = "none"
          /\ \A j \in 1..Len(data_sender_buf) :
                Asks(data_sender_buf[j]) /\ data_sender_buf[j].conn = data_sender_buf[i].conn => j = i
          /\ \A j \in 1..Len(server_rx) :
                Asks(server_rx[j].frame) => server_rx[j].frame.conn # data_sender_buf[i].conn
    /\ \A i \in 1..Len(server_rx) : Asks(server_rx[i].frame) =>
          /\ server_pc[server_rx[i].frame.conn] = "none"
          /\ \A j \in 1..Len(server_rx) :
                Asks(server_rx[j].frame) /\ server_rx[j].frame.conn = server_rx[i].frame.conn => j = i
    /\ \A c \in Conns : server_pc[c] # "none" =>
          HasAsked(c) /\ server_link[c] \in Links /\ target[c] = Wanted(via[c])

(* A session that is served has what its protocol gets, and no other has.  *)
Serving(c) == server_pc[c] \in {"relay", "ended"}
SocketInv ==
    \A c \in Conns :
        /\ Serving(c) => socket[c] = IF target[c].udp THEN Unconnected ELSE target[c]
        /\ ~Serving(c) => socket[c] = Invalid

(* CONN_OK comes from a server task that serves.                           *)
Reached(f) == f.type = "ConnectOk" => Serving(f.conn)
AnswerInv ==
    /\ \A i \in 1..Len(rx) : Reached(rx[i])
    /\ \A c \in Conns : \A i \in 1..Len(inbox[c]) : Reached(inbox[c][i])
    /\ \A c \in Conns : pc[c] \in {"none", "accepted", "waiting"} => result[c] = "none"

IInv ==
    /\ TypeOK /\ QueuesOK /\ BoundInv /\ IdsInv /\ FramesInv /\ AskInv /\ SocketInv /\ AnswerInv
    /\ LeaksOnlyFailures

=============================================================================
