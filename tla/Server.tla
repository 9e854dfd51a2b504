------------------------------- MODULE Server -------------------------------
(***************************************************************************)
(* The server process: its start with the identity file, crashes and       *)
(* restarts, the one event loop for all links, and the sessions of several *)
(* clients up to their relays.                                             *)
(*                                                                         *)
(* Clients number their sessions alike, so a session is a link and an id.  *)
(* A client sends one CONNECT per id, DATA once it was answered, and one   *)
(* CLOSE; older clients send payloads that do not parse.  The frames of    *)
(* one packet are handled one by one before the next event, so each is an  *)
(* event here.  What the relays send is in Tunnel and UdpRelay.            *)
(*                                                                         *)
(* What a client sends is here once it arrives at the server, and told is  *)
(* what send_on_link accepted for it: a packet that RNS loses on the way   *)
(* to the server was not sent, one to the client does not change the       *)
(* server.                                                                 *)
(***************************************************************************)
EXTENDS Integers, Sequences, FiniteSets

LOCAL INSTANCE Functions

CONSTANTS
    MaxLinks,     \* bound: links that come up
    MaxConnects,  \* bound: CONNECTs, of all links
    MaxData,      \* bound: DATA frames, of all sessions
    Capacity,     \* capacity of a mux's frame channel, 5 in the code
    Addresses,    \* what names resolve to
    Allowed       \* those allowed_ip allows

ASSUME ServerAssumption ==
    /\ MaxLinks \in Nat
    /\ MaxConnects \in Nat
    /\ MaxData \in Nat
    /\ Capacity \in Nat \ {0}
    /\ Allowed \subseteq Addresses

Absent == 0
Partial == -1
Identities == Nat \ {Absent}
Links == 1..MaxLinks
Sids == 1..MaxConnects
Sessions == Links \X Sids
Kinds == {"tcp", "udp", "invalid"}

VARIABLES
    identity_file,    \* Absent, Partial or the identity it holds
    phase,            \* of run_server: "down", "saving", "writing", "ready", "serving"
    identity,         \* the identity in memory
    shown,            \* the addresses the server has shown
    links,            \* how many links came up
    up,               \* those that are up
    rx,               \* the events RNS has for the server
    link_muxes,       \* the links the server has a mux for
    attached,         \* the links whose mux has a link_id
    sessions,         \* the registered sessions
    data_sender_buf,  \* per link, the channel of frames to send
    pc,               \* per session, where its task is
    inbox,            \* per session, session_rx
    addr,             \* per session, what its target resolved to
    contacted,        \* per session, the addresses it reached for
    received,         \* per session, the DATA its relay took
    asked,            \* per session, the kind of its CONNECT
    sent,             \* per session, how many DATA its client sent
    closed,           \* the sessions whose client sent CLOSE
    told              \* per session, the answer that was sent on its link

startVars == <<identity_file, phase, identity, shown>>
linkVars == <<links, up>>
muxVars == <<link_muxes, attached, sessions, data_sender_buf>>
taskVars == <<pc, inbox, addr, contacted, received>>
clientVars == <<asked, sent, closed, told>>
vars == <<startVars, linkVars, rx, muxVars, taskVars, clientVars>>

Each(v) == [s \in Sessions |-> v]
Init ==
    /\ identity_file = Absent /\ phase = "down" /\ identity = Absent
    /\ shown = {}
    /\ links = 0 /\ up = {} /\ rx = <<>>
    /\ link_muxes = {} /\ attached = {} /\ sessions = {}
    /\ data_sender_buf = [l \in Links |-> <<>>]
    /\ pc = Each("none") /\ inbox = Each(<<>>) /\ addr = Each({})
    /\ contacted = Each({}) /\ received = Each(<<>>)
    /\ asked = Each("none") /\ sent = Each(0) /\ closed = {} /\ told = Each("none")

-----------------------------------------------------------------------------
(* run_server until its event loop.  The file is written by the library in *)
(* a way that may leave part of it; such a file does not load, and every   *)
(* later start panics.                                                     *)
Phase(p) == phase' = p
RestUnchanged == UNCHANGED <<linkVars, rx, muxVars, taskVars, clientVars>>

LoadsIdentity ==
    /\ phase = "down"
    /\ identity_file \in Identities
    /\ identity' = identity_file
    /\ shown' = shown \cup {identity_file}
    /\ Phase("ready")
    /\ UNCHANGED identity_file /\ RestUnchanged

(* A new identity; those that were never shown are not told apart.         *)
GeneratesIdentity ==
    /\ phase = "down"
    /\ identity_file = Absent
    /\ identity' = 1 + Cardinality(shown)
    /\ Phase("saving")
    /\ UNCHANGED <<identity_file, shown>> /\ RestUnchanged

SaveBegins ==
    /\ phase = "saving"
    /\ identity_file' = Partial
    /\ Phase("writing")
    /\ UNCHANGED <<identity, shown>> /\ RestUnchanged

SaveEnds ==
    /\ phase = "writing"
    /\ identity_file' = identity
    /\ shown' = shown \cup {identity}
    /\ Phase("ready")
    /\ UNCHANGED identity /\ RestUnchanged

SaveFailureIgnored ==
    /\ phase \in {"saving", "writing"}
    /\ shown' = shown \cup {identity}
    /\ Phase("ready")
    /\ UNCHANGED <<identity_file, identity>> /\ RestUnchanged

(* No directory, or no file: a panic before the address is shown.          *)
SaveFails ==
    /\ phase \in {"saving", "writing"}
    /\ Phase("down")
    /\ UNCHANGED <<identity_file, identity, shown>> /\ RestUnchanged

(* create_node and register_link_destination succeed, or run_server        *)
(* returns.  A failed announce is a warning and changes nothing here.      *)
Serves ==
    /\ phase = "ready"
    /\ Phase("serving") \/ Phase("down")
    /\ UNCHANGED <<identity_file, identity, shown>> /\ RestUnchanged

(* The process dies: links and sessions with it, the file stays.  Clients  *)
(* link anew and count their sessions anew on links numbered anew.         *)
Crashes ==
    /\ phase # "down"
    /\ Phase("down")
    /\ identity' = Absent
    /\ links' = 0 /\ up' = {} /\ rx' = <<>>
    /\ link_muxes' = {} /\ attached' = {} /\ sessions' = {}
    /\ data_sender_buf' = [l \in Links |-> <<>>]
    /\ pc' = Each("none") /\ inbox' = Each(<<>>) /\ addr' = Each({})
    /\ contacted' = Each({}) /\ received' = Each(<<>>)
    /\ asked' = Each("none") /\ sent' = Each(0) /\ closed' = {} /\ told' = Each("none")
    /\ UNCHANGED <<identity_file, shown>>

-----------------------------------------------------------------------------
(* RNS and the clients.                                                    *)
Link(s) == s[1]
Event(l, type, s) == [link |-> l, type |-> type, session |-> s, n |-> 0]
Comes(e) == rx' = Append(rx, e)
NoSession == <<0, 0>>

LinkComesUp ==
    /\ phase = "serving" /\ links < MaxLinks
    /\ links' = links + 1
    /\ up' = up \cup {links + 1}
    /\ Comes(Event(links + 1, "LinkEstablished", NoSession))
    /\ UNCHANGED <<startVars, muxVars, taskVars, clientVars>>

LinkGoesDown(l) ==
    /\ l \in up
    /\ up' = up \ {l}
    /\ Comes(Event(l, "LinkClosed", NoSession))
    /\ UNCHANGED <<startVars, links, muxVars, taskVars, clientVars>>

AllAsked == {s \in Sessions : asked[s] # "none"}
NextSession(l) == <<l, 1 + Cardinality({s \in AllAsked : Link(s) = l})>>

ClientConnects(l, kind) ==
    /\ l \in up /\ Cardinality(AllAsked) < MaxConnects
    /\ LET s == NextSession(l)
       IN  /\ asked' = [asked EXCEPT ![s] = kind]
           /\ Comes(Event(l, "Connect", s))
    /\ UNCHANGED <<startVars, linkVars, muxVars, taskVars, sent, closed, told>>

AllSent == FoldFunction(+, 0, sent)
Talks(s) == Link(s) \in up /\ told[s] = "ConnectOk"

(* The client's relay reads a socket; its reading task may still send once *)
(* the CLOSE is out, detached (UDP) or until it is aborted (TCP).          *)
ClientSends(s) ==
    /\ Talks(s) /\ AllSent < MaxData
    /\ sent' = [sent EXCEPT ![s] = @ + 1]
    /\ Comes([Event(Link(s), "Data", s) EXCEPT !.n = sent[s] + 1])
    /\ UNCHANGED <<startVars, linkVars, muxVars, taskVars, asked, closed, told>>

ClientCloses(s) ==
    /\ Talks(s) /\ s \notin closed
    /\ closed' = closed \cup {s}
    /\ Comes(Event(Link(s), "Close", s))
    /\ UNCHANGED <<startVars, linkVars, muxVars, taskVars, asked, sent, told>>

-----------------------------------------------------------------------------
(* The frame channel and the sender task of a link's mux.                  *)
Unbounded(l) == TRUE
Room(l) == Len(data_sender_buf[l]) < Capacity

Send(type, s) ==
    /\ Room(Link(s))
    /\ data_sender_buf' = [data_sender_buf EXCEPT ![Link(s)] =
                              Append(@, [type |-> type, session |-> s])]

Takes(l) ==
    /\ data_sender_buf[l] # <<>>
    /\ data_sender_buf' = [data_sender_buf EXCEPT ![l] = Tail(@)]
    /\ UNCHANGED <<startVars, linkVars, rx, link_muxes, sessions, taskVars,
                   asked, sent, closed>>

Answer(f) == IF f.type = "Close" THEN told ELSE [told EXCEPT ![f.session] = f.type]

Delivers(l) ==
    /\ l \in attached \cap up
    /\ Takes(l)
    /\ told' = Answer(Head(data_sender_buf[l]))
    /\ UNCHANGED attached

WaitsForLink(l) ==
    /\ l \in attached \ up
    /\ Takes(l)
    /\ attached' = attached \ {l}
    /\ UNCHANGED told

(* A send may fail on any link, also on one that is up.  It clears link_id *)
(* for good; what comes after it is taken and dropped.                     *)
Fails(l) ==
    /\ Takes(l)
    /\ attached' = attached \ {l}
    /\ UNCHANGED told

Sender(l) == Delivers(l) \/ Fails(l)

-----------------------------------------------------------------------------
(* The event loop.                                                         *)
Gets(types) == phase = "serving" /\ rx # <<>> /\ Head(rx).type \in types
Handled == rx' = Tail(rx)
OfLink == Head(rx).link
Of == Head(rx).session

OpensMux ==
    /\ Gets({"LinkEstablished"}) /\ Handled
    /\ link_muxes' = link_muxes \cup {OfLink}
    /\ attached' = attached \cup {OfLink}
    /\ UNCHANGED <<startVars, linkVars, sessions, data_sender_buf, taskVars, clientVars>>

RemovesMux ==
    /\ Gets({"LinkClosed"}) /\ Handled
    /\ link_muxes' = link_muxes \ {OfLink}
    /\ UNCHANGED <<startVars, linkVars, attached, sessions, data_sender_buf, taskVars, clientVars>>

StartsSession ==
    /\ Gets({"Connect"}) /\ asked[Of] # "invalid" /\ Handled
    /\ OfLink \in link_muxes
    /\ sessions' = sessions \cup {Of}
    /\ pc' = [pc EXCEPT ![Of] = IF asked[Of] = "udp" THEN "binding" ELSE "resolving"]
    /\ UNCHANGED <<startVars, linkVars, link_muxes, attached, data_sender_buf, inbox, addr,
                   contacted, received, clientVars>>

(* A payload that does not parse: the loop itself waits for room.          *)
RefusesPayload ==
    /\ Gets({"Connect"}) /\ asked[Of] = "invalid" /\ Handled
    /\ OfLink \in link_muxes
    /\ Send("ConnectErr", Of)
    /\ UNCHANGED <<startVars, linkVars, link_muxes, attached, sessions, taskVars, clientVars>>

Receiving(s) == s \in sessions
SameSid(s) == {t \in Sessions : t[2] = s[2] /\ Receiving(t)}
To(s) == {t \in {s} : Receiving(t)}

Dispatches ==
    /\ Gets({"Data", "Close"}) /\ Handled
    /\ OfLink \in link_muxes
    /\ inbox' = [s \in Sessions |-> IF s \in To(Of) THEN Append(inbox[s], Head(rx))
                                                   ELSE inbox[s]]
    /\ UNCHANGED <<startVars, linkVars, muxVars, pc, addr, contacted, received, clientVars>>

EventLoop == OpensMux \/ RemovesMux \/ StartsSession \/ RefusesPayload \/ Dispatches

-----------------------------------------------------------------------------
(* A session's task: handle_server_session_tcp and _udp.  What it sends it *)
(* waits to send; that wait is before the step.                            *)
Becomes(s, p) == pc' = [pc EXCEPT ![s] = p]

(* The last frame of a session, then drop_session; its task returns.       *)
Leaves(s, type) ==
    /\ Send(type, s)
    /\ sessions' = sessions \ {s}
    /\ inbox' = [inbox EXCEPT ![s] = <<>>]
    /\ addr' = [addr EXCEPT ![s] = {}]
    /\ contacted' = [contacted EXCEPT ![s] = {}]
    /\ received' = [received EXCEPT ![s] = <<>>]
    /\ Becomes(s, "ended")
    /\ UNCHANGED <<startVars, linkVars, rx, link_muxes, attached, clientVars>>

(* What a name may resolve to, anew each time, and what passes the filter. *)
target_to_socket == Addresses
filter_and_convert == {a \in target_to_socket : a \in Allowed}

Resolves(s) ==
    /\ pc[s] = "resolving"
    /\ \E a \in filter_and_convert : addr' = [addr EXCEPT ![s] = {a}]
    /\ Becomes(s, "connecting")
    /\ UNCHANGED <<startVars, linkVars, rx, muxVars, inbox, contacted, received, clientVars>>

(* No address, or one that is not allowed; TcpStream::connect or bind fail. *)
RefusesSilently(s) ==
    /\ pc[s] \in {"resolving", "connecting", "binding"}
    /\ sessions' = sessions \ {s}
    /\ inbox' = [inbox EXCEPT ![s] = <<>>]
    /\ addr' = [addr EXCEPT ![s] = {}]
    /\ Becomes(s, "ended")
    /\ UNCHANGED <<startVars, linkVars, rx, link_muxes, attached, data_sender_buf, contacted,
                   received, clientVars>>

Refuses(s) ==
    /\ pc[s] \in {"resolving", "connecting", "binding"}
    /\ Leaves(s, "ConnectErr")

Answers(s) ==
    /\ Send("ConnectOk", s)
    /\ Becomes(s, "relay")
    /\ UNCHANGED <<startVars, linkVars, rx, link_muxes, attached, sessions, inbox, addr,
                   received, clientVars>>

ConnectsByName(s) ==
    /\ pc[s] = "connecting"
    /\ \E a \in target_to_socket : contacted' = [contacted EXCEPT ![s] = {a}]
    /\ Answers(s)

Connects(s) ==
    /\ pc[s] = "connecting"
    /\ contacted' = [contacted EXCEPT ![s] = addr[s]]
    /\ Answers(s)

Binds(s) ==
    /\ pc[s] = "binding"
    /\ Answers(s)
    /\ UNCHANGED contacted

(* The relay's writer: TCP data goes to the connection, each datagram to   *)
(* where its own target resolves to, if that is allowed.                   *)
Has(s, type) == pc[s] = "relay" /\ inbox[s] # <<>> /\ Head(inbox[s]).type = type
Reads(s) == inbox' = [inbox EXCEPT ![s] = Tail(@)]
Writes(s) == received' = [received EXCEPT ![s] = Append(@, Head(inbox[s]))]

WritesData(s) ==
    /\ Has(s, "Data") /\ asked[s] = "tcp"
    /\ Reads(s) /\ Writes(s)
    /\ UNCHANGED <<startVars, linkVars, rx, muxVars, pc, addr, contacted, clientVars>>

RoutesDatagram(s) ==
    /\ Has(s, "Data") /\ asked[s] = "udp"
    /\ Reads(s)
    /\ \/ /\ \E a \in filter_and_convert : contacted' = [contacted EXCEPT ![s] = @ \cup {a}]
          /\ Writes(s)
       \/ UNCHANGED <<contacted, received>>
    /\ UNCHANGED <<startVars, linkVars, rx, muxVars, pc, addr, clientVars>>

GetsClose(s) == Has(s, "Close") /\ Leaves(s, "Close")
SocketEnds(s) == pc[s] = "relay" /\ Leaves(s, "Close")

Task(s) ==
    \/ Resolves(s) \/ Refuses(s) \/ Connects(s) \/ Binds(s)
    \/ WritesData(s) \/ RoutesDatagram(s) \/ GetsClose(s)

-----------------------------------------------------------------------------
StartUp ==
    \/ LoadsIdentity \/ GeneratesIdentity
    \/ SaveBegins \/ SaveEnds \/ SaveFails \/ Serves

Clients ==
    \/ LinkComesUp \/ \E l \in Links : LinkGoesDown(l)
    \/ \E l \in Links, k \in Kinds : ClientConnects(l, k)
    \/ \E s \in Sessions : ClientSends(s) \/ ClientCloses(s)

Next ==
    \/ StartUp \/ Crashes
    \/ Clients
    \/ EventLoop
    \/ \E l \in Links : Sender(l)
    \/ \E s \in Sessions : Task(s) \/ SocketEnds(s)

Spec == Init /\ [][Next]_vars

-----------------------------------------------------------------------------
(* Type invariant of the start-up, the event loop and the sessions.        *)
TypeOK ==
    /\ identity_file \in {Absent, Partial} \cup Identities
    /\ phase \in {"down", "saving", "writing", "ready", "serving"}
    /\ identity \in {Absent} \cup Identities
    /\ shown \subseteq Identities
    /\ links \in 0..MaxLinks /\ up \subseteq 1..links
    /\ link_muxes \subseteq 1..links /\ attached \subseteq 1..links
    /\ sessions \subseteq Sessions
    /\ \A l \in Links : Len(data_sender_buf[l]) <= Capacity
    /\ pc \in [Sessions -> {"none", "binding", "resolving", "connecting", "relay", "ended"}]
    /\ addr \in [Sessions -> SUBSET Addresses]
    /\ contacted \in [Sessions -> SUBSET Addresses]
    /\ asked \in [Sessions -> {"none"} \cup Kinds]
    /\ sent \in [Sessions -> Nat]
    /\ told \in [Sessions -> {"none", "ConnectOk", "ConnectErr"}]

(* server.rs:88, "stable across restarts": whatever start-up is cut short  *)
(* where, every address the server has shown is the same one.              *)
AddressStable == Cardinality(shown) <= 1

(* The server reaches only for addresses that the filter allowed, though   *)
(* names may resolve differently each time, per session and per datagram.  *)
ReachesOnlyAllowed == \A s \in Sessions : contacted[s] \subseteq Allowed

(* Though all clients count their sessions from one and one loop serves    *)
(* them all, a session's relay takes data of its own link and id only,     *)
(* no more than its client sent.  Its relay runs only if the client was    *)
(* told CONN_OK, which is when that client begins to send.                 *)
OwnData ==
    \A s \in Sessions :
        /\ Len(received[s]) <= sent[s]
        /\ \A i \in DOMAIN received[s] : received[s][i].session = s
        /\ received[s] # <<>> => told[s] = "ConnectOk"

-----------------------------------------------------------------------------
(***************************************************************************)
(* What makes the invariants inductive.                                    *)
(***************************************************************************)
Frames == [type : {"ConnectOk", "ConnectErr", "Close"}, session : Sessions]
Events == [link : Links, type : {"LinkEstablished", "LinkClosed"}, session : {NoSession}, n : {0}]
            \cup [link : Links, type : {"Connect", "Data", "Close"}, session : Sessions, n : Nat]

QueuesOK ==
    /\ rx \in Seq(Events)
    /\ \A i \in 1..Len(rx) : rx[i].link <= links
    /\ data_sender_buf \in [Links -> Seq(Frames)]
    /\ inbox \in [Sessions -> Seq(Events)]
    /\ received \in [Sessions -> Seq(Events)]
    /\ closed \subseteq Sessions

(* An address is shown only once the file holds it; the file is written    *)
(* only while none was shown.                                              *)
AddressInv ==
    /\ shown \subseteq (IF identity_file \in Identities THEN {identity_file} ELSE {})
    /\ phase \in {"saving", "writing"} =>
          identity \in Identities /\ identity_file \in {Absent, Partial}

FilterInv == \A s \in Sessions : addr[s] \subseteq Allowed /\ contacted[s] \subseteq Allowed

(* The ids of a link's sessions are handed out one after the other.        *)
AskedUpTo(l, k) == \A i \in Sids : asked[<<l, i>>] # "none" <=> i <= k
NumberInv == \A l \in Links : \E k \in 0..MaxConnects : AskedUpTo(l, k)

(* A session is asked for once, and is told of one outcome only.           *)
IsConnect(e) == e.type = "Connect"
OnItsWay(s, type) ==
    \E l \in Links : \E i \in 1..Len(data_sender_buf[l]) :
        data_sender_buf[l][i] = [type |-> type, session |-> s]
Accepted(s) == told[s] = "ConnectOk" \/ OnItsWay(s, "ConnectOk")
ConnectInv ==
    /\ \A i \in 1..Len(rx) : IsConnect(rx[i]) =>
          /\ asked[rx[i].session] # "none" /\ pc[rx[i].session] = "none"
          /\ \A j \in 1..Len(rx) : IsConnect(rx[j]) /\ rx[j].session = rx[i].session => j = i
    /\ \A s \in Sessions : asked[s] \in {"none", "invalid"} => pc[s] = "none"
AnswerInv ==
    \A s \in Sessions :
        /\ Accepted(s) => pc[s] \in {"relay", "ended"} /\ ~OnItsWay(s, "ConnectErr")
        /\ OnItsWay(s, "ConnectErr") => pc[s] = "ended" \/ asked[s] = "invalid"

(* DATA is numbered; what is on its way comes after what was received.     *)
IsData(e) == e.type = "Data"
Increasing(q, s) ==
    \A i, j \in 1..Len(q) :
        IsData(q[i]) /\ IsData(q[j]) /\ q[i].session = s /\ q[j].session = s /\ i < j
            => q[i].n < q[j].n
Outstanding(q, s) ==
    \A i \in 1..Len(q) : IsData(q[i]) /\ q[i].session = s => q[i].n \in (Len(received[s]) + 1)..sent[s]
DataOf(s) ==
    /\ sent[s] > 0 => told[s] = "ConnectOk"
    /\ Len(received[s]) <= sent[s]
    /\ \A i \in 1..Len(received[s]) : received[s][i].session = s
    /\ \A i \in 1..Len(inbox[s]) : inbox[s][i].session = s
    /\ Increasing(inbox[s], s) /\ Increasing(rx, s)
    /\ Outstanding(inbox[s], s) /\ Outstanding(rx, s)
    /\ \A i \in 1..Len(inbox[s]), j \in 1..Len(rx) :
          IsData(inbox[s][i]) /\ IsData(rx[j]) /\ rx[j].session = s => inbox[s][i].n < rx[j].n
DataInv == \A s \in Sessions : DataOf(s)

IInv ==
    /\ TypeOK /\ QueuesOK /\ AddressInv /\ FilterInv
    /\ NumberInv /\ ConnectInv /\ AnswerInv /\ DataInv

=============================================================================
