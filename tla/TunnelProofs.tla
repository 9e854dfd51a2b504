---------------------------- MODULE TunnelProofs ----------------------------
(***************************************************************************)
(* Tunnel for any number of links, sessions and reads, and any capacity of *)
(* the frame channel: types, the link service, and that every socket gets  *)
(* what its peer's socket gave, in order and complete if the peer closes,  *)
(* on every link that lost no packet while it was up.                      *)
(***************************************************************************)
EXTENDS Tunnel, Queues

(***************************************************************************)
(* What makes the invariants inductive.                                    *)
(***************************************************************************)
Serves(l, s) == pc[l][s] # "none"
Active(e, s) == pc[e][s] \in {"relay", "closing", "dropping", "ended"}
Pending(e) == IF sending[e] = Idle THEN <<>> ELSE <<sending[e].frame>>

(* A link that came up is waiting for the client to attach to it.          *)
Unattached == cphase = "reconnect" /\ rx[Client] # <<>>

(* The events of a link begin and end it, at both ends.  The client sends  *)
(* on the newest link only, and the server's mux of a link on that link.   *)
LinkInv ==
    /\ \A e \in Ends : \A i \in 1..Len(rx[e]) : rx[e][i].type = "LinkEstablished" => i = 1
    /\ \A i \in 1..Len(rx[Client]) : rx[Client][i].type = "LinkClosed" => i = Len(rx[Client])
    /\ rx[Client] # <<>> => (Head(rx[Client]).type = "LinkEstablished" <=> cphase = "reconnect")
    /\ cphase = "clearing" => rx[Client] = <<>>
    /\ live <=> /\ cphase = "dispatch" \/ rx[Client] # <<>>
                /\ \A i \in 1..Len(rx[Client]) : rx[Client][i].type # "LinkClosed"
    /\ link_id[Client] # None => link_id[Client] = latest /\ cphase = "dispatch"
    /\ cphase # "reconnect" \/ rx[Client] # <<>> => latest # 0
    /\ sending[Client] # Idle =>
          sending[Client].link <= latest /\ (Unattached => sending[Client].link < latest)
    /\ \A l \in Links :
          /\ link_id[l] \in {None, l}
          /\ sending[l] # Idle => sending[l].link = l

(* Nothing happened on a link the client was not attached to, and nothing  *)
(* at the server before it opened the mux.                                 *)
FreshInv ==
    \A l \in Links :
        /\ l > latest => rx[l] = <<>> /\ link_id[l] = None
        /\ l > latest \/ (Unattached /\ l = latest) =>
              /\ \A i \in 1..Len(rx[l]) : rx[l][i].type \in LinkEvents
              /\ \A s \in Sids : ~Serves(l, s)
        /\ (\E i \in 1..Len(rx[l]) : rx[l][i].type = "LinkEstablished") =>
              link_id[l] = None /\ \A s \in Sids : ~Serves(l, s)

(* Frames are where and as their sender put them.  A datum's number is     *)
(* that of a read.                                                         *)
Sent(p, s) ==
    IF pc[p][s] = "dialing" THEN 0 ELSE IF holding[p][s] THEN read[p][s] ELSE read[p][s] + 1
Sound(f) ==
    /\ f.from = Client => /\ f.type \in {"Connect", "Data", "Close"}
                          /\ f.type # "Connect" => \E l \in Links : Serves(l, f.sid)
    /\ f.from # Client => f.type \in {"ConnectOk", "ConnectErr", "Data", "Close"}
    /\ IF f.type = "Connect" THEN pc[Client][f.sid] \notin {"none", "accepted"}
                             ELSE Active(f.from, f.sid)
    /\ f.type \in {"ConnectErr", "Close"} => pc[f.from][f.sid] \in {"dropping", "ended"}
    /\ IF f.type = "Data" THEN f.n > 0 /\ f.n < Sent(f.from, f.sid) ELSE f.n = 0
Elems(q) == {q[i] : i \in 1..Len(q)}
FramesInv ==
    /\ \A e \in Ends : \A f \in Elems(data_sender_buf[e]) \cup Elems(Pending(e)) :
          f.from = e /\ Sound(f)
    /\ \A e \in Ends : \A f \in Elems(rx[e]) :
          f.type \in FrameTypes => f.from = (IF e = Client THEN latest ELSE Client) /\ Sound(f)
    /\ \A e \in Ends, s \in Sids : \A f \in Elems(inbox[e][s]) :
          f.sid = s /\ f.from \in Peers(e) /\ f.type # "Connect" /\ Sound(f)

(* A session has one CONNECT, and one link serves it.  While the client    *)
(* has it registered, that is the link it is attached to.                  *)
Asks(q, s) == \E f \in Elems(q) : f.type = "Connect" /\ f.sid = s
OneAsk(q) ==
    \A i, j \in 1..Len(q) :
        q[i].type = "Connect" /\ q[j].type = "Connect" /\ q[i].sid = q[j].sid => i = j
Asked(s) ==
    \/ Asks(data_sender_buf[Client], s) \/ Asks(Pending(Client), s)
    \/ \E l \in Links : Asks(rx[l], s) \/ Serves(l, s)
ConnectInv ==
    /\ OneAsk(data_sender_buf[Client]) /\ \A l \in Links : OneAsk(rx[l])
    /\ \A s \in Sids :
          /\ pc[Client][s] \in {"none", "accepted"} => ~Asked(s)
          /\ Asks(data_sender_buf[Client], s) =>
                ~Asks(Pending(Client), s) /\ \A l \in Links : ~Asks(rx[l], s) /\ ~Serves(l, s)
          /\ Asks(Pending(Client), s) => \A l \in Links : ~Asks(rx[l], s) /\ ~Serves(l, s)
          /\ \A l, m \in Links : /\ Asks(rx[l], s) => ~Serves(m, s)
                                 /\ Asks(rx[l], s) /\ Asks(rx[m], s) => l = m
                                 /\ Serves(l, s) /\ Serves(m, s) => l = m
          /\ \A l \in Links : s \in sessions[Client] /\ (Asks(rx[l], s) \/ Serves(l, s)) =>
                l = latest /\ cphase # "reconnect"

(* What the tasks of a session have and have done.                         *)
TasksInv ==
    /\ \A s \in Sids : /\ s > next_sid => pc[Client][s] = "none"
                       /\ pc[Client][s] # "dialing"
                       /\ pc[Client][s] = "none" => s \notin sessions[Client]
                       /\ \/ pc[Client][s] \in {"relay", "closing", "dropping"}
                          \/ tasks[Client][s] # {} \/ read[Client][s] # 0
                          => \E l \in Links : Serves(l, s)
    /\ \A l \in Links, s \in Sids : /\ pc[l][s] \notin {"accepted", "waiting"}
                                    /\ s \in sessions[l] => Serves(l, s)
    /\ accepting => next_sid < MaxSessions
    /\ \A e \in Ends, s \in Sids :
          /\ ~Active(e, s) => /\ tasks[e][s] = {} /\ read[e][s] = 0 /\ written[e][s] = <<>>
                              /\ why[e][s] = "none"
          /\ pc[e][s] = "relay" => why[e][s] = "none"
          /\ holding[e][s] => Reader \in tasks[e][s] /\ read[e][s] > 0
          /\ why[e][s] = "eof" => Reader \notin tasks[e][s]
          /\ why[e][s] \in {"write_error", "closed", "lost"} => Writer \notin tasks[e][s]
          /\ pc[e][s] = "none" => inbox[e][s] = <<>>

(* From p's socket to e's: the answer to CONNECT is number 0, the data     *)
(* follow.  A queue has all numbers from a on, or from a to below b, and   *)
(* its CLOSE comes after those up to m.                                    *)
Numbered(f, p, s) == f.type \in {"ConnectOk", "ConnectErr", "Data"} /\ f.sid = s /\ f.from = p
Before(q, i, p, s, n) == \E j \in 1..(i - 1) : Numbered(q[j], p, s) /\ q[j].n = n
Starts(q, p, s, a, m) ==
    \A i \in 1..Len(q) :
        /\ Numbered(q[i], p, s) =>
              /\ a <= q[i].n
              /\ \A n \in a..(q[i].n - 1) : Before(q, i, p, s, n)
              /\ \A j \in 1..(i - 1) : Numbered(q[j], p, s) => q[j].n < q[i].n
        /\ q[i].type = "Close" /\ q[i].sid = s /\ q[i].from = p =>
              \A n \in a..m : Before(q, i, p, s, n)
Chain(q, p, s, a, b, m) ==
    /\ a <= b
    /\ Starts(q, p, s, a, m)
    /\ \A i \in 1..Len(q) : Numbered(q[i], p, s) => q[i].n < b
    /\ \A n \in a..(b - 1) : Before(q, Len(q) + 1, p, s, n)

(* e takes no more frames of the session; p sends no more on the link; p   *)
(* lost what it had read.  A flow is said of links that lost no packet.    *)
Gone(e, s) == pc[e][s] # "none" /\ ~(s \in sessions[e] /\ Receiving(e, s))
Broken(p, l) ==
    \/ ~IsUp(l)
    \/ link_id[p] # l /\ ~(sending[p] # Idle /\ sending[p].link = l)
Lossy(p, s) == Active(p, s) /\ Reader \notin tasks[p][s] /\ why[p][s] # "eof"
Expects(e, s) == IF pc[e][s] \in {"accepted", "waiting"} THEN 0 ELSE Len(written[e][s]) + 1
ReadAll(p, s) == IF why[p][s] = "eof" THEN read[p][s] ELSE 0
Numbers == Nat
Flow(e, p, s) ==
    \E b \in Numbers :
        /\ Chain(inbox[e][s], p, s, Expects(e, s), b, ReadAll(p, s))
        /\ \/ Gone(e, s)
           \/ /\ Starts(rx[e], p, s, b, ReadAll(p, s))
              /\ \/ Broken(p, LinkOf(e, p))
                 \/ \E c, d, x \in Numbers :
                       /\ Chain(rx[e], p, s, b, c, ReadAll(p, s))
                       /\ Chain(Pending(p), p, s, c, d, ReadAll(p, s))
                       /\ Chain(data_sender_buf[p], p, s, d, x, ReadAll(p, s))
                       /\ x = Sent(p, s) \/ (Lossy(p, s) /\ x > 0 /\ x <= Sent(p, s))
FlowInv ==
    \A e \in Ends, s \in Sids : \A p \in Peers(e) : Joined(e, p, s) => Flow(e, p, s)

(* What was written came from the one peer, in order on a link that lost   *)
(* no packet, and all of it if the peer's CLOSE ended the relay.           *)
WrittenInv ==
    \A e \in Ends, s \in Sids : \A i \in 1..Len(written[e][s]) :
        /\ written[e][s][i].type = "Data" /\ written[e][s][i].sid = s
        /\ written[e][s][i].from \in Peers(e) /\ Serves(LinkOf(e, written[e][s][i].from), s)
        /\ LinkOf(e, written[e][s][i].from) \notin lossy =>
              written[e][s][i].n = i /\ i < Sent(written[e][s][i].from, s)
ClosedInv ==
    /\ \A e \in Ends, s \in Sids : why[e][s] = "closed" =>
          \E p \in Peers(e) : Serves(LinkOf(e, p), s) /\ pc[p][s] \in {"dropping", "ended"}
    /\ CompleteOnClose

IInv ==
    /\ TypeOK /\ LinkInv /\ FreshInv /\ FramesInv /\ ConnectInv /\ TasksInv
    /\ FlowInv /\ WrittenInv /\ ClosedInv

-----------------------------------------------------------------------------
LEMMA Constants ==
    /\ Links \subseteq Ends /\ Client \in Ends /\ Client \notin Links /\ None \notin Links
    /\ \A e \in Ends : e # Client => e \in Links
    /\ Ends \subseteq Nat /\ Sids \subseteq Nat \ {0}
    BY TunnelAssumption DEF Ends, Links, Client, Sids, None

(* Changing what one session of one end has.                               *)
LEMMA Cell ==
    ASSUME NEW S, NEW f \in [Ends -> [Sids -> S]], NEW e \in Ends, NEW s \in Sids, NEW v \in S
    PROVE  /\ [f EXCEPT ![e][s] = v] \in [Ends -> [Sids -> S]]
           /\ [f EXCEPT ![e][s] = v][e][s] = v
           /\ \A x \in Ends, t \in Sids : x # e \/ t # s => [f EXCEPT ![e][s] = v][x][t] = f[x][t]
    OBVIOUS

Pcs == {"none", "accepted", "waiting", "dialing", "relay", "closing", "dropping", "ended"}
Whys == {"none", "refused", "timeout", "eof", "write_error", "closed", "lost"}
LEMMA WhyCell ==
    ASSUME TypeOK, NEW e \in Ends, NEW s \in Sids, NEW R \in SUBSET Whys,
           why' = why \/ \E r \in R : why' = [why EXCEPT ![e][s] = r]
    PROVE  why' \in [Ends -> [Sids -> Whys]]
<1>1. why \in [Ends -> [Sids -> Whys]]
    BY DEF TypeOK, Whys
<1>2. ASSUME NEW r \in R PROVE [why EXCEPT ![e][s] = r] \in [Ends -> [Sids -> Whys]]
    BY <1>1
<1> QED
    BY <1>1, <1>2

LEMMA PcCell ==
    ASSUME TypeOK, NEW e \in Ends, NEW s \in Sids, NEW p \in Pcs, pc' = pc \/ Becomes(e, s, p)
    PROVE  pc' \in [Ends -> [Sids -> Pcs]]
<1>1. pc \in [Ends -> [Sids -> Pcs]]
    BY DEF TypeOK, Pcs
<1> QED
    BY <1>1 DEF Becomes

(* Frames and events.                                                      *)
LEMMA Kinds ==
    /\ Frame \subseteq Events /\ \A f \in Events : f.n \in Nat /\ f.type \in FrameTypes \cup LinkEvents
    /\ \A f \in Events : f.type \in FrameTypes <=> f \in Frame
    /\ \A f \in Events : f.type \in LinkEvents => f = Signal(f.type)
    /\ \A t \in LinkEvents : Signal(t) \in Events /\ Signal(t).type = t /\ t \notin FrameTypes
    BY DEF Events, Frame, Signal, FrameTypes, LinkEvents

LEMMA FramesAreEvents == \A q \in Seq(Frame) : q \in Seq(Events)
    BY Kinds, SeqMonotonic

(* What is being sent is no frame when the sender task is idle.            *)
LEMMA IdleIsNone == \A f \in Frame : \A l : [frame |-> f, link |-> l] # Idle
    BY DEF Idle, Signal, Frame, FrameTypes

-----------------------------------------------------------------------------
(* The types.                                                              *)
LEMMA TypesInit == Init => TypeOK
<1> SUFFICES ASSUME Init PROVE TypeOK
    OBVIOUS
<1>1. Len(<<>>) = 0 /\ \A S : <<>> \in Seq(S)
    BY EmptySeq
<1>2. /\ rx \in [Ends -> Seq(Events)] /\ data_sender_buf \in [Ends -> Seq(Frame)]
      /\ \A e \in Ends : Len(data_sender_buf[e]) <= Capacity
      /\ inbox \in [Ends -> [Sids -> Seq(Frame)]] /\ written \in [Ends -> [Sids -> Seq(Frame)]]
    BY <1>1, TunnelAssumption DEF Init, EachSession
<1>3. /\ latest \in 0..MaxLinks /\ next_sid \in 0..MaxSessions
      /\ server_muxes \subseteq Links /\ link_id \in [Ends -> {None} \cup Links]
      /\ sessions \in [Ends -> SUBSET Sids] /\ sending \in [Ends -> [frame : Frame, link : Links] \cup {Idle}]
    BY TunnelAssumption DEF Init, None
<1>5. /\ live \in BOOLEAN /\ cphase \in {"dispatch", "clearing", "reconnect"}
      /\ accepting \in BOOLEAN /\ lossy \subseteq Links
    BY DEF Init
<1>4. /\ pc \in [Ends -> [Sids -> {"none", "accepted", "waiting", "dialing", "relay",
                                   "closing", "dropping", "ended"}]]
      /\ tasks \in [Ends -> [Sids -> SUBSET {Reader, Writer}]]
      /\ holding \in [Ends -> [Sids -> BOOLEAN]] /\ read \in [Ends -> [Sids -> Nat]]
      /\ why \in [Ends -> [Sids -> {"none", "refused", "timeout", "eof", "write_error",
                                    "closed", "lost"}]]
      /\ reply \in [Sids -> {"none", "success"}]
    BY DEF Init, EachSession
<1> QED
    BY <1>2, <1>3, <1>4, <1>5 DEF TypeOK

LEMMA TypesSend ==
    ASSUME TypeOK, NEW e \in Ends, NEW type \in FrameTypes, NEW s \in Sids, NEW n \in Nat,
           Send(e, type, s, n)
    PROVE  /\ data_sender_buf' \in [Ends -> Seq(Frame)]
           /\ \A x \in Ends : Len(data_sender_buf'[x]) <= Capacity
<1> DEFINE f == [type |-> type, sid |-> s, from |-> e, n |-> n]
<1>1. f \in Frame /\ data_sender_buf \in [Ends -> Seq(Frame)]
    BY DEF Frame, TypeOK
<1>2. data_sender_buf' = [data_sender_buf EXCEPT ![e] = Append(data_sender_buf[e], f)]
    BY DEF Send
<1>3. Len(data_sender_buf[e]) < Capacity
    BY DEF Send, Room
<1> HIDE DEF f
<1>4. /\ Len(Append(data_sender_buf[e], f)) = Len(data_sender_buf[e]) + 1
      /\ Len(data_sender_buf[e]) \in Nat /\ Append(data_sender_buf[e], f) \in Seq(Frame)
    BY <1>1, AppendProps
<1>5. Len(data_sender_buf'[e]) <= Capacity
    BY <1>1, <1>2, <1>3, <1>4, TunnelAssumption
<1>6. \A x \in Ends : x # e => data_sender_buf'[x] = data_sender_buf[x]
    BY <1>1, <1>2
<1> QED
    BY <1>1, <1>2, <1>4, <1>5, <1>6 DEF TypeOK

LEMMA TypesLink ==
    ASSUME TypeOK, LinkComesUp \/ LinkGoesDown
    PROVE  TypeOK'
<1>1. Signal("LinkClosed") \in Events /\ Signal("LinkEstablished") \in Events
    BY Kinds DEF LinkEvents
<1>2. ASSUME NEW q \in Seq(Events), NEW k \in MayKeep(q) PROVE Cut(q, k) \in Seq(Events)
    BY <1>1, PrefixProps, AppendProps DEF Cut, MayKeep
<1>3. /\ rx \in [Ends -> Seq(Events)] /\ latest \in Nat /\ latest <= MaxLinks /\ Client \in Ends
    BY Constants, TunnelAssumption DEF TypeOK
<1>4. rx' \in [Ends -> Seq(Events)]
  <2>1. CASE LinkComesUp
    <3>1. <<Signal("LinkEstablished")>> \in Seq(Events)
      BY <1>1
    <3> QED
      BY <1>3, <2>1, <3>1 DEF LinkComesUp
  <2>2. CASE LinkGoesDown
    <3>1. PICK j \in MayKeep(rx[Client]), k \in MayKeep(rx[latest]) :
              rx' = [rx EXCEPT ![Client] = Cut(@, j), ![latest] = Cut(@, k)]
      BY <2>2 DEF LinkGoesDown
    <3>2. CASE latest \in Links
      <4>1. latest \in Ends /\ latest # Client
        BY <3>2, Constants
      <4>2. Cut(rx[Client], j) \in Seq(Events) /\ Cut(rx[latest], k) \in Seq(Events)
        BY <1>2, <1>3, <4>1
      <4> QED
        BY <1>3, <3>1, <4>1, <4>2
    <3>3. CASE latest \notin Links
      <4>1. latest = Client
        BY <1>3, <3>3, TunnelAssumption DEF Links, Client
      <4>2. MayKeep(rx[Client]) = MayKeep(rx[latest]) /\ Cut(rx[Client], j) \in Seq(Events)
        BY <1>2, <1>3, <4>1
      <4> QED
        BY <1>3, <3>1, <4>1, <4>2
    <3> QED
      BY <3>2, <3>3
  <2> QED
    BY <2>1, <2>2
<1>5. latest' \in 0..MaxLinks
    BY <1>3, TunnelAssumption DEF LinkComesUp, LinkGoesDown
<1>6. live' \in BOOLEAN
    BY DEF LinkComesUp, LinkGoesDown
<1> QED
    BY <1>4, <1>5, <1>6 DEF LinkComesUp, LinkGoesDown, TypeOK, muxVars, acceptVars, sessionVars, relayVars

LEMMA TypesLoop ==
    ASSUME TypeOK, NEW e \in Ends, EventLoop(e)
    PROVE  TypeOK'
<1>q. rx \in [Ends -> Seq(Events)] /\ Client \in Ends /\ (e # Client => e \in Links)
    BY Constants DEF TypeOK
<1>1. rx' \in [Ends -> Seq(Events)]
  <2>1. CASE ClientClearsSessions
    BY <1>q, <2>1 DEF ClientClearsSessions
  <2>2. CASE rx[e] # <<>> /\ rx' = [rx EXCEPT ![e] = Tail(rx[e])]
    <3>1. Tail(rx[e]) \in Seq(Events)
      BY <1>q, <2>2, TailProps
    <3> QED
      BY <1>q, <2>2, <3>1
  <2> QED
    BY <2>1, <2>2 DEF EventLoop, ClientAttaches, ClientLosesLink, ClientDispatches, ServerOpensMux,
                      ServerDropsMux, ServerDispatches, ServerConnects, Gets, Take
<1>2. inbox' \in [Ends -> [Sids -> Seq(Frame)]]
  <2> DEFINE f == Head(rx[e])
  <2>0. inbox \in [Ends -> [Sids -> Seq(Frame)]]
    BY DEF TypeOK
  <2>1. CASE UNCHANGED inbox
    BY <2>0, <2>1
  <2>2. CASE Dispatch(e, f) /\ rx[e] # <<>> /\ f.type \in FrameTypes
    <3>1. f \in Frame
      BY <1>q, <2>2, TailProps, Kinds
    <3>2. f.sid \in Sids
      BY <3>1 DEF Frame
    <3> HIDE DEF f
    <3>3. Append(inbox[e][f.sid], f) \in Seq(Frame)
      BY <2>0, <3>1, <3>2, AppendProps
    <3>4. inbox' = inbox \/ inbox' = [inbox EXCEPT ![e][f.sid] = Append(inbox[e][f.sid], f)]
      BY <2>2 DEF Dispatch
    <3>5. [inbox EXCEPT ![e][f.sid] = Append(inbox[e][f.sid], f)] \in [Ends -> [Sids -> Seq(Frame)]]
      BY <2>0, <3>2, <3>3, Cell
    <3> QED
      BY <2>0, <3>4, <3>5
  <2> QED
    BY <2>1, <2>2 DEF EventLoop, ClientAttaches, ClientLosesLink, ClientClearsSessions, ClientDispatches,
                      ServerOpensMux, ServerDropsMux, ServerDispatches, ServerConnects, sessionVars,
                      Gets, FrameTypes
<1>3. /\ cphase' \in {"dispatch", "clearing", "reconnect"} /\ server_muxes' \subseteq Links
      /\ UNCHANGED <<latest, live, lossy, next_sid, accepting, data_sender_buf, sending, tasks,
                     holding, read, written, why, reply>>
    BY <1>q DEF EventLoop, ClientAttaches, ClientLosesLink, ClientClearsSessions, ClientDispatches,
             ServerOpensMux, ServerDropsMux, ServerDispatches, ServerConnects, TypeOK, linkVars,
             muxVars, acceptVars, sessionVars, relayVars
<1>4. link_id' \in [Ends -> {None} \cup Links]
  <2>1. ClientAttaches => latest \in {None} \cup Links
    BY TunnelAssumption DEF TypeOK, Links, None
  <2> QED
    BY <1>q, <2>1 DEF EventLoop, ClientAttaches, ClientLosesLink, ClientClearsSessions, ClientDispatches,
                      ServerOpensMux, ServerDropsMux, ServerDispatches, ServerConnects, TypeOK, muxVars
<1>5. /\ sessions' \in [Ends -> SUBSET Sids]
      /\ pc' \in [Ends -> [Sids -> {"none", "accepted", "waiting", "dialing", "relay",
                                    "closing", "dropping", "ended"}]]
  <2>1. CASE ServerConnects(e) /\ e # Client
    <3>1. Head(rx[e]) \in Frame
      BY <1>q, <2>1, TailProps, Kinds DEF ServerConnects, Gets, FrameTypes
    <3>2. Head(rx[e]).sid \in Sids
      BY <3>1 DEF Frame
    <3> QED
      BY <2>1, <3>2 DEF ServerConnects, TypeOK
  <2>2. CASE UNCHANGED <<sessions, pc>>
    BY <2>2 DEF TypeOK
  <2>3. CASE ClientClearsSessions
    BY <1>q, <2>3 DEF ClientClearsSessions, TypeOK, sessionVars
  <2> QED
    BY <2>1, <2>2, <2>3
    DEF EventLoop, ClientAttaches, ClientLosesLink, ClientDispatches, ServerOpensMux, ServerDropsMux,
        ServerDispatches, sessionVars
<1> QED
    BY <1>1, <1>2, <1>3, <1>4, <1>5 DEF TypeOK

LEMMA TypesSender ==
    ASSUME TypeOK, NEW e \in Ends, Sender(e)
    PROVE  TypeOK'
<1>q. /\ rx \in [Ends -> Seq(Events)] /\ data_sender_buf \in [Ends -> Seq(Frame)]
      /\ link_id \in [Ends -> {None} \cup Links]
    BY DEF TypeOK
<1>1. CASE SenderTake(e)
  <2>1. /\ Head(data_sender_buf[e]) \in Frame /\ Tail(data_sender_buf[e]) \in Seq(Frame)
        /\ Len(Tail(data_sender_buf[e])) = Len(data_sender_buf[e]) - 1 /\ Len(data_sender_buf[e]) \in Nat
    BY <1>q, <1>1, TailProps DEF SenderTake
  <2>2. data_sender_buf' \in [Ends -> Seq(Frame)]
    BY <1>q, <1>1, <2>1 DEF SenderTake
  <2>3. \A x \in Ends : Len(data_sender_buf'[x]) <= Capacity
    BY <1>q, <1>1, <2>1, TunnelAssumption DEF SenderTake, TypeOK
  <2>4. sending' \in [Ends -> [frame : Frame, link : Links] \cup {Idle}]
    BY <1>q, <1>1, <2>1 DEF SenderTake, TypeOK
  <2> QED
    BY <1>1, <2>2, <2>3, <2>4 DEF SenderTake, TypeOK, linkVars, acceptVars, sessionVars, relayVars
<1>2. CASE SenderSends(e)
  <2>1. sending[e].frame \in Events
    BY <1>2, Kinds DEF SenderSends, TypeOK
  <2>2. rx' \in [Ends -> Seq(Events)]
    <3> DEFINE d == Dest(e, sending[e].link)
    <3>1. d \in Ends => Append(rx[d], sending[e].frame) \in Seq(Events)
      BY <1>q, <2>1, AppendProps
    <3> HIDE DEF d
    <3>2. rx' = [rx EXCEPT ![d] = Append(rx[d], sending[e].frame)]
      BY <1>2 DEF SenderSends, d
    <3> QED
      BY <1>q, <3>1, <3>2
  <2>3. sending' \in [Ends -> [frame : Frame, link : Links] \cup {Idle}]
    BY <1>2 DEF SenderSends, TypeOK
  <2> QED
    BY <1>2, <2>2, <2>3 DEF SenderSends, TypeOK, linkVars, acceptVars, sessionVars, relayVars
<1>3. CASE SenderFails(e)
  <2>1. sending' \in [Ends -> [frame : Frame, link : Links] \cup {Idle}]
    BY <1>3 DEF SenderFails, TypeOK
  <2>2. link_id' \in [Ends -> {None} \cup Links]
    BY <1>q, <1>3 DEF SenderFails, None
  <2> QED
    BY <1>3, <2>1, <2>2 DEF SenderFails, TypeOK, linkVars, acceptVars, sessionVars, relayVars
<1>4. CASE SenderLoses(e)
  <2>1. sending' \in [Ends -> [frame : Frame, link : Links] \cup {Idle}]
    BY <1>4 DEF SenderLoses, TypeOK
  <2>2. sending[e].link \in Links
    BY <1>4 DEF SenderLoses, TypeOK
  <2> QED
    BY <1>4, <2>1, <2>2 DEF SenderLoses, TypeOK, acceptVars, sessionVars, relayVars
<1> QED
    BY <1>1, <1>2, <1>3, <1>4 DEF Sender

LEMMA TypesAccept ==
    ASSUME TypeOK, TasksInv, AcceptChecks \/ AcceptRegisters
    PROVE  TypeOK'
<1>1. CASE AcceptChecks
    BY <1>1 DEF AcceptChecks, TypeOK, linkVars, muxVars, sessionVars, relayVars
<1>2. CASE AcceptRegisters
  <2>1. next_sid + 1 \in Sids /\ next_sid' \in 0..MaxSessions
    BY <1>2, TunnelAssumption DEF AcceptRegisters, TasksInv, TypeOK, Sids
  <2>2. /\ sessions' \in [Ends -> SUBSET Sids] /\ accepting' \in BOOLEAN
        /\ pc' \in [Ends -> [Sids -> {"none", "accepted", "waiting", "dialing", "relay",
                                      "closing", "dropping", "ended"}]]
    BY <1>2, <2>1, Constants DEF AcceptRegisters, Becomes, TypeOK
  <2> QED
    BY <1>2, <2>1, <2>2 DEF AcceptRegisters, TypeOK, linkVars, muxVars, relayVars
<1> QED
    BY <1>1, <1>2

LEMMA TypesConnect ==
    ASSUME TypeOK, NEW s \in Sids, ConnectSteps(s)
    PROVE  TypeOK'
<1>q. /\ inbox \in [Ends -> [Sids -> Seq(Frame)]] /\ <<>> \in Seq(Frame) /\ Client \in Ends
      /\ Links \subseteq Ends
    BY EmptySeq, Constants DEF TypeOK
<1>1. /\ data_sender_buf' \in [Ends -> Seq(Frame)]
      /\ \A x \in Ends : Len(data_sender_buf'[x]) <= Capacity
  <2>1. CASE \E e \in Ends, type \in FrameTypes : Send(e, type, s, 0)
    BY <2>1, TypesSend
  <2>2. CASE data_sender_buf' = data_sender_buf
    BY <2>2 DEF TypeOK
  <2> QED
    BY <1>q, <2>1, <2>2 DEF ConnectSteps, HandshakeFails, Connect, GetsOk, GetsErr, Discards, GivesUp,
                      DialSucceeds, DialFails, FrameTypes, muxVars
<1>2. inbox' \in [Ends -> [Sids -> Seq(Frame)]]
  <2>1. CASE GetsOk(s) \/ GetsErr(s) \/ Discards(s)
    <3>1. inbox[Client][s] # <<>> /\ inbox' = [inbox EXCEPT ![Client][s] = Tail(inbox[Client][s])]
      BY <2>1 DEF GetsOk, GetsErr, Discards, InboxHas, Pop
    <3>2. Tail(inbox[Client][s]) \in Seq(Frame)
      BY <1>q, <3>1, TailProps
    <3> QED
      BY <1>q, <3>1, <3>2
  <2>2. CASE ~(GetsOk(s) \/ GetsErr(s) \/ Discards(s))
    <3>1. inbox' = inbox \/ \E e \in Ends : inbox' = [inbox EXCEPT ![e][s] = <<>>]
      BY <1>q, <2>2 DEF ConnectSteps, HandshakeFails, Connect, GivesUp, DialSucceeds, DialFails
    <3>2. ASSUME NEW e \in Ends, inbox' = [inbox EXCEPT ![e][s] = <<>>]
          PROVE  inbox' \in [Ends -> [Sids -> Seq(Frame)]]
      <4>1. [inbox EXCEPT ![e][s] = <<>>] \in [Ends -> [Sids -> Seq(Frame)]]
        BY <1>q, Cell
      <4> QED
        BY <3>2, <4>1
    <3>3. CASE inbox' = inbox
      BY <1>q, <3>3
    <3> QED
      BY <3>1, <3>2, <3>3
  <2> QED
    BY <2>1, <2>2
<1>3. pc' \in [Ends -> [Sids -> {"none", "accepted", "waiting", "dialing", "relay",
                                 "closing", "dropping", "ended"}]]
  <2>1. pc \in [Ends -> [Sids -> {"none", "accepted", "waiting", "dialing", "relay",
                                  "closing", "dropping", "ended"}]]
    BY DEF TypeOK
  <2>2. pc' = pc \/ \E e \in Ends, p \in {"none", "accepted", "waiting", "dialing", "relay", "closing",
                                         "dropping", "ended"} : Becomes(e, s, p)
    BY <1>q DEF ConnectSteps, HandshakeFails, Connect, GetsOk, GetsErr, Discards, GivesUp,
           DialSucceeds, DialFails
  <2> QED
    BY <2>1, <2>2 DEF Becomes
<1>4. tasks' \in [Ends -> [Sids -> SUBSET {Reader, Writer}]]
  <2>1. tasks' = tasks \/ \E e \in Ends : tasks' = [tasks EXCEPT ![e][s] = {Reader, Writer}]
    BY <1>q DEF ConnectSteps, HandshakeFails, Connect, GetsOk, GetsErr, Discards, GivesUp,
           DialSucceeds, DialFails,
             relayVars
  <2>2. tasks \in [Ends -> [Sids -> SUBSET {Reader, Writer}]] /\ {Reader, Writer} \in SUBSET {Reader, Writer}
    BY DEF TypeOK
  <2> QED
    BY <2>1, <2>2, Cell
<1>5. /\ why' \in [Ends -> [Sids -> {"none", "refused", "timeout", "eof", "write_error",
                                     "closed", "lost"}]]
      /\ reply' \in [Sids -> {"none", "success"}]
  <2>1. \/ why' = why
        \/ \E r \in {"refused", "timeout"} : why' = [why EXCEPT ![Client][s] = r]
    BY DEF ConnectSteps, HandshakeFails, Connect, GetsOk, GetsErr, Discards, GivesUp,
           DialSucceeds, DialFails,
           relayVars
  <2>2. why' \in [Ends -> [Sids -> Whys]]
    <3>1. {"refused", "timeout"} \in SUBSET Whys
      BY DEF Whys
    <3> QED
      BY <1>q, <2>1, <3>1, WhyCell
  <2>3. reply' = reply \/ reply' = [reply EXCEPT ![s] = "success"]
    BY DEF ConnectSteps, HandshakeFails, Connect, GetsOk, GetsErr, Discards, GivesUp,
           DialSucceeds, DialFails
  <2>4. reply' \in [Sids -> {"none", "success"}]
    BY <2>3 DEF TypeOK
  <2> QED
    BY <2>2, <2>4 DEF Whys
<1>6. UNCHANGED <<linkVars, rx, link_id, sending, sessions, acceptVars, holding, read, written>>
    BY DEF ConnectSteps, HandshakeFails, Connect, GetsOk, GetsErr, Discards, GivesUp,
           DialSucceeds, DialFails,
           relayVars, muxVars
<1> QED
    BY <1>1, <1>2, <1>3, <1>4, <1>5, <1>6 DEF TypeOK, linkVars, acceptVars

(* The end of one task of a relay.                                         *)
TaskSteps(e, s) ==
    Aborted(e, s) \/ ReadEnds(e, s) \/ WriteFails(e, s) \/ GetsClose(e, s) \/ ChannelCloses(e, s)

LEMMA TaskStep ==
    ASSUME NEW e \in Ends, NEW s \in Sids, TaskSteps(e, s)
    PROVE  \E t \in tasks[e][s] :
              /\ TaskEnds(e, s, t)
              /\ UNCHANGED <<linkVars, rx, muxVars, sessions, acceptVars, reply, read, written>>
              /\ \/ pc[e][s] # "relay" /\ UNCHANGED <<pc, why>>
                 \/ /\ pc[e][s] = "relay" /\ Becomes(e, s, "closing")
                    /\ \/ t = Reader /\ ~holding[e][s] /\ why' = [why EXCEPT ![e][s] = "eof"]
                       \/ t = Writer /\ GetsClose(e, s) /\ why' = [why EXCEPT ![e][s] = "closed"]
                       \/ \E r \in {"write_error", "lost"} :
                             t = Writer /\ why' = [why EXCEPT ![e][s] = r]
<1>1. CASE Aborted(e, s)
    BY <1>1 DEF Aborted
<1>2. CASE ReadEnds(e, s)
    BY <1>2 DEF ReadEnds, Finish, Running
<1>3. CASE WriteFails(e, s) \/ ChannelCloses(e, s)
    BY <1>3 DEF WriteFails, ChannelCloses, Finish, Running
<1>4. CASE GetsClose(e, s)
    BY <1>4 DEF GetsClose, Finish, Running
<1> QED
    BY <1>1, <1>2, <1>3, <1>4 DEF TaskSteps

LEMMA TypesTask ==
    ASSUME TypeOK, NEW e \in Ends, NEW s \in Sids, TaskSteps(e, s)
    PROVE  TypeOK'
<1>1. PICK t \in tasks[e][s] :
              /\ TaskEnds(e, s, t)
              /\ UNCHANGED <<linkVars, rx, muxVars, sessions, acceptVars, reply, read, written>>
              /\ \/ UNCHANGED <<pc, why>>
                 \/ /\ Becomes(e, s, "closing")
                    /\ \E r \in {"eof", "closed", "write_error", "lost"} : why' = [why EXCEPT ![e][s] = r]
    BY TaskStep
<1>2. inbox' \in [Ends -> [Sids -> Seq(Frame)]]
    BY <1>1, EmptySeq DEF TaskEnds, TypeOK
<1>3. tasks' \in [Ends -> [Sids -> SUBSET {Reader, Writer}]]
    BY <1>1 DEF TaskEnds, TypeOK
<1>4. holding' \in [Ends -> [Sids -> BOOLEAN]]
  <2>1. (holding[e][s] /\ t # Reader) \in BOOLEAN
    OBVIOUS
  <2>2. holding \in [Ends -> [Sids -> BOOLEAN]] /\ holding' = [holding EXCEPT ![e][s] = @ /\ t # Reader]
    BY <1>1 DEF TaskEnds, TypeOK
  <2> QED
    BY <2>1, <2>2, Cell
<1>5. /\ pc' \in [Ends -> [Sids -> {"none", "accepted", "waiting", "dialing", "relay",
                                    "closing", "dropping", "ended"}]]
      /\ why' \in [Ends -> [Sids -> {"none", "refused", "timeout", "eof", "write_error",
                                     "closed", "lost"}]]
  <2>1. pc' = pc \/ Becomes(e, s, "closing")
    BY <1>1
  <2>2. why' = why \/ \E r \in {"eof", "closed", "write_error", "lost"} : why' = [why EXCEPT ![e][s] = r]
    BY <1>1
  <2>3. why' \in [Ends -> [Sids -> Whys]]
    <3>1. {"eof", "closed", "write_error", "lost"} \in SUBSET Whys
      BY DEF Whys
    <3> QED
      BY <2>2, <3>1, WhyCell
  <2>4. pc' \in [Ends -> [Sids -> Pcs]]
    <3>1. "closing" \in Pcs
      BY DEF Pcs
    <3> QED
      BY <2>1, <3>1, PcCell
  <2> QED
    BY <2>3, <2>4 DEF Whys, Pcs
<1> QED
    BY <1>1, <1>2, <1>3, <1>4, <1>5 DEF TypeOK, linkVars, muxVars, acceptVars

LEMMA TypesRelay ==
    ASSUME TypeOK, NEW e \in Ends, NEW s \in Sids, Relays(e, s) \/ Sockets(e, s)
    PROVE  TypeOK'
<1>1. CASE ReadsData(e, s)
  <2>1. read' \in [Ends -> [Sids -> Nat]] /\ holding' \in [Ends -> [Sids -> BOOLEAN]]
    <3>1. read[e][s] + 1 \in Nat /\ TRUE \in BOOLEAN
      BY DEF TypeOK
    <3>2. read' = [read EXCEPT ![e][s] = read[e][s] + 1] /\ holding' = [holding EXCEPT ![e][s] = TRUE]
      BY <1>1 DEF ReadsData
    <3> QED
      BY <3>1, <3>2, Cell DEF TypeOK
  <2> QED
    BY <1>1, <2>1 DEF ReadsData, TypeOK, linkVars, muxVars, acceptVars
<1>2. CASE SendsData(e, s)
  <2>1. /\ data_sender_buf' \in [Ends -> Seq(Frame)]
        /\ \A x \in Ends : Len(data_sender_buf'[x]) <= Capacity
    <3>1. read[e][s] \in Nat /\ "Data" \in FrameTypes
      BY DEF TypeOK, FrameTypes
    <3> QED
      BY <1>2, <3>1, TypesSend DEF SendsData
  <2>2. holding' \in [Ends -> [Sids -> BOOLEAN]]
    BY <1>2, Cell DEF SendsData, TypeOK
  <2> QED
    BY <1>2, <2>1, <2>2 DEF SendsData, TypeOK, linkVars, acceptVars
<1>3. CASE Writes(e, s)
  <2>1. /\ inbox[e][s] # <<>> /\ inbox' = [inbox EXCEPT ![e][s] = Tail(inbox[e][s])]
        /\ inbox \in [Ends -> [Sids -> Seq(Frame)]] /\ written \in [Ends -> [Sids -> Seq(Frame)]]
        /\ written' = [written EXCEPT ![e][s] = Append(written[e][s], Head(inbox[e][s]))]
    BY <1>3 DEF Writes, InboxHas, Pop, TypeOK
  <2>2. Tail(inbox[e][s]) \in Seq(Frame) /\ Head(inbox[e][s]) \in Frame
    BY <2>1, TailProps
  <2>3. Append(written[e][s], Head(inbox[e][s])) \in Seq(Frame)
    BY <2>1, <2>2, AppendProps
  <2>4. inbox' \in [Ends -> [Sids -> Seq(Frame)]] /\ written' \in [Ends -> [Sids -> Seq(Frame)]]
    BY <2>1, <2>2, <2>3, Cell
  <2> QED
    BY <1>3, <2>4 DEF Writes, TypeOK, linkVars, muxVars, acceptVars
<1>4. CASE Closes(e, s)
  <2>1. /\ data_sender_buf' \in [Ends -> Seq(Frame)]
        /\ \A x \in Ends : Len(data_sender_buf'[x]) <= Capacity
    BY <1>4, TypesSend DEF Closes, FrameTypes
  <2>2. pc' \in [Ends -> [Sids -> {"none", "accepted", "waiting", "dialing", "relay",
                                   "closing", "dropping", "ended"}]]
    BY <1>4 DEF Closes, Becomes, TypeOK
  <2> QED
    BY <1>4, <2>1, <2>2 DEF Closes, TypeOK, linkVars, acceptVars, relayVars
<1>5. CASE DropsSession(e, s)
  <2>1. sessions' \in [Ends -> SUBSET Sids]
    BY <1>5 DEF DropsSession, TypeOK
  <2>2. pc' \in [Ends -> [Sids -> {"none", "accepted", "waiting", "dialing", "relay",
                                   "closing", "dropping", "ended"}]]
    BY <1>5 DEF DropsSession, Becomes, TypeOK
  <2> QED
    BY <1>5, <2>1, <2>2 DEF DropsSession, TypeOK, linkVars, muxVars, acceptVars, relayVars
<1>6. CASE TaskSteps(e, s)
    BY <1>6, TypesTask
<1> QED
    BY <1>1, <1>2, <1>3, <1>4, <1>5, <1>6 DEF Relays, Sockets, TaskSteps

LEMMA TypesStep == TypeOK /\ TasksInv /\ [Next]_vars => TypeOK'
<1> SUFFICES ASSUME TypeOK, TasksInv, [Next]_vars PROVE TypeOK'
    OBVIOUS
<1>1. CASE UNCHANGED vars
    BY <1>1 DEF vars, linkVars, muxVars, acceptVars, sessionVars, relayVars, TypeOK
<1> QED
    BY <1>1, TypesLink, TypesLoop, TypesSender, TypesAccept, TypesConnect, TypesRelay DEF Next

-----------------------------------------------------------------------------
(* What the operations on queues do to the numbers in them.                *)
ClosesIt(f, p, s) == f.type = "Close" /\ f.sid = s /\ f.from = p

LEMMA StartsHead ==
    ASSUME NEW q \in Seq(Events), q # <<>>, NEW p, NEW s, NEW a \in Nat, NEW m \in Nat,
           Starts(q, p, s, a, m)
    PROVE  /\ Numbered(Head(q), p, s) => Head(q).n = a
           /\ ClosesIt(Head(q), p, s) => m < a
<1>1. Head(q) = q[1] /\ Head(q).n \in Nat /\ Len(q) \in Nat \ {0}
    BY TailProps, Kinds
<1>2. \A n : ~Before(q, 1, p, s, n)
    BY DEF Before
<1>3. /\ Numbered(q[1], p, s) => a <= q[1].n /\ \A n \in a..(q[1].n - 1) : Before(q, 1, p, s, n)
      /\ ClosesIt(q[1], p, s) => \A n \in a..m : Before(q, 1, p, s, n)
    BY <1>1 DEF Starts, ClosesIt
<1>4. ASSUME Numbered(Head(q), p, s) PROVE Head(q).n = a
  <2>1. CASE a <= q[1].n - 1
    BY <1>1, <1>2, <1>3, <1>4, <2>1
  <2> QED
    BY <1>1, <1>3, <1>4, <2>1
<1>5. ASSUME ClosesIt(Head(q), p, s) PROVE m < a
    BY <1>1, <1>2, <1>3, <1>5
<1> QED
    BY <1>4, <1>5

LEMMA StartsTail ==
    ASSUME NEW q \in Seq(Events), q # <<>>, NEW p, NEW s, NEW a \in Nat, NEW m \in Nat,
           Starts(q, p, s, a, m)
    PROVE  Starts(Tail(q), p, s, IF Numbered(Head(q), p, s) THEN a + 1 ELSE a, m)
<1> DEFINE b == IF Numbered(Head(q), p, s) THEN a + 1 ELSE a
           t == Tail(q)
<1>1. /\ Head(q) = q[1] /\ Len(q) \in Nat \ {0} /\ t \in Seq(Events) /\ Len(t) = Len(q) - 1
      /\ \A i \in 1..Len(t) : t[i] = q[i + 1] /\ i + 1 \in 1..Len(q) /\ q[i + 1].n \in Nat
      /\ b \in Nat /\ a <= b
  <2>1. /\ Head(q) = q[1] /\ Len(q) \in Nat \ {0} /\ t \in Seq(Events) /\ Len(t) = Len(q) - 1
        /\ \A i \in 1..Len(t) : t[i] = q[i + 1]
    BY TailProps
  <2>2. \A i \in 1..Len(q) : q[i].n \in Nat
    BY Kinds, ElementOfSeq
  <2>3. \A i \in 1..Len(t) : i + 1 \in 1..Len(q)
    BY <2>1
  <2>4. b \in Nat /\ a <= b
    OBVIOUS
  <2> QED
    BY <2>1, <2>2, <2>3, <2>4
<1>2. Numbered(q[1], p, s) => q[1].n = a
    BY <1>1, StartsHead
<1>3. ASSUME NEW i \in 1..Len(t), NEW n \in Nat, b <= n, Before(q, i + 1, p, s, n)
      PROVE  Before(t, i, p, s, n)
  <2>1. PICK j \in 1..i : Numbered(q[j], p, s) /\ q[j].n = n
    BY <1>3 DEF Before
  <2>2. j # 1
    BY <1>1, <1>2, <1>3, <2>1
  <2>3. j - 1 \in 1..(i - 1) /\ j - 1 \in 1..Len(t)
    BY <1>1, <2>2
  <2>4. t[j - 1] = q[j]
    BY <1>1, <2>3
  <2> QED
    BY <2>1, <2>3, <2>4 DEF Before
<1> SUFFICES ASSUME NEW i \in 1..Len(t)
             PROVE  /\ Numbered(t[i], p, s) =>
                          /\ b <= t[i].n
                          /\ \A n \in b..(t[i].n - 1) : Before(t, i, p, s, n)
                          /\ \A j \in 1..(i - 1) : Numbered(t[j], p, s) => t[j].n < t[i].n
                    /\ t[i].type = "Close" /\ t[i].sid = s /\ t[i].from = p =>
                          \A n \in b..m : Before(t, i, p, s, n)
    BY DEF Starts
<1>4. i + 1 \in 1..Len(q) /\ t[i] = q[i + 1] /\ t[i].n \in Nat
    BY <1>1
<1>5. ASSUME Numbered(t[i], p, s)
      PROVE  /\ b <= t[i].n
             /\ \A n \in b..(t[i].n - 1) : Before(t, i, p, s, n)
             /\ \A j \in 1..(i - 1) : Numbered(t[j], p, s) => t[j].n < t[i].n
  <2>1. /\ a <= q[i + 1].n
        /\ \A n \in a..(q[i + 1].n - 1) : Before(q, i + 1, p, s, n)
        /\ \A j \in 1..i : Numbered(q[j], p, s) => q[j].n < q[i + 1].n
    <3>1. i + 1 - 1 = i
      OBVIOUS
    <3> QED
      BY <1>4, <1>5, <3>1 DEF Starts
  <2>2. b <= t[i].n
    <3>1. 1 \in 1..i
      OBVIOUS
    <3> QED
      BY <1>1, <1>2, <1>4, <2>1, <3>1
  <2>3. ASSUME NEW n \in b..(t[i].n - 1) PROVE Before(t, i, p, s, n)
    <3>1. n \in a..(q[i + 1].n - 1) /\ n \in Nat /\ b <= n
      BY <1>1, <1>4
    <3> QED
      BY <1>3, <2>1, <3>1
  <2>4. ASSUME NEW j \in 1..(i - 1), Numbered(t[j], p, s) PROVE t[j].n < t[i].n
    <3>1. j \in 1..Len(t) /\ j + 1 \in 1..i
      BY <1>1
    <3> QED
      BY <1>1, <1>4, <2>1, <2>4, <3>1
  <2> QED
    BY <2>2, <2>3, <2>4
<1>6. ASSUME ClosesIt(t[i], p, s) PROVE \A n \in b..m : Before(t, i, p, s, n)
  <2>1. \A n \in a..m : Before(q, i + 1, p, s, n)
    BY <1>4, <1>6 DEF Starts, ClosesIt
  <2>2. ASSUME NEW n \in b..m PROVE n \in a..m /\ n \in Nat /\ b <= n
    BY <1>1
  <2> QED
    BY <1>3, <2>1, <2>2
<1> QED
    BY <1>5, <1>6 DEF ClosesIt

LEMMA ChainTail ==
    ASSUME NEW q \in Seq(Events), q # <<>>, NEW p, NEW s, NEW a \in Nat, NEW b \in Nat, NEW m \in Nat,
           Chain(q, p, s, a, b, m)
    PROVE  Chain(Tail(q), p, s, IF Numbered(Head(q), p, s) THEN a + 1 ELSE a, b, m)
<1> DEFINE c == IF Numbered(Head(q), p, s) THEN a + 1 ELSE a
           t == Tail(q)
<1>1. /\ Head(q) = q[1] /\ Len(q) \in Nat \ {0} /\ Len(t) = Len(q) - 1 /\ c \in Nat /\ a <= c
      /\ \A i \in 1..Len(t) : t[i] = q[i + 1] /\ i + 1 \in 1..Len(q)
    BY TailProps
<1>2. Starts(t, p, s, c, m) /\ (Numbered(q[1], p, s) => q[1].n = a)
    BY <1>1, StartsTail, StartsHead DEF Chain
<1>3. c <= b /\ \A i \in 1..Len(t) : Numbered(t[i], p, s) => t[i].n < b
  <2>1. a <= b /\ \A i \in 1..Len(q) : Numbered(q[i], p, s) => q[i].n < b
    BY DEF Chain
  <2>2. Numbered(q[1], p, s) => a < b
    BY <1>1, <1>2, <2>1
  <2> QED
    BY <1>1, <2>1, <2>2
<1>4. ASSUME NEW n \in c..(b - 1) PROVE Before(t, Len(t) + 1, p, s, n)
  <2>1. n \in a..(b - 1)
    BY <1>1
  <2>2. PICK j \in 1..Len(q) : Numbered(q[j], p, s) /\ q[j].n = n
    <3>1. Len(q) + 1 - 1 = Len(q)
      BY <1>1
    <3> QED
      BY <2>1, <3>1 DEF Chain, Before
  <2>3. j # 1
    BY <1>1, <1>2, <2>2
  <2>4. j - 1 \in 1..(Len(t) + 1 - 1) /\ j - 1 \in 1..Len(t)
    BY <1>1, <2>3
  <2>5. t[j - 1] = q[j]
    BY <1>1, <2>4
  <2> HIDE DEF t
  <2> QED
    BY <2>2, <2>4, <2>5 DEF Before
<1> HIDE DEF t, c
<1>5. Chain(t, p, s, c, b, m)
    BY <1>2, <1>3, <1>4 DEF Chain
<1> QED
    BY <1>5 DEF t, c

LEMMA StartsAppend ==
    ASSUME NEW q \in Seq(Events), NEW f \in Events, NEW p, NEW s, NEW a \in Nat, NEW m \in Nat,
           Starts(q, p, s, a, m),
           Numbered(f, p, s) =>
              /\ a <= f.n
              /\ \A n \in a..(f.n - 1) : Before(q, Len(q) + 1, p, s, n)
              /\ \A j \in 1..Len(q) : Numbered(q[j], p, s) => q[j].n < f.n,
           ClosesIt(f, p, s) => \A n \in a..m : Before(q, Len(q) + 1, p, s, n)
    PROVE  Starts(Append(q, f), p, s, a, m)
<1> DEFINE t == Append(q, f)
<1>1. /\ Len(q) \in Nat /\ Len(t) = Len(q) + 1 /\ t[Len(q) + 1] = f
      /\ \A i \in 1..Len(q) : t[i] = q[i]
    BY AppendProps
<1>2. ASSUME NEW i \in 1..(Len(q) + 1), NEW n, Before(q, i, p, s, n) PROVE Before(t, i, p, s, n)
  <2>1. PICK j \in 1..(i - 1) : Numbered(q[j], p, s) /\ q[j].n = n
    BY <1>2 DEF Before
  <2>2. j \in 1..Len(q)
    BY <1>1
  <2> QED
    BY <1>1, <2>1, <2>2 DEF Before
<1> HIDE DEF t
<1> SUFFICES ASSUME NEW i \in 1..Len(t)
             PROVE  /\ Numbered(t[i], p, s) =>
                          /\ a <= t[i].n
                          /\ \A n \in a..(t[i].n - 1) : Before(t, i, p, s, n)
                          /\ \A j \in 1..(i - 1) : Numbered(t[j], p, s) => t[j].n < t[i].n
                    /\ ClosesIt(t[i], p, s) => \A n \in a..m : Before(t, i, p, s, n)
    BY DEF Starts, t, ClosesIt
<1>3. \A j \in 1..(i - 1) : j \in 1..Len(q) /\ t[j] = q[j]
    BY <1>1
<1>4. CASE i \in 1..Len(q)
  <2>1. /\ Numbered(q[i], p, s) =>
              /\ a <= q[i].n
              /\ \A n \in a..(q[i].n - 1) : Before(q, i, p, s, n)
              /\ \A j \in 1..(i - 1) : Numbered(q[j], p, s) => q[j].n < q[i].n
        /\ ClosesIt(q[i], p, s) => \A n \in a..m : Before(q, i, p, s, n)
    BY <1>4 DEF Starts, ClosesIt
  <2>2. t[i] = q[i] /\ i \in 1..(Len(q) + 1)
    BY <1>1, <1>4
  <2> QED
    BY <1>2, <1>3, <2>1, <2>2
<1>5. CASE i = Len(q) + 1
  <2>1. t[i] = f /\ i \in 1..(Len(q) + 1)
    BY <1>1, <1>5
  <2> QED
    BY <1>2, <1>3, <1>5, <2>1
<1> QED
    BY <1>1, <1>4, <1>5

LEMMA ChainAppend ==
    ASSUME NEW q \in Seq(Events), NEW f \in Events, NEW p, NEW s, NEW a \in Nat, NEW b \in Nat,
           NEW m \in Nat, Chain(q, p, s, a, b, m),
           Numbered(f, p, s) => f.n = b, ClosesIt(f, p, s) => m < b
    PROVE  Chain(Append(q, f), p, s, a, IF Numbered(f, p, s) THEN b + 1 ELSE b, m)
<1> DEFINE t == Append(q, f)
           c == IF Numbered(f, p, s) THEN b + 1 ELSE b
<1>1. /\ Len(q) \in Nat /\ Len(t) = Len(q) + 1 /\ t[Len(q) + 1] = f
      /\ \A i \in 1..Len(q) : t[i] = q[i] /\ q[i].n \in Nat
    BY AppendProps, Kinds, ElementOfSeq
<1>2. /\ a <= b /\ Starts(q, p, s, a, m)
      /\ \A i \in 1..Len(q) : Numbered(q[i], p, s) => q[i].n < b
      /\ \A n \in a..(b - 1) : Before(q, Len(q) + 1, p, s, n)
    BY DEF Chain
<1>3. ClosesIt(f, p, s) => \A n \in a..m : Before(q, Len(q) + 1, p, s, n)
    BY <1>2
<1>4. Starts(t, p, s, a, m)
    BY <1>2, <1>3, StartsAppend
<1> HIDE DEF t
<1>5. c \in Nat /\ a <= c /\ b <= c
    BY <1>2
<1>6. ASSUME NEW i \in 1..Len(t), Numbered(t[i], p, s) PROVE t[i].n < c
  <2>1. CASE i \in 1..Len(q)
    BY <1>1, <1>2, <1>6, <2>1
  <2>2. CASE i = Len(q) + 1
    BY <1>1, <1>6, <2>2
  <2> QED
    BY <1>1, <2>1, <2>2
<1>7. ASSUME NEW n \in a..(c - 1) PROVE Before(t, Len(t) + 1, p, s, n)
  <2>1. CASE n \in a..(b - 1)
    <3>1. PICK j \in 1..Len(q) : Numbered(q[j], p, s) /\ q[j].n = n
      <4>1. Len(q) + 1 - 1 = Len(q)
        BY <1>1
      <4> QED
        BY <1>2, <2>1, <4>1 DEF Before
    <3>2. j \in 1..(Len(t) + 1 - 1) /\ t[j] = q[j]
      BY <1>1
    <3> QED
      BY <3>1, <3>2 DEF Before
  <2>2. CASE n \notin a..(b - 1)
    <3>1. Numbered(f, p, s) /\ n = b /\ f.n = b
      BY <1>2, <2>2
    <3>2. Len(t) \in 1..(Len(t) + 1 - 1) /\ t[Len(t)] = f
      BY <1>1
    <3> QED
      BY <3>1, <3>2 DEF Before
  <2> QED
    BY <2>1, <2>2
<1> HIDE DEF c
<1>8. Chain(t, p, s, a, c, m)
    BY <1>4, <1>5, <1>6, <1>7 DEF Chain
<1> QED
    BY <1>8 DEF t, c

LEMMA StartsCut ==
    ASSUME NEW q \in Seq(Events), NEW k \in 0..Len(q), NEW p, NEW s, NEW a \in Nat, NEW m \in Nat,
           Starts(q, p, s, a, m)
    PROVE  Starts(Cut(q, k), p, s, a, m)
<1> DEFINE t == SubSeq(q, 1, k)
<1>1. /\ t \in Seq(Events) /\ Len(t) = k /\ Len(q) \in Nat
      /\ \A i \in 1..k : t[i] = q[i] /\ i \in 1..Len(q)
    BY PrefixProps, LenProperties
<1>2. \A i \in 1..k : \A n : Before(q, i, p, s, n) => Before(t, i, p, s, n)
  <2> SUFFICES ASSUME NEW i \in 1..k, NEW n, Before(q, i, p, s, n) PROVE Before(t, i, p, s, n)
    OBVIOUS
  <2>1. PICK j \in 1..(i - 1) : Numbered(q[j], p, s) /\ q[j].n = n
    BY DEF Before
  <2>2. j \in 1..k
    BY <1>1
  <2> QED
    BY <1>1, <2>1, <2>2 DEF Before
<1>3. Starts(t, p, s, a, m)
  <2> HIDE DEF t
  <2> SUFFICES ASSUME NEW i \in 1..Len(t)
               PROVE  /\ Numbered(t[i], p, s) =>
                            /\ a <= t[i].n
                            /\ \A n \in a..(t[i].n - 1) : Before(t, i, p, s, n)
                            /\ \A j \in 1..(i - 1) : Numbered(t[j], p, s) => t[j].n < t[i].n
                      /\ ClosesIt(t[i], p, s) => \A n \in a..m : Before(t, i, p, s, n)
    BY DEF Starts, ClosesIt
  <2>1. /\ Numbered(q[i], p, s) =>
              /\ a <= q[i].n
              /\ \A n \in a..(q[i].n - 1) : Before(q, i, p, s, n)
              /\ \A j \in 1..(i - 1) : Numbered(q[j], p, s) => q[j].n < q[i].n
        /\ ClosesIt(q[i], p, s) => \A n \in a..m : Before(q, i, p, s, n)
    BY <1>1 DEF Starts, ClosesIt
  <2>2. i \in 1..k /\ \A j \in 1..(i - 1) : j \in 1..k
    BY <1>1
  <2> QED
    BY <1>1, <1>2, <2>1, <2>2
<1> DEFINE f == Signal("LinkClosed")
<1>4. f \in Events /\ ~Numbered(f, p, s) /\ ~ClosesIt(f, p, s)
    BY Kinds DEF Numbered, ClosesIt, Signal, LinkEvents
<1> HIDE DEF t, f
<1>5. Starts(Append(t, f), p, s, a, m)
    BY <1>1, <1>3, <1>4, StartsAppend
<1> QED
    BY <1>5 DEF Cut, t, f

(* A queue with nothing from p about s.                                    *)
Silent(q, p, s) == \A i \in 1..Len(q) : ~Numbered(q[i], p, s) /\ ~ClosesIt(q[i], p, s)

LEMMA SilentChain ==
    ASSUME NEW q, NEW p, NEW s, Silent(q, p, s), NEW a \in Nat, NEW m \in Nat
    PROVE  Starts(q, p, s, a, m) /\ Chain(q, p, s, a, a, m)
<1>1. Starts(q, p, s, a, m)
    BY DEF Silent, Starts, ClosesIt
<1>2. \A n \in a..(a - 1) : FALSE
    OBVIOUS
<1>3. \A i \in 1..Len(q) : ~Numbered(q[i], p, s)
    BY DEF Silent
<1> QED
    BY <1>1, <1>2, <1>3 DEF Chain

LEMMA EmptyChain ==
    ASSUME NEW p, NEW s, NEW a \in Nat, NEW m \in Nat
    PROVE  Starts(<<>>, p, s, a, m) /\ Chain(<<>>, p, s, a, a, m)
<1>1. Silent(<<>>, p, s)
    BY DEF Silent
<1> QED
    BY <1>1, SilentChain

LEMMA EmptyOnly ==
    ASSUME NEW p, NEW s, NEW a \in Nat, NEW b \in Nat, NEW m \in Nat, Chain(<<>>, p, s, a, b, m)
    PROVE  a = b
<1>1. a <= b /\ \A n \in a..(b - 1) : Before(<<>>, Len(<<>>) + 1, p, s, n)
    BY DEF Chain
<1>2. \A n : ~Before(<<>>, Len(<<>>) + 1, p, s, n)
    BY DEF Before
<1>3. CASE a < b
    BY <1>1, <1>2, <1>3
<1> QED
    BY <1>1, <1>3

(* Until the CLOSE it does not matter what comes before it.                *)
LEMMA OpenStarts ==
    ASSUME NEW q, NEW p, NEW s, NEW a, NEW m, NEW k, Starts(q, p, s, a, m),
           \A i \in 1..Len(q) : ~ClosesIt(q[i], p, s)
    PROVE  Starts(q, p, s, a, k)
    BY DEF Starts, ClosesIt

LEMMA OpenChain ==
    ASSUME NEW q, NEW p, NEW s, NEW a, NEW b, NEW m, NEW k, Chain(q, p, s, a, b, m),
           \A i \in 1..Len(q) : ~ClosesIt(q[i], p, s)
    PROVE  Chain(q, p, s, a, b, k)
    BY OpenStarts DEF Chain

-----------------------------------------------------------------------------
(* The links.  What the sessions do leaves them alone.                     *)
SessionSteps ==
    \/ AcceptChecks \/ AcceptRegisters
    \/ \E s \in Sids : ConnectSteps(s) \/ \E e \in Ends : Relays(e, s) \/ Sockets(e, s)

LEMMA NextSteps ==
    Next <=> \/ LinkComesUp \/ LinkGoesDown \/ SessionSteps
             \/ \E e \in Ends : EventLoop(e) \/ Sender(e)
    BY DEF Next, SessionSteps

LEMMA SessionFrame ==
    ASSUME TypeOK, TasksInv, SessionSteps
    PROVE  /\ UNCHANGED <<latest, live, cphase, server_muxes, rx, link_id, sending>>
           /\ \A l \in Links, s \in Sids : Serves(l, s)' <=> Serves(l, s)
<1>1. UNCHANGED <<latest, live, cphase, server_muxes, rx, link_id, sending>>
  <2>1. CASE AcceptChecks \/ AcceptRegisters
    BY <2>1 DEF AcceptChecks, AcceptRegisters, linkVars, muxVars
  <2>2. ASSUME NEW s \in Sids, ConnectSteps(s)
        PROVE  UNCHANGED <<latest, live, cphase, server_muxes, rx, link_id, sending>>
    BY <2>2 DEF ConnectSteps, HandshakeFails, Connect, GetsOk, GetsErr, Discards, GivesUp,
           DialSucceeds, DialFails,
                linkVars, muxVars
  <2>3. ASSUME NEW s \in Sids, NEW e \in Ends, Relays(e, s) \/ Sockets(e, s)
        PROVE  UNCHANGED <<latest, live, cphase, server_muxes, rx, link_id, sending>>
    BY <2>3 DEF Relays, Sockets, SendsData, Writes, GetsClose, ChannelCloses, Aborted, Closes,
                DropsSession, ReadsData, ReadEnds, WriteFails, Finish, linkVars, muxVars
  <2> QED
    BY <2>1, <2>2, <2>3 DEF SessionSteps
<1>2. \A l \in Links, s \in Sids : Serves(l, s)' <=> Serves(l, s)
  <2> SUFFICES ASSUME NEW l \in Links, NEW s \in Sids PROVE (pc'[l][s] # "none") <=> (pc[l][s] # "none")
    BY DEF Serves
  <2>0. l \in Ends /\ l # Client /\ pc \in [Ends -> [Sids -> Pcs]] /\ Client \in Ends
    BY Constants DEF TypeOK, Pcs
  <2>1. CASE AcceptChecks \/ AcceptRegisters
    BY <2>0, <2>1 DEF AcceptChecks, AcceptRegisters, Becomes, sessionVars
  <2>2. ASSUME NEW t \in Sids, ConnectSteps(t) PROVE (pc'[l][s] # "none") <=> (pc[l][s] # "none")
    <3>1. \/ UNCHANGED pc
          \/ \E p \in Pcs : Becomes(Client, t, p)
          \/ \E k \in Links, p \in {"relay", "dropping"} : pc[k][t] = "dialing" /\ Becomes(k, t, p)
      BY <2>2 DEF ConnectSteps, HandshakeFails, Connect, GetsOk, GetsErr, Discards, GivesUp, DialSucceeds,
                  DialFails, Pcs
    <3> QED
      BY <2>0, <3>1, Constants DEF Becomes
  <2>3. ASSUME NEW t \in Sids, NEW e \in Ends, Relays(e, t) \/ Sockets(e, t)
        PROVE  (pc'[l][s] # "none") <=> (pc[l][s] # "none")
    <3>1. \/ UNCHANGED pc
          \/ \E p \in {"closing", "dropping", "ended"} : pc[e][t] # "none" /\ Becomes(e, t, p)
      <4>1. CASE TaskSteps(e, t)
        BY <4>1, TaskStep
      <4>2. CASE ~TaskSteps(e, t)
        BY <2>3, <4>2 DEF Relays, Sockets, TaskSteps, SendsData, Writes, Closes, DropsSession, ReadsData
      <4> QED
        BY <4>1, <4>2
    <3> QED
      BY <2>0, <3>1 DEF Becomes
  <2> QED
    BY <2>1, <2>2, <2>3 DEF SessionSteps
<1> QED
    BY <1>1, <1>2

(* What taking an event off an end's queue leaves.                         *)
LEMMA TakeProps ==
    ASSUME TypeOK, NEW e \in Ends, rx[e] # <<>>, Take(e)
    PROVE  /\ Head(rx[e]) = rx[e][1] /\ Head(rx[e]) \in Events /\ Len(rx[e]) \in Nat \ {0}
           /\ rx'[e] = Tail(rx[e]) /\ rx'[e] \in Seq(Events) /\ Len(rx'[e]) = Len(rx[e]) - 1
           /\ \A i \in 1..Len(rx'[e]) : rx'[e][i] = rx[e][i + 1] /\ i + 1 \in 1..Len(rx[e])
           /\ \A x \in Ends : x # e => rx'[x] = rx[x]
           /\ rx'[e] # <<>> => Head(rx'[e]) = rx[e][2] /\ 2 \in 1..Len(rx[e])
           /\ rx'[e] = <<>> => Len(rx[e]) = 1
<1>1. rx \in [Ends -> Seq(Events)] /\ rx' = [rx EXCEPT ![e] = Tail(rx[e])]
    BY DEF TypeOK, Take
<1>2. /\ Head(rx[e]) = rx[e][1] /\ Head(rx[e]) \in Events /\ Len(rx[e]) \in Nat \ {0}
      /\ rx'[e] = Tail(rx[e]) /\ rx'[e] \in Seq(Events) /\ Len(rx'[e]) = Len(rx[e]) - 1
      /\ \A i \in 1..Len(rx'[e]) : rx'[e][i] = rx[e][i + 1]
    BY <1>1, TailProps
<1>3. rx'[e] # <<>> => Head(rx'[e]) = rx'[e][1] /\ Len(rx'[e]) \in Nat \ {0}
    BY <1>2, TailProps
<1>4. rx'[e] = <<>> => Len(rx'[e]) = 0
    BY EmptySeq
<1> QED
    BY <1>1, <1>2, <1>3, <1>4

LEMMA LinkInvUp ==
    ASSUME TypeOK, LinkInv, LinkComesUp
    PROVE  LinkInv'
<1> DEFINE q == <<Signal("LinkEstablished")>>
<1>1. /\ rx \in [Ends -> Seq(Events)] /\ Client \in Ends /\ latest \in Nat /\ latest + 1 \in Links
      /\ latest + 1 \in Ends /\ latest + 1 # Client
    BY Constants, TunnelAssumption DEF TypeOK, LinkComesUp, Links, Client
<1>2. Len(q) = 1 /\ q[1].type = "LinkEstablished" /\ q # <<>> /\ Head(q) = q[1]
    BY DEF Signal
<1>3. /\ cphase = "reconnect" /\ cphase' = "reconnect" /\ live' /\ rx'[Client] = q /\ rx'[latest + 1] = q
      /\ \A e \in Ends : e # Client /\ e # latest + 1 => rx'[e] = rx[e]
      /\ latest' = latest + 1 /\ link_id' = link_id /\ sending' = sending
    BY <1>1 DEF LinkComesUp, muxVars
<1> HIDE DEF q
<1>4. \A e \in Ends : \A i \in 1..Len(rx'[e]) : rx'[e][i].type = "LinkEstablished" => i = 1
  <2> SUFFICES ASSUME NEW e \in Ends, NEW i \in 1..Len(rx'[e]), rx'[e][i].type = "LinkEstablished"
               PROVE  i = 1
    OBVIOUS
  <2>1. CASE rx'[e] = q
    <3>1. Len(rx'[e]) = 1
      BY <1>2, <2>1
    <3> QED
      BY <3>1
  <2>2. CASE rx'[e] = rx[e]
    BY <2>2 DEF LinkInv
  <2> QED
    BY <1>1, <1>3, <2>1, <2>2
<1>5. /\ \A i \in 1..Len(rx'[Client]) : rx'[Client][i].type # "LinkClosed"
      /\ Head(rx'[Client]).type = "LinkEstablished" /\ rx'[Client] # <<>>
  <2>1. \A i \in 1..Len(q) : i = 1
    BY <1>2
  <2>2. q[1].type # "LinkClosed"
    BY <1>2
  <2> QED
    BY <1>2, <1>3, <2>1, <2>2
<1>6. link_id'[Client] = None
    BY <1>3 DEF LinkInv
<1>7. sending'[Client] # Idle => sending'[Client].link <= latest' /\ sending'[Client].link < latest'
  <2>1. sending[Client] # Idle => sending[Client].link <= latest /\ sending[Client].link \in Nat
    BY <1>1, Constants DEF LinkInv, TypeOK, Links
  <2> QED
    BY <1>1, <1>3, <2>1
<1>8. latest' # 0 /\ \A l \in Links : link_id'[l] \in {None, l} /\ (sending'[l] # Idle => sending'[l].link = l)
    BY <1>1, <1>3 DEF LinkInv
<1> QED
    BY <1>3, <1>4, <1>5, <1>6, <1>7, <1>8 DEF LinkInv, Unattached

(* What a cut leaves of a queue that is cut.                               *)
LEMMA CutProps ==
    ASSUME NEW q \in Seq(Events), NEW k \in MayKeep(q)
    PROVE  LET c == Cut(q, k) IN
           /\ c \in Seq(Events) /\ c # <<>> /\ Len(c) = k + 1 /\ Len(q) \in Nat /\ k \in 0..Len(q)
           /\ c[k + 1] = Signal("LinkClosed") /\ c[k + 1].type = "LinkClosed"
           /\ \A i \in 1..Len(c) : i # k + 1 => c[i] = q[i] /\ i \in 1..k /\ i \in 1..Len(q)
           /\ Head(c) = c[1]
           /\ k = 0 => q = <<>> \/ q[1].type # "LinkEstablished"
<1> DEFINE t == SubSeq(q, 1, k)
           f == Signal("LinkClosed")
<1>1. k \in 0..Len(q) /\ Len(q) \in Nat /\ (k = 0 => q = <<>> \/ q[1].type # "LinkEstablished")
    BY LenProperties DEF MayKeep
<1>2. t \in Seq(Events) /\ Len(t) = k /\ \A i \in 1..k : t[i] = q[i] /\ i \in 1..Len(q)
    BY <1>1, PrefixProps
<1>3. f \in Events /\ f.type = "LinkClosed"
    BY Kinds DEF LinkEvents
<1> HIDE DEF t, f
<1> DEFINE c == Append(t, f)
<1>4. /\ c \in Seq(Events) /\ c # <<>> /\ Len(c) = Len(t) + 1
      /\ \A i \in 1..Len(t) : c[i] = t[i]
      /\ c[Len(t) + 1] = f
    BY <1>2, <1>3, AppendProps
<1>5. Head(c) = c[1]
    BY <1>4, TailProps
<1>6. Cut(q, k) = c
    BY DEF Cut, t, f
<1> HIDE DEF c
<1>7. \A i \in 1..Len(c) : i # k + 1 => c[i] = q[i] /\ i \in 1..k /\ i \in 1..Len(q)
    BY <1>1, <1>2, <1>4
<1> QED
    BY <1>1, <1>2, <1>3, <1>4, <1>5, <1>6, <1>7 DEF f

LEMMA LinkIsNewest ==
    ASSUME TypeOK, LinkInv, live
    PROVE  latest \in Links /\ latest \in Ends /\ latest # Client /\ cphase # "clearing"
<1>1. latest \in Nat /\ latest <= MaxLinks
    BY TunnelAssumption DEF TypeOK
<1>2. cphase # "clearing" /\ latest # 0
    BY DEF LinkInv
<1>3. latest \in Links
    BY <1>1, <1>2, TunnelAssumption DEF Links
<1> QED
    BY <1>2, <1>3, Constants

LEMMA LinkInvDown ==
    ASSUME TypeOK, LinkInv, LinkGoesDown
    PROVE  LinkInv'
<1>1. /\ rx \in [Ends -> Seq(Events)] /\ Client \in Ends /\ latest \in Ends /\ latest # Client
      /\ latest # 0 /\ live
    BY LinkIsNewest, TunnelAssumption, Constants DEF TypeOK, LinkGoesDown, Client, Links
<1>2. PICK j \in MayKeep(rx[Client]), k \in MayKeep(rx[latest]) :
          rx' = [rx EXCEPT ![Client] = Cut(@, j), ![latest] = Cut(@, k)]
    BY DEF LinkGoesDown
<1> DEFINE a == Cut(rx[Client], j)
           b == Cut(rx[latest], k)
<1>3. /\ rx'[Client] = a /\ rx'[latest] = b
      /\ \A e \in Ends : e # Client /\ e # latest => rx'[e] = rx[e]
      /\ ~live' /\ UNCHANGED <<latest, cphase, link_id, sending>>
    BY <1>1, <1>2 DEF LinkGoesDown, muxVars
<1>4. /\ a # <<>> /\ Len(a) = j + 1 /\ a[j + 1].type = "LinkClosed" /\ j \in Nat /\ Head(a) = a[1]
      /\ \A i \in 1..Len(a) : i # j + 1 => a[i] = rx[Client][i] /\ i \in 1..j /\ i \in 1..Len(rx[Client])
      /\ j = 0 => rx[Client] = <<>> \/ rx[Client][1].type # "LinkEstablished"
    BY <1>1, CutProps
<1>5. /\ Len(b) = k + 1 /\ b[k + 1].type = "LinkClosed" /\ k \in Nat
      /\ \A i \in 1..Len(b) : i # k + 1 => b[i] = rx[latest][i] /\ i \in 1..Len(rx[latest])
    BY <1>1, CutProps
<1> HIDE DEF a, b
<1>6. ASSUME NEW e \in Ends, NEW i \in 1..Len(rx'[e]), rx'[e][i].type = "LinkEstablished"
      PROVE  i = 1
  <2>1. \A x \in Ends : \A n \in 1..Len(rx[x]) : rx[x][n].type = "LinkEstablished" => n = 1
    BY DEF LinkInv
  <2>2. CASE e = Client
    BY <1>1, <1>3, <1>4, <1>6, <2>1, <2>2
  <2>3. CASE e = latest
    BY <1>1, <1>3, <1>5, <1>6, <2>1, <2>3
  <2>4. CASE e # Client /\ e # latest
    BY <1>3, <1>6, <2>1, <2>4
  <2> QED
    BY <2>2, <2>3, <2>4
<1>7. \A i \in 1..Len(rx'[Client]) : rx'[Client][i].type = "LinkClosed" => i = Len(rx'[Client])
  <2>1. \A n \in 1..Len(rx[Client]) : rx[Client][n].type # "LinkClosed"
    BY <1>1 DEF LinkInv
  <2> QED
    BY <1>3, <1>4, <2>1
<1>8. rx'[Client] # <<>> /\ (Head(rx'[Client]).type = "LinkEstablished" <=> cphase = "reconnect")
  <2>1. CASE j = 0
    <3>1. Head(a).type = "LinkClosed"
      BY <1>4, <2>1
    <3>2. cphase # "reconnect"
      <4>1. rx[Client] # <<>> => Head(rx[Client]) = rx[Client][1]
        BY <1>1, TailProps
      <4>2. cphase = "dispatch" \/ rx[Client] # <<>>
        BY <1>1 DEF LinkInv
      <4>3. rx[Client] # <<>> => (Head(rx[Client]).type = "LinkEstablished" <=> cphase = "reconnect")
        BY DEF LinkInv
      <4> QED
        BY <1>4, <2>1, <4>1, <4>2, <4>3
    <3> QED
      BY <1>3, <1>4, <3>1, <3>2
  <2>2. CASE j # 0
    <3>1. 1 \in 1..Len(a) /\ 1 # j + 1
      BY <1>4, <2>2
    <3>2. Head(a) = rx[Client][1] /\ 1 \in 1..Len(rx[Client])
      BY <1>4, <3>1
    <3>3. rx[Client] # <<>> /\ Head(rx[Client]) = rx[Client][1]
      <4>1. rx[Client] # <<>>
        BY <3>2, EmptySeq
      <4> QED
        BY <1>1, <4>1, TailProps
    <3>4. Head(rx[Client]).type = "LinkEstablished" <=> cphase = "reconnect"
      BY <3>3 DEF LinkInv
    <3> QED
      BY <1>3, <1>4, <3>2, <3>3, <3>4
  <2> QED
    BY <2>1, <2>2
<1>9. cphase # "clearing" /\ \E i \in 1..Len(rx'[Client]) : rx'[Client][i].type = "LinkClosed"
  <2>1. j + 1 \in 1..Len(a)
    BY <1>4
  <2> QED
    BY <1>1, <1>3, <1>4, <2>1, LinkIsNewest
<1>10. sending[Client] # Idle => sending[Client].link <= latest /\ (Unattached' => sending[Client].link < latest)
  <2>1. Unattached' => cphase = "reconnect"
    BY <1>3 DEF Unattached
  <2>2. cphase = "reconnect" => Unattached
    BY <1>1 DEF LinkInv, Unattached
  <2> QED
    BY <2>1, <2>2 DEF LinkInv
<1>11. /\ link_id[Client] # None => link_id[Client] = latest /\ cphase = "dispatch"
       /\ \A l \in Links : link_id[l] \in {None, l} /\ (sending[l] # Idle => sending[l].link = l)
    BY DEF LinkInv
<1> QED
  <2>1. UNCHANGED <<latest, cphase, link_id, sending>> /\ ~live' /\ latest # 0
    BY <1>1, <1>3
  <2>2. \A e \in Ends : \A i \in 1..Len(rx'[e]) : rx'[e][i].type = "LinkEstablished" => i = 1
    BY <1>6
  <2> QED
    BY <1>7, <1>8, <1>9, <1>10, <1>11, <2>1, <2>2 DEF LinkInv

(* An end takes an event and the link stays as it is.                      *)
LEMMA TakeLeaves ==
    ASSUME TypeOK, LinkInv, NEW e \in Ends, rx[e] # <<>>, Take(e)
    PROVE  /\ \A x \in Ends : \A i \in 1..Len(rx'[x]) : rx'[x][i].type = "LinkEstablished" => x # e /\ i = 1
           /\ \A i \in 1..Len(rx'[Client]) : rx'[Client][i].type = "LinkClosed" => i = Len(rx'[Client])
           /\ e = Client /\ Head(rx[e]).type = "LinkClosed" => rx'[e] = <<>>
           /\ e = Client /\ rx'[e] # <<>> => Head(rx'[e]).type # "LinkEstablished"
<1>1. \A x \in Ends : \A i \in 1..Len(rx[x]) : rx[x][i].type = "LinkEstablished" => i = 1
    BY DEF LinkInv
<1>2. \A i \in 1..Len(rx[Client]) : rx[Client][i].type = "LinkClosed" => i = Len(rx[Client])
    BY DEF LinkInv
<1>3. ASSUME NEW x \in Ends, NEW i \in 1..Len(rx'[x]), rx'[x][i].type = "LinkEstablished"
      PROVE  x # e /\ i = 1
  <2>1. x # e
    <3>1. ASSUME x = e PROVE FALSE
      <4>1. rx'[x][i] = rx[x][i + 1] /\ i + 1 \in 1..Len(rx[x]) /\ i + 1 # 1
        BY <3>1, TakeProps
      <4>2. rx[x][i + 1].type # "LinkEstablished"
        BY <1>1, <4>1
      <4> QED
        BY <1>3, <4>1, <4>2
    <3> QED
      BY <3>1
  <2>2. rx'[x] = rx[x]
    BY <2>1, TakeProps
  <2>3. i \in 1..Len(rx[x]) /\ rx[x][i].type = "LinkEstablished"
    BY <1>3, <2>2
  <2> QED
    BY <1>1, <2>1, <2>3
<1>4. ASSUME NEW i \in 1..Len(rx'[Client]), rx'[Client][i].type = "LinkClosed"
      PROVE  i = Len(rx'[Client])
  <2>1. CASE Client = e
    <3>1. /\ rx'[Client][i] = rx[Client][i + 1] /\ i + 1 \in 1..Len(rx[Client])
          /\ Len(rx'[Client]) = Len(rx[Client]) - 1 /\ Len(rx[Client]) \in Nat
      BY <2>1, TakeProps
    <3>2. i + 1 = Len(rx[Client])
      BY <1>2, <1>4, <3>1
    <3> QED
      BY <3>1, <3>2
  <2>2. CASE Client # e
    BY <1>2, <1>4, <2>2, TakeProps, Constants
  <2> QED
    BY <2>1, <2>2
<1>5. ASSUME e = Client, Head(rx[e]).type = "LinkClosed" PROVE rx'[e] = <<>>
  <2>1. Head(rx[e]) = rx[e][1] /\ 1 \in 1..Len(rx[e]) /\ Len(rx'[e]) = Len(rx[e]) - 1 /\ rx'[e] \in Seq(Events)
    BY TakeProps
  <2>2. Len(rx[e]) = 1
    BY <1>2, <1>5, <2>1
  <2> QED
    BY <2>1, <2>2, EmptySeq
<1>6. ASSUME rx'[e] # <<>> PROVE Head(rx'[e]).type # "LinkEstablished"
  <2>1. Head(rx'[e]) = rx[e][2] /\ 2 \in 1..Len(rx[e])
    BY <1>6, TakeProps
  <2> QED
    BY <1>1, <2>1
<1> QED
    BY <1>3, <1>4, <1>5, <1>6

LEMMA LinkInvAttach ==
    ASSUME TypeOK, LinkInv, ClientAttaches
    PROVE  LinkInv'
<1>1. /\ rx[Client] # <<>> /\ Take(Client) /\ Client \in Ends /\ cphase = "reconnect" /\ cphase' = "dispatch"
      /\ Head(rx[Client]).type = "LinkEstablished"
      /\ link_id' = [link_id EXCEPT ![Client] = latest] /\ UNCHANGED <<latest, live, sending>>
      /\ link_id \in [Ends -> {None} \cup Links]
    BY Constants DEF ClientAttaches, Gets, TypeOK
<1>2. /\ Head(rx[Client]) = rx[Client][1]
      /\ \A i \in 1..Len(rx'[Client]) : rx'[Client][i] = rx[Client][i + 1] /\ i + 1 \in 1..Len(rx[Client])
      /\ Len(rx'[Client]) = Len(rx[Client]) - 1 /\ Len(rx[Client]) \in Nat \ {0}
    BY <1>1, TakeProps
<1>3. (\A i \in 1..Len(rx'[Client]) : rx'[Client][i].type # "LinkClosed")
          <=> \A i \in 1..Len(rx[Client]) : rx[Client][i].type # "LinkClosed"
  <2>1. ASSUME NEW i \in 1..Len(rx[Client]), rx[Client][i].type = "LinkClosed"
        PROVE  \E j \in 1..Len(rx'[Client]) : rx'[Client][j].type = "LinkClosed"
    <3>1. i # 1
      BY <1>1, <1>2, <2>1
    <3>2. i - 1 \in 1..Len(rx'[Client]) /\ i - 1 + 1 = i
      BY <1>2, <3>1
    <3>3. rx'[Client][i - 1] = rx[Client][i]
      BY <1>2, <3>2
    <3> QED
      BY <2>1, <3>2, <3>3
  <2> QED
    BY <1>2, <2>1
<1>4. live' <=> /\ cphase' = "dispatch" \/ rx'[Client] # <<>>
                /\ \A i \in 1..Len(rx'[Client]) : rx'[Client][i].type # "LinkClosed"
    BY <1>1, <1>3 DEF LinkInv
<1>5. /\ latest # 0 /\ (sending[Client] # Idle => sending[Client].link <= latest)
      /\ \A l \in Links : link_id[l] \in {None, l} /\ (sending[l] # Idle => sending[l].link = l)
    BY <1>1 DEF LinkInv, Unattached
<1>6. /\ \A l \in Links : link_id'[l] = link_id[l]
      /\ link_id'[Client] = latest
    BY <1>1, Constants
<1>7. /\ \A e \in Ends : \A i \in 1..Len(rx'[e]) : rx'[e][i].type = "LinkEstablished" => i = 1
      /\ \A i \in 1..Len(rx'[Client]) : rx'[Client][i].type = "LinkClosed" => i = Len(rx'[Client])
      /\ rx'[Client] # <<>> => Head(rx'[Client]).type # "LinkEstablished"
    BY <1>1, TakeLeaves
<1> QED
  <2>1. ~Unattached' /\ cphase' # "clearing" /\ cphase' # "reconnect"
    BY <1>1 DEF Unattached
  <2> QED
    BY <1>1, <1>4, <1>5, <1>6, <1>7, <2>1 DEF LinkInv

LEMMA LinkInvLoses ==
    ASSUME TypeOK, LinkInv, ClientLosesLink
    PROVE  LinkInv'
<1>1. /\ rx[Client] # <<>> /\ Take(Client) /\ Client \in Ends /\ cphase = "dispatch" /\ cphase' = "clearing"
      /\ Head(rx[Client]).type = "LinkClosed"
      /\ link_id' = [link_id EXCEPT ![Client] = None] /\ UNCHANGED <<latest, live, sending>>
      /\ link_id \in [Ends -> {None} \cup Links]
    BY Constants DEF ClientLosesLink, Gets, TypeOK
<1>2. rx'[Client] = <<>> /\ Head(rx[Client]) = rx[Client][1] /\ 1 \in 1..Len(rx[Client])
    BY <1>1, TakeProps, TakeLeaves
<1>3. ~live
    BY <1>1, <1>2 DEF LinkInv
<1>4. /\ latest # 0 /\ (sending[Client] # Idle => sending[Client].link <= latest)
      /\ \A l \in Links : link_id[l] \in {None, l} /\ (sending[l] # Idle => sending[l].link = l)
    BY <1>1 DEF LinkInv, Unattached
<1>5. /\ \A l \in Links : link_id'[l] = link_id[l]
      /\ link_id'[Client] = None
    BY <1>1, Constants
<1>6. \A e \in Ends : \A i \in 1..Len(rx'[e]) : rx'[e][i].type = "LinkEstablished" => i = 1
    BY <1>1, TakeLeaves
<1> QED
  <2>1. ~Unattached' /\ cphase' # "dispatch" /\ cphase' # "reconnect"
    BY <1>1 DEF Unattached
  <2>2. \A i \in 1..Len(rx'[Client]) : FALSE
    BY <1>2
  <2> QED
    BY <1>1, <1>2, <1>3, <1>4, <1>5, <1>6, <2>1, <2>2 DEF LinkInv

LEMMA LinkInvClears ==
    ASSUME TypeOK, LinkInv, ClientClearsSessions
    PROVE  LinkInv'
<1>1. cphase = "clearing" /\ cphase' = "reconnect" /\ UNCHANGED <<latest, live, rx, link_id, sending>>
    BY DEF ClientClearsSessions, muxVars
<1>2. rx[Client] = <<>> /\ ~live /\ link_id[Client] = None
    BY <1>1 DEF LinkInv
<1>3. ~Unattached'
    BY <1>1, <1>2 DEF Unattached
<1> QED
    BY <1>1, <1>2, <1>3 DEF LinkInv

LEMMA LinkInvDispatch ==
    ASSUME TypeOK, LinkInv, ClientDispatches
    PROVE  LinkInv'
<1>1. /\ rx[Client] # <<>> /\ Take(Client) /\ Client \in Ends /\ cphase = "dispatch"
      /\ Head(rx[Client]).type \notin LinkEvents
      /\ UNCHANGED <<latest, live, cphase, link_id, sending>>
    BY Constants DEF ClientDispatches, Gets, linkVars, muxVars, FrameTypes, LinkEvents
<1>2. /\ Head(rx[Client]) = rx[Client][1]
      /\ \A i \in 1..Len(rx'[Client]) : rx'[Client][i] = rx[Client][i + 1] /\ i + 1 \in 1..Len(rx[Client])
      /\ Len(rx'[Client]) = Len(rx[Client]) - 1 /\ Len(rx[Client]) \in Nat \ {0}
    BY <1>1, TakeProps
<1>3. (\A i \in 1..Len(rx'[Client]) : rx'[Client][i].type # "LinkClosed")
          <=> \A i \in 1..Len(rx[Client]) : rx[Client][i].type # "LinkClosed"
  <2>1. ASSUME NEW i \in 1..Len(rx[Client]), rx[Client][i].type = "LinkClosed"
        PROVE  \E j \in 1..Len(rx'[Client]) : rx'[Client][j].type = "LinkClosed"
    <3>1. i # 1
      BY <1>1, <1>2, <2>1 DEF LinkEvents
    <3>2. i - 1 \in 1..Len(rx'[Client]) /\ i - 1 + 1 = i
      BY <1>2, <3>1
    <3>3. rx'[Client][i - 1] = rx[Client][i]
      BY <1>2, <3>2
    <3> QED
      BY <2>1, <3>2, <3>3
  <2> QED
    BY <1>2, <2>1
<1>4. live' <=> /\ cphase' = "dispatch" \/ rx'[Client] # <<>>
                /\ \A i \in 1..Len(rx'[Client]) : rx'[Client][i].type # "LinkClosed"
    BY <1>1, <1>3 DEF LinkInv
<1>5. /\ latest # 0 /\ (sending[Client] # Idle => sending[Client].link <= latest)
      /\ link_id[Client] # None => link_id[Client] = latest
      /\ \A l \in Links : link_id[l] \in {None, l} /\ (sending[l] # Idle => sending[l].link = l)
    BY <1>1 DEF LinkInv, Unattached
<1>7. /\ \A e \in Ends : \A i \in 1..Len(rx'[e]) : rx'[e][i].type = "LinkEstablished" => i = 1
      /\ \A i \in 1..Len(rx'[Client]) : rx'[Client][i].type = "LinkClosed" => i = Len(rx'[Client])
      /\ rx'[Client] # <<>> => Head(rx'[Client]).type # "LinkEstablished"
    BY <1>1, TakeLeaves
<1> QED
  <2>1. ~Unattached' /\ cphase' # "clearing" /\ cphase' # "reconnect"
    BY <1>1 DEF Unattached
  <2> QED
    BY <1>1, <1>4, <1>5, <1>7, <2>1 DEF LinkInv

LEMMA LinkInvServer ==
    ASSUME TypeOK, LinkInv, NEW k \in Links,
           ServerOpensMux(k) \/ ServerDropsMux(k) \/ ServerDispatches(k) \/ ServerConnects(k)
    PROVE  LinkInv'
<1>1. /\ rx[k] # <<>> /\ Take(k) /\ Client \in Ends /\ k # Client /\ k \in Ends
      /\ UNCHANGED <<latest, live, cphase, sending>>
      /\ link_id' = link_id \/ link_id' = [link_id EXCEPT ![k] = k]
      /\ link_id \in [Ends -> {None} \cup Links]
    BY Constants DEF ServerOpensMux, ServerDropsMux, ServerDispatches, ServerConnects, Gets, TypeOK,
                     linkVars, muxVars
<1>2. rx'[Client] = rx[Client]
    BY <1>1, TakeProps
<1>3. link_id'[Client] = link_id[Client]
  <2>1. CASE link_id' = link_id
    BY <2>1
  <2>2. CASE link_id' = [link_id EXCEPT ![k] = k]
    BY <1>1, <2>2
  <2> QED
    BY <1>1, <2>1, <2>2
<1>4. \A l \in Links : link_id'[l] \in {None, l} /\ (sending[l] # Idle => sending[l].link = l)
  <2>1. \A l \in Links : link_id'[l] = link_id[l] \/ link_id'[l] = l
    <3>1. CASE link_id' = link_id
      BY <3>1
    <3>2. CASE link_id' = [link_id EXCEPT ![k] = k]
      BY <1>1, <3>2, Constants
    <3> QED
      BY <1>1, <3>1, <3>2
  <2>2. \A l \in Links : link_id[l] \in {None, l} /\ (sending[l] # Idle => sending[l].link = l)
    BY DEF LinkInv
  <2> QED
    BY <2>1, <2>2
<1>5. /\ \A e \in Ends : \A i \in 1..Len(rx'[e]) : rx'[e][i].type = "LinkEstablished" => i = 1
      /\ Unattached' <=> Unattached
    BY <1>1, <1>2, TakeLeaves DEF Unattached
<1> QED
    BY <1>1, <1>2, <1>3, <1>4, <1>5 DEF LinkInv

LEMMA LinkInvLoop ==
    ASSUME TypeOK, LinkInv, NEW e \in Ends, EventLoop(e)
    PROVE  LinkInv'
    BY Constants, LinkInvAttach, LinkInvLoses, LinkInvClears, LinkInvDispatch, LinkInvServer DEF EventLoop

(* What the sender task of an end does to the links' state.                *)
LEMMA SendsProps ==
    ASSUME TypeOK, LinkInv, NEW e \in Ends, SenderSends(e)
    PROVE  LET d == Dest(e, latest)
               f == sending[e].frame
           IN  /\ sending[e].link = latest /\ live /\ latest \in Links /\ cphase # "clearing"
               /\ d \in Ends /\ (e = Client => d = latest) /\ (e # Client => d = Client /\ e = latest)
               /\ f \in Frame /\ f \in Events /\ f.type \notin LinkEvents
               /\ rx'[d] = Append(rx[d], f) /\ rx'[d] # <<>> /\ Len(rx'[d]) = Len(rx[d]) + 1 /\ Len(rx[d]) \in Nat
               /\ \A i \in 1..Len(rx[d]) : rx'[d][i] = rx[d][i]
               /\ rx'[d][Len(rx[d]) + 1] = f
               /\ \A x \in Ends : x # d => rx'[x] = rx[x]
               /\ Head(rx'[d]) = rx'[d][1]
               /\ e = Client => ~Unattached
<1> DEFINE d == Dest(e, latest)
           f == sending[e].frame
<1>1. sending[e] \in [frame : Frame, link : Links] /\ sending[e].link = latest /\ live
    BY DEF SenderSends, TypeOK, IsUp
<1>2. f \in Frame /\ f \in Events /\ f.type \notin LinkEvents /\ latest \in Links /\ latest \in Ends
    BY <1>1, Kinds, Constants DEF LinkEvents, FrameTypes
<1>3. /\ d \in Ends /\ (e = Client => d = latest) /\ (e # Client => d = Client)
      /\ rx' = [rx EXCEPT ![d] = Append(rx[d], f)] /\ rx \in [Ends -> Seq(Events)]
    BY <1>1, <1>2, Constants DEF Dest, SenderSends, TypeOK
<1>4. e # Client => e = latest
    BY <1>1, Constants DEF LinkInv, SenderSends
<1>5. cphase # "clearing" /\ (e = Client => ~Unattached)
    BY <1>1, <1>2, Constants, LinkIsNewest DEF LinkInv, SenderSends, Links
<1> HIDE DEF d, f
<1>6. /\ rx'[d] = Append(rx[d], f) /\ rx'[d] # <<>> /\ Len(rx'[d]) = Len(rx[d]) + 1 /\ Len(rx[d]) \in Nat
      /\ \A i \in 1..Len(rx[d]) : rx'[d][i] = rx[d][i]
      /\ rx'[d][Len(rx[d]) + 1] = f /\ rx'[d] \in Seq(Events)
    BY <1>2, <1>3, AppendProps
<1>7. Head(rx'[d]) = rx'[d][1]
    BY <1>6, TailProps
<1>8. \A x \in Ends : x # d => rx'[x] = rx[x]
    BY <1>3
<1> QED
    BY <1>1, <1>2, <1>3, <1>4, <1>5, <1>6, <1>7, <1>8 DEF d, f

LEMMA LinkInvSends ==
    ASSUME TypeOK, LinkInv, NEW e \in Ends, SenderSends(e)
    PROVE  LinkInv'
<1> DEFINE d == Dest(e, latest)
           f == sending[e].frame
<1>1. /\ sending[e].link = latest /\ live /\ latest \in Links /\ cphase # "clearing"
      /\ d \in Ends /\ (e = Client => d = latest) /\ (e # Client => d = Client /\ e = latest)
      /\ f.type \notin LinkEvents
      /\ rx'[d] # <<>> /\ Len(rx'[d]) = Len(rx[d]) + 1 /\ Len(rx[d]) \in Nat
      /\ \A i \in 1..Len(rx[d]) : rx'[d][i] = rx[d][i]
      /\ rx'[d][Len(rx[d]) + 1] = f
      /\ \A x \in Ends : x # d => rx'[x] = rx[x]
      /\ Head(rx'[d]) = rx'[d][1]
    BY SendsProps
<1> HIDE DEF d, f
<1>2. /\ UNCHANGED <<latest, live, cphase, link_id>> /\ sending' = [sending EXCEPT ![e] = Idle]
      /\ rx \in [Ends -> Seq(Events)] /\ sending \in [Ends -> [frame : Frame, link : Links] \cup {Idle}]
      /\ Client \in Ends
    BY Constants DEF SenderSends, linkVars, TypeOK
<1>3. ASSUME NEW x \in Ends, NEW i \in 1..Len(rx'[x]), rx'[x][i].type = "LinkEstablished"
      PROVE  i = 1
  <2>1. \A n \in 1..Len(rx[x]) : rx[x][n].type = "LinkEstablished" => n = 1
    BY DEF LinkInv
  <2>2. i \in 1..Len(rx[x]) /\ rx'[x][i] = rx[x][i]
    <3>1. CASE x = d
      BY <1>1, <1>3, <3>1 DEF LinkEvents
    <3>2. CASE x # d
      BY <1>1, <3>2
    <3> QED
      BY <3>1, <3>2
  <2> QED
    BY <1>3, <2>1, <2>2
<1>4. \A i \in 1..Len(rx'[Client]) : rx'[Client][i].type # "LinkClosed"
  <2>1. \A i \in 1..Len(rx[Client]) : rx[Client][i].type # "LinkClosed"
    BY <1>1 DEF LinkInv
  <2>2. CASE Client = d
    BY <1>1, <2>1, <2>2 DEF LinkEvents
  <2>3. CASE Client # d
    BY <1>1, <1>2, <2>1, <2>3
  <2> QED
    BY <2>2, <2>3
<1>5. /\ cphase = "dispatch" \/ rx[Client] # <<>>
      /\ rx[Client] # <<>> => (Head(rx[Client]).type = "LinkEstablished" <=> cphase = "reconnect")
      /\ latest # 0
    BY <1>1 DEF LinkInv
<1>6. rx'[Client] # <<>> => (Head(rx'[Client]).type = "LinkEstablished" <=> cphase = "reconnect")
  <2>1. CASE Client # d
    BY <1>1, <1>2, <1>5, <2>1
  <2>2. CASE Client = d /\ rx[Client] = <<>>
    BY <1>1, <1>5, <2>2 DEF LinkEvents
  <2>3. CASE Client = d /\ rx[Client] # <<>>
    <3>1. Head(rx[Client]) = rx[Client][1] /\ 1 \in 1..Len(rx[Client])
      BY <1>2, <2>3, TailProps
    <3> QED
      BY <1>1, <1>5, <2>3, <3>1
  <2> QED
    BY <2>1, <2>2, <2>3
<1>7. Unattached' => Unattached
    BY <1>2, <1>5 DEF Unattached
<1>8. /\ sending'[Client] # Idle => sending'[Client].link <= latest /\ (Unattached' => sending'[Client].link < latest)
      /\ \A l \in Links : link_id[l] \in {None, l} /\ (sending'[l] # Idle => sending'[l].link = l)
  <2>1. \A x \in Ends : sending'[x] # Idle => sending'[x] = sending[x] /\ sending[x] # Idle
    BY <1>2
  <2> QED
    BY <1>2, <1>7, <2>1, Constants DEF LinkInv
<1>9. cphase = "dispatch" \/ rx'[Client] # <<>>
  <2>1. CASE Client # d
    BY <1>1, <1>2, <1>5, <2>1
  <2>2. CASE Client = d
    BY <1>1, <2>2
  <2> QED
    BY <2>1, <2>2
<1>10. link_id[Client] # None => link_id[Client] = latest /\ cphase = "dispatch"
    BY DEF LinkInv
<1> QED
  <2>1. \A x \in Ends : \A i \in 1..Len(rx'[x]) : rx'[x][i].type = "LinkEstablished" => i = 1
    BY <1>3
  <2> QED
    BY <1>1, <1>2, <1>4, <1>5, <1>6, <1>8, <1>9, <1>10, <2>1 DEF LinkInv

LEMMA LinkInvSender ==
    ASSUME TypeOK, LinkInv, NEW e \in Ends, Sender(e)
    PROVE  LinkInv'
<1>q. /\ link_id \in [Ends -> {None} \cup Links] /\ Client \in Ends /\ Links \subseteq Ends
      /\ sending \in [Ends -> [frame : Frame, link : Links] \cup {Idle}]
    BY Constants DEF TypeOK
<1>1. CASE SenderTake(e)
  <2>1. /\ UNCHANGED <<latest, live, cphase, rx, link_id>> /\ (Unattached' <=> Unattached)
        /\ \A x \in Ends : sending'[x] # Idle =>
              \/ sending'[x] = sending[x]
              \/ x = e /\ link_id[x] # None /\ sending'[x].link = link_id[x]
    BY <1>q, <1>1 DEF SenderTake, linkVars, Unattached
  <2>2. /\ link_id[Client] # None => link_id[Client] = latest /\ ~Unattached
        /\ \A l \in Links : link_id[l] \in {None, l}
        /\ latest \in Nat
    BY TunnelAssumption DEF LinkInv, Unattached, TypeOK
  <2>3. sending'[Client] # Idle => sending'[Client].link <= latest /\ (Unattached => sending'[Client].link < latest)
    BY <1>q, <2>1, <2>2 DEF LinkInv
  <2>4. \A l \in Links : sending'[l] # Idle => sending'[l].link = l
    BY <1>q, <2>1, <2>2 DEF LinkInv
  <2> QED
    BY <2>1, <2>3, <2>4 DEF LinkInv
<1>2. CASE SenderFails(e) \/ SenderLoses(e)
  <2>1. /\ UNCHANGED <<latest, live, cphase, rx>> /\ (Unattached' <=> Unattached)
        /\ \A x \in Ends : sending'[x] # Idle => sending'[x] = sending[x]
        /\ \A x \in Ends : link_id'[x] = link_id[x] \/ link_id'[x] = None
    BY <1>q, <1>2 DEF SenderFails, SenderLoses, linkVars, Unattached
  <2>2. sending'[Client] # Idle => sending'[Client].link <= latest /\ (Unattached => sending'[Client].link < latest)
    BY <1>q, <2>1 DEF LinkInv
  <2>3. \A l \in Links : link_id'[l] \in {None, l} /\ (sending'[l] # Idle => sending'[l].link = l)
    BY <1>q, <2>1 DEF LinkInv
  <2>4. link_id'[Client] # None => link_id'[Client] = latest /\ cphase = "dispatch"
    BY <1>q, <2>1 DEF LinkInv
  <2> QED
    BY <2>1, <2>2, <2>3, <2>4 DEF LinkInv
<1> QED
    BY <1>1, <1>2, LinkInvSends DEF Sender

LEMMA LinkInvStep == TypeOK /\ TasksInv /\ LinkInv /\ [Next]_vars => LinkInv'
<1> SUFFICES ASSUME TypeOK, TasksInv, LinkInv, [Next]_vars PROVE LinkInv'
    OBVIOUS
<1>1. CASE UNCHANGED vars \/ SessionSteps
  <2>1. UNCHANGED <<latest, live, cphase, rx, link_id, sending>>
    BY <1>1, SessionFrame DEF vars, linkVars, muxVars
  <2> QED
    BY <2>1 DEF LinkInv, Unattached
<1> QED
    BY <1>1, NextSteps, LinkInvUp, LinkInvDown, LinkInvLoop, LinkInvSender

LEMMA LinkInvInit == Init => LinkInv
<1> SUFFICES ASSUME Init PROVE LinkInv
    OBVIOUS
<1>1. Client \in Ends /\ Links \subseteq Ends
    BY Constants
<1>2. Len(<<>>) = 0 /\ \A i \in 1..0 : FALSE
    OBVIOUS
<1>3. /\ \A e \in Ends : rx[e] = <<>> /\ link_id[e] = None /\ sending[e] = Idle
      /\ latest = 0 /\ ~live /\ cphase = "reconnect"
    BY DEF Init
<1> QED
    BY <1>1, <1>2, <1>3 DEF LinkInv, Unattached

LEMMA FreshInit == Init => FreshInv
<1> SUFFICES ASSUME Init PROVE FreshInv
    OBVIOUS
<1>1. Links \subseteq Ends /\ Len(<<>>) = 0 /\ \A i \in 1..0 : FALSE
    BY Constants
<1>2. /\ \A e \in Ends : rx[e] = <<>> /\ link_id[e] = None
      /\ \A e \in Ends, s \in Sids : ~Serves(e, s)
    BY DEF Init, EachSession, Serves
<1> QED
    BY <1>1, <1>2 DEF FreshInv

LEMMA FreshUp ==
    ASSUME TypeOK, LinkInv, FreshInv, LinkComesUp
    PROVE  FreshInv'
<1> DEFINE q == <<Signal("LinkEstablished")>>
<1>1. /\ rx \in [Ends -> Seq(Events)] /\ Client \in Ends /\ latest \in Nat /\ latest + 1 \in Links
      /\ latest + 1 \in Ends /\ latest + 1 # Client
      /\ Links \subseteq Ends /\ Links \subseteq Nat /\ Client \notin Links
    BY Constants, TunnelAssumption DEF TypeOK, LinkComesUp, Links, Client
<1>2. Len(q) = 1 /\ q[1].type \in LinkEvents
    BY DEF Signal, LinkEvents
<1>3. /\ rx'[latest + 1] = q /\ \A l \in Links : l # latest + 1 => rx'[l] = rx[l]
      /\ latest' = latest + 1 /\ link_id' = link_id
      /\ \A l \in Links, s \in Sids : Serves(l, s)' <=> Serves(l, s)
    BY <1>1 DEF LinkComesUp, muxVars, sessionVars, Serves
<1> HIDE DEF q
<1>4. \A i \in 1..Len(rx'[latest + 1]) : rx'[latest + 1][i].type \in LinkEvents
  <2>1. \A i \in 1..Len(q) : i = 1
    BY <1>2
  <2> QED
    BY <1>2, <1>3, <2>1
<1> SUFFICES ASSUME NEW l \in Links
             PROVE  /\ l > latest + 1 => rx'[l] = <<>> /\ link_id[l] = None
                    /\ l > latest + 1 \/ l = latest + 1 =>
                          /\ \A i \in 1..Len(rx'[l]) : rx'[l][i].type \in LinkEvents
                          /\ \A s \in Sids : ~Serves(l, s)
                    /\ (\E i \in 1..Len(rx'[l]) : rx'[l][i].type = "LinkEstablished") =>
                          link_id[l] = None /\ \A s \in Sids : ~Serves(l, s)
    BY <1>3 DEF FreshInv, Serves
<1>5. l > latest => link_id[l] = None /\ rx[l] = <<>> /\ \A s \in Sids : ~Serves(l, s)
    BY DEF FreshInv
<1>6. CASE l > latest + 1
  <2>1. rx'[l] = <<>> /\ \A i \in 1..Len(rx'[l]) : FALSE
    BY <1>1, <1>3, <1>5, <1>6
  <2> QED
    BY <1>1, <1>5, <1>6, <2>1
<1>7. CASE l = latest + 1
    BY <1>1, <1>4, <1>5, <1>7
<1>8. CASE l < latest + 1
  <2>1. rx'[l] = rx[l]
    BY <1>1, <1>3, <1>8
  <2> QED
    BY <1>1, <1>8, <2>1 DEF FreshInv
<1> QED
    BY <1>1, <1>6, <1>7, <1>8

(* The events that reach an end are those it had, its link's own, or a     *)
(* frame the client sent on the link it is attached to.                    *)
LEMMA FreshKeeps ==
    ASSUME TypeOK, FreshInv, UNCHANGED latest, Unattached' => Unattached,
           NEW l \in Links,
           l > latest => rx'[l] = <<>> /\ link_id'[l] = None,
           \A i \in 1..Len(rx'[l]) :
              \/ \E j \in 1..Len(rx[l]) : rx'[l][i] = rx[l][j]
              \/ rx'[l][i].type = "LinkClosed"
              \/ rx'[l][i].type \in FrameTypes /\ l = latest /\ ~Unattached,
           link_id'[l] # link_id[l] =>
              link_id'[l] = None \/ \A i \in 1..Len(rx'[l]) : rx'[l][i].type # "LinkEstablished",
           \A s \in Sids : Serves(l, s)' <=> Serves(l, s)
    PROVE  /\ l > latest' => rx'[l] = <<>> /\ link_id'[l] = None
           /\ l > latest' \/ (Unattached' /\ l = latest') =>
                 /\ \A i \in 1..Len(rx'[l]) : rx'[l][i].type \in LinkEvents
                 /\ \A s \in Sids : ~Serves(l, s)'
           /\ (\E i \in 1..Len(rx'[l]) : rx'[l][i].type = "LinkEstablished") =>
                 link_id'[l] = None /\ \A s \in Sids : ~Serves(l, s)'
<1>0. l \in Nat /\ latest \in Nat
    BY TunnelAssumption DEF Links, TypeOK
<1>1. ASSUME l > latest' \/ (Unattached' /\ l = latest')
      PROVE  /\ \A i \in 1..Len(rx'[l]) : rx'[l][i].type \in LinkEvents
             /\ \A s \in Sids : ~Serves(l, s)'
  <2>1. l > latest \/ (Unattached /\ l = latest)
    BY <1>1
  <2>2. (\A i \in 1..Len(rx[l]) : rx[l][i].type \in LinkEvents) /\ \A s \in Sids : ~Serves(l, s)
    BY <2>1 DEF FreshInv
  <2>3. ~(l = latest /\ ~Unattached)
    BY <1>0, <2>1
  <2>4. \A i \in 1..Len(rx'[l]) : rx'[l][i].type \in LinkEvents
    BY <2>2, <2>3 DEF LinkEvents
  <2> QED
    BY <2>2, <2>4
<1>2. ASSUME NEW i \in 1..Len(rx'[l]), rx'[l][i].type = "LinkEstablished"
      PROVE  link_id'[l] = None /\ \A s \in Sids : ~Serves(l, s)'
  <2>1. PICK j \in 1..Len(rx[l]) : rx'[l][i] = rx[l][j]
    BY <1>2 DEF FrameTypes
  <2>2. link_id[l] = None /\ \A s \in Sids : ~Serves(l, s)
    BY <1>2, <2>1 DEF FreshInv
  <2> QED
    BY <1>2, <2>2
<1> QED
    BY <1>1, <1>2

LEMMA FreshDown ==
    ASSUME TypeOK, LinkInv, FreshInv, LinkGoesDown
    PROVE  FreshInv'
<1>1. /\ rx \in [Ends -> Seq(Events)] /\ Client \in Ends /\ latest \in Links /\ latest # Client
      /\ Links \subseteq Ends /\ Links \subseteq Nat
    BY LinkIsNewest, Constants DEF TypeOK, LinkGoesDown, Links
<1>2. PICK j \in MayKeep(rx[Client]), k \in MayKeep(rx[latest]) :
          rx' = [rx EXCEPT ![Client] = Cut(@, j), ![latest] = Cut(@, k)]
    BY DEF LinkGoesDown
<1>3. /\ rx'[latest] = Cut(rx[latest], k) /\ \A l \in Links : l # latest => rx'[l] = rx[l]
      /\ UNCHANGED <<latest, cphase, link_id>>
      /\ \A l \in Links, s \in Sids : Serves(l, s)' <=> Serves(l, s)
    BY <1>1, <1>2, Constants DEF LinkGoesDown, muxVars, sessionVars, Serves
<1>4. Unattached' => Unattached
  <2>1. cphase = "reconnect" => Unattached
    BY DEF LinkInv, LinkGoesDown, Unattached
  <2> QED
    BY <1>3, <2>1 DEF Unattached
<1>5. \A i \in 1..Len(rx'[latest]) :
          (\E n \in 1..Len(rx[latest]) : rx'[latest][i] = rx[latest][n]) \/ rx'[latest][i].type = "LinkClosed"
  <2>1. latest \in Ends /\ rx[latest] \in Seq(Events)
    BY <1>1
  <2> QED
    <3>1. PICK c : c = Cut(rx[latest], k) /\ rx'[latest] = c
      BY <1>3
    <3>2. \A i \in 1..Len(c) : i # k + 1 => c[i] = rx[latest][i] /\ i \in 1..Len(rx[latest])
      BY <2>1, <3>1, CutProps
    <3>3. c[k + 1].type = "LinkClosed"
      BY <2>1, <3>1, CutProps
    <3> QED
      BY <3>1, <3>2, <3>3
<1>6. \A l \in Links : \A i \in 1..Len(rx'[l]) :
          (\E n \in 1..Len(rx[l]) : rx'[l][i] = rx[l][n]) \/ rx'[l][i].type = "LinkClosed"
    BY <1>3, <1>5
<1>7. \A l \in Links : l > latest => rx'[l] = <<>> /\ link_id'[l] = None
  <2>1. \A l \in Links : l > latest => l # latest
    BY <1>1
  <2> QED
    BY <1>3, <2>1 DEF FreshInv
<1>8. ASSUME NEW l \in Links
      PROVE  /\ l > latest' => rx'[l] = <<>> /\ link_id'[l] = None
             /\ l > latest' \/ (Unattached' /\ l = latest') =>
                   /\ \A i \in 1..Len(rx'[l]) : rx'[l][i].type \in LinkEvents
                   /\ \A s \in Sids : ~Serves(l, s)'
             /\ (\E i \in 1..Len(rx'[l]) : rx'[l][i].type = "LinkEstablished") =>
                   link_id'[l] = None /\ \A s \in Sids : ~Serves(l, s)'
    BY <1>3, <1>4, <1>6, <1>7, FreshKeeps
<1> QED
    BY <1>8 DEF FreshInv, Serves

LEMMA FreshClient ==
    ASSUME TypeOK, LinkInv, FreshInv,
           ClientAttaches \/ ClientLosesLink \/ ClientClearsSessions \/ ClientDispatches
    PROVE  FreshInv'
<1>1. /\ UNCHANGED <<latest, pc>> /\ Client \in Ends /\ Client \notin Links /\ Links \subseteq Ends
      /\ \A l \in Links : rx'[l] = rx[l] /\ link_id'[l] = link_id[l]
  <2>1. \A l \in Links : rx'[l] = rx[l]
    <3>1. CASE ClientClearsSessions
      BY <3>1 DEF ClientClearsSessions
    <3>2. CASE rx[Client] # <<>> /\ Take(Client)
      BY <3>2, TakeProps, Constants
    <3> QED
      BY <3>1, <3>2 DEF ClientAttaches, ClientLosesLink, ClientDispatches, Gets
  <2>2. \A l \in Links : link_id'[l] = link_id[l]
    BY Constants DEF ClientAttaches, ClientLosesLink, ClientClearsSessions, ClientDispatches, muxVars, TypeOK
  <2> QED
    BY <2>1, <2>2, Constants DEF ClientAttaches, ClientLosesLink, ClientClearsSessions, ClientDispatches,
                                 sessionVars, linkVars
<1>2. ~Unattached'
  <2>1. CASE ClientClearsSessions
    BY <2>1 DEF ClientClearsSessions, LinkInv, Unattached
  <2>2. CASE cphase' # "reconnect"
    BY <2>2 DEF Unattached
  <2> QED
    BY <2>1, <2>2 DEF ClientAttaches, ClientLosesLink, ClientDispatches, linkVars
<1>3. ASSUME NEW l \in Links
      PROVE  /\ l > latest' => rx'[l] = <<>> /\ link_id'[l] = None
             /\ l > latest' \/ (Unattached' /\ l = latest') =>
                   /\ \A i \in 1..Len(rx'[l]) : rx'[l][i].type \in LinkEvents
                   /\ \A s \in Sids : ~Serves(l, s)'
             /\ (\E i \in 1..Len(rx'[l]) : rx'[l][i].type = "LinkEstablished") =>
                   link_id'[l] = None /\ \A s \in Sids : ~Serves(l, s)'
  <2>1. \A s \in Sids : Serves(l, s)' <=> Serves(l, s)
    BY <1>1 DEF Serves
  <2>2. l > latest => rx'[l] = <<>> /\ link_id'[l] = None
    BY <1>1 DEF FreshInv
  <2> QED
    BY <1>1, <1>2, <2>1, <2>2, FreshKeeps
<1> QED
    BY <1>3 DEF FreshInv, Serves

LEMMA FreshServer ==
    ASSUME TypeOK, LinkInv, FreshInv, NEW k \in Links,
           ServerOpensMux(k) \/ ServerDropsMux(k) \/ ServerDispatches(k) \/ ServerConnects(k)
    PROVE  FreshInv'
<1>1. /\ UNCHANGED <<latest, cphase>> /\ Client \in Ends /\ Client \notin Links /\ Links \subseteq Ends
      /\ rx[k] # <<>> /\ Take(k) /\ k \in Ends /\ Client # k
      /\ \A l \in Links : l # k => link_id'[l] = link_id[l]
      /\ link_id'[k] # link_id[k] => ServerOpensMux(k)
    BY Constants DEF ServerOpensMux, ServerDropsMux, ServerDispatches, ServerConnects, Gets, linkVars, muxVars, TypeOK
<1>2. ~(k > latest)
    BY <1>1 DEF FreshInv
<1>3. Unattached' <=> Unattached
  <2>1. rx'[Client] = rx[Client]
    BY <1>1, TakeProps
  <2> QED
    BY <1>1, <2>1 DEF Unattached
<1>4. \A l \in Links, s \in Sids : (Serves(l, s)' <=> Serves(l, s)) \/ (l = k /\ ServerConnects(k))
  <2>1. CASE ServerConnects(k)
    <3>1. \A l \in Links : l # k => pc'[l] = pc[l]
      BY <1>1, <2>1 DEF ServerConnects, TypeOK
    <3> QED
      BY <2>1, <3>1 DEF Serves
  <2>2. CASE UNCHANGED pc
    <3>1. \A l \in Links, s \in Sids : Serves(l, s)' <=> Serves(l, s)
      BY <2>2 DEF Serves
    <3> QED
      BY <3>1
  <2> QED
    BY <2>1, <2>2 DEF ServerOpensMux, ServerDropsMux, ServerDispatches, sessionVars
<1>5. \A i \in 1..Len(rx'[k]) : rx'[k][i].type # "LinkEstablished"
    BY <1>1, TakeLeaves
<1>6. ASSUME NEW l \in Links
      PROVE  /\ l > latest' => rx'[l] = <<>> /\ link_id'[l] = None
             /\ l > latest' \/ (Unattached' /\ l = latest') =>
                   /\ \A i \in 1..Len(rx'[l]) : rx'[l][i].type \in LinkEvents
                   /\ \A s \in Sids : ~Serves(l, s)'
             /\ (\E i \in 1..Len(rx'[l]) : rx'[l][i].type = "LinkEstablished") =>
                   link_id'[l] = None /\ \A s \in Sids : ~Serves(l, s)'
  <2>1. \A i \in 1..Len(rx'[l]) : \E j \in 1..Len(rx[l]) : rx'[l][i] = rx[l][j]
    BY <1>1, TakeProps
  <2>2. l > latest => rx'[l] = <<>> /\ link_id'[l] = None
    <3>1. l > latest => l # k
      BY <1>2
    <3>2. l # k => rx'[l] = rx[l] /\ link_id'[l] = link_id[l]
      BY <1>1, TakeProps
    <3> QED
      BY <3>1, <3>2 DEF FreshInv
  <2>3. CASE l = k /\ ServerConnects(k)
    <3>1. Head(rx[k]) = rx[k][1] /\ 1 \in 1..Len(rx[k]) /\ Head(rx[k]).type = "Connect"
      BY <1>1, <2>3, TakeProps DEF ServerConnects, Gets
    <3>2. ~(l > latest \/ (Unattached /\ l = latest))
      <4>1. rx[k][1].type \notin LinkEvents
        BY <3>1 DEF LinkEvents
      <4> QED
        BY <2>3, <3>1, <4>1 DEF FreshInv
    <3> QED
      BY <1>1, <1>3, <1>5, <2>3, <3>2
  <2>4. CASE ~(l = k /\ ServerConnects(k))
    <3>1. \A s \in Sids : Serves(l, s)' <=> Serves(l, s)
      BY <1>4, <2>4
    <3>2. link_id'[l] # link_id[l] => \A i \in 1..Len(rx'[l]) : rx'[l][i].type # "LinkEstablished"
      BY <1>1, <1>5
    <3> QED
      BY <1>1, <1>3, <2>1, <2>2, <3>1, <3>2, FreshKeeps
  <2> QED
    BY <2>3, <2>4
<1> QED
    BY <1>6 DEF FreshInv, Serves

LEMMA FreshSender ==
    ASSUME TypeOK, LinkInv, FreshInv, NEW e \in Ends, Sender(e)
    PROVE  FreshInv'
<1>1. /\ UNCHANGED <<latest, live, cphase, pc>> /\ Client \in Ends /\ Client \notin Links /\ Links \subseteq Ends
      /\ \A x \in Ends : link_id'[x] = link_id[x] \/ link_id'[x] = None
    BY Constants DEF Sender, SenderTake, SenderSends, SenderLoses, SenderFails, linkVars, sessionVars, TypeOK
<1>2. \A l \in Links : \A i \in 1..Len(rx'[l]) :
          \/ \E j \in 1..Len(rx[l]) : rx'[l][i] = rx[l][j]
          \/ rx'[l][i].type \in FrameTypes /\ l = latest /\ ~Unattached
  <2>1. CASE UNCHANGED rx
    BY <2>1
  <2>2. CASE SenderSends(e)
    <3> DEFINE d == Dest(e, latest)
               f == sending[e].frame
    <3>1. /\ (e = Client => d = latest /\ ~Unattached) /\ (e # Client => d = Client)
          /\ f.type \in FrameTypes
          /\ Len(rx'[d]) = Len(rx[d]) + 1 /\ Len(rx[d]) \in Nat
          /\ \A i \in 1..Len(rx[d]) : rx'[d][i] = rx[d][i]
          /\ rx'[d][Len(rx[d]) + 1] = f
          /\ \A x \in Ends : x # d => rx'[x] = rx[x]
      BY <2>2, SendsProps, Kinds
    <3> HIDE DEF d, f
    <3> SUFFICES ASSUME NEW l \in Links, NEW i \in 1..Len(rx'[l])
                 PROVE  \/ \E j \in 1..Len(rx[l]) : rx'[l][i] = rx[l][j]
                        \/ rx'[l][i].type \in FrameTypes /\ l = latest /\ ~Unattached
      OBVIOUS
    <3>2. CASE l = d
      <4>1. i \in 1..Len(rx[d]) \/ i = Len(rx[d]) + 1
        BY <3>1, <3>2
      <4>2. l = latest /\ ~Unattached
        BY <1>1, <3>1, <3>2
      <4> QED
        BY <3>1, <3>2, <4>1, <4>2
    <3>3. CASE l # d
      <4>1. rx'[l] = rx[l]
        BY <1>1, <3>1, <3>3
      <4> QED
        BY <4>1
    <3> QED
      BY <3>2, <3>3
  <2> QED
    BY <2>1, <2>2 DEF Sender, SenderTake, SenderLoses, SenderFails
<1>3. \A l \in Links : l > latest => rx'[l] = <<>> /\ link_id'[l] = None
  <2>1. \A l \in Links : l > latest => rx[l] = <<>> /\ link_id[l] = None
    BY DEF FreshInv
  <2>2. \A l \in Links : l > latest => rx'[l] = rx[l]
    <3>1. CASE UNCHANGED rx
      BY <3>1
    <3>2. CASE SenderSends(e)
      <4>1. \A x \in Ends : x # Dest(e, latest) => rx'[x] = rx[x]
        BY <3>2, SendsProps
      <4>2. Dest(e, latest) = latest \/ Dest(e, latest) = Client
        BY <3>2, SendsProps
      <4>3. \A l \in Links : l > latest => l # latest
        BY TunnelAssumption DEF TypeOK, Links
      <4> QED
        BY <1>1, <4>1, <4>2, <4>3
    <3> QED
      BY <3>1, <3>2 DEF Sender, SenderTake, SenderLoses, SenderFails
  <2> QED
    BY <1>1, <2>1, <2>2
<1>4. Unattached' => Unattached
  <2>1. CASE UNCHANGED rx
    BY <1>1, <2>1 DEF Unattached
  <2>2. CASE SenderSends(e)
    BY <1>1, <2>2, SendsProps DEF Unattached, LinkInv
  <2> QED
    BY <2>1, <2>2 DEF Sender, SenderTake, SenderLoses, SenderFails
<1>5. ASSUME NEW l \in Links
      PROVE  /\ l > latest' => rx'[l] = <<>> /\ link_id'[l] = None
             /\ l > latest' \/ (Unattached' /\ l = latest') =>
                   /\ \A i \in 1..Len(rx'[l]) : rx'[l][i].type \in LinkEvents
                   /\ \A s \in Sids : ~Serves(l, s)'
             /\ (\E i \in 1..Len(rx'[l]) : rx'[l][i].type = "LinkEstablished") =>
                   link_id'[l] = None /\ \A s \in Sids : ~Serves(l, s)'
  <2>1. \A s \in Sids : Serves(l, s)' <=> Serves(l, s)
    BY <1>1 DEF Serves
  <2> QED
    BY <1>1, <1>2, <1>3, <1>4, <2>1, FreshKeeps
<1> QED
    BY <1>5 DEF FreshInv, Serves

LEMMA FreshStep == TypeOK /\ TasksInv /\ LinkInv /\ FreshInv /\ [Next]_vars => FreshInv'
<1> SUFFICES ASSUME TypeOK, TasksInv, LinkInv, FreshInv, [Next]_vars PROVE FreshInv'
    OBVIOUS
<1>1. CASE UNCHANGED vars \/ SessionSteps
  <2>1. /\ UNCHANGED <<latest, cphase, rx, link_id>>
        /\ \A l \in Links, s \in Sids : Serves(l, s)' <=> Serves(l, s)
    BY <1>1, SessionFrame DEF vars, linkVars, muxVars, sessionVars, Serves
  <2> QED
    BY <2>1 DEF FreshInv, Unattached
<1>2. ASSUME NEW e \in Ends, EventLoop(e) PROVE FreshInv'
    BY <1>2, Constants, FreshClient, FreshServer DEF EventLoop
<1> QED
    BY <1>1, <1>2, NextSteps, FreshUp, FreshDown, FreshSender

-----------------------------------------------------------------------------
(* The mux is attached to one link after the other, as LinkService says.   *)
LEMMA RefinesInit == Init => LS!Init
<1> SUFFICES ASSUME Init PROVE LS!Init
    OBVIOUS
<1>1. ~Gets(Client, "LinkEstablished") /\ link_id[Client] = 0 /\ latest = 0 /\ live = FALSE
    BY Constants DEF Init, Gets, None
<1> QED
    BY <1>1 DEF LS!Init

LEMMA RefinesStep ==
    ASSUME TypeOK, TasksInv, LinkInv, [Next]_vars
    PROVE  [LS!Next]_LS!vars
<1> DEFINE spent == ~(cphase = "reconnect" /\ Gets(Client, "LinkEstablished"))
<1>s. spent <=> ~Unattached
    BY DEF LinkInv, Unattached, Gets
<1>t. spent' <=> ~Unattached'
  <2>1. LinkInv'
    BY LinkInvStep
  <2> QED
    BY <2>1 DEF LinkInv, Unattached, Gets
<1>q. Client \in Ends /\ link_id \in [Ends -> {None} \cup Links] /\ latest \in Nat
    BY Constants, TunnelAssumption DEF TypeOK
<1>1. ASSUME UNCHANGED <<latest, live>>, link_id'[Client] = link_id[Client], Unattached' <=> Unattached
      PROVE  UNCHANGED LS!vars
    BY <1>1, <1>s, <1>t DEF LS!vars
<1>2. CASE UNCHANGED vars \/ SessionSteps
  <2>1. UNCHANGED <<latest, live, cphase, rx, link_id>>
    BY <1>2, SessionFrame DEF vars, linkVars, muxVars
  <2> QED
    BY <1>1, <2>1 DEF Unattached
<1>3. CASE LinkComesUp
  <2>1. ~live /\ live' = TRUE /\ latest' = latest + 1 /\ latest < MaxLinks /\ rx[Client] = <<>> /\ cphase' = "reconnect"
        /\ link_id' = link_id /\ cphase = "reconnect"
    BY <1>3 DEF LinkComesUp, muxVars
  <2>2. ~Unattached /\ link_id[Client] = None
    BY <2>1 DEF Unattached, LinkInv
  <2>3. Unattached'
    <3>1. rx'[Client] # <<>>
      <4>1. latest + 1 # Client
        BY <1>q DEF Client
      <4> QED
        BY <1>3, <1>q, <4>1 DEF LinkComesUp, TypeOK
    <3> QED
      BY <2>1, <3>1 DEF Unattached
  <2>4. latest' \in (latest + 1)..MaxLinks
    BY <1>q, <2>1, TunnelAssumption
  <2>5. LS!Establish
    BY <1>s, <1>t, <2>1, <2>2, <2>3, <2>4 DEF LS!Establish, None
  <2> QED
    BY <2>5 DEF LS!Next
<1>4. CASE LinkGoesDown
  <2>1. live /\ live' = FALSE /\ UNCHANGED <<latest, cphase, link_id>>
    BY <1>4 DEF LinkGoesDown, muxVars
  <2>2. Unattached' <=> Unattached
    <3>1. cphase = "reconnect" => rx[Client] # <<>>
      BY <2>1 DEF LinkInv
    <3>2. rx'[Client] # <<>>
      <4>1. PICK j \in MayKeep(rx[Client]), k \in MayKeep(rx[latest]) :
                rx' = [rx EXCEPT ![Client] = Cut(@, j), ![latest] = Cut(@, k)]
        BY <1>4 DEF LinkGoesDown
      <4>2. latest # Client
        BY <2>1, LinkIsNewest
      <4>3. rx'[Client] = Cut(rx[Client], j) /\ rx[Client] \in Seq(Events)
        BY <1>q, <4>1, <4>2 DEF TypeOK
      <4> QED
        BY <4>3, CutProps
    <3> QED
      BY <2>1, <3>1, <3>2 DEF Unattached
  <2>3. LS!Lose
    BY <1>s, <1>t, <2>1, <2>2 DEF LS!Lose
  <2> QED
    BY <2>3 DEF LS!Next
<1>5. CASE ClientAttaches
  <2>1. ~spent /\ link_id'[Client] = latest /\ UNCHANGED <<latest, live>> /\ cphase' = "dispatch"
    BY <1>5, <1>q DEF ClientAttaches
  <2>2. ~Unattached'
    BY <2>1 DEF Unattached
  <2>3. LS!Attach
    BY <1>t, <2>1, <2>2 DEF LS!Attach
  <2> QED
    BY <2>3 DEF LS!Next
<1>6. ASSUME UNCHANGED <<latest, live>>, link_id'[Client] = None, Unattached' <=> Unattached
      PROVE  [LS!Next]_LS!vars
  <2>1. CASE link_id[Client] = None
    BY <1>1, <1>6, <2>1
  <2>2. CASE link_id[Client] # None
    <3>1. LS!Detach
      BY <1>s, <1>t, <1>6, <2>2 DEF LS!Detach, None
    <3> QED
      BY <3>1 DEF LS!Next
  <2> QED
    BY <2>1, <2>2
<1>7. CASE ClientLosesLink
  <2>1. UNCHANGED <<latest, live>> /\ link_id'[Client] = None /\ cphase # "reconnect" /\ cphase' # "reconnect"
    BY <1>7, <1>q DEF ClientLosesLink
  <2> QED
    BY <1>6, <2>1 DEF Unattached
<1>8. CASE ClientClearsSessions
  <2>1. UNCHANGED <<latest, live, rx, link_id>> /\ cphase = "clearing"
    BY <1>8 DEF ClientClearsSessions, muxVars
  <2>2. rx[Client] = <<>>
    BY <2>1 DEF LinkInv
  <2> QED
    BY <1>1, <2>1, <2>2 DEF Unattached
<1>9. CASE ClientDispatches
  <2>1. UNCHANGED <<latest, live, cphase, link_id>> /\ cphase # "reconnect"
    BY <1>9 DEF ClientDispatches, linkVars, muxVars
  <2> QED
    BY <1>1, <2>1 DEF Unattached
<1>10. ASSUME NEW k \in Links,
              ServerOpensMux(k) \/ ServerDropsMux(k) \/ ServerDispatches(k) \/ ServerConnects(k)
       PROVE  [LS!Next]_LS!vars
  <2>1. /\ UNCHANGED <<latest, live, cphase>> /\ rx[k] # <<>> /\ Take(k) /\ k \in Ends /\ Client # k
        /\ link_id'[Client] = link_id[Client]
    BY <1>10, <1>q, Constants
    DEF ServerOpensMux, ServerDropsMux, ServerDispatches, ServerConnects, Gets, linkVars, muxVars
  <2>2. rx'[Client] = rx[Client]
    BY <1>q, <2>1, TakeProps
  <2> QED
    BY <1>1, <2>1, <2>2 DEF Unattached
<1>11. ASSUME NEW e \in Ends, Sender(e) PROVE [LS!Next]_LS!vars
  <2>1. UNCHANGED <<latest, live, cphase>> /\ (link_id'[Client] = link_id[Client] \/ link_id'[Client] = None)
    BY <1>11, <1>q DEF Sender, SenderTake, SenderSends, SenderLoses, SenderFails, linkVars
  <2>2. Unattached' <=> Unattached
    <3>1. CASE UNCHANGED rx
      BY <2>1, <3>1 DEF Unattached
    <3>2. CASE SenderSends(e)
      <4>1. live /\ (rx'[Client] = rx[Client] \/ rx'[Client] # <<>>)
        BY <3>2, <1>q, SendsProps
      <4> QED
        BY <2>1, <4>1 DEF Unattached, LinkInv
    <3> QED
      BY <1>11, <3>1, <3>2 DEF Sender, SenderTake, SenderLoses, SenderFails
  <2> QED
    BY <1>1, <1>6, <2>1, <2>2
<1> QED
  <2>1. ASSUME NEW e \in Ends, EventLoop(e) PROVE [LS!Next]_LS!vars
    BY <2>1, <1>5, <1>7, <1>8, <1>9, <1>10, Constants DEF EventLoop
  <2> QED
    BY <2>1, <1>2, <1>3, <1>4, <1>11, NextSteps

-----------------------------------------------------------------------------
(* What the steps of a session change: one session of one end, and what it *)
(* sends.                                                                  *)
Rest(e, s) == UNCHANGED <<read[e][s], written[e][s]>>
Same(e, s) ==
    /\ UNCHANGED <<pc[e][s], tasks[e][s], holding[e][s], inbox[e][s], why[e][s]>> /\ Rest(e, s)
    /\ s \in sessions'[e] <=> s \in sessions[e]
Elsewhere(e, s) == \A x \in Ends, t \in Sids : (x # e \/ t # s) => Same(x, t)
Kept(e, s) == s \in sessions'[e] <=> s \in sessions[e]
Mute == UNCHANGED data_sender_buf
Puts(e, s, type, n) ==
    LET f == [type |-> type, sid |-> s, from |-> e, n |-> n] IN
    /\ f \in Frame /\ data_sender_buf'[e] = Append(data_sender_buf[e], f)
    /\ \A x \in Ends : x # e => data_sender_buf'[x] = data_sender_buf[x]

Registers(e, s) ==
    /\ e = Client /\ pc[e][s] = "none" /\ pc'[e][s] = "accepted" /\ s \in sessions'[e]
    /\ next_sid' = s /\ UNCHANGED <<tasks[e][s], holding[e][s], inbox[e][s], why[e][s]>> /\ Rest(e, s) /\ Mute
Fails(e, s) ==
    /\ e = Client /\ pc[e][s] = "accepted" /\ pc'[e][s] = "ended" /\ Kept(e, s)
    /\ UNCHANGED <<tasks[e][s], holding[e][s], inbox[e][s], why[e][s]>> /\ Rest(e, s) /\ Mute
AsksFor(e, s) ==
    /\ e = Client /\ pc[e][s] = "accepted" /\ pc'[e][s] = "waiting" /\ Kept(e, s)
    /\ UNCHANGED <<tasks[e][s], holding[e][s], inbox[e][s], why[e][s]>> /\ Rest(e, s)
    /\ Puts(e, s, "Connect", 0)
IsAnswered(e, s) ==
    /\ e = Client /\ pc[e][s] = "waiting" /\ Kept(e, s)
    /\ inbox[e][s] # <<>> /\ inbox'[e][s] = Tail(inbox[e][s])
    /\ Head(inbox[e][s]).type \in {"ConnectOk", "ConnectErr"}
    /\ \/ pc'[e][s] = "relay" /\ tasks'[e][s] = {Reader, Writer} /\ UNCHANGED why[e][s]
       \/ pc'[e][s] = "closing" /\ UNCHANGED <<tasks[e][s], why[e][s]>>
       \/ pc'[e][s] = "ended" /\ why'[e][s] = "refused" /\ UNCHANGED tasks[e][s]
    /\ UNCHANGED holding[e][s] /\ Rest(e, s) /\ Mute
Skips(e, s) ==
    /\ e = Client /\ pc[e][s] = "waiting" /\ Kept(e, s)
    /\ inbox[e][s] # <<>> /\ inbox'[e][s] = Tail(inbox[e][s])
    /\ Head(inbox[e][s]).type \notin {"ConnectOk", "ConnectErr"}
    /\ UNCHANGED <<pc[e][s], tasks[e][s], holding[e][s], why[e][s]>> /\ Rest(e, s) /\ Mute
TimesOut(e, s) ==
    /\ e = Client /\ pc[e][s] = "waiting" /\ pc'[e][s] = "ended" /\ why'[e][s] = "timeout"
    /\ inbox'[e][s] = <<>> /\ Kept(e, s)
    /\ UNCHANGED <<tasks[e][s], holding[e][s]>> /\ Rest(e, s) /\ Mute
Answers(e, s) ==
    /\ e \in Links /\ pc[e][s] = "dialing" /\ Kept(e, s)
    /\ \/ /\ pc'[e][s] = "relay" /\ tasks'[e][s] = {Reader, Writer} /\ UNCHANGED inbox[e][s]
          /\ Puts(e, s, "ConnectOk", 0)
       \/ /\ pc'[e][s] = "dropping" /\ UNCHANGED tasks[e][s] /\ inbox'[e][s] = <<>>
          /\ Puts(e, s, "ConnectErr", 0)
    /\ UNCHANGED <<holding[e][s], why[e][s]>> /\ Rest(e, s)
Reads(e, s) ==
    /\ Reader \in tasks[e][s] /\ ~holding[e][s] /\ holding'[e][s] /\ read'[e][s] = read[e][s] + 1
    /\ UNCHANGED <<pc[e][s], tasks[e][s], inbox[e][s], written[e][s], why[e][s]>> /\ Kept(e, s) /\ Mute
SendsRead(e, s) ==
    /\ Reader \in tasks[e][s] /\ holding[e][s] /\ ~holding'[e][s]
    /\ Puts(e, s, "Data", read[e][s])
    /\ UNCHANGED <<pc[e][s], tasks[e][s], inbox[e][s], why[e][s]>> /\ Rest(e, s) /\ Kept(e, s)
WritesOne(e, s) ==
    /\ Writer \in tasks[e][s]
    /\ inbox[e][s] # <<>> /\ inbox'[e][s] = Tail(inbox[e][s])
    /\ Head(inbox[e][s]).type = "Data"
    /\ written'[e][s] = Append(written[e][s], Head(inbox[e][s]))
    /\ UNCHANGED <<pc[e][s], tasks[e][s], holding[e][s], read[e][s], why[e][s]>> /\ Kept(e, s) /\ Mute
EndsTask(e, s) ==
    \E t \in tasks[e][s] :
       /\ tasks'[e][s] = tasks[e][s] \ {t} /\ (holding'[e][s] <=> holding[e][s] /\ t # Reader)
       /\ IF t = Writer THEN inbox'[e][s] = <<>> ELSE UNCHANGED inbox[e][s]
       /\ \/ pc[e][s] # "relay" /\ UNCHANGED <<pc[e][s], why[e][s]>>
          \/ /\ pc[e][s] = "relay" /\ pc'[e][s] = "closing"
             /\ \/ t = Reader /\ ~holding[e][s] /\ why'[e][s] = "eof"
                \/ /\ t = Writer /\ inbox[e][s] # <<>> /\ why'[e][s] = "closed"
                   /\ Head(inbox[e][s]).type \in {"Close", "ConnectErr"}
                \/ t = Writer /\ why'[e][s] \in {"write_error", "lost"}
       /\ Kept(e, s) /\ Rest(e, s) /\ Mute
SendsClose(e, s) ==
    /\ pc[e][s] = "closing" /\ pc'[e][s] = "dropping" /\ Puts(e, s, "Close", 0) /\ Kept(e, s)
    /\ UNCHANGED <<tasks[e][s], holding[e][s], inbox[e][s], why[e][s]>> /\ Rest(e, s)
Unregisters(e, s) ==
    /\ pc[e][s] = "dropping" /\ pc'[e][s] = "ended" /\ s \notin sessions'[e] /\ Mute
    /\ UNCHANGED <<tasks[e][s], holding[e][s], inbox[e][s], why[e][s]>> /\ Rest(e, s)

Moves(e, s) ==
    \/ Registers(e, s) \/ Fails(e, s) \/ AsksFor(e, s) \/ IsAnswered(e, s) \/ Skips(e, s)
    \/ TimesOut(e, s) \/ Answers(e, s) \/ Reads(e, s) \/ SendsRead(e, s) \/ WritesOne(e, s) \/ EndsTask(e, s)
    \/ SendsClose(e, s) \/ Unregisters(e, s)

LEMMA SendPuts ==
    ASSUME TypeOK, NEW e \in Ends, NEW s \in Sids, NEW type \in FrameTypes, NEW n \in Nat,
           Send(e, type, s, n)
    PROVE  Puts(e, s, type, n)
    BY DEF Send, Puts, Frame, TypeOK

(* The variables that all steps of sessions change in one place at most.   *)
LEMMA Other ==
    ASSUME NEW S, NEW f \in [Ends -> [Sids -> S]], NEW g, NEW e \in Ends, NEW s \in Sids,
           g = f \/ \E v : g = [f EXCEPT ![e][s] = v], NEW x \in Ends, NEW t \in Sids, x # e \/ t # s
    PROVE  g[x][t] = f[x][t]
    OBVIOUS

LEMMA Elsewhere1 ==
    ASSUME TypeOK, NEW e \in Ends, NEW s \in Sids,
           pc' = pc \/ \E v : pc' = [pc EXCEPT ![e][s] = v],
           tasks' = tasks \/ \E v : tasks' = [tasks EXCEPT ![e][s] = v],
           holding' = holding \/ \E v : holding' = [holding EXCEPT ![e][s] = v],
           inbox' = inbox \/ \E v : inbox' = [inbox EXCEPT ![e][s] = v],
           why' = why \/ \E v : why' = [why EXCEPT ![e][s] = v],
           read' = read \/ \E v : read' = [read EXCEPT ![e][s] = v],
           written' = written \/ \E v : written' = [written EXCEPT ![e][s] = v],
           \/ sessions' = sessions
           \/ \E S : /\ sessions' = [sessions EXCEPT ![e] = S]
                    /\ \A t \in Sids : t # s => (t \in S <=> t \in sessions[e])
    PROVE  Elsewhere(e, s)
<1> SUFFICES ASSUME NEW x \in Ends, NEW t \in Sids, x # e \/ t # s PROVE Same(x, t)
    BY DEF Elsewhere
<1>0. /\ pc \in [Ends -> [Sids -> Pcs]] /\ tasks \in [Ends -> [Sids -> SUBSET {Reader, Writer}]]
      /\ holding \in [Ends -> [Sids -> BOOLEAN]] /\ inbox \in [Ends -> [Sids -> Seq(Frame)]]
      /\ why \in [Ends -> [Sids -> Whys]] /\ read \in [Ends -> [Sids -> Nat]]
      /\ written \in [Ends -> [Sids -> Seq(Frame)]] /\ sessions \in [Ends -> SUBSET Sids]
    BY DEF TypeOK, Pcs, Whys
<1>1. pc'[x][t] = pc[x][t]
    BY <1>0, Other
<1>2. tasks'[x][t] = tasks[x][t]
    BY <1>0, Other
<1>3. holding'[x][t] = holding[x][t]
    BY <1>0, Other
<1>4. inbox'[x][t] = inbox[x][t]
    BY <1>0, Other
<1>5. why'[x][t] = why[x][t]
    BY <1>0, Other
<1>6. read'[x][t] = read[x][t]
    BY <1>0, Other
<1>7. written'[x][t] = written[x][t]
    BY <1>0, Other
<1>8. t \in sessions'[x] <=> t \in sessions[x]
    BY <1>0
<1> QED
    BY <1>1, <1>2, <1>3, <1>4, <1>5, <1>6, <1>7, <1>8 DEF Same, Rest

LEMMA ConnectMoves ==
    ASSUME TypeOK, NEW s \in Sids, ConnectSteps(s)
    PROVE  \E e \in Ends : Moves(e, s) /\ Elsewhere(e, s)
<1>q. Client \in Ends /\ Links \subseteq Ends /\ {"Connect", "ConnectOk", "ConnectErr"} \subseteq FrameTypes
    BY Constants DEF FrameTypes
<1>1. CASE HandshakeFails(s)
  <2>1. Elsewhere(Client, s)
    BY <1>1, <1>q, Elsewhere1 DEF HandshakeFails, Becomes, relayVars
  <2>2. Fails(Client, s)
    BY <1>1, <1>q DEF HandshakeFails, Becomes, Fails, Kept, Rest, Mute, relayVars, muxVars, TypeOK
  <2> QED
    BY <1>q, <2>1, <2>2 DEF Moves
<1>2. CASE Connect(s)
  <2>1. Elsewhere(Client, s)
    BY <1>2, <1>q, Elsewhere1 DEF Connect, Becomes, relayVars
  <2>2. Puts(Client, s, "Connect", 0)
    BY <1>2, <1>q, SendPuts DEF Connect
  <2>3. AsksFor(Client, s)
    BY <1>2, <1>q, <2>2 DEF Connect, Becomes, AsksFor, Kept, Rest, relayVars, TypeOK
  <2> QED
    BY <1>q, <2>1, <2>3 DEF Moves
<1>3. CASE GetsOk(s) \/ GetsErr(s)
  <2>1. Elsewhere(Client, s)
    <3>1. CASE GetsOk(s)
      <4>1. /\ tasks' = tasks \/ \E v : tasks' = [tasks EXCEPT ![Client][s] = v]
            /\ \E v : pc' = [pc EXCEPT ![Client][s] = v]
            /\ \E v : inbox' = [inbox EXCEPT ![Client][s] = v]
            /\ UNCHANGED <<holding, read, written, why, sessions>>
        BY <3>1 DEF GetsOk, Becomes, Pop
      <4> QED
        BY <1>q, <4>1, Elsewhere1
    <3>2. CASE GetsErr(s)
      BY <1>q, <3>2, Elsewhere1 DEF GetsErr, Becomes, Pop
    <3> QED
      BY <1>3, <3>1, <3>2
  <2>2. IsAnswered(Client, s)
    <3>1. /\ pc[Client][s] = "waiting" /\ Kept(Client, s) /\ inbox[Client][s] # <<>>
          /\ inbox'[Client][s] = Tail(inbox[Client][s])
          /\ Head(inbox[Client][s]).type \in {"ConnectOk", "ConnectErr"}
          /\ UNCHANGED holding[Client][s] /\ Rest(Client, s) /\ Mute
      <4>1. /\ pc[Client][s] = "waiting" /\ inbox[Client][s] # <<>> /\ Pop(Client, s)
            /\ Head(inbox[Client][s]).type \in {"ConnectOk", "ConnectErr"}
            /\ UNCHANGED <<holding, read, written, sessions, data_sender_buf>>
        BY <1>3 DEF GetsOk, GetsErr, InboxHas, muxVars
      <4>2. inbox'[Client][s] = Tail(inbox[Client][s])
        BY <1>q, <4>1 DEF Pop, TypeOK
      <4> QED
        BY <4>1, <4>2 DEF Kept, Rest, Mute
    <3>2. \/ pc'[Client][s] = "relay" /\ tasks'[Client][s] = {Reader, Writer} /\ UNCHANGED why[Client][s]
          \/ pc'[Client][s] = "closing" /\ UNCHANGED <<tasks[Client][s], why[Client][s]>>
          \/ pc'[Client][s] = "ended" /\ why'[Client][s] = "refused" /\ UNCHANGED tasks[Client][s]
      BY <1>3, <1>q DEF GetsOk, GetsErr, Becomes, TypeOK
    <3> QED
      BY <3>1, <3>2 DEF IsAnswered
  <2> QED
    BY <1>q, <2>1, <2>2 DEF Moves
<1>4. CASE GivesUp(s)
  <2>1. Elsewhere(Client, s)
    BY <1>4, <1>q, Elsewhere1 DEF GivesUp, Becomes
  <2>2. TimesOut(Client, s)
    BY <1>4, <1>q DEF GivesUp, Becomes, TimesOut, Kept, Rest, Mute, muxVars, TypeOK
  <2> QED
    BY <1>q, <2>1, <2>2 DEF Moves
<1>6. CASE Discards(s)
  <2>1. Elsewhere(Client, s)
    BY <1>6, <1>q, Elsewhere1 DEF Discards, Pop, relayVars
  <2>2. Skips(Client, s)
    <3>1. /\ pc[Client][s] = "waiting" /\ inbox[Client][s] # <<>> /\ Pop(Client, s)
          /\ Head(inbox[Client][s]).type \notin {"ConnectOk", "ConnectErr"}
          /\ UNCHANGED <<pc, tasks, holding, why, read, written, sessions, data_sender_buf>>
      BY <1>6 DEF Discards, InboxHas, relayVars, muxVars
    <3>2. inbox'[Client][s] = Tail(inbox[Client][s])
      BY <1>q, <3>1 DEF Pop, TypeOK
    <3> QED
      BY <3>1, <3>2 DEF Skips, Kept, Rest, Mute
  <2> QED
    BY <1>q, <2>1, <2>2 DEF Moves
<1>5. ASSUME NEW l \in Links, DialSucceeds(l, s) \/ DialFails(l, s) PROVE Moves(l, s) /\ Elsewhere(l, s)
  <2>1. Elsewhere(l, s)
    <3>1. CASE DialSucceeds(l, s)
      BY <1>q, <3>1, Elsewhere1 DEF DialSucceeds, Becomes
    <3>2. CASE DialFails(l, s)
      BY <1>q, <3>2, Elsewhere1 DEF DialFails, Becomes, relayVars
    <3> QED
      BY <1>5, <3>1, <3>2
  <2>2. \/ DialSucceeds(l, s) /\ Puts(l, s, "ConnectOk", 0)
        \/ DialFails(l, s) /\ Puts(l, s, "ConnectErr", 0)
    BY <1>5, <1>q, SendPuts DEF DialSucceeds, DialFails
  <2>3. Answers(l, s)
    <3>1. CASE DialSucceeds(l, s) /\ Puts(l, s, "ConnectOk", 0)
      BY <1>q, <3>1 DEF DialSucceeds, Becomes, Answers, Kept, Rest, TypeOK
    <3>2. CASE DialFails(l, s) /\ Puts(l, s, "ConnectErr", 0)
      BY <1>q, <3>2 DEF DialFails, Becomes, Answers, Kept, Rest, relayVars, TypeOK
    <3> QED
      BY <2>2, <3>1, <3>2
  <2> QED
    BY <2>1, <2>3 DEF Moves
<1> QED
    BY <1>1, <1>2, <1>3, <1>4, <1>5, <1>6, <1>q DEF ConnectSteps

LEMMA RelayMoves ==
    ASSUME TypeOK, NEW e \in Ends, NEW s \in Sids, Relays(e, s) \/ Sockets(e, s)
    PROVE  Moves(e, s) /\ Elsewhere(e, s)
<1>1. CASE ReadsData(e, s)
  <2>1. Elsewhere(e, s)
    BY <1>1, Elsewhere1 DEF ReadsData
  <2>2. Reads(e, s)
    BY <1>1 DEF ReadsData, Running, Reads, Kept, Mute, muxVars, TypeOK
  <2> QED
    BY <2>1, <2>2 DEF Moves
<1>2. CASE SendsData(e, s)
  <2>1. Elsewhere(e, s)
    BY <1>2, Elsewhere1 DEF SendsData
  <2>2. Puts(e, s, "Data", read[e][s])
    <3>1. read[e][s] \in Nat /\ "Data" \in FrameTypes
      BY DEF TypeOK, FrameTypes
    <3> QED
      BY <1>2, <3>1, SendPuts DEF SendsData
  <2>3. SendsRead(e, s)
    BY <1>2, <2>2 DEF SendsData, Running, SendsRead, Kept, Rest, TypeOK
  <2> QED
    BY <2>1, <2>3 DEF Moves
<1>3. CASE Writes(e, s)
  <2>1. Elsewhere(e, s)
    BY <1>3, Elsewhere1 DEF Writes, Pop
  <2>2. WritesOne(e, s)
    BY <1>3 DEF Writes, Pop, InboxHas, Running, WritesOne, Kept, Mute, muxVars, TypeOK
  <2> QED
    BY <2>1, <2>2 DEF Moves
<1>4. CASE Closes(e, s)
  <2>1. Elsewhere(e, s)
    BY <1>4, Elsewhere1 DEF Closes, Becomes, relayVars
  <2>2. Puts(e, s, "Close", 0)
    BY <1>4, SendPuts DEF Closes, FrameTypes
  <2>3. SendsClose(e, s)
    BY <1>4, <2>2 DEF Closes, Becomes, SendsClose, Kept, Rest, relayVars, TypeOK
  <2> QED
    BY <2>1, <2>3 DEF Moves
<1>5. CASE DropsSession(e, s)
  <2>1. Elsewhere(e, s)
    <3>1. \A t \in Sids : t # s => (t \in sessions[e] \ {s} <=> t \in sessions[e])
      OBVIOUS
    <3> QED
      BY <1>5, <3>1, Elsewhere1 DEF DropsSession, Becomes, relayVars
  <2>2. Unregisters(e, s)
    BY <1>5 DEF DropsSession, Becomes, Unregisters, Rest, Mute, relayVars, muxVars, TypeOK
  <2> QED
    BY <2>1, <2>2 DEF Moves
<1>6. CASE TaskSteps(e, s)
  <2>1. PICK t \in tasks[e][s] :
              /\ TaskEnds(e, s, t)
              /\ UNCHANGED <<linkVars, rx, muxVars, sessions, acceptVars, reply, read, written>>
              /\ \/ pc[e][s] # "relay" /\ UNCHANGED <<pc, why>>
                 \/ /\ pc[e][s] = "relay" /\ Becomes(e, s, "closing")
                    /\ \/ t = Reader /\ ~holding[e][s] /\ why' = [why EXCEPT ![e][s] = "eof"]
                       \/ t = Writer /\ GetsClose(e, s) /\ why' = [why EXCEPT ![e][s] = "closed"]
                       \/ \E r \in {"write_error", "lost"} :
                             t = Writer /\ why' = [why EXCEPT ![e][s] = r]
    BY <1>6, TaskStep
  <2>2. Elsewhere(e, s)
    <3>1. /\ \E v : tasks' = [tasks EXCEPT ![e][s] = v]
          /\ \E v : holding' = [holding EXCEPT ![e][s] = v]
          /\ inbox' = inbox \/ \E v : inbox' = [inbox EXCEPT ![e][s] = v]
      BY <2>1 DEF TaskEnds
    <3>2. /\ pc' = pc \/ \E v : pc' = [pc EXCEPT ![e][s] = v]
          /\ why' = why \/ \E v : why' = [why EXCEPT ![e][s] = v]
          /\ UNCHANGED <<read, written, sessions>>
      BY <2>1 DEF Becomes
    <3> QED
      BY <3>1, <3>2, Elsewhere1
  <2>3. /\ tasks'[e][s] = tasks[e][s] \ {t} /\ Kept(e, s) /\ Rest(e, s) /\ Mute
        /\ IF t = Writer THEN inbox'[e][s] = <<>> ELSE UNCHANGED inbox[e][s]
    BY <2>1 DEF TaskEnds, Kept, Rest, Mute, muxVars, TypeOK
  <2>4. holding'[e][s] <=> holding[e][s] /\ t # Reader
    <3>1. (holding[e][s] /\ t # Reader) \in BOOLEAN /\ holding \in [Ends -> [Sids -> BOOLEAN]]
      BY DEF TypeOK
    <3>2. holding' = [holding EXCEPT ![e][s] = @ /\ t # Reader]
      BY <2>1 DEF TaskEnds
    <3> QED
      BY <3>1, <3>2
  <2>5. \/ pc[e][s] # "relay" /\ UNCHANGED <<pc[e][s], why[e][s]>>
        \/ /\ pc[e][s] = "relay" /\ pc'[e][s] = "closing"
           /\ \/ t = Reader /\ ~holding[e][s] /\ why'[e][s] = "eof"
              \/ /\ t = Writer /\ inbox[e][s] # <<>> /\ why'[e][s] = "closed"
                 /\ Head(inbox[e][s]).type \in {"Close", "ConnectErr"}
              \/ t = Writer /\ why'[e][s] \in {"write_error", "lost"}
    BY <2>1 DEF Becomes, GetsClose, InboxHas, TypeOK
  <2>6. EndsTask(e, s)
    BY <2>3, <2>4, <2>5 DEF EndsTask
  <2> QED
    BY <2>2, <2>6 DEF Moves
<1> QED
    BY <1>1, <1>2, <1>3, <1>4, <1>5, <1>6 DEF Relays, Sockets, TaskSteps

LEMMA SessionMoves ==
    ASSUME TypeOK, TasksInv, SessionSteps
    PROVE  \/ (\A e \in Ends, s \in Sids : Same(e, s)) /\ Mute
           \/ \E e \in Ends, s \in Sids : Moves(e, s) /\ Elsewhere(e, s)
<1>1. CASE AcceptChecks
    BY <1>1 DEF AcceptChecks, Same, Rest, Mute, sessionVars, relayVars, muxVars
<1>2. CASE AcceptRegisters
  <2>0. PICK s \in Sids : s = next_sid + 1 /\ s > next_sid
    <3>1. next_sid \in Nat /\ next_sid < MaxSessions
      BY <1>2, TunnelAssumption DEF AcceptRegisters, TasksInv, TypeOK
    <3>2. next_sid + 1 \in Sids /\ next_sid + 1 > next_sid
      BY <3>1, TunnelAssumption DEF Sids
    <3> QED
      BY <3>2
  <2>1. Client \in Ends /\ pc[Client][s] = "none"
    BY <2>0, Constants DEF TasksInv
  <2>3. /\ sessions' = [sessions EXCEPT ![Client] = @ \cup {s}] /\ Becomes(Client, s, "accepted")
        /\ UNCHANGED <<muxVars, inbox, reply, relayVars>>
    BY <1>2, <2>0 DEF AcceptRegisters
  <2>4. Elsewhere(Client, s)
    <3>1. \A t \in Sids : t # s => (t \in sessions[Client] \cup {s} <=> t \in sessions[Client])
      OBVIOUS
    <3> QED
      BY <2>1, <2>3, <3>1, Elsewhere1 DEF Becomes, relayVars
  <2>5. Registers(Client, s)
    <3>1. pc'[Client][s] = "accepted" /\ s \in sessions'[Client]
      BY <2>1, <2>3 DEF Becomes, TypeOK
    <3>2. /\ UNCHANGED <<tasks[Client][s], holding[Client][s], inbox[Client][s], why[Client][s]>>
          /\ Rest(Client, s) /\ Mute
      BY <2>3 DEF relayVars, muxVars, Rest, Mute
    <3>3. next_sid' = s
      BY <1>2, <2>0 DEF AcceptRegisters
    <3> QED
      BY <2>1, <3>1, <3>2, <3>3 DEF Registers
  <2> QED
    BY <2>1, <2>4, <2>5 DEF Moves
<1> QED
    BY <1>1, <1>2, ConnectMoves, RelayMoves DEF SessionSteps

-----------------------------------------------------------------------------
(* Nothing a session has done is undone.                                   *)
Grows(e, s) ==
    /\ pc[e][s] # "none" => pc'[e][s] # "none" /\ Sent(e, s)' >= Sent(e, s)
    /\ Active(e, s) => Active(e, s)'
    /\ pc[e][s] \in {"dropping", "ended"} => pc'[e][s] \in {"dropping", "ended"}
    /\ pc[e][s] \notin {"none", "accepted"} => pc'[e][s] \notin {"none", "accepted"}

LEMMA SentIsNat == TypeOK => \A e \in Ends, s \in Sids : Sent(e, s) \in Nat
    BY DEF TypeOK, Sent

LEMMA SameGrows ==
    ASSUME TypeOK, NEW e \in Ends, NEW s \in Sids, UNCHANGED <<pc[e][s], holding[e][s], read[e][s]>>
    PROVE  Grows(e, s)
<1>1. Sent(e, s)' = Sent(e, s) /\ Sent(e, s) \in Nat
    BY SentIsNat DEF Sent
<1> QED
    BY <1>1 DEF Grows, Active

LEMMA MovesGrow ==
    ASSUME TypeOK, TasksInv, NEW e \in Ends, NEW s \in Sids, Moves(e, s)
    PROVE  Grows(e, s)
<1>1. /\ read[e][s] \in Nat /\ holding[e][s] \in BOOLEAN /\ pc[e][s] \in Pcs
      /\ ~Active(e, s) => tasks[e][s] = {} /\ read[e][s] = 0
      /\ holding[e][s] => Reader \in tasks[e][s] /\ read[e][s] > 0
    BY DEF TypeOK, TasksInv, Pcs
<1>2. /\ \/ UNCHANGED pc[e][s] \/ (pc[e][s] = "none" /\ pc'[e][s] = "accepted")
         \/ (pc[e][s] = "accepted" /\ pc'[e][s] \in {"waiting", "ended"})
         \/ (pc[e][s] = "waiting" /\ pc'[e][s] \in {"relay", "closing", "ended"})
         \/ (pc[e][s] = "dialing" /\ pc'[e][s] \in {"relay", "dropping"})
         \/ (pc[e][s] = "relay" /\ pc'[e][s] = "closing")
         \/ (pc[e][s] = "closing" /\ pc'[e][s] = "dropping")
         \/ (pc[e][s] = "dropping" /\ pc'[e][s] = "ended")
    BY DEF Moves, Registers, Fails, AsksFor, IsAnswered, Skips, TimesOut, Answers, Reads, SendsRead, WritesOne,
           EndsTask, SendsClose, Unregisters
<1>3. /\ Active(e, s) => Active(e, s)'
      /\ pc[e][s] \in {"dropping", "ended"} => pc'[e][s] \in {"dropping", "ended"}
      /\ pc[e][s] \notin {"none", "accepted"} => pc'[e][s] \notin {"none", "accepted"}
      /\ pc[e][s] # "none" => pc'[e][s] # "none"
      /\ pc[e][s] # "dialing" => pc'[e][s] # "dialing"
    BY <1>1, <1>2 DEF Active, Pcs
<1>4. Sent(e, s)' >= Sent(e, s)
  <2>1. CASE Reads(e, s)
    BY <1>1, <2>1 DEF Reads, Sent
  <2>2. CASE SendsRead(e, s)
    <3>1. pc[e][s] # "dialing"
      BY <1>1, <2>2 DEF SendsRead, Active
    <3> QED
      BY <1>1, <1>3, <2>2, <3>1 DEF SendsRead, Sent, Rest
  <2>3. CASE EndsTask(e, s)
    <3>1. pc[e][s] # "dialing" /\ read'[e][s] = read[e][s] /\ (holding'[e][s] => holding[e][s])
      BY <1>1, <2>3 DEF EndsTask, Active, Rest
    <3> QED
      BY <1>1, <1>3, <3>1 DEF Sent
  <2>4. CASE UNCHANGED <<read[e][s], holding[e][s]>>
    <3>1. CASE pc[e][s] = "dialing"
      BY <1>1, <2>4, <3>1 DEF Sent
    <3>2. CASE pc[e][s] # "dialing"
      BY <1>1, <1>3, <2>4, <3>2 DEF Sent
    <3> QED
      BY <3>1, <3>2
  <2> QED
    BY <2>1, <2>2, <2>3, <2>4
    DEF Moves, Registers, Fails, AsksFor, IsAnswered, Skips, TimesOut, Answers, WritesOne, SendsClose, Unregisters, Rest
<1> QED
    BY <1>3, <1>4 DEF Grows

(* What the links, the event loops and the sender tasks leave alone.       *)
LEMMA LinkFrame ==
    ASSUME TypeOK, LinkComesUp \/ LinkGoesDown \/ \E e \in Ends : Sender(e)
    PROVE  UNCHANGED <<pc, tasks, holding, read, written, why, inbox, sessions, next_sid, accepting, reply>>
    BY DEF LinkComesUp, LinkGoesDown, Sender, SenderTake, SenderSends, SenderLoses, SenderFails, sessionVars, relayVars, acceptVars

LEMMA LoopFrame ==
    ASSUME TypeOK, NEW e \in Ends, EventLoop(e)
    PROVE  /\ UNCHANGED <<tasks, holding, read, written, why, reply, next_sid, accepting, data_sender_buf, sending>>
           /\ \/ UNCHANGED <<pc, sessions>>
              \/ ClientClearsSessions
              \/ e \in Links /\ ServerConnects(e)
           /\ (rx[e] # <<>> /\ Take(e)) \/ (ClientClearsSessions /\ UNCHANGED rx)
           /\ UNCHANGED inbox \/ (Dispatch(e, Head(rx[e])) /\ Head(rx[e]).type \in FrameTypes)
    BY Constants
    DEF EventLoop, ClientAttaches, ClientLosesLink, ClientClearsSessions, ClientDispatches, ServerOpensMux,
        ServerDropsMux, ServerDispatches, ServerConnects, sessionVars, relayVars, acceptVars, muxVars, Gets, FrameTypes

(* The server begins to serve a session that no link serves.               *)
LEMMA ConnectsProps ==
    ASSUME TypeOK, ConnectInv, NEW l \in Links, ServerConnects(l)
    PROVE  \E s \in Sids :
              /\ rx[l] # <<>> /\ Take(l) /\ Head(rx[l]) \in Frame
              /\ Head(rx[l]).type = "Connect" /\ Head(rx[l]).sid = s
              /\ Asks(rx[l], s) /\ \A m \in Links : ~Serves(m, s)
              /\ pc'[l][s] = "dialing" /\ s \in sessions'[l]
              /\ UNCHANGED <<tasks, holding, read, written, why, inbox, next_sid, accepting,
                             data_sender_buf, sending, latest, live, cphase, link_id>>
              /\ \A x \in Ends, t \in Sids : x # l \/ t # s =>
                    UNCHANGED pc[x][t] /\ (t \in sessions'[x] <=> t \in sessions[x])
<1> DEFINE s == Head(rx[l]).sid
<1>1. /\ rx[l] # <<>> /\ Take(l) /\ Head(rx[l]).type = "Connect" /\ l \in Ends
      /\ sessions' = [sessions EXCEPT ![l] = @ \cup {s}] /\ pc' = [pc EXCEPT ![l][s] = "dialing"]
      /\ UNCHANGED <<tasks, holding, read, written, why, inbox, next_sid, accepting, data_sender_buf,
                     sending, latest, live, cphase, link_id>>
    BY Constants DEF ServerConnects, Gets, relayVars, acceptVars, muxVars, linkVars
<1>2. /\ rx[l] \in Seq(Events) /\ Head(rx[l]) = rx[l][1] /\ Head(rx[l]) \in Events
      /\ Len(rx[l]) \in Nat \ {0}
    BY <1>1, TakeProps DEF TypeOK
<1>3. Head(rx[l]) \in Frame /\ s \in Sids
  <2>1. "Connect" \in FrameTypes
    BY DEF FrameTypes
  <2>2. Head(rx[l]) \in Frame
    BY <1>1, <1>2, <2>1, Kinds
  <2> QED
    BY <2>2 DEF Frame
<1>4. Asks(rx[l], s)
    BY <1>1, <1>2 DEF Asks, Elems
<1>5. \A m \in Links : ~Serves(m, s)
    BY <1>3, <1>4 DEF ConnectInv
<1>6. pc'[l][s] = "dialing" /\ s \in sessions'[l]
    BY <1>1, <1>3 DEF TypeOK
<1>7. \A x \in Ends, t \in Sids : x # l \/ t # s => UNCHANGED pc[x][t]
    BY <1>1, <1>3 DEF TypeOK
<1>8. \A x \in Ends, t \in Sids : x # l \/ t # s => (t \in sessions'[x] <=> t \in sessions[x])
    BY <1>1, <1>3 DEF TypeOK
<1> QED
    BY <1>1, <1>2, <1>3, <1>4, <1>5, <1>6, <1>7, <1>8

AllGrow == \A e \in Ends, s \in Sids : Grows(e, s)

LEMMA SameAll ==
    ASSUME TypeOK, UNCHANGED <<pc, holding, read>>
    PROVE  AllGrow
    BY SameGrows DEF AllGrow

LEMMA GrowsStep ==
    ASSUME TypeOK, TasksInv, ConnectInv, [Next]_vars
    PROVE  AllGrow
<1>1. CASE UNCHANGED vars
    BY <1>1, SameAll DEF vars, sessionVars, relayVars
<1>2. CASE LinkComesUp \/ LinkGoesDown \/ \E e \in Ends : Sender(e)
    BY <1>2, LinkFrame, SameAll
<1>3. CASE SessionSteps
  <2>1. ASSUME NEW e \in Ends, NEW s \in Sids, Same(e, s) PROVE Grows(e, s)
    BY <2>1, SameGrows DEF Same, Rest
  <2>2. ASSUME NEW e \in Ends, NEW s \in Sids, Moves(e, s), Elsewhere(e, s) PROVE AllGrow
    BY <2>1, <2>2, MovesGrow DEF Elsewhere, AllGrow
  <2> QED
    BY <1>3, <2>1, <2>2, SessionMoves DEF AllGrow
<1>4. ASSUME NEW e \in Ends, EventLoop(e) PROVE AllGrow
  <2>1. CASE UNCHANGED pc
    BY <1>4, <2>1, LoopFrame, SameAll
  <2>2. CASE ClientClearsSessions
    BY <2>2, SameAll DEF ClientClearsSessions, sessionVars, relayVars
  <2>3. CASE e \in Links /\ ServerConnects(e)
    <3>1. PICK s \in Sids :
              /\ \A m \in Links : ~Serves(m, s)
              /\ pc'[e][s] = "dialing" /\ UNCHANGED <<holding, read>>
              /\ \A x \in Ends, t \in Sids : x # e \/ t # s => UNCHANGED pc[x][t]
      BY <2>3, ConnectsProps
    <3>2. pc[e][s] = "none"
      BY <2>3, <3>1 DEF Serves
    <3>3. Grows(e, s)
      BY <3>1, <3>2 DEF Grows, Active
    <3> QED
      BY <3>1, <3>3, SameGrows DEF AllGrow
  <2> QED
    BY <1>4, <2>1, <2>2, <2>3, LoopFrame
<1> QED
    BY <1>1, <1>2, <1>3, <1>4, NextSteps

(* What is said of a frame stays true.                                     *)
LEMMA SoundStays ==
    ASSUME TypeOK, TypeOK', AllGrow, NEW f \in Frame, Sound(f)
    PROVE  Sound(f)'
<1>1. f.from \in Ends /\ f.sid \in Sids /\ f.n \in Nat /\ Client \in Ends /\ Links \subseteq Ends
    BY Constants DEF Frame
<1>2. \A l \in Links : Serves(l, f.sid) => Serves(l, f.sid)'
    BY <1>1 DEF AllGrow, Grows, Serves
<1>3. Active(f.from, f.sid) => Active(f.from, f.sid)' /\ Sent(f.from, f.sid)' >= Sent(f.from, f.sid)
    BY <1>1 DEF AllGrow, Grows, Active
<1>4. /\ pc[Client][f.sid] \notin {"none", "accepted"} => pc'[Client][f.sid] \notin {"none", "accepted"}
      /\ pc[f.from][f.sid] \in {"dropping", "ended"} => pc'[f.from][f.sid] \in {"dropping", "ended"}
    BY <1>1 DEF AllGrow, Grows
<1>5. Sent(f.from, f.sid) \in Nat /\ Sent(f.from, f.sid)' \in Nat
  <2>1. \A e \in Ends, s \in Sids : read[e][s] \in Nat
    BY DEF TypeOK
  <2>2. \A e \in Ends, s \in Sids : read'[e][s] \in Nat
    BY DEF TypeOK
  <2> QED
    BY <1>1, <2>1, <2>2 DEF Sent
<1>6. f.type = "Data" => f.n < Sent(f.from, f.sid)'
    BY <1>1, <1>3, <1>5 DEF Sound
<1> QED
    BY <1>2, <1>3, <1>4, <1>6 DEF Sound

-----------------------------------------------------------------------------
(* The tasks of a session.                                                 *)
LEMMA SidFrame ==
    ASSUME TypeOK, TasksInv, [Next]_vars
    PROVE  next_sid' >= next_sid /\ (accepting' => next_sid' < MaxSessions)
<1>0. next_sid \in Nat /\ (accepting => next_sid < MaxSessions)
    BY TunnelAssumption DEF TypeOK, TasksInv
<1>1. CASE UNCHANGED <<next_sid, accepting>>
    BY <1>0, <1>1
<1>2. CASE AcceptChecks
    BY <1>0, <1>2 DEF AcceptChecks
<1>3. CASE AcceptRegisters
    BY <1>0, <1>3 DEF AcceptRegisters
<1>4. CASE LinkComesUp \/ LinkGoesDown \/ \E e \in Ends : Sender(e)
    BY <1>4, <1>1, LinkFrame
<1>5. CASE \E e \in Ends : EventLoop(e)
    BY <1>5, <1>1, LoopFrame
<1>6. ASSUME NEW s \in Sids, ConnectSteps(s) PROVE UNCHANGED <<next_sid, accepting>>
    BY <1>6 DEF ConnectSteps, HandshakeFails, Connect, GetsOk, GetsErr, Discards, GivesUp,
           DialSucceeds, DialFails, acceptVars
<1>7. ASSUME NEW s \in Sids, NEW e \in Ends, Relays(e, s) \/ Sockets(e, s)
      PROVE  UNCHANGED <<next_sid, accepting>>
    BY <1>7 DEF Relays, Sockets, SendsData, Writes, GetsClose, ChannelCloses, Aborted, Closes,
                DropsSession, ReadsData, ReadEnds, WriteFails, Finish, acceptVars
<1>8. CASE UNCHANGED vars
    BY <1>1, <1>8 DEF vars, acceptVars
<1> QED
    BY <1>1, <1>2, <1>3, <1>4, <1>5, <1>6, <1>7, <1>8, NextSteps DEF SessionSteps

ClientTask(s) ==
    /\ pc[Client][s] # "dialing"
    /\ pc[Client][s] = "none" => s \notin sessions[Client]
    /\ pc[Client][s] \in {"relay", "closing", "dropping"} \/ tasks[Client][s] # {} \/ read[Client][s] # 0 =>
          \E l \in Links : Serves(l, s)
ServerTask(l, s) == pc[l][s] \notin {"accepted", "waiting"} /\ (s \in sessions[l] => Serves(l, s))
AnyTask(e, s) ==
    /\ ~Active(e, s) =>
          tasks[e][s] = {} /\ read[e][s] = 0 /\ written[e][s] = <<>> /\ why[e][s] = "none"
    /\ pc[e][s] = "relay" => why[e][s] = "none"
    /\ holding[e][s] => Reader \in tasks[e][s] /\ read[e][s] > 0
    /\ why[e][s] = "eof" => Reader \notin tasks[e][s]
    /\ why[e][s] \in {"write_error", "closed", "lost"} => Writer \notin tasks[e][s]
    /\ pc[e][s] = "none" => inbox[e][s] = <<>>
TaskOf(e, s) ==
    /\ e = Client => ClientTask(s)
    /\ e \in Links => ServerTask(e, s)
    /\ AnyTask(e, s)

LEMMA TasksParts ==
    ASSUME TasksInv, NEW e \in Ends, NEW s \in Sids
    PROVE  TaskOf(e, s)
<1>1. e = Client => ClientTask(s)
    BY DEF TasksInv, ClientTask
<1>2. e \in Links => ServerTask(e, s)
    BY DEF TasksInv, ServerTask
<1>3. AnyTask(e, s)
    BY DEF TasksInv, AnyTask
<1> QED
    BY <1>1, <1>2, <1>3 DEF TaskOf

LEMMA TasksWhole ==
    ASSUME \A e \in Ends, s \in Sids : TaskOf(e, s)',
           \A s \in Sids : s > next_sid' => pc'[Client][s] = "none",
           accepting' => next_sid' < MaxSessions
    PROVE  TasksInv'
<1>1. \A s \in Sids : ClientTask(s)'
    BY Constants DEF TaskOf
<1>2. \A l \in Links, s \in Sids : ServerTask(l, s)'
    BY Constants DEF TaskOf
<1>3. \A e \in Ends, s \in Sids : AnyTask(e, s)'
    BY DEF TaskOf
<1> QED
    BY <1>1, <1>2, <1>3 DEF TasksInv, ClientTask, ServerTask, AnyTask

LEMMA ServedStays ==
    ASSUME AllGrow, NEW s \in Sids, \E l \in Links : Serves(l, s)
    PROVE  \E l \in Links : Serves(l, s)'
    BY Constants DEF AllGrow, Grows, Serves

LEMMA SameTask ==
    ASSUME TasksInv, AllGrow, NEW e \in Ends, NEW s \in Sids, Same(e, s)
    PROVE  TaskOf(e, s)'
<1>1. TaskOf(e, s)
    BY TasksParts
<1>2. /\ UNCHANGED <<pc[e][s], tasks[e][s], holding[e][s], inbox[e][s], why[e][s], read[e][s], written[e][s]>>
      /\ s \in sessions'[e] <=> s \in sessions[e]
    BY DEF Same, Rest
<1>3. e = Client => ClientTask(s)'
    BY <1>1, <1>2, ServedStays DEF TaskOf, ClientTask
<1>4. e \in Links => ServerTask(e, s)'
    BY <1>1, <1>2 DEF TaskOf, ServerTask, Serves
<1>5. AnyTask(e, s)'
    BY <1>1, <1>2 DEF TaskOf, AnyTask, Active
<1> QED
    BY <1>3, <1>4, <1>5 DEF TaskOf

(* An answer tells the client that the server has the session.             *)
LEMMA AnswerServed ==
    ASSUME TypeOK, FramesInv, NEW s \in Sids, inbox[Client][s] # <<>>
    PROVE  \E l \in Links : Serves(l, s)
<1>1. inbox[Client][s] \in Seq(Frame) /\ Client \in Ends
    BY Constants DEF TypeOK
<1>2. 1 \in 1..Len(inbox[Client][s])
    BY <1>1, TailProps
<1>3. PICK f \in Frame : f = inbox[Client][s][1]
    BY <1>1, <1>2, ElementOfSeq
<1>4. f.sid = s /\ f.from \in Links /\ f.type # "Connect" /\ Sound(f)
    BY <1>1, <1>2, <1>3 DEF FramesInv, Peers, Elems
<1>5. Active(f.from, s)
    BY <1>4 DEF Sound
<1> QED
    BY <1>4, <1>5 DEF Active, Serves

LEMMA MovesTask ==
    ASSUME TypeOK, TypeOK', TasksInv, FramesInv, AllGrow, NEW e \in Ends, NEW s \in Sids, Moves(e, s)
    PROVE  TaskOf(e, s)'
<1>1. TaskOf(e, s) /\ Client \notin Links
    BY TasksParts, Constants
<1>2. \/ UNCHANGED pc[e][s] \/ (e = Client /\ pc[e][s] = "none" /\ pc'[e][s] = "accepted")
      \/ (e = Client /\ pc[e][s] = "accepted" /\ pc'[e][s] \in {"waiting", "ended"})
      \/ (e = Client /\ pc[e][s] = "waiting" /\ pc'[e][s] \in {"relay", "closing", "ended"})
      \/ (pc[e][s] = "dialing" /\ pc'[e][s] \in {"relay", "dropping"})
      \/ (pc[e][s] = "relay" /\ pc'[e][s] = "closing")
      \/ (pc[e][s] = "closing" /\ pc'[e][s] = "dropping")
      \/ (pc[e][s] = "dropping" /\ pc'[e][s] = "ended")
    BY DEF Moves, Registers, Fails, AsksFor, IsAnswered, Skips, TimesOut, Answers, Reads, SendsRead, WritesOne,
           EndsTask, SendsClose, Unregisters
<1>3. e = Client => ClientTask(s)'
  <2> SUFFICES ASSUME e = Client PROVE ClientTask(s)'
    OBVIOUS
  <2>1. ClientTask(s)
    BY <1>1 DEF TaskOf
  <2>2. pc'[Client][s] # "dialing"
    BY <1>2, <2>1 DEF ClientTask
  <2>3. pc'[Client][s] = "none" => s \notin sessions'[Client]
    BY <1>2, <2>1 DEF ClientTask, Moves, Registers, Fails, AsksFor, IsAnswered, Skips, TimesOut, Answers, Reads, SendsRead,
       WritesOne, EndsTask, SendsClose, Unregisters, Kept
  <2>4. ASSUME pc'[Client][s] \in {"relay", "closing", "dropping"} \/ tasks'[Client][s] # {} \/ read'[Client][s] # 0
        PROVE  \E l \in Links : Serves(l, s)
    <3>1. CASE IsAnswered(Client, s)
      BY <3>1, AnswerServed DEF IsAnswered
    <3>2. CASE ~IsAnswered(Client, s)
      <4>1. pc[Client][s] \in {"relay", "closing", "dropping"} \/ tasks[Client][s] # {} \/ read[Client][s] # 0
        BY <1>1, <2>1, <2>4, <3>2 DEF ClientTask, Moves, Registers, Fails, AsksFor, Skips, TimesOut, Answers, Reads, SendsRead,
           WritesOne, EndsTask, SendsClose, Unregisters, Rest
      <4> QED
        BY <2>1, <4>1 DEF ClientTask
    <3> QED
      BY <3>1, <3>2
  <2> QED
    BY <2>2, <2>3, <2>4, ServedStays DEF ClientTask
<1>4. e \in Links => ServerTask(e, s)'
  <2> SUFFICES ASSUME e \in Links PROVE ServerTask(e, s)'
    OBVIOUS
  <2>1. ServerTask(e, s) /\ e # Client
    BY <1>1 DEF TaskOf
  <2>2. s \in sessions'[e] => s \in sessions[e]
    BY <2>1 DEF Moves, Registers, Fails, AsksFor, IsAnswered, Skips, TimesOut, Answers, Reads, SendsRead,
       WritesOne, EndsTask, SendsClose, Unregisters, Kept
  <2> QED
    BY <1>2, <2>1, <2>2 DEF ServerTask, Serves
<1>5. AnyTask(e, s)'
  <2>1. AnyTask(e, s) /\ read[e][s] \in Nat
    BY <1>1 DEF TaskOf, TypeOK
  <2>2. ~Active(e, s)' =>
          tasks'[e][s] = {} /\ read'[e][s] = 0 /\ written'[e][s] = <<>> /\ why'[e][s] = "none"
    BY <1>2, <2>1
    DEF AnyTask, Active, Moves, Registers, Fails, AsksFor, IsAnswered, Skips, TimesOut, Answers, Reads, SendsRead,
           WritesOne, EndsTask, SendsClose, Unregisters, Rest
  <2>3. pc'[e][s] = "relay" => why'[e][s] = "none"
    BY <1>2, <2>1
    DEF AnyTask, Active, Moves, Registers, Fails, AsksFor, IsAnswered, Skips, TimesOut, Answers, Reads, SendsRead,
           WritesOne, EndsTask, SendsClose, Unregisters, Rest
  <2>4. holding'[e][s] => Reader \in tasks'[e][s] /\ read'[e][s] > 0
    <3>1. CASE Reads(e, s)
      BY <2>1, <3>1 DEF Reads
    <3>2. CASE ~Reads(e, s)
      <4>1. (holding'[e][s] => holding[e][s]) /\ UNCHANGED read[e][s]
        BY <3>2 DEF Moves, Registers, Fails, AsksFor, IsAnswered, Skips, TimesOut, Answers, SendsRead,
           WritesOne, EndsTask, SendsClose, Unregisters, Rest
      <4>2. holding'[e][s] => (Reader \in tasks[e][s] => Reader \in tasks'[e][s])
        BY <3>2 DEF Moves, Registers, Fails, AsksFor, IsAnswered, Skips, TimesOut, Answers, SendsRead,
           WritesOne, EndsTask, SendsClose, Unregisters
      <4> QED
        BY <2>1, <4>1, <4>2 DEF AnyTask
    <3> QED
      BY <3>1, <3>2
  <2>5. /\ why'[e][s] = "eof" => Reader \notin tasks'[e][s]
        /\ why'[e][s] \in {"write_error", "closed", "lost"} => Writer \notin tasks'[e][s]
    BY <2>1 DEF AnyTask, Active, Moves, Registers, Fails, AsksFor, IsAnswered, Skips, TimesOut, Answers, Reads, SendsRead,
           WritesOne, EndsTask, SendsClose, Unregisters, Reader, Writer
  <2>6. pc'[e][s] # "none"
    <3>1. pc[e][s] # "none" => pc'[e][s] # "none"
      BY DEF AllGrow, Grows
    <3> QED
      BY <1>2, <2>1, <3>1
      DEF AnyTask, Active, Moves, Registers, Fails, AsksFor, IsAnswered, Skips, TimesOut, Answers, Reads, SendsRead,
           WritesOne, EndsTask, SendsClose, Unregisters
  <2> QED
    BY <2>2, <2>3, <2>4, <2>5, <2>6 DEF AnyTask
<1> QED
    BY <1>3, <1>4, <1>5 DEF TaskOf

(* What dispatch does with a frame.                                        *)
LEMMA DispatchProps ==
    ASSUME TypeOK, NEW e \in Ends, NEW f \in Frame, Dispatch(e, f)
    PROVE  \/ UNCHANGED inbox /\ ~(f.sid \in sessions[e] /\ Receiving(e, f.sid))
           \/ /\ f.sid \in sessions[e] /\ Receiving(e, f.sid) /\ f.sid \in Sids
              /\ inbox'[e][f.sid] = Append(inbox[e][f.sid], f)
              /\ \A x \in Ends, t \in Sids : x # e \/ t # f.sid => inbox'[x][t] = inbox[x][t]
<1>1. f.sid \in Sids
    BY DEF Frame
<1>2. inbox \in [Ends -> [Sids -> Seq(Frame)]]
    BY DEF TypeOK
<1>3. CASE f.sid \in sessions[e] /\ Receiving(e, f.sid)
  <2>1. inbox' = [inbox EXCEPT ![e][f.sid] = Append(inbox[e][f.sid], f)]
    BY <1>3 DEF Dispatch
  <2>2. Append(inbox[e][f.sid], f) \in Seq(Frame)
    BY <1>1, <1>2, AppendProps
  <2> QED
    BY <1>1, <1>2, <1>3, <2>1, <2>2, Cell
<1> QED
    BY <1>3 DEF Dispatch

(* An end's event loop, seen from the sessions.                            *)
Dispatches(e) ==
    /\ rx[e] # <<>> /\ Take(e) /\ Head(rx[e]) \in Frame
    /\ Dispatch(e, Head(rx[e])) /\ UNCHANGED <<pc, sessions, cphase>>
    /\ e = Client => cphase = "dispatch"
    /\ e # Client => Head(rx[e]).type \in {"Data", "Close"}
TakesEvent(e) ==
    /\ rx[e] # <<>> /\ Take(e) /\ Head(rx[e]).type \in LinkEvents /\ UNCHANGED <<pc, sessions, inbox>>
Clears ==
    /\ sessions'[Client] = {} /\ \A x \in Ends : x # Client => sessions'[x] = sessions[x]
    /\ cphase = "clearing" /\ cphase' = "reconnect" /\ UNCHANGED <<rx, pc, inbox>>

LEMMA LoopCases ==
    ASSUME TypeOK, NEW e \in Ends, EventLoop(e)
    PROVE  /\ UNCHANGED <<tasks, holding, read, written, why, next_sid, accepting, data_sender_buf, sending,
                          latest, live>>
           /\ Dispatches(e) \/ TakesEvent(e) \/ (e = Client /\ Clears) \/ (e \in Links /\ ServerConnects(e))
<1>6. UNCHANGED <<latest, live>>
    BY DEF EventLoop, ClientAttaches, ClientLosesLink, ClientClearsSessions, ClientDispatches, ServerOpensMux,
        ServerDropsMux, ServerDispatches, ServerConnects, linkVars
<1> SUFFICES Dispatches(e) \/ TakesEvent(e) \/ (e = Client /\ Clears) \/ (e \in Links /\ ServerConnects(e))
    BY <1>6, LoopFrame
<1>0. /\ e # Client => e \in Links
      /\ rx[e] # <<>> => Head(rx[e]) \in Events
    BY Constants, TailProps DEF TypeOK
<1>1. CASE e = Client /\ ClientClearsSessions
    BY <1>1 DEF ClientClearsSessions, Clears, TypeOK, sessionVars
<1>2. CASE e = Client /\ ClientDispatches
  <2>1. rx[e] # <<>> /\ Head(rx[e]).type \in FrameTypes
    BY <1>2 DEF ClientDispatches, Gets
  <2>2. Head(rx[e]) \in Frame
    BY <1>0, <2>1, Kinds
  <2> QED
    BY <1>2, <2>1, <2>2 DEF ClientDispatches, Dispatches, linkVars
<1>3. CASE e # Client /\ ServerDispatches(e)
  <2>1. rx[e] # <<>> /\ Head(rx[e]).type \in {"Data", "Close"}
    BY <1>3 DEF ServerDispatches, Gets
  <2>2. Head(rx[e]) \in Frame
    BY <1>0, <2>1, Kinds DEF FrameTypes
  <2> QED
    BY <1>3, <2>1, <2>2 DEF ServerDispatches, Dispatches, linkVars
<1>4. CASE e = Client /\ (ClientAttaches \/ ClientLosesLink)
    BY <1>4 DEF ClientAttaches, ClientLosesLink, TakesEvent, Gets, LinkEvents, sessionVars
<1>5. CASE e # Client /\ (ServerOpensMux(e) \/ ServerDropsMux(e))
    BY <1>5 DEF ServerOpensMux, ServerDropsMux, TakesEvent, Gets, LinkEvents, sessionVars
<1> QED
    BY <1>0, <1>1, <1>2, <1>3, <1>4, <1>5 DEF EventLoop

LEMMA TasksStep ==
    ASSUME TypeOK, TypeOK', TasksInv, FramesInv, ConnectInv, [Next]_vars
    PROVE  TasksInv'
<1>0. AllGrow
    BY GrowsStep
<1>7. next_sid \in Nat /\ next_sid' \in Nat
    BY TunnelAssumption DEF TypeOK
<1>1. CASE \A e \in Ends, s \in Sids : Same(e, s)
  <2>1. \A e \in Ends, s \in Sids : TaskOf(e, s)'
    BY <1>0, <1>1, SameTask
  <2>2. \A s \in Sids : s > next_sid => pc[Client][s] = "none"
    BY DEF TasksInv
  <2>3. \A s \in Sids : s > next_sid' => s > next_sid
    BY <1>7, SidFrame, Constants
  <2>4. \A s \in Sids : pc'[Client][s] = pc[Client][s]
    BY <1>1, Constants DEF Same
  <2> QED
    BY <2>1, <2>2, <2>3, <2>4, SidFrame, TasksWhole
<1>2. ASSUME NEW e \in Ends, NEW s \in Sids, Moves(e, s), Elsewhere(e, s) PROVE TasksInv'
  <2>1. \A x \in Ends, t \in Sids : TaskOf(x, t)'
    BY <1>0, <1>2, SameTask, MovesTask DEF Elsewhere
  <2>2. \A t \in Sids : t > next_sid => pc[Client][t] = "none"
    BY DEF TasksInv
  <2>3. \A t \in Sids : t > next_sid' => t > next_sid
    BY <1>7, SidFrame, Constants
  <2>4. ASSUME NEW t \in Sids, t > next_sid' PROVE pc'[Client][t] = "none"
    <3>1. CASE e # Client \/ t # s
      BY <1>2, <2>2, <2>3, <2>4, <3>1, Constants DEF Elsewhere, Same
    <3>2. CASE e = Client /\ t = s
      <4>1. TaskOf(e, s) /\ pc[e][s] = "none"
        BY <2>2, <2>3, <2>4, <3>2, TasksParts
      <4>2. UNCHANGED pc[e][s] \/ Registers(e, s)
        BY <1>2, <4>1
        DEF TaskOf, AnyTask, Active, Moves, Fails, AsksFor, IsAnswered, Skips, TimesOut, Answers, Reads, SendsRead,
           WritesOne, EndsTask, SendsClose, Unregisters
      <4>3. ~Registers(e, s)
        BY <2>4, <3>2, Constants DEF Registers
      <4> QED
        BY <3>2, <4>1, <4>2, <4>3
    <3> QED
      BY <3>1, <3>2
  <2> QED
    BY <2>1, <2>4, SidFrame, TasksWhole
<1>3. ASSUME NEW e \in Ends, EventLoop(e) PROVE TasksInv'
  <2>0. /\ UNCHANGED <<tasks, holding, read, written, why, next_sid, accepting>>
        /\ \A x \in Ends, t \in Sids : TaskOf(x, t)
        /\ \A t \in Sids : t > next_sid => pc[Client][t] = "none"
        /\ accepting => next_sid < MaxSessions
    BY <1>3, LoopCases, TasksParts DEF TasksInv
  <2>1. CASE Dispatches(e)
    <3>1. ASSUME NEW x \in Ends, NEW t \in Sids PROVE TaskOf(x, t)'
      <4>1. UNCHANGED <<pc[x][t], tasks[x][t], holding[x][t], why[x][t], read[x][t], written[x][t], sessions[x]>>
        BY <2>0, <2>1 DEF Dispatches
      <4>2. TaskOf(x, t)
        BY <2>0
      <4>3. pc[x][t] = "none" => inbox'[x][t] = <<>>
        <5>1. Head(rx[e]) \in Frame /\ Dispatch(e, Head(rx[e]))
          BY <2>1 DEF Dispatches
        <5>2. inbox'[x][t] = inbox[x][t] \/ Receiving(x, t)
          BY <5>1, DispatchProps
        <5>3. pc[x][t] = "none" => inbox[x][t] = <<>> /\ ~Receiving(x, t)
          BY <4>2 DEF TaskOf, AnyTask, Active, Receiving
        <5> QED
          BY <5>2, <5>3
      <4>4. x = Client => ClientTask(t)'
        BY <1>0, <4>1, <4>2, ServedStays DEF TaskOf, ClientTask
      <4>5. x \in Links => ServerTask(x, t)'
        BY <4>1, <4>2 DEF TaskOf, ServerTask, Serves
      <4>6. AnyTask(x, t)'
        BY <4>1, <4>2, <4>3 DEF TaskOf, AnyTask, Active
      <4> QED
        BY <4>4, <4>5, <4>6 DEF TaskOf
    <3>2. UNCHANGED pc
      BY <2>1 DEF Dispatches
    <3> QED
      BY <2>0, <3>1, <3>2, TasksWhole
  <2>2. CASE TakesEvent(e)
    <3>1. UNCHANGED <<pc, sessions, inbox>>
      BY <2>2 DEF TakesEvent
    <3>2. \A x \in Ends, t \in Sids : Same(x, t)
      BY <2>0, <3>1 DEF Same, Rest
    <3> QED
      BY <1>1, <3>2
  <2>3. CASE Clears
    <3>1. ASSUME NEW x \in Ends, NEW t \in Sids PROVE TaskOf(x, t)'
      <4>1. /\ UNCHANGED <<pc[x][t], tasks[x][t], holding[x][t], why[x][t], read[x][t], written[x][t], inbox[x][t]>>
            /\ t \in sessions'[x] => t \in sessions[x]
        BY <2>0, <2>3 DEF Clears
      <4>2. TaskOf(x, t)
        BY <2>0
      <4>4. x = Client => ClientTask(t)'
        BY <1>0, <4>1, <4>2, ServedStays DEF TaskOf, ClientTask
      <4>5. x \in Links => ServerTask(x, t)'
        BY <4>1, <4>2 DEF TaskOf, ServerTask, Serves
      <4>6. AnyTask(x, t)'
        BY <4>1, <4>2 DEF TaskOf, AnyTask, Active
      <4> QED
        BY <4>4, <4>5, <4>6 DEF TaskOf
    <3>2. UNCHANGED pc
      BY <2>3 DEF Clears
    <3> QED
      BY <2>0, <3>1, <3>2, TasksWhole
  <2>4. CASE e \in Links /\ ServerConnects(e)
    <3>0. PICK s \in Sids :
              /\ \A m \in Links : ~Serves(m, s)
              /\ pc'[e][s] = "dialing" /\ UNCHANGED inbox
              /\ \A x \in Ends, t \in Sids : x # e \/ t # s =>
                    UNCHANGED pc[x][t] /\ (t \in sessions'[x] <=> t \in sessions[x])
      BY <2>4, ConnectsProps
    <3>1. ASSUME NEW x \in Ends, NEW t \in Sids, x # e \/ t # s PROVE TaskOf(x, t)'
      <4>1. Same(x, t)
        BY <2>0, <3>0, <3>1 DEF Same, Rest
      <4> QED
        BY <1>0, <4>1, SameTask
    <3>2. TaskOf(e, s)'
      <4>1. e # Client /\ pc[e][s] = "none" /\ TaskOf(e, s)
        BY <2>0, <2>4, <3>0, Constants DEF Serves
      <4>2. ServerTask(e, s)'
        BY <3>0 DEF ServerTask, Serves
      <4>3. AnyTask(e, s)'
        BY <2>0, <3>0, <4>1 DEF TaskOf, AnyTask, Active
      <4> QED
        BY <4>1, <4>2, <4>3 DEF TaskOf
    <3>3. \A t \in Sids : pc'[Client][t] = pc[Client][t]
      BY <2>4, <3>0, Constants
    <3> QED
      BY <2>0, <3>1, <3>2, <3>3, TasksWhole
  <2> QED
    BY <1>3, <2>1, <2>2, <2>3, <2>4, LoopCases
<1>4. CASE LinkComesUp \/ LinkGoesDown \/ \E e \in Ends : Sender(e)
    BY <1>1, <1>4, LinkFrame DEF Same, Rest
<1>5. CASE UNCHANGED vars
    BY <1>1, <1>5 DEF Same, Rest, vars, sessionVars, relayVars
<1>6. CASE SessionSteps
    BY <1>1, <1>2, <1>6, SessionMoves
<1> QED
    BY <1>3, <1>4, <1>5, <1>6, NextSteps

LEMMA TasksInit == Init => TasksInv
<1> SUFFICES ASSUME Init PROVE TasksInv
    OBVIOUS
<1>1. \A e \in Ends, s \in Sids :
          /\ pc[e][s] = "none" /\ tasks[e][s] = {} /\ ~holding[e][s] /\ inbox[e][s] = <<>> /\ read[e][s] = 0
          /\ written[e][s] = <<>> /\ why[e][s] = "none"
    BY DEF Init, EachSession
<1>2. \A e \in Ends : sessions[e] = {}
    BY DEF Init
<1>3. accepting = FALSE
    BY DEF Init
<1>4. \A s \in Sids : /\ pc[Client][s] = "none" /\ tasks[Client][s] = {} /\ read[Client][s] = 0
                       /\ s \notin sessions[Client]
    BY <1>1, <1>2, Constants
<1>5. \A l \in Links, s \in Sids : pc[l][s] = "none" /\ s \notin sessions[l]
    BY <1>1, <1>2, Constants
<1> QED
    BY <1>1, <1>3, <1>4, <1>5 DEF TasksInv

-----------------------------------------------------------------------------
(* The frames.                                                             *)
LEMMA ElemsTail ==
    ASSUME NEW S, NEW q \in Seq(S), q # <<>>
    PROVE  Elems(q) = {Head(q)} \cup Elems(Tail(q)) /\ Elems(q) \subseteq S
<1>1. /\ Head(q) = q[1] /\ Len(q) \in Nat \ {0} /\ Len(Tail(q)) = Len(q) - 1
      /\ \A i \in 1..Len(Tail(q)) : Tail(q)[i] = q[i + 1]
    BY TailProps
<1>2. \A i \in 1..Len(q) : i = 1 \/ i - 1 \in 1..Len(Tail(q))
    BY <1>1
<1>3. \A i \in 1..Len(Tail(q)) : i + 1 \in 1..Len(q)
    BY <1>1
<1>4. ASSUME NEW f \in Elems(q) PROVE f \in {Head(q)} \cup Elems(Tail(q))
  <2>1. PICK i \in 1..Len(q) : f = q[i]
    BY <1>4 DEF Elems
  <2>2. CASE i = 1
    BY <1>1, <2>1, <2>2
  <2>3. CASE i # 1
    <3>1. i - 1 \in 1..Len(Tail(q)) /\ Tail(q)[i - 1] = q[i - 1 + 1] /\ i - 1 + 1 = i
      BY <1>1, <1>2, <2>3
    <3> QED
      BY <2>1, <3>1 DEF Elems
  <2> QED
    BY <2>2, <2>3
<1>5. ASSUME NEW f \in Elems(Tail(q)) PROVE f \in Elems(q)
    BY <1>1, <1>3, <1>5 DEF Elems
<1>6. Head(q) \in Elems(q)
    BY <1>1 DEF Elems
<1>7. Elems(q) \subseteq S
    BY ElementOfSeq DEF Elems
<1> QED
    BY <1>4, <1>5, <1>6, <1>7

LEMMA ElemsAppend ==
    ASSUME NEW S, NEW q \in Seq(S), NEW x \in S
    PROVE  Elems(Append(q, x)) = Elems(q) \cup {x}
<1>1. /\ Len(q) \in Nat /\ Len(Append(q, x)) = Len(q) + 1 /\ Append(q, x)[Len(q) + 1] = x
      /\ \A i \in 1..Len(q) : Append(q, x)[i] = q[i]
    BY AppendProps
<1>2. \A i \in 1..(Len(q) + 1) : i \in 1..Len(q) \/ i = Len(q) + 1
    BY <1>1
<1>3. Len(q) + 1 \in 1..(Len(q) + 1) /\ \A i \in 1..Len(q) : i \in 1..(Len(q) + 1)
    BY <1>1
<1> QED
    BY <1>1, <1>2, <1>3 DEF Elems

LEMMA ElemsFew ==
    /\ Elems(<<>>) = {}
    /\ \A x : Elems(<<x>>) = {x}
<1>1. \A i \in 1..0 : FALSE
    OBVIOUS
<1>2. Len(<<>>) = 0 /\ \A x : Len(<<x>>) = 1 /\ <<x>>[1] = x
    OBVIOUS
<1>3. 1..1 = {1}
    OBVIOUS
<1> QED
    BY <1>1, <1>2, <1>3 DEF Elems

LEMMA ElemsCut ==
    ASSUME NEW q \in Seq(Events), NEW k \in MayKeep(q)
    PROVE  \A f \in Elems(Cut(q, k)) : f \in Elems(q) \/ f.type = "LinkClosed"
    BY CutProps DEF Elems

(* What the sender task has in hand.                                       *)
LEMMA PendingProps ==
    ASSUME TypeOK, NEW e \in Ends
    PROVE  /\ Pending(e) \in Seq(Frame)
           /\ sending[e] = Idle => Pending(e) = <<>>
           /\ sending[e] # Idle => /\ Pending(e) = <<sending[e].frame>>
                                   /\ sending[e].frame \in Frame /\ sending[e].link \in Links
<1>1. sending[e] # Idle => sending[e].frame \in Frame /\ sending[e].link \in Links
    BY DEF TypeOK
<1>2. \A f \in Frame : <<f>> \in Seq(Frame)
    OBVIOUS
<1>3. <<>> \in Seq(Frame)
    OBVIOUS
<1> QED
    BY <1>1, <1>2, <1>3 DEF Pending

(* What a session sends is as its frames are.                              *)
Sends(e, s, f) ==
    /\ f.sid = s /\ f.from = e /\ data_sender_buf'[e] = Append(data_sender_buf[e], f)
    /\ \A x \in Ends : x # e => data_sender_buf'[x] = data_sender_buf[x]

LEMMA PutsSends ==
    ASSUME NEW e \in Ends, NEW s \in Sids, NEW type, NEW n, Puts(e, s, type, n)
    PROVE  \E f \in Frame : Sends(e, s, f) /\ f.type = type /\ f.n = n
    BY DEF Puts, Sends

LEMMA MovesPut ==
    ASSUME TypeOK, TypeOK', TasksInv, AllGrow, NEW e \in Ends, NEW s \in Sids, Moves(e, s)
    PROVE  Mute \/ \E f \in Frame : Sends(e, s, f) /\ Sound(f)' /\ (f.type = "Connect" => AsksFor(e, s))
<1>0. TaskOf(e, s) /\ Client \notin Links /\ (e # Client => e \in Links)
    BY TasksParts, Constants
<1>1. CASE AsksFor(e, s)
  <2>1. PICK f \in Frame : Sends(e, s, f) /\ f.type = "Connect" /\ f.n = 0
    BY <1>1, PutsSends DEF AsksFor
  <2>2. Sound(f)'
    BY <1>1, <2>1 DEF AsksFor, Sends, Sound
  <2> QED
    BY <1>1, <2>1, <2>2
<1>2. CASE Answers(e, s)
  <2>1. PICK f \in Frame : /\ Sends(e, s, f) /\ f.n = 0
                           /\ \/ f.type = "ConnectOk" /\ pc'[e][s] = "relay"
                              \/ f.type = "ConnectErr" /\ pc'[e][s] = "dropping"
    BY <1>2, PutsSends DEF Answers
  <2>2. Sound(f)'
    BY <1>0, <1>2, <2>1 DEF Answers, Sends, Sound, Active
  <2> QED
    BY <2>1, <2>2
<1>3. CASE SendsRead(e, s)
  <2>1. PICK f \in Frame : Sends(e, s, f) /\ f.type = "Data" /\ f.n = read[e][s]
    BY <1>3, PutsSends DEF SendsRead
  <2>2. Active(e, s) /\ Active(e, s)' /\ pc'[e][s] # "dialing" /\ read[e][s] \in Nat /\ read[e][s] > 0
    BY <1>0, <1>3 DEF SendsRead, TaskOf, AnyTask, TypeOK, Active
  <2>3. Sent(e, s)' = read[e][s] + 1
    BY <1>3, <2>2 DEF SendsRead, Rest, Sent
  <2>4. e = Client => \E l \in Links : Serves(l, s)'
    BY <1>0, <1>3, ServedStays DEF SendsRead, TaskOf, ClientTask
  <2>5. f.n < Sent(e, s)' /\ f.n > 0
    BY <2>1, <2>2, <2>3
  <2>6. Sound(f)'
    BY <2>1, <2>2, <2>4, <2>5 DEF Sends, Sound
  <2> QED
    BY <2>1, <2>6
<1>4. CASE SendsClose(e, s)
  <2>1. PICK f \in Frame : Sends(e, s, f) /\ f.type = "Close" /\ f.n = 0
    BY <1>4, PutsSends DEF SendsClose
  <2>2. Active(e, s)' /\ pc'[e][s] = "dropping"
    BY <1>4 DEF SendsClose, Active
  <2>4. e = Client => \E l \in Links : Serves(l, s)'
    BY <1>0, <1>4, ServedStays DEF SendsClose, TaskOf, ClientTask
  <2>6. Sound(f)'
    BY <2>1, <2>2, <2>4 DEF Sends, Sound
  <2> QED
    BY <2>1, <2>6
<1> QED
    BY <1>1, <1>2, <1>3, <1>4 DEF Moves, Registers, Fails, IsAnswered, Skips, TimesOut, Reads, WritesOne, EndsTask, Unregisters

LEMMA MovesInbox ==
    ASSUME TypeOK, NEW e \in Ends, NEW s \in Sids, Moves(e, s)
    PROVE  /\ \/ UNCHANGED inbox[e][s]
              \/ inbox'[e][s] = <<>>
              \/ inbox[e][s] # <<>> /\ inbox'[e][s] = Tail(inbox[e][s])
           /\ Elems(inbox'[e][s]) \subseteq Elems(inbox[e][s])
<1>1. \/ UNCHANGED inbox[e][s]
      \/ inbox'[e][s] = <<>>
      \/ inbox[e][s] # <<>> /\ inbox'[e][s] = Tail(inbox[e][s])
    BY DEF Moves, Registers, Fails, AsksFor, IsAnswered, Skips, TimesOut, Answers, Reads, SendsRead, WritesOne,
           EndsTask, SendsClose, Unregisters
<1>2. inbox[e][s] \in Seq(Frame)
    BY DEF TypeOK
<1>3. inbox[e][s] # <<>> => Elems(Tail(inbox[e][s])) \subseteq Elems(inbox[e][s])
    BY <1>2, ElemsTail
<1> QED
    BY <1>1, <1>3, ElemsFew

(* The clauses of FramesInv.                                               *)
Queued(e) == Elems(data_sender_buf[e]) \cup Elems(Pending(e))
FramesOut == \A e \in Ends : \A f \in Queued(e) : f.from = e /\ Sound(f)
FramesOn ==
    \A e \in Ends : \A f \in Elems(rx[e]) :
        f.type \in FrameTypes => f.from = (IF e = Client THEN latest ELSE Client) /\ Sound(f)
IsFor(f, e, s) == f.sid = s /\ f.from \in Peers(e) /\ f.type # "Connect"
FramesIn == \A e \in Ends, s \in Sids : \A f \in Elems(inbox[e][s]) : IsFor(f, e, s) /\ Sound(f)

LEMMA ElemTypes ==
    ASSUME TypeOK, NEW e \in Ends
    PROVE  /\ Queued(e) \subseteq Frame
           /\ Elems(rx[e]) \subseteq Events
           /\ \A f \in Elems(rx[e]) : f.type \in FrameTypes => f \in Frame
           /\ \A s \in Sids : Elems(inbox[e][s]) \subseteq Frame
<1>1. \A S : \A q \in Seq(S) : Elems(q) \subseteq S
    BY ElementOfSeq DEF Elems
<1>2. data_sender_buf[e] \in Seq(Frame) /\ Pending(e) \in Seq(Frame)
    BY PendingProps DEF TypeOK
<1>3. rx[e] \in Seq(Events) /\ \A s \in Sids : inbox[e][s] \in Seq(Frame)
    BY DEF TypeOK
<1> QED
    BY <1>1, <1>2, <1>3, Kinds DEF Queued

LEMMA FramesSession ==
    ASSUME TypeOK, TypeOK', TasksInv, FramesInv, AllGrow, SessionSteps
    PROVE  FramesInv'
<1>0. UNCHANGED <<latest, rx, sending>>
    BY SessionFrame
<1>1. FramesOn'
    BY <1>0, SoundStays, ElemTypes DEF FramesInv, FramesOn
<1>2. FramesOut /\ FramesIn
    BY DEF FramesInv, FramesOut, Queued, FramesIn, IsFor
<1>3. FramesOut'
  <2>1. ASSUME NEW e \in Ends, NEW f \in Queued(e) PROVE f.from = e /\ Sound(f)'
    BY <1>2, <2>1, SoundStays, ElemTypes DEF FramesOut
  <2>2. CASE Mute
    <3>1. \A e \in Ends : Queued(e)' = Queued(e)
      BY <1>0, <2>2 DEF Mute, Queued, Pending
    <3> QED
      BY <2>1, <3>1 DEF FramesOut
  <2>3. ASSUME NEW e \in Ends, NEW s \in Sids, NEW f \in Frame, Sends(e, s, f), Sound(f)' PROVE FramesOut'
    <3>1. data_sender_buf[e] \in Seq(Frame)
      BY DEF TypeOK
    <3>2. Elems(data_sender_buf'[e]) = Elems(data_sender_buf[e]) \cup {f}
      BY <2>3, <3>1, ElemsAppend DEF Sends
    <3>3. Queued(e)' = Queued(e) \cup {f} /\ \A x \in Ends : x # e => Queued(x)' = Queued(x)
      BY <1>0, <2>3, <3>2 DEF Sends, Queued, Pending
    <3> QED
      BY <2>1, <2>3, <3>3 DEF FramesOut, Sends
  <2> QED
    BY <2>2, <2>3, SessionMoves, MovesPut
<1>4. FramesIn'
  <2>1. ASSUME NEW e \in Ends, NEW s \in Sids, NEW f \in Elems(inbox[e][s]) PROVE IsFor(f, e, s) /\ Sound(f)'
    BY <1>2, <2>1, SoundStays, ElemTypes DEF FramesIn
  <2>2. \A e \in Ends, s \in Sids : Elems(inbox'[e][s]) \subseteq Elems(inbox[e][s])
    BY SessionMoves, MovesInbox DEF Same, Elsewhere
  <2> QED
    BY <2>1, <2>2 DEF FramesIn, IsFor
<1> QED
    BY <1>1, <1>3, <1>4 DEF FramesInv, FramesOn, FramesOut, Queued, FramesIn, IsFor

LEMMA FramesSender ==
    ASSUME TypeOK, TypeOK', LinkInv, FramesInv, AllGrow, NEW e \in Ends, Sender(e)
    PROVE  FramesInv'
<1>0. UNCHANGED <<latest, inbox>> /\ FramesOut /\ FramesOn /\ FramesIn
    BY LinkFrame DEF Sender, SenderTake, SenderSends, SenderLoses, SenderFails, linkVars,
       FramesInv, FramesOut, Queued, FramesOn, FramesIn, IsFor
<1>1. FramesIn'
    BY <1>0, SoundStays, ElemTypes DEF FramesIn, IsFor
<1>2. FramesOut'
  <2>1. ASSUME NEW x \in Ends, NEW f \in Queued(x) PROVE f.from = x /\ Sound(f)'
    BY <1>0, <2>1, SoundStays, ElemTypes DEF FramesOut
  <2>2. \A x \in Ends : Queued(x)' \subseteq Queued(x)
    <3>1. CASE SenderTake(e)
      <4>1. data_sender_buf[e] \in Seq(Frame) /\ data_sender_buf[e] # <<>>
        BY <3>1 DEF SenderTake, TypeOK
      <4>2. Elems(data_sender_buf[e]) = {Head(data_sender_buf[e])} \cup Elems(Tail(data_sender_buf[e]))
        BY <4>1, ElemsTail
      <4>3. /\ data_sender_buf'[e] = Tail(data_sender_buf[e])
            /\ \A x \in Ends : x # e => data_sender_buf'[x] = data_sender_buf[x] /\ sending'[x] = sending[x]
            /\ sending'[e] = Idle \/ sending'[e].frame = Head(data_sender_buf[e])
        BY <3>1 DEF SenderTake, TypeOK
      <4>4. Elems(Pending(e))' \subseteq {Head(data_sender_buf[e])}
        BY <4>3, ElemsFew DEF Pending
      <4>5. \A x \in Ends : x # e => Queued(x)' = Queued(x)
        BY <4>3 DEF Queued, Pending
      <4> QED
        BY <4>2, <4>3, <4>4, <4>5 DEF Queued
    <3>2. CASE SenderSends(e) \/ SenderLoses(e) \/ SenderFails(e)
      <4>1. /\ UNCHANGED data_sender_buf /\ sending'[e] = Idle
            /\ \A x \in Ends : x # e => sending'[x] = sending[x]
        BY <3>2 DEF SenderSends, SenderLoses, SenderFails, TypeOK
      <4>2. Pending(e)' = <<>> /\ \A x \in Ends : x # e => Pending(x)' = Pending(x)
        BY <4>1 DEF Pending
      <4> QED
        BY <4>1, <4>2, ElemsFew DEF Queued
    <3> QED
      BY <3>1, <3>2 DEF Sender
  <2> QED
    BY <2>1, <2>2 DEF FramesOut
<1>3. FramesOn'
  <2>1. ASSUME NEW x \in Ends, NEW f \in Elems(rx[x]), f.type \in FrameTypes
        PROVE  f.from = (IF x = Client THEN latest ELSE Client) /\ Sound(f)'
    BY <1>0, <2>1, SoundStays, ElemTypes DEF FramesOn
  <2>2. CASE UNCHANGED rx
    BY <1>0, <2>1, <2>2 DEF FramesOn
  <2>3. CASE SenderSends(e)
    <3>0. sending[e] # Idle
      BY <2>3 DEF SenderSends
    <3>1. PICK f \in Frame : f = sending[e].frame
      BY <3>0, PendingProps
    <3>2. f \in Queued(e)
      BY <3>0, <3>1, PendingProps, ElemsFew DEF Queued
    <3>3. f.from = e /\ Sound(f)'
      BY <1>0, <3>1, <3>2, SoundStays DEF FramesOut
    <3>4. PICK d \in Ends : d = Dest(e, sending[e].link)
      BY <3>0, PendingProps, Constants DEF Dest
    <3>5. e = (IF d = Client THEN latest ELSE Client)
      BY <2>3, <3>0, <3>4, PendingProps, Constants DEF SenderSends, Dest, IsUp, LinkInv
    <3>6. rx[d] \in Seq(Events) /\ f \in Events
      BY <3>1, Kinds DEF TypeOK
    <3>7. Elems(rx'[d]) = Elems(rx[d]) \cup {f}
      <4>1. rx'[d] = Append(rx[d], f)
        BY <2>3, <3>1, <3>4 DEF SenderSends, TypeOK
      <4> QED
        BY <3>6, <4>1, ElemsAppend
    <3>8. \A x \in Ends : x # d => rx'[x] = rx[x]
      BY <2>3, <3>4 DEF SenderSends, TypeOK
    <3> QED
      BY <1>0, <2>1, <3>3, <3>5, <3>7, <3>8 DEF FramesOn
  <2> QED
    BY <2>2, <2>3 DEF Sender, SenderTake, SenderLoses, SenderFails
<1> QED
    BY <1>1, <1>2, <1>3 DEF FramesInv, FramesOn, FramesOut, Queued, FramesIn, IsFor

LEMMA FramesLink ==
    ASSUME TypeOK, TypeOK', LinkInv, FramesInv, AllGrow, LinkComesUp \/ LinkGoesDown
    PROVE  FramesInv'
<1>0. UNCHANGED <<inbox, data_sender_buf, sending>> /\ FramesOut /\ FramesOn /\ FramesIn
    BY LinkFrame DEF LinkComesUp, LinkGoesDown, muxVars, FramesInv, FramesOut, Queued, FramesOn, FramesIn, IsFor
<1>1. FramesIn'
    BY <1>0, SoundStays, ElemTypes DEF FramesIn, IsFor
<1>2. FramesOut'
  <2>1. ASSUME NEW x \in Ends, NEW f \in Queued(x) PROVE f.from = x /\ Sound(f)'
    BY <1>0, <2>1, SoundStays, ElemTypes DEF FramesOut
  <2>2. \A x \in Ends : Queued(x)' = Queued(x)
    BY <1>0 DEF Queued, Pending
  <2> QED
    BY <2>1, <2>2 DEF FramesOut
<1>3. FramesOn'
  <2>0. \A t \in FrameTypes : t # "LinkEstablished" /\ t # "LinkClosed"
    BY DEF FrameTypes
  <2>1. ASSUME NEW x \in Ends, NEW f \in Elems(rx[x]), f.type \in FrameTypes
        PROVE  f.from = (IF x = Client THEN latest ELSE Client) /\ Sound(f)'
    BY <1>0, <2>1, SoundStays, ElemTypes DEF FramesOn
  <2>2. CASE LinkComesUp
    <3>1. /\ latest + 1 \in Ends /\ Client \in Ends
          /\ \A x \in Ends : rx'[x] = <<Signal("LinkEstablished")>> \/ (x # Client /\ rx'[x] = rx[x])
          /\ rx'[Client] = <<Signal("LinkEstablished")>>
      <4>1. latest + 1 \in Links /\ latest + 1 \in Ends /\ Client \in Ends /\ latest + 1 # Client
        BY <2>2, TunnelAssumption, Constants DEF LinkComesUp, TypeOK, Links, Client
      <4>2. /\ rx \in [Ends -> Seq(Events)]
            /\ rx' = [rx EXCEPT ![Client] = <<Signal("LinkEstablished")>>,
                                ![latest + 1] = <<Signal("LinkEstablished")>>]
        BY <2>2 DEF LinkComesUp, TypeOK
      <4> QED
        BY <4>1, <4>2
    <3>2. \A f \in Elems(<<Signal("LinkEstablished")>>) : f.type \notin FrameTypes
      BY <2>0, ElemsFew DEF Signal
    <3>3. ASSUME NEW x \in Ends, NEW f \in Elems(rx'[x]), f.type \in FrameTypes
          PROVE  f.from = (IF x = Client THEN latest' ELSE Client) /\ Sound(f)'
      <4>1. x # Client /\ rx'[x] = rx[x]
        BY <3>1, <3>2, <3>3
      <4> QED
        BY <2>1, <3>3, <4>1
    <3> QED
      BY <3>3 DEF FramesOn
  <2>3. CASE LinkGoesDown
    <3>1. latest \in Links /\ latest # Client /\ Client \in Ends
      BY <2>3, LinkIsNewest, Constants DEF LinkGoesDown
    <3>2. PICK j \in MayKeep(rx[Client]), k \in MayKeep(rx[latest]) :
              rx' = [rx EXCEPT ![Client] = Cut(@, j), ![latest] = Cut(@, k)]
      BY <2>3 DEF LinkGoesDown
    <3>3. rx \in [Ends -> Seq(Events)] /\ latest \in Ends /\ latest' = latest
      BY <2>3, <3>1, Constants DEF LinkGoesDown, TypeOK
    <3>4. /\ rx'[Client] = Cut(rx[Client], j) /\ rx'[latest] = Cut(rx[latest], k)
          /\ \A x \in Ends : x # Client /\ x # latest => rx'[x] = rx[x]
      BY <3>1, <3>2, <3>3
    <3>5. \A x \in Ends : \A f \in Elems(rx'[x]) : f \in Elems(rx[x]) \/ f.type = "LinkClosed"
      BY <3>1, <3>3, <3>4, ElemsCut
    <3> QED
      BY <2>0, <2>1, <3>3, <3>5 DEF FramesOn
  <2> QED
    BY <2>2, <2>3
<1> QED
    BY <1>1, <1>2, <1>3 DEF FramesInv, FramesOn, FramesOut, Queued, FramesIn, IsFor

LEMMA FramesLoop ==
    ASSUME TypeOK, TypeOK', LinkInv, FramesInv, AllGrow, NEW e \in Ends, EventLoop(e)
    PROVE  FramesInv'
<1>0. UNCHANGED <<latest, data_sender_buf, sending>> /\ FramesOut /\ FramesOn /\ FramesIn
    BY LoopCases DEF FramesInv, FramesOut, Queued, FramesOn, FramesIn, IsFor
<1>2. FramesOut'
  <2>1. ASSUME NEW x \in Ends, NEW f \in Queued(x) PROVE f.from = x /\ Sound(f)'
    BY <1>0, <2>1, SoundStays, ElemTypes DEF FramesOut
  <2>2. \A x \in Ends : Queued(x)' = Queued(x)
    BY <1>0 DEF Queued, Pending
  <2> QED
    BY <2>1, <2>2 DEF FramesOut
<1>3. FramesOn'
  <2>1. ASSUME NEW x \in Ends, NEW f \in Elems(rx[x]), f.type \in FrameTypes
        PROVE  f.from = (IF x = Client THEN latest ELSE Client) /\ Sound(f)'
    BY <1>0, <2>1, SoundStays, ElemTypes DEF FramesOn
  <2>2. \A x \in Ends : Elems(rx'[x]) \subseteq Elems(rx[x])
    <3>1. CASE UNCHANGED rx
      BY <3>1
    <3>2. CASE rx[e] # <<>> /\ Take(e)
      <4>1. rx[e] \in Seq(Events)
        BY DEF TypeOK
      <4> QED
        BY <3>2, <4>1, TakeProps, ElemsTail
    <3> QED
      BY <3>1, <3>2, LoopFrame
  <2> QED
    BY <1>0, <2>1, <2>2 DEF FramesOn
<1>4. FramesIn'
  <2>1. ASSUME NEW x \in Ends, NEW s \in Sids, NEW f \in Elems(inbox[x][s]) PROVE IsFor(f, x, s) /\ Sound(f)'
    BY <1>0, <2>1, SoundStays, ElemTypes DEF FramesIn
  <2>2. CASE UNCHANGED inbox
    BY <2>1, <2>2 DEF FramesIn, IsFor
  <2>3. CASE Dispatches(e)
    <3>1. PICK f \in Frame : f = Head(rx[e]) /\ f \in Elems(rx[e]) /\ rx[e] # <<>> /\ Dispatch(e, f)
      <4>1. rx[e] \in Seq(Events) /\ rx[e] # <<>>
        BY <2>3 DEF TypeOK, Dispatches
      <4> QED
        BY <2>3, <4>1, ElemsTail DEF Dispatches
    <3>2. f.from = (IF e = Client THEN latest ELSE Client) /\ Sound(f) /\ Sound(f)'
      BY <1>0, <3>1, SoundStays DEF FramesOn, Frame
    <3>3. IsFor(f, e, f.sid)
      <4>1. CASE e = Client
        <5>1. latest \in Links /\ latest # Client
          BY <3>1, <4>1, TunnelAssumption DEF LinkInv, TypeOK, Links, Client
        <5> QED
          BY <3>2, <4>1, <5>1 DEF IsFor, Peers, Sound
      <4>2. CASE e # Client
        <5>1. f.type \in {"Data", "Close"}
          BY <2>3, <3>1, <4>2 DEF Dispatches
        <5> QED
          BY <3>2, <4>2, <5>1 DEF IsFor, Peers
      <4> QED
        BY <4>1, <4>2
    <3>4. CASE UNCHANGED inbox
      BY <2>2, <3>4
    <3>5. CASE /\ f.sid \in Sids /\ inbox'[e][f.sid] = Append(inbox[e][f.sid], f)
               /\ \A x \in Ends, t \in Sids : x # e \/ t # f.sid => inbox'[x][t] = inbox[x][t]
      <4>1. inbox[e][f.sid] \in Seq(Frame)
        BY <3>5 DEF TypeOK
      <4>2. Elems(inbox'[e][f.sid]) = Elems(inbox[e][f.sid]) \cup {f}
        BY <3>5, <4>1, ElemsAppend
      <4>3. ASSUME NEW x \in Ends, NEW s \in Sids, NEW g \in Elems(inbox'[x][s])
            PROVE  IsFor(g, x, s) /\ Sound(g)'
        BY <2>1, <3>2, <3>3, <3>5, <4>2, <4>3
      <4> QED
        BY <4>3 DEF FramesIn, IsFor
    <3> QED
      BY <3>1, <3>4, <3>5, DispatchProps
  <2>4. CASE e \in Links /\ ServerConnects(e)
    BY <2>2, <2>4 DEF ServerConnects
  <2> QED
    BY <2>2, <2>3, <2>4, LoopCases DEF TakesEvent, Clears
<1> QED
    BY <1>2, <1>3, <1>4 DEF FramesInv, FramesOn, FramesOut, Queued, FramesIn, IsFor

LEMMA FramesStep ==
    ASSUME TypeOK, TypeOK', TasksInv, LinkInv, ConnectInv, FramesInv, [Next]_vars
    PROVE  FramesInv'
<1>0. AllGrow
    BY GrowsStep
<1>1. CASE UNCHANGED vars
    BY <1>1 DEF vars, linkVars, muxVars, acceptVars, sessionVars, relayVars, FramesInv, Sound, Active, Sent, Serves,
       Pending
<1> QED
    BY <1>0, <1>1, NextSteps, FramesSession, FramesSender, FramesLink, FramesLoop

LEMMA FramesInit == Init => FramesInv
<1> SUFFICES ASSUME Init PROVE FramesInv
    OBVIOUS
<1>1. \A e \in Ends : data_sender_buf[e] = <<>> /\ rx[e] = <<>> /\ sending[e] = Idle
    BY DEF Init
<1>2. \A e \in Ends, s \in Sids : inbox[e][s] = <<>>
    BY DEF Init, EachSession
<1>3. Elems(<<>>) = {}
    BY ElemsFew
<1> QED
    BY <1>1, <1>2, <1>3 DEF FramesInv, Pending

-----------------------------------------------------------------------------
(* The one CONNECT of a session.                                           *)
LEMMA OneAskTail ==
    ASSUME NEW S, NEW q \in Seq(S), q # <<>>, OneAsk(q)
    PROVE  /\ OneAsk(Tail(q))
           /\ Head(q).type = "Connect" => ~Asks(Tail(q), Head(q).sid)
<1>1. /\ Head(q) = q[1] /\ Len(q) \in Nat \ {0} /\ Len(Tail(q)) = Len(q) - 1
      /\ \A i \in 1..Len(Tail(q)) : Tail(q)[i] = q[i + 1]
    BY TailProps
<1>2. \A i \in 1..Len(Tail(q)) : i + 1 \in 1..Len(q) /\ i + 1 # 1
    BY <1>1
<1>3. 1 \in 1..Len(q)
    BY <1>1
<1>4. ASSUME NEW i \in 1..Len(Tail(q)), NEW j \in 1..Len(Tail(q)), Tail(q)[i].type = "Connect",
             Tail(q)[j].type = "Connect", Tail(q)[i].sid = Tail(q)[j].sid
      PROVE  i = j
  <2>1. i + 1 = j + 1
    BY <1>1, <1>2, <1>4 DEF OneAsk
  <2> QED
    BY <2>1
<1>5. ASSUME Head(q).type = "Connect", Asks(Tail(q), Head(q).sid) PROVE FALSE
  <2>1. PICK i \in 1..Len(Tail(q)) : Tail(q)[i].type = "Connect" /\ Tail(q)[i].sid = Head(q).sid
    BY <1>5 DEF Asks, Elems
  <2>2. q[i + 1].type = "Connect" /\ q[i + 1].sid = q[1].sid /\ i + 1 \in 1..Len(q) /\ i + 1 # 1
    BY <1>1, <1>2, <2>1
  <2> QED
    BY <1>1, <1>3, <1>5, <2>2 DEF OneAsk
<1> QED
    BY <1>4, <1>5 DEF OneAsk

LEMMA OneAskAppend ==
    ASSUME NEW S, NEW q \in Seq(S), NEW f \in S, OneAsk(q), f.type = "Connect" => ~Asks(q, f.sid)
    PROVE  OneAsk(Append(q, f))
<1> DEFINE t == Append(q, f)
<1>1. /\ Len(q) \in Nat /\ Len(t) = Len(q) + 1 /\ t[Len(q) + 1] = f
      /\ \A i \in 1..Len(q) : t[i] = q[i]
    BY AppendProps
<1> HIDE DEF t
<1>2. \A i \in 1..Len(t) : i \in 1..Len(q) \/ i = Len(q) + 1
    BY <1>1
<1>3. \A i \in 1..Len(q) : q[i].type = "Connect" /\ f.type = "Connect" => q[i].sid # f.sid
    BY DEF Asks, Elems
<1>4. OneAsk(t)
    BY <1>1, <1>2, <1>3 DEF OneAsk
<1> QED
    BY <1>4 DEF t

LEMMA OneAskCut ==
    ASSUME NEW q \in Seq(Events), NEW k \in MayKeep(q), OneAsk(q)
    PROVE  OneAsk(Cut(q, k)) /\ \A s : Asks(Cut(q, k), s) => Asks(q, s)
<1> DEFINE c == Cut(q, k)
<1>1. \A i \in 1..Len(c) : c[i].type = "LinkClosed" \/ (c[i] = q[i] /\ i \in 1..Len(q))
    BY CutProps
<1>2. OneAsk(c)
    BY <1>1 DEF OneAsk
<1>3. \A s : Asks(c, s) => Asks(q, s)
    BY ElemsCut DEF Asks
<1> QED
    BY <1>2, <1>3

LEMMA AsksParts ==
    /\ \A s : ~Asks(<<>>, s)
    /\ \A f, s : Asks(<<f>>, s) <=> f.type = "Connect" /\ f.sid = s
    /\ \A S : \A q \in Seq(S) : \A f \in S : \A s :
          Asks(Append(q, f), s) <=> Asks(q, s) \/ (f.type = "Connect" /\ f.sid = s)
    /\ \A S : \A q \in Seq(S) : q # <<>> => \A s :
          Asks(q, s) <=> Asks(Tail(q), s) \/ (Head(q).type = "Connect" /\ Head(q).sid = s)
<1>1. \A S : \A q \in Seq(S) : \A f \in S : Elems(Append(q, f)) = Elems(q) \cup {f}
    BY ElemsAppend
<1>2. \A S : \A q \in Seq(S) : q # <<>> => Elems(q) = {Head(q)} \cup Elems(Tail(q))
    BY ElemsTail
<1> QED
    BY <1>1, <1>2, ElemsFew DEF Asks

ConnectOf(s) ==
    /\ pc[Client][s] \in {"none", "accepted"} => ~Asked(s)
    /\ Asks(data_sender_buf[Client], s) =>
          ~Asks(Pending(Client), s) /\ \A l \in Links : ~Asks(rx[l], s) /\ ~Serves(l, s)
    /\ Asks(Pending(Client), s) => \A l \in Links : ~Asks(rx[l], s) /\ ~Serves(l, s)
    /\ \A l, m \in Links : /\ Asks(rx[l], s) => ~Serves(m, s)
                           /\ Asks(rx[l], s) /\ Asks(rx[m], s) => l = m
                           /\ Serves(l, s) /\ Serves(m, s) => l = m
    /\ \A l \in Links : s \in sessions[Client] /\ (Asks(rx[l], s) \/ Serves(l, s)) =>
          l = latest /\ cphase # "reconnect"
ConnectOnce == OneAsk(data_sender_buf[Client]) /\ \A l \in Links : OneAsk(rx[l])

(* As long as no CONNECT moves on.                                         *)
LEMMA ConnectShrinks ==
    ASSUME NEW s \in Sids, ConnectOf(s),
           Asks(data_sender_buf'[Client], s) => Asks(data_sender_buf[Client], s),
           Asks(Pending(Client), s)' => Asks(Pending(Client), s),
           \A l \in Links : Asks(rx'[l], s) => Asks(rx[l], s),
           \A l \in Links : Serves(l, s)' => Serves(l, s),
           pc'[Client][s] \in {"none", "accepted"} => pc[Client][s] \in {"none", "accepted"},
           s \in sessions'[Client] => s \in sessions[Client] \/ pc[Client][s] = "none",
           s \in sessions'[Client] /\ cphase # "reconnect" => latest' = latest /\ cphase' # "reconnect"
    PROVE  ConnectOf(s)'
<1>1. Asked(s)' => Asked(s)
    BY DEF Asked
<1>2. \A l \in Links : Asks(rx[l], s) \/ Serves(l, s) => Asked(s)
    BY DEF Asked
<1> QED
    BY <1>1, <1>2 DEF ConnectOf

LEMMA ConnectParts ==
    ASSUME ConnectInv
    PROVE  ConnectOnce /\ \A s \in Sids : ConnectOf(s)
    BY DEF ConnectInv, ConnectOnce, ConnectOf

LEMMA ConnectWhole ==
    ASSUME ConnectOnce', \A s \in Sids : ConnectOf(s)'
    PROVE  ConnectInv'
    BY DEF ConnectInv, ConnectOnce, ConnectOf

LEMMA ConnectSession ==
    ASSUME TypeOK, TypeOK', TasksInv, ConnectInv, AllGrow, SessionSteps
    PROVE  ConnectInv'
<1>0. /\ UNCHANGED <<latest, cphase, rx, sending>> /\ Pending(Client)' = Pending(Client)
      /\ \A l \in Links, s \in Sids : Serves(l, s)' <=> Serves(l, s)
      /\ ConnectOnce /\ \A s \in Sids : ConnectOf(s)
      /\ Client \in Ends
    BY SessionFrame, ConnectParts, Constants DEF Pending
<1>1. \A s \in Sids : pc'[Client][s] \in {"none", "accepted"} => pc[Client][s] \in {"none", "accepted"}
    BY <1>0 DEF AllGrow, Grows
<1>2. \A s \in Sids : s \in sessions'[Client] => s \in sessions[Client] \/ pc[Client][s] = "none"
  <2>1. ASSUME NEW s \in Sids, Same(Client, s)
        PROVE  s \in sessions'[Client] => s \in sessions[Client] \/ pc[Client][s] = "none"
    BY <2>1 DEF Same
  <2>2. ASSUME NEW s \in Sids, Moves(Client, s)
        PROVE  s \in sessions'[Client] => s \in sessions[Client] \/ pc[Client][s] = "none"
    BY <2>2 DEF Moves, Registers, Fails, AsksFor, IsAnswered, Skips, TimesOut, Answers, Reads, SendsRead, WritesOne,
           EndsTask, SendsClose, Unregisters, Kept
  <2> QED
    BY <1>0, <2>1, <2>2, SessionMoves DEF Elsewhere
<1>3. ASSUME UNCHANGED data_sender_buf[Client] PROVE ConnectInv'
  <2>1. ConnectOnce'
    BY <1>0, <1>3 DEF ConnectOnce
  <2>2. ASSUME NEW s \in Sids PROVE ConnectOf(s)'
    BY <1>0, <1>1, <1>2, <1>3, ConnectShrinks
  <2> QED
    BY <2>1, <2>2, ConnectWhole
<1>4. ASSUME NEW s \in Sids, NEW f \in Frame, Sends(Client, s, f), f.type = "Connect" => AsksFor(Client, s)
      PROVE  ConnectInv'
  <2>0. /\ data_sender_buf[Client] \in Seq(Frame)
        /\ data_sender_buf'[Client] = Append(data_sender_buf[Client], f) /\ f.sid = s
    BY <1>0, <1>4 DEF Sends, TypeOK
  <2>1. \A t \in Sids : Asks(data_sender_buf'[Client], t) <=>
                           Asks(data_sender_buf[Client], t) \/ (f.type = "Connect" /\ s = t)
    BY <2>0, AsksParts
  <2>2. ASSUME NEW t \in Sids, f.type # "Connect" \/ t # s PROVE ConnectOf(t)'
    BY <1>0, <1>1, <1>2, <2>1, <2>2, ConnectShrinks
  <2>3. f.type = "Connect" => pc[Client][s] = "accepted" /\ pc'[Client][s] = "waiting" /\ ~Asked(s)
    BY <1>0, <1>4 DEF AsksFor, ConnectOf
  <2>4. f.type = "Connect" => ConnectOf(s)'
    <3>1. CASE f.type = "Connect"
      <4>1. ~Asks(Pending(Client), s)' /\ \A l \in Links : ~Asks(rx'[l], s) /\ ~Serves(l, s)'
        BY <1>0, <2>3, <3>1 DEF Asked
      <4>2. pc'[Client][s] \notin {"none", "accepted"}
        BY <2>3, <3>1
      <4> QED
        BY <4>1, <4>2 DEF ConnectOf
    <3> QED
      BY <3>1
  <2>5. ConnectOnce'
    <3>1. f.type = "Connect" => ~Asks(data_sender_buf[Client], f.sid)
      BY <2>0, <2>3 DEF Asked
    <3>2. OneAsk(data_sender_buf'[Client])
      BY <1>0, <2>0, <3>1, OneAskAppend DEF ConnectOnce
    <3> QED
      BY <1>0, <3>2 DEF ConnectOnce
  <2> QED
    BY <2>2, <2>4, <2>5, ConnectWhole
<1>5. UNCHANGED data_sender_buf[Client] \/
      \E s \in Sids : \E f \in Frame : Sends(Client, s, f) /\ (f.type = "Connect" => AsksFor(Client, s))
  <2>1. ASSUME NEW e \in Ends, NEW s \in Sids, Moves(e, s)
        PROVE  Mute \/ \E f \in Frame : Sends(e, s, f) /\ (f.type = "Connect" => AsksFor(e, s))
    BY <2>1, MovesPut
  <2> QED
    BY <1>0, <2>1, SessionMoves DEF Mute, Sends
<1> QED
    BY <1>3, <1>4, <1>5

LEMMA ConnectLink ==
    ASSUME TypeOK, LinkInv, ConnectInv, LinkComesUp \/ LinkGoesDown
    PROVE  ConnectInv'
<1>0. /\ UNCHANGED <<cphase, sending, data_sender_buf, sessions, pc>> /\ Pending(Client)' = Pending(Client)
      /\ ConnectOnce /\ \A s \in Sids : ConnectOf(s)
    BY ConnectParts DEF LinkComesUp, LinkGoesDown, sessionVars, muxVars, Pending
<1>1. cphase # "reconnect" => latest' = latest
    BY DEF LinkComesUp, LinkGoesDown
<1>2. \A l \in Links : OneAsk(rx'[l]) /\ \A s : Asks(rx'[l], s) => Asks(rx[l], s)
  <2>1. CASE LinkComesUp
    <3>1. rx \in [Ends -> Seq(Events)] /\ Links \subseteq Ends /\ Client \notin Links
      BY Constants DEF TypeOK
    <3>2. \A l \in Links : rx'[l] = rx[l] \/ rx'[l] = <<Signal("LinkEstablished")>>
      BY <2>1, <3>1 DEF LinkComesUp
    <3>3. OneAsk(<<Signal("LinkEstablished")>>) /\ \A s : ~Asks(<<Signal("LinkEstablished")>>, s)
      <4>1. Signal("LinkEstablished").type = "LinkEstablished"
        BY DEF Signal
      <4>2. \A s : ~Asks(<<Signal("LinkEstablished")>>, s)
        BY <4>1, AsksParts
      <4>3. \A i, j \in 1..Len(<<Signal("LinkEstablished")>>) : i = j
        OBVIOUS
      <4> QED
        BY <4>2, <4>3 DEF OneAsk
    <3> QED
      BY <1>0, <3>2, <3>3 DEF ConnectOnce
  <2>2. CASE LinkGoesDown
    <3>1. latest \in Links /\ latest \in Ends /\ latest # Client /\ Client \in Ends /\ Links \subseteq Ends
      BY <2>2, LinkIsNewest, Constants DEF LinkGoesDown
    <3>2. PICK j \in MayKeep(rx[Client]), k \in MayKeep(rx[latest]) :
              rx' = [rx EXCEPT ![Client] = Cut(@, j), ![latest] = Cut(@, k)]
      BY <2>2 DEF LinkGoesDown
    <3>3. rx \in [Ends -> Seq(Events)] /\ Client \notin Links
      BY Constants DEF TypeOK
    <3>4. \A l \in Links : rx'[l] = rx[l] \/ (l = latest /\ rx'[l] = Cut(rx[l], k))
      BY <3>1, <3>2, <3>3
    <3>5. rx[latest] \in Seq(Events) /\ OneAsk(rx[latest])
      BY <1>0, <3>1, <3>3 DEF ConnectOnce
    <3>6. OneAsk(Cut(rx[latest], k)) /\ \A s : Asks(Cut(rx[latest], k), s) => Asks(rx[latest], s)
      BY <3>5, OneAskCut
    <3> QED
      BY <1>0, <3>4, <3>6 DEF ConnectOnce
  <2> QED
    BY <2>1, <2>2
<1>3. ConnectOnce'
    BY <1>0, <1>2 DEF ConnectOnce
<1>4. ASSUME NEW s \in Sids PROVE ConnectOf(s)'
    BY <1>0, <1>1, <1>2, ConnectShrinks DEF Serves
<1> QED
    BY <1>3, <1>4, ConnectWhole

LEMMA ConnectSender ==
    ASSUME TypeOK, LinkInv, ConnectInv, NEW e \in Ends, Sender(e)
    PROVE  ConnectInv'
<1>0. /\ UNCHANGED <<latest, cphase, sessions, pc>> /\ Client \in Ends /\ Client \notin Links /\ Links \subseteq Ends
      /\ ConnectOnce /\ \A s \in Sids : ConnectOf(s)
      /\ \A l \in Links, s \in Sids : Serves(l, s)' <=> Serves(l, s)
    BY LinkFrame, ConnectParts, Constants
    DEF Sender, SenderTake, SenderSends, SenderLoses, SenderFails, linkVars, Serves
<1>1. CASE SenderTake(e)
  <2>1. UNCHANGED rx /\ data_sender_buf[e] # <<>> /\ data_sender_buf[e] \in Seq(Frame)
    BY <1>1 DEF SenderTake, TypeOK
  <2>2. /\ data_sender_buf'[e] = Tail(data_sender_buf[e])
        /\ \A x \in Ends : x # e => data_sender_buf'[x] = data_sender_buf[x] /\ sending'[x] = sending[x]
        /\ sending'[e] = Idle \/ (sending'[e] # Idle /\ sending'[e].frame = Head(data_sender_buf[e]))
        /\ sending[e] = Idle
    <3>1. Head(data_sender_buf[e]) \in Frame
      BY <2>1, TailProps
    <3>2. [frame |-> Head(data_sender_buf[e]), link |-> link_id[e]] # Idle
      BY <3>1, IdleIsNone
    <3>3. /\ data_sender_buf'[e] = Tail(data_sender_buf[e])
          /\ \A x \in Ends : x # e => data_sender_buf'[x] = data_sender_buf[x] /\ sending'[x] = sending[x]
          /\ \/ sending'[e] = Idle
             \/ sending'[e] = [frame |-> Head(data_sender_buf[e]), link |-> link_id[e]]
          /\ sending[e] = Idle
      BY <1>1 DEF SenderTake, TypeOK
    <3> QED
      BY <3>2, <3>3
  <2>3. CASE e # Client
    <3>1. UNCHANGED data_sender_buf[Client] /\ Pending(Client)' = Pending(Client)
      BY <1>0, <2>2, <2>3 DEF Pending
    <3>2. ConnectOnce' /\ \A s \in Sids : ConnectOf(s)'
      BY <1>0, <2>1, <3>1, ConnectShrinks DEF ConnectOnce
    <3> QED
      BY <3>2, ConnectWhole
  <2>4. CASE e = Client
    <3>1. PICK f \in Frame : f = Head(data_sender_buf[Client])
      BY <2>1, <2>4, TailProps
    <3>2. /\ OneAsk(data_sender_buf'[Client]) /\ f.sid \in Sids
          /\ f.type = "Connect" => ~Asks(data_sender_buf'[Client], f.sid)
      BY <1>0, <2>1, <2>2, <2>4, <3>1, OneAskTail DEF ConnectOnce, Frame
    <3>3. \A s \in Sids : Asks(data_sender_buf[Client], s) <=>
             Asks(data_sender_buf'[Client], s) \/ (f.type = "Connect" /\ f.sid = s)
      BY <2>1, <2>2, <2>4, <3>1, AsksParts
    <3>4. Pending(Client) = <<>> /\ (Pending(Client)' = <<>> \/ Pending(Client)' = <<f>>)
      BY <2>2, <2>4, <3>1 DEF Pending
    <3>5. \A s : Asks(Pending(Client), s)' => f.type = "Connect" /\ f.sid = s
      BY <3>4, AsksParts
    <3>6. ConnectOnce'
      BY <1>0, <2>1, <3>2 DEF ConnectOnce
    <3>7. ASSUME NEW s \in Sids, f.type = "Connect" /\ f.sid = s PROVE ConnectOf(s)'
      <4>1. /\ Asks(data_sender_buf[Client], s) /\ ~Asks(data_sender_buf'[Client], s)
            /\ \A l \in Links : ~Asks(rx'[l], s) /\ ~Serves(l, s)' /\ ~Asks(rx[l], s) /\ ~Serves(l, s)
        BY <1>0, <2>1, <3>2, <3>3, <3>7 DEF ConnectOf
      <4>2. pc'[Client][s] \notin {"none", "accepted"}
        BY <1>0, <4>1 DEF ConnectOf, Asked
      <4> QED
        BY <4>1, <4>2 DEF ConnectOf
    <3>8. ASSUME NEW s \in Sids, ~(f.type = "Connect" /\ f.sid = s) PROVE ConnectOf(s)'
      BY <1>0, <2>1, <3>3, <3>5, <3>8, ConnectShrinks
    <3> QED
      BY <3>6, <3>7, <3>8, ConnectWhole
  <2> QED
    BY <2>3, <2>4
<1>2. CASE SenderSends(e) \/ SenderLoses(e) \/ SenderFails(e)
  <2>1. /\ UNCHANGED data_sender_buf /\ Pending(e)' = <<>>
        /\ \A x \in Ends : x # e => Pending(x)' = Pending(x)
        /\ sending[e] # Idle
    BY <1>2 DEF SenderSends, SenderLoses, SenderFails, Pending, TypeOK
  <2>2. \A s : Asks(Pending(Client), s)' => Asks(Pending(Client), s)
    BY <1>0, <2>1, AsksParts
  <2>3. CASE SenderLoses(e) \/ SenderFails(e) \/ e # Client
    <3>1. \A l \in Links : rx'[l] = rx[l]
      BY <1>0, <1>2, <2>3, SendsProps DEF SenderLoses, SenderFails
    <3>2. ConnectOnce' /\ \A s \in Sids : ConnectOf(s)'
      BY <1>0, <2>1, <2>2, <3>1, ConnectShrinks DEF ConnectOnce
    <3> QED
      BY <3>2, ConnectWhole
  <2>4. CASE SenderSends(e) /\ e = Client
    <3>1. PICK f \in Frame : f = sending[Client].frame
      BY <2>1, <2>4, PendingProps
    <3>2. /\ rx'[latest] = Append(rx[latest], f) /\ f \in Events /\ latest \in Links /\ live
          /\ \A x \in Ends : x # latest => rx'[x] = rx[x]
          /\ ~Unattached /\ cphase # "clearing"
      BY <2>4, <3>1, SendsProps
    <3>3. cphase # "reconnect" /\ rx[latest] \in Seq(Events)
      BY <1>0, <3>2 DEF Unattached, LinkInv, TypeOK
    <3>4. Pending(Client) = <<f>>
      BY <2>1, <2>4, <3>1 DEF Pending
    <3>5. \A s : Asks(Pending(Client), s) <=> f.type = "Connect" /\ f.sid = s
      BY <3>4, AsksParts
    <3>6. \A s : Asks(rx'[latest], s) <=> Asks(rx[latest], s) \/ (f.type = "Connect" /\ f.sid = s)
      BY <3>2, <3>3, AsksParts
    <3>7. ConnectOnce'
      <4>1. f.sid \in Sids /\ (f.type = "Connect" => ~Asks(rx[latest], f.sid))
        BY <1>0, <3>2, <3>5 DEF ConnectOf, Frame
      <4>2. OneAsk(rx'[latest])
        BY <1>0, <3>2, <3>3, <4>1, OneAskAppend DEF ConnectOnce
      <4> QED
        BY <1>0, <2>1, <3>2, <4>2 DEF ConnectOnce
    <3>8. ASSUME NEW s \in Sids, f.type = "Connect" /\ f.sid = s PROVE ConnectOf(s)'
      <4>1. /\ Asks(Pending(Client), s) /\ ~Asks(data_sender_buf[Client], s)
            /\ \A l \in Links : ~Asks(rx[l], s) /\ ~Serves(l, s) /\ ~Serves(l, s)'
        BY <1>0, <3>5, <3>8 DEF ConnectOf
      <4>2. ~Asks(data_sender_buf'[Client], s) /\ ~Asks(Pending(Client), s)'
        BY <2>1, <2>4, <4>1, AsksParts
      <4>3. \A l \in Links : Asks(rx'[l], s) => l = latest
        BY <1>0, <3>2, <4>1
      <4>4. pc'[Client][s] \notin {"none", "accepted"}
        BY <1>0, <4>1 DEF ConnectOf, Asked
      <4> QED
        BY <1>0, <3>3, <4>1, <4>2, <4>3, <4>4 DEF ConnectOf
    <3>9. ASSUME NEW s \in Sids, ~(f.type = "Connect" /\ f.sid = s) PROVE ConnectOf(s)'
      <4>1. \A l \in Links : Asks(rx'[l], s) => Asks(rx[l], s)
        BY <1>0, <3>2, <3>6, <3>9
      <4> QED
        BY <1>0, <2>1, <2>2, <4>1, ConnectShrinks
    <3> QED
      BY <3>7, <3>8, <3>9, ConnectWhole
  <2> QED
    BY <1>2, <2>3, <2>4
<1> QED
    BY <1>1, <1>2 DEF Sender

LEMMA ConnectLoop ==
    ASSUME TypeOK, LinkInv, ConnectInv, NEW e \in Ends, EventLoop(e)
    PROVE  ConnectInv'
<1>0. /\ UNCHANGED <<latest, sending, data_sender_buf>> /\ Pending(Client)' = Pending(Client)
      /\ ConnectOnce /\ \A s \in Sids : ConnectOf(s)
      /\ Client \in Ends /\ Client \notin Links /\ Links \subseteq Ends
    BY LoopCases, ConnectParts, Constants DEF Pending
<1>1. \A l \in Links : OneAsk(rx'[l]) /\ \A s : Asks(rx'[l], s) => Asks(rx[l], s)
  <2>1. CASE rx[e] # <<>> /\ Take(e)
    <3>1. rx[e] \in Seq(Events) /\ rx'[e] = Tail(rx[e]) /\ \A x \in Ends : x # e => rx'[x] = rx[x]
      BY <2>1, TakeProps DEF TypeOK
    <3>2. OneAsk(rx[e]) => OneAsk(rx'[e])
      BY <2>1, <3>1, OneAskTail
    <3>3. \A s : Asks(rx'[e], s) => Asks(rx[e], s)
      BY <2>1, <3>1, AsksParts
    <3> QED
      BY <1>0, <3>1, <3>2, <3>3 DEF ConnectOnce
  <2> QED
    BY <1>0, <2>1, LoopFrame DEF ConnectOnce
<1>2. ConnectOnce'
    BY <1>0, <1>1 DEF ConnectOnce
<1>3. cphase # "reconnect" => cphase' # "reconnect" \/ sessions'[Client] = {}
    BY DEF EventLoop, ClientAttaches, ClientLosesLink, ClientClearsSessions, ClientDispatches, ServerOpensMux,
        ServerDropsMux, ServerDispatches, ServerConnects, linkVars, TypeOK
<1>4. CASE UNCHANGED pc /\ \A s \in Sids : s \in sessions'[Client] => s \in sessions[Client]
    BY <1>0, <1>1, <1>2, <1>3, <1>4, ConnectShrinks, ConnectWhole DEF Serves
<1>5. CASE e \in Links /\ ServerConnects(e)
  <2>1. PICK s \in Sids :
              /\ rx[e] # <<>> /\ Take(e) /\ Head(rx[e]).type = "Connect" /\ Head(rx[e]).sid = s
              /\ Asks(rx[e], s) /\ \A m \in Links : ~Serves(m, s)
              /\ pc'[e][s] = "dialing" /\ UNCHANGED cphase
              /\ \A x \in Ends, t \in Sids : x # e \/ t # s =>
                    UNCHANGED pc[x][t] /\ (t \in sessions'[x] <=> t \in sessions[x])
    BY <1>5, ConnectsProps
  <2>2. ASSUME NEW t \in Sids, t # s PROVE ConnectOf(t)'
    BY <1>0, <1>1, <2>1, <2>2, ConnectShrinks DEF Serves
  <2>3. ConnectOf(s)'
    <3>1. rx[e] \in Seq(Events) /\ rx'[e] = Tail(rx[e]) /\ OneAsk(rx[e]) /\ e # Client
      BY <1>0, <1>5, <2>1, TakeProps DEF TypeOK, ConnectOnce
    <3>2. ~Asks(rx'[e], s)
      BY <2>1, <3>1, OneAskTail
    <3>3. \A l \in Links : ~Asks(rx'[l], s)
      BY <1>0, <1>1, <1>5, <2>1, <3>2 DEF ConnectOf
    <3>4. /\ ~Asks(data_sender_buf[Client], s) /\ ~Asks(Pending(Client), s)
          /\ pc[Client][s] \notin {"none", "accepted"}
          /\ s \in sessions[Client] => e = latest /\ cphase # "reconnect"
      BY <1>0, <1>5, <2>1 DEF ConnectOf, Asked
    <3>5. \A l \in Links : Serves(l, s)' => l = e
      BY <1>0, <2>1 DEF Serves
    <3>6. /\ ~Asks(data_sender_buf'[Client], s) /\ ~Asks(Pending(Client), s)'
          /\ pc'[Client][s] \notin {"none", "accepted"}
          /\ s \in sessions'[Client] => e = latest' /\ cphase' # "reconnect"
      BY <1>0, <2>1, <3>1, <3>4
    <3> QED
      BY <3>3, <3>5, <3>6 DEF ConnectOf
  <2> QED
    BY <1>2, <2>2, <2>3, ConnectWhole
<1> QED
    BY <1>0, <1>4, <1>5, LoopCases DEF Dispatches, TakesEvent, Clears

LEMMA ConnectStep ==
    ASSUME TypeOK, TypeOK', TasksInv, LinkInv, ConnectInv, [Next]_vars
    PROVE  ConnectInv'
<1>0. AllGrow
    BY GrowsStep
<1>1. CASE UNCHANGED vars
    BY <1>1 DEF vars, linkVars, muxVars, acceptVars, sessionVars, relayVars, ConnectInv, Asked, Serves, Pending
<1> QED
    BY <1>0, <1>1, NextSteps, ConnectSession, ConnectLink, ConnectSender, ConnectLoop

LEMMA ConnectInit == Init => ConnectInv
<1> SUFFICES ASSUME Init PROVE ConnectInv
    OBVIOUS
<1>1. \A e \in Ends : /\ data_sender_buf[e] = <<>> /\ rx[e] = <<>> /\ sending[e] = Idle
                    /\ \A s \in Sids : pc[e][s] = "none"
    BY DEF Init, EachSession
<1>2. OneAsk(<<>>) /\ \A s : ~Asks(<<>>, s)
    BY AsksParts DEF OneAsk
<1>3. Client \in Ends /\ Links \subseteq Ends
    BY Constants
<1>4. \A s \in Sids : ~Asked(s) /\ \A l \in Links : ~Serves(l, s)
    BY <1>1, <1>2, <1>3 DEF Asked, Serves, Pending
<1> QED
    BY <1>1, <1>2, <1>3, <1>4 DEF ConnectInv, Pending

-----------------------------------------------------------------------------
(* What is on its way between two sockets.                                 *)
Whole(e, p, s, b) ==
    \E c, d, x \in Nat :
        /\ Chain(rx[e], p, s, b, c, ReadAll(p, s))
        /\ Chain(Pending(p), p, s, c, d, ReadAll(p, s))
        /\ Chain(data_sender_buf[p], p, s, d, x, ReadAll(p, s))
        /\ x = Sent(p, s) \/ (Lossy(p, s) /\ x > 0 /\ x <= Sent(p, s))
OnWay(e, p, s, b) ==
    Starts(rx[e], p, s, b, ReadAll(p, s)) /\ (Broken(p, LinkOf(e, p)) \/ Whole(e, p, s, b))
In(e, p, s, b) == Chain(inbox[e][s], p, s, Expects(e, s), b, ReadAll(p, s))

LEMMA FlowParts ==
    ASSUME NEW e, NEW p, NEW s, Flow(e, p, s)
    PROVE  \E b \in Nat : In(e, p, s, b) /\ (Gone(e, s) \/ OnWay(e, p, s, b))
    BY DEF Flow, Numbers, In, OnWay, Whole

LEMMA FlowWhole ==
    ASSUME NEW e, NEW p, NEW s, NEW b \in Nat, In(e, p, s, b)', Gone(e, s)' \/ OnWay(e, p, s, b)'
    PROVE  Flow(e, p, s)'
    BY DEF Flow, Numbers, In, OnWay, Whole

LEMMA PeersProps ==
    ASSUME NEW e \in Ends, NEW p \in Peers(e)
    PROVE  /\ p \in Ends /\ p # e /\ LinkOf(e, p) \in Links
           /\ e = Client => p \in Links /\ LinkOf(e, p) = p
           /\ e # Client => e \in Links /\ p = Client /\ LinkOf(e, p) = e
    BY Constants DEF Peers, LinkOf

LEMMA Queues2 ==
    ASSUME TypeOK, NEW e \in Ends, NEW p \in Ends, NEW s \in Sids
    PROVE  /\ rx[e] \in Seq(Events) /\ Pending(p) \in Seq(Events) /\ data_sender_buf[p] \in Seq(Events)
           /\ inbox[e][s] \in Seq(Events) /\ inbox[e][s] \in Seq(Frame) /\ data_sender_buf[p] \in Seq(Frame)
           /\ read[p][s] \in Nat /\ ReadAll(p, s) \in Nat /\ Sent(p, s) \in Nat /\ Expects(e, s) \in Nat
<1>1. /\ rx[e] \in Seq(Events) /\ data_sender_buf[p] \in Seq(Frame) /\ inbox[e][s] \in Seq(Frame)
      /\ read[p][s] \in Nat /\ written[e][s] \in Seq(Frame)
    BY DEF TypeOK
<1>2. Len(written[e][s]) \in Nat
    BY <1>1, LenProperties
<1> QED
    BY <1>1, <1>2, PendingProps, FramesAreEvents, SentIsNat DEF ReadAll, Expects

(* One link serves a session, and the client has asked for it.             *)
LEMMA ServedProps ==
    ASSUME TypeOK, ConnectInv, TasksInv, NEW l \in Links, NEW s \in Sids, Serves(l, s)
    PROVE  /\ \A m \in Links : Serves(m, s) => m = l
           /\ pc[Client][s] \notin {"none", "accepted", "dialing"}
           /\ pc[l][s] \notin {"none", "accepted", "waiting"}
<1>1. Asked(s)
    BY DEF Asked
<1> QED
    BY <1>1 DEF ConnectInv, TasksInv, Serves

(* The head of a session's channel is the peer's.                          *)
LEMMA HeadIsPeers ==
    ASSUME TypeOK, TasksInv, FramesInv, ConnectInv, NEW e \in Ends, NEW s \in Sids, NEW p \in Peers(e),
           Serves(LinkOf(e, p), s), inbox[e][s] # <<>>
    PROVE  /\ Head(inbox[e][s]) \in Frame /\ Head(inbox[e][s]).from = p /\ Head(inbox[e][s]).sid = s
           /\ Sound(Head(inbox[e][s]))
<1>1. inbox[e][s] \in Seq(Frame)
    BY DEF TypeOK
<1>2. PICK f \in Frame : f = Head(inbox[e][s]) /\ f \in Elems(inbox[e][s])
    BY <1>1, ElemsTail
<1>3. f.sid = s /\ f.from \in Peers(e) /\ f.type # "Connect" /\ Sound(f)
    BY <1>2 DEF FramesInv
<1>4. f.from = p
  <2>1. CASE e = Client
    <3>1. f.from \in Links /\ Serves(f.from, s)
      BY <1>3, <2>1 DEF Peers, Sound, Active, Serves
    <3> QED
      BY <2>1, <3>1, PeersProps, ServedProps
  <2>2. CASE e # Client
    BY <1>3, <2>2 DEF Peers
  <2> QED
    BY <2>1, <2>2
<1> QED
    BY <1>2, <1>3, <1>4

(* An end that takes no more frames of a session never will.               *)
LEMMA GoneStays ==
    ASSUME TypeOK, TasksInv, NEW e \in Ends, NEW s \in Sids, Moves(e, s), Gone(e, s)
    PROVE  Gone(e, s)'
<1>0. /\ pc[e][s] # "none" /\ ~(s \in sessions[e] /\ Receiving(e, s)) /\ TaskOf(e, s)
      /\ pc'[e][s] # "none"
    BY TasksParts, MovesGrow DEF Gone, Grows
<1>1. s \in sessions'[e] => s \in sessions[e]
    BY <1>0 DEF Moves, Registers, Fails, AsksFor, IsAnswered, Skips, TimesOut, Answers, Reads, SendsRead, WritesOne,
           EndsTask, SendsClose, Unregisters, Kept
<1>2. Receiving(e, s)' => Receiving(e, s)
    BY <1>0 DEF Receiving, Moves, Registers, Fails, AsksFor, IsAnswered, Skips, TimesOut, Answers, Reads, SendsRead, WritesOne,
           EndsTask, SendsClose, Unregisters
<1> QED
    BY <1>0, <1>1, <1>2 DEF Gone

(* What a session's own steps do to what it has received.                  *)
LEMMA MovesReceive ==
    ASSUME TypeOK, TypeOK', TasksInv, FramesInv, ConnectInv, NEW e \in Ends, NEW s \in Sids, NEW p \in Peers(e),
           Serves(LinkOf(e, p), s), Moves(e, s), ~Skips(e, s), NEW b \in Nat, NEW m \in Nat,
           Chain(inbox[e][s], p, s, Expects(e, s), b, m)
    PROVE  \E a \in Nat : /\ Chain(inbox'[e][s], p, s, Expects(e, s)', a, m)
                          /\ a = b \/ Gone(e, s)'
<1>0. /\ e = Client => pc[e][s] \notin {"none", "accepted", "dialing"}
      /\ e # Client => pc[e][s] \notin {"none", "accepted", "waiting"}
      /\ TaskOf(e, s) /\ pc[e][s] # "none" /\ pc'[e][s] # "none"
      /\ pc[e][s] \in Pcs
  <2>1. TaskOf(e, s) /\ pc[e][s] \in Pcs
    BY TasksParts DEF TypeOK, Pcs
  <2>2. /\ e = Client => pc[e][s] \notin {"none", "accepted", "dialing"}
        /\ e # Client => pc[e][s] \notin {"none", "accepted", "waiting"}
    BY PeersProps, ServedProps
  <2>3. pc[e][s] # "none" => pc'[e][s] # "none"
    BY MovesGrow DEF Grows
  <2> QED
    BY <2>1, <2>2, <2>3
<1>1. Expects(e, s) \in Nat /\ inbox[e][s] \in Seq(Events) /\ written[e][s] \in Seq(Frame)
    BY Queues2 DEF TypeOK
<1>2. CASE UNCHANGED <<inbox[e][s], written[e][s]>> /\ pc[e][s] \notin {"accepted", "waiting"}
           /\ pc'[e][s] \notin {"accepted", "waiting"}
  <2>1. Expects(e, s)' = Expects(e, s)
    BY <1>2 DEF Expects
  <2> QED
    BY <1>2, <2>1
<1>3. CASE inbox'[e][s] = <<>> /\ pc'[e][s] \notin {"accepted", "waiting", "dialing", "none"}
           /\ Writer \notin tasks'[e][s]
  <2>1. Gone(e, s)'
    BY <1>3 DEF Gone, Receiving
  <2>2. PICK a \in Nat : a = Expects(e, s)'
    <3>1. written'[e][s] \in Seq(Frame)
      BY DEF TypeOK
    <3>2. Len(written'[e][s]) \in Nat
      BY <3>1, LenProperties
    <3> QED
      BY <3>2 DEF Expects
  <2>3. Chain(<<>>, p, s, a, a, m)
    BY EmptyChain
  <2> QED
    BY <1>3, <2>1, <2>2, <2>3
<1>4. CASE IsAnswered(e, s)
  <2>1. /\ e = Client /\ pc[e][s] = "waiting" /\ inbox[e][s] # <<>> /\ inbox'[e][s] = Tail(inbox[e][s])
        /\ Head(inbox[e][s]).type \in {"ConnectOk", "ConnectErr"} /\ written'[e][s] = written[e][s]
        /\ pc'[e][s] \in {"relay", "closing", "ended"}
    BY <1>4 DEF IsAnswered, Rest
  <2>2. written[e][s] = <<>>
    BY <1>0, <2>1 DEF TaskOf, AnyTask, Active
  <2>3. Len(<<>>) = 0
    OBVIOUS
  <2>4. Expects(e, s) = 0 /\ Expects(e, s)' = 1
    BY <2>1, <2>2, <2>3 DEF Expects
  <2>5. Numbered(Head(inbox[e][s]), p, s)
    BY <2>1, HeadIsPeers DEF Numbered
  <2>6. Chain(Tail(inbox[e][s]), p, s, Expects(e, s) + 1, b, m)
    BY <1>1, <2>1, <2>5, ChainTail
  <2> QED
    BY <2>1, <2>4, <2>6
<1>5. CASE WritesOne(e, s)
  <2>1. /\ inbox[e][s] # <<>> /\ inbox'[e][s] = Tail(inbox[e][s]) /\ Head(inbox[e][s]).type = "Data"
        /\ written'[e][s] = Append(written[e][s], Head(inbox[e][s])) /\ pc'[e][s] = pc[e][s]
        /\ Writer \in tasks[e][s]
    BY <1>5 DEF WritesOne
  <2>2. pc[e][s] \notin {"accepted", "waiting"}
    BY <1>0, <2>1 DEF TaskOf, AnyTask, Active
  <2>3. Numbered(Head(inbox[e][s]), p, s) /\ Head(inbox[e][s]) \in Frame
    BY <2>1, HeadIsPeers DEF Numbered
  <2>4. Len(written'[e][s]) = Len(written[e][s]) + 1
    BY <1>1, <2>1, <2>3, AppendProps
  <2>5. Expects(e, s)' = Expects(e, s) + 1
    BY <2>1, <2>2, <2>4 DEF Expects
  <2>6. Chain(Tail(inbox[e][s]), p, s, Expects(e, s) + 1, b, m)
    BY <1>1, <2>1, <2>3, ChainTail
  <2> QED
    BY <2>1, <2>5, <2>6
<1>6. CASE TimesOut(e, s)
  <2>1. tasks[e][s] = {}
    BY <1>0, <1>6 DEF TimesOut, TaskOf, AnyTask, Active
  <2> QED
    BY <1>3, <1>6, <2>1 DEF TimesOut
<1>7. CASE Answers(e, s)
  <2>1. tasks[e][s] = {}
    BY <1>0, <1>7 DEF Answers, TaskOf, AnyTask, Active
  <2> QED
    BY <1>2, <1>3, <1>7, <2>1 DEF Answers, Rest
<1>8. CASE EndsTask(e, s)
  <2>1. tasks[e][s] # {} /\ pc'[e][s] \in {pc[e][s], "closing"} /\ UNCHANGED written[e][s]
        /\ \/ UNCHANGED inbox[e][s]
           \/ inbox'[e][s] = <<>> /\ Writer \notin tasks'[e][s]
    BY <1>8 DEF EndsTask, Rest
  <2>2. pc[e][s] \notin {"accepted", "waiting", "dialing", "none"}
    BY <1>0, <2>1 DEF TaskOf, AnyTask, Active
  <2> QED
    BY <1>2, <1>3, <2>1, <2>2
<1>9. CASE Reads(e, s) \/ SendsRead(e, s)
  <2>1. tasks[e][s] # {} /\ UNCHANGED <<inbox[e][s], written[e][s], pc[e][s]>>
    BY <1>9 DEF Reads, SendsRead, Rest
  <2>2. pc[e][s] \notin {"accepted", "waiting"}
    BY <1>0, <2>1 DEF TaskOf, AnyTask, Active
  <2> QED
    BY <1>2, <2>1, <2>2
<1>10. CASE SendsClose(e, s) \/ Unregisters(e, s)
    BY <1>2, <1>10 DEF SendsClose, Unregisters, Rest
<1>11. ~Registers(e, s) /\ ~Fails(e, s) /\ ~AsksFor(e, s)
    BY <1>0 DEF Registers, Fails, AsksFor
<1> QED
    BY <1>4, <1>5, <1>6, <1>7, <1>8, <1>9, <1>10, <1>11 DEF Moves

(* Before it closes a session, an end has sent no CLOSE for it.            *)
LEMMA NoCloses ==
    ASSUME TypeOK, FramesInv, NEW e \in Ends, NEW p \in Ends, NEW s \in Sids,
           pc[p][s] \notin {"dropping", "ended"}
    PROVE  /\ \A i \in 1..Len(rx[e]) : ~ClosesIt(rx[e][i], p, s)
           /\ \A i \in 1..Len(inbox[e][s]) : ~ClosesIt(inbox[e][s][i], p, s)
           /\ \A i \in 1..Len(Pending(p)) : ~ClosesIt(Pending(p)[i], p, s)
           /\ \A i \in 1..Len(data_sender_buf[p]) : ~ClosesIt(data_sender_buf[p][i], p, s)
<1>1. \A f : f.type = "Close" /\ Sound(f) => ~ClosesIt(f, p, s)
    BY DEF Sound, ClosesIt
<1>2. "Close" \in FrameTypes
    BY DEF FrameTypes
<1>3. \A f \in Elems(rx[e]) : ~ClosesIt(f, p, s)
    BY <1>1, <1>2 DEF FramesInv, ClosesIt
<1>4. \A f \in Elems(inbox[e][s]) : ~ClosesIt(f, p, s)
    BY <1>1 DEF FramesInv, ClosesIt
<1>5. \A f \in Elems(data_sender_buf[p]) \cup Elems(Pending(p)) : ~ClosesIt(f, p, s)
    BY <1>1 DEF FramesInv, ClosesIt
<1> QED
    BY <1>3, <1>4, <1>5 DEF Elems

(* How much the CLOSE of a session comes after, when a step of it changes  *)
(* that: there is no CLOSE yet.                                            *)
LEMMA MovesReadAll ==
    ASSUME TypeOK, TypeOK', TasksInv, FramesInv, NEW e \in Ends, NEW p \in Ends, NEW s \in Sids, Moves(p, s)
    PROVE  \E m \in Nat :
              /\ m = ReadAll(p, s)'
              /\ \A a, b : /\ Starts(rx[e], p, s, a, ReadAll(p, s)) => Starts(rx[e], p, s, a, m)
                           /\ Chain(rx[e], p, s, a, b, ReadAll(p, s)) => Chain(rx[e], p, s, a, b, m)
                           /\ Chain(inbox[e][s], p, s, a, b, ReadAll(p, s)) => Chain(inbox[e][s], p, s, a, b, m)
                           /\ Chain(Pending(p), p, s, a, b, ReadAll(p, s)) => Chain(Pending(p), p, s, a, b, m)
                           /\ Chain(data_sender_buf[p], p, s, a, b, ReadAll(p, s)) =>
                                 Chain(data_sender_buf[p], p, s, a, b, m)
<1>1. TaskOf(p, s) /\ read'[p][s] \in Nat /\ read[p][s] \in Nat
    BY TasksParts DEF TypeOK
<1>2. PICK m \in Nat : m = ReadAll(p, s)'
    BY <1>1 DEF ReadAll
<1>3. CASE m = ReadAll(p, s)
    BY <1>2, <1>3
<1>4. CASE pc[p][s] = "relay"
  <2>1. /\ \A i \in 1..Len(rx[e]) : ~ClosesIt(rx[e][i], p, s)
        /\ \A i \in 1..Len(inbox[e][s]) : ~ClosesIt(inbox[e][s][i], p, s)
        /\ \A i \in 1..Len(Pending(p)) : ~ClosesIt(Pending(p)[i], p, s)
        /\ \A i \in 1..Len(data_sender_buf[p]) : ~ClosesIt(data_sender_buf[p][i], p, s)
    BY <1>4, NoCloses
  <2>2. \A a : Starts(rx[e], p, s, a, ReadAll(p, s)) => Starts(rx[e], p, s, a, m)
    BY <2>1, OpenStarts
  <2>3. \A a, b : Chain(rx[e], p, s, a, b, ReadAll(p, s)) => Chain(rx[e], p, s, a, b, m)
    BY <2>1, OpenChain
  <2>4. \A a, b : Chain(inbox[e][s], p, s, a, b, ReadAll(p, s)) => Chain(inbox[e][s], p, s, a, b, m)
    BY <2>1, OpenChain
  <2>5. \A a, b : Chain(Pending(p), p, s, a, b, ReadAll(p, s)) => Chain(Pending(p), p, s, a, b, m)
    BY <2>1, OpenChain
  <2>6. \A a, b : Chain(data_sender_buf[p], p, s, a, b, ReadAll(p, s)) => Chain(data_sender_buf[p], p, s, a, b, m)
    BY <2>1, OpenChain
  <2> QED
    BY <1>2, <2>2, <2>3, <2>4, <2>5, <2>6
<1>5. ASSUME pc[p][s] # "relay" PROVE ReadAll(p, s)' = ReadAll(p, s)
  <2>1. CASE Reads(p, s)
    BY <1>1, <2>1 DEF Reads, TaskOf, AnyTask, ReadAll
  <2>2. CASE IsAnswered(p, s) \/ Skips(p, s) \/ TimesOut(p, s)
    <3>1. why[p][s] = "none" /\ why'[p][s] # "eof"
      BY <1>1, <2>2 DEF IsAnswered, Skips, TimesOut, TaskOf, AnyTask, Active
    <3> QED
      BY <3>1 DEF ReadAll
  <2>3. CASE ~(Reads(p, s) \/ IsAnswered(p, s) \/ Skips(p, s) \/ TimesOut(p, s))
    <3>1. UNCHANGED <<why[p][s], read[p][s]>>
      BY <1>5, <2>3 DEF Moves, Registers, Fails, AsksFor, Answers, SendsRead, WritesOne,
             EndsTask, SendsClose, Unregisters, Rest
    <3> QED
      BY <3>1 DEF ReadAll
  <2> QED
    BY <2>1, <2>2, <2>3
<1> QED
    BY <1>2, <1>3, <1>4, <1>5

(* What a session's own steps do to what it has to send.                   *)
LEMMA MovesSend ==
    ASSUME TypeOK, TypeOK', TasksInv, NEW p \in Ends, NEW s \in Sids, Moves(p, s),
           pc[p][s] \notin {"none", "accepted"}, NEW d \in Nat, NEW x \in Nat, NEW m \in Nat, m = ReadAll(p, s)',
           Chain(data_sender_buf[p], p, s, d, x, m), x = Sent(p, s) \/ (Lossy(p, s) /\ x > 0 /\ x <= Sent(p, s))
    PROVE  \E y \in Nat : /\ Chain(data_sender_buf'[p], p, s, d, y, m)
                          /\ y = Sent(p, s)' \/ (Lossy(p, s)' /\ y > 0 /\ y <= Sent(p, s)')
<1>0. /\ TaskOf(p, s) /\ read[p][s] \in Nat /\ read'[p][s] \in Nat /\ Sent(p, s) \in Nat
      /\ data_sender_buf[p] \in Seq(Events) /\ data_sender_buf[p] \in Seq(Frame)
      /\ pc[p][s] # "dialing" => pc'[p][s] # "dialing"
      /\ pc[p][s] \in Pcs /\ (Active(p, s) => Active(p, s)') /\ Client \notin Links
  <2>1. pc[p][s] # "dialing" => pc'[p][s] # "dialing"
    BY DEF Moves, Registers, Fails, AsksFor, IsAnswered, Skips, TimesOut, Answers, Reads, SendsRead, WritesOne,
           EndsTask, SendsClose, Unregisters
  <2>2. read[p][s] \in Nat /\ read'[p][s] \in Nat /\ pc[p][s] \in Pcs
    BY DEF TypeOK, Pcs
  <2> QED
    BY <2>1, <2>2, TasksParts, Queues2, MovesGrow, Constants DEF Grows
<1>1. CASE Mute /\ Sent(p, s)' = Sent(p, s) /\ (Lossy(p, s) => Lossy(p, s)')
    BY <1>1 DEF Mute
<1>2. CASE Answers(p, s)
  <2>1. ~Lossy(p, s) /\ Sent(p, s) = 0 /\ read[p][s] = 0 /\ ~holding[p][s] /\ tasks[p][s] = {}
    BY <1>0, <1>2 DEF Answers, TaskOf, AnyTask, Active, Lossy, Sent
  <2>2. PICK f \in Frame : Sends(p, s, f) /\ f.type \in {"ConnectOk", "ConnectErr"} /\ f.n = 0
    BY <1>2, PutsSends DEF Answers
  <2>3. Sent(p, s)' = 1
    BY <1>2, <2>1 DEF Answers, Rest, Sent
  <2>4. Numbered(f, p, s) /\ ~ClosesIt(f, p, s) /\ f \in Events
    BY <2>2, Kinds DEF Sends, Numbered, ClosesIt
  <2>5. Chain(Append(data_sender_buf[p], f), p, s, d, x + 1, m)
    BY <1>0, <2>1, <2>2, <2>4, ChainAppend
  <2> QED
    BY <2>1, <2>2, <2>3, <2>5 DEF Sends
<1>3. CASE SendsRead(p, s)
  <2>1. ~Lossy(p, s) /\ pc[p][s] # "dialing" /\ Sent(p, s) = read[p][s]
    BY <1>0, <1>3 DEF SendsRead, TaskOf, AnyTask, Active, Lossy, Sent
  <2>2. PICK f \in Frame : Sends(p, s, f) /\ f.type = "Data" /\ f.n = read[p][s]
    BY <1>3, PutsSends DEF SendsRead
  <2>3. Sent(p, s)' = read[p][s] + 1
    BY <1>0, <1>3, <2>1 DEF SendsRead, Rest, Sent
  <2>4. Numbered(f, p, s) /\ ~ClosesIt(f, p, s) /\ f \in Events
    BY <2>2, Kinds DEF Sends, Numbered, ClosesIt
  <2>5. Chain(Append(data_sender_buf[p], f), p, s, d, x + 1, m)
    BY <1>0, <2>1, <2>2, <2>4, ChainAppend
  <2> QED
    BY <2>1, <2>2, <2>3, <2>5 DEF Sends
<1>4. CASE SendsClose(p, s)
  <2>1. /\ pc[p][s] = "closing" /\ pc'[p][s] = "dropping"
        /\ UNCHANGED <<tasks[p][s], holding[p][s], why[p][s], read[p][s]>>
    BY <1>4 DEF SendsClose, Rest
  <2>2. Sent(p, s)' = Sent(p, s) /\ (Lossy(p, s) => Lossy(p, s)')
    BY <1>0, <2>1 DEF Sent, Lossy
  <2>3. PICK f \in Frame : Sends(p, s, f) /\ f.type = "Close"
    BY <1>4, PutsSends DEF SendsClose
  <2>4. ~Numbered(f, p, s) /\ f \in Events
    BY <2>3, Kinds DEF Sends, Numbered
  <2>5. m < x
    <3>1. CASE why[p][s] = "eof"
      <4>1. m = read[p][s] /\ ~holding[p][s] /\ ~Lossy(p, s)
        BY <1>0, <2>1, <3>1 DEF TaskOf, AnyTask, Lossy, ReadAll
      <4>2. Sent(p, s) = read[p][s] + 1
        BY <2>1, <4>1 DEF Sent
      <4> QED
        BY <1>0, <4>1, <4>2
    <3>2. CASE why[p][s] # "eof"
      <4>1. m = 0
        BY <2>1, <3>2 DEF ReadAll
      <4>2. Sent(p, s) > 0
        BY <1>0, <2>1 DEF TaskOf, AnyTask, Sent
      <4> QED
        BY <4>1, <4>2
    <3> QED
      BY <3>1, <3>2
  <2>6. Chain(Append(data_sender_buf[p], f), p, s, d, x, m)
    BY <1>0, <2>4, <2>5, ChainAppend
  <2> QED
    BY <2>2, <2>3, <2>6 DEF Sends
<1>5. CASE EndsTask(p, s)
  <2>1. PICK t \in tasks[p][s] :
           /\ tasks'[p][s] = tasks[p][s] \ {t} /\ (holding'[p][s] <=> holding[p][s] /\ t # Reader)
           /\ \/ pc[p][s] # "relay" /\ UNCHANGED <<pc[p][s], why[p][s]>>
              \/ /\ pc[p][s] = "relay" /\ pc'[p][s] = "closing"
                 /\ \/ t = Reader /\ ~holding[p][s]
                    \/ t = Writer /\ why'[p][s] # "eof"
           /\ UNCHANGED read[p][s] /\ Mute
    BY <1>5 DEF EndsTask, Rest
  <2>2. /\ Active(p, s) /\ Active(p, s)' /\ pc[p][s] # "dialing" /\ pc'[p][s] # "dialing"
        /\ tasks[p][s] \subseteq {Reader, Writer}
    <3>1. Active(p, s) /\ Active(p, s)'
      BY <1>0, <2>1 DEF TaskOf, AnyTask
    <3>2. pc[p][s] # "dialing" /\ pc'[p][s] # "dialing"
      BY <3>1 DEF Active
    <3>3. tasks[p][s] \subseteq {Reader, Writer}
      BY DEF TypeOK
    <3> QED
      BY <3>1, <3>2, <3>3
  <2>3. CASE t = Writer
    <3>1. (holding'[p][s] <=> holding[p][s]) /\ (Reader \in tasks'[p][s] <=> Reader \in tasks[p][s])
      BY <2>1, <2>3 DEF Reader, Writer
    <3>2. Sent(p, s)' = Sent(p, s)
      BY <2>1, <2>2, <3>1 DEF Sent
    <3>3. why'[p][s] = "eof" => why[p][s] = "eof"
      BY <2>1, <2>3 DEF Reader, Writer
    <3>4. Lossy(p, s) => Lossy(p, s)'
      BY <2>2, <3>1, <3>3 DEF Lossy
    <3> QED
      BY <1>1, <2>1, <3>2, <3>4
  <2>4. CASE t = Reader
    <3>1. ~Lossy(p, s) /\ why[p][s] # "eof" /\ ~holding'[p][s] /\ Reader \notin tasks'[p][s]
      BY <1>0, <2>1, <2>4 DEF Lossy, TaskOf, AnyTask
    <3>2. CASE ~holding[p][s]
      <4>1. Sent(p, s)' = Sent(p, s)
        BY <2>1, <2>2, <3>1, <3>2 DEF Sent
      <4> QED
        BY <1>1, <2>1, <3>1, <4>1
    <3>3. CASE holding[p][s]
      <4>1. why'[p][s] # "eof"
        BY <2>1, <2>4, <3>1, <3>3 DEF Reader, Writer
      <4>2. Lossy(p, s)'
        BY <2>2, <3>1, <4>1 DEF Lossy
      <4>3. Sent(p, s) = read[p][s] /\ Sent(p, s)' = read[p][s] + 1 /\ read[p][s] > 0
        BY <1>0, <2>1, <2>2, <3>1, <3>3 DEF Sent, TaskOf, AnyTask
      <4> QED
        BY <1>0, <2>1, <3>1, <4>2, <4>3 DEF Mute
    <3> QED
      BY <3>2, <3>3
  <2> QED
    BY <2>2, <2>3, <2>4
<1>6. CASE Reads(p, s)
  <2>1. ~Lossy(p, s) /\ pc[p][s] # "dialing"
    BY <1>0, <1>6 DEF Reads, TaskOf, AnyTask, Active, Lossy
  <2>2. Sent(p, s)' = Sent(p, s)
    BY <1>0, <1>6, <2>1 DEF Reads, Sent
  <2> QED
    BY <1>1, <1>6, <2>1, <2>2 DEF Reads
<1>7. CASE IsAnswered(p, s) \/ Skips(p, s) \/ TimesOut(p, s)
  <2>1. ~Lossy(p, s)
    BY <1>7 DEF IsAnswered, Skips, TimesOut, Lossy, Active
  <2>2. pc[p][s] # "dialing" /\ UNCHANGED <<read[p][s], holding[p][s]>> /\ Mute
    BY <1>7 DEF IsAnswered, Skips, TimesOut, Rest
  <2>3. Sent(p, s)' = Sent(p, s)
    BY <1>0, <2>2 DEF Sent
  <2> QED
    BY <1>1, <2>1, <2>2, <2>3
<1>8. CASE WritesOne(p, s) \/ Unregisters(p, s)
  <2>1. /\ UNCHANGED <<read[p][s], holding[p][s], tasks[p][s], why[p][s]>> /\ Mute
        /\ pc[p][s] # "dialing"
    BY <1>0, <1>8 DEF WritesOne, Unregisters, Rest, TaskOf, AnyTask, Active
  <2>2. Sent(p, s)' = Sent(p, s)
    BY <1>0, <2>1 DEF Sent
  <2>3. Lossy(p, s) => Lossy(p, s)'
    BY <1>0, <2>1 DEF Lossy
  <2> QED
    BY <1>1, <2>1, <2>2, <2>3
<1>9. ~Registers(p, s) /\ ~Fails(p, s) /\ ~AsksFor(p, s)
    BY DEF Registers, Fails, AsksFor
<1> QED
    BY <1>2, <1>3, <1>4, <1>5, <1>6, <1>7, <1>8, <1>9 DEF Moves

LEMMA SameSend ==
    ASSUME NEW p, NEW s, Same(p, s)
    PROVE  ReadAll(p, s)' = ReadAll(p, s) /\ Sent(p, s)' = Sent(p, s) /\ (Lossy(p, s)' <=> Lossy(p, s))
    BY DEF Same, Rest, ReadAll, Sent, Lossy, Active

LEMMA SameReceive ==
    ASSUME NEW e, NEW s, Same(e, s)
    PROVE  Expects(e, s)' = Expects(e, s) /\ (Gone(e, s)' <=> Gone(e, s)) /\ inbox'[e][s] = inbox[e][s]
<1>1. /\ UNCHANGED <<pc[e][s], tasks[e][s], inbox[e][s], written[e][s]>>
      /\ s \in sessions'[e] <=> s \in sessions[e]
    BY DEF Same, Rest
<1>2. Receiving(e, s)' <=> Receiving(e, s)
    BY <1>1 DEF Receiving
<1> QED
    BY <1>1, <1>2 DEF Expects, Gone

(* What a link has lost stays lost.                                        *)
LEMMA LossyGrows ==
    ASSUME Next
    PROVE  lossy \subseteq lossy'
<1>1. LinkComesUp \/ LinkGoesDown \/ AcceptChecks \/ AcceptRegisters => lossy' = lossy
    BY DEF LinkComesUp, LinkGoesDown, AcceptChecks, AcceptRegisters, linkVars
<1>2. ASSUME NEW e \in Ends, EventLoop(e) PROVE lossy' = lossy
    BY <1>2 DEF EventLoop, ClientAttaches, ClientLosesLink, ClientClearsSessions, ClientDispatches,
                ServerOpensMux, ServerDropsMux, ServerDispatches, ServerConnects, linkVars
<1>3. ASSUME NEW e \in Ends, Sender(e) PROVE lossy \subseteq lossy'
    BY <1>3 DEF Sender, SenderTake, SenderSends, SenderLoses, SenderFails, linkVars
<1>4. ASSUME NEW s \in Sids, ConnectSteps(s) PROVE lossy' = lossy
    BY <1>4 DEF ConnectSteps, HandshakeFails, Connect, GetsOk, GetsErr, Discards, GivesUp, DialSucceeds,
                DialFails, linkVars
<1>5. ASSUME NEW s \in Sids, NEW e \in Ends, Relays(e, s) \/ Sockets(e, s) PROVE lossy' = lossy
    BY <1>5 DEF Relays, Sockets, SendsData, Writes, GetsClose, ChannelCloses, Aborted, Closes, DropsSession,
                ReadsData, ReadEnds, WriteFails, Finish, linkVars
<1> QED
    BY <1>1, <1>2, <1>3, <1>4, <1>5 DEF Next

LEMMA JoinedBefore ==
    ASSUME Next, NEW e, NEW s, NEW p, Joined(e, p, s)'
    PROVE  /\ pc'[LinkOf(e, p)][s] # "none" /\ LinkOf(e, p) \notin lossy'
           /\ Serves(LinkOf(e, p), s) => Joined(e, p, s)
    BY LossyGrows DEF Joined, Serves, LinkOf

LEMMA HeadExpected ==
    ASSUME TypeOK, TasksInv, FramesInv, ConnectInv, FlowInv, NEW e \in Ends, NEW s \in Sids, NEW p \in Peers(e),
           Joined(e, p, s), inbox[e][s] # <<>>
    PROVE  /\ Expects(e, s) = 0 => Head(inbox[e][s]).type \in {"ConnectOk", "ConnectErr"}
           /\ Expects(e, s) > 0 => Head(inbox[e][s]).type \in {"Data", "Close"}
<1>1. /\ p \in Ends /\ Head(inbox[e][s]) \in Frame
      /\ Head(inbox[e][s]).from = p /\ Head(inbox[e][s]).sid = s /\ Sound(Head(inbox[e][s]))
      /\ inbox[e][s] \in Seq(Events) /\ ReadAll(p, s) \in Nat /\ Expects(e, s) \in Nat
    BY PeersProps, HeadIsPeers, Queues2 DEF Joined, Serves
<1>2. PICK b \in Nat : Chain(inbox[e][s], p, s, Expects(e, s), b, ReadAll(p, s))
    BY FlowParts DEF FlowInv, In
<1>3. Starts(inbox[e][s], p, s, Expects(e, s), ReadAll(p, s))
    BY <1>2 DEF Chain
<1>4. /\ Numbered(Head(inbox[e][s]), p, s) => Head(inbox[e][s]).n = Expects(e, s)
      /\ ClosesIt(Head(inbox[e][s]), p, s) => ReadAll(p, s) < Expects(e, s)
    BY <1>1, <1>3, StartsHead
<1>5. Head(inbox[e][s]).type \in {"ConnectOk", "ConnectErr", "Data", "Close"}
  <2>1. Head(inbox[e][s]) \in Elems(inbox[e][s])
    <3>1. inbox[e][s] \in Seq(Frame)
      BY DEF TypeOK
    <3> QED
      BY <3>1, ElemsTail
  <2>2. Head(inbox[e][s]).type # "Connect"
    BY <2>1 DEF FramesInv
  <2> QED
    BY <1>1, <2>2 DEF Frame, FrameTypes
<1>6. CASE Head(inbox[e][s]).type = "Data"
  <2>1. Head(inbox[e][s]).n = Expects(e, s) /\ Head(inbox[e][s]).n > 0
    BY <1>1, <1>4, <1>6 DEF Numbered, Sound
  <2> QED
    BY <1>6, <2>1
<1>7. CASE Head(inbox[e][s]).type = "Close"
  <2>1. ReadAll(p, s) < Expects(e, s)
    BY <1>1, <1>4, <1>7 DEF ClosesIt
  <2>2. Expects(e, s) # 0
    BY <1>1, <2>1
  <2> QED
    BY <1>7, <2>2
<1>8. CASE Head(inbox[e][s]).type \in {"ConnectOk", "ConnectErr"}
  <2>1. Head(inbox[e][s]).n = Expects(e, s) /\ Head(inbox[e][s]).n = 0
    BY <1>1, <1>4, <1>8 DEF Numbered, Sound
  <2> QED
    BY <1>8, <2>1
<1> QED
    BY <1>5, <1>6, <1>7, <1>8

LEMMA FlowSession ==
    ASSUME TypeOK, TypeOK', TasksInv, FramesInv, ConnectInv, FlowInv, SessionSteps
    PROVE  FlowInv'
<1> SUFFICES ASSUME NEW e \in Ends, NEW s \in Sids, NEW p \in Peers(e), Joined(e, p, s)'
             PROVE  Flow(e, p, s)'
    BY DEF FlowInv, Peers
<1>j. /\ pc'[LinkOf(e, p)][s] # "none" /\ LinkOf(e, p) \notin lossy'
      /\ Serves(LinkOf(e, p), s) => Joined(e, p, s)
  <2>1. Next
    BY NextSteps
  <2> QED
    BY <2>1, JoinedBefore
<1>0. /\ p \in Ends /\ p # e /\ LinkOf(e, p) \in Links /\ Serves(LinkOf(e, p), s) /\ Client \in Ends
      /\ UNCHANGED <<latest, live, rx, link_id, sending>> /\ Pending(p)' = Pending(p)
      /\ Broken(p, LinkOf(e, p))' <=> Broken(p, LinkOf(e, p))
  <2>1. p \in Ends /\ p # e /\ LinkOf(e, p) \in Links /\ Client \in Ends
    BY PeersProps, Constants
  <2>2. Serves(LinkOf(e, p), s) /\ UNCHANGED <<latest, live, rx, link_id, sending>>
    BY <1>j, <2>1, SessionFrame DEF Serves
  <2>3. Pending(p)' = Pending(p) /\ (Broken(p, LinkOf(e, p))' <=> Broken(p, LinkOf(e, p)))
    BY <2>2 DEF Pending, Broken, IsUp
  <2> QED
    BY <2>1, <2>2, <2>3
<1>1. PICK b \in Nat : In(e, p, s, b) /\ (Gone(e, s) \/ OnWay(e, p, s, b))
    BY <1>0, <1>j, FlowParts DEF FlowInv
<1>2. /\ rx[e] \in Seq(Events) /\ data_sender_buf[p] \in Seq(Events)
      /\ ReadAll(p, s) \in Nat
    BY <1>0, Queues2
<1>3. CASE /\ Same(e, s) /\ Same(p, s)
           /\ \/ UNCHANGED data_sender_buf[p]
              \/ \E f \in Frame : f.sid # s /\ data_sender_buf'[p] = Append(data_sender_buf[p], f)
  <2>1. In(e, p, s, b)' /\ (Gone(e, s)' <=> Gone(e, s))
    BY <1>1, <1>3, SameSend, SameReceive DEF In
  <2>2. ASSUME NEW d \in Nat, NEW x \in Nat, Chain(data_sender_buf[p], p, s, d, x, ReadAll(p, s))
        PROVE  Chain(data_sender_buf'[p], p, s, d, x, ReadAll(p, s))
    <3>1. ASSUME NEW f \in Frame, f.sid # s
          PROVE  Chain(Append(data_sender_buf[p], f), p, s, d, x, ReadAll(p, s))
      <4>1. f \in Events /\ ~Numbered(f, p, s) /\ ~ClosesIt(f, p, s)
        BY <3>1, Kinds DEF Numbered, ClosesIt
      <4> QED
        BY <1>2, <2>2, <4>1, ChainAppend
    <3> QED
      BY <1>3, <2>2, <3>1
  <2>3. Whole(e, p, s, b) => Whole(e, p, s, b)'
    BY <1>0, <1>3, <2>2, SameSend DEF Whole
  <2>4. OnWay(e, p, s, b) => OnWay(e, p, s, b)'
    BY <1>0, <1>3, <2>3, SameSend DEF OnWay
  <2> QED
    BY <1>1, <2>1, <2>4, FlowWhole
<1>k. ~Skips(e, s)
  <2>1. Serves(LinkOf(e, p), s) /\ Joined(e, p, s)
    BY <1>0, <1>j
  <2>2. ASSUME Skips(e, s) PROVE Expects(e, s) = 0 /\ inbox[e][s] # <<>>
    BY <2>2 DEF Skips, Expects
  <2> QED
    BY <2>1, <2>2, HeadExpected DEF Skips
<1>4. CASE Moves(e, s) /\ Same(p, s) /\ UNCHANGED data_sender_buf[p]
  <2>1. PICK m \in Nat : m = ReadAll(p, s) /\ m = ReadAll(p, s)'
    BY <1>2, <1>4, SameSend
  <2>2. PICK a \in Nat : /\ Chain(inbox'[e][s], p, s, Expects(e, s)', a, m)
                         /\ a = b \/ Gone(e, s)'
    <3>1. Chain(inbox[e][s], p, s, Expects(e, s), b, m)
      BY <1>1, <2>1 DEF In
    <3> QED
      BY <1>0, <1>k, <1>4, <3>1, MovesReceive
  <2>3. In(e, p, s, a)'
    BY <2>1, <2>2 DEF In
  <2>4. OnWay(e, p, s, b) => OnWay(e, p, s, b)'
    <3>1. Whole(e, p, s, b) => Whole(e, p, s, b)'
      BY <1>0, <1>4, SameSend DEF Whole
    <3> QED
      BY <1>0, <1>4, <3>1, SameSend DEF OnWay
  <2>5. Gone(e, s) => Gone(e, s)'
    BY <1>4, GoneStays
  <2>6. Gone(e, s)' \/ OnWay(e, p, s, a)'
    BY <1>1, <2>2, <2>4, <2>5
  <2> QED
    BY <2>3, <2>6, FlowWhole
<1>5. CASE Moves(p, s) /\ Same(e, s)
  <2>0. pc[p][s] \notin {"none", "accepted"}
    <3>1. CASE p = Client
      BY <1>0, <3>1, ServedProps
    <3>2. CASE p # Client
      <4>1. LinkOf(e, p) = p
        BY <3>2 DEF Peers, LinkOf
      <4> QED
        BY <1>0, <4>1, ServedProps
    <3> QED
      BY <3>1, <3>2
  <2>1. PICK m \in Nat :
              /\ m = ReadAll(p, s)'
              /\ \A a, c : /\ Starts(rx[e], p, s, a, ReadAll(p, s)) => Starts(rx[e], p, s, a, m)
                           /\ Chain(rx[e], p, s, a, c, ReadAll(p, s)) => Chain(rx[e], p, s, a, c, m)
                           /\ Chain(inbox[e][s], p, s, a, c, ReadAll(p, s)) => Chain(inbox[e][s], p, s, a, c, m)
                           /\ Chain(Pending(p), p, s, a, c, ReadAll(p, s)) => Chain(Pending(p), p, s, a, c, m)
                           /\ Chain(data_sender_buf[p], p, s, a, c, ReadAll(p, s)) =>
                                 Chain(data_sender_buf[p], p, s, a, c, m)
    BY <1>0, <1>5, MovesReadAll
  <2>2. In(e, p, s, b)' /\ (Gone(e, s)' <=> Gone(e, s))
    BY <1>1, <1>5, <2>1, SameReceive DEF In
  <2>3. Whole(e, p, s, b) => Whole(e, p, s, b)'
    <3>1. ASSUME Whole(e, p, s, b) PROVE Whole(e, p, s, b)'
      <4>1. PICK c \in Nat, d \in Nat, x \in Nat :
              /\ Chain(rx[e], p, s, b, c, m)
              /\ Chain(Pending(p), p, s, c, d, m)
              /\ Chain(data_sender_buf[p], p, s, d, x, m)
              /\ x = Sent(p, s) \/ (Lossy(p, s) /\ x > 0 /\ x <= Sent(p, s))
        BY <2>1, <3>1 DEF Whole
      <4>2. PICK y \in Nat : /\ Chain(data_sender_buf'[p], p, s, d, y, m)
                             /\ y = Sent(p, s)' \/ (Lossy(p, s)' /\ y > 0 /\ y <= Sent(p, s)')
        BY <1>0, <1>5, <2>0, <2>1, <4>1, MovesSend
      <4> QED
        BY <1>0, <2>1, <4>1, <4>2 DEF Whole
    <3> QED
      BY <3>1
  <2>4. OnWay(e, p, s, b) => OnWay(e, p, s, b)'
    BY <1>0, <2>1, <2>3 DEF OnWay
  <2> QED
    BY <1>1, <2>2, <2>4, FlowWhole
<1>6. ASSUME NEW x \in Ends, NEW t \in Sids, Moves(x, t), Elsewhere(x, t) PROVE Flow(e, p, s)'
  <2>1. \/ UNCHANGED data_sender_buf[p]
        \/ x = p /\ \E f \in Frame : f.sid = t /\ data_sender_buf'[p] = Append(data_sender_buf[p], f)
    <3>1. AllGrow
      <4>1. Next
        BY NextSteps
      <4> QED
        BY <4>1, GrowsStep
    <3>2. Mute \/ \E f \in Frame : Sends(x, t, f)
      BY <1>6, <3>1, MovesPut
    <3> QED
      BY <1>0, <3>2 DEF Mute, Sends
  <2>2. CASE x = e /\ t = s
    BY <1>0, <1>4, <1>6, <2>1, <2>2 DEF Elsewhere
  <2>3. CASE x = p /\ t = s
    BY <1>0, <1>5, <1>6, <2>3 DEF Elsewhere
  <2>4. CASE ~(x = e /\ t = s) /\ ~(x = p /\ t = s)
    BY <1>0, <1>3, <1>6, <2>1, <2>4 DEF Elsewhere
  <2> QED
    BY <2>2, <2>3, <2>4
<1> QED
    BY <1>0, <1>3, <1>6, SessionMoves DEF Mute

(* The links, the sender tasks and the event loops move frames only.       *)
LEMMA SessionsSame ==
    ASSUME UNCHANGED <<pc, tasks, holding, read, written, why>>
    PROVE  \A e, p, s : /\ ReadAll(p, s)' = ReadAll(p, s) /\ Sent(p, s)' = Sent(p, s)
                        /\ Lossy(p, s)' <=> Lossy(p, s)
                        /\ Expects(e, s)' = Expects(e, s) /\ (Receiving(e, s)' <=> Receiving(e, s))
                        /\ Serves(e, s)' <=> Serves(e, s)
    BY DEF ReadAll, Sent, Lossy, Active, Expects, Receiving, Serves

LEMMA FlowLink ==
    ASSUME TypeOK, TypeOK', LinkInv, FreshInv, FlowInv, LinkComesUp \/ LinkGoesDown
    PROVE  FlowInv'
<1> SUFFICES ASSUME NEW e \in Ends, NEW s \in Sids, NEW p \in Peers(e), Joined(e, p, s)'
             PROVE  Flow(e, p, s)'
    BY DEF FlowInv, Peers
<1>j. /\ pc'[LinkOf(e, p)][s] # "none" /\ LinkOf(e, p) \notin lossy'
      /\ Serves(LinkOf(e, p), s) => Joined(e, p, s)
  <2>1. Next
    BY NextSteps
  <2> QED
    BY <2>1, JoinedBefore
<1>0. /\ p \in Ends /\ LinkOf(e, p) \in Links /\ Client \in Ends /\ Client \notin Links
      /\ UNCHANGED <<pc, tasks, holding, read, written, why, inbox, sessions>>
    BY PeersProps, LinkFrame, Constants
<1>1. /\ Serves(LinkOf(e, p), s) /\ ReadAll(p, s)' = ReadAll(p, s)
      /\ Expects(e, s)' = Expects(e, s) /\ (Gone(e, s)' <=> Gone(e, s))
    BY <1>0, <1>j, SessionsSame DEF Gone, Serves
<1>2. PICK b \in Nat : In(e, p, s, b) /\ (Gone(e, s) \/ OnWay(e, p, s, b))
    BY <1>0, <1>1, <1>j, FlowParts DEF FlowInv
<1>3. In(e, p, s, b)'
    BY <1>0, <1>1, <1>2 DEF In
<1>4. rx[e] \in Seq(Events) /\ ReadAll(p, s) \in Nat
    BY <1>0, Queues2
<1>5. Broken(p, LinkOf(e, p))'
  <2>1. CASE LinkGoesDown
    BY <2>1 DEF LinkGoesDown, Broken, IsUp
  <2>2. CASE LinkComesUp
    <3>1. LinkOf(e, p) <= latest /\ latest \in Nat /\ LinkOf(e, p) \in Nat
      <4>1. latest \in Nat /\ LinkOf(e, p) \in Nat
        BY <1>0, TunnelAssumption DEF TypeOK, Links
      <4>2. ~(LinkOf(e, p) > latest)
        BY <1>0, <1>1 DEF FreshInv
      <4> QED
        BY <4>1, <4>2
    <3>2. LinkOf(e, p) # latest'
      BY <2>2, <3>1 DEF LinkComesUp
    <3>3. Broken(p, LinkOf(e, p))' \/ latest' = LinkOf(e, p)'
      BY DEF Broken, IsUp
    <3>4. LinkOf(e, p)' = LinkOf(e, p)
      BY DEF LinkOf
    <3> QED
      BY <3>2, <3>3, <3>4
  <2> QED
    BY <2>1, <2>2
<1>6. ASSUME Starts(rx[e], p, s, b, ReadAll(p, s)) PROVE Starts(rx'[e], p, s, b, ReadAll(p, s))
  <2>1. CASE LinkComesUp
    <3>1. CASE rx'[e] = rx[e]
      BY <1>6, <3>1
    <3>2. CASE rx'[e] = <<Signal("LinkEstablished")>>
      <4>1. Silent(<<Signal("LinkEstablished")>>, p, s)
        BY DEF Silent, Numbered, ClosesIt, Signal
      <4> QED
        BY <1>4, <3>2, <4>1, SilentChain
    <3>3. rx'[e] = rx[e] \/ rx'[e] = <<Signal("LinkEstablished")>>
      BY <2>1 DEF LinkComesUp, TypeOK
    <3> QED
      BY <3>1, <3>2, <3>3
  <2>2. CASE LinkGoesDown
    <3>1. latest \in Links /\ latest \in Ends /\ latest # Client
      BY <2>2, LinkIsNewest DEF LinkGoesDown
    <3>2. \E k \in MayKeep(rx[e]) : rx'[e] = rx[e] \/ rx'[e] = Cut(rx[e], k)
      <4>1. PICK j \in MayKeep(rx[Client]), k \in MayKeep(rx[latest]) :
                rx' = [rx EXCEPT ![Client] = Cut(@, j), ![latest] = Cut(@, k)]
        BY <2>2 DEF LinkGoesDown
      <4>2. CASE e = Client
        <5>1. rx'[e] = Cut(rx[e], j)
          BY <1>0, <3>1, <4>1, <4>2 DEF TypeOK
        <5> QED
          BY <4>2, <5>1
      <4>3. CASE e = latest
        <5>1. rx'[e] = Cut(rx[e], k)
          BY <1>0, <3>1, <4>1, <4>3 DEF TypeOK
        <5> QED
          BY <4>3, <5>1
      <4>4. CASE e # Client /\ e # latest
        <5>1. rx'[e] = rx[e]
          BY <1>0, <3>1, <4>1, <4>4 DEF TypeOK
        <5>2. Len(rx[e]) \in MayKeep(rx[e])
          <6>1. Len(rx[e]) \in Nat /\ (Len(rx[e]) = 0 => rx[e] = <<>>)
            BY <1>4, EmptySeq, LenProperties
          <6> QED
            BY <6>1 DEF MayKeep
        <5> QED
          BY <5>1, <5>2
      <4> QED
        BY <4>2, <4>3, <4>4
    <3>3. \A k \in MayKeep(rx[e]) : k \in 0..Len(rx[e])
      BY DEF MayKeep
    <3> QED
      BY <1>4, <1>6, <3>2, <3>3, StartsCut
  <2> QED
    BY <2>1, <2>2
<1>7. OnWay(e, p, s, b) => OnWay(e, p, s, b)'
    BY <1>1, <1>5, <1>6 DEF OnWay
<1> QED
    BY <1>1, <1>2, <1>3, <1>7, FlowWhole

(* A frame that another end sends does not disturb.                        *)
LEMMA ForeignFrame ==
    ASSUME NEW q \in Seq(Events), NEW f \in Events, NEW p, NEW s, ~Numbered(f, p, s), ~ClosesIt(f, p, s),
           NEW b \in Nat, NEW m \in Nat
    PROVE  /\ Starts(q, p, s, b, m) => Starts(Append(q, f), p, s, b, m)
           /\ \A c \in Nat : Chain(q, p, s, b, c, m) => Chain(Append(q, f), p, s, b, c, m)
<1>1. ASSUME NEW c \in Nat, Chain(q, p, s, b, c, m) PROVE Chain(Append(q, f), p, s, b, c, m)
    BY <1>1, ChainAppend
<1>2. ASSUME Starts(q, p, s, b, m) PROVE Starts(Append(q, f), p, s, b, m)
    BY <1>2, StartsAppend
<1> QED
    BY <1>1, <1>2

(* One frame in hand.                                                      *)
LEMMA OneFrame ==
    ASSUME NEW f \in Events, NEW p, NEW s, NEW c \in Nat, NEW m \in Nat
    PROVE  /\ Numbered(f, p, s) => f.n = c
           /\ ClosesIt(f, p, s) => m < c
           => Chain(<<f>>, p, s, c, IF Numbered(f, p, s) THEN c + 1 ELSE c, m)
<1> SUFFICES ASSUME Numbered(f, p, s) => f.n = c, ClosesIt(f, p, s) => m < c
             PROVE  Chain(<<f>>, p, s, c, IF Numbered(f, p, s) THEN c + 1 ELSE c, m)
    OBVIOUS
<1>1. <<>> \in Seq(Events) /\ Append(<<>>, f) = <<f>>
    BY EmptySeq
<1>2. Chain(<<>>, p, s, c, c, m)
    BY EmptyChain
<1>3. Chain(Append(<<>>, f), p, s, c, IF Numbered(f, p, s) THEN c + 1 ELSE c, m)
    BY <1>1, <1>2, ChainAppend
<1> QED
    BY <1>1, <1>3

(* The sender task of the peer moves a frame from the channel to the link. *)
LEMMA WholeTake ==
    ASSUME TypeOK, TypeOK', NEW e \in Ends, NEW p \in Ends, NEW s \in Sids, NEW b \in Nat,
           SenderTake(p), link_id[p] # None, Whole(e, p, s, b)
    PROVE  Whole(e, p, s, b)'
<1>0. /\ UNCHANGED <<pc, tasks, holding, read, written, why, rx>>
      /\ data_sender_buf[p] # <<>> /\ sending[p] = Idle
      /\ data_sender_buf'[p] = Tail(data_sender_buf[p])
      /\ sending'[p] = [frame |-> Head(data_sender_buf[p]), link |-> link_id[p]]
    BY DEF SenderTake, TypeOK, sessionVars, relayVars
<1>1. /\ data_sender_buf[p] \in Seq(Events) /\ data_sender_buf[p] \in Seq(Frame) /\ ReadAll(p, s) \in Nat
      /\ ReadAll(p, s)' = ReadAll(p, s) /\ Sent(p, s)' = Sent(p, s) /\ (Lossy(p, s)' <=> Lossy(p, s))
    BY <1>0, Queues2, SessionsSame
<1>2. PICK f \in Frame : f = Head(data_sender_buf[p]) /\ f \in Events
    BY <1>0, <1>1, TailProps, Kinds
<1>3. Pending(p) = <<>> /\ Pending(p)' = <<f>>
    BY <1>0, <1>2, IdleIsNone DEF Pending
<1>4. PICK c \in Nat, d \in Nat, x \in Nat :
          /\ Chain(rx[e], p, s, b, c, ReadAll(p, s))
          /\ Chain(<<>>, p, s, c, d, ReadAll(p, s))
          /\ Chain(data_sender_buf[p], p, s, d, x, ReadAll(p, s))
          /\ x = Sent(p, s) \/ (Lossy(p, s) /\ x > 0 /\ x <= Sent(p, s))
    BY <1>3 DEF Whole
<1>5. c = d
    BY <1>1, <1>4, EmptyOnly
<1>6. PICK d1 \in Nat : d1 = IF Numbered(f, p, s) THEN d + 1 ELSE d
    OBVIOUS
<1>7. Chain(Tail(data_sender_buf[p]), p, s, d1, x, ReadAll(p, s))
    BY <1>0, <1>1, <1>2, <1>4, <1>6, ChainTail
<1>8. (Numbered(f, p, s) => f.n = d) /\ (ClosesIt(f, p, s) => ReadAll(p, s) < d)
  <2>1. Starts(data_sender_buf[p], p, s, d, ReadAll(p, s))
    BY <1>4 DEF Chain
  <2> QED
    BY <1>0, <1>1, <1>2, <2>1, StartsHead
<1>9. Chain(<<f>>, p, s, d, d1, ReadAll(p, s))
    BY <1>1, <1>2, <1>6, <1>8, OneFrame
<1> QED
    BY <1>0, <1>1, <1>3, <1>4, <1>5, <1>7, <1>9 DEF Whole

LEMMA WholeSends ==
    ASSUME TypeOK, TypeOK', NEW e \in Ends, NEW p \in Ends, NEW s \in Sids, NEW b \in Nat,
           SenderSends(p), NEW f \in Frame, f = sending[p].frame, rx'[e] = Append(rx[e], f), Whole(e, p, s, b)
    PROVE  Whole(e, p, s, b)' /\ Starts(rx'[e], p, s, b, ReadAll(p, s)')
<1>0. /\ UNCHANGED <<pc, tasks, holding, read, written, why, data_sender_buf>>
      /\ sending[p] # Idle /\ sending'[p] = Idle
    BY DEF SenderSends, TypeOK, sessionVars, relayVars
<1>1. /\ rx[e] \in Seq(Events) /\ ReadAll(p, s) \in Nat /\ f \in Events
      /\ ReadAll(p, s)' = ReadAll(p, s) /\ Sent(p, s)' = Sent(p, s) /\ (Lossy(p, s)' <=> Lossy(p, s))
    BY <1>0, Queues2, SessionsSame, Kinds
<1>3. Pending(p) = <<f>> /\ Pending(p)' = <<>>
    BY <1>0 DEF Pending
<1>4. PICK c \in Nat, d \in Nat, x \in Nat :
          /\ Chain(rx[e], p, s, b, c, ReadAll(p, s))
          /\ Chain(<<f>>, p, s, c, d, ReadAll(p, s))
          /\ Chain(data_sender_buf[p], p, s, d, x, ReadAll(p, s))
          /\ x = Sent(p, s) \/ (Lossy(p, s) /\ x > 0 /\ x <= Sent(p, s))
    BY <1>3 DEF Whole
<1>5. PICK c1 \in Nat : c1 = IF Numbered(f, p, s) THEN c + 1 ELSE c
    OBVIOUS
<1>6. <<f>> \in Seq(Events) /\ <<f>> # <<>> /\ Head(<<f>>) = f /\ Tail(<<f>>) = <<>>
    BY <1>1
<1>7. (Numbered(f, p, s) => f.n = c) /\ (ClosesIt(f, p, s) => ReadAll(p, s) < c)
  <2>1. Starts(<<f>>, p, s, c, ReadAll(p, s))
    BY <1>4 DEF Chain
  <2>2. /\ Numbered(Head(<<f>>), p, s) => Head(<<f>>).n = c
        /\ ClosesIt(Head(<<f>>), p, s) => ReadAll(p, s) < c
    BY <1>1, <1>6, <2>1, StartsHead
  <2> QED
    BY <1>6, <2>2
<1>8. Chain(Append(rx[e], f), p, s, b, c1, ReadAll(p, s))
    BY <1>1, <1>4, <1>5, <1>7, ChainAppend
<1>9. c1 = d
  <2>1. Chain(Tail(<<f>>), p, s, IF Numbered(Head(<<f>>), p, s) THEN c + 1 ELSE c, d, ReadAll(p, s))
    BY <1>1, <1>4, <1>6, ChainTail
  <2>2. Chain(<<>>, p, s, c1, d, ReadAll(p, s))
    BY <1>5, <1>6, <2>1
  <2> QED
    BY <1>1, <2>2, EmptyOnly
<1>10. Chain(<<>>, p, s, c1, c1, ReadAll(p, s))
    BY <1>1, EmptyChain
<1>11. Whole(e, p, s, b)'
    BY <1>0, <1>1, <1>3, <1>4, <1>8, <1>9, <1>10 DEF Whole
<1>12. Starts(rx'[e], p, s, b, ReadAll(p, s)')
    BY <1>1, <1>8 DEF Chain
<1> QED
    BY <1>11, <1>12

LEMMA FlowSender ==
    ASSUME TypeOK, TypeOK', LinkInv, FramesInv, FlowInv, NEW y \in Ends, Sender(y)
    PROVE  FlowInv'
<1> SUFFICES ASSUME NEW e \in Ends, NEW s \in Sids, NEW p \in Peers(e), Joined(e, p, s)'
             PROVE  Flow(e, p, s)'
    BY DEF FlowInv, Peers
<1>j. /\ pc'[LinkOf(e, p)][s] # "none" /\ LinkOf(e, p) \notin lossy'
      /\ Serves(LinkOf(e, p), s) => Joined(e, p, s)
  <2>1. Next
    BY NextSteps
  <2> QED
    BY <2>1, JoinedBefore
<1>0. /\ p \in Ends /\ p # e /\ LinkOf(e, p) \in Links /\ None \notin Links /\ Client \in Ends
      /\ UNCHANGED <<pc, tasks, holding, read, written, why, inbox, sessions, latest, live>>
      /\ LinkOf(e, p)' = LinkOf(e, p)
    BY PeersProps, LinkFrame, Constants DEF LinkOf, Sender, SenderTake, SenderSends, SenderLoses, SenderFails, linkVars
<1>1. /\ Serves(LinkOf(e, p), s) /\ ReadAll(p, s)' = ReadAll(p, s) /\ Sent(p, s)' = Sent(p, s)
      /\ Lossy(p, s)' <=> Lossy(p, s)
      /\ Expects(e, s)' = Expects(e, s) /\ (Gone(e, s)' <=> Gone(e, s))
    BY <1>0, <1>j, SessionsSame DEF Gone, Serves
<1>2. PICK b \in Nat : In(e, p, s, b) /\ (Gone(e, s) \/ OnWay(e, p, s, b))
    BY <1>0, <1>1, <1>j, FlowParts DEF FlowInv
<1>3. In(e, p, s, b)'
    BY <1>0, <1>1, <1>2 DEF In
<1>4. /\ rx[e] \in Seq(Events) /\ ReadAll(p, s) \in Nat
    BY <1>0, Queues2
<1>5. SUFFICES ASSUME OnWay(e, p, s, b) PROVE Gone(e, s)' \/ OnWay(e, p, s, b)'
    BY <1>1, <1>2, <1>3, FlowWhole
<1>6. Starts(rx[e], p, s, b, ReadAll(p, s)) /\ (Broken(p, LinkOf(e, p)) \/ Whole(e, p, s, b))
    BY <1>5 DEF OnWay
<1>7. CASE SenderTake(y)
  <2>1. UNCHANGED <<rx, link_id>>
    BY <1>7 DEF SenderTake
  <2>2. CASE y # p
    <3>1. UNCHANGED <<sending[p], data_sender_buf[p]>>
      BY <1>0, <1>7, <2>2 DEF SenderTake, TypeOK
    <3>2. /\ Broken(p, LinkOf(e, p)) => Broken(p, LinkOf(e, p))'
          /\ Pending(p)' = Pending(p)
      BY <1>0, <2>1, <3>1 DEF Broken, IsUp, Pending
    <3>3. Whole(e, p, s, b) => Whole(e, p, s, b)'
      BY <1>1, <2>1, <3>1, <3>2 DEF Whole
    <3> QED
      BY <1>1, <1>6, <2>1, <3>2, <3>3 DEF OnWay
  <2>3. CASE y = p
    <3>1. /\ sending[p] = Idle
          /\ sending'[p] = IF link_id[p] = None THEN Idle
                           ELSE [frame |-> Head(data_sender_buf[p]), link |-> link_id[p]]
      BY <1>0, <1>7, <2>3 DEF SenderTake, TypeOK
    <3>2. link_id[p] # LinkOf(e, p) => Broken(p, LinkOf(e, p))'
      BY <1>0, <2>1, <3>1 DEF Broken
    <3>3. CASE link_id[p] # LinkOf(e, p)
      BY <1>1, <1>6, <2>1, <3>2, <3>3 DEF OnWay
    <3>4. CASE link_id[p] = LinkOf(e, p)
      <4>1. link_id[p] # None
        BY <1>0, <3>4
      <4>2. Broken(p, LinkOf(e, p)) => Broken(p, LinkOf(e, p))'
        BY <1>0, <3>4 DEF Broken, IsUp
      <4>3. Whole(e, p, s, b) => Whole(e, p, s, b)'
        BY <1>0, <1>7, <2>3, <4>1, WholeTake
      <4> QED
        BY <1>1, <1>6, <2>1, <4>2, <4>3 DEF OnWay
    <3> QED
      BY <3>3, <3>4
  <2> QED
    BY <2>2, <2>3
<1>8. CASE SenderFails(y)
  <2>1. UNCHANGED <<rx, data_sender_buf>>
    BY <1>8 DEF SenderFails
  <2>2. CASE y # p
    <3>1. UNCHANGED <<sending[p], link_id[p]>>
      BY <1>0, <1>8, <2>2 DEF SenderFails, TypeOK
    <3>2. /\ Broken(p, LinkOf(e, p)) => Broken(p, LinkOf(e, p))'
          /\ Pending(p)' = Pending(p)
      BY <1>0, <3>1 DEF Broken, IsUp, Pending
    <3>3. Whole(e, p, s, b) => Whole(e, p, s, b)'
      BY <1>1, <2>1, <3>2 DEF Whole
    <3> QED
      BY <1>1, <1>6, <2>1, <3>2, <3>3 DEF OnWay
  <2>3. CASE y = p
    <3>1. sending'[p] = Idle /\ link_id'[p] = None
      BY <1>0, <1>8, <2>3 DEF SenderFails, TypeOK
    <3>2. Broken(p, LinkOf(e, p))'
      BY <1>0, <3>1 DEF Broken
    <3> QED
      BY <1>1, <1>6, <2>1, <3>2 DEF OnWay
  <2> QED
    BY <2>2, <2>3
<1>10. CASE SenderLoses(y)
  <2>1. UNCHANGED <<rx, data_sender_buf, link_id>> /\ IsUp(sending[y].link) /\ sending[y].link \in lossy'
    BY <1>10 DEF SenderLoses
  <2>2. CASE y # p
    <3>1. UNCHANGED <<sending[p], link_id[p]>>
      BY <1>0, <1>10, <2>1, <2>2 DEF SenderLoses, TypeOK
    <3>2. /\ Broken(p, LinkOf(e, p)) => Broken(p, LinkOf(e, p))'
          /\ Pending(p)' = Pending(p)
      BY <1>0, <3>1 DEF Broken, IsUp, Pending
    <3>3. Whole(e, p, s, b) => Whole(e, p, s, b)'
      BY <1>1, <2>1, <3>2 DEF Whole
    <3> QED
      BY <1>1, <1>6, <2>1, <3>2, <3>3 DEF OnWay
  <2>3. CASE y = p
    <3>1. Broken(p, LinkOf(e, p))'
      BY <1>0, <1>j, <2>1, <2>3 DEF Broken, IsUp
    <3> QED
      BY <1>1, <1>6, <2>1, <3>1 DEF OnWay
  <2> QED
    BY <2>2, <2>3
<1>9. CASE SenderSends(y)
  <2>1. PICK f \in Frame, d \in Ends :
            /\ f = sending[y].frame /\ d = Dest(y, latest) /\ f \in Events
            /\ sending[y].link = latest /\ live /\ latest \in Links
            /\ (y = Client => d = latest) /\ (y # Client => d = Client /\ y = latest)
            /\ rx'[d] = Append(rx[d], f) /\ \A x \in Ends : x # d => rx'[x] = rx[x]
    BY <1>9, SendsProps
  <2>2. /\ UNCHANGED <<data_sender_buf, link_id>> /\ sending[y] # Idle
        /\ \A x \in Ends : x # y => sending'[x] = sending[x]
        /\ sending'[y] = Idle
    BY <1>9 DEF SenderSends, TypeOK
  <2>3. f.from = y
    <3>1. f \in Elems(Pending(y))
      BY <2>1, <2>2, ElemsFew DEF Pending
    <3> QED
      BY <3>1 DEF FramesInv
  <2>4. CASE y # p
    <3>1. UNCHANGED sending[p]
      BY <1>0, <2>2, <2>4
    <3>2. /\ Broken(p, LinkOf(e, p)) => Broken(p, LinkOf(e, p))'
          /\ Pending(p)' = Pending(p)
      BY <1>0, <2>2, <3>1 DEF Broken, IsUp, Pending
    <3>3. ~Numbered(f, p, s) /\ ~ClosesIt(f, p, s)
      BY <2>3, <2>4 DEF Numbered, ClosesIt
    <3>4. /\ Starts(rx'[e], p, s, b, ReadAll(p, s))
          /\ \A c \in Nat : Chain(rx[e], p, s, b, c, ReadAll(p, s)) => Chain(rx'[e], p, s, b, c, ReadAll(p, s))
      <4>1. CASE e = d
        <5>1. rx'[e] = Append(rx[e], f) /\ rx[e] \in Seq(Events) /\ f \in Events
          BY <1>4, <2>1, <4>1
        <5>2. Starts(rx[e], p, s, b, ReadAll(p, s)) => Starts(Append(rx[e], f), p, s, b, ReadAll(p, s))
          BY <1>4, <3>3, <5>1, ForeignFrame
        <5>3. \A c \in Nat : Chain(rx[e], p, s, b, c, ReadAll(p, s)) =>
                             Chain(Append(rx[e], f), p, s, b, c, ReadAll(p, s))
          BY <1>4, <3>3, <5>1, ForeignFrame
        <5> QED
          BY <1>6, <5>1, <5>2, <5>3
      <4>2. CASE e # d
        BY <1>6, <2>1, <4>2
      <4> QED
        BY <4>1, <4>2
    <3>5. Whole(e, p, s, b) => Whole(e, p, s, b)'
      BY <1>1, <2>2, <3>2, <3>4 DEF Whole
    <3> QED
      BY <1>1, <1>6, <3>2, <3>4, <3>5 DEF OnWay
  <2>5. CASE y = p /\ e = d
    <3>1. LinkOf(e, p) = latest
      BY <1>0, <2>1, <2>5, PeersProps
    <3>2. ~Broken(p, LinkOf(e, p))
      BY <2>1, <2>2, <2>5, <3>1 DEF Broken, IsUp
    <3>3. Whole(e, p, s, b)' /\ Starts(rx'[e], p, s, b, ReadAll(p, s)')
      BY <1>0, <1>6, <1>9, <2>1, <2>5, <3>2, WholeSends
    <3> QED
      BY <1>1, <3>3 DEF OnWay
  <2>6. CASE y = p /\ e # d
    <3>1. LinkOf(e, p) # latest
      BY <1>0, <2>1, <2>6, PeersProps
    <3>2. Broken(p, LinkOf(e, p))' /\ rx'[e] = rx[e]
      BY <1>0, <2>1, <2>6, <3>1 DEF Broken, IsUp
    <3> QED
      BY <1>1, <1>6, <3>2 DEF OnWay
  <2> QED
    BY <2>4, <2>5, <2>6
<1> QED
    BY <1>7, <1>8, <1>9, <1>10 DEF Sender

(* A queue that could not carry the session onwards still cannot.          *)
LEMMA BrokenStays ==
    ASSUME TypeOK, LinkInv, FreshInv, NEW x \in Ends, EventLoop(x), NEW e \in Ends, NEW p \in Peers(e),
           NEW s \in Sids, Serves(LinkOf(e, p), s), Broken(p, LinkOf(e, p))
    PROVE  Broken(p, LinkOf(e, p))'
<1>0. /\ p \in Ends /\ LinkOf(e, p) \in Links /\ None \notin Links
      /\ p # Client => LinkOf(e, p) = p
      /\ UNCHANGED <<latest, live, sending>> /\ LinkOf(e, p)' = LinkOf(e, p)
    BY PeersProps, Constants, LoopCases DEF LinkOf
<1>1. UNCHANGED link_id[p] => Broken(p, LinkOf(e, p))'
    BY <1>0 DEF Broken, IsUp
<1>2. CASE ClientAttaches
  <2>1. CASE p = Client
    <3>1. Unattached
      BY <1>2 DEF ClientAttaches, Unattached, Gets
    <3>2. LinkOf(e, p) # latest
      BY <1>0, <3>1 DEF FreshInv
    <3> QED
      BY <1>0, <3>2 DEF Broken, IsUp
  <2>2. CASE p # Client
    BY <1>0, <1>1, <1>2, <2>2 DEF ClientAttaches, TypeOK
  <2> QED
    BY <2>1, <2>2
<1>3. CASE ClientLosesLink
  <2>1. link_id'[p] = link_id[p] \/ link_id'[p] = None
    BY <1>0, <1>3 DEF ClientLosesLink, TypeOK
  <2> QED
    BY <1>0, <1>1, <2>1 DEF Broken, IsUp
<1>4. CASE x \in Links /\ ServerOpensMux(x)
  <2>1. CASE p = x
    <3>1. x \in Ends /\ rx[x] # <<>> /\ Head(rx[x]).type = "LinkEstablished" /\ Take(x) /\ x # Client
      BY <1>4, Constants DEF ServerOpensMux, Gets
    <3>2. Head(rx[x]) = rx[x][1] /\ Len(rx[x]) \in Nat \ {0}
      BY <3>1, TakeProps
    <3>3. 1 \in 1..Len(rx[x])
      BY <3>2
    <3>4. ~Serves(x, s)
      BY <1>4, <3>1, <3>2, <3>3 DEF FreshInv
    <3> QED
      BY <1>0, <2>1, <3>1, <3>4
  <2>2. CASE p # x
    BY <1>0, <1>1, <1>4, <2>2, Constants DEF ServerOpensMux, TypeOK
  <2> QED
    BY <2>1, <2>2
<1>5. CASE ~ClientAttaches /\ ~ClientLosesLink /\ ~(x \in Links /\ ServerOpensMux(x))
  <2>1. UNCHANGED link_id
    BY <1>5, Constants
    DEF EventLoop, ClientClearsSessions, ClientDispatches, ServerDropsMux, ServerDispatches, ServerConnects, muxVars
  <2> QED
    BY <1>1, <2>1
<1> QED
    BY <1>2, <1>3, <1>4, <1>5

(* The first frame of a queue is taken.                                    *)
LEMMA TakeOnWay ==
    ASSUME TypeOK, NEW e \in Ends, NEW p \in Ends, NEW s \in Sids, rx[e] # <<>>, Take(e),
           UNCHANGED <<sending, data_sender_buf>>,
           ReadAll(p, s)' = ReadAll(p, s), Sent(p, s)' = Sent(p, s), Lossy(p, s)' <=> Lossy(p, s),
           Broken(p, LinkOf(e, p)) => Broken(p, LinkOf(e, p))',
           NEW b \in Nat, NEW a \in Nat, a = (IF Numbered(Head(rx[e]), p, s) THEN b + 1 ELSE b),
           OnWay(e, p, s, b)
    PROVE  OnWay(e, p, s, a)'
<1>1. rx[e] \in Seq(Events) /\ ReadAll(p, s) \in Nat /\ rx'[e] = Tail(rx[e])
    BY Queues2, TakeProps
<1>2. Starts(rx[e], p, s, b, ReadAll(p, s)) /\ (Broken(p, LinkOf(e, p)) \/ Whole(e, p, s, b))
    BY DEF OnWay
<1>3. Starts(rx'[e], p, s, a, ReadAll(p, s)')
    BY <1>1, <1>2, StartsTail
<1>4. Pending(p)' = Pending(p)
    BY DEF Pending
<1>5. Whole(e, p, s, b) => Whole(e, p, s, a)'
  <2>1. SUFFICES ASSUME Whole(e, p, s, b) PROVE Whole(e, p, s, a)'
    OBVIOUS
  <2>2. PICK c \in Nat, d \in Nat, x \in Nat :
            /\ Chain(rx[e], p, s, b, c, ReadAll(p, s))
            /\ Chain(Pending(p), p, s, c, d, ReadAll(p, s))
            /\ Chain(data_sender_buf[p], p, s, d, x, ReadAll(p, s))
            /\ x = Sent(p, s) \/ (Lossy(p, s) /\ x > 0 /\ x <= Sent(p, s))
    BY <2>1 DEF Whole
  <2>3. Chain(rx'[e], p, s, a, c, ReadAll(p, s)')
    BY <1>1, <2>2, ChainTail
  <2>4. /\ Chain(Pending(p)', p, s, c, d, ReadAll(p, s)')
        /\ Chain(data_sender_buf'[p], p, s, d, x, ReadAll(p, s)')
        /\ x = Sent(p, s)' \/ (Lossy(p, s)' /\ x > 0 /\ x <= Sent(p, s)')
    BY <1>4, <2>2
  <2> QED
    BY <2>3, <2>4 DEF Whole
<1> QED
    BY <1>2, <1>3, <1>5 DEF OnWay

(* An event loop takes an event of a session that is already served.       *)
LEMMA FlowTakes ==
    ASSUME TypeOK, TypeOK', TasksInv, LinkInv, FreshInv, FramesInv, ConnectInv,
           NEW e \in Ends, EventLoop(e), NEW s \in Sids, NEW p \in Peers(e), Serves(LinkOf(e, p), s), Flow(e, p, s)
    PROVE  Flow(e, p, s)'
<1>0. /\ p \in Ends /\ LinkOf(e, p) \in Links /\ (e # Client => LinkOf(e, p) = e) /\ Client \in Ends
      /\ UNCHANGED <<tasks, holding, read, written, why, data_sender_buf, sending>>
    BY PeersProps, LoopCases, Constants
<1>1. Broken(p, LinkOf(e, p)) => Broken(p, LinkOf(e, p))'
    BY BrokenStays
<1>2. pc[e][s] # "none" /\ pc[p][s] # "none"
    BY <1>0, PeersProps, ServedProps
<1>3. PICK b \in Nat : In(e, p, s, b) /\ (Gone(e, s) \/ OnWay(e, p, s, b))
    BY FlowParts
<1>4. /\ ReadAll(p, s) \in Nat /\ Expects(e, s) \in Nat
      /\ rx[e] \in Seq(Events) /\ inbox[e][s] \in Seq(Events)
    BY <1>0, Queues2
<1>5. CASE UNCHANGED pc
  <2>1. /\ ReadAll(p, s)' = ReadAll(p, s) /\ Sent(p, s)' = Sent(p, s)
        /\ Lossy(p, s)' <=> Lossy(p, s)
        /\ Expects(e, s)' = Expects(e, s) /\ (Receiving(e, s)' <=> Receiving(e, s))
    BY <1>0, <1>5, SessionsSame
  <2>2. CASE TakesEvent(e)
    <3>1. rx[e] # <<>> /\ Take(e) /\ ~Numbered(Head(rx[e]), p, s) /\ UNCHANGED <<sessions, inbox>>
      BY <2>2 DEF TakesEvent, Numbered, LinkEvents
    <3>2. OnWay(e, p, s, b) => OnWay(e, p, s, b)'
      BY <1>0, <1>1, <2>1, <3>1, TakeOnWay
    <3>3. In(e, p, s, b)' /\ (Gone(e, s) => Gone(e, s)')
      BY <1>3, <1>5, <2>1, <3>1 DEF In, Gone
    <3> QED
      BY <1>3, <3>2, <3>3, FlowWhole
  <2>3. CASE Clears
    <3>1. e = Client => Gone(e, s)'
      BY <1>2, <1>5, <2>3 DEF Clears, Gone
    <3>2. In(e, p, s, b)'
      BY <1>3, <2>1, <2>3 DEF In, Clears
    <3>3. e # Client => FALSE
      BY <2>3 DEF Clears, EventLoop, ServerOpensMux, ServerDropsMux, ServerDispatches, ServerConnects, linkVars
    <3> QED
      BY <3>1, <3>2, <3>3, FlowWhole
  <2>4. CASE Dispatches(e)
    <3>1. /\ rx[e] # <<>> /\ Take(e) /\ Head(rx[e]) \in Frame /\ Head(rx[e]) \in Events
          /\ Dispatch(e, Head(rx[e])) /\ UNCHANGED sessions
      BY <2>4, Kinds DEF Dispatches
    <3>2. PICK a \in Nat : a = IF Numbered(Head(rx[e]), p, s) THEN b + 1 ELSE b
      OBVIOUS
    <3>3. OnWay(e, p, s, b) => OnWay(e, p, s, a)'
      BY <1>0, <1>1, <2>1, <3>1, <3>2, TakeOnWay
    <3>4. Gone(e, s)' <=> Gone(e, s)
      BY <1>5, <2>1, <3>1 DEF Gone
    <3>5. CASE Head(rx[e]).sid # s
      <4>1. ~Numbered(Head(rx[e]), p, s) /\ a = b
        BY <3>2, <3>5 DEF Numbered
      <4>2. inbox'[e][s] = inbox[e][s]
        BY <3>1, <3>5, DispatchProps
      <4>3. In(e, p, s, a)'
        BY <1>3, <2>1, <4>1, <4>2 DEF In
      <4> QED
        BY <1>3, <3>3, <3>4, <4>3, FlowWhole
    <3>6. CASE Head(rx[e]).sid = s /\ Gone(e, s)
      <4>1. inbox'[e][s] = inbox[e][s]
        BY <3>1, <3>6, DispatchProps DEF Gone
      <4>2. In(e, p, s, b)'
        BY <1>3, <2>1, <4>1 DEF In
      <4> QED
        BY <3>4, <3>6, <4>2, FlowWhole
    <3>7. CASE Head(rx[e]).sid = s /\ ~Gone(e, s)
      <4>1. OnWay(e, p, s, b) /\ s \in sessions[e] /\ Receiving(e, s)
        BY <1>2, <1>3, <3>7 DEF Gone
      <4>2. inbox'[e][s] = Append(inbox[e][s], Head(rx[e]))
        BY <3>1, <3>7, <4>1, DispatchProps
      <4>3. Starts(rx[e], p, s, b, ReadAll(p, s))
        BY <4>1 DEF OnWay
      <4>4. /\ Numbered(Head(rx[e]), p, s) => Head(rx[e]).n = b
            /\ ClosesIt(Head(rx[e]), p, s) => ReadAll(p, s) < b
        BY <1>4, <3>1, <4>3, StartsHead
      <4>5. Chain(inbox[e][s], p, s, Expects(e, s), b, ReadAll(p, s))
        BY <1>3 DEF In
      <4>6. Chain(Append(inbox[e][s], Head(rx[e])), p, s, Expects(e, s), a, ReadAll(p, s))
        BY <1>4, <3>1, <3>2, <4>4, <4>5, ChainAppend
      <4>7. In(e, p, s, a)'
        BY <2>1, <4>2, <4>6 DEF In
      <4> QED
        BY <3>3, <4>1, <4>7, FlowWhole
    <3> QED
      BY <3>5, <3>6, <3>7
  <2> QED
    <3>1. CASE e \in Links /\ ServerConnects(e)
      <4>1. PICK t \in Sids : pc'[e][t] = "dialing" /\ \A m \in Links : ~Serves(m, t)
        BY <3>1, ConnectsProps
      <4> QED
        BY <1>5, <3>1, <4>1 DEF Serves
    <3> QED
      BY <2>2, <2>3, <2>4, <3>1, LoopCases
<1>6. CASE e \in Links /\ ServerConnects(e)
  <2>1. PICK t \in Sids :
            /\ rx[e] # <<>> /\ Take(e) /\ Head(rx[e]) \in Frame /\ Head(rx[e]).type = "Connect"
            /\ \A m \in Links : ~Serves(m, t)
            /\ UNCHANGED inbox
            /\ \A x \in Ends, u \in Sids : x # e \/ u # t =>
                  UNCHANGED pc[x][u] /\ (u \in sessions'[x] <=> u \in sessions[x])
    BY <1>6, ConnectsProps
  <2>2. t # s
    BY <1>0, <2>1
  <2>3. UNCHANGED <<pc[p][s], pc[e][s]>> /\ (s \in sessions'[e] <=> s \in sessions[e])
    BY <1>0, <2>1, <2>2
  <2>4. /\ ReadAll(p, s)' = ReadAll(p, s) /\ Sent(p, s)' = Sent(p, s)
        /\ Lossy(p, s)' <=> Lossy(p, s)
        /\ Expects(e, s)' = Expects(e, s) /\ (Gone(e, s)' <=> Gone(e, s))
    BY <1>0, <2>3 DEF ReadAll, Sent, Lossy, Active, Expects, Gone, Receiving
  <2>5. ~Numbered(Head(rx[e]), p, s)
    BY <2>1 DEF Numbered
  <2>6. OnWay(e, p, s, b) => OnWay(e, p, s, b)'
    BY <1>0, <1>1, <2>1, <2>4, <2>5, TakeOnWay
  <2>7. In(e, p, s, b)'
    BY <1>3, <2>1, <2>4 DEF In
  <2> QED
    BY <1>3, <2>4, <2>6, <2>7, FlowWhole
<1> QED
    BY <1>5, <1>6, LoopCases DEF Dispatches, TakesEvent, Clears

(* A session that no link serves has no frames on the way, but its CONNECT. *)
LEMMA NothingOnWay ==
    ASSUME TypeOK, FramesInv, NEW s \in Sids, \A l \in Links : ~Serves(l, s), NEW e \in Ends, NEW p \in Ends
    PROVE  /\ Silent(rx[e], p, s) /\ Silent(inbox[e][s], p, s)
           /\ Silent(Pending(p), p, s) /\ Silent(data_sender_buf[p], p, s)
<1>1. \A f \in Frame : Sound(f) => ~Numbered(f, p, s) /\ ~ClosesIt(f, p, s)
  <2>1. \A f : Numbered(f, p, s) \/ ClosesIt(f, p, s) => f.type # "Connect" /\ f.sid = s /\ f.from = p
    BY DEF Numbered, ClosesIt
  <2>2. p # Client => pc[p][s] = "none"
    BY Constants DEF Serves
  <2> QED
    BY <2>1, <2>2 DEF Sound, Active
<1>2. \A f \in Events : f.type \notin FrameTypes => ~Numbered(f, p, s) /\ ~ClosesIt(f, p, s)
    BY DEF Numbered, ClosesIt, FrameTypes
<1>3. \A f \in Elems(rx[e]) \cup Elems(inbox[e][s]) \cup Queued(p) : ~Numbered(f, p, s) /\ ~ClosesIt(f, p, s)
  <2>1. Elems(rx[e]) \cup Elems(inbox[e][s]) \cup Queued(p) \subseteq Events
    BY ElemTypes, Kinds
  <2>2. \A f \in Elems(rx[e]) \cup Elems(inbox[e][s]) \cup Queued(p) : f.type \in FrameTypes => f \in Frame /\ Sound(f)
    BY <2>1, Kinds DEF FramesInv, Queued
  <2> QED
    BY <1>1, <1>2, <2>1, <2>2
<1> QED
    BY <1>3 DEF Silent, Elems, Queued

LEMMA FlowServed ==
    ASSUME TypeOK, TypeOK', TasksInv, FramesInv, ConnectInv, NEW l \in Links, ServerConnects(l),
           NEW s \in Sids, ~Serves(l, s), Serves(l, s)'
    PROVE  Flow(Client, l, s)' /\ Flow(l, Client, s)'
<1>0. l \in Ends /\ Client \in Ends /\ l # Client
    BY Constants
<1>1. /\ rx[l] # <<>> /\ Take(l) /\ Asks(rx[l], s) /\ \A m \in Links : ~Serves(m, s)
      /\ pc'[l][s] = "dialing" /\ pc'[Client][s] = pc[Client][s]
      /\ s \in sessions'[Client] <=> s \in sessions[Client]
      /\ UNCHANGED <<tasks, holding, read, written, why, inbox, data_sender_buf, sending>>
  <2>1. PICK t \in Sids :
            /\ rx[l] # <<>> /\ Take(l) /\ Asks(rx[l], t) /\ \A m \in Links : ~Serves(m, t)
            /\ pc'[l][t] = "dialing"
            /\ UNCHANGED <<tasks, holding, read, written, why, inbox, data_sender_buf, sending>>
            /\ \A x \in Ends, u \in Sids : x # l \/ u # t =>
                  UNCHANGED pc[x][u] /\ (u \in sessions'[x] <=> u \in sessions[x])
    BY ConnectsProps
  <2>2. t = s
    BY <1>0, <2>1 DEF Serves
  <2> QED
    BY <1>0, <2>1, <2>2
<1>2. /\ Silent(rx[Client], l, s) /\ Silent(inbox[Client][s], l, s)
      /\ Silent(Pending(l), l, s) /\ Silent(data_sender_buf[l], l, s)
      /\ Silent(rx[l], Client, s) /\ Silent(inbox[l][s], Client, s)
      /\ Silent(Pending(Client), Client, s) /\ Silent(data_sender_buf[Client], Client, s)
    BY <1>0, <1>1, NothingOnWay
<1>3. /\ rx'[Client] = rx[Client] /\ rx'[l] = Tail(rx[l])
      /\ Pending(l)' = Pending(l) /\ Pending(Client)' = Pending(Client)
      /\ \A i \in 1..Len(rx'[l]) : rx'[l][i] = rx[l][i + 1] /\ i + 1 \in 1..Len(rx[l])
    BY <1>0, <1>1, TakeProps DEF Pending
<1>4. Silent(rx'[l], Client, s)
    BY <1>2, <1>3 DEF Silent
<1>5. /\ pc[Client][s] \in {"waiting", "ended"}
      /\ tasks[Client][s] = {} /\ read[Client][s] = 0 /\ ~holding[Client][s]
      /\ pc[l][s] = "none" /\ read[l][s] = 0 /\ ~holding[l][s] /\ written[l][s] = <<>>
  <2>1. pc[Client][s] \notin {"none", "accepted"}
    BY <1>1 DEF ConnectInv, Asked
  <2>2. /\ pc[Client][s] # "dialing" /\ pc[Client][s] \notin {"relay", "closing", "dropping"}
        /\ tasks[Client][s] = {} /\ read[Client][s] = 0
    BY <1>1 DEF TasksInv
  <2>3. pc[Client][s] \in Pcs
    BY <1>0 DEF TypeOK, Pcs
  <2>4. pc[l][s] = "none"
    BY DEF Serves
  <2>5. /\ \A e \in Ends : holding[e][s] => Reader \in tasks[e][s]
        /\ tasks[l][s] = {} /\ read[l][s] = 0 /\ written[l][s] = <<>>
    BY <1>0, <2>4 DEF TasksInv, Active
  <2> QED
    BY <1>0, <2>1, <2>2, <2>3, <2>4, <2>5 DEF Pcs
<1>6. /\ \A e \in Ends : ReadAll(e, s)' \in Nat
      /\ Expects(Client, s)' \in Nat
  <2>1. \A e \in Ends : read'[e][s] \in Nat /\ written'[e][s] \in Seq(Frame)
    BY DEF TypeOK
  <2>2. Len(written'[Client][s]) \in Nat
    BY <1>0, <2>1, LenProperties
  <2>3. \A e \in Ends : ReadAll(e, s)' \in Nat
    BY <2>1 DEF ReadAll
  <2>4. Expects(Client, s)' \in Nat
    BY <2>2 DEF Expects
  <2> QED
    BY <2>3, <2>4
<1>7. Flow(Client, l, s)'
  <2>1. PICK b \in Nat : b = Expects(Client, s)'
    BY <1>6
  <2>2. In(Client, l, s, b)'
    BY <1>0, <1>1, <1>2, <1>6, <2>1, SilentChain DEF In
  <2>3. CASE pc[Client][s] = "waiting"
    <3>1. b = 0 /\ Sent(l, s)' = 0
      BY <1>1, <2>1, <2>3 DEF Expects, Sent
    <3>2. /\ Chain(rx'[Client], l, s, 0, 0, ReadAll(l, s)') /\ Starts(rx'[Client], l, s, 0, ReadAll(l, s)')
          /\ Chain(Pending(l)', l, s, 0, 0, ReadAll(l, s)')
          /\ Chain(data_sender_buf'[l], l, s, 0, 0, ReadAll(l, s)')
      <4>1. ReadAll(l, s)' \in Nat /\ data_sender_buf'[l] = data_sender_buf[l]
        BY <1>0, <1>1, <1>6
      <4> QED
        BY <1>2, <1>3, <4>1, SilentChain
    <3>3. Whole(Client, l, s, 0)'
      BY <3>1, <3>2 DEF Whole
    <3>4. OnWay(Client, l, s, b)'
      BY <3>1, <3>2, <3>3 DEF OnWay
    <3> QED
      BY <2>2, <3>4, FlowWhole
  <2>4. CASE pc[Client][s] = "ended"
    <3>1. Gone(Client, s)'
      BY <1>1, <1>5, <2>4 DEF Gone, Receiving
    <3> QED
      BY <2>2, <3>1, FlowWhole
  <2> QED
    BY <1>5, <2>3, <2>4
<1>8. Flow(l, Client, s)'
  <2>1. Expects(l, s)' = 1 /\ Sent(Client, s)' = 1
    BY <1>0, <1>1, <1>5 DEF Expects, Sent
  <2>2. In(l, Client, s, 1)'
    BY <1>0, <1>1, <1>2, <1>6, <2>1, SilentChain DEF In
  <2>3. /\ Chain(rx'[l], Client, s, 1, 1, ReadAll(Client, s)') /\ Starts(rx'[l], Client, s, 1, ReadAll(Client, s)')
        /\ Chain(Pending(Client)', Client, s, 1, 1, ReadAll(Client, s)')
        /\ Chain(data_sender_buf'[Client], Client, s, 1, 1, ReadAll(Client, s)')
    <3>1. ReadAll(Client, s)' \in Nat /\ data_sender_buf'[Client] = data_sender_buf[Client]
      BY <1>0, <1>1, <1>6
    <3> QED
      BY <1>2, <1>3, <1>4, <3>1, SilentChain
  <2>4. Whole(l, Client, s, 1)'
    BY <2>1, <2>3 DEF Whole
  <2>5. OnWay(l, Client, s, 1)'
    BY <2>3, <2>4 DEF OnWay
  <2> QED
    BY <2>2, <2>5, FlowWhole
<1> QED
    BY <1>7, <1>8

LEMMA FlowLoop ==
    ASSUME TypeOK, TypeOK', TasksInv, LinkInv, FreshInv, FramesInv, ConnectInv, FlowInv,
           NEW x \in Ends, EventLoop(x)
    PROVE  FlowInv'
<1> SUFFICES ASSUME NEW e \in Ends, NEW s \in Sids, NEW p \in Peers(e), Joined(e, p, s)'
             PROVE  Flow(e, p, s)'
    BY DEF FlowInv, Peers
<1>j. /\ pc'[LinkOf(e, p)][s] # "none" /\ LinkOf(e, p) \notin lossy'
      /\ Serves(LinkOf(e, p), s) => Joined(e, p, s)
  <2>1. Next
    BY NextSteps
  <2> QED
    BY <2>1, JoinedBefore
<1>0. /\ p \in Ends /\ p # e /\ LinkOf(e, p) \in Links /\ LinkOf(e, p)' = LinkOf(e, p)
      /\ e = Client => p \in Links /\ LinkOf(e, p) = p
      /\ e # Client => e \in Links /\ p = Client /\ LinkOf(e, p) = e
      /\ UNCHANGED <<tasks, holding, read, written, why, data_sender_buf, sending>>
    BY PeersProps, LoopCases DEF LinkOf
<1>1. CASE ~Serves(LinkOf(e, p), s)
  <2>1. x \in Links /\ ServerConnects(x)
    BY <1>0, <1>1, <1>j, LoopCases DEF Serves, Dispatches, TakesEvent, Clears
  <2>2. LinkOf(e, p) = x
    <3>1. PICK t \in Sids : \A y \in Ends, u \in Sids : y # x \/ u # t => UNCHANGED pc[y][u]
      BY <2>1, ConnectsProps
    <3> QED
      BY <1>0, <1>1, <1>j, <3>1, Constants DEF Serves
  <2>3. Flow(Client, x, s)' /\ Flow(x, Client, s)'
    BY <1>0, <1>1, <1>j, <2>1, <2>2, FlowServed DEF Serves
  <2> QED
    BY <1>0, <2>2, <2>3
<1>2. CASE Serves(LinkOf(e, p), s) /\ e = x
  <2>1. Flow(e, p, s)
    BY <1>j, <1>2 DEF FlowInv
  <2> QED
    BY <1>2, <2>1, FlowTakes
<1>3. CASE Serves(LinkOf(e, p), s) /\ e # x
  <2>1. PICK b \in Nat : In(e, p, s, b) /\ (Gone(e, s) \/ OnWay(e, p, s, b))
    BY <1>j, <1>3, FlowParts DEF FlowInv
  <2>2. Broken(p, LinkOf(e, p)) => Broken(p, LinkOf(e, p))'
    BY <1>3, BrokenStays
  <2>3. /\ rx'[e] = rx[e] /\ inbox'[e][s] = inbox[e][s]
        /\ UNCHANGED <<pc[e][s], pc[p][s]>>
        /\ s \in sessions'[e] <=> s \in sessions[e]
    <3>1. CASE Dispatches(x)
      <4>1. Head(rx[x]) \in Frame /\ Dispatch(x, Head(rx[x])) /\ rx[x] # <<>> /\ Take(x) /\ UNCHANGED <<pc, sessions>>
        BY <3>1 DEF Dispatches
      <4>2. inbox'[e][s] = inbox[e][s]
        BY <1>3, <4>1, DispatchProps
      <4>3. rx'[e] = rx[e]
        BY <1>3, <4>1, TakeProps
      <4> QED
        BY <4>1, <4>2, <4>3
    <3>2. CASE TakesEvent(x)
      <4>1. rx'[e] = rx[e]
        BY <1>3, <3>2, TakeProps DEF TakesEvent
      <4> QED
        BY <3>2, <4>1 DEF TakesEvent
    <3>3. CASE x = Client /\ Clears
      BY <1>3, <3>3 DEF Clears
    <3>4. CASE x \in Links /\ ServerConnects(x)
      <4>1. PICK t \in Sids :
                /\ rx[x] # <<>> /\ Take(x) /\ \A m \in Links : ~Serves(m, t)
                /\ UNCHANGED inbox
                /\ \A y \in Ends, u \in Sids : y # x \/ u # t =>
                      UNCHANGED pc[y][u] /\ (u \in sessions'[y] <=> u \in sessions[y])
        BY <3>4, ConnectsProps
      <4>2. t # s
        BY <1>0, <1>3, <4>1
      <4>3. rx'[e] = rx[e]
        BY <1>3, <4>1, TakeProps
      <4> QED
        BY <1>0, <4>1, <4>2, <4>3
    <3> QED
      BY <3>1, <3>2, <3>3, <3>4, LoopCases
  <2>4. /\ ReadAll(p, s)' = ReadAll(p, s) /\ Sent(p, s)' = Sent(p, s)
        /\ Lossy(p, s)' <=> Lossy(p, s)
        /\ Expects(e, s)' = Expects(e, s) /\ (Gone(e, s)' <=> Gone(e, s))
        /\ Pending(p)' = Pending(p)
    BY <1>0, <2>3 DEF ReadAll, Sent, Lossy, Active, Expects, Gone, Receiving, Pending
  <2>5. In(e, p, s, b)'
    BY <2>1, <2>3, <2>4 DEF In
  <2>6. Whole(e, p, s, b) => Whole(e, p, s, b)'
    BY <1>0, <2>3, <2>4 DEF Whole
  <2>7. OnWay(e, p, s, b) => OnWay(e, p, s, b)'
    BY <2>2, <2>3, <2>4, <2>6 DEF OnWay
  <2> QED
    BY <2>1, <2>4, <2>5, <2>7, FlowWhole
<1> QED
    BY <1>1, <1>2, <1>3

LEMMA FlowStep ==
    ASSUME TypeOK, TypeOK', TasksInv, LinkInv, FreshInv, FramesInv, ConnectInv, FlowInv, [Next]_vars
    PROVE  FlowInv'
<1>1. CASE UNCHANGED vars
    BY <1>1 DEF vars, linkVars, muxVars, sessionVars, relayVars, acceptVars, FlowInv, Joined, Flow, LinkOf, Peers,
                Expects, ReadAll, Gone, Broken, IsUp, Lossy, Sent, Pending, Receiving, Active
<1> QED
    BY <1>1, NextSteps, FlowSession, FlowLink, FlowSender, FlowLoop

LEMMA FlowInit == Init => FlowInv
    BY Constants, PeersProps DEF Init, EachSession, FlowInv, Joined

-----------------------------------------------------------------------------
(* What was written came from the peer, in order.                          *)
Wrote(f, e, s, i) ==
    /\ f.type = "Data" /\ f.sid = s /\ f.from \in Peers(e) /\ Serves(LinkOf(e, f.from), s)
    /\ LinkOf(e, f.from) \notin lossy => f.n = i /\ i < Sent(f.from, s)

LEMMA WroteStays ==
    ASSUME TypeOK, TypeOK', TasksInv, ConnectInv, AllGrow, lossy \subseteq lossy',
           NEW e \in Ends, NEW s \in Sids, NEW f,
           NEW i \in Nat, Wrote(f, e, s, i)
    PROVE  Wrote(f, e, s, i)'
<1>1. PICK p \in Peers(e) : p = f.from
    BY DEF Wrote
<1>2. /\ p \in Ends /\ LinkOf(e, p) \in Links /\ LinkOf(e, p) \in Ends /\ LinkOf(e, p)' = LinkOf(e, p)
    BY PeersProps, Constants DEF LinkOf
<1>3. Serves(LinkOf(e, p), s) /\ (LinkOf(e, p) \notin lossy => f.n = i /\ i < Sent(p, s))
    BY <1>1 DEF Wrote
<1>4. pc[p][s] # "none"
    BY <1>2, <1>3, PeersProps, ServedProps
<1>5. Serves(LinkOf(e, p), s)'
    BY <1>2, <1>3 DEF AllGrow, Grows, Serves
<1>6. Sent(p, s)' >= Sent(p, s) /\ Sent(p, s) \in Nat
    BY <1>2, <1>4, Queues2 DEF AllGrow, Grows
<1>7. Sent(p, s)' \in Nat
  <2>1. read'[p][s] \in Nat
    BY <1>2 DEF TypeOK
  <2> QED
    BY <2>1 DEF Sent
<1>8. LinkOf(e, p) \notin lossy' => f.n = i /\ i < Sent(p, s)'
    BY <1>3, <1>6, <1>7
<1>9. Peers(e)' = Peers(e)
    BY DEF Peers
<1> QED
    BY <1>1, <1>2, <1>5, <1>8, <1>9 DEF Wrote

(* The head of the inbox is the datum that comes next.                     *)
LEMMA WritesNext ==
    ASSUME TypeOK, TasksInv, FramesInv, ConnectInv, FlowInv, NEW e \in Ends, NEW s \in Sids, WritesOne(e, s)
    PROVE  Wrote(Head(inbox[e][s]), e, s, Len(written[e][s]) + 1)
<1>1. /\ Writer \in tasks[e][s] /\ inbox[e][s] # <<>> /\ Head(inbox[e][s]).type = "Data"
    BY DEF WritesOne
<1>2. Active(e, s)
    BY <1>1 DEF TasksInv
<1>3. PICK p \in Peers(e) : Serves(LinkOf(e, p), s)
  <2>1. CASE e = Client
    BY <1>1, <2>1 DEF TasksInv, Peers, LinkOf
  <2>2. CASE e # Client
    BY <1>2, <2>2 DEF Active, Serves, Peers, LinkOf
  <2> QED
    BY <2>1, <2>2
<1>4. /\ p \in Ends
      /\ Head(inbox[e][s]).from = p /\ Head(inbox[e][s]).sid = s /\ Sound(Head(inbox[e][s]))
      /\ inbox[e][s] \in Seq(Events) /\ ReadAll(p, s) \in Nat /\ Expects(e, s) \in Nat
    BY <1>1, <1>3, PeersProps, HeadIsPeers, Queues2
<1>8. LinkOf(e, p) \notin lossy => Head(inbox[e][s]).n = Expects(e, s)
  <2> SUFFICES ASSUME LinkOf(e, p) \notin lossy PROVE Head(inbox[e][s]).n = Expects(e, s)
    OBVIOUS
  <2>1. PICK b \in Nat : Chain(inbox[e][s], p, s, Expects(e, s), b, ReadAll(p, s))
    BY <1>3, FlowParts DEF FlowInv, In, Joined, Serves
  <2>2. Starts(inbox[e][s], p, s, Expects(e, s), ReadAll(p, s))
    BY <2>1 DEF Chain
  <2>3. Numbered(Head(inbox[e][s]), p, s)
    BY <1>1, <1>4 DEF Numbered
  <2> QED
    BY <1>1, <1>4, <2>2, <2>3, StartsHead
<1>9. Expects(e, s) = Len(written[e][s]) + 1
    BY <1>2 DEF Expects, Active
<1>10. Head(inbox[e][s]).n < Sent(p, s)
    BY <1>1, <1>4 DEF Sound
<1> QED
    BY <1>1, <1>3, <1>4, <1>8, <1>9, <1>10 DEF Wrote

LEMMA WrittenParts ==
    WrittenInv <=> \A e \in Ends, s \in Sids : \A i \in 1..Len(written[e][s]) : Wrote(written[e][s][i], e, s, i)
    BY DEF WrittenInv, Wrote

(* What a step may have changed of a session's records.                    *)
Stands(e, s) == UNCHANGED <<written[e][s], why[e][s], read[e][s]>>

LEMMA StepMoves ==
    ASSUME TypeOK, TasksInv, [Next]_vars
    PROVE  \A e \in Ends, s \in Sids : Stands(e, s) \/ (Moves(e, s) /\ Elsewhere(e, s))
<1>1. CASE UNCHANGED vars
    BY <1>1 DEF Stands, vars, sessionVars, relayVars
<1>2. CASE LinkComesUp \/ LinkGoesDown \/ \E e \in Ends : Sender(e)
    BY <1>2, LinkFrame DEF Stands
<1>3. CASE \E e \in Ends : EventLoop(e)
    BY <1>3, LoopFrame DEF Stands
<1>4. CASE SessionSteps
  <2>1. ASSUME NEW e \in Ends, NEW s \in Sids, Same(e, s) PROVE Stands(e, s)
    BY <2>1 DEF Same, Rest, Stands
  <2>2. ASSUME NEW x \in Ends, NEW t \in Sids, Moves(x, t), Elsewhere(x, t), NEW e \in Ends, NEW s \in Sids
        PROVE  Stands(e, s) \/ (Moves(e, s) /\ Elsewhere(e, s))
    BY <2>1, <2>2 DEF Elsewhere
  <2> QED
    BY <1>4, <2>1, <2>2, SessionMoves
<1> QED
    BY <1>1, <1>2, <1>3, <1>4, NextSteps

LEMMA MovesWritten ==
    ASSUME NEW e \in Ends, NEW s \in Sids, Moves(e, s)
    PROVE  UNCHANGED written[e][s] \/ WritesOne(e, s)
    BY DEF Moves, Registers, Fails, AsksFor, IsAnswered, Skips, TimesOut, Answers, Reads, SendsRead, EndsTask,
           SendsClose, Unregisters, Rest

LEMMA WrittenStep ==
    ASSUME TypeOK, TypeOK', TasksInv, FramesInv, ConnectInv, FlowInv, WrittenInv, [Next]_vars
    PROVE  WrittenInv'
<1>1. AllGrow /\ lossy \subseteq lossy'
    BY GrowsStep, LossyGrows DEF vars, linkVars
<1>2. SUFFICES ASSUME NEW e \in Ends, NEW s \in Sids, NEW i \in 1..Len(written'[e][s]), NEW f, f = written'[e][s][i]
               PROVE  Wrote(f, e, s, i)'
    BY DEF WrittenInv, Wrote
<1>3. i \in Nat
    OBVIOUS
<1>4. SUFFICES Wrote(f, e, s, i)
    BY <1>1, <1>3, WroteStays
<1>5. CASE UNCHANGED written[e][s]
    BY <1>2, <1>5, WrittenParts
<1>6. CASE WritesOne(e, s)
  <2>1. Wrote(Head(inbox[e][s]), e, s, Len(written[e][s]) + 1)
    BY <1>6, WritesNext
  <2>2. /\ written[e][s] \in Seq(Frame) /\ inbox[e][s] \in Seq(Frame) /\ inbox[e][s] # <<>>
        /\ written'[e][s] = Append(written[e][s], Head(inbox[e][s]))
    BY <1>6 DEF WritesOne, TypeOK
  <2>3. Head(inbox[e][s]) \in Frame
    BY <2>2
  <2>4. /\ Len(written[e][s]) \in Nat /\ Len(written'[e][s]) = Len(written[e][s]) + 1
        /\ \A j \in 1..Len(written[e][s]) : written'[e][s][j] = written[e][s][j]
        /\ written'[e][s][Len(written[e][s]) + 1] = Head(inbox[e][s])
    BY <2>2, <2>3, AppendProperties, LenProperties
  <2>5. CASE i = Len(written[e][s]) + 1
    BY <1>2, <2>1, <2>4, <2>5
  <2>6. CASE i # Len(written[e][s]) + 1
    <3>1. i \in 1..Len(written[e][s])
      BY <2>4, <2>6
    <3> QED
      BY <1>2, <2>4, <3>1, WrittenParts
  <2> QED
    BY <2>5, <2>6
<1> QED
    BY <1>5, <1>6, StepMoves, MovesWritten DEF Stands

LEMMA WrittenInit == Init => WrittenInv
    BY DEF Init, EachSession, WrittenInv

-----------------------------------------------------------------------------
(* A relay that the peer's CLOSE ended has all the peer read.              *)
LEMMA TheOnePeer ==
    ASSUME TypeOK, TasksInv, ConnectInv, NEW e \in Ends, NEW s \in Sids,
           NEW p \in Peers(e), Serves(LinkOf(e, p), s), NEW o \in Peers(e), Serves(LinkOf(e, o), s)
    PROVE  o = p
    BY PeersProps, ServedProps DEF Peers

LEMMA RelayIsServed ==
    ASSUME TypeOK, TasksInv, NEW e \in Ends, NEW s \in Sids, tasks[e][s] # {}
    PROVE  Active(e, s) /\ \E p \in Peers(e) : Serves(LinkOf(e, p), s)
<1>1. Active(e, s)
    BY DEF TasksInv
<1>2. CASE e = Client
    BY <1>1, <1>2 DEF TasksInv, Peers, LinkOf
<1>3. CASE e # Client
    BY <1>1, <1>3 DEF Active, Serves, Peers, LinkOf
<1> QED
    BY <1>1, <1>2, <1>3

(* What the move that sees the CLOSE finds at its head of the queue.       *)
LEMMA SeesClose ==
    ASSUME TypeOK, TasksInv, FramesInv, ConnectInv, FlowInv, WrittenInv, NEW e \in Ends, NEW s \in Sids,
           Writer \in tasks[e][s], inbox[e][s] # <<>>, Head(inbox[e][s]).type \in {"Close", "ConnectErr"}
    PROVE  \E p \in Peers(e) :
              /\ Serves(LinkOf(e, p), s) /\ pc[p][s] \in {"dropping", "ended"}
              /\ why[p][s] = "eof" /\ LinkOf(e, p) \notin lossy => Len(written[e][s]) = read[p][s]
<1>1. PICK p \in Peers(e) : Serves(LinkOf(e, p), s)
    BY RelayIsServed
<1>2. /\ p \in Ends
      /\ Head(inbox[e][s]).from = p /\ Head(inbox[e][s]).sid = s /\ Sound(Head(inbox[e][s]))
      /\ inbox[e][s] \in Seq(Events) /\ ReadAll(p, s) \in Nat /\ Expects(e, s) \in Nat /\ read[p][s] \in Nat
    BY <1>1, PeersProps, HeadIsPeers, Queues2
<1>3. pc[p][s] \in {"dropping", "ended"}
    BY <1>2 DEF Sound
<1>4. ASSUME LinkOf(e, p) \notin lossy, why[p][s] = "eof" PROVE Len(written[e][s]) = read[p][s]
  <2>4. PICK b \in Nat : Chain(inbox[e][s], p, s, Expects(e, s), b, ReadAll(p, s))
    BY <1>1, <1>4, FlowParts DEF FlowInv, In, Joined, Serves
  <2>5. Starts(inbox[e][s], p, s, Expects(e, s), ReadAll(p, s))
    BY <2>4 DEF Chain
  <2>6. /\ Numbered(Head(inbox[e][s]), p, s) => Head(inbox[e][s]).n = Expects(e, s)
        /\ ClosesIt(Head(inbox[e][s]), p, s) => ReadAll(p, s) < Expects(e, s)
    BY <1>2, <2>5, StartsHead
  <2>7. Len(written[e][s]) \in Nat
    <3>1. written[e][s] \in Seq(Frame)
      BY DEF TypeOK
    <3> QED
      BY <3>1, LenProperties
  <2>8. Expects(e, s) = Len(written[e][s]) + 1
    BY RelayIsServed DEF Expects, Active
  <2>9. ReadAll(p, s) < Expects(e, s)
    <3>1. CASE Head(inbox[e][s]).type = "Close"
      BY <1>2, <2>6, <3>1 DEF ClosesIt
    <3>2. CASE Head(inbox[e][s]).type = "ConnectErr"
      <4>1. Head(inbox[e][s]).n = 0 /\ Head(inbox[e][s]).n = Expects(e, s)
        BY <1>2, <2>6, <3>2 DEF Numbered, Sound
      <4> QED
        BY <2>7, <2>8, <4>1
    <3> QED
      BY <3>1, <3>2
  <2>10. Len(written[e][s]) <= read[p][s]
    <3>1. CASE Len(written[e][s]) = 0
      BY <1>2, <3>1
    <3>2. CASE Len(written[e][s]) # 0
      <4>1. Len(written[e][s]) \in 1..Len(written[e][s])
        BY <2>7, <3>2
      <4>2. PICK f : f = written[e][s][Len(written[e][s])] /\ Wrote(f, e, s, Len(written[e][s]))
        BY <4>1, WrittenParts
      <4>3. f.from = p
        BY <1>1, <4>2, TheOnePeer DEF Wrote
      <4>4. Len(written[e][s]) < Sent(p, s)
        BY <1>4, <4>2, <4>3 DEF Wrote
      <4> QED
        BY <1>2, <2>7, <4>4 DEF Sent
    <3> QED
      BY <3>1, <3>2
  <2> QED
    BY <1>2, <1>4, <2>7, <2>8, <2>9, <2>10 DEF ReadAll
<1> QED
    BY <1>1, <1>3, <1>4

LEMMA MovesWhy ==
    ASSUME TypeOK, TasksInv, NEW e \in Ends, NEW s \in Sids, Moves(e, s), why[e][s] # "closed", why'[e][s] = "closed"
    PROVE  /\ Writer \in tasks[e][s] /\ inbox[e][s] # <<>> /\ Head(inbox[e][s]).type \in {"Close", "ConnectErr"}
           /\ UNCHANGED written[e][s]
<1>1. EndsTask(e, s)
    BY DEF Moves, Registers, Fails, AsksFor, IsAnswered, Skips, TimesOut, Answers, Reads, SendsRead, WritesOne,
           SendsClose, Unregisters
<1> QED
    BY <1>1 DEF EndsTask, Rest

LEMMA MovesFinished ==
    ASSUME TypeOK, TasksInv, NEW p \in Ends, NEW s \in Sids, Moves(p, s), pc[p][s] \in {"dropping", "ended"}
    PROVE  UNCHANGED why[p][s] /\ (why[p][s] = "eof" => UNCHANGED read[p][s])
<1>1. why[p][s] = "eof" => Reader \notin tasks[p][s]
    BY DEF TasksInv
<1>2. UNCHANGED why[p][s]
    BY DEF Moves, Registers, Fails, AsksFor, IsAnswered, Skips, TimesOut, Answers, Reads, SendsRead, WritesOne, EndsTask,
           SendsClose, Unregisters
<1>3. UNCHANGED read[p][s] \/ Reader \in tasks[p][s]
    BY DEF Moves, Registers, Fails, AsksFor, IsAnswered, Skips, TimesOut, Answers, Reads, SendsRead, WritesOne, EndsTask,
           SendsClose, Unregisters, Rest
<1> QED
    BY <1>1, <1>2, <1>3

ClosedBy(e, s) == \E p \in Peers(e) : Serves(LinkOf(e, p), s) /\ pc[p][s] \in {"dropping", "ended"}

LEMMA ClosedByStays ==
    ASSUME AllGrow, NEW e \in Ends, NEW s \in Sids, ClosedBy(e, s)
    PROVE  ClosedBy(e, s)'
<1>1. PICK p \in Peers(e) : Serves(LinkOf(e, p), s) /\ pc[p][s] \in {"dropping", "ended"}
    BY DEF ClosedBy
<1>2. p \in Ends /\ LinkOf(e, p) \in Ends /\ LinkOf(e, p)' = LinkOf(e, p) /\ Peers(e)' = Peers(e)
    BY PeersProps, Constants DEF LinkOf, Peers
<1>3. Serves(LinkOf(e, p), s)' /\ pc'[p][s] \in {"dropping", "ended"}
    BY <1>1, <1>2 DEF AllGrow, Grows, Serves
<1> QED
    BY <1>2, <1>3 DEF ClosedBy

LEMMA ClosedStep ==
    ASSUME TypeOK, TypeOK', TasksInv, TasksInv', FramesInv, ConnectInv, ConnectInv', FlowInv, WrittenInv, ClosedInv,
           [Next]_vars
    PROVE  ClosedInv'
<1>0. AllGrow /\ lossy \subseteq lossy'
    BY GrowsStep, LossyGrows DEF vars, linkVars
<1>1. ASSUME NEW e \in Ends, NEW s \in Sids, why'[e][s] = "closed"
      PROVE  ClosedBy(e, s)'
  <2>1. CASE why[e][s] = "closed"
    BY <1>0, <2>1, ClosedByStays DEF ClosedInv, ClosedBy
  <2>2. CASE why[e][s] # "closed"
    <3>1. Moves(e, s)
      BY <1>1, <2>2, StepMoves DEF Stands
    <3>2. ClosedBy(e, s)
      BY <1>1, <2>2, <3>1, MovesWhy, SeesClose DEF ClosedBy
    <3> QED
      BY <1>0, <3>2, ClosedByStays
  <2> QED
    BY <2>1, <2>2
<1>2. ASSUME NEW e \in Ends, NEW s \in Sids, NEW p \in Peers(e), Joined(e, p, s)', why'[e][s] = "closed",
             why'[p][s] = "eof"
      PROVE  Len(written'[e][s]) = read'[p][s]
  <2>0. p \in Ends /\ p # e /\ LinkOf(e, p) \notin lossy
    BY <1>0, <1>2, PeersProps DEF Joined, LinkOf
  <2>1. CASE why[e][s] = "closed"
    <3>1. PICK o \in Peers(e) : Serves(LinkOf(e, o), s) /\ pc[o][s] \in {"dropping", "ended"}
      BY <2>1 DEF ClosedInv
    <3>2. o = p
      <4>1. Serves(LinkOf(e, o), s)'
        <5>1. LinkOf(e, o) \in Ends /\ LinkOf(e, o)' = LinkOf(e, o)
          BY PeersProps, Constants DEF LinkOf
        <5> QED
          BY <1>0, <3>1, <5>1 DEF AllGrow, Grows, Serves
      <4>2. Serves(LinkOf(e, p), s)'
        <5>1. Active(e, s)' /\ Active(p, s)'
          BY <1>2, <2>0 DEF TasksInv
        <5> QED
          BY <5>1 DEF Active, Serves, LinkOf
      <4>3. \A m, l \in Links : Serves(m, s)' /\ Serves(l, s)' => m = l
        BY DEF ConnectInv
      <4>4. /\ LinkOf(e, o) \in Links /\ LinkOf(e, p) \in Links
            /\ LinkOf(e, o)' = LinkOf(e, o) /\ LinkOf(e, p)' = LinkOf(e, p)
        BY PeersProps DEF LinkOf
      <4>5. LinkOf(e, o) = LinkOf(e, p)
        BY <4>1, <4>2, <4>3, <4>4 DEF Serves
      <4> QED
        BY <4>5 DEF LinkOf, Peers
    <3>3. UNCHANGED why[p][s] /\ UNCHANGED read[p][s]
      <4>1. CASE Stands(p, s)
        BY <4>1 DEF Stands
      <4>2. CASE Moves(p, s)
        BY <1>2, <2>0, <3>1, <3>2, <4>2, MovesFinished
      <4> QED
        BY <2>0, <4>1, <4>2, StepMoves
    <3>4. UNCHANGED written[e][s]
      <4>1. Writer \notin tasks[e][s]
        BY <2>1 DEF TasksInv
      <4> QED
        BY <4>1, StepMoves, MovesWritten DEF Stands, WritesOne
    <3>5. Len(written[e][s]) = read[p][s]
      BY <1>2, <2>0, <2>1, <3>1, <3>2, <3>3 DEF ClosedInv, CompleteOnClose, Joined, Serves
    <3> QED
      BY <3>3, <3>4, <3>5
  <2>2. CASE why[e][s] # "closed"
    <3>1. Moves(e, s) /\ Elsewhere(e, s)
      BY <1>2, <2>2, StepMoves DEF Stands
    <3>2. UNCHANGED <<pc[p][s], why[p][s], read[p][s]>>
      BY <2>0, <3>1 DEF Elsewhere, Same, Rest
    <3>3. /\ Writer \in tasks[e][s] /\ inbox[e][s] # <<>> /\ Head(inbox[e][s]).type \in {"Close", "ConnectErr"}
          /\ UNCHANGED written[e][s]
      BY <1>2, <2>2, <3>1, MovesWhy
    <3>4. PICK o \in Peers(e) :
              /\ Serves(LinkOf(e, o), s) /\ pc[o][s] \in {"dropping", "ended"}
              /\ why[o][s] = "eof" /\ LinkOf(e, o) \notin lossy => Len(written[e][s]) = read[o][s]
      BY <3>3, SeesClose
    <3>5. Serves(LinkOf(e, p), s)
      <4>1. Active(e, s) /\ Active(p, s)
        BY <1>2, <2>0, <3>2, <3>3, RelayIsServed DEF TasksInv
      <4> QED
        BY <4>1 DEF Active, Serves, LinkOf
    <3>6. o = p
      BY <3>4, <3>5, TheOnePeer
    <3> QED
      BY <1>2, <2>0, <3>2, <3>3, <3>4, <3>6
  <2> QED
    BY <2>1, <2>2
<1>3. CompleteOnClose'
    BY <1>2 DEF CompleteOnClose, Peers, Joined, LinkOf
<1> QED
    BY <1>1, <1>3 DEF ClosedInv, ClosedBy

LEMMA ClosedInit == Init => ClosedInv
    BY DEF Init, EachSession, ClosedInv, CompleteOnClose

-----------------------------------------------------------------------------
LEMMA IInvInit == Init => IInv
    BY TypesInit, LinkInvInit, FreshInit, FramesInit, ConnectInit, TasksInit, FlowInit, WrittenInit, ClosedInit DEF IInv

LEMMA IInvStep ==
    ASSUME IInv, [Next]_vars
    PROVE  IInv'
<1>0. TypeOK /\ LinkInv /\ FreshInv /\ FramesInv /\ ConnectInv /\ TasksInv /\ FlowInv /\ WrittenInv /\ ClosedInv
    BY DEF IInv
<1>1. TypeOK'
    BY <1>0, TypesStep
<1>2. LinkInv' /\ FreshInv'
    BY <1>0, LinkInvStep, FreshStep
<1>3. TasksInv' /\ FramesInv' /\ ConnectInv'
    BY <1>0, <1>1, TasksStep, FramesStep, ConnectStep
<1>4. FlowInv'
    BY <1>0, <1>1, FlowStep
<1>5. WrittenInv'
    BY <1>0, <1>1, WrittenStep
<1>6. ClosedInv'
    BY <1>0, <1>1, <1>3, ClosedStep
<1> QED
    BY <1>1, <1>2, <1>3, <1>4, <1>5, <1>6 DEF IInv

(* The inductive invariant: with any number of links, sessions and reads,  *)
(* and any capacity of the frame channel.                                  *)
THEOREM Invariant == Spec => []IInv
<1>1. IInv /\ [Next]_vars => IInv'
    BY IInvStep
<1> QED
    BY <1>1, IInvInit, PTL DEF Spec

(* Muxes, sessions and relays stay what their types say, and a mux's frame *)
(* channel within its capacity.                                            *)
THEOREM TypeCorrect == Spec => []TypeOK
<1>1. IInv => TypeOK
    BY DEF IInv
<1> QED
    BY <1>1, Invariant, PTL

(* A relay of the client that is registered while the client dispatches    *)
(* talks to a session of the newest link: mux.reset() loses no session of  *)
(* an older one, though it takes two locks and sessions are accepted and   *)
(* registered in between.                                                  *)
THEOREM RelaysAreCurrent == Spec => []RelayOnCurrentLink
<1>1. IInv => RelayOnCurrentLink
    BY DEF IInv, TasksInv, ConnectInv, RelayOnCurrentLink, Serves
<1> QED
    BY <1>1, Invariant, PTL

LEMMA StreamOf ==
    ASSUME TypeOK, TasksInv, ConnectInv, WrittenInv, NEW e \in Ends, NEW s \in Sids, NEW p \in Peers(e),
           Joined(e, p, s)
    PROVE  /\ Len(written[e][s]) <= read[p][s]
           /\ written[e][s] = [i \in 1..Len(written[e][s]) |-> [type |-> "Data", sid |-> s, from |-> p, n |-> i]]
<1>1. /\ written[e][s] \in Seq(Frame) /\ Len(written[e][s]) \in Nat
      /\ written[e][s] \in [1..Len(written[e][s]) -> Frame]
  <2>1. written[e][s] \in Seq(Frame)
    BY DEF TypeOK
  <2> QED
    BY <2>1, LenProperties
<1>2. Serves(LinkOf(e, p), s) /\ LinkOf(e, p) \notin lossy /\ p \in Ends /\ read[p][s] \in Nat
    BY PeersProps DEF Joined, Serves, TypeOK
<1>3. ASSUME NEW i \in 1..Len(written[e][s])
      PROVE  /\ i < Sent(p, s)
             /\ written[e][s][i] = [type |-> "Data", sid |-> s, from |-> p, n |-> i]
  <2>1. PICK f \in Frame : f = written[e][s][i]
    BY <1>1
  <2>2. Wrote(f, e, s, i)
    BY <2>1, WrittenParts
  <2>3. f.from = p
    BY <1>2, <2>2, TheOnePeer DEF Wrote
  <2>4. f.type = "Data" /\ f.sid = s /\ f.from = p /\ f.n = i /\ i < Sent(p, s)
    BY <1>2, <2>2, <2>3 DEF Wrote
  <2> QED
    BY <2>1, <2>4 DEF Frame
<1>4. Len(written[e][s]) <= read[p][s]
  <2>1. CASE Len(written[e][s]) = 0
    BY <1>2, <2>1
  <2>2. CASE Len(written[e][s]) # 0
    <3>1. Len(written[e][s]) \in 1..Len(written[e][s])
      BY <1>1, <2>2
    <3>2. Len(written[e][s]) < Sent(p, s)
      BY <1>3, <3>1
    <3> QED
      BY <1>1, <1>2, <2>2, <3>2 DEF Sent
  <2> QED
    BY <2>1, <2>2
<1>5. written[e][s] = [i \in 1..Len(written[e][s]) |-> [type |-> "Data", sid |-> s, from |-> p, n |-> i]]
    BY <1>1, <1>3
<1> QED
    BY <1>4, <1>5

(* Of a session whose link lost no packet while it was up: what            *)
(* relay_bidirectional_tcp writes to a socket is what the peer's socket    *)
(* gave, from its first read on, with no gap, no repetition and nothing of *)
(* another session or link, although sends fail and links go down.         *)
THEOREM StreamsArePrefixes == Spec => []StreamPrefix
<1>1. IInv => StreamPrefix
    BY StreamOf DEF IInv, StreamPrefix
<1> QED
    BY <1>1, Invariant, PTL

(* A relay that ends on the peer's CLOSE, sent after the peer's socket     *)
(* reached its end, has written all that socket gave, if the session's     *)
(* link lost no packet while it was up.                                    *)
THEOREM ClosedIsComplete == Spec => []CompleteOnClose
<1>1. IInv => CompleteOnClose
    BY DEF IInv, ClosedInv
<1> QED
    BY <1>1, Invariant, PTL

LEMMA NothingLost ==
    ASSUME TypeOK, TasksInv, FramesInv, ConnectInv, FlowInv, NEW e \in Ends, NEW s \in Sids, NEW p \in Peers(e),
           Joined(e, p, s), inbox[e][s] # <<>>
    PROVE  /\ pc[e][s] \in {"accepted", "waiting"} => Head(inbox[e][s]).type \in {"ConnectOk", "ConnectErr"}
           /\ Writer \in tasks[e][s] => Head(inbox[e][s]).type \in {"Data", "Close"}
<1>1. ASSUME pc[e][s] \in {"accepted", "waiting"}
      PROVE  Head(inbox[e][s]).type \in {"ConnectOk", "ConnectErr"}
  <2>1. Expects(e, s) = 0
    BY <1>1 DEF Expects
  <2> QED
    BY <2>1, HeadExpected
<1>2. ASSUME Writer \in tasks[e][s]
      PROVE  Head(inbox[e][s]).type \in {"Data", "Close"}
  <2>1. Active(e, s)
    BY <1>2, RelayIsServed
  <2>2. Expects(e, s) > 0
    <3>1. Len(written[e][s]) \in Nat
      <4>1. written[e][s] \in Seq(Frame)
        BY DEF TypeOK
      <4> QED
        BY <4>1, LenProperties
    <3>2. Expects(e, s) = Len(written[e][s]) + 1
      BY <2>1 DEF Expects, Active
    <3> QED
      BY <3>1, <3>2
  <2> QED
    BY <2>2, HeadExpected
<1> QED
    BY <1>1, <1>2

(* The arms that drop a frame unseen, `_ => continue` while connecting and *)
(* `_ => {}` while relaying, never meet one of a session whose link lost   *)
(* no packet while it was up.                                              *)
THEOREM NoFrameDiscarded == Spec => []NothingDiscarded
<1>1. IInv => NothingDiscarded
    BY NothingLost DEF IInv, NothingDiscarded, InboxHas, Running
<1> QED
    BY <1>1, Invariant, PTL

(* The client's mux is attached to one link after the other, each while it *)
(* is the newest, and to none twice: what LinkService promises.            *)
THEOREM TunnelImplementsLinkService == Spec => ImplementsLinkService
<1>1. IInv /\ [Next]_vars => [LS!Next]_LS!vars
    BY RefinesStep DEF IInv
<1> QED
    BY <1>1, RefinesInit, Invariant, PTL DEF Spec, ImplementsLinkService, LS!Spec
=============================================================================
