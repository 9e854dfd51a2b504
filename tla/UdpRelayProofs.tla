--------------------------- MODULE UdpRelayProofs ---------------------------
(***************************************************************************)
(* UdpRelay for any number of datagrams and any channel capacity: types,   *)
(* the order of datagrams, and that nothing follows the CLOSE.             *)
(***************************************************************************)
EXTENDS UdpRelay, Queues

LEMMA Peers == \A e \in Ends : Peer(e) \in Ends /\ Peer(e) # e /\ Peer(Peer(e)) = e
    BY DEF Ends, Peer

LEMMA Both == "client" \in Ends /\ "server" \in Ends /\ Peer("client") = "server" /\ Peer("server") = "client"
    BY DEF Ends, Peer

(* Putting a frame in one of the queues of the two ends.                   *)
LEMMA Queued1 ==
    ASSUME NEW q \in [Ends -> Seq(Frame)], NEW e \in Ends, NEW f \in Frame
    PROVE  [q EXCEPT ![e] = Append(q[e], f)] \in [Ends -> Seq(Frame)]
    BY AppendProps

LEMMA Taken1 ==
    ASSUME NEW q \in [Ends -> Seq(Frame)], NEW e \in Ends, q[e] # <<>>
    PROVE  [q EXCEPT ![e] = Tail(q[e])] \in [Ends -> Seq(Frame)] /\ Head(q[e]) \in Frame
    BY TailProps

LEMMA ReadBound ==
    ASSUME TypeOK, NEW e \in Ends
    PROVE  read[e] \in Nat /\ read[e] <= Datagrams
<1>1. read["client"] \in Nat /\ read["server"] \in Nat /\ read["client"] + read["server"] <= Datagrams
    BY Both DEF TypeOK
<1> QED
    BY <1>1, UdpRelayAssumption DEF Ends

(* Delivered, lost or dropped, the frame leaves the channel.               *)
LEMMA SenderTakes ==
    ASSUME TypeOK, NEW e \in Ends, Sender(e)
    PROVE  /\ data_sender_buf[e] # <<>>
           /\ data_sender_buf' = [data_sender_buf EXCEPT ![e] = Tail(@)]
           /\ UNCHANGED <<kind, link_up, registered, pc, tasks, inbox, socketVars, closed_after>>
           /\ attached' = attached \/ attached' = [attached EXCEPT ![e] = FALSE]
           /\ close_lost' = close_lost \/ close_lost' = close_lost \cup {e}
           /\ \/ Carries(e) /\ rx' = [rx EXCEPT ![Peer(e)] = Append(@, Head(data_sender_buf[e]))]
              \/ /\ rx' = rx
                 /\ ~Carries(e)' \/ e \in close_lost' \/ Head(data_sender_buf[e]).type # "Close"
<1>1. CASE Delivers(e)
    BY <1>1 DEF Delivers, TakesFrame, Arrives
<1>2. CASE LosesFrame(e)
    BY <1>2 DEF LosesFrame, TakesFrame
<1>3. CASE Fails(e)
    BY <1>3 DEF Fails, TakesFrame, Carries, TypeOK
<1> QED
    BY <1>1, <1>2, <1>3 DEF Sender

-----------------------------------------------------------------------------
(* The types.                                                              *)
LEMMA TypesInit == Init => TypeOK
<1> SUFFICES ASSUME Init PROVE TypeOK
    OBVIOUS
<1>1. Len(<<>>) = 0 /\ \A S : <<>> \in Seq(S)
    BY EmptySeq
<1>2. /\ rx \in [Ends -> Seq(Frame)] /\ data_sender_buf \in [Ends -> Seq(Frame)]
      /\ inbox \in [Ends -> Seq(Frame)] /\ delivered \in [Ends -> Seq(Nat)]
      /\ \A e \in Ends : Len(data_sender_buf[e]) <= Capacity
    BY <1>1, UdpRelayAssumption DEF Init
<1>3. /\ read \in [Ends -> Nat] /\ closed_after \in [Ends -> Nat]
      /\ read["client"] + read["server"] <= Datagrams
      /\ \A e \in Ends : closed_after[e] <= Datagrams
    BY UdpRelayAssumption, Both DEF Init
<1>4. pc \in [Ends -> {"none", "accepted", "waiting", "binding", "relay", "closing",
                       "dropping", "ended"}]
    BY DEF Init
<1> QED
    BY <1>2, <1>3, <1>4 DEF Init, TypeOK

LEMMA TypesSend ==
    ASSUME TypeOK, NEW e \in Ends, NEW type \in Types, NEW n \in Nat, Send(e, type, n)
    PROVE  /\ data_sender_buf' \in [Ends -> Seq(Frame)]
           /\ \A x \in Ends : Len(data_sender_buf'[x]) <= Capacity
<1> DEFINE f == [type |-> type, n |-> n]
<1>1. f \in Frame /\ data_sender_buf \in [Ends -> Seq(Frame)] /\ data_sender_buf[e] \in Seq(Frame)
    BY DEF Frame, TypeOK
<1>2. data_sender_buf' = [data_sender_buf EXCEPT ![e] = Append(data_sender_buf[e], f)]
    BY DEF Send
<1>3. Len(data_sender_buf[e]) < Capacity
    BY DEF Send
<1> HIDE DEF f
<1>4. Len(Append(data_sender_buf[e], f)) = Len(data_sender_buf[e]) + 1 /\ Len(data_sender_buf[e]) \in Nat
    BY <1>1, AppendProps
<1>5. Len(data_sender_buf'[e]) <= Capacity
    BY <1>1, <1>2, <1>3, <1>4, UdpRelayAssumption
<1>6. \A x \in Ends : x # e => data_sender_buf'[x] = data_sender_buf[x]
    BY <1>1, <1>2
<1> QED
    BY <1>1, <1>2, <1>5, <1>6, Queued1 DEF TypeOK

LEMMA TypesLink ==
    ASSUME TypeOK, LinkGoesDown
    PROVE  TypeOK'
<1>1. Signal("LinkClosed") \in Frame
    BY DEF Signal, Frame, Types
<1>2. ASSUME NEW q \in Seq(Frame), NEW k \in 0..Len(q) PROVE Cut(q, k) \in Seq(Frame)
    BY <1>1, PrefixProps, AppendProps DEF Cut
<1>3. rx' \in [Ends -> Seq(Frame)]
  <2>1. PICK i \in 0..Len(rx["client"]), j \in 0..Len(rx["server"]) :
            rx' = [rx EXCEPT !["client"] = Cut(@, i), !["server"] = Cut(@, j)]
    BY DEF LinkGoesDown
  <2>2. rx \in [Ends -> Seq(Frame)]
    BY DEF TypeOK
  <2>3. Cut(rx["client"], i) \in Seq(Frame) /\ Cut(rx["server"], j) \in Seq(Frame)
    BY <1>2, <2>2, Both
  <2> QED
    BY <2>1, <2>2, <2>3, Both
<1> QED
    BY <1>3 DEF LinkGoesDown, TypeOK, linkVars, socketVars

LEMMA TypesLoop ==
    ASSUME TypeOK, NEW e \in Ends, Sender(e) \/ EventLoop(e)
    PROVE  TypeOK'
<1>q. /\ rx \in [Ends -> Seq(Frame)] /\ data_sender_buf \in [Ends -> Seq(Frame)]
      /\ inbox \in [Ends -> Seq(Frame)] /\ Peer(e) \in Ends
    BY Peers DEF TypeOK
<1>1. CASE Sender(e)
  <2>s. /\ data_sender_buf[e] # <<>>
        /\ data_sender_buf' = [data_sender_buf EXCEPT ![e] = Tail(@)]
        /\ UNCHANGED <<kind, link_up, registered, pc, tasks, inbox, socketVars, closed_after>>
        /\ rx' = rx \/ rx' = [rx EXCEPT ![Peer(e)] = Append(@, Head(data_sender_buf[e]))]
    BY <1>1, SenderTakes
  <2>1. /\ data_sender_buf' \in [Ends -> Seq(Frame)] /\ Head(data_sender_buf[e]) \in Frame
        /\ Len(data_sender_buf'[e]) <= Capacity
    <3>1. Len(Tail(data_sender_buf[e])) = Len(data_sender_buf[e]) - 1 /\ Len(data_sender_buf[e]) \in Nat
      BY <1>q, <2>s, TailProps
    <3>2. Len(data_sender_buf[e]) <= Capacity
      BY DEF TypeOK
    <3> QED
      BY <1>q, <2>s, <3>1, <3>2, Taken1, UdpRelayAssumption
  <2>2. rx' \in [Ends -> Seq(Frame)]
    <3> DEFINE f == Head(data_sender_buf[e])
    <3>1. f \in Frame /\ (rx' = rx \/ rx' = [rx EXCEPT ![Peer(e)] = Append(rx[Peer(e)], f)])
      BY <2>s, <2>1
    <3> HIDE DEF f
    <3>2. [rx EXCEPT ![Peer(e)] = Append(rx[Peer(e)], f)] \in [Ends -> Seq(Frame)]
      BY <1>q, <3>1, Queued1
    <3> QED
      BY <1>q, <3>1, <3>2
  <2>3. \A x \in Ends : x # e => data_sender_buf'[x] = data_sender_buf[x]
    BY <1>q, <2>s
  <2>4. attached' \in [Ends -> BOOLEAN] /\ close_lost' \subseteq Ends
    <3>1. /\ attached' = attached \/ attached' = [attached EXCEPT ![e] = FALSE]
          /\ close_lost' = close_lost \/ close_lost' = close_lost \cup {e}
      BY <1>1, SenderTakes
    <3>2. attached \in [Ends -> BOOLEAN] /\ close_lost \subseteq Ends
      BY DEF TypeOK
    <3> QED
      BY <3>1, <3>2
  <2> QED
    BY <2>s, <2>1, <2>2, <2>3, <2>4 DEF TypeOK, socketVars
<1>2. CASE EventLoop(e)
  <2>1. rx[e] # <<>> /\ rx' = [rx EXCEPT ![e] = Tail(rx[e])]
    BY <1>2 DEF EventLoop, Dispatches, LosesLink, ServerConnects, Gets, TakeEvent
  <2>2. rx' \in [Ends -> Seq(Frame)] /\ Head(rx[e]) \in Frame
    BY <1>q, <2>1, Taken1
  <2>3. inbox' \in [Ends -> Seq(Frame)]
    <3> DEFINE f == Head(rx[e])
    <3>1. inbox' = inbox \/ inbox' = [inbox EXCEPT ![e] = Append(inbox[e], f)]
      BY <1>2 DEF EventLoop, Dispatches, LosesLink, ServerConnects
    <3>2. f \in Frame
      BY <2>2
    <3> HIDE DEF f
    <3>3. [inbox EXCEPT ![e] = Append(inbox[e], f)] \in [Ends -> Seq(Frame)]
      BY <1>q, <3>2, Queued1
    <3> QED
      BY <1>q, <3>1, <3>3
  <2>4. /\ registered' \in [Ends -> BOOLEAN]
        /\ pc' \in [Ends -> {"none", "accepted", "waiting", "binding", "relay", "closing",
                             "dropping", "ended"}]
        /\ attached' \in [Ends -> BOOLEAN]
    BY <1>2 DEF EventLoop, Dispatches, LosesLink, ServerConnects, Becomes, TypeOK, linkVars
  <2>5. UNCHANGED <<kind, link_up, close_lost, data_sender_buf, tasks, socketVars, closed_after>>
    BY <1>2 DEF EventLoop, Dispatches, LosesLink, ServerConnects, linkVars
  <2> QED
    BY <2>2, <2>3, <2>4, <2>5 DEF TypeOK, linkVars, socketVars
<1> QED
    BY <1>1, <1>2

LEMMA TypesConnect ==
    ASSUME TypeOK, Connect \/ GetsOk \/ ReplyFails \/ GetsNoOk \/ Binds \/ BindFails
    PROVE  TypeOK'
<1>1. /\ data_sender_buf' \in [Ends -> Seq(Frame)]
      /\ \A x \in Ends : Len(data_sender_buf'[x]) <= Capacity
  <2>1. CASE \E e \in Ends, type \in Types : Send(e, type, 0)
    BY <2>1, TypesSend
  <2>2. CASE data_sender_buf' = data_sender_buf
    BY <2>2 DEF TypeOK
  <2> QED
    BY <2>1, <2>2, Both DEF Connect, GetsOk, ReplyFails, GetsNoOk, Binds, BindFails, Types
<1>2. inbox' \in [Ends -> Seq(Frame)]
  <2>1. inbox \in [Ends -> Seq(Frame)] /\ <<>> \in Seq(Frame)
    BY EmptySeq DEF TypeOK
  <2>2. CASE GetsOk
    <3>1. inbox["client"] # <<>> /\ inbox' = [inbox EXCEPT !["client"] = Tail(inbox["client"])]
      BY <2>2 DEF GetsOk, Answer
    <3> QED
      BY <2>1, <3>1, Taken1, Both
  <2>3. CASE ~GetsOk
    BY <2>1, <2>3, Both DEF Connect, ReplyFails, GetsNoOk, Binds, BindFails
  <2> QED
    BY <2>2, <2>3
<1>3. pc' \in [Ends -> {"none", "accepted", "waiting", "binding", "relay", "closing",
                        "dropping", "ended"}]
    BY DEF Connect, GetsOk, ReplyFails, GetsNoOk, Binds, BindFails, Becomes, TypeOK
<1>5. tasks' \in [Ends -> SUBSET {Reader, Writer, TcpCheck}]
  <2>1. tasks' = tasks \/ \E x \in Ends, S \in SUBSET {Reader, Writer, TcpCheck} :
                             tasks' = [tasks EXCEPT ![x] = S]
    BY Both DEF Connect, GetsOk, ReplyFails, GetsNoOk, Binds, BindFails
  <2> QED
    BY <2>1 DEF TypeOK
<1>4. UNCHANGED <<linkVars, rx, registered, socketVars, closed_after>>
    BY DEF Connect, GetsOk, ReplyFails, GetsNoOk, Binds, BindFails
<1> QED
    BY <1>1, <1>2, <1>3, <1>4, <1>5 DEF TypeOK, linkVars, socketVars

(* Steps that end a task of the relay.                                     *)
LEMMA TypesEnds ==
    ASSUME TypeOK, NEW e \in Ends, NEW task, TaskEnds(e, task)
    PROVE  TypeOK'
<1>1. inbox' \in [Ends -> Seq(Frame)]
    BY EmptySeq DEF TaskEnds, TypeOK
<1>2. /\ pc' \in [Ends -> {"none", "accepted", "waiting", "binding", "relay", "closing",
                           "dropping", "ended"}]
      /\ tasks' \in [Ends -> SUBSET {Reader, Writer, TcpCheck}]
    BY DEF TaskEnds, TypeOK
<1> QED
    BY <1>1, <1>2 DEF TaskEnds, TypeOK, linkVars, socketVars

LEMMA SomeTaskEnds ==
    ASSUME NEW e \in Ends, ReadEnds(e) \/ WriteFails(e) \/ GetsClose(e) \/ ChannelCloses(e)
    PROVE  \E task \in {Reader, Writer} : TaskEnds(e, task)
    BY DEF ReadEnds, WriteFails, GetsClose, ChannelCloses

LEMMA TypesRelay ==
    ASSUME TypeOK, OrderInv, NEW e \in Ends,
           Reads(e) \/ (e = "client" /\ LocksPort) \/ SendsData(e) \/ Writes(e) \/ OwnSteps(e)
    PROVE  TypeOK'
<1>1. CASE Reads(e) \/ (e = "client" /\ LocksPort)
  <2>1. /\ read' \in [Ends -> Nat] /\ read'["client"] + read'["server"] <= Datagrams
    <3>1. read \in [Ends -> Nat] /\ read["client"] + read["server"] <= Datagrams
      BY DEF TypeOK
    <3>2. CASE read' = read
      BY <3>1, <3>2
    <3>3. CASE /\ read["client"] + read["server"] < Datagrams
               /\ read' = [read EXCEPT ![e] = read[e] + 1]
      <4>1. e = "client" \/ e = "server"
        BY DEF Ends
      <4>2. CASE e = "client"
        <5>1. read'["client"] = read["client"] + 1 /\ read'["server"] = read["server"]
          BY <3>1, <3>3, <4>2, Both
        <5> QED
          BY <3>1, <3>3, <5>1, Both, UdpRelayAssumption
      <4>3. CASE e = "server"
        <5>1. read'["server"] = read["server"] + 1 /\ read'["client"] = read["client"]
          BY <3>1, <3>3, <4>3, Both
        <5> QED
          BY <3>1, <3>3, <5>1, Both, UdpRelayAssumption
      <4> QED
        BY <4>1, <4>2, <4>3
    <3> QED
      BY <1>1, <3>2, <3>3 DEF Reads, LocksPort
  <2>2. holding' \in [Ends -> {"none", "read", "sending"}] /\ port_known' \in BOOLEAN
    BY <1>1 DEF Reads, LocksPort, TypeOK
  <2> QED
    BY <1>1, <2>1, <2>2 DEF Reads, LocksPort, TypeOK, linkVars
<1>2. CASE SendsData(e)
  <2>1. read[e] \in Nat /\ "Data" \in Types
    BY DEF TypeOK, Types
  <2>2. /\ data_sender_buf' \in [Ends -> Seq(Frame)]
        /\ \A x \in Ends : Len(data_sender_buf'[x]) <= Capacity
    BY <1>2, <2>1, TypesSend DEF SendsData
  <2> QED
    BY <1>2, <2>2 DEF SendsData, TypeOK, linkVars
<1>3. CASE Writes(e)
  <2>1. inbox[e] # <<>> /\ inbox' = [inbox EXCEPT ![e] = Tail(inbox[e])] /\ inbox \in [Ends -> Seq(Frame)]
    BY <1>3 DEF Writes, WriterGets, TypeOK
  <2>2. inbox' \in [Ends -> Seq(Frame)] /\ Head(inbox[e]) \in Frame
    BY <2>1, Taken1
  <2>3. Head(inbox[e]).n \in Nat
    BY <2>2 DEF Frame
  <2>4. Append(delivered[e], Head(inbox[e]).n) \in Seq(Nat)
    BY <2>3, AppendProps DEF TypeOK
  <2>5. delivered' \in [Ends -> Seq(Nat)]
    BY <1>3, <2>4 DEF Writes, TypeOK
  <2> QED
    BY <1>3, <2>2, <2>5 DEF Writes, TypeOK, linkVars
<1>4. CASE Closes(e)
  <2>1. /\ data_sender_buf' \in [Ends -> Seq(Frame)]
        /\ \A x \in Ends : Len(data_sender_buf'[x]) <= Capacity
    BY <1>4, TypesSend DEF Closes, Types
  <2>2. Queued(e) \in Nat /\ Queued(e) <= Datagrams
    <3>1. read[e] \in Nat /\ read[e] <= Datagrams /\ (holding[e] # "none" => read[e] > 0)
      BY ReadBound DEF TypeOK, OrderInv
    <3> QED
      BY <3>1, UdpRelayAssumption DEF Queued
  <2>3. closed_after' \in [Ends -> Nat] /\ \A x \in Ends : closed_after'[x] <= Datagrams
    BY <1>4, <2>2 DEF Closes, TypeOK
  <2>4. pc' \in [Ends -> {"none", "accepted", "waiting", "binding", "relay", "closing",
                          "dropping", "ended"}]
    BY <1>4 DEF Closes, Becomes, TypeOK
  <2> QED
    BY <1>4, <2>1, <2>3, <2>4 DEF Closes, TypeOK, linkVars, socketVars
<1>5. CASE DropsSession(e)
    BY <1>5 DEF DropsSession, Becomes, TypeOK, linkVars, socketVars
<1> QED
    BY <1>1, <1>2, <1>3, <1>4, <1>5 DEF OwnSteps

LEMMA TypesStep == TypeOK /\ OrderInv /\ [Next]_vars => TypeOK'
<1> SUFFICES ASSUME TypeOK, OrderInv, [Next]_vars PROVE TypeOK'
    OBVIOUS
<1>1. CASE UNCHANGED vars
    BY <1>1 DEF vars, linkVars, socketVars, TypeOK
<1>2. CASE TcpEnds
    BY <1>2, TypesEnds, Both DEF TcpEnds
<1>3. ASSUME NEW e \in Ends, ReadEnds(e) \/ WriteFails(e) \/ GetsClose(e) \/ ChannelCloses(e)
      PROVE  TypeOK'
    BY <1>3, SomeTaskEnds, TypesEnds
<1> QED
    BY <1>1, <1>2, <1>3, TypesLink, TypesLoop, TypesConnect, TypesRelay
    DEF Next, ReaderSteps, WriterSteps

-----------------------------------------------------------------------------
(* What a step does on the way from an end e to its peer p.                *)
Pass(e) == UNCHANGED <<Queued(e), closed_after[e]>>
Still(e) ==
    LET p == Peer(e) IN UNCHANGED <<delivered[p], inbox[p], rx[p], data_sender_buf[e]>> /\ Pass(e)
Puts(e, f) ==
    LET p == Peer(e) IN
    /\ f \in Frame /\ data_sender_buf'[e] = Append(data_sender_buf[e], f)
    /\ UNCHANGED <<delivered[p], inbox[p], rx[p]>>
    /\ \/ /\ f.type = "Data" /\ holding[e] = "sending"
          /\ f.n = Queued(e) + 1 /\ Queued(e)' = Queued(e) + 1 /\ UNCHANGED closed_after[e]
       \/ /\ f.type = "Close" /\ pc[e] = "closing"
          /\ closed_after'[e] = Queued(e) /\ UNCHANGED Queued(e)
       \/ f.type = "Connect" /\ e = "client" /\ Connect /\ Pass(e)
       \/ f.type \in {"ConnectOk", "ConnectErr"} /\ e = "server" /\ pc[e] = "binding" /\ Pass(e)
Sends(e) ==
    LET p == Peer(e) IN
    /\ data_sender_buf[e] # <<>> /\ data_sender_buf'[e] = Tail(data_sender_buf[e])
    /\ \/ Carries(e) /\ rx'[p] = Append(rx[p], Head(data_sender_buf[e]))
       \/ /\ UNCHANGED rx[p]
          /\ ~Carries(e)' \/ e \in close_lost' \/ Head(data_sender_buf[e]).type # "Close"
    /\ UNCHANGED <<delivered[p], inbox[p]>> /\ Pass(e)
Takes(e) ==
    LET p == Peer(e) IN
    /\ rx[p] # <<>> /\ rx'[p] = Tail(rx[p])
    /\ \/ inbox'[p] = Append(inbox[p], Head(rx[p])) /\ ~Shut(p)
       \/ UNCHANGED inbox[p] /\ (Shut(p) \/ Head(rx[p]).type \notin {"Data", "Close"})
    /\ UNCHANGED <<delivered[p], data_sender_buf[e]>> /\ Pass(e)
Uses(e) ==
    LET p == Peer(e) IN
    /\ inbox[p] # <<>> /\ inbox'[p] = Tail(inbox[p]) /\ Head(inbox[p]).type # "Close"
    /\ \/ UNCHANGED delivered[p]
       \/ /\ Head(inbox[p]).type = "Data"
          /\ delivered'[p] = Append(delivered[p], Head(inbox[p]).n)
    /\ UNCHANGED <<rx[p], data_sender_buf[e]>> /\ Pass(e)
Clears(e) ==
    LET p == Peer(e) IN
    /\ inbox'[p] = <<>> /\ Shut(p)'
    /\ UNCHANGED <<delivered[p], rx[p], data_sender_buf[e]>> /\ Pass(e)
Loses(e) ==
    LET p == Peer(e) IN
    /\ link_up' = FALSE /\ \E k \in 0..Len(rx[p]) : rx'[p] = Cut(rx[p], k)
    /\ UNCHANGED <<delivered[p], inbox[p], data_sender_buf[e]>> /\ Pass(e)
Flows(e) ==
    Still(e) \/ (\E f \in Frame : Puts(e, f)) \/ Sends(e) \/ Takes(e) \/ Uses(e) \/ Clears(e) \/ Loses(e)

LEMMA StillFlows ==
    ASSUME NEW e \in Ends, UNCHANGED <<delivered, inbox, rx, data_sender_buf, holding, read, closed_after>>
    PROVE  Flows(e)
    BY DEF Flows, Still, Pass, Queued

LEMMA LinkFlows ==
    ASSUME TypeOK, NEW e \in Ends, LinkGoesDown
    PROVE  Flows(e)
<1>1. PICK i \in 0..Len(rx["client"]), j \in 0..Len(rx["server"]) :
          rx' = [rx EXCEPT !["client"] = Cut(@, i), !["server"] = Cut(@, j)]
    BY DEF LinkGoesDown
<1>2. \E k \in 0..Len(rx[Peer(e)]) : rx'[Peer(e)] = Cut(rx[Peer(e)], k)
    BY <1>1, Both DEF TypeOK, Ends
<1> QED
    BY <1>2 DEF LinkGoesDown, Flows, Loses, Pass, Queued, socketVars

LEMMA SenderFlows ==
    ASSUME TypeOK, NEW e \in Ends, NEW x \in Ends, Sender(x)
    PROVE  Flows(e)
<1>1. /\ Peer(x) \in Ends /\ Peer(e) \in Ends /\ (x # e => Peer(x) # Peer(e))
      /\ rx \in [Ends -> Seq(Frame)] /\ data_sender_buf \in [Ends -> Seq(Frame)]
    BY Peers DEF TypeOK
<1>2. UNCHANGED <<delivered, inbox, closed_after, holding, read>> /\ Pass(e)
    BY SenderTakes DEF socketVars, Pass, Queued
<1>3. CASE x = e
  <2>1. Sends(e)
    BY <1>1, <1>2, <1>3, SenderTakes DEF Sends
  <2> QED
    BY <2>1 DEF Flows
<1>4. CASE x # e
  <2>1. UNCHANGED data_sender_buf[e]
    BY <1>1, <1>4, SenderTakes
  <2>2. UNCHANGED rx[Peer(e)]
    <3>1. rx' = rx \/ rx' = [rx EXCEPT ![Peer(x)] = Append(@, Head(data_sender_buf[x]))]
      BY SenderTakes
    <3> QED
      BY <1>1, <1>4, <3>1
  <2> QED
    BY <1>2, <2>1, <2>2 DEF Flows, Still
<1> QED
    BY <1>3, <1>4

LEMMA LoopFlows ==
    ASSUME TypeOK, StartedInv, NEW e \in Ends, NEW x \in Ends, EventLoop(x)
    PROVE  Flows(e)
<1>1. Peer(e) \in Ends /\ rx \in [Ends -> Seq(Frame)] /\ inbox \in [Ends -> Seq(Frame)]
    BY Peers DEF TypeOK
<1>2. /\ UNCHANGED <<delivered, data_sender_buf, closed_after, holding, read>> /\ Pass(e)
      /\ rx[x] # <<>> /\ rx' = [rx EXCEPT ![x] = Tail(rx[x])]
      /\ inbox' = inbox \/ inbox' = [inbox EXCEPT ![x] = Append(inbox[x], Head(rx[x]))]
    BY DEF EventLoop, Dispatches, LosesLink, ServerConnects, Gets, TakeEvent, socketVars, Pass, Queued
<1>3. CASE x = Peer(e)
  <2>1. CASE inbox' = inbox
    <3>1. CASE Head(rx[x]).type \notin {"Data", "Close"}
      BY <1>1, <1>2, <1>3, <2>1, <3>1 DEF Flows, Takes
    <3>2. CASE Head(rx[x]).type \in {"Data", "Close"}
      <4>1. Dispatches(x)
        BY <3>2 DEF EventLoop, LosesLink, ServerConnects, Gets
      <4>2. ~(registered[x] /\ Receiving(x))
        <5> DEFINE f == Head(rx[x])
        <5>1. f \in Frame
          BY <1>1, <1>2, Taken1
        <5> HIDE DEF f
        <5>2. Append(inbox[x], f) # inbox[x]
          <6>1. Len(Append(inbox[x], f)) = Len(inbox[x]) + 1 /\ Len(inbox[x]) \in Nat
            BY <1>1, <5>1, AppendProps
          <6> QED
            BY <6>1
        <5>3. registered[x] /\ Receiving(x) => inbox'[x] = Append(inbox[x], f)
          BY <1>1, <4>1 DEF Dispatches, f
        <5> QED
          BY <2>1, <5>2, <5>3
      <4>3. pc[x] # "none"
        <5>1. Head(rx[x]) = rx[x][1] /\ 1 \in 1..Len(rx[x])
          BY <1>1, <1>2, TailProps
        <5> QED
          BY <3>2, <5>1 DEF StartedInv, Ends
      <4> QED
        BY <1>1, <1>2, <1>3, <2>1, <4>2, <4>3 DEF Flows, Takes, Shut
    <3> QED
      BY <3>1, <3>2
  <2>2. CASE inbox' # inbox
    <3>1. /\ inbox' = [inbox EXCEPT ![x] = Append(inbox[x], Head(rx[x]))]
          /\ registered[x] /\ Receiving(x)
      BY <2>2 DEF EventLoop, Dispatches, LosesLink, ServerConnects
    <3>2. ~Shut(x)
      BY <3>1 DEF Shut
    <3> QED
      BY <1>1, <1>2, <1>3, <3>1, <3>2 DEF Flows, Takes
  <2> QED
    BY <1>2, <2>1, <2>2
<1>4. CASE x # Peer(e)
    BY <1>1, <1>2, <1>4 DEF Flows, Still
<1> QED
    BY <1>3, <1>4

LEMMA ConnectFlows ==
    ASSUME TypeOK, StartedInv, NEW e \in Ends,
           Connect \/ GetsOk \/ ReplyFails \/ GetsNoOk \/ Binds \/ BindFails
    PROVE  Flows(e)
<1>q. /\ Peer(e) \in Ends /\ rx \in [Ends -> Seq(Frame)] /\ inbox \in [Ends -> Seq(Frame)]
      /\ data_sender_buf \in [Ends -> Seq(Frame)]
      /\ UNCHANGED <<rx, delivered, closed_after, holding, read>> /\ Pass(e)
    BY Peers DEF TypeOK, Connect, GetsOk, ReplyFails, GetsNoOk, Binds, BindFails, socketVars, Pass, Queued
<1>0. pc \in [Ends -> {"none", "accepted", "waiting", "binding", "relay", "closing",
                       "dropping", "ended"}]
      /\ "client" \in Ends /\ "server" \in Ends
    BY Both DEF TypeOK
<1>1. ASSUME NEW x \in Ends, NEW type \in {"Connect", "ConnectOk", "ConnectErr"}, Send(x, type, 0),
             x = e, inbox'[Peer(e)] = inbox[Peer(e)],
             IF type = "Connect" THEN x = "client" /\ Connect ELSE x = "server" /\ pc[x] = "binding"
      PROVE  Flows(e)
  <2> DEFINE f == [type |-> type, n |-> 0]
  <2>1. f \in Frame /\ f.type = type
    BY DEF Frame, Types
  <2>2. data_sender_buf'[e] = Append(data_sender_buf[e], f)
    BY <1>q, <1>1 DEF Send
  <2>3. Puts(e, f)
    BY <1>q, <1>1, <2>1, <2>2 DEF Puts
  <2> QED
    BY <2>1, <2>3 DEF Flows
<1>4. CASE Connect \/ Binds
  <2>1. PICK x \in Ends, type \in {"Connect", "ConnectOk"} :
            /\ Send(x, type, 0) /\ inbox' = inbox
            /\ IF type = "Connect" THEN x = "client" /\ Connect ELSE x = "server" /\ pc[x] = "binding"
    <3>1. CASE Connect
      BY <3>1, Both DEF Connect
    <3>2. CASE Binds
      BY <3>2, Both DEF Binds
    <3> QED
      BY <1>4, <3>1, <3>2
  <2>2. CASE x # e
    BY <1>q, <2>1, <2>2 DEF Send, Flows, Still
  <2> QED
    BY <1>1, <2>1, <2>2
<1>5. CASE BindFails
  <2>1. /\ Send("server", "ConnectErr", 0) /\ inbox' = [inbox EXCEPT !["server"] = <<>>]
        /\ pc' = [pc EXCEPT !["server"] = "dropping"] /\ tasks' = tasks /\ pc["server"] = "binding"
    BY <1>5 DEF BindFails, Becomes
  <2>2. CASE e = "server"
    <3>1. inbox'[Peer(e)] = inbox[Peer(e)]
      BY <1>q, <2>1, <2>2, Peers
    <3> QED
      BY <1>1, <2>1, <2>2, <3>1
  <2>3. CASE e = "client"
    <3>1. Shut("server")'
      BY <1>0, <2>1 DEF Shut, Receiving, StartedInv, Relaying
    <3>2. data_sender_buf'[e] = data_sender_buf[e] /\ Peer(e) = "server"
      BY <1>q, <2>1, <2>3, Both DEF Send
    <3> QED
      BY <1>q, <1>0, <2>1, <3>1, <3>2 DEF Flows, Clears
  <2> QED
    BY <2>2, <2>3 DEF Ends
<1>2. CASE GetsOk
  <2>1. /\ inbox["client"] # <<>> /\ Head(inbox["client"]).type = "ConnectOk"
        /\ inbox' = [inbox EXCEPT !["client"] = Tail(inbox["client"])]
        /\ data_sender_buf' = data_sender_buf
    BY <1>2 DEF GetsOk, Answer
  <2>2. CASE Peer(e) = "client"
    BY <1>q, <1>0, <2>1, <2>2 DEF Flows, Uses
  <2>3. CASE Peer(e) # "client"
    BY <1>q, <1>0, <2>1, <2>3 DEF Flows, Still
  <2> QED
    BY <2>2, <2>3
<1>3. CASE ReplyFails \/ GetsNoOk
  <2>1. /\ inbox' = [inbox EXCEPT !["client"] = <<>>] /\ tasks' = tasks
        /\ pc["client"] = "waiting"
        /\ \E w \in {"closing", "dropping", "ended"} : pc' = [pc EXCEPT !["client"] = w]
        /\ data_sender_buf' = data_sender_buf
    BY <1>3 DEF ReplyFails, GetsNoOk, Becomes
  <2>2. CASE Peer(e) = "client"
    <3>1. Shut("client")'
      BY <1>0, <2>1 DEF Shut, Receiving, StartedInv, Relaying
    <3> QED
      BY <1>q, <1>0, <2>1, <2>2, <3>1 DEF Flows, Clears
  <2>3. CASE Peer(e) # "client"
    BY <1>q, <1>0, <2>1, <2>3 DEF Flows, Still
  <2> QED
    BY <2>2, <2>3
<1> QED
    BY <1>2, <1>3, <1>4, <1>5

LEMMA EndsFlows ==
    ASSUME TypeOK, StartedInv, NEW e \in Ends, NEW x \in Ends, NEW task \in tasks[x],
           TaskEnds(x, task)
    PROVE  Flows(e)
<1>q. /\ Peer(e) \in Ends /\ inbox \in [Ends -> Seq(Frame)] /\ tasks \in [Ends -> SUBSET {Reader, Writer, TcpCheck}]
      /\ UNCHANGED <<rx, data_sender_buf, delivered, closed_after, holding, read>> /\ Pass(e)
    BY Peers DEF TypeOK, TaskEnds, socketVars, Pass, Queued
<1>1. CASE task # Writer \/ x # Peer(e)
  <2>1. inbox'[Peer(e)] = inbox[Peer(e)]
    BY <1>q, <1>1 DEF TaskEnds
  <2> QED
    BY <1>q, <2>1 DEF Flows, Still
<1>2. CASE task = Writer /\ x = Peer(e)
  <2>1. inbox'[x] = <<>> /\ tasks'[x] = tasks[x] \ {Writer}
    BY <1>q, <1>2 DEF TaskEnds
  <2>2. Relaying(x)
    BY DEF StartedInv
  <2>3. pc'[x] \in {"relay", "closing", "dropping", "ended"} /\ (pc'[x] = pc[x] \/ pc'[x] = "closing")
    BY <2>2 DEF Relaying, TaskEnds, TypeOK
  <2>4. Shut(x)'
    BY <2>1, <2>3 DEF Shut, Receiving
  <2> QED
    BY <1>q, <1>2, <2>1, <2>4 DEF Flows, Clears
<1> QED
    BY <1>1, <1>2

LEMMA ReaderFlows ==
    ASSUME TypeOK, OrderInv, NEW e \in Ends, NEW x \in Ends,
           Reads(x) \/ (x = "client" /\ LocksPort) \/ SendsData(x)
    PROVE  Flows(e)
<1>q. /\ Peer(e) \in Ends /\ data_sender_buf \in [Ends -> Seq(Frame)]
      /\ holding \in [Ends -> {"none", "read", "sending"}] /\ read \in [Ends -> Nat]
      /\ holding[x] # "none" => read[x] > 0
      /\ UNCHANGED <<rx, inbox, delivered, closed_after>>
    BY Peers DEF TypeOK, OrderInv, Reads, LocksPort, SendsData, linkVars
<1>1. CASE Reads(x) \/ (x = "client" /\ LocksPort)
  <2>1. \/ holding'[e] = holding[e] /\ read'[e] = read[e]
        \/ holding[e] # "none" /\ holding'[e] # "none" /\ read'[e] = read[e]
        \/ holding[e] = "none" /\ holding'[e] # "none" /\ read'[e] = read[e] + 1
    <3>1. \/ /\ holding[x] = "none" /\ read' = [read EXCEPT ![x] = read[x] + 1]
             /\ \E h \in {"read", "sending"} : holding' = [holding EXCEPT ![x] = h]
          \/ holding[x] = "read" /\ holding' = [holding EXCEPT ![x] = "sending"] /\ read' = read
      BY <1>1 DEF Reads, LocksPort
    <3>2. CASE x # e
      BY <1>q, <3>1, <3>2
    <3>3. CASE x = e
      BY <1>q, <3>1, <3>3
    <3> QED
      BY <3>2, <3>3
  <2>2. Queued(e)' = Queued(e)
    <3>1. read[e] \in Nat
      BY <1>q
    <3>2. Queued(e) = IF holding[e] = "none" THEN read[e] ELSE read[e] - 1
      BY DEF Queued
    <3>3. Queued(e)' = IF holding'[e] = "none" THEN read'[e] ELSE read'[e] - 1
      BY DEF Queued
    <3> QED
      BY <2>1, <3>1, <3>2, <3>3
  <2> QED
    BY <1>q, <1>1, <2>2 DEF Flows, Still, Pass, Reads, LocksPort
<1>2. CASE SendsData(x)
  <2>1. CASE x # e
    BY <1>q, <1>2, <2>1 DEF SendsData, Send, Flows, Still, Pass, Queued
  <2>2. CASE x = e
    <3> DEFINE f == [type |-> "Data", n |-> read[e]]
    <3>1. f \in Frame /\ f.type = "Data" /\ f.n = read[e]
      BY <1>q DEF Frame, Types
    <3>2. data_sender_buf'[e] = Append(data_sender_buf[e], f)
      BY <1>q, <1>2, <2>2 DEF SendsData, Send
    <3>3. holding[e] = "sending" /\ holding'[e] = "none" /\ read'[e] = read[e]
      BY <1>q, <1>2, <2>2 DEF SendsData
    <3> HIDE DEF f
    <3>4. f.n = Queued(e) + 1 /\ Queued(e)' = Queued(e) + 1
      BY <1>q, <2>2, <3>1, <3>3 DEF Queued
    <3>5. Puts(e, f)
      BY <1>q, <3>1, <3>2, <3>3, <3>4 DEF Puts
    <3> QED
      BY <3>1, <3>5 DEF Flows
  <2> QED
    BY <2>1, <2>2
<1> QED
    BY <1>1, <1>2

LEMMA WriterFlows ==
    ASSUME TypeOK, NEW e \in Ends, NEW x \in Ends, Writes(x)
    PROVE  Flows(e)
<1>q. /\ Peer(e) \in Ends /\ inbox \in [Ends -> Seq(Frame)] /\ delivered \in [Ends -> Seq(Nat)]
      /\ UNCHANGED <<rx, data_sender_buf, holding, read, closed_after>> /\ Pass(e)
      /\ inbox[x] # <<>> /\ Head(inbox[x]).type = "Data"
      /\ inbox' = [inbox EXCEPT ![x] = Tail(inbox[x])]
      /\ delivered' = delivered \/ delivered' = [delivered EXCEPT ![x] = Append(delivered[x], Head(inbox[x]).n)]
    BY Peers DEF TypeOK, Writes, WriterGets, Pass, Queued
<1>1. CASE x = Peer(e)
    BY <1>q, <1>1 DEF Flows, Uses
<1>2. CASE x # Peer(e)
    BY <1>q, <1>2 DEF Flows, Still
<1> QED
    BY <1>1, <1>2

LEMMA OwnFlows ==
    ASSUME TypeOK, NEW e \in Ends, NEW x \in Ends, OwnSteps(x)
    PROVE  Flows(e)
<1>q. /\ Peer(e) \in Ends /\ data_sender_buf \in [Ends -> Seq(Frame)] /\ closed_after \in [Ends -> Nat]
      /\ UNCHANGED <<rx, inbox, delivered, holding, read>> /\ UNCHANGED Queued(e)
    BY Peers DEF TypeOK, OwnSteps, Closes, DropsSession, socketVars, Queued
<1>1. CASE DropsSession(x) \/ x # e
    BY <1>q, <1>1 DEF OwnSteps, Closes, DropsSession, Send, Flows, Still, Pass
<1>2. CASE Closes(x) /\ x = e
  <2> DEFINE f == [type |-> "Close", n |-> 0]
  <2>1. f \in Frame /\ f.type = "Close"
    BY DEF Frame, Types
  <2>2. /\ data_sender_buf'[e] = Append(data_sender_buf[e], f) /\ closed_after'[e] = Queued(e)
        /\ pc[e] = "closing"
    BY <1>q, <1>2 DEF Closes, Send
  <2>3. Puts(e, f)
    BY <1>q, <2>1, <2>2 DEF Puts
  <2> QED
    BY <2>1, <2>3 DEF Flows
<1> QED
    BY <1>1, <1>2 DEF OwnSteps

LEMMA FlowStep ==
    ASSUME TypeOK, StartedInv, OrderInv, [Next]_vars, NEW e \in Ends
    PROVE  Flows(e)
<1>1. CASE UNCHANGED vars
    BY <1>1, StillFlows DEF vars, socketVars
<1>2. CASE TcpEnds
    BY <1>2, EndsFlows, Both DEF TcpEnds
<1>3. ASSUME NEW x \in Ends, ReadEnds(x) \/ WriteFails(x) \/ GetsClose(x) \/ ChannelCloses(x)
      PROVE  Flows(e)
    BY <1>3, EndsFlows DEF ReadEnds, WriteFails, GetsClose, ChannelCloses, WriterGets
<1> QED
    BY <1>1, <1>2, <1>3, LinkFlows, SenderFlows, LoopFlows, ConnectFlows, ReaderFlows,
       WriterFlows, OwnFlows
    DEF Next, ReaderSteps, WriterSteps

-----------------------------------------------------------------------------
(* Which types of frames a queue holds.                                    *)
LEMMA HasTail ==
    ASSUME NEW q \in Seq(Frame), q # <<>>, NEW type
    PROVE  Has(q, type) <=> Head(q).type = type \/ Has(Tail(q), type)
<1>q. /\ Head(q) = q[1] /\ Len(q) \in Nat \ {0} /\ Len(Tail(q)) = Len(q) - 1
      /\ \A i \in 1..Len(Tail(q)) : Tail(q)[i] = q[i + 1]
    BY TailProps
<1>1. ASSUME NEW i \in 1..Len(q), q[i].type = type PROVE Head(q).type = type \/ Has(Tail(q), type)
  <2>1. CASE i = 1
    BY <1>q, <1>1, <2>1
  <2>2. CASE i # 1
    <3>1. i - 1 \in 1..Len(Tail(q)) /\ Tail(q)[i - 1] = q[i]
      BY <1>q, <2>2
    <3> QED
      BY <1>1, <3>1 DEF Has
  <2> QED
    BY <2>1, <2>2
<1>2. ASSUME NEW i \in 1..Len(Tail(q)), Tail(q)[i].type = type PROVE Has(q, type)
  <2>1. i + 1 \in 1..Len(q) /\ Tail(q)[i] = q[i + 1]
    BY <1>q
  <2> QED
    BY <1>2, <2>1 DEF Has
<1>3. 1 \in 1..Len(q)
    BY <1>q
<1> QED
    BY <1>q, <1>1, <1>2, <1>3 DEF Has

LEMMA HasAppend ==
    ASSUME NEW q \in Seq(Frame), NEW f \in Frame, NEW type
    PROVE  Has(Append(q, f), type) <=> Has(q, type) \/ f.type = type
<1> DEFINE r == Append(q, f)
<1>q. /\ Len(q) \in Nat /\ Len(r) = Len(q) + 1
      /\ \A i \in 1..Len(q) : r[i] = q[i]
      /\ r[Len(q) + 1] = f
    BY AppendProps
<1> HIDE DEF r
<1>1. \A i \in 1..Len(r) : i \in 1..Len(q) \/ i = Len(q) + 1
    BY <1>q
<1>2. \A i \in 1..Len(q) : i \in 1..Len(r)
    BY <1>q
<1>3. Len(q) + 1 \in 1..Len(r)
    BY <1>q
<1>4. Has(r, type) => Has(q, type) \/ f.type = type
    BY <1>q, <1>1 DEF Has
<1>5. Has(q, type) => Has(r, type)
    BY <1>q, <1>2 DEF Has
<1>6. f.type = type => Has(r, type)
    BY <1>q, <1>3 DEF Has
<1> QED
    BY <1>4, <1>5, <1>6 DEF r

(* What Cut leaves: a prefix, and the close of the link.                   *)
LEMMA CutProps ==
    ASSUME NEW q \in Seq(Frame), NEW k \in 0..Len(q)
    PROVE  /\ Len(q) \in Nat /\ Len(Cut(q, k)) = k + 1
           /\ \A i \in 1..k : i \in 1..Len(q) /\ Cut(q, k)[i] = q[i]
           /\ Cut(q, k)[k + 1].type = "LinkClosed"
<1> DEFINE f == Signal("LinkClosed")
           s == SubSeq(q, 1, k)
<1>1. f \in Frame /\ f.type = "LinkClosed"
    BY DEF Signal, Frame, Types
<1>2. s \in Seq(Frame) /\ Len(s) = k /\ Len(q) \in Nat /\ \A i \in 1..k : s[i] = q[i] /\ i \in 1..Len(q)
    BY PrefixProps, LenProperties
<1>3. Cut(q, k) = Append(s, f)
    BY DEF Cut
<1> HIDE DEF f, s
<1>4. Len(Append(s, f)) = k + 1 /\ Append(s, f)[k + 1] = f /\ \A i \in 1..k : Append(s, f)[i] = s[i]
    BY <1>1, <1>2, AppendProps
<1> QED
    BY <1>1, <1>2, <1>3, <1>4

LEMMA HasCut ==
    ASSUME NEW q \in Seq(Frame), NEW k \in 0..Len(q), NEW type, Has(Cut(q, k), type)
    PROVE  Has(q, type) \/ type = "LinkClosed"
<1>1. PICK i \in 1..(k + 1) : Cut(q, k)[i].type = type
    BY CutProps DEF Has
<1>2. CASE i = k + 1
    BY <1>1, <1>2, CutProps
<1>3. CASE i # k + 1
  <2>1. i \in 1..k
    BY <1>3
  <2> QED
    BY <1>1, <2>1, CutProps DEF Has
<1> QED
    BY <1>2, <1>3

(* Frames do not change type on their way.                                 *)
LEMMA FlowHas ==
    ASSUME TypeOK, NEW e \in Ends, Flows(e), NEW type
    PROVE  /\ Has(data_sender_buf'[e], type) =>
                  Has(data_sender_buf[e], type) \/ \E f \in Frame : Puts(e, f) /\ f.type = type
           /\ Has(rx'[Peer(e)], type) =>
                  Has(rx[Peer(e)], type) \/ Has(data_sender_buf[e], type) \/ type = "LinkClosed"
           /\ Has(inbox'[Peer(e)], type) => Has(inbox[Peer(e)], type) \/ Has(rx[Peer(e)], type)
<1> DEFINE p == Peer(e)
<1>q. data_sender_buf[e] \in Seq(Frame) /\ rx[p] \in Seq(Frame) /\ inbox[p] \in Seq(Frame)
    BY Peers DEF TypeOK
<1>1. CASE Still(e)
    BY <1>1 DEF Still
<1>2. ASSUME NEW f \in Frame, Puts(e, f)
      PROVE  /\ Has(data_sender_buf'[e], type) => Has(data_sender_buf[e], type) \/ f.type = type
             /\ UNCHANGED <<inbox[p], rx[p]>>
    BY <1>q, <1>2, HasAppend DEF Puts
<1>3. CASE Sends(e)
  <2>1. Head(data_sender_buf[e]) \in Frame
    BY <1>q, <1>3, TailProps DEF Sends
  <2>2. Has(data_sender_buf[e], type)
        <=> Head(data_sender_buf[e]).type = type \/ Has(Tail(data_sender_buf[e]), type)
    BY <1>q, <1>3, HasTail DEF Sends
  <2>3. Has(Append(rx[p], Head(data_sender_buf[e])), type)
        <=> Has(rx[p], type) \/ Head(data_sender_buf[e]).type = type
    BY <1>q, <2>1, HasAppend
  <2> QED
    BY <1>3, <2>2, <2>3 DEF Sends
<1>4. CASE Takes(e)
  <2>1. Head(rx[p]) \in Frame
    BY <1>q, <1>4, TailProps DEF Takes
  <2>2. Has(rx[p], type) <=> Head(rx[p]).type = type \/ Has(Tail(rx[p]), type)
    BY <1>q, <1>4, HasTail DEF Takes
  <2>3. Has(Append(inbox[p], Head(rx[p])), type) <=> Has(inbox[p], type) \/ Head(rx[p]).type = type
    BY <1>q, <2>1, HasAppend
  <2> QED
    BY <1>4, <2>2, <2>3 DEF Takes
<1>5. CASE Uses(e)
    BY <1>q, <1>5, HasTail DEF Uses
<1>6. CASE Clears(e)
  <2>1. ~Has(<<>>, type)
    BY EmptySeq DEF Has
  <2> QED
    BY <1>6, <2>1 DEF Clears
<1>7. CASE Loses(e)
    BY <1>q, <1>7, HasCut DEF Loses
<1> QED
    BY <1>1, <1>2, <1>3, <1>4, <1>5, <1>6, <1>7 DEF Flows

-----------------------------------------------------------------------------
(* Nothing runs before the CONNECT is served.                              *)
LEMMA StartedInit == Init => StartedInv /\ ConnectInv
<1> SUFFICES ASSUME Init PROVE StartedInv /\ ConnectInv
    OBVIOUS
<1>1. /\ pc["client"] = "accepted" /\ pc["server"] = "none" /\ \A e \in Ends : tasks[e] = {}
      /\ holding["client"] = "none"
      /\ \A e \in Ends : data_sender_buf[e] = <<>> /\ rx[e] = <<>> /\ inbox[e] = <<>>
    BY DEF Init, Ends
<1>2. \A type : ~Has(<<>>, type)
    BY EmptySeq DEF Has
<1>3. StartedInv
    BY <1>1, <1>2, EmptySeq, Both DEF StartedInv, Ends
<1>4. ConnectInv
    BY <1>1, <1>2, EmptySeq, Both DEF ConnectInv, OneConnect
<1> QED
    BY <1>3, <1>4

LEMMA OnlyConnect ==
    ASSUME NEW q \in Seq(Frame)
    PROVE  (\A i \in 1..Len(q) : q[i].type \in {"Connect", "LinkClosed"})
           <=> \A type \in Types \ {"Connect", "LinkClosed"} : ~Has(q, type)
<1>1. \A i \in 1..Len(q) : q[i].type \in Types
  <2>1. \A i \in 1..Len(q) : q[i] \in Frame
    BY ElementOfSeq
  <2> QED
    BY <2>1 DEF Frame
<1> QED
    BY <1>1 DEF Has

(* What a step does to the tasks of the session.                           *)
LEMMA TaskStep ==
    ASSUME TypeOK, StartedInv, ConnectInv, [Next]_vars
    PROVE  /\ pc'["client"] # "none" /\ (pc'["client"] = "accepted" => pc["client"] = "accepted")
           /\ \A e \in Ends : tasks'[e] # {} => Relaying(e)'
           /\ pc["server"] # "none" => pc'["server"] # "none"
           /\ pc["server"] = "none" /\ pc'["server"] # "none" =>
                 /\ rx["server"] # <<>> /\ Head(rx["server"]).type = "Connect"
                 /\ rx'["server"] = Tail(rx["server"]) /\ UNCHANGED <<data_sender_buf, pc["client"]>>
           /\ pc["server"] = "none" =>
                 /\ tasks'["client"] = {} /\ holding'["client"] = "none"
                 /\ pc'["client"] \notin {"relay", "closing"}
<1>q. /\ pc \in [Ends -> {"none", "accepted", "waiting", "binding", "relay", "closing",
                          "dropping", "ended"}]
      /\ tasks \in [Ends -> SUBSET {Reader, Writer, TcpCheck}]
      /\ holding \in [Ends -> {"none", "read", "sending"}]
      /\ rx \in [Ends -> Seq(Frame)] /\ inbox \in [Ends -> Seq(Frame)]
      /\ "client" \in Ends /\ "server" \in Ends
    BY Both DEF TypeOK
<1>s. /\ pc["client"] # "none" /\ \A e \in Ends : tasks[e] # {} => Relaying(e)
      /\ pc["server"] = "none" =>
            /\ tasks["client"] = {} /\ holding["client"] = "none" /\ pc["client"] \notin {"relay", "closing"}
            /\ ~Has(inbox["client"], "ConnectOk")
    BY DEF StartedInv
<1>1. CASE UNCHANGED <<pc, tasks, holding>>
    BY <1>q, <1>s, <1>1 DEF Relaying
<1>2. CASE Connect \/ GetsOk \/ ReplyFails \/ GetsNoOk
  <2>1. pc["server"] = "none" => Connect \/ GetsNoOk
    <3>1. Answer = "ConnectOk" => Has(inbox["client"], "ConnectOk")
      <4>1. Answer = "ConnectOk" => inbox["client"] # <<>> /\ Head(inbox["client"]).type = "ConnectOk"
        BY DEF Answer
      <4> QED
        BY <1>q, <4>1, HasTail
    <3> QED
      BY <1>2, <1>s, <3>1 DEF GetsOk, ReplyFails
  <2>2. /\ holding' = holding /\ pc["client"] \in {"accepted", "waiting"}
        /\ \E w \in {"waiting", "relay", "closing", "dropping", "ended"} :
              /\ pc' = [pc EXCEPT !["client"] = w]
              /\ tasks' = tasks \/ (w = "relay" /\ GetsOk /\ \E S : tasks' = [tasks EXCEPT !["client"] = S])
              /\ Connect \/ GetsNoOk => tasks' = tasks /\ w \notin {"relay", "closing"}
    <3>1. CASE Connect
      BY <3>1 DEF Connect, Becomes, socketVars
    <3>2. CASE GetsOk
      BY <3>2 DEF GetsOk, Connect, GetsNoOk, Becomes, socketVars
    <3>3. CASE ReplyFails
      BY <3>3 DEF ReplyFails, Connect, GetsNoOk, Becomes, socketVars
    <3>4. CASE GetsNoOk
      BY <3>4 DEF GetsNoOk, Becomes, socketVars
    <3> QED
      BY <1>2, <3>1, <3>2, <3>3, <3>4
  <2>3. tasks["client"] = {}
    BY <1>q, <1>s, <2>2 DEF Relaying
  <2> QED
    BY <1>q, <1>s, <2>1, <2>2, <2>3 DEF Relaying
<1>3. CASE Binds \/ BindFails
  <2>1. /\ holding' = holding /\ pc["server"] = "binding"
        /\ \E w \in {"relay", "dropping"} :
              /\ pc' = [pc EXCEPT !["server"] = w]
              /\ tasks' = tasks \/ (w = "relay" /\ \E S : tasks' = [tasks EXCEPT !["server"] = S])
    BY <1>3 DEF Binds, BindFails, Becomes, socketVars
  <2>2. tasks["server"] = {}
    BY <1>q, <1>s, <2>1 DEF Relaying
  <2> QED
    BY <1>q, <1>s, <2>1, <2>2 DEF Relaying
<1>4. ASSUME NEW x \in Ends, NEW task \in tasks[x], TaskEnds(x, task)
      PROVE  /\ Relaying(x) /\ (pc["server"] = "none" => FALSE) /\ holding' = holding
             /\ tasks' = [tasks EXCEPT ![x] = @ \ {task}]
             /\ pc' = pc \/ pc' = [pc EXCEPT ![x] = "closing"]
  <2>1. Relaying(x)
    BY <1>s, <1>4
  <2>2. pc["server"] = "none" => FALSE
    BY <1>q, <1>s, <1>4, <2>1 DEF Ends, Relaying
  <2> QED
    BY <1>4, <2>1, <2>2 DEF TaskEnds, socketVars
<1>5. ASSUME NEW x \in Ends, NEW task \in tasks[x], TaskEnds(x, task)
      PROVE  /\ pc'["client"] # "none" /\ (pc'["client"] = "accepted" => pc["client"] = "accepted")
             /\ \A e \in Ends : tasks'[e] # {} => Relaying(e)'
             /\ pc["server"] # "none" /\ pc'["server"] # "none"
    BY <1>q, <1>s, <1>4, <1>5 DEF Relaying
<1>6. CASE TcpEnds
    BY <1>q, <1>5, <1>6 DEF TcpEnds
<1>7. ASSUME NEW x \in Ends, ReadEnds(x) \/ WriteFails(x) \/ GetsClose(x) \/ ChannelCloses(x)
      PROVE  \E task \in tasks[x] : TaskEnds(x, task)
    BY <1>7 DEF ReadEnds, WriteFails, GetsClose, ChannelCloses, WriterGets
<1>8. ASSUME NEW x \in Ends, Reads(x) \/ (x = "client" /\ LocksPort) \/ SendsData(x) \/ Writes(x)
      PROVE  /\ UNCHANGED <<pc, tasks>>
             /\ pc["server"] = "none" => holding'["client"] = "none"
  <2>1. CASE Reads(x)
    <3>1. tasks[x] # {} /\ \E h : holding' = [holding EXCEPT ![x] = h]
      BY <2>1 DEF Reads
    <3>2. pc["server"] = "none" => x # "client"
      BY <1>s, <3>1
    <3> QED
      BY <1>q, <1>s, <2>1, <3>1, <3>2 DEF Reads
  <2>2. CASE x = "client" /\ LocksPort
    BY <1>s, <2>2 DEF LocksPort
  <2>3. CASE SendsData(x)
    BY <1>q, <1>s, <2>3 DEF SendsData
  <2>4. CASE Writes(x)
    BY <1>s, <2>4 DEF Writes
  <2> QED
    BY <1>8, <2>1, <2>2, <2>3, <2>4
<1>9. ASSUME NEW x \in Ends, Reads(x) \/ (x = "client" /\ LocksPort) \/ SendsData(x) \/ Writes(x)
      PROVE  /\ pc'["client"] # "none" /\ (pc'["client"] = "accepted" => pc["client"] = "accepted")
             /\ \A e \in Ends : tasks'[e] # {} => Relaying(e)'
             /\ pc'["server"] = pc["server"]
             /\ pc["server"] = "none" =>
                 /\ tasks'["client"] = {} /\ holding'["client"] = "none"
                 /\ pc'["client"] \notin {"relay", "closing"}
    BY <1>s, <1>8, <1>9 DEF Relaying
<1>10. ASSUME NEW x \in Ends, OwnSteps(x)
       PROVE  /\ UNCHANGED <<tasks, holding>>
              /\ pc[x] \in {"closing", "dropping"}
              /\ \E w \in {"dropping", "ended"} : pc' = [pc EXCEPT ![x] = w]
    BY <1>10 DEF OwnSteps, Closes, DropsSession, Becomes, socketVars
<1>11. ASSUME NEW x \in Ends, OwnSteps(x)
       PROVE  /\ pc'["client"] # "none" /\ (pc'["client"] = "accepted" => pc["client"] = "accepted")
              /\ \A e \in Ends : tasks'[e] # {} => Relaying(e)'
              /\ pc["server"] # "none" => pc'["server"] # "none"
              /\ pc["server"] = "none" =>
                  /\ pc'["server"] = "none"
                  /\ tasks'["client"] = {} /\ holding'["client"] = "none"
                  /\ pc'["client"] \notin {"relay", "closing"}
    BY <1>q, <1>s, <1>10, <1>11 DEF Relaying
<1>12. CASE ServerConnects
  <2>1. /\ rx["server"] # <<>> /\ Head(rx["server"]).type = "Connect"
        /\ rx'["server"] = Tail(rx["server"])
        /\ UNCHANGED <<tasks, holding, data_sender_buf>> /\ pc' = [pc EXCEPT !["server"] = "binding"]
    BY <1>q, <1>12 DEF ServerConnects, Gets, TakeEvent, Becomes, socketVars
  <2>2. CASE pc["server"] = "none"
    <3>1. tasks["server"] = {}
      BY <1>q, <1>s, <2>2 DEF Relaying
    <3> QED
      BY <1>q, <1>s, <2>1, <2>2, <3>1 DEF Relaying
  <2>3. CASE pc["server"] # "none"
    <3>1. Has(rx["server"], "Connect")
      BY <1>q, <2>1, HasTail
    <3> QED
      BY <2>3, <3>1 DEF ConnectInv
  <2> QED
    BY <2>2, <2>3
<1>13. LinkGoesDown \/ (\E x \in Ends : Sender(x) \/ Dispatches(x) \/ LosesLink(x))
       => UNCHANGED <<pc, tasks, holding>>
    BY SenderTakes DEF LinkGoesDown, Dispatches, LosesLink, socketVars
<1>14. CASE UNCHANGED vars
    BY <1>1, <1>14 DEF vars, socketVars
<1> QED
    BY <1>1, <1>2, <1>3, <1>5, <1>6, <1>7, <1>9, <1>11, <1>12, <1>13, <1>14
    DEF Next, EventLoop, ReaderSteps, WriterSteps

LEMMA StartedStep == TypeOK /\ StartedInv /\ ConnectInv /\ OrderInv /\ [Next]_vars => StartedInv'
<1> SUFFICES ASSUME TypeOK, StartedInv, ConnectInv, OrderInv, [Next]_vars PROVE StartedInv'
    OBVIOUS
<1>q. /\ data_sender_buf \in [Ends -> Seq(Frame)] /\ rx \in [Ends -> Seq(Frame)] /\ inbox \in [Ends -> Seq(Frame)]
      /\ data_sender_buf' \in [Ends -> Seq(Frame)] /\ rx' \in [Ends -> Seq(Frame)]
    BY TypesStep DEF TypeOK
<1>f. Flows("client") /\ Flows("server")
    BY FlowStep, Both
<1>1. ASSUME pc'["server"] = "none"
      PROVE  \A q \in {data_sender_buf'["server"], rx'["client"], inbox'["client"]} : ~Has(q, "ConnectOk")
  <2>1. pc["server"] = "none"
    BY <1>1, TaskStep
  <2>2. \A q \in {data_sender_buf["server"], rx["client"], inbox["client"]} : ~Has(q, "ConnectOk")
    BY <2>1 DEF StartedInv
  <2>3. ~\E f \in Frame : Puts("server", f) /\ f.type = "ConnectOk"
    BY <2>1 DEF Puts
  <2> QED
    BY <1>f, <2>2, <2>3, FlowHas, Both
<1>2. ASSUME pc'["server"] = "none"
      PROVE  \A q \in {data_sender_buf'["client"], rx'["server"]} : \A i \in 1..Len(q) :
                q[i].type \in {"Connect", "LinkClosed"}
  <2>1. pc["server"] = "none" /\ holding["client"] = "none" /\ pc["client"] # "closing"
    BY <1>2, TaskStep DEF StartedInv
  <2>2. \A type \in Types \ {"Connect", "LinkClosed"} :
            ~Has(data_sender_buf["client"], type) /\ ~Has(rx["server"], type)
    BY <1>q, <2>1, OnlyConnect, Both DEF StartedInv
  <2>3. \A f \in Frame : Puts("client", f) => f.type = "Connect"
    BY <2>1 DEF Puts
  <2>4. \A type \in Types \ {"Connect", "LinkClosed"} :
            ~Has(data_sender_buf'["client"], type) /\ ~Has(rx'["server"], type)
    BY <1>f, <2>2, <2>3, FlowHas, Both
  <2>5. data_sender_buf'["client"] \in Seq(Frame) /\ rx'["server"] \in Seq(Frame)
    BY <1>q, Both
  <2> QED
    BY <2>4, <2>5, OnlyConnect
<1> QED
    BY <1>1, <1>2, TaskStep DEF StartedInv

-----------------------------------------------------------------------------
(* There is one CONNECT.                                                   *)
LEMMA OneTail ==
    ASSUME NEW q \in Seq(Frame), q # <<>>, OneConnect(q)
    PROVE  /\ OneConnect(Tail(q))
           /\ Head(q).type = "Connect" => ~Has(Tail(q), "Connect")
<1>q. /\ Head(q) = q[1] /\ Len(q) \in Nat \ {0} /\ Len(Tail(q)) = Len(q) - 1
      /\ \A i \in 1..Len(Tail(q)) : Tail(q)[i] = q[i + 1]
    BY TailProps
<1>1. \A i \in 1..Len(Tail(q)) : i + 1 \in 1..Len(q)
    BY <1>q
<1>2. OneConnect(Tail(q))
    BY <1>q, <1>1 DEF OneConnect
<1>3. ASSUME Head(q).type = "Connect", NEW i \in 1..Len(Tail(q)), Tail(q)[i].type = "Connect" PROVE FALSE
  <2>1. 1 \in 1..Len(q) /\ i + 1 \in 1..Len(q) /\ i + 1 # 1
    BY <1>q, <1>1
  <2>2. q[1].type = "Connect" /\ q[i + 1].type = "Connect"
    BY <1>q, <1>3
  <2> QED
    BY <2>1, <2>2 DEF OneConnect
<1> QED
    BY <1>2, <1>3 DEF Has

LEMMA OneAppend ==
    ASSUME NEW q \in Seq(Frame), NEW f \in Frame, OneConnect(q), f.type = "Connect" => ~Has(q, "Connect")
    PROVE  OneConnect(Append(q, f))
<1> DEFINE r == Append(q, f)
<1>q. /\ Len(q) \in Nat /\ Len(r) = Len(q) + 1
      /\ \A i \in 1..Len(q) : r[i] = q[i]
      /\ r[Len(q) + 1] = f
    BY AppendProps
<1> HIDE DEF r
<1>1. \A i \in 1..Len(r) : i \in 1..Len(q) \/ i = Len(q) + 1
    BY <1>q
<1>2. \A i \in 1..Len(r) : r[i].type = "Connect" /\ f.type = "Connect" => i = Len(q) + 1
    BY <1>q, <1>1 DEF Has
<1>3. OneConnect(r)
    BY <1>q, <1>1, <1>2 DEF OneConnect
<1> QED
    BY <1>3 DEF r

LEMMA OneCut ==
    ASSUME NEW q \in Seq(Frame), NEW k \in 0..Len(q), OneConnect(q)
    PROVE  OneConnect(Cut(q, k))
<1> DEFINE r == Cut(q, k)
<1>q. /\ Len(q) \in Nat /\ Len(r) = k + 1
      /\ \A i \in 1..k : i \in 1..Len(q) /\ r[i] = q[i]
      /\ r[k + 1].type = "LinkClosed"
    BY CutProps
<1> HIDE DEF r
<1>1. \A i \in 1..Len(r) : i \in 1..k \/ i = k + 1
    BY <1>q
<1>2. OneConnect(r)
    BY <1>q, <1>1 DEF OneConnect
<1> QED
    BY <1>2 DEF r

LEMMA ConnectStep == TypeOK /\ StartedInv /\ ConnectInv /\ OrderInv /\ [Next]_vars => ConnectInv'
<1> SUFFICES ASSUME TypeOK, StartedInv, ConnectInv, OrderInv, [Next]_vars PROVE ConnectInv'
    OBVIOUS
<1> DEFINE out == data_sender_buf["client"]
           way == rx["server"]
<1>q. out \in Seq(Frame) /\ way \in Seq(Frame)
    BY Both DEF TypeOK
<1>c. /\ OneConnect(out) /\ OneConnect(way) /\ ~(Has(out, "Connect") /\ Has(way, "Connect"))
      /\ pc["client"] = "accepted" \/ pc["server"] # "none" => ~Has(out, "Connect") /\ ~Has(way, "Connect")
      /\ pc["client"] = "accepted" => pc["server"] = "none"
    BY DEF ConnectInv
<1>f. Flows("client")
    BY FlowStep, Both
<1>1. /\ OneConnect(out') /\ OneConnect(way') /\ ~(Has(out', "Connect") /\ Has(way', "Connect"))
      /\ Has(out', "Connect") \/ Has(way', "Connect") => Has(out, "Connect") \/ Has(way, "Connect") \/ Connect
  <2>1. CASE Still("client")
    BY <1>c, <2>1, Both DEF Still
  <2>2. CASE \E f \in Frame : Puts("client", f)
    <3>1. PICK f \in Frame : Puts("client", f)
      BY <2>2
    <3>2. out' = Append(out, f) /\ way' = way
      BY <3>1, Both DEF Puts
    <3>3. f.type = "Connect" => Connect /\ ~Has(out, "Connect") /\ ~Has(way, "Connect")
      BY <1>c, <3>1 DEF Puts, Connect
    <3>4. OneConnect(Append(out, f)) /\ (Has(Append(out, f), "Connect") <=> Has(out, "Connect") \/ f.type = "Connect")
      BY <1>q, <1>c, <3>3, OneAppend, HasAppend
    <3> QED
      BY <1>c, <3>2, <3>3, <3>4
  <2>3. CASE Sends("client")
    <3>1. /\ out # <<>> /\ out' = Tail(out)
          /\ way' = Append(way, Head(out)) \/ way' = way
      BY <2>3, Both DEF Sends
    <3>2. Head(out) \in Frame
      BY <1>q, <3>1, TailProps
    <3>3. /\ OneConnect(Tail(out)) /\ (Head(out).type = "Connect" => ~Has(Tail(out), "Connect"))
          /\ Has(out, "Connect") <=> Head(out).type = "Connect" \/ Has(Tail(out), "Connect")
      BY <1>q, <1>c, <3>1, OneTail, HasTail
    <3>4. /\ OneConnect(Append(way, Head(out)))
          /\ Has(Append(way, Head(out)), "Connect") <=> Has(way, "Connect") \/ Head(out).type = "Connect"
      BY <1>q, <1>c, <3>2, <3>3, OneAppend, HasAppend
    <3> QED
      BY <1>c, <3>1, <3>3, <3>4
  <2>4. CASE Takes("client")
    <3>1. out' = out /\ way # <<>> /\ way' = Tail(way)
      BY <2>4, Both DEF Takes
    <3>2. /\ OneConnect(Tail(way))
          /\ Has(way, "Connect") <=> Head(way).type = "Connect" \/ Has(Tail(way), "Connect")
      BY <1>q, <1>c, <3>1, OneTail, HasTail
    <3> QED
      BY <1>c, <3>1, <3>2
  <2>5. CASE Uses("client") \/ Clears("client")
    BY <1>c, <2>5, Both DEF Uses, Clears
  <2>6. CASE Loses("client")
    <3>1. PICK k \in 0..Len(way) : way' = Cut(way, k)
      BY <2>6, Both DEF Loses
    <3>2. out' = out
      BY <2>6 DEF Loses
    <3>3. OneConnect(Cut(way, k)) /\ (Has(Cut(way, k), "Connect") => Has(way, "Connect"))
      BY <1>q, <1>c, OneCut, HasCut
    <3> QED
      BY <1>c, <3>1, <3>2, <3>3
  <2> QED
    BY <1>f, <2>1, <2>2, <2>3, <2>4, <2>5, <2>6 DEF Flows
<1>2. Connect => pc'["client"] = "waiting" /\ pc'["server"] = "none"
  <2>1. pc \in [Ends -> {"none", "accepted", "waiting", "binding", "relay", "closing",
                         "dropping", "ended"}]
    BY DEF TypeOK
  <2> QED
    BY <1>c, <2>1, Both DEF Connect, Becomes
<1>3. /\ pc'["client"] = "accepted" => pc["client"] = "accepted"
      /\ pc["server"] = "none" /\ pc'["server"] # "none" =>
            /\ Has(way, "Connect") /\ ~Has(way', "Connect") /\ out' = out
            /\ pc["client"] # "accepted"
  <2>1. pc'["client"] = "accepted" => pc["client"] = "accepted"
    BY TaskStep
  <2>2. ASSUME pc["server"] = "none", pc'["server"] # "none"
        PROVE  Has(way, "Connect") /\ ~Has(way', "Connect") /\ out' = out
    <3>1. way # <<>> /\ Head(way).type = "Connect" /\ way' = Tail(way) /\ out' = out
      BY <2>2, TaskStep
    <3> QED
      BY <1>q, <1>c, <3>1, OneTail, HasTail
  <2> QED
    BY <1>c, <2>1, <2>2
<1> HIDE DEF out, way
<1>4. /\ pc'["client"] = "accepted" \/ pc'["server"] # "none" => ~Has(out', "Connect") /\ ~Has(way', "Connect")
      /\ pc'["client"] = "accepted" => pc'["server"] = "none"
    BY <1>c, <1>1, <1>2, <1>3
<1> QED
    BY <1>1, <1>4 DEF ConnectInv, out, way

-----------------------------------------------------------------------------
(* Datagrams increase all the way.                                         *)
LEMMA RisingTail ==
    ASSUME NEW q \in Seq(Frame), q # <<>>, NEW low, NEW high, Rising(q, low, high)
    PROVE  Rising(Tail(q), low, high)
<1>q. /\ Len(q) \in Nat \ {0} /\ Len(Tail(q)) = Len(q) - 1
      /\ \A i \in 1..Len(Tail(q)) : Tail(q)[i] = q[i + 1]
    BY TailProps
<1>1. \A i \in 1..Len(Tail(q)) : i + 1 \in 1..Len(q)
    BY <1>q
<1>2. \A i, j \in 1..Len(Tail(q)) : j < i => j + 1 < i + 1
    BY <1>q
<1> QED
    BY <1>q, <1>1, <1>2 DEF Rising

LEMMA RisingAppend ==
    ASSUME NEW q \in Seq(Frame), NEW f \in Frame, NEW low \in Nat, NEW high \in Nat, NEW top \in Nat,
           Rising(q, low, high), high <= top, low <= high,
           f.type = "Data" => high < f.n /\ f.n <= top
    PROVE  Rising(Append(q, f), low, top)
<1> DEFINE r == Append(q, f)
<1>q. /\ Len(q) \in Nat /\ Len(r) = Len(q) + 1
      /\ \A i \in 1..Len(q) : r[i] = q[i]
      /\ r[Len(q) + 1] = f
    BY AppendProps
<1>n. f.n \in Nat /\ \A i \in 1..Len(q) : q[i].n \in Nat
  <2>1. \A i \in 1..Len(q) : q[i] \in Frame
    BY ElementOfSeq
  <2> QED
    BY <2>1 DEF Frame
<1> HIDE DEF r
<1>1. ASSUME NEW i \in 1..Len(q), r[i].type = "Data"
      PROVE  /\ low < r[i].n /\ r[i].n <= top
             /\ \A j \in 1..Len(r) : j < i /\ r[j].type = "Data" => r[j].n < r[i].n
  <2>1. r[i] = q[i] /\ low < q[i].n /\ q[i].n <= high
    BY <1>q, <1>1 DEF Rising
  <2>2. \A j \in 1..Len(r) : j < i => j \in 1..Len(q) /\ r[j] = q[j]
    BY <1>q
  <2>3. q[i].n <= top
    BY <1>n, <2>1
  <2> QED
    BY <1>1, <2>1, <2>2, <2>3 DEF Rising
<1>2. ASSUME NEW i \in 1..Len(r), i = Len(q) + 1, r[i].type = "Data"
      PROVE  /\ low < r[i].n /\ r[i].n <= top
             /\ \A j \in 1..Len(r) : j < i /\ r[j].type = "Data" => r[j].n < r[i].n
  <2>1. r[i] = f /\ f.type = "Data" /\ low < f.n /\ f.n <= top /\ high < f.n
    BY <1>q, <1>n, <1>2
  <2>2. ASSUME NEW j \in 1..Len(r), j < i, r[j].type = "Data" PROVE r[j].n < f.n
    <3>1. j \in 1..Len(q) /\ r[j] = q[j]
      BY <1>q, <1>2, <2>2
    <3>2. q[j].n <= high
      BY <2>2, <3>1 DEF Rising
    <3> QED
      BY <1>n, <2>1, <3>1, <3>2
  <2> QED
    BY <2>1, <2>2
<1>3. \A i \in 1..Len(r) : i \in 1..Len(q) \/ i = Len(q) + 1
    BY <1>q
<1>4. Rising(r, low, top)
    BY <1>1, <1>2, <1>3 DEF Rising
<1> QED
    BY <1>4 DEF r

LEMMA RisingCut ==
    ASSUME NEW q \in Seq(Frame), NEW k \in 0..Len(q), NEW low, NEW high, Rising(q, low, high)
    PROVE  Rising(Cut(q, k), low, high)
<1> DEFINE r == Cut(q, k)
<1>q. /\ Len(q) \in Nat /\ Len(r) = k + 1
      /\ \A i \in 1..k : i \in 1..Len(q) /\ r[i] = q[i]
      /\ r[k + 1].type = "LinkClosed"
    BY CutProps
<1> HIDE DEF r
<1>1. \A i \in 1..Len(r) : r[i].type = "Data" => i \in 1..k
    BY <1>q
<1>2. Rising(r, low, high)
    BY <1>q, <1>1 DEF Rising
<1> QED
    BY <1>2 DEF r

(* The first frame of a queue moves the bound of that queue.               *)
LEMMA RisingRest ==
    ASSUME NEW q \in Seq(Frame), q # <<>>, NEW low \in Nat, NEW high \in Nat, low <= high,
           Rising(q, low, high)
    PROVE  \E m \in Nat :
              /\ low <= m /\ m <= high /\ Rising(Tail(q), m, high)
              /\ Head(q).type = "Data" => low < Head(q).n /\ Head(q).n = m
<1>q. /\ Len(q) \in Nat \ {0} /\ Len(Tail(q)) = Len(q) - 1 /\ Head(q) = q[1] /\ Head(q) \in Frame
      /\ \A i \in 1..Len(Tail(q)) : Tail(q)[i] = q[i + 1]
    BY TailProps
<1>t. Rising(Tail(q), low, high)
    BY RisingTail
<1>1. CASE Head(q).type # "Data"
    BY <1>1, <1>t
<1>2. CASE Head(q).type = "Data"
  <2> DEFINE m == Head(q).n
  <2>1. m \in Nat /\ 1 \in 1..Len(q)
    BY <1>q DEF Frame
  <2>2. low < m /\ m <= high
    BY <1>q, <1>2, <2>1 DEF Rising
  <2>3. ASSUME NEW i \in 1..Len(Tail(q)), Tail(q)[i].type = "Data" PROVE m < Tail(q)[i].n
    <3>1. i + 1 \in 1..Len(q) /\ 1 < i + 1 /\ Tail(q)[i] = q[i + 1]
      BY <1>q
    <3> QED
      BY <1>q, <1>2, <2>1, <2>3, <3>1 DEF Rising
  <2> HIDE DEF m
  <2>4. Rising(Tail(q), m, high)
    BY <1>t, <2>3 DEF Rising
  <2>5. low <= m
    BY <2>1, <2>2
  <2> QED
    BY <2>1, <2>2, <2>4, <2>5 DEF m
<1> QED
    BY <1>1, <1>2

LEMMA DeliveredAppend ==
    ASSUME NEW d \in Seq(Nat), NEW n \in Nat, NEW high \in Nat, Delivered(d, high), high < n
    PROVE  Delivered(Append(d, n), n)
<1> DEFINE r == Append(d, n)
<1>q. /\ Len(d) \in Nat /\ Len(r) = Len(d) + 1
      /\ \A i \in 1..Len(d) : r[i] = d[i]
      /\ r[Len(d) + 1] = n
    BY AppendProps
<1>n. \A i \in 1..Len(d) : d[i] \in Nat
    BY ElementOfSeq
<1> HIDE DEF r
<1>1. \A i \in 1..Len(r) : i \in 1..Len(d) \/ i = Len(d) + 1
    BY <1>q
<1>2. \A i \in 1..Len(d) : r[i] <= high /\ r[i] < n /\ r[i] <= n
    BY <1>q, <1>n DEF Delivered
<1>3. \A i \in 1..Len(r) : r[i] <= n
    BY <1>q, <1>1, <1>2
<1>4. ASSUME NEW i \in 1..Len(r), NEW j \in 1..Len(r), j < i PROVE r[j] < r[i]
  <2>1. j \in 1..Len(d)
    BY <1>q, <1>4
  <2>2. CASE i \in 1..Len(d)
    BY <1>q, <1>4, <2>1, <2>2 DEF Delivered
  <2>3. CASE i = Len(d) + 1
    BY <1>q, <1>2, <2>1, <2>3
  <2> QED
    BY <1>1, <2>2, <2>3
<1>5. Delivered(r, n)
    BY <1>3, <1>4 DEF Delivered
<1> QED
    BY <1>5 DEF r

(* The transitions of one direction keep its order.                        *)
LEMMA OrderFlows ==
    ASSUME TypeOK, OrderInv, NEW e \in Ends, Flows(e)
    PROVE  Ordered(delivered'[Peer(e)], inbox'[Peer(e)], rx'[Peer(e)], data_sender_buf'[e], Queued(e)')
<1> DEFINE p == Peer(e)
           d == delivered[p]
           in == inbox[p]
           way == rx[p]
           out == data_sender_buf[e]
           queued == Queued(e)
<1>q. /\ p \in Ends /\ d \in Seq(Nat) /\ in \in Seq(Frame) /\ way \in Seq(Frame) /\ out \in Seq(Frame)
    BY Peers DEF TypeOK
<1>n. queued \in Nat
  <2>1. read[e] \in Nat /\ (holding[e] # "none" => read[e] > 0)
    BY DEF TypeOK, OrderInv
  <2> QED
    BY <2>1 DEF Queued
<1>o. PICK a, b, c \in 0..queued :
          /\ a <= b /\ b <= c
          /\ Delivered(d, a) /\ Rising(in, a, b) /\ Rising(way, b, c) /\ Rising(out, c, queued)
    BY DEF OrderInv, Ordered
<1>r. a \in Nat /\ b \in Nat /\ c \in Nat /\ c <= queued
    BY <1>n, <1>o
<1> HIDE DEF p, d, in, way, out, queued
<1> SUFFICES Ordered(d', in', way', out', queued')
    BY DEF p, d, in, way, out, queued
<1>w. ASSUME NEW x \in Nat, NEW y \in Nat, NEW z \in Nat, NEW top \in Nat,
             x <= y, y <= z, z <= top, queued' = top,
             Delivered(d', x), Rising(in', x, y), Rising(way', y, z), Rising(out', z, top)
      PROVE  Ordered(d', in', way', out', queued')
  <2>1. x \in 0..top /\ y \in 0..top /\ z \in 0..top
    BY <1>w
  <2> QED
    BY <1>w, <2>1 DEF Ordered
<1>1. CASE Still(e)
  <2>1. d' = d /\ in' = in /\ way' = way /\ out' = out /\ queued' = queued
    BY <1>1 DEF Still, Pass, p, d, in, way, out, queued
  <2> QED
    BY <1>n, <1>o, <1>r, <1>w, <2>1
<1>2. CASE \E f \in Frame : Puts(e, f)
  <2>1. PICK f \in Frame : Puts(e, f)
    BY <1>2
  <2>2. /\ d' = d /\ in' = in /\ way' = way /\ out' = Append(out, f)
        /\ \/ f.type = "Data" /\ f.n = queued + 1 /\ queued' = queued + 1
           \/ f.type # "Data" /\ queued' = queued
    BY <2>1 DEF Puts, Pass, p, d, in, way, out, queued
  <2>3. /\ queued' \in Nat /\ queued <= queued' /\ c <= queued'
        /\ f.type = "Data" => queued < f.n /\ f.n <= queued'
    BY <1>n, <1>r, <2>2
  <2>4. Rising(Append(out, f), c, queued')
    BY <1>q, <1>n, <1>o, <1>r, <2>3, RisingAppend
  <2> QED
    BY <1>o, <1>r, <1>w, <2>2, <2>3, <2>4
<1>3. CASE Sends(e)
  <2>1. /\ d' = d /\ in' = in /\ out # <<>> /\ out' = Tail(out) /\ queued' = queued
        /\ way' = Append(way, Head(out)) \/ way' = way
    BY <1>3 DEF Sends, Pass, p, d, in, way, out, queued
  <2>2. PICK m \in Nat : /\ c <= m /\ m <= queued /\ Rising(Tail(out), m, queued)
                         /\ Head(out).type = "Data" => c < Head(out).n /\ Head(out).n = m
    BY <1>q, <1>n, <1>o, <1>r, <2>1, RisingRest
  <2>3. Head(out) \in Frame /\ Rising(Tail(out), c, queued)
    BY <1>q, <1>o, <2>1, TailProps, RisingTail
  <2>4. b <= m
    BY <1>o, <1>r, <2>2
  <2>6. Head(out).type = "Data" => c < Head(out).n /\ Head(out).n <= m
    BY <2>2
  <2>5. Rising(Append(way, Head(out)), b, m)
    BY <1>q, <1>o, <1>r, <2>2, <2>3, <2>6, RisingAppend
  <2>7. CASE way' = way
    BY <1>n, <1>o, <1>r, <1>w, <2>1, <2>3, <2>7
  <2>8. CASE way' = Append(way, Head(out))
    BY <1>n, <1>o, <1>r, <1>w, <2>1, <2>2, <2>4, <2>5, <2>8
  <2> QED
    BY <2>1, <2>7, <2>8
<1>4. CASE Takes(e)
  <2>1. /\ d' = d /\ out' = out /\ way # <<>> /\ way' = Tail(way) /\ queued' = queued
        /\ in' = Append(in, Head(way)) \/ in' = in
    BY <1>4 DEF Takes, Pass, p, d, in, way, out, queued
  <2>2. PICK m \in Nat : /\ b <= m /\ m <= c /\ Rising(Tail(way), m, c)
                         /\ Head(way).type = "Data" => b < Head(way).n /\ Head(way).n = m
    BY <1>q, <1>o, <1>r, <2>1, RisingRest
  <2>3. Head(way) \in Frame /\ Rising(Tail(way), b, c)
    BY <1>q, <1>o, <2>1, TailProps, RisingTail
  <2>4. a <= m
    BY <1>o, <1>r, <2>2
  <2>6. Head(way).type = "Data" => b < Head(way).n /\ Head(way).n <= m
    BY <2>2
  <2>5. Rising(Append(in, Head(way)), a, m)
    BY <1>q, <1>o, <1>r, <2>2, <2>3, <2>6, RisingAppend
  <2>7. CASE in' = in
    BY <1>n, <1>o, <1>r, <1>w, <2>1, <2>3, <2>7
  <2>8. CASE in' = Append(in, Head(way))
    BY <1>n, <1>o, <1>r, <1>w, <2>1, <2>2, <2>4, <2>5, <2>8
  <2> QED
    BY <2>1, <2>7, <2>8
<1>5. CASE Uses(e)
  <2>1. /\ way' = way /\ out' = out /\ in # <<>> /\ in' = Tail(in) /\ queued' = queued
        /\ d' = d \/ (Head(in).type = "Data" /\ d' = Append(d, Head(in).n))
    BY <1>5 DEF Uses, Pass, p, d, in, way, out, queued
  <2>2. PICK m \in Nat : /\ a <= m /\ m <= b /\ Rising(Tail(in), m, b)
                         /\ Head(in).type = "Data" => a < Head(in).n /\ Head(in).n = m
    BY <1>q, <1>o, <1>r, <2>1, RisingRest
  <2>3. Rising(Tail(in), a, b)
    BY <1>q, <1>o, <2>1, RisingTail
  <2>7. CASE d' = d
    BY <1>n, <1>o, <1>r, <1>w, <2>1, <2>3, <2>7
  <2>8. CASE Head(in).type = "Data" /\ d' = Append(d, Head(in).n)
    <3>1. Delivered(d', m)
      BY <1>q, <1>o, <1>r, <2>2, <2>8, DeliveredAppend
    <3> QED
      BY <1>n, <1>o, <1>r, <1>w, <2>1, <2>2, <3>1
  <2> QED
    BY <2>1, <2>7, <2>8
<1>6. CASE Clears(e)
  <2>1. d' = d /\ in' = <<>> /\ way' = way /\ out' = out /\ queued' = queued
    BY <1>6 DEF Clears, Pass, p, d, in, way, out, queued
  <2>2. Rising(<<>>, a, b)
    BY EmptySeq DEF Rising
  <2> QED
    BY <1>n, <1>o, <1>r, <1>w, <2>1, <2>2
<1>7. CASE Loses(e)
  <2>1. d' = d /\ in' = in /\ out' = out /\ queued' = queued /\ \E k \in 0..Len(way) : way' = Cut(way, k)
    BY <1>7 DEF Loses, Pass, p, d, in, way, out, queued
  <2>2. Rising(way', b, c)
    BY <1>q, <1>o, <2>1, RisingCut
  <2> QED
    BY <1>n, <1>o, <1>r, <1>w, <2>1, <2>2
<1> QED
    BY <1>1, <1>2, <1>3, <1>4, <1>5, <1>6, <1>7 DEF Flows

LEMMA OrderInit == Init => OrderInv
<1> SUFFICES ASSUME Init, NEW e \in Ends
             PROVE  /\ holding[e] # "none" => read[e] > 0
                    /\ Ordered(delivered[Peer(e)], inbox[Peer(e)], rx[Peer(e)], data_sender_buf[e], Queued(e))
    BY DEF OrderInv
<1>1. /\ holding[e] = "none" /\ read[e] = 0 /\ data_sender_buf[e] = <<>>
      /\ delivered[Peer(e)] = <<>> /\ inbox[Peer(e)] = <<>> /\ rx[Peer(e)] = <<>>
    BY Peers DEF Init
<1>2. Rising(<<>>, 0, 0) /\ Delivered(<<>>, 0)
    BY EmptySeq DEF Rising, Delivered
<1>3. 0 \in 0..0 /\ 0 <= 0
    OBVIOUS
<1> QED
    BY <1>1, <1>2, <1>3 DEF Ordered, Queued

LEMMA HoldingStep ==
    ASSUME TypeOK, OrderInv, [Next]_vars, NEW e \in Ends, holding'[e] # "none"
    PROVE  read'[e] > 0
<1>q. holding \in [Ends -> {"none", "read", "sending"}] /\ read \in [Ends -> Nat]
    BY DEF TypeOK
<1>o. holding[e] # "none" => read[e] > 0
    BY DEF OrderInv
<1>1. CASE UNCHANGED <<holding, read>>
    BY <1>o, <1>1
<1>2. ASSUME NEW x \in Ends, Reads(x) PROVE read'[e] > 0
    BY <1>q, <1>o, <1>2 DEF Reads
<1>3. CASE LocksPort
  <2>1. read' = read /\ holding["client"] # "none" /\ holding' = [holding EXCEPT !["client"] = "sending"]
    BY <1>3 DEF LocksPort
  <2> QED
    BY <1>q, <1>o, <2>1
<1>4. ASSUME NEW x \in Ends, SendsData(x) PROVE read'[e] > 0
    BY <1>q, <1>o, <1>4 DEF SendsData
<1>5. ASSUME NEW x \in Ends, NEW task, TaskEnds(x, task) PROVE UNCHANGED <<holding, read>>
    BY <1>5 DEF TaskEnds, socketVars
<1>6. TcpEnds \/ (\E x \in Ends : ReadEnds(x) \/ WriteFails(x) \/ GetsClose(x) \/ ChannelCloses(x))
      => UNCHANGED <<holding, read>>
    BY <1>5, Both DEF TcpEnds, ReadEnds, WriteFails, GetsClose, ChannelCloses
<1>7. LinkGoesDown \/ Connect \/ GetsOk \/ ReplyFails \/ GetsNoOk \/ Binds \/ BindFails
      \/ UNCHANGED vars
      => UNCHANGED <<holding, read>>
    BY DEF LinkGoesDown, Connect, GetsOk, ReplyFails, GetsNoOk, Binds, BindFails, vars, socketVars
<1>8. (\E x \in Ends : Sender(x) \/ EventLoop(x) \/ Writes(x) \/ OwnSteps(x)) => UNCHANGED <<holding, read>>
    BY SenderTakes
    DEF EventLoop, Dispatches, LosesLink, ServerConnects, Writes, OwnSteps, Closes, DropsSession,
        socketVars
<1> QED
    BY <1>1, <1>2, <1>3, <1>4, <1>6, <1>7, <1>8 DEF Next, ReaderSteps, WriterSteps

LEMMA OrderStep == TypeOK /\ StartedInv /\ OrderInv /\ [Next]_vars => OrderInv'
<1> SUFFICES ASSUME TypeOK, StartedInv, OrderInv, [Next]_vars, NEW e \in Ends
             PROVE  /\ holding'[e] # "none" => read'[e] > 0
                    /\ Ordered(delivered'[Peer(e)], inbox'[Peer(e)], rx'[Peer(e)], data_sender_buf'[e],
                               Queued(e)')
    BY DEF OrderInv
<1> QED
    BY FlowStep, OrderFlows, HoldingStep

-----------------------------------------------------------------------------
(* Nothing follows the CLOSE.                                              *)
LEMMA BehindTail ==
    ASSUME NEW q \in Seq(Frame), q # <<>>, NEW after, Behind(q, after)
    PROVE  /\ Head(q).type = "Data" => ~(Head(q).n > after)
           /\ Head(q).type # "Close" => Behind(Tail(q), after)
<1>q. /\ Len(q) \in Nat \ {0} /\ Len(Tail(q)) = Len(q) - 1 /\ Head(q) = q[1]
      /\ \A i \in 1..Len(Tail(q)) : Tail(q)[i] = q[i + 1]
    BY TailProps
<1>1. Head(q).type = "Data" => ~(Head(q).n > after)
  <2>1. 1 \in 1..Len(q) /\ \A j \in 1..Len(q) : ~(j < 1)
    BY <1>q
  <2> QED
    BY <1>q, <2>1 DEF Behind
<1>2. ASSUME Head(q).type # "Close", NEW i \in 1..Len(Tail(q)), Tail(q)[i].type = "Data", Tail(q)[i].n > after
      PROVE  \E j \in 1..Len(Tail(q)) : j < i /\ Tail(q)[j].type = "Close"
  <2>1. i + 1 \in 1..Len(q) /\ Tail(q)[i] = q[i + 1]
    BY <1>q
  <2>2. PICK j \in 1..Len(q) : j < i + 1 /\ q[j].type = "Close"
    BY <1>2, <2>1 DEF Behind
  <2>3. j # 1
    BY <1>q, <1>2, <2>2
  <2>4. j - 1 \in 1..Len(Tail(q)) /\ j - 1 < i /\ Tail(q)[j - 1] = q[j]
    BY <1>q, <2>2, <2>3
  <2> QED
    BY <2>2, <2>4
<1> QED
    BY <1>1, <1>2 DEF Behind

LEMMA BehindAppend ==
    ASSUME NEW q \in Seq(Frame), NEW f \in Frame, NEW after, Behind(q, after),
           (f.type = "Data" /\ f.n > after) => Has(q, "Close")
    PROVE  Behind(Append(q, f), after)
<1> DEFINE r == Append(q, f)
<1>q. /\ Len(q) \in Nat /\ Len(r) = Len(q) + 1
      /\ \A i \in 1..Len(q) : r[i] = q[i]
      /\ r[Len(q) + 1] = f
    BY AppendProps
<1> HIDE DEF r
<1>1. \A i \in 1..Len(r) : i \in 1..Len(q) \/ i = Len(q) + 1
    BY <1>q
<1>2. ASSUME NEW i \in 1..Len(q), r[i].type = "Data", r[i].n > after
      PROVE  \E j \in 1..Len(r) : j < i /\ r[j].type = "Close"
  <2>1. PICK j \in 1..Len(q) : j < i /\ q[j].type = "Close"
    BY <1>q, <1>2 DEF Behind
  <2>2. j \in 1..Len(r) /\ r[j] = q[j]
    BY <1>q
  <2> QED
    BY <2>1, <2>2
<1>3. ASSUME f.type = "Data", f.n > after
      PROVE  \E j \in 1..Len(r) : j < Len(q) + 1 /\ r[j].type = "Close"
  <2>1. PICK j \in 1..Len(q) : q[j].type = "Close"
    BY <1>3 DEF Has
  <2>2. j \in 1..Len(r) /\ r[j] = q[j] /\ j < Len(q) + 1
    BY <1>q
  <2> QED
    BY <2>1, <2>2
<1>4. Behind(r, after)
    BY <1>q, <1>1, <1>2, <1>3 DEF Behind
<1> QED
    BY <1>4 DEF r

LEMMA BehindCut ==
    ASSUME NEW q \in Seq(Frame), NEW k \in 0..Len(q), NEW after, Behind(q, after)
    PROVE  Behind(Cut(q, k), after)
<1> DEFINE r == Cut(q, k)
<1>q. /\ Len(q) \in Nat /\ Len(r) = k + 1
      /\ \A i \in 1..k : i \in 1..Len(q) /\ r[i] = q[i]
      /\ r[k + 1].type = "LinkClosed"
    BY CutProps
<1> HIDE DEF r
<1>1. \A i \in 1..Len(r) : r[i].type = "Data" => i \in 1..k
    BY <1>q
<1>2. ASSUME NEW i \in 1..k, r[i].type = "Data", r[i].n > after
      PROVE  \E j \in 1..Len(r) : j < i /\ r[j].type = "Close"
  <2>1. PICK j \in 1..Len(q) : j < i /\ q[j].type = "Close"
    BY <1>q, <1>2 DEF Behind
  <2>2. j \in 1..Len(r) /\ r[j] = q[j]
    BY <1>q, <2>1
  <2> QED
    BY <2>1, <2>2
<1>3. Behind(r, after)
    BY <1>1, <1>2 DEF Behind
<1> QED
    BY <1>3 DEF r

LEMMA RisingBehind ==
    ASSUME NEW q \in Seq(Frame), NEW low, NEW high \in Nat, NEW after \in Nat,
           Rising(q, low, high), high <= after
    PROVE  Behind(q, after)
<1>1. \A i \in 1..Len(q) : q[i].n \in Nat
  <2>1. \A i \in 1..Len(q) : q[i] \in Frame
    BY ElementOfSeq
  <2> QED
    BY <2>1 DEF Frame
<1>2. \A i \in 1..Len(q) : q[i].type = "Data" => ~(q[i].n > after)
    BY <1>1 DEF Rising
<1> QED
    BY <1>2 DEF Behind

(* A session that takes no more frames never takes frames again, since     *)
(* there is no second CONNECT.                                             *)
LEMMA ShutStays ==
    ASSUME TypeOK, StartedInv, ConnectInv, [Next]_vars, NEW p \in Ends, Shut(p)
    PROVE  Shut(p)'
<1>q. /\ pc \in [Ends -> {"none", "accepted", "waiting", "binding", "relay", "closing",
                          "dropping", "ended"}]
      /\ tasks \in [Ends -> SUBSET {Reader, Writer, TcpCheck}]
      /\ registered \in [Ends -> BOOLEAN] /\ rx \in [Ends -> Seq(Frame)]
      /\ "client" \in Ends /\ "server" \in Ends
    BY Both DEF TypeOK
<1>s. pc[p] # "none" /\ ~(registered[p] /\ Receiving(p))
    BY DEF Shut
<1>1. CASE UNCHANGED <<pc, tasks, registered>>
    BY <1>s, <1>1 DEF Shut, Receiving
<1>2. CASE Connect \/ GetsOk \/ ReplyFails \/ GetsNoOk
  <2>1. /\ registered' = registered /\ pc["client"] \in {"accepted", "waiting"}
        /\ \E w \in {"waiting", "relay", "closing", "dropping", "ended"} :
              pc' = [pc EXCEPT !["client"] = w]
        /\ tasks' = tasks \/ \E S : tasks' = [tasks EXCEPT !["client"] = S]
    BY <1>2 DEF Connect, GetsOk, ReplyFails, GetsNoOk, Becomes
  <2>2. Receiving("client")
    BY <2>1 DEF Receiving
  <2>3. CASE p = "client"
    BY <1>q, <1>s, <2>1, <2>2, <2>3 DEF Shut
  <2>4. CASE p # "client"
    BY <1>q, <1>s, <2>1, <2>4 DEF Shut, Receiving
  <2> QED
    BY <2>3, <2>4
<1>3. CASE Binds \/ BindFails
  <2>1. /\ registered' = registered /\ pc["server"] = "binding"
        /\ \E w \in {"relay", "dropping"} : pc' = [pc EXCEPT !["server"] = w]
        /\ tasks' = tasks \/ \E S : tasks' = [tasks EXCEPT !["server"] = S]
    BY <1>3 DEF Binds, BindFails, Becomes
  <2>2. Receiving("server")
    BY <2>1 DEF Receiving
  <2>3. CASE p = "server"
    BY <1>q, <1>s, <2>1, <2>2, <2>3 DEF Shut
  <2>4. CASE p # "server"
    BY <1>q, <1>s, <2>1, <2>4 DEF Shut, Receiving
  <2> QED
    BY <2>3, <2>4
<1>4. ASSUME NEW x \in Ends, NEW task, TaskEnds(x, task) PROVE Shut(p)'
  <2>1. /\ registered' = registered /\ tasks' = [tasks EXCEPT ![x] = @ \ {task}]
        /\ pc' = pc \/ pc' = [pc EXCEPT ![x] = "closing"]
    BY <1>4 DEF TaskEnds
  <2> QED
    BY <1>q, <1>s, <2>1 DEF Shut, Receiving
<1>5. CASE TcpEnds \/ \E x \in Ends : ReadEnds(x) \/ WriteFails(x) \/ GetsClose(x) \/ ChannelCloses(x)
    BY <1>4, <1>5, Both DEF TcpEnds, ReadEnds, WriteFails, GetsClose, ChannelCloses
<1>6. ASSUME NEW x \in Ends, OwnSteps(x) PROVE Shut(p)'
  <2>1. /\ registered' = registered \/ registered' = [registered EXCEPT ![x] = FALSE]
        /\ tasks' = tasks /\ \E w \in {"dropping", "ended"} : pc' = [pc EXCEPT ![x] = w]
    BY <1>6 DEF OwnSteps, Closes, DropsSession, Becomes
  <2> QED
    BY <1>q, <1>s, <2>1 DEF Shut, Receiving
<1>7. CASE ServerConnects
  <2>1. /\ rx["server"] # <<>> /\ Head(rx["server"]).type = "Connect"
        /\ registered' = [registered EXCEPT !["server"] = TRUE]
        /\ pc' = [pc EXCEPT !["server"] = "binding"] /\ tasks' = tasks
    BY <1>7 DEF ServerConnects, Gets, Becomes
  <2>2. Has(rx["server"], "Connect")
    BY <1>q, <2>1, HasTail
  <2>3. p # "server"
    BY <1>s, <2>2 DEF ConnectInv
  <2> QED
    BY <1>q, <1>s, <2>1, <2>3 DEF Shut, Receiving
<1>8. ASSUME NEW x \in Ends, LosesLink(x) PROVE Shut(p)'
  <2>1. /\ registered' = registered \/ registered' = [registered EXCEPT ![x] = FALSE]
        /\ tasks' = tasks /\ pc' = pc
    BY <1>q, <1>8 DEF LosesLink
  <2> QED
    BY <1>q, <1>s, <2>1 DEF Shut, Receiving
<1>9. LinkGoesDown \/ UNCHANGED vars
      \/ (\E x \in Ends : Sender(x) \/ Dispatches(x) \/ Reads(x) \/ SendsData(x) \/ Writes(x))
      \/ LocksPort
      => UNCHANGED <<pc, tasks, registered>>
    BY SenderTakes DEF LinkGoesDown, Dispatches, Reads, LocksPort, SendsData, Writes, vars
<1> QED
    BY <1>1, <1>2, <1>3, <1>5, <1>6, <1>7, <1>8, <1>9 DEF Next, EventLoop, ReaderSteps, WriterSteps

(* What carries no frames any more never carries frames again, since there *)
(* is one link; and what RNS lost stays lost.                              *)
LEMMA LinkStaysDown ==
    ASSUME TypeOK, [Next]_vars, NEW e \in Ends
    PROVE  (~Carries(e) => ~Carries(e)') /\ (e \in close_lost => e \in close_lost')
<1> DEFINE Falls == /\ link_up' => link_up
                    /\ attached' = attached \/ \E x \in Ends : attached' = [attached EXCEPT ![x] = FALSE]
                    /\ close_lost \subseteq close_lost'
<1>1. \A x, task : TaskEnds(x, task) => Falls
    BY DEF TaskEnds, linkVars
<1>2. TcpEnds \/ (\E x \in Ends : ReadEnds(x) \/ WriteFails(x) \/ GetsClose(x) \/ ChannelCloses(x))
      => Falls
    BY <1>1 DEF TcpEnds, ReadEnds, WriteFails, GetsClose, ChannelCloses
<1>3. Connect \/ GetsOk \/ ReplyFails \/ GetsNoOk \/ Binds \/ BindFails \/ LocksPort \/ UNCHANGED vars
      => Falls
    BY DEF Connect, GetsOk, ReplyFails, GetsNoOk, Binds, BindFails, LocksPort, vars, linkVars
<1>4. (\E x \in Ends : Dispatches(x) \/ Reads(x) \/ SendsData(x) \/ Writes(x) \/ OwnSteps(x))
      \/ ServerConnects \/ LinkGoesDown => Falls
    BY DEF Dispatches, ServerConnects, Reads, SendsData, Writes, OwnSteps, Closes, DropsSession,
           LinkGoesDown, linkVars
<1>5. ASSUME NEW x \in Ends, Sender(x) PROVE Falls
    BY <1>5, SenderTakes
<1>6. ASSUME NEW x \in Ends, LosesLink(x) PROVE Falls
    BY <1>6 DEF LosesLink, TypeOK
<1>7. Falls
    BY <1>2, <1>3, <1>4, <1>5, <1>6 DEF Next, EventLoop, ReaderSteps, WriterSteps
<1>8. attached'[e] => attached[e]
    BY <1>7 DEF TypeOK
<1> QED
    BY <1>7, <1>8 DEF Carries

(* The transitions of one direction keep what is sent after the CLOSE from *)
(* the socket.                                                             *)
LEMMA CloseFlows ==
    ASSUME IInv, [Next]_vars, NEW e \in Ends, e \notin close_lost'
    PROVE  Stopped(delivered'[Peer(e)], inbox'[Peer(e)], rx'[Peer(e)], data_sender_buf'[e],
                   closed_after'[e], Datagrams, Shut(Peer(e))', Carries(e)')
<1> DEFINE p == Peer(e)
           d == delivered[p]
           in == inbox[p]
           way == rx[p]
           out == data_sender_buf[e]
           after == closed_after[e]
           max == Datagrams
           shut == Shut(p)
           carries == Carries(e)
<1>i. TypeOK /\ StartedInv /\ ConnectInv /\ OrderInv /\ CloseInv
    BY DEF IInv
<1>q. /\ p \in Ends /\ d \in Seq(Nat) /\ in \in Seq(Frame) /\ way \in Seq(Frame) /\ out \in Seq(Frame)
      /\ after \in Nat /\ max \in Nat 
    BY <1>i, Peers, UdpRelayAssumption DEF TypeOK
<1>f. Flows(e)
    BY <1>i, FlowStep
<1>s. (shut => shut') /\ (~carries => ~carries')
    BY <1>i, <1>q, ShutStays, LinkStaysDown
<1>c. /\ \A i \in 1..Len(d) : d[i] <= after
      /\ Behind(in, after)
      /\ Has(in, "Close") \/ shut \/ Behind(way, after)
      /\ Has(in, "Close") \/ shut \/ Has(way, "Close") \/ ~carries \/ Behind(out, after)
      /\ after < max => Has(in, "Close") \/ shut \/ Has(way, "Close") \/ ~carries \/ Has(out, "Close")
    BY <1>i, LinkStaysDown DEF CloseInv, Stopped
<1> SUFFICES Stopped(d', in', way', out', after', max, shut', carries')
    OBVIOUS
<1>1. CASE Still(e)
  <2>1. d' = d /\ in' = in /\ way' = way /\ out' = out /\ after' = after
    BY <1>1 DEF Still, Pass
  <2> HIDE DEF p, d, in, way, out, after, max, shut, carries
  <2> QED
    BY <1>c, <1>s, <2>1 DEF Stopped
<1>2. CASE \E f \in Frame : Puts(e, f)
  <2>1. PICK f \in Frame : Puts(e, f)
    BY <1>2
  <2>2. d' = d /\ in' = in /\ way' = way /\ out' = Append(out, f)
    BY <2>1 DEF Puts
  <2>3. Has(out', "Close") <=> Has(out, "Close") \/ f.type = "Close"
    BY <1>q, <2>2, HasAppend
  <2>4. CASE f.type = "Data"
    <3>1. after' = after /\ f.n = Queued(e) + 1 /\ holding[e] = "sending"
      BY <2>1, <2>4 DEF Puts
    <3>2. f.n <= max
      <4>1. f.n = read[e] /\ read[e] <= max
        BY <1>i, <3>1, ReadBound DEF Queued
      <4> QED
        BY <4>1
    <3> HIDE DEF p, d, in, way, out, after, max, shut, carries
    <3>3. f.n > after => after < max
      <4>1. f.n \in Nat
        BY DEF Frame
      <4> QED
        BY <1>q, <3>2, <4>1
    <3>4. Has(in, "Close") \/ shut \/ Has(way, "Close") \/ ~carries \/ Behind(Append(out, f), after)
      BY <1>q, <1>c, <3>3, BehindAppend
    <3> QED
      BY <1>c, <1>s, <2>2, <2>3, <3>1, <3>4 DEF Stopped
  <2>5. CASE f.type = "Close"
    <3>1. after' = Queued(e)
      BY <2>1, <2>5 DEF Puts
    <3>2. PICK a, b, c \in 0..Queued(e) :
              /\ Delivered(d, a) /\ Rising(in, a, b) /\ Rising(way, b, c) /\ Rising(out, c, Queued(e))
      BY <1>i DEF OrderInv, Ordered
    <3>3. Queued(e) \in Nat
      <4>1. read[e] \in Nat /\ (holding[e] # "none" => read[e] > 0)
        BY <1>i DEF TypeOK, OrderInv
      <4> QED
        BY <4>1 DEF Queued
    <3>4. Has(out', "Close")
      BY <2>3, <2>5
    <3> HIDE DEF p, d, in, way, out, after, max, shut, carries
    <3>5. a \in Nat /\ b \in Nat /\ c \in Nat /\ a <= Queued(e) /\ b <= Queued(e) /\ c <= Queued(e)
      BY <3>2, <3>3
    <3>6. \A i \in 1..Len(d) : d[i] <= Queued(e)
      <4>1. \A i \in 1..Len(d) : d[i] \in Nat /\ d[i] <= a
        BY <1>q, <3>2, ElementOfSeq DEF Delivered
      <4> QED
        BY <3>3, <3>5, <4>1
    <3>7. Behind(in, Queued(e)) /\ Behind(way, Queued(e))
      BY <1>q, <3>2, <3>3, <3>5, RisingBehind
    <3>8. Behind(out, Queued(e))
      BY <1>q, <3>2, <3>3, RisingBehind
    <3>9. Behind(Append(out, f), Queued(e))
      BY <1>q, <2>5, <3>8, BehindAppend
    <3> QED
      BY <2>2, <3>1, <3>4, <3>6, <3>7, <3>9 DEF Stopped
  <2>6. CASE f.type \notin {"Data", "Close"}
    <3>1. after' = after
      BY <2>1, <2>6 DEF Puts, Pass
    <3> HIDE DEF p, d, in, way, out, after, max, shut, carries
    <3>2. Behind(out, after) => Behind(Append(out, f), after)
      BY <1>q, <2>6, BehindAppend
    <3> QED
      BY <1>c, <1>s, <2>2, <2>3, <3>1, <3>2 DEF Stopped
  <2> QED
    BY <2>4, <2>5, <2>6
<1>3. CASE Sends(e)
  <2>1. /\ d' = d /\ in' = in /\ after' = after /\ out # <<>> /\ out' = Tail(out)
        /\ \/ carries /\ way' = Append(way, Head(out))
           \/ way' = way /\ (~carries' \/ Head(out).type # "Close")
    BY <1>3 DEF Sends, Pass
  <2> HIDE DEF p, d, in, way, out, after, max, shut, carries
  <2>2. Head(out) \in Frame
    BY <1>q, <2>1, TailProps
  <2>3. CASE way' = way /\ ~carries'
    BY <1>c, <1>s, <2>1, <2>3 DEF Stopped
  <2>5. CASE way' = way /\ Head(out).type # "Close"
    <3>1. Has(out, "Close") <=> Has(out', "Close")
      BY <1>q, <2>1, <2>5, HasTail
    <3>2. Behind(out, after) => Behind(out', after)
      BY <1>q, <2>1, <2>5, BehindTail
    <3> QED
      BY <1>c, <1>s, <2>1, <2>5, <3>1, <3>2 DEF Stopped
  <2>4. CASE carries /\ way' = Append(way, Head(out))
    <3>1. way' = Append(way, Head(out))
      BY <2>4
    <3>2. /\ Has(way', "Close") <=> Has(way, "Close") \/ Head(out).type = "Close"
          /\ Has(out, "Close") <=> Head(out).type = "Close" \/ Has(out', "Close")
      BY <1>q, <2>1, <2>2, <3>1, HasAppend, HasTail
    <3>3. Behind(out, after) => /\ Head(out).type = "Data" => ~(Head(out).n > after)
                                /\ Head(out).type # "Close" => Behind(out', after)
      BY <1>q, <2>1, BehindTail
    <3>4. ASSUME Behind(way, after), Has(way, "Close") \/ Behind(out, after)
          PROVE  Behind(way', after)
      BY <1>q, <2>2, <3>1, <3>3, <3>4, BehindAppend
    <3>5. Has(in, "Close") \/ shut' \/ Behind(way', after)
      BY <1>c, <1>s, <2>4, <3>4
    <3>6. Has(in, "Close") \/ shut' \/ Has(way', "Close") \/ Behind(out', after)
      BY <1>c, <1>s, <2>4, <3>2, <3>3
    <3>7. after < max => Has(in, "Close") \/ shut' \/ Has(way', "Close") \/ Has(out', "Close")
      BY <1>c, <1>s, <2>4, <3>2
    <3> QED
      BY <1>c, <2>1, <3>5, <3>6, <3>7 DEF Stopped
  <2> QED
    BY <2>1, <2>3, <2>4, <2>5
<1>4. CASE Takes(e)
  <2>1. /\ d' = d /\ out' = out /\ after' = after /\ way # <<>> /\ way' = Tail(way)
        /\ \/ in' = Append(in, Head(way)) /\ ~shut
           \/ in' = in /\ (shut \/ Head(way).type \notin {"Data", "Close"})
    BY <1>4 DEF Takes, Pass
  <2> HIDE DEF p, d, in, way, out, after, max, shut, carries
  <2>2. Head(way) \in Frame
    BY <1>q, <2>1, TailProps
  <2>3. Has(way, "Close") <=> Head(way).type = "Close" \/ Has(way', "Close")
    BY <1>q, <2>1, HasTail
  <2>4. Behind(way, after) => /\ Head(way).type = "Data" => ~(Head(way).n > after)
                              /\ Head(way).type # "Close" => Behind(way', after)
    BY <1>q, <2>1, BehindTail
  <2>5. CASE in' = Append(in, Head(way)) /\ ~shut
    <3>1. Has(in', "Close") <=> Has(in, "Close") \/ Head(way).type = "Close"
      BY <1>q, <2>2, <2>5, HasAppend
    <3>2. Behind(in', after)
      <4>1. (Head(way).type = "Data" /\ Head(way).n > after) => Has(in, "Close")
        BY <1>c, <2>4, <2>5
      <4> QED
        BY <1>q, <1>c, <2>2, <2>5, <4>1, BehindAppend
    <3>3. Has(in', "Close") \/ Behind(way', after)
      BY <1>c, <2>4, <2>5, <3>1
    <3>4. Has(in', "Close") \/ Has(way', "Close") \/ ~carries' \/ Behind(out, after)
      BY <1>c, <1>s, <2>3, <2>5, <3>1
    <3>5. after < max => Has(in', "Close") \/ Has(way', "Close") \/ ~carries' \/ Has(out, "Close")
      BY <1>c, <1>s, <2>3, <2>5, <3>1
    <3> QED
      BY <1>c, <2>1, <3>2, <3>3, <3>4, <3>5 DEF Stopped
  <2>6. CASE in' = in /\ shut
    BY <1>c, <1>s, <2>1, <2>6 DEF Stopped
  <2>7. CASE in' = in /\ Head(way).type \notin {"Data", "Close"}
    <3>1. /\ Has(in, "Close") \/ shut' \/ Behind(way', after)
          /\ Has(in, "Close") \/ shut' \/ Has(way', "Close") \/ ~carries' \/ Behind(out, after)
          /\ after < max => Has(in, "Close") \/ shut' \/ Has(way', "Close") \/ ~carries' \/ Has(out, "Close")
      BY <1>c, <1>s, <2>3, <2>4, <2>7
    <3> QED
      BY <1>c, <2>1, <2>7, <3>1 DEF Stopped
  <2> QED
    BY <2>1, <2>5, <2>6, <2>7
<1>5. CASE Uses(e)
  <2>1. /\ way' = way /\ out' = out /\ after' = after /\ in # <<>> /\ in' = Tail(in)
        /\ Head(in).type # "Close"
        /\ d' = d \/ (Head(in).type = "Data" /\ d' = Append(d, Head(in).n))
    BY <1>5 DEF Uses, Pass
  <2> HIDE DEF p, d, in, way, out, after, max, shut, carries
  <2>2. Head(in) \in Frame /\ (Has(in, "Close") <=> Has(in', "Close"))
    BY <1>q, <2>1, TailProps, HasTail
  <2>3. Behind(in', after) /\ (Head(in).type = "Data" => ~(Head(in).n > after))
    BY <1>q, <1>c, <2>1, BehindTail
  <2>4. \A i \in 1..Len(d') : d'[i] <= after
    <3>1. CASE d' = d
      BY <1>c, <3>1
    <3>2. CASE Head(in).type = "Data" /\ d' = Append(d, Head(in).n)
      <4> DEFINE n == Head(in).n
      <4>1. n \in Nat
        BY <2>2 DEF Frame
      <4>2. n <= after
        BY <1>q, <2>3, <3>2, <4>1
      <4>3. d' = Append(d, n)
        BY <3>2
      <4> HIDE DEF n
      <4>4. /\ Len(d') = Len(d) + 1 /\ Len(d) \in Nat /\ d'[Len(d) + 1] = n
            /\ \A i \in 1..Len(d) : d'[i] = d[i]
        BY <1>q, <4>1, <4>3, AppendProps
      <4>5. \A i \in 1..Len(d') : i \in 1..Len(d) \/ i = Len(d) + 1
        BY <4>4
      <4> QED
        BY <1>c, <4>2, <4>4, <4>5
    <3> QED
      BY <2>1, <3>1, <3>2
  <2> QED
    BY <1>c, <1>s, <2>1, <2>2, <2>3, <2>4 DEF Stopped
<1>6. CASE Clears(e)
  <2>1. d' = d /\ in' = <<>> /\ way' = way /\ out' = out /\ after' = after /\ shut'
    BY <1>6 DEF Clears, Pass
  <2> HIDE DEF p, d, in, way, out, after, max, shut, carries
  <2>2. Behind(<<>>, after)
    BY EmptySeq DEF Behind
  <2> QED
    BY <1>c, <2>1, <2>2 DEF Stopped
<1>7. CASE Loses(e)
  <2>1. /\ d' = d /\ in' = in /\ out' = out /\ after' = after /\ ~carries'
        /\ \E k \in 0..Len(way) : way' = Cut(way, k)
    BY <1>7 DEF Loses, Pass, Carries
  <2> HIDE DEF p, d, in, way, out, after, max, shut, carries
  <2>2. Behind(way, after) => Behind(way', after)
    BY <1>q, <2>1, BehindCut
  <2> QED
    BY <1>c, <1>s, <2>1, <2>2 DEF Stopped
<1> QED
    BY <1>f, <1>1, <1>2, <1>3, <1>4, <1>5, <1>6, <1>7 DEF Flows

LEMMA CloseInit == Init => CloseInv
<1> SUFFICES ASSUME Init, NEW e \in Ends
             PROVE  Stopped(delivered[Peer(e)], inbox[Peer(e)], rx[Peer(e)], data_sender_buf[e],
                            closed_after[e], Datagrams, Shut(Peer(e)), Carries(e))
    BY DEF CloseInv
<1>1. /\ closed_after[e] = Datagrams /\ data_sender_buf[e] = <<>>
      /\ delivered[Peer(e)] = <<>> /\ inbox[Peer(e)] = <<>> /\ rx[Peer(e)] = <<>>
    BY Peers DEF Init
<1>2. Behind(<<>>, Datagrams) /\ \A i \in 1..Len(<<>>) : FALSE
    BY EmptySeq DEF Behind
<1> QED
    BY <1>1, <1>2, UdpRelayAssumption DEF Stopped

-----------------------------------------------------------------------------
LEMMA Invariant == Spec => []IInv
<1>1. Init => IInv
    BY TypesInit, StartedInit, OrderInit, CloseInit DEF IInv
<1>2. IInv /\ [Next]_vars => IInv'
  <2> SUFFICES ASSUME IInv, [Next]_vars PROVE IInv'
    OBVIOUS
  <2>1. TypeOK /\ StartedInv /\ ConnectInv /\ OrderInv
    BY DEF IInv
  <2>2. TypeOK' /\ StartedInv' /\ ConnectInv' /\ OrderInv'
    BY <2>1, TypesStep, StartedStep, ConnectStep, OrderStep
  <2>3. CloseInv'
    BY CloseFlows DEF CloseInv
  <2> QED
    BY <2>2, <2>3 DEF IInv
<1> QED
    BY <1>1, <1>2, PTL DEF Spec

(* The session at both ends keeps its types, and no channel ever holds     *)
(* more than its capacity.                                                 *)
THEOREM TypeCorrect == Spec => []TypeOK
<1>1. IInv => TypeOK
    BY DEF IInv
<1> QED
    BY <1>1, Invariant, PTL

(* The UDP relays deliver the datagrams of a socket in order: some may be  *)
(* missing, none is repeated, reordered or made up, where a frame that is  *)
(* lost is lost whole.                                                     *)
THEOREM DatagramsKeepOrder == Spec => []DatagramsInOrder
<1>1. ASSUME IInv, NEW e \in Ends
      PROVE  /\ \A i \in 1..Len(delivered[e]) : delivered[e][i] <= read[Peer(e)]
             /\ \A i \in 1..(Len(delivered[e]) - 1) : delivered[e][i] < delivered[e][i + 1]
  <2> DEFINE d == delivered[e]
             x == Peer(e)
  <2>1. TypeOK /\ OrderInv /\ x \in Ends /\ Peer(x) = e
    BY <1>1, Peers DEF IInv
  <2>2. d \in Seq(Nat) /\ Len(d) \in Nat /\ read[x] \in Nat /\ (holding[x] # "none" => read[x] > 0)
    BY <2>1, LenProperties DEF TypeOK, OrderInv
  <2>3. Queued(x) \in Nat /\ Queued(x) <= read[x]
    BY <2>2 DEF Queued
  <2>4. \E a \in 0..Queued(x) : Delivered(d, a)
    BY <2>1 DEF OrderInv, Ordered
  <2>5. \A i \in 1..Len(d) : d[i] \in Nat
    BY <2>2, ElementOfSeq
  <2> HIDE DEF d, x
  <2>6. \A i \in 1..Len(d) : d[i] <= read[x]
    BY <2>2, <2>3, <2>4, <2>5 DEF Delivered
  <2>7. \A i \in 1..(Len(d) - 1) : i \in 1..Len(d) /\ i + 1 \in 1..Len(d) /\ i < i + 1
    BY <2>2
  <2>8. \A i \in 1..(Len(d) - 1) : d[i] < d[i + 1]
    BY <2>4, <2>7 DEF Delivered
  <2> QED
    BY <2>6, <2>8 DEF d, x
<1>2. IInv => DatagramsInOrder
    BY <1>1 DEF DatagramsInOrder
<1> QED
    BY <1>2, Invariant, PTL

(* The tasks of an ended relay run on and may still send, but no datagram  *)
(* sent after the CLOSE reaches a socket, unless RNS lost that CLOSE.      *)
THEOREM ClosedIsLast == Spec => []NothingAfterClose
<1>1. ASSUME IInv, NEW e \in Ends, Peer(e) \notin close_lost
      PROVE  \A i \in 1..Len(delivered[e]) : delivered[e][i] <= closed_after[Peer(e)]
  <2>1. Peer(e) \in Ends /\ Peer(Peer(e)) = e
    BY Peers
  <2> QED
    BY <1>1, <2>1 DEF IInv, CloseInv, Stopped
<1>2. IInv => NothingAfterClose
    BY <1>1 DEF NothingAfterClose
<1> QED
    BY <1>2, Invariant, PTL

=============================================================================
