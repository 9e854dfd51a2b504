---------------------------- MODULE ServerProofs ----------------------------
(***************************************************************************)
(* Server for every number of links, CONNECTs and DATA frames, every       *)
(* channel capacity and every filter: its type invariant and its safety    *)
(* properties, from the inductive invariant IInv.                          *)
(***************************************************************************)
EXTENDS Server, Queues, FiniteSetTheorems, FunctionTheorems

(* An event of a session names it.                                         *)
LEMMA EventsOfSessions ==
    ASSUME NEW q \in Seq(Events), NEW i \in 1..Len(q)
    PROVE  q[i] \in Events /\ (IsConnect(q[i]) \/ IsData(q[i]) => q[i].session \in Sessions)
<1>1. q[i] \in Events
    BY ElementOfSeq
<1> QED
    BY <1>1 DEF Events, IsConnect, IsData

(* The event that the loop takes next.                                     *)
LEMMA TakenEvent ==
    ASSUME QueuesOK, rx # <<>>
    PROVE  /\ Head(rx) \in Events /\ Head(rx) = rx[1]
           /\ OfLink \in Links /\ OfLink <= links
           /\ Head(rx).type \in {"Connect", "Data", "Close"} => Of \in Sessions
<1>1. Head(rx) \in Events /\ Head(rx) = rx[1] /\ 1 \in 1..Len(rx)
    BY TailProps DEF QueuesOK
<1>2. OfLink \in Links /\ OfLink <= links
    BY <1>1 DEF OfLink, QueuesOK, Events
<1>3. Head(rx).type \in {"Connect", "Data", "Close"} => Of \in Sessions
    BY <1>1 DEF Of, Events
<1> QED
    BY <1>1, <1>2, <1>3

(* What is left of the events.                                             *)
LEMMA RestOfEvents ==
    ASSUME QueuesOK, rx # <<>>, Handled
    PROVE  /\ rx' \in Seq(Events)
           /\ Len(rx') = Len(rx) - 1 /\ Len(rx) \in Nat
           /\ \A i \in 1..Len(rx') : rx'[i] = rx[i + 1]
           /\ \A i \in 1..Len(rx') : rx'[i].link <= links
<1>1. /\ rx' \in Seq(Events) /\ Len(rx') = Len(rx) - 1 /\ Len(rx) \in Nat
      /\ \A i \in 1..Len(rx') : rx'[i] = rx[i + 1]
    BY TailProps DEF QueuesOK, Handled
<1>2. \A i \in 1..Len(rx') : i + 1 \in 1..Len(rx)
    BY <1>1
<1> QED
    BY <1>1, <1>2 DEF QueuesOK

(* What an event more does to the events.                                  *)
LEMMA OneMoreEvent ==
    ASSUME QueuesOK, NEW e \in Events, Comes(e), links' \in Nat, links \in Nat, links <= links',
           e.link <= links'
    PROVE  /\ rx' \in Seq(Events)
           /\ Len(rx') = Len(rx) + 1 /\ Len(rx) \in Nat
           /\ \A i \in 1..Len(rx) : rx'[i] = rx[i]
           /\ rx'[Len(rx')] = e
           /\ \A i \in 1..Len(rx') : rx'[i].link <= links'
<1>1. /\ rx' \in Seq(Events) /\ Len(rx') = Len(rx) + 1 /\ Len(rx) \in Nat
      /\ \A i \in 1..Len(rx) : rx'[i] = rx[i]
      /\ rx'[Len(rx')] = e
    BY AppendProps DEF QueuesOK, Comes
<1>2. ASSUME NEW i \in 1..Len(rx') PROVE rx'[i].link <= links'
  <2>1. CASE i = Len(rx')
    BY <2>1, <1>1
  <2>2. CASE i # Len(rx')
    <3>1. i \in 1..Len(rx) /\ rx'[i] = rx[i]
      BY <2>2, <1>1
    <3>2. rx[i] \in Events /\ rx[i].link <= links
      BY <3>1, ElementOfSeq DEF QueuesOK
    <3>3. rx[i].link \in Int
      BY <3>2 DEF Events, Links
    <3> QED
      BY <3>1, <3>2, <3>3
  <2> QED
    BY <2>1, <2>2
<1> QED
    BY <1>1, <1>2

(* The id that a client gives its next session is one of the bound's.      *)
LEMMA NextSessionIsOne ==
    ASSUME NEW l \in Links, Cardinality(AllAsked) < MaxConnects
    PROVE  NextSession(l) \in Sessions /\ Link(NextSession(l)) = l
<1> DEFINE Mine == {s \in AllAsked : Link(s) = l}
<1>1. IsFiniteSet(Links) /\ IsFiniteSet(Sids)
    BY ServerAssumption, FS_Interval DEF Links, Sids
<1>2. IsFiniteSet(Sessions)
    BY <1>1, FS_Product DEF Sessions
<1>3. AllAsked \in SUBSET Sessions /\ Mine \in SUBSET AllAsked
    BY DEF AllAsked
<1>4. IsFiniteSet(AllAsked)
    BY <1>2, <1>3, FS_Subset
<1>5. IsFiniteSet(Mine) /\ Cardinality(Mine) <= Cardinality(AllAsked)
    BY <1>3, <1>4, FS_Subset
<1>6. Cardinality(Mine) \in Nat /\ Cardinality(AllAsked) \in Nat
    BY <1>4, <1>5, FS_CardinalityType
<1> HIDE DEF Mine
<1>7. 1 + Cardinality(Mine) \in Sids
    BY <1>5, <1>6, ServerAssumption DEF Sids
<1>8. NextSession(l) = <<l, 1 + Cardinality(Mine)>>
    BY DEF NextSession, Mine
<1> QED
    BY <1>7, <1>8 DEF Sessions, Link

(* What a client sends in a session is an event of the session's link.     *)
LEMMA SessionEvent ==
    ASSUME TypeOK, NEW s \in Sessions, ClientSends(s) \/ ClientCloses(s)
    PROVE  \E e \in Events : /\ Comes(e) /\ e.link = Link(s) /\ e.session = s
                            /\ \/ e.type = "Data" /\ e.n = sent[s] + 1 /\ ClientSends(s)
                               \/ e.type = "Close" /\ ClientCloses(s)
<1>1. sent[s] + 1 \in Nat /\ Link(s) \in Links
    BY DEF TypeOK, Link, Sessions
<1>2. CASE ClientSends(s)
  <2> DEFINE e == [link |-> Link(s), type |-> "Data", session |-> s, n |-> sent[s] + 1]
  <2>1. [Event(Link(s), "Data", s) EXCEPT !.n = sent[s] + 1] = e
    BY DEF Event
  <2>2. e \in Events /\ Comes(e)
    BY <1>1, <1>2, <2>1 DEF ClientSends, Events
  <2> QED
    BY <1>2, <2>2
<1>3. CASE ClientCloses(s)
  <2> DEFINE e == [link |-> Link(s), type |-> "Close", session |-> s, n |-> 0]
  <2>1. e \in Events /\ Comes(e)
    BY <1>1, <1>3 DEF ClientCloses, Event, Events
  <2> QED
    BY <1>3, <2>1
<1> QED
    BY <1>2, <1>3

(* What Send does to the channels.                                         *)
LEMMA SendProps ==
    ASSUME QueuesOK, TypeOK, NEW s \in Sessions, NEW t \in {"ConnectOk", "ConnectErr", "Close"},
           Send(t, s)
    PROVE  /\ data_sender_buf' \in [Links -> Seq(Frames)]
           /\ \A l \in Links : Len(data_sender_buf'[l]) <= Capacity
           /\ Link(s) \in Links
           /\ \A l \in Links \ {Link(s)} : data_sender_buf'[l] = data_sender_buf[l]
           /\ Len(data_sender_buf'[Link(s)]) = Len(data_sender_buf[Link(s)]) + 1
           /\ Len(data_sender_buf[Link(s)]) \in Nat
           /\ \A i \in 1..Len(data_sender_buf[Link(s)]) :
                 data_sender_buf'[Link(s)][i] = data_sender_buf[Link(s)][i]
           /\ data_sender_buf'[Link(s)][Len(data_sender_buf[Link(s)]) + 1]
                 = [type |-> t, session |-> s]
<1> DEFINE f == [type |-> t, session |-> s]
           q == data_sender_buf[Link(s)]
<1>1. Link(s) \in Links /\ f \in Frames /\ q \in Seq(Frames)
    BY DEF Link, Sessions, Frames, QueuesOK
<1>2. /\ Append(q, f) \in Seq(Frames) /\ Len(Append(q, f)) = Len(q) + 1 /\ Len(q) \in Nat
      /\ \A i \in 1..Len(q) : Append(q, f)[i] = q[i]
      /\ Append(q, f)[Len(q) + 1] = f
    BY <1>1, AppendProps
<1>3. Len(q) < Capacity /\ Capacity \in Nat
    BY ServerAssumption DEF Send, Room
<1>4. /\ data_sender_buf' = [data_sender_buf EXCEPT ![Link(s)] = Append(q, f)]
      /\ data_sender_buf \in [Links -> Seq(Frames)]
    BY DEF Send, QueuesOK
<1>5. data_sender_buf'[Link(s)] = Append(q, f)
    BY <1>1, <1>4
<1>6. \A l \in Links \ {Link(s)} : data_sender_buf'[l] = data_sender_buf[l]
    BY <1>4
<1>7. data_sender_buf' \in [Links -> Seq(Frames)]
    BY <1>2, <1>4
<1>8. ASSUME NEW l \in Links PROVE Len(data_sender_buf'[l]) <= Capacity
  <2>1. CASE l = Link(s)
    BY <2>1, <1>2, <1>3, <1>5
  <2>2. CASE l # Link(s)
    BY <2>2, <1>6 DEF TypeOK
  <2> QED
    BY <2>1, <2>2
<1> HIDE DEF q
<1>9. Len(data_sender_buf'[Link(s)]) = Len(q) + 1
    BY <1>2, <1>5
<1> QED
    BY <1>1, <1>2, <1>5, <1>6, <1>7, <1>8, <1>9 DEF q

(* What taking a frame off a channel does to the channels.                 *)
LEMMA TakeProps ==
    ASSUME QueuesOK, TypeOK, NEW l \in Links, Takes(l)
    PROVE  /\ data_sender_buf' \in [Links -> Seq(Frames)]
           /\ \A m \in Links : Len(data_sender_buf'[m]) <= Capacity
           /\ Head(data_sender_buf[l]) \in Frames
           /\ Len(data_sender_buf[l]) \in Nat \ {0}
           /\ Head(data_sender_buf[l]) = data_sender_buf[l][1]
           /\ \A m \in Links \ {l} : data_sender_buf'[m] = data_sender_buf[m]
           /\ Len(data_sender_buf'[l]) = Len(data_sender_buf[l]) - 1
           /\ \A i \in 1..Len(data_sender_buf'[l]) :
                 data_sender_buf'[l][i] = data_sender_buf[l][i + 1]
<1> DEFINE q == data_sender_buf[l]
<1>1. /\ Head(q) \in Frames /\ Head(q) = q[1] /\ Tail(q) \in Seq(Frames)
      /\ Len(q) \in Nat \ {0} /\ Len(Tail(q)) = Len(q) - 1
      /\ \A i \in 1..Len(Tail(q)) : Tail(q)[i] = q[i + 1]
  <2>1. q \in Seq(Frames) /\ q # <<>>
    BY DEF QueuesOK, Takes
  <2> QED
    BY <2>1, TailProps
<1>2. /\ data_sender_buf' = [data_sender_buf EXCEPT ![l] = Tail(q)]
      /\ data_sender_buf \in [Links -> Seq(Frames)]
    BY DEF Takes, QueuesOK
<1>3. data_sender_buf'[l] = Tail(q) /\ \A m \in Links \ {l} : data_sender_buf'[m] = data_sender_buf[m]
    BY <1>2
<1>4. data_sender_buf' \in [Links -> Seq(Frames)]
    BY <1>1, <1>2
<1>5. ASSUME NEW m \in Links PROVE Len(data_sender_buf'[m]) <= Capacity
  <2>1. CASE m = l
    BY <2>1, <1>1, <1>3, ServerAssumption DEF TypeOK
  <2>2. CASE m # l
    BY <2>2, <1>3 DEF TypeOK
  <2> QED
    BY <2>1, <2>2
<1> QED
    BY <1>1, <1>3, <1>4, <1>5

-----------------------------------------------------------------------------
(* The types.                                                              *)
Types == TypeOK /\ QueuesOK

LEMMA TypesInit == Init => Types
<1> SUFFICES ASSUME Init PROVE Types
    OBVIOUS
<1> USE DEF Init, Each
<1>1. Len(<<>>) = 0 /\ \A S : <<>> \in Seq(S)
    BY EmptySeq
<1>2. \A l \in Links : Len(data_sender_buf[l]) <= Capacity
    BY <1>1, ServerAssumption
<1>3. TypeOK
    BY <1>2, ServerAssumption DEF TypeOK
<1>4. rx = <<>> /\ rx \in Seq(Events) /\ \A i \in 1..Len(rx) : rx[i].link <= links
    BY <1>1
<1>5. QueuesOK
    BY <1>1, <1>4 DEF QueuesOK
<1> QED
    BY <1>3, <1>5 DEF Types

(* The process starts anew with everything but the file as it was at first. *)
LEMMA TypesCrash == Types /\ Crashes => Types'
<1> SUFFICES ASSUME Types, Crashes PROVE Types'
    OBVIOUS
<1> USE DEF Crashes, Each
<1>1. Len(<<>>) = 0 /\ \A S : <<>> \in Seq(S)
    BY EmptySeq
<1>2. \A l \in Links : Len(data_sender_buf'[l]) <= Capacity
    BY <1>1, ServerAssumption
<1>3. TypeOK'
    BY <1>2, ServerAssumption DEF Types, TypeOK, Phase
<1>4. rx' = <<>> /\ rx' \in Seq(Events) /\ \A i \in 1..Len(rx') : rx'[i].link <= links'
    BY <1>1
<1>5. QueuesOK'
    BY <1>1, <1>4 DEF QueuesOK
<1> QED
    BY <1>3, <1>5 DEF Types

(* A new identity is generated only while no address was ever shown.       *)
LEMMA NewIdentity ==
    ASSUME AddressInv, GeneratesIdentity
    PROVE  shown = {} /\ identity' = 1
<1>1. shown = {}
    BY DEF AddressInv, GeneratesIdentity, Identities
<1>2. Cardinality(shown) = 0
    BY <1>1, FS_EmptySet
<1> QED
    BY <1>1, <1>2 DEF GeneratesIdentity

LEMMA TypesStartUp == Types /\ AddressInv /\ StartUp => Types'
<1> SUFFICES ASSUME Types, AddressInv, StartUp PROVE Types'
    OBVIOUS
<1>1. UNCHANGED <<linkVars, rx, muxVars, taskVars, clientVars>>
    BY DEF StartUp, LoadsIdentity, GeneratesIdentity, SaveBegins, SaveEnds, SaveFails, Serves,
           RestUnchanged
<1>2. /\ identity_file' \in {Absent, Partial} \cup Identities
      /\ phase' \in {"down", "saving", "writing", "ready", "serving"}
      /\ identity' \in {Absent} \cup Identities
      /\ shown' \subseteq Identities
  <2> USE DEF Types, TypeOK, Phase
  <2>1. CASE LoadsIdentity
    BY <2>1 DEF LoadsIdentity
  <2>2. CASE GeneratesIdentity
    <3>1. identity' = 1
      BY <2>2, NewIdentity
    <3> QED
      BY <2>2, <3>1 DEF GeneratesIdentity, Identities, Absent
  <2>3. CASE SaveBegins
    BY <2>3 DEF SaveBegins
  <2>4. CASE SaveEnds
    BY <2>4 DEF SaveEnds, AddressInv
  <2>5. CASE SaveFails \/ Serves
    BY <2>5 DEF SaveFails, Serves
  <2> QED
    BY <2>1, <2>2, <2>3, <2>4, <2>5 DEF StartUp
<1> QED
    BY <1>1, <1>2 DEF Types, TypeOK, QueuesOK, linkVars, muxVars, taskVars, clientVars

LEMMA TypesClients == Types /\ Clients => Types'
<1> SUFFICES ASSUME Types, Clients PROVE Types'
    OBVIOUS
<1>q. QueuesOK /\ TypeOK /\ links \in Nat /\ links <= MaxLinks /\ MaxLinks \in Nat
    BY ServerAssumption DEF Types, TypeOK
<1>1. CASE LinkComesUp
  <2>1. links' = links + 1 /\ links + 1 \in Links /\ links' \in Nat /\ links <= links'
    BY <1>1, <1>q DEF LinkComesUp, Links
  <2>2. Event(links + 1, "LinkEstablished", NoSession) \in Events
        /\ Event(links + 1, "LinkEstablished", NoSession).link = links + 1
    BY <2>1 DEF Event, Events
  <2>3. rx' \in Seq(Events) /\ \A i \in 1..Len(rx') : rx'[i].link <= links'
    BY <1>1, <2>1, <2>2, <1>q, OneMoreEvent DEF LinkComesUp
  <2> QED
    BY <1>1, <1>q, <2>1, <2>3
    DEF LinkComesUp, Types, TypeOK, QueuesOK, startVars, muxVars, taskVars, clientVars
<1>2. ASSUME NEW l \in Links, LinkGoesDown(l) PROVE Types'
  <2>1. Event(l, "LinkClosed", NoSession) \in Events /\ Event(l, "LinkClosed", NoSession).link = l
    BY DEF Event, Events
  <2>2. l <= links /\ links' = links
    BY <1>2, <1>q DEF LinkGoesDown, TypeOK
  <2>3. rx' \in Seq(Events) /\ \A i \in 1..Len(rx') : rx'[i].link <= links'
    BY <1>2, <2>1, <2>2, <1>q, OneMoreEvent DEF LinkGoesDown
  <2> QED
    BY <1>2, <1>q, <2>2, <2>3
    DEF LinkGoesDown, Types, TypeOK, QueuesOK, startVars, muxVars, taskVars, clientVars
<1>3. ASSUME NEW l \in Links, NEW k \in Kinds, ClientConnects(l, k) PROVE Types'
  <2> DEFINE s == NextSession(l)
  <2>1. s \in Sessions
    BY <1>3, NextSessionIsOne DEF ClientConnects
  <2>2. Event(l, "Connect", s) \in Events /\ Event(l, "Connect", s).link = l
    BY <2>1 DEF Event, Events
  <2>3. l <= links /\ links' = links
    BY <1>3, <1>q DEF ClientConnects, TypeOK, linkVars
  <2>4. rx' \in Seq(Events) /\ \A i \in 1..Len(rx') : rx'[i].link <= links'
    BY <1>3, <2>2, <2>3, <1>q, OneMoreEvent DEF ClientConnects
  <2>5. asked' \in [Sessions -> {"none"} \cup Kinds]
    BY <1>3, <1>q DEF ClientConnects, TypeOK
  <2> QED
    BY <1>3, <1>q, <2>3, <2>4, <2>5
    DEF ClientConnects, Types, TypeOK, QueuesOK, startVars, linkVars, muxVars, taskVars
<1>4. ASSUME NEW s \in Sessions, ClientSends(s) \/ ClientCloses(s) PROVE Types'
  <2>1. PICK e \in Events : Comes(e) /\ e.link = Link(s)
    BY <1>4, <1>q, SessionEvent
  <2>2. Link(s) <= links /\ links' = links
    BY <1>4, <1>q DEF ClientSends, ClientCloses, Talks, TypeOK, linkVars
  <2>3. rx' \in Seq(Events) /\ \A i \in 1..Len(rx') : rx'[i].link <= links'
    BY <2>1, <2>2, <1>q, OneMoreEvent
  <2>4. sent' \in [Sessions -> Nat] /\ closed' \subseteq Sessions
    <3>1. sent[s] + 1 \in Nat /\ sent \in [Sessions -> Nat] /\ closed \subseteq Sessions
      BY <1>q DEF TypeOK, QueuesOK
    <3>2. CASE ClientSends(s)
      BY <3>1, <3>2 DEF ClientSends
    <3>3. CASE ClientCloses(s)
      BY <3>1, <3>3 DEF ClientCloses
    <3> QED
      BY <1>4, <3>2, <3>3
  <2> QED
    BY <1>4, <1>q, <2>2, <2>3, <2>4
    DEF ClientSends, ClientCloses, Types, TypeOK, QueuesOK, startVars, linkVars, muxVars, taskVars
<1> QED
    BY <1>1, <1>2, <1>3, <1>4 DEF Clients

LEMMA TypesLoop == Types /\ EventLoop => Types'
<1> SUFFICES ASSUME Types, EventLoop PROVE Types'
    OBVIOUS
<1>1. rx # <<>> /\ Handled /\ QueuesOK /\ TypeOK
    BY DEF Types, EventLoop, OpensMux, RemovesMux, StartsSession, RefusesPayload, Dispatches, Gets
<1>2. UNCHANGED <<startVars, linkVars, clientVars>>
    BY DEF EventLoop, OpensMux, RemovesMux, StartsSession, RefusesPayload, Dispatches
<1>3. rx' \in Seq(Events) /\ \A i \in 1..Len(rx') : rx'[i].link <= links'
    BY <1>1, <1>2, RestOfEvents DEF linkVars
<1>4. OfLink \in 1..links /\ (Head(rx).type \in {"Connect", "Data", "Close"} => Of \in Sessions)
    BY <1>1, TakenEvent, ServerAssumption DEF Links, TypeOK
<1>5. CASE OpensMux \/ RemovesMux
    BY <1>1, <1>2, <1>3, <1>4, <1>5
    DEF OpensMux, RemovesMux, Types, TypeOK, QueuesOK, startVars, linkVars, clientVars, taskVars
<1>6. CASE StartsSession
    BY <1>1, <1>2, <1>3, <1>4, <1>6
    DEF StartsSession, Gets, Types, TypeOK, QueuesOK, startVars, linkVars, clientVars
<1>7. CASE RefusesPayload
  <2>1. Of \in Sessions /\ Send("ConnectErr", Of)
    BY <1>4, <1>7 DEF RefusesPayload, Gets
  <2>2. /\ data_sender_buf' \in [Links -> Seq(Frames)]
        /\ \A l \in Links : Len(data_sender_buf'[l]) <= Capacity
    BY <1>1, <2>1, SendProps
  <2> QED
    BY <1>1, <1>2, <1>3, <1>7, <2>2
    DEF RefusesPayload, Types, TypeOK, QueuesOK, startVars, linkVars, clientVars, taskVars
<1>8. CASE Dispatches
  <2>1. ASSUME NEW s \in Sessions PROVE inbox'[s] \in Seq(Events)
    <3> DEFINE e == Head(rx)
    <3>1. inbox'[s] = inbox[s] \/ inbox'[s] = Append(inbox[s], e)
      BY <1>8 DEF Dispatches
    <3>2. e \in Events /\ inbox[s] \in Seq(Events)
      BY <1>1, TakenEvent DEF QueuesOK
    <3> HIDE DEF e
    <3>3. Append(inbox[s], e) \in Seq(Events)
      BY <3>2, AppendProps
    <3> QED
      BY <3>1, <3>2, <3>3
  <2>2. inbox' \in [Sessions -> Seq(Events)]
    BY <1>8, <2>1 DEF Dispatches
  <2> QED
    BY <1>1, <1>2, <1>3, <1>8, <2>2
    DEF Dispatches, Types, TypeOK, QueuesOK, startVars, linkVars, clientVars, muxVars
<1> QED
    BY <1>5, <1>6, <1>7, <1>8 DEF EventLoop

LEMMA TypesSender ==
    ASSUME Types, NEW l \in Links, Sender(l)
    PROVE  Types'
<1>1. Takes(l) /\ QueuesOK /\ TypeOK
    BY DEF Types, Sender, Delivers, Fails
<1>2. /\ data_sender_buf' \in [Links -> Seq(Frames)]
      /\ \A m \in Links : Len(data_sender_buf'[m]) <= Capacity
      /\ Head(data_sender_buf[l]) \in Frames
    BY <1>1, TakeProps
<1>3. attached' \subseteq 1..links'
    BY <1>1 DEF Sender, Delivers, Fails, Takes, TypeOK, linkVars
<1>4. told' \in [Sessions -> {"none", "ConnectOk", "ConnectErr"}]
  <2>1. CASE told' = told
    BY <2>1, <1>1 DEF TypeOK
  <2>2. CASE told' = Answer(Head(data_sender_buf[l]))
    <3> DEFINE f == Head(data_sender_buf[l])
    <3>1. f.type \in {"ConnectOk", "ConnectErr", "Close"}
      BY <1>2 DEF Frames
    <3> HIDE DEF f
    <3>2. told' = Answer(f)
      BY <2>2 DEF f
    <3> QED
      BY <3>1, <3>2, <1>1 DEF Answer, TypeOK
  <2> QED
    BY <2>1, <2>2 DEF Sender, Delivers, Fails
<1> QED
    BY <1>1, <1>2, <1>3, <1>4
    DEF Takes, Types, TypeOK, QueuesOK, startVars, linkVars, taskVars

(* What a session's last frame does, whichever action sends it.            *)
LEMMA TypesLeaves ==
    ASSUME Types, NEW s \in Sessions, NEW t \in {"ConnectErr", "Close"}, Leaves(s, t)
    PROVE  Types'
<1>1. QueuesOK /\ TypeOK /\ Send(t, s)
    BY DEF Types, Leaves
<1>2. /\ data_sender_buf' \in [Links -> Seq(Frames)]
      /\ \A l \in Links : Len(data_sender_buf'[l]) <= Capacity
    BY <1>1, SendProps
<1>3. /\ inbox' \in [Sessions -> Seq(Events)] /\ received' \in [Sessions -> Seq(Events)]
      /\ addr' \in [Sessions -> SUBSET Addresses] /\ contacted' \in [Sessions -> SUBSET Addresses]
    BY <1>1, EmptySeq DEF Leaves, TypeOK, QueuesOK
<1>4. /\ pc' \in [Sessions -> {"none", "binding", "resolving", "connecting", "relay", "ended"}]
      /\ sessions' \subseteq Sessions
    BY <1>1 DEF Leaves, Becomes, TypeOK
<1> QED
    BY <1>1, <1>2, <1>3, <1>4 DEF Leaves, Types, TypeOK, QueuesOK, startVars, linkVars, clientVars

LEMMA TypesTask ==
    ASSUME Types, NEW s \in Sessions, Task(s) \/ SocketEnds(s)
    PROVE  Types'
<1>q. QueuesOK /\ TypeOK
    BY DEF Types
<1>a. filter_and_convert \subseteq Addresses
    BY DEF filter_and_convert, target_to_socket
<1>1. CASE Resolves(s)
  <2>1. addr' \in [Sessions -> SUBSET Addresses]
    BY <1>1, <1>a, <1>q DEF Resolves, TypeOK
  <2>2. pc' \in [Sessions -> {"none", "binding", "resolving", "connecting", "relay", "ended"}]
    BY <1>1, <1>q DEF Resolves, Becomes, TypeOK
  <2> QED
    BY <1>1, <1>q, <2>1, <2>2
    DEF Resolves, Types, TypeOK, QueuesOK, startVars, linkVars, clientVars, muxVars
<1>2. CASE Refuses(s) \/ GetsClose(s) \/ SocketEnds(s)
    BY <1>2, TypesLeaves DEF Refuses, GetsClose, SocketEnds
<1>3. CASE Connects(s) \/ Binds(s)
  <2>1. Send("ConnectOk", s) /\ Answers(s)
    BY <1>3 DEF Connects, Binds, Answers
  <2>2. /\ data_sender_buf' \in [Links -> Seq(Frames)]
        /\ \A l \in Links : Len(data_sender_buf'[l]) <= Capacity
    BY <1>q, <2>1, SendProps
  <2>3. contacted' \in [Sessions -> SUBSET Addresses]
    BY <1>3, <1>q DEF Connects, Binds, TypeOK
  <2>4. pc' \in [Sessions -> {"none", "binding", "resolving", "connecting", "relay", "ended"}]
    BY <2>1, <1>q DEF Answers, Becomes, TypeOK
  <2> QED
    BY <1>q, <2>1, <2>2, <2>3, <2>4
    DEF Answers, Types, TypeOK, QueuesOK, startVars, linkVars, clientVars
<1>4. CASE WritesData(s) \/ RoutesDatagram(s)
  <2>1. Reads(s) /\ inbox[s] # <<>>
    BY <1>4 DEF WritesData, RoutesDatagram, Has
  <2>2. Head(inbox[s]) \in Events /\ Tail(inbox[s]) \in Seq(Events) /\ received[s] \in Seq(Events)
    BY <2>1, <1>q, TailProps DEF QueuesOK
  <2>3. Append(received[s], Head(inbox[s])) \in Seq(Events)
    BY <2>2, AppendProps
  <2>4. inbox' \in [Sessions -> Seq(Events)]
    BY <2>1, <2>2, <1>q DEF Reads, QueuesOK
  <2>5. received' \in [Sessions -> Seq(Events)]
    BY <2>3, <1>q, <1>4 DEF WritesData, RoutesDatagram, Writes, QueuesOK
  <2>6. contacted' \in [Sessions -> SUBSET Addresses]
    <3>1. ASSUME NEW a \in filter_and_convert PROVE contacted[s] \cup {a} \in SUBSET Addresses
      BY <1>a, <1>q DEF TypeOK
    <3> QED
      BY <3>1, <1>q, <1>4 DEF WritesData, RoutesDatagram, TypeOK
  <2> QED
    BY <1>q, <1>4, <2>4, <2>5, <2>6
    DEF WritesData, RoutesDatagram, Types, TypeOK, QueuesOK, startVars, linkVars, clientVars, muxVars
<1> QED
    BY <1>1, <1>2, <1>3, <1>4 DEF Task

LEMMA TypesStep == Types /\ AddressInv /\ [Next]_vars => Types'
<1> SUFFICES ASSUME Types, AddressInv, [Next]_vars PROVE Types'
    OBVIOUS
<1>1. CASE UNCHANGED vars
    BY <1>1
    DEF Types, TypeOK, QueuesOK, vars, startVars, linkVars, muxVars, taskVars, clientVars
<1> QED
    BY <1>1, TypesStartUp, TypesCrash, TypesClients, TypesLoop, TypesSender, TypesTask DEF Next

-----------------------------------------------------------------------------
(* The address.                                                            *)
LEMMA AddressInit == Init => AddressInv
    BY DEF Init, AddressInv, Identities

LEMMA AddressStep == Types /\ AddressInv /\ [Next]_vars => AddressInv'
<1> SUFFICES ASSUME Types, AddressInv, [Next]_vars PROVE AddressInv'
    OBVIOUS
<1> USE DEF AddressInv, Identities, Absent, Partial, Phase
<1>1. CASE LoadsIdentity
    BY <1>1 DEF LoadsIdentity
<1>2. CASE GeneratesIdentity
    BY <1>2, NewIdentity DEF GeneratesIdentity
<1>3. CASE SaveBegins
    BY <1>3 DEF SaveBegins
<1>4. CASE SaveEnds
  <2>1. identity \in Identities /\ identity_file \notin Identities
    BY <1>4 DEF SaveEnds
  <2>2. shown = {} /\ shown' = {identity} /\ identity_file' = identity /\ phase' = "ready"
    BY <1>4, <2>1 DEF SaveEnds
  <2> QED
    BY <2>1, <2>2
<1>5. CASE SaveFails \/ Serves \/ Crashes
    BY <1>5 DEF SaveFails, Serves, Crashes
<1>6. CASE UNCHANGED startVars
    BY <1>6 DEF startVars
<1>7. ASSUME Clients \/ EventLoop PROVE UNCHANGED startVars
    BY <1>7
    DEF Clients, LinkComesUp, LinkGoesDown, ClientConnects, ClientSends, ClientCloses, EventLoop,
        OpensMux, RemovesMux, StartsSession, RefusesPayload, Dispatches
<1>8. ASSUME NEW l \in Links, Sender(l) PROVE UNCHANGED startVars
    BY <1>8 DEF Sender, Delivers, Fails, Takes
<1>9. ASSUME NEW s \in Sessions, Task(s) \/ SocketEnds(s) PROVE UNCHANGED startVars
    BY <1>9
    DEF Task, SocketEnds, Resolves, Refuses, Leaves, Connects, Binds, Answers, WritesData,
        RoutesDatagram, GetsClose
<1>10. ASSUME UNCHANGED vars PROVE UNCHANGED startVars
    BY <1>10 DEF vars
<1> QED
    BY <1>1, <1>2, <1>3, <1>4, <1>5, <1>6, <1>7, <1>8, <1>9, <1>10 DEF Next, StartUp

LEMMA AddressIsOne == AddressInv => AddressStable
<1> SUFFICES ASSUME AddressInv PROVE Cardinality(shown) <= 1
    BY DEF AddressStable
<1>1. CASE shown = {}
    BY <1>1, FS_EmptySet
<1>2. CASE shown # {}
  <2>1. shown = {identity_file}
    BY <1>2 DEF AddressInv
  <2>2. Cardinality(shown) = 1
    BY <2>1, FS_Singleton
  <2> QED
    BY <2>2
<1> QED
    BY <1>1, <1>2

-----------------------------------------------------------------------------
(* The filter.                                                             *)
LEMMA FilterInit == Init => FilterInv
    BY DEF Init, Each, FilterInv

LEMMA FilterStep == Types /\ FilterInv /\ [Next]_vars => FilterInv'
<1> SUFFICES ASSUME Types, FilterInv, [Next]_vars PROVE FilterInv'
    OBVIOUS
<1>q. addr \in [Sessions -> SUBSET Addresses] /\ contacted \in [Sessions -> SUBSET Addresses]
    BY DEF Types, TypeOK
<1>1. CASE UNCHANGED <<addr, contacted>>
    BY <1>1 DEF FilterInv
<1>2. CASE Crashes
    BY <1>2 DEF Crashes, Each, FilterInv
<1>3. ASSUME NEW s \in Sessions, Task(s) \/ SocketEnds(s) PROVE FilterInv'
  <2>1. filter_and_convert \subseteq Allowed
    BY DEF filter_and_convert
  <2>2. CASE Resolves(s)
    BY <2>1, <2>2, <1>q DEF Resolves, FilterInv
  <2>3. CASE Refuses(s) \/ GetsClose(s) \/ SocketEnds(s)
    BY <2>3, <1>q DEF Refuses, GetsClose, SocketEnds, Leaves, FilterInv
  <2>4. CASE Connects(s)
    BY <2>4, <1>q DEF Connects, Answers, FilterInv
  <2>5. CASE RoutesDatagram(s)
    <3>1. addr' = addr
      BY <2>5 DEF RoutesDatagram
    <3>2. CASE contacted' = contacted
      BY <3>1, <3>2 DEF FilterInv
    <3>3. ASSUME NEW a \in filter_and_convert, contacted' = [contacted EXCEPT ![s] = @ \cup {a}]
          PROVE FilterInv'
      BY <2>1, <3>1, <3>3, <1>q DEF FilterInv
    <3> QED
      BY <2>5, <3>2, <3>3 DEF RoutesDatagram
  <2>6. CASE Binds(s) \/ WritesData(s)
    BY <2>6 DEF Binds, Answers, WritesData, FilterInv
  <2> QED
    BY <1>3, <2>2, <2>3, <2>4, <2>5, <2>6 DEF Task
<1>4. ASSUME StartUp \/ Clients \/ EventLoop PROVE UNCHANGED <<addr, contacted>>
    BY <1>4
    DEF StartUp, LoadsIdentity, GeneratesIdentity, SaveBegins, SaveEnds, SaveFails, Serves,
        RestUnchanged, Clients, LinkComesUp, LinkGoesDown, ClientConnects, ClientSends,
        ClientCloses, EventLoop, OpensMux, RemovesMux, StartsSession, RefusesPayload, Dispatches,
        taskVars
<1>5. ASSUME NEW l \in Links, Sender(l) PROVE UNCHANGED <<addr, contacted>>
    BY <1>5 DEF Sender, Delivers, Fails, Takes, taskVars
<1>6. ASSUME UNCHANGED vars PROVE UNCHANGED <<addr, contacted>>
    BY <1>6 DEF vars, taskVars
<1> QED
    BY <1>1, <1>2, <1>3, <1>4, <1>5, <1>6 DEF Next

LEMMA FilterHolds == FilterInv => ReachesOnlyAllowed
    BY DEF FilterInv, ReachesOnlyAllowed

-----------------------------------------------------------------------------
(* The ids.                                                                *)
(* After k sessions of a link comes the session with the id k + 1.         *)
LEMMA NextSessionIs ==
    ASSUME NEW l \in Links, NEW k \in 0..MaxConnects, AskedUpTo(l, k)
    PROVE  NextSession(l) = <<l, k + 1>>
<1> DEFINE Mine == {s \in AllAsked : Link(s) = l}
           f == [i \in 1..k |-> <<l, i>>]
<1>1. \A s \in Sessions : s = <<s[1], s[2]>> /\ s[1] \in Links /\ s[2] \in Sids
    BY DEF Sessions
<1>2. k \in Nat /\ 1..k \subseteq Sids
    BY ServerAssumption DEF Sids
<1>3. ASSUME NEW i \in 1..k PROVE f[i] \in Mine
    BY <1>2 DEF Sessions, AllAsked, Link, AskedUpTo
<1>4. f \in [1..k -> Mine]
    BY <1>3
<1>5. \A i, j \in 1..k : f[i] = f[j] => i = j
    OBVIOUS
<1>6. ASSUME NEW s \in Mine PROVE \E i \in 1..k : f[i] = s
  <2>1. s \in Sessions /\ asked[s] # "none" /\ s[1] = l
    BY DEF AllAsked, Link
  <2>2. s = <<l, s[2]>> /\ s[2] \in Sids
    BY <1>1, <2>1
  <2>3. s[2] \in 1..k
    BY <2>1, <2>2 DEF AskedUpTo, Sids
  <2> QED
    BY <2>2, <2>3
<1> HIDE DEF f, Mine
<1>7. f \in Bijection(1..k, Mine)
    BY <1>4, <1>5, <1>6, Fun_IsBij
<1>8. Cardinality(Mine) = k
    BY <1>2, <1>7, FS_CountingElements DEF ExistsBijection
<1>9. NextSession(l) = <<l, 1 + Cardinality(Mine)>>
    BY DEF NextSession, Mine
<1> QED
    BY <1>2, <1>8, <1>9

(* A client's next session is one that was not asked for before.           *)
LEMMA NextSessionIsNew ==
    ASSUME NumberInv, NEW l \in Links, NEW kind, ClientConnects(l, kind)
    PROVE  NextSession(l) \in Sessions /\ Link(NextSession(l)) = l
           /\ asked[NextSession(l)] = "none"
<1>1. NextSession(l) \in Sessions /\ Link(NextSession(l)) = l
    BY NextSessionIsOne DEF ClientConnects
<1>2. PICK k \in 0..MaxConnects : AskedUpTo(l, k)
    BY DEF NumberInv
<1>3. NextSession(l) = <<l, k + 1>>
    BY <1>2, NextSessionIs
<1>4. k + 1 \in Sids
    BY <1>1, <1>3 DEF Sessions
<1> QED
    BY <1>1, <1>2, <1>3, <1>4, ServerAssumption DEF AskedUpTo, Sids

LEMMA NumberInit == Init => NumberInv
<1> SUFFICES ASSUME Init PROVE NumberInv
    OBVIOUS
<1>1. \A l \in Links, i \in Sids : asked[<<l, i>>] = "none" /\ ~(i <= 0)
    BY DEF Init, Each, Sessions, Sids
<1> QED
    BY <1>1, ServerAssumption DEF NumberInv, AskedUpTo

LEMMA NumberStep == Types /\ NumberInv /\ [Next]_vars => NumberInv'
<1> SUFFICES ASSUME Types, NumberInv, [Next]_vars PROVE NumberInv'
    OBVIOUS
<1>1. CASE asked' = asked
    BY <1>1 DEF NumberInv, AskedUpTo
<1>2. CASE Crashes
  <2>1. \A l \in Links, i \in Sids : asked'[<<l, i>>] = "none" /\ ~(i <= 0)
    BY <1>2 DEF Crashes, Each, Sessions, Sids
  <2> QED
    BY <2>1, ServerAssumption DEF NumberInv, AskedUpTo
<1>3. ASSUME NEW l \in Links, NEW kind \in Kinds, ClientConnects(l, kind) PROVE NumberInv'
  <2>1. PICK k \in 0..MaxConnects : AskedUpTo(l, k)
    BY DEF NumberInv
  <2>2. NextSession(l) = <<l, k + 1>> /\ NextSession(l) \in Sessions
    BY <1>3, <2>1, NextSessionIs, NextSessionIsNew
  <2>3. k + 1 \in Sids /\ k \in Int
    BY <2>2, ServerAssumption DEF Sessions
  <2>4. asked' = [asked EXCEPT ![<<l, k + 1>>] = kind] /\ kind # "none"
    BY <1>3, <2>2 DEF ClientConnects, Kinds
  <2>5. asked \in [Sessions -> {"none"} \cup Kinds]
    BY DEF Types, TypeOK
  <2>6. ASSUME NEW i \in Sids PROVE asked'[<<l, i>>] # "none" <=> i <= k + 1
    <3>1. <<l, i>> \in Sessions /\ i \in Int
      BY DEF Sessions, Sids
    <3>2. asked'[<<l, i>>] = IF i = k + 1 THEN kind ELSE asked[<<l, i>>]
      BY <2>4, <2>5, <3>1
    <3>3. asked[<<l, i>>] # "none" <=> i <= k
      BY <2>1 DEF AskedUpTo
    <3> QED
      BY <2>3, <2>4, <3>1, <3>2, <3>3
  <2>7. ASSUME NEW m \in Links, m # l, NEW i \in Sids PROVE asked'[<<m, i>>] = asked[<<m, i>>]
    BY <2>4, <2>5, <2>7 DEF Sessions
  <2>8. k + 1 \in 0..MaxConnects
    BY <2>3 DEF Sids
  <2> QED
    BY <2>6, <2>7, <2>8 DEF NumberInv, AskedUpTo
<1>4. ASSUME StartUp \/ EventLoop PROVE asked' = asked
    BY <1>4
    DEF StartUp, LoadsIdentity, GeneratesIdentity, SaveBegins, SaveEnds, SaveFails, Serves,
        RestUnchanged, EventLoop, OpensMux, RemovesMux, StartsSession, RefusesPayload, Dispatches,
        clientVars
<1>5. ASSUME LinkComesUp \/ (\E l \in Links : LinkGoesDown(l))
                \/ \E s \in Sessions : ClientSends(s) \/ ClientCloses(s)
      PROVE asked' = asked
    BY <1>5 DEF LinkComesUp, LinkGoesDown, ClientSends, ClientCloses, clientVars
<1>6. ASSUME NEW l \in Links, Sender(l) PROVE asked' = asked
    BY <1>6 DEF Sender, Delivers, Fails, Takes
<1>7. ASSUME NEW s \in Sessions, Task(s) \/ SocketEnds(s) PROVE asked' = asked
    BY <1>7
    DEF Task, SocketEnds, Resolves, Refuses, Leaves, Connects, Binds, Answers, WritesData,
        RoutesDatagram, GetsClose, clientVars
<1>8. ASSUME UNCHANGED vars PROVE asked' = asked
    BY <1>8 DEF vars, clientVars
<1> QED
    BY <1>1, <1>2, <1>3, <1>4, <1>5, <1>6, <1>7, <1>8 DEF Next, Clients

-----------------------------------------------------------------------------
(* The CONNECTs on their way to the loop.                                  *)
LEMMA ConnectInit == Init => ConnectInv
<1> SUFFICES ASSUME Init PROVE ConnectInv
    OBVIOUS
<1>1. rx = <<>> /\ Len(rx) = 0
    BY EmptySeq DEF Init
<1>2. \A s \in Sessions : pc[s] = "none"
    BY DEF Init, Each
<1> QED
    BY <1>1, <1>2 DEF ConnectInv

(* Whatever else happens to the sessions, their tasks do not start again.  *)
LEMMA ConnectKept ==
    ASSUME Types, ConnectInv, asked' = asked, rx' = rx,
           \A s \in Sessions : pc'[s] = pc[s] \/ (pc[s] # "none" /\ pc'[s] # "none")
    PROVE  ConnectInv'
<1>1. \A i \in 1..Len(rx) : IsConnect(rx[i]) => rx[i].session \in Sessions
    BY EventsOfSessions DEF Types, QueuesOK
<1> QED
    BY <1>1 DEF ConnectInv, IsConnect

LEMMA ConnectNoMore ==
    ASSUME Types, ConnectInv, NEW e \in Events, Comes(e), ~IsConnect(e),
           asked' = asked, pc' = pc
    PROVE  ConnectInv'
<1>1. /\ Len(rx') = Len(rx) + 1 /\ Len(rx) \in Nat
      /\ \A i \in 1..Len(rx) : rx'[i] = rx[i]
      /\ rx'[Len(rx')] = e
    BY AppendProps DEF Types, QueuesOK, Comes
<1>2. ASSUME NEW i \in 1..Len(rx'), IsConnect(rx'[i]) PROVE i \in 1..Len(rx) /\ rx'[i] = rx[i]
    BY <1>1, <1>2
<1>3. \A i \in 1..Len(rx') : IsConnect(rx'[i]) => i \in 1..Len(rx) /\ rx'[i] = rx[i]
    BY <1>2
<1> HIDE DEF IsConnect
<1> QED
    BY <1>3 DEF ConnectInv

(* The loop takes an event, and starts the session if it was its CONNECT.  *)
LEMMA ConnectHandled ==
    ASSUME Types, ConnectInv, rx # <<>>, Handled, asked' = asked,
           \/ pc' = pc
           \/ IsConnect(rx[1]) /\ asked[rx[1].session] # "invalid"
              /\ \E p : pc' = [pc EXCEPT ![rx[1].session] = p]
    PROVE  ConnectInv'
<1>1. /\ Len(rx') = Len(rx) - 1 /\ Len(rx) \in Nat /\ 1 \in 1..Len(rx)
      /\ \A i \in 1..Len(rx') : rx'[i] = rx[i + 1] /\ i + 1 \in 1..Len(rx)
    BY TailProps DEF Types, QueuesOK, Handled
<1>2. pc \in [Sessions -> {"none", "binding", "resolving", "connecting", "relay", "ended"}]
    BY DEF Types, TypeOK
<1>3. CASE pc' = pc
  <2>1. ASSUME NEW i \in 1..Len(rx'), IsConnect(rx'[i])
        PROVE  /\ asked'[rx'[i].session] # "none" /\ pc'[rx'[i].session] = "none"
               /\ \A j \in 1..Len(rx') :
                     IsConnect(rx'[j]) /\ rx'[j].session = rx'[i].session => j = i
    <3>1. rx'[i] = rx[i + 1] /\ i + 1 \in 1..Len(rx) /\ IsConnect(rx[i + 1])
      BY <1>1, <2>1
    <3>2. asked[rx[i + 1].session] # "none" /\ pc[rx[i + 1].session] = "none"
      BY <3>1 DEF ConnectInv
    <3>3. ASSUME NEW j \in 1..Len(rx'), IsConnect(rx'[j]), rx'[j].session = rx'[i].session PROVE j = i
      <4>1. rx'[j] = rx[j + 1] /\ j + 1 \in 1..Len(rx) /\ IsConnect(rx[j + 1])
        BY <1>1, <3>3
      <4>2. j + 1 = i + 1
        BY <3>1, <3>3, <4>1 DEF ConnectInv
      <4> QED
        BY <4>2
    <3> QED
      BY <1>3, <3>1, <3>2, <3>3
  <2> QED
    BY <1>3, <2>1 DEF ConnectInv, IsConnect
<1>4. ASSUME IsConnect(rx[1]), asked[rx[1].session] # "invalid",
             NEW p, pc' = [pc EXCEPT ![rx[1].session] = p]
      PROVE  ConnectInv'
  <2> DEFINE s == rx[1].session
  <2>1. s \in Sessions /\ asked[s] # "none"
    BY <1>1, <1>4, ElementOfSeq DEF Types, QueuesOK, Events, IsConnect, ConnectInv
  <2>2. ASSUME NEW i \in 1..Len(rx'), IsConnect(rx'[i])
        PROVE  /\ asked'[rx'[i].session] # "none" /\ pc'[rx'[i].session] = "none"
               /\ \A j \in 1..Len(rx') :
                     IsConnect(rx'[j]) /\ rx'[j].session = rx'[i].session => j = i
    <3>1. rx'[i] = rx[i + 1] /\ i + 1 \in 1..Len(rx) /\ i + 1 # 1
      BY <1>1
    <3>2. rx[i + 1].session # s
      BY <1>1, <1>4, <2>2, <3>1 DEF ConnectInv
    <3>3. pc'[rx[i + 1].session] = pc[rx[i + 1].session]
      <4>1. rx[i + 1].session \in Sessions
        <5>1. rx[i + 1] \in Events
          BY <3>1, ElementOfSeq DEF Types, QueuesOK
        <5> QED
          BY <2>2, <3>1, <5>1 DEF Events, IsConnect
      <4> QED
        BY <1>2, <1>4, <3>2, <4>1
    <3>4. ASSUME NEW j \in 1..Len(rx'), IsConnect(rx'[j]), rx'[j].session = rx'[i].session
          PROVE  j = i
      <4>1. rx'[j] = rx[j + 1] /\ j + 1 \in 1..Len(rx)
        BY <1>1
      <4>2. i + 1 = j + 1
        BY <2>2, <3>1, <3>4, <4>1 DEF ConnectInv
      <4> QED
        BY <4>2
    <3> QED
      BY <2>2, <3>1, <3>3, <3>4 DEF ConnectInv
  <2>3. ASSUME NEW t \in Sessions, asked'[t] \in {"none", "invalid"} PROVE pc'[t] = "none"
    BY <1>2, <1>4, <2>1, <2>3 DEF ConnectInv
  <2> QED
    BY <2>2, <2>3 DEF ConnectInv, IsConnect
<1> QED
    BY <1>3, <1>4

(* A CONNECT more is one of a session that was not asked for before.       *)
LEMMA ConnectOneMore ==
    ASSUME Types, NumberInv, ConnectInv, NEW l \in Links, NEW kind \in Kinds,
           ClientConnects(l, kind)
    PROVE  ConnectInv'
<1> DEFINE s == NextSession(l)
           e == Event(l, "Connect", s)
<1>1. s \in Sessions /\ asked[s] = "none"
    BY NextSessionIsNew
<1>2. e \in Events /\ e.session = s
    BY <1>1 DEF Event, Events
<1>3. rx \in Seq(Events) /\ rx' = Append(rx, e)
    BY DEF Types, QueuesOK, ClientConnects, Comes
<1> HIDE DEF e
<1>4. /\ Len(rx') = Len(rx) + 1 /\ Len(rx) \in Nat
      /\ \A i \in 1..Len(rx) : rx'[i] = rx[i]
      /\ rx'[Len(rx')] = e
    BY <1>2, <1>3, AppendProps
<1>5. /\ asked \in [Sessions -> {"none"} \cup Kinds] /\ asked' = [asked EXCEPT ![s] = kind]
      /\ pc' = pc /\ kind # "none"
    BY DEF Types, TypeOK, ClientConnects, taskVars, Kinds
<1> HIDE DEF s
<1>6. ASSUME NEW i \in 1..Len(rx), IsConnect(rx[i])
      PROVE  rx[i].session # s /\ rx[i].session \in Sessions
    BY <1>1, <1>3, <1>6, ElementOfSeq DEF ConnectInv, IsConnect, Events
<1>7. ASSUME NEW i \in 1..Len(rx'), IsConnect(rx'[i])
      PROVE  /\ asked'[rx'[i].session] # "none" /\ pc'[rx'[i].session] = "none"
             /\ \A j \in 1..Len(rx') :
                   IsConnect(rx'[j]) /\ rx'[j].session = rx'[i].session => j = i
  <2>1. CASE i = Len(rx')
    <3>1. rx'[i].session = s /\ \A j \in 1..Len(rx') : j # i => j \in 1..Len(rx)
      BY <1>2, <1>4, <2>1
    <3>2. asked'[s] = kind /\ pc'[s] = "none"
      BY <1>1, <1>5 DEF ConnectInv
    <3> QED
      BY <1>4, <1>5, <1>6, <3>1, <3>2
  <2>2. CASE i # Len(rx')
    <3>1. i \in 1..Len(rx) /\ rx'[i] = rx[i]
      BY <1>4, <2>2
    <3>2. asked'[rx[i].session] = asked[rx[i].session]
      BY <1>5, <1>6, <1>7, <3>1
    <3>3. ASSUME NEW j \in 1..Len(rx'), IsConnect(rx'[j]), rx'[j].session = rx'[i].session
          PROVE  j = i
      <4>1. j # Len(rx')
        BY <1>2, <1>4, <1>6, <1>7, <3>1, <3>3
      <4>2. j \in 1..Len(rx) /\ rx'[j] = rx[j]
        BY <1>4, <4>1
      <4> QED
        BY <1>7, <3>1, <3>3, <4>2 DEF ConnectInv
    <3> QED
      BY <1>5, <1>7, <3>1, <3>2, <3>3 DEF ConnectInv
  <2> QED
    BY <2>1, <2>2
<1>8. ASSUME NEW t \in Sessions, asked'[t] \in {"none", "invalid"} PROVE pc'[t] = "none"
    BY <1>1, <1>5, <1>8 DEF ConnectInv
<1> QED
    BY <1>7, <1>8 DEF ConnectInv, IsConnect

LEMMA ConnectStep == Types /\ NumberInv /\ ConnectInv /\ [Next]_vars => ConnectInv'
<1> SUFFICES ASSUME Types, NumberInv, ConnectInv, [Next]_vars PROVE ConnectInv'
    OBVIOUS
<1>1. CASE UNCHANGED <<asked, rx, pc>>
    BY <1>1, ConnectKept
<1>2. CASE Crashes
  <2>1. rx' = <<>> /\ Len(rx') = 0 /\ \A s \in Sessions : pc'[s] = "none"
    BY <1>2, EmptySeq DEF Crashes, Each
  <2> QED
    BY <2>1 DEF ConnectInv
<1>3. CASE LinkComesUp
  <2>1. Event(links + 1, "LinkEstablished", NoSession) \in Events
    BY <1>3, ServerAssumption DEF LinkComesUp, Types, TypeOK, Event, Events, Links
  <2> QED
    BY <1>3, <2>1, ConnectNoMore DEF LinkComesUp, Event, IsConnect, clientVars, taskVars
<1>4. ASSUME NEW l \in Links, LinkGoesDown(l) PROVE ConnectInv'
  <2>1. Event(l, "LinkClosed", NoSession) \in Events
    BY DEF Event, Events
  <2> QED
    BY <1>4, <2>1, ConnectNoMore DEF LinkGoesDown, Event, IsConnect, clientVars, taskVars
<1>5. ASSUME NEW s \in Sessions, ClientSends(s) \/ ClientCloses(s) PROVE ConnectInv'
  <2>1. PICK e \in Events : Comes(e) /\ ~IsConnect(e)
    BY <1>5, SessionEvent DEF Types, IsConnect
  <2> QED
    BY <1>5, <2>1, ConnectNoMore DEF ClientSends, ClientCloses, taskVars
<1>6. CASE EventLoop
  <2>1. rx # <<>> /\ Handled /\ asked' = asked
    BY <1>6
    DEF EventLoop, OpensMux, RemovesMux, StartsSession, RefusesPayload, Dispatches, Gets, clientVars
  <2>2. CASE StartsSession
    <3>1. Head(rx) = rx[1] /\ IsConnect(rx[1]) /\ asked[rx[1].session] # "invalid"
      BY <2>1, <2>2, TakenEvent DEF StartsSession, Gets, Of, IsConnect, Types
    <3>2. \E p : pc' = [pc EXCEPT ![rx[1].session] = p]
      BY <2>2, <3>1 DEF StartsSession, Of
    <3> QED
      BY <2>1, <3>1, <3>2, ConnectHandled
  <2>3. CASE ~StartsSession
    BY <1>6, <2>1, <2>3, ConnectHandled
    DEF EventLoop, OpensMux, RemovesMux, RefusesPayload, Dispatches, taskVars
  <2> QED
    BY <2>2, <2>3
<1>7. ASSUME NEW s \in Sessions, Task(s) \/ SocketEnds(s) PROVE ConnectInv'
  <2>1. asked' = asked /\ rx' = rx
    BY <1>7
    DEF Task, SocketEnds, Resolves, Refuses, Leaves, Connects, Binds, Answers, WritesData,
        RoutesDatagram, GetsClose, clientVars
  <2>2. pc' = pc \/ (pc[s] # "none" /\ \E p \in {"connecting", "relay", "ended"} : Becomes(s, p))
    BY <1>7
    DEF Task, SocketEnds, Resolves, Refuses, Leaves, Connects, Binds, Answers, WritesData,
        RoutesDatagram, GetsClose, Has
  <2>3. \A t \in Sessions : pc'[t] = pc[t] \/ (pc[t] # "none" /\ pc'[t] # "none")
    BY <2>2 DEF Becomes, Types, TypeOK
  <2> QED
    BY <2>1, <2>3, ConnectKept
<1>8. ASSUME StartUp PROVE UNCHANGED <<asked, rx, pc>>
    BY <1>8
    DEF StartUp, LoadsIdentity, GeneratesIdentity, SaveBegins, SaveEnds, SaveFails, Serves,
        RestUnchanged, taskVars, clientVars
<1>9. ASSUME NEW l \in Links, Sender(l) PROVE UNCHANGED <<asked, rx, pc>>
    BY <1>9 DEF Sender, Delivers, Fails, Takes, taskVars
<1>10. ASSUME UNCHANGED vars PROVE UNCHANGED <<asked, rx, pc>>
    BY <1>10 DEF vars, taskVars, clientVars
<1> QED
    BY <1>1, <1>2, <1>3, <1>4, <1>5, <1>6, <1>7, <1>8, <1>9, <1>10, ConnectOneMore
    DEF Next, Clients

-----------------------------------------------------------------------------
(* The answers on their way to the clients.                                *)
LEMMA SentIsOnItsWay ==
    ASSUME Types, NEW s \in Sessions, NEW t \in {"ConnectOk", "ConnectErr", "Close"}, Send(t, s)
    PROVE  \A r \in Sessions, u \in {"ConnectOk", "ConnectErr"} :
              OnItsWay(r, u)' <=> OnItsWay(r, u) \/ (r = s /\ u = t)
<1> DEFINE k == Link(s)
           n == Len(data_sender_buf[k])
<1>1. /\ k \in Links /\ n \in Nat
      /\ \A l \in Links \ {k} : data_sender_buf'[l] = data_sender_buf[l]
      /\ Len(data_sender_buf'[k]) = n + 1
      /\ \A i \in 1..n : data_sender_buf'[k][i] = data_sender_buf[k][i]
      /\ data_sender_buf'[k][n + 1] = [type |-> t, session |-> s]
    BY SendProps DEF Types
<1> HIDE DEF k, n
<1> SUFFICES ASSUME NEW r \in Sessions, NEW u \in {"ConnectOk", "ConnectErr"}
             PROVE  OnItsWay(r, u)' <=> OnItsWay(r, u) \/ (r = s /\ u = t)
    OBVIOUS
<1>2. ASSUME OnItsWay(r, u)' PROVE OnItsWay(r, u) \/ (r = s /\ u = t)
  <2>l. PICK l \in Links : \E i \in 1..Len(data_sender_buf'[l]) :
            data_sender_buf'[l][i] = [type |-> u, session |-> r]
    BY <1>2 DEF OnItsWay
  <2>1. PICK i \in 1..Len(data_sender_buf'[l]) : data_sender_buf'[l][i] = [type |-> u, session |-> r]
    BY <2>l
  <2>2. CASE l # k
    BY <1>1, <2>1, <2>2 DEF OnItsWay
  <2>3. CASE l = k /\ i = n + 1
    BY <1>1, <2>1, <2>3
  <2>4. CASE l = k /\ i # n + 1
    <3>1. i \in 1..n
      BY <1>1, <2>1, <2>4
    <3> QED
      BY <1>1, <2>1, <2>4, <3>1 DEF OnItsWay, n
  <2> QED
    BY <2>2, <2>3, <2>4
<1>3. ASSUME OnItsWay(r, u) PROVE OnItsWay(r, u)'
  <2>l. PICK l \in Links : \E i \in 1..Len(data_sender_buf[l]) :
            data_sender_buf[l][i] = [type |-> u, session |-> r]
    BY <1>3 DEF OnItsWay
  <2>1. PICK i \in 1..Len(data_sender_buf[l]) : data_sender_buf[l][i] = [type |-> u, session |-> r]
    BY <2>l
  <2>2. CASE l # k
    BY <1>1, <2>1, <2>2 DEF OnItsWay
  <2>3. CASE l = k
    <3>1. i \in 1..n /\ i \in 1..Len(data_sender_buf'[k])
      BY <1>1, <2>1, <2>3 DEF n
    <3> QED
      BY <1>1, <2>1, <2>3, <3>1 DEF OnItsWay
  <2> QED
    BY <2>2, <2>3
<1>4. ASSUME r = s, u = t PROVE OnItsWay(r, u)'
  <2>1. n + 1 \in 1..Len(data_sender_buf'[k])
    BY <1>1
  <2> QED
    BY <1>1, <1>4, <2>1 DEF OnItsWay
<1> QED
    BY <1>2, <1>3, <1>4

(* What the sender took was on its way; nothing else is.                   *)
LEMMA TakenWasOnItsWay ==
    ASSUME Types, NEW l \in Links, Takes(l)
    PROVE  /\ Head(data_sender_buf[l]) \in Frames
           /\ OnItsWay(Head(data_sender_buf[l]).session, Head(data_sender_buf[l]).type)
           /\ \A r \in Sessions, u \in {"ConnectOk", "ConnectErr"} :
                 OnItsWay(r, u)' => OnItsWay(r, u)
<1>1. /\ Head(data_sender_buf[l]) \in Frames
      /\ Len(data_sender_buf[l]) \in Nat \ {0}
      /\ Head(data_sender_buf[l]) = data_sender_buf[l][1]
      /\ \A m \in Links \ {l} : data_sender_buf'[m] = data_sender_buf[m]
      /\ Len(data_sender_buf'[l]) = Len(data_sender_buf[l]) - 1
      /\ \A i \in 1..Len(data_sender_buf'[l]) : data_sender_buf'[l][i] = data_sender_buf[l][i + 1]
    BY TakeProps DEF Types
<1>2. OnItsWay(Head(data_sender_buf[l]).session, Head(data_sender_buf[l]).type)
  <2>1. 1 \in 1..Len(data_sender_buf[l])
    BY <1>1
  <2>2. data_sender_buf[l][1] = [type |-> Head(data_sender_buf[l]).type,
                                 session |-> Head(data_sender_buf[l]).session]
    BY <1>1 DEF Frames
  <2> QED
    BY <2>1, <2>2 DEF OnItsWay
<1>3. ASSUME NEW r \in Sessions, NEW u \in {"ConnectOk", "ConnectErr"}, OnItsWay(r, u)'
      PROVE  OnItsWay(r, u)
  <2>l. PICK m \in Links : \E i \in 1..Len(data_sender_buf'[m]) :
            data_sender_buf'[m][i] = [type |-> u, session |-> r]
    BY <1>3 DEF OnItsWay
  <2>1. PICK i \in 1..Len(data_sender_buf'[m]) : data_sender_buf'[m][i] = [type |-> u, session |-> r]
    BY <2>l
  <2>2. CASE m # l
    BY <1>1, <2>1, <2>2 DEF OnItsWay
  <2>3. CASE m = l
    <3>1. i + 1 \in 1..Len(data_sender_buf[l])
      BY <1>1, <2>1, <2>3
    <3> QED
      BY <1>1, <2>1, <2>3, <3>1 DEF OnItsWay
  <2> QED
    BY <2>2, <2>3
<1> QED
    BY <1>1, <1>2, <1>3

LEMMA NothingOnItsWay ==
    ASSUME \A l \in Links : data_sender_buf[l] = <<>>
    PROVE  \A s \in Sessions, u \in {"ConnectOk", "ConnectErr"} : ~OnItsWay(s, u)
    BY EmptySeq DEF OnItsWay

LEMMA AnswerInit == Init => AnswerInv
<1> SUFFICES ASSUME Init PROVE AnswerInv
    OBVIOUS
<1>1. \A s \in Sessions, u \in {"ConnectOk", "ConnectErr"} : ~OnItsWay(s, u)
    BY NothingOnItsWay DEF Init
<1> QED
    BY <1>1 DEF Init, Each, AnswerInv, Accepted

(* What leaves the channels and the answers alone, and moves only sessions *)
(* that were told nothing.                                                 *)
LEMMA AnswerKept ==
    ASSUME AnswerInv, data_sender_buf' = data_sender_buf, told' = told,
           \A s \in Sessions :
              \/ pc'[s] = pc[s]
              \/ ~Accepted(s) /\ ~OnItsWay(s, "ConnectErr"),
           \A s \in Sessions : asked[s] = "invalid" => asked'[s] = "invalid"
    PROVE  AnswerInv'
    BY DEF AnswerInv, Accepted, OnItsWay

LEMMA AnswerStep == Types /\ NumberInv /\ ConnectInv /\ AnswerInv /\ [Next]_vars => AnswerInv'
<1> SUFFICES ASSUME Types, NumberInv, ConnectInv, AnswerInv, [Next]_vars PROVE AnswerInv'
    OBVIOUS
<1>q. pc \in [Sessions -> {"none", "binding", "resolving", "connecting", "relay", "ended"}]
    BY DEF Types, TypeOK
<1>1. CASE UNCHANGED <<asked, pc, told, data_sender_buf>>
    BY <1>1, AnswerKept
<1>2. CASE Crashes
  <2>1. \A s \in Sessions, u \in {"ConnectOk", "ConnectErr"} : ~OnItsWay(s, u)'
    BY <1>2, EmptySeq DEF Crashes, OnItsWay
  <2> QED
    BY <1>2, <2>1 DEF Crashes, Each, AnswerInv, Accepted
<1>3. ASSUME NEW l \in Links, NEW kind \in Kinds, ClientConnects(l, kind) PROVE AnswerInv'
  <2>1. NextSession(l) \in Sessions /\ asked[NextSession(l)] = "none"
    BY <1>3, NextSessionIsNew
  <2>2. \A s \in Sessions : asked[s] = "invalid" => asked'[s] = "invalid"
    BY <1>3, <2>1 DEF ClientConnects, Types, TypeOK
  <2> QED
    BY <1>3, <2>2, AnswerKept DEF ClientConnects, muxVars, taskVars
<1>4. CASE StartsSession
  <2>1. /\ Of \in Sessions /\ pc[Of] = "none" /\ asked[Of] # "invalid"
    <3>1. Head(rx) = rx[1] /\ Of \in Sessions /\ IsConnect(rx[1]) /\ 1 \in 1..Len(rx)
      BY <1>4, TakenEvent, EmptySeq DEF StartsSession, Gets, IsConnect, Types, QueuesOK
    <3> QED
      BY <1>4, <3>1 DEF StartsSession, ConnectInv, Of
  <2>2. ~Accepted(Of) /\ ~OnItsWay(Of, "ConnectErr")
    BY <2>1 DEF AnswerInv
  <2>3. \A s \in Sessions : s # Of => pc'[s] = pc[s]
    BY <1>4, <1>q DEF StartsSession
  <2> QED
    BY <1>4, <2>2, <2>3, AnswerKept DEF StartsSession, clientVars
<1>5. CASE RefusesPayload
  <2>1. /\ Of \in Sessions /\ pc[Of] = "none" /\ asked[Of] = "invalid"
    BY <1>5, TakenEvent DEF RefusesPayload, Gets, Types, ConnectInv
  <2>2. \A r \in Sessions, u \in {"ConnectOk", "ConnectErr"} :
            OnItsWay(r, u)' <=> OnItsWay(r, u) \/ (r = Of /\ u = "ConnectErr")
    BY <1>5, <2>1, SentIsOnItsWay DEF RefusesPayload
  <2>3. UNCHANGED <<pc, asked, told>>
    BY <1>5 DEF RefusesPayload, taskVars, clientVars
  <2> QED
    BY <2>1, <2>2, <2>3 DEF AnswerInv, Accepted
<1>6. ASSUME NEW l \in Links, Sender(l) PROVE AnswerInv'
  <2> DEFINE f == Head(data_sender_buf[l])
  <2>1. Takes(l)
    BY <1>6 DEF Sender, Delivers, Fails
  <2>2. /\ f \in Frames /\ OnItsWay(f.session, f.type)
        /\ \A r \in Sessions, u \in {"ConnectOk", "ConnectErr"} : OnItsWay(r, u)' => OnItsWay(r, u)
    BY <2>1, TakenWasOnItsWay
  <2> HIDE DEF f
  <2>3. \A s \in Sessions : told'[s] = "ConnectOk" => told[s] = "ConnectOk" \/ OnItsWay(s, "ConnectOk")
    <3>1. told' = told \/ told' = Answer(f)
      BY <1>6 DEF Sender, Delivers, Fails, f
    <3>2. told \in [Sessions -> {"none", "ConnectOk", "ConnectErr"}]
      BY DEF Types, TypeOK
    <3> QED
      BY <2>2, <3>1, <3>2 DEF Answer
  <2>4. UNCHANGED <<pc, asked>>
    BY <2>1 DEF Takes, taskVars
  <2> QED
    BY <2>2, <2>3, <2>4 DEF AnswerInv, Accepted
<1>7. ASSUME NEW s \in Sessions, NEW t \in {"ConnectErr", "Close"}, Leaves(s, t),
             \/ t = "ConnectErr" /\ pc[s] \in {"resolving", "connecting", "binding"}
             \/ t = "Close" /\ pc[s] = "relay"
      PROVE  AnswerInv'
  <2>1. \A r \in Sessions, u \in {"ConnectOk", "ConnectErr"} :
            OnItsWay(r, u)' <=> OnItsWay(r, u) \/ (r = s /\ u = t)
    BY <1>7, SentIsOnItsWay DEF Leaves
  <2>2. UNCHANGED <<asked, told>> /\ pc'[s] = "ended" /\ \A r \in Sessions : r # s => pc'[r] = pc[r]
    BY <1>7, <1>q DEF Leaves, Becomes, clientVars
  <2> QED
    BY <1>7, <2>1, <2>2 DEF AnswerInv, Accepted
<1>8. ASSUME NEW s \in Sessions, Task(s) \/ SocketEnds(s) PROVE AnswerInv'
  <2>1. CASE Resolves(s)
    <3>1. ~Accepted(s) /\ ~OnItsWay(s, "ConnectErr")
      BY <2>1 DEF Resolves, AnswerInv, ConnectInv
    <3>2. \A r \in Sessions : r # s => pc'[r] = pc[r]
      BY <2>1, <1>q DEF Resolves, Becomes
    <3> QED
      BY <2>1, <3>1, <3>2, AnswerKept DEF Resolves, muxVars, clientVars
  <2>2. CASE Refuses(s) \/ GetsClose(s) \/ SocketEnds(s)
    BY <1>7, <2>2 DEF Refuses, GetsClose, SocketEnds, Has
  <2>3. CASE Connects(s) \/ Binds(s)
    <3>1. \A r \in Sessions, u \in {"ConnectOk", "ConnectErr"} :
              OnItsWay(r, u)' <=> OnItsWay(r, u) \/ (r = s /\ u = "ConnectOk")
      BY <2>3, SentIsOnItsWay DEF Connects, Binds, Answers
    <3>2. UNCHANGED <<asked, told>> /\ pc'[s] = "relay" /\ \A r \in Sessions : r # s => pc'[r] = pc[r]
      BY <2>3, <1>q DEF Connects, Binds, Answers, Becomes, clientVars
    <3>3. pc[s] \in {"connecting", "binding"} /\ asked[s] # "invalid" /\ ~OnItsWay(s, "ConnectErr")
      BY <2>3 DEF Connects, Binds, ConnectInv, AnswerInv
    <3> QED
      BY <3>1, <3>2, <3>3 DEF AnswerInv, Accepted
  <2>4. CASE WritesData(s) \/ RoutesDatagram(s)
    BY <1>1, <2>4 DEF WritesData, RoutesDatagram, muxVars, clientVars
  <2> QED
    BY <1>8, <2>1, <2>2, <2>3, <2>4 DEF Task
<1>9. ASSUME OpensMux \/ RemovesMux \/ Dispatches \/ StartUp
      PROVE  UNCHANGED <<asked, pc, told, data_sender_buf>>
    BY <1>9
    DEF OpensMux, RemovesMux, Dispatches, StartUp, LoadsIdentity, GeneratesIdentity, SaveBegins,
        SaveEnds, SaveFails, Serves, RestUnchanged, muxVars, taskVars, clientVars
<1>10. ASSUME LinkComesUp \/ (\E l \in Links : LinkGoesDown(l))
                \/ \E s \in Sessions : ClientSends(s) \/ ClientCloses(s)
       PROVE  UNCHANGED <<asked, pc, told, data_sender_buf>>
    BY <1>10
    DEF LinkComesUp, LinkGoesDown, ClientSends, ClientCloses, muxVars, taskVars, clientVars
<1>11. ASSUME UNCHANGED vars PROVE UNCHANGED <<asked, pc, told, data_sender_buf>>
    BY <1>11 DEF vars, muxVars, taskVars, clientVars
<1> QED
    BY <1>1, <1>2, <1>3, <1>4, <1>5, <1>6, <1>8, <1>9, <1>10, <1>11 DEF Next, Clients, EventLoop

-----------------------------------------------------------------------------
(* The DATA of a session, from its client to its relay.  First what a step *)
(* may do to it, then which step does what.                                *)
LEMMA DataInit == Init => DataInv
<1> SUFFICES ASSUME Init, NEW s \in Sessions PROVE DataOf(s)
    BY DEF DataInv
<1>1. rx = <<>> /\ inbox[s] = <<>> /\ received[s] = <<>> /\ Len(<<>>) = 0 /\ sent[s] = 0
    BY EmptySeq DEF Init, Each
<1> QED
    BY <1>1 DEF DataOf, Increasing, Outstanding

(* DATA is taken off the events, off the inbox, or away with the inbox.    *)
LEMMA DataTaken ==
    ASSUME Types, NEW s \in Sessions, DataOf(s), sent'[s] = sent[s],
           told[s] = "ConnectOk" => told'[s] = "ConnectOk",
           received'[s] = received[s] \/ received'[s] = <<>>,
           NEW a \in Nat, Len(rx') = Len(rx) - a, \A i \in 1..Len(rx') : rx'[i] = rx[i + a],
           NEW b \in Nat, Len(inbox'[s]) = Len(inbox[s]) - b,
           \A i \in 1..Len(inbox'[s]) : inbox'[s][i] = inbox[s][i + b]
    PROVE  DataOf(s)'
<1>1. /\ Len(rx) \in Nat /\ Len(inbox[s]) \in Nat /\ Len(received[s]) \in Nat
      /\ sent[s] \in Nat /\ Len(<<>>) = 0
    BY LenProperties, EmptySeq DEF Types, TypeOK, QueuesOK
<1>2. \A i \in 1..Len(rx') : i + a \in 1..Len(rx)
    BY <1>1
<1>3. \A i \in 1..Len(inbox'[s]) : i + b \in 1..Len(inbox[s])
    BY <1>1
<1>4. sent'[s] > 0 => told'[s] = "ConnectOk"
    BY DEF DataOf
<1>5. Len(received'[s]) <= sent'[s] /\ Len(received'[s]) <= Len(received[s])
      /\ Len(received'[s]) \in Nat
    BY <1>1 DEF DataOf
<1>6. \A i \in 1..Len(received'[s]) : received'[s][i].session = s
    BY <1>1 DEF DataOf
<1>7. \A i \in 1..Len(inbox'[s]) : inbox'[s][i].session = s
    BY <1>3 DEF DataOf
<1>8. Increasing(inbox'[s], s)
  <2> SUFFICES ASSUME NEW i \in 1..Len(inbox'[s]), NEW j \in 1..Len(inbox'[s]), i < j,
                      IsData(inbox[s][i + b]), IsData(inbox[s][j + b]),
                      inbox[s][i + b].session = s, inbox[s][j + b].session = s
               PROVE  inbox[s][i + b].n < inbox[s][j + b].n
    BY DEF Increasing
  <2>1. i + b < j + b
    OBVIOUS
  <2> QED
    BY <1>3, <2>1 DEF DataOf, Increasing
<1>9. Increasing(rx', s)
  <2> SUFFICES ASSUME NEW i \in 1..Len(rx'), NEW j \in 1..Len(rx'), i < j,
                      IsData(rx[i + a]), IsData(rx[j + a]),
                      rx[i + a].session = s, rx[j + a].session = s
               PROVE  rx[i + a].n < rx[j + a].n
    BY DEF Increasing
  <2>1. i + a < j + a
    OBVIOUS
  <2> QED
    BY <1>2, <2>1 DEF DataOf, Increasing
<1>o. \A n \in (Len(received[s]) + 1)..sent[s] : n \in (Len(received'[s]) + 1)..sent'[s]
  <2>1. /\ Len(received'[s]) <= Len(received[s]) /\ sent'[s] = sent[s] /\ sent[s] \in Nat
        /\ Len(received'[s]) \in Nat /\ Len(received[s]) \in Nat
    BY <1>1, <1>5
  <2> QED
    BY <2>1
<1>10. \A i \in 1..Len(inbox'[s]) : IsData(inbox'[s][i]) /\ inbox'[s][i].session = s =>
          inbox'[s][i].n \in (Len(received'[s]) + 1)..sent'[s]
  <2> SUFFICES ASSUME NEW i \in 1..Len(inbox'[s]), IsData(inbox'[s][i]), inbox'[s][i].session = s
               PROVE  inbox'[s][i].n \in (Len(received'[s]) + 1)..sent'[s]
    OBVIOUS
  <2>1. inbox'[s][i] = inbox[s][i + b] /\ i + b \in 1..Len(inbox[s])
    BY <1>3
  <2>2. IsData(inbox[s][i + b]) /\ inbox[s][i + b].session = s
    BY <2>1
  <2>3. inbox[s][i + b].n \in (Len(received[s]) + 1)..sent[s]
    BY <2>1, <2>2 DEF DataOf, Outstanding
  <2>4. inbox[s][i + b].n \in (Len(received'[s]) + 1)..sent'[s]
    BY <1>o, <2>3
  <2> QED
    BY <2>1, <2>4
<1>11. \A i \in 1..Len(rx') : IsData(rx'[i]) /\ rx'[i].session = s =>
          rx'[i].n \in (Len(received'[s]) + 1)..sent'[s]
  <2> SUFFICES ASSUME NEW i \in 1..Len(rx'), IsData(rx'[i]), rx'[i].session = s
               PROVE  rx'[i].n \in (Len(received'[s]) + 1)..sent'[s]
    OBVIOUS
  <2>1. rx'[i] = rx[i + a] /\ i + a \in 1..Len(rx)
    BY <1>2
  <2>2. IsData(rx[i + a]) /\ rx[i + a].session = s
    BY <2>1
  <2>3. rx[i + a].n \in (Len(received[s]) + 1)..sent[s]
    BY <2>1, <2>2 DEF DataOf, Outstanding
  <2>4. rx[i + a].n \in (Len(received'[s]) + 1)..sent'[s]
    BY <1>o, <2>3
  <2> QED
    BY <2>1, <2>4
<1>12. \A i \in 1..Len(inbox'[s]), j \in 1..Len(rx') :
          IsData(inbox'[s][i]) /\ IsData(rx'[j]) /\ rx'[j].session = s => inbox'[s][i].n < rx'[j].n
    BY <1>2, <1>3 DEF DataOf
<1> QED
    BY <1>4, <1>5, <1>6, <1>7, <1>8, <1>9, <1>10, <1>11, <1>12
    DEF DataOf, Increasing, Outstanding, IsData

(* An event comes; if it is DATA of the session, it is the next one.       *)
LEMMA DataComes ==
    ASSUME Types, NEW s \in Sessions, DataOf(s), NEW e \in Events, Comes(e),
           inbox'[s] = inbox[s], received'[s] = received[s],
           told'[s] = told[s],
           \/ ~(IsData(e) /\ e.session = s) /\ sent'[s] = sent[s]
           \/ e.n = sent[s] + 1 /\ sent'[s] = sent[s] + 1 /\ told[s] = "ConnectOk"
    PROVE  DataOf(s)'
<1>1. /\ Len(rx) \in Nat /\ Len(inbox[s]) \in Nat /\ Len(received[s]) \in Nat /\ sent[s] \in Nat
    BY LenProperties DEF Types, TypeOK, QueuesOK
<1>2. /\ Len(rx') = Len(rx) + 1
      /\ \A i \in 1..Len(rx) : rx'[i] = rx[i]
      /\ rx'[Len(rx')] = e
    BY AppendProps DEF Types, QueuesOK, Comes
<1>3. sent'[s] \in Nat /\ sent[s] <= sent'[s] /\ Len(received[s]) <= sent[s]
    BY <1>1 DEF DataOf
<1>4. \A i \in 1..Len(rx') : (i \in 1..Len(rx) /\ rx'[i] = rx[i]) \/ rx'[i] = e
    BY <1>1, <1>2
<1>5. \A i \in 1..Len(rx) : IsData(rx[i]) /\ rx[i].session = s => rx[i].n \in (Len(received[s]) + 1)..sent[s]
    BY DEF DataOf, Outstanding
<1>6. \A i \in 1..Len(inbox[s]) : IsData(inbox[s][i]) =>
          inbox[s][i].n \in (Len(received[s]) + 1)..sent[s]
    BY DEF DataOf, Outstanding
<1>7. IsData(e) /\ e.session = s => e.n = sent[s] + 1 /\ sent'[s] = sent[s] + 1
    OBVIOUS
<1>8. Increasing(rx', s)
  <2> SUFFICES ASSUME NEW i \in 1..Len(rx'), NEW j \in 1..Len(rx'), i < j,
                      IsData(rx'[i]), IsData(rx'[j]), rx'[i].session = s, rx'[j].session = s
               PROVE  rx'[i].n < rx'[j].n
    BY DEF Increasing
  <2>1. i \in 1..Len(rx) /\ rx'[i] = rx[i] /\ rx[i].n \in (Len(received[s]) + 1)..sent[s]
    BY <1>1, <1>2, <1>4, <1>5
  <2>2. CASE j = Len(rx')
    BY <1>1, <1>2, <1>7, <2>1, <2>2
  <2>3. CASE j # Len(rx')
    <3>1. j \in 1..Len(rx) /\ rx'[j] = rx[j]
      BY <1>1, <1>2, <2>3
    <3> QED
      BY <2>1, <3>1 DEF DataOf, Increasing
  <2> QED
    BY <2>2, <2>3
<1>9. \A i \in 1..Len(rx') : IsData(rx'[i]) /\ rx'[i].session = s =>
          rx'[i].n \in (Len(received'[s]) + 1)..sent'[s]
  <2> SUFFICES ASSUME NEW i \in 1..Len(rx'), IsData(rx'[i]), rx'[i].session = s
               PROVE  rx'[i].n \in (Len(received[s]) + 1)..sent'[s]
    OBVIOUS
  <2>1. CASE rx'[i] = e
    BY <1>1, <1>3, <1>7, <2>1
  <2>2. CASE rx'[i] # e
    BY <1>1, <1>3, <1>4, <1>5, <2>2
  <2> QED
    BY <2>1, <2>2
<1>10. \A i \in 1..Len(inbox'[s]) : IsData(inbox'[s][i]) /\ inbox'[s][i].session = s =>
          inbox'[s][i].n \in (Len(received'[s]) + 1)..sent'[s]
    BY <1>1, <1>3, <1>6
<1>11. \A i \in 1..Len(inbox'[s]), j \in 1..Len(rx') :
          IsData(inbox'[s][i]) /\ IsData(rx'[j]) /\ rx'[j].session = s => inbox'[s][i].n < rx'[j].n
  <2> SUFFICES ASSUME NEW i \in 1..Len(inbox[s]), NEW j \in 1..Len(rx'),
                      IsData(inbox[s][i]), IsData(rx'[j]), rx'[j].session = s
               PROVE  inbox[s][i].n < rx'[j].n
    OBVIOUS
  <2>1. CASE rx'[j] = e
    BY <1>1, <1>6, <1>7, <2>1
  <2>2. CASE rx'[j] # e
    BY <1>4, <2>2 DEF DataOf
  <2> QED
    BY <2>1, <2>2
<1>12. sent'[s] > 0 => told'[s] = "ConnectOk"
    BY <1>1 DEF DataOf
<1>13. Increasing(inbox'[s], s) /\ \A i \in 1..Len(inbox'[s]) : inbox'[s][i].session = s
    BY DEF DataOf
<1>14. Len(received'[s]) <= sent'[s] /\ \A i \in 1..Len(received'[s]) : received'[s][i].session = s
    BY <1>1, <1>3 DEF DataOf
<1> QED
    BY <1>8, <1>9, <1>10, <1>11, <1>12, <1>13, <1>14 DEF DataOf, Increasing, Outstanding, IsData

(* The loop puts the session's first event into its inbox.                 *)
LEMMA DataDispatched ==
    ASSUME Types, NEW s \in Sessions, DataOf(s), rx # <<>>, Handled, Head(rx).session = s,
           inbox'[s] = Append(inbox[s], Head(rx)),
           received'[s] = received[s], told'[s] = told[s], sent'[s] = sent[s]
    PROVE  DataOf(s)'
<1> DEFINE e == rx[1]
           n == Len(inbox[s])
<1>1. /\ Len(rx) \in Nat /\ n \in Nat /\ Len(received[s]) \in Nat /\ sent[s] \in Nat
    BY LenProperties DEF Types, TypeOK, QueuesOK
<1>2. /\ Len(rx') = Len(rx) - 1 /\ 1 \in 1..Len(rx) /\ Head(rx) = e /\ e \in Events
      /\ \A i \in 1..Len(rx') : rx'[i] = rx[i + 1] /\ i + 1 \in 1..Len(rx)
    BY TailProps DEF Types, QueuesOK, Handled
<1>3. inbox[s] \in Seq(Events) /\ inbox'[s] = Append(inbox[s], e)
    BY <1>2 DEF Types, QueuesOK
<1>4. /\ Len(inbox'[s]) = n + 1
      /\ \A i \in 1..n : inbox'[s][i] = inbox[s][i]
      /\ inbox'[s][n + 1] = e
    BY <1>2, <1>3, AppendProps
<1>5. e.session = s
    BY <1>2
<1> HIDE DEF e, n
<1>6. \A i \in 1..Len(inbox'[s]) : (i \in 1..n /\ inbox'[s][i] = inbox[s][i]) \/ (i = n + 1 /\ inbox'[s][i] = e)
    BY <1>1, <1>4
<1>7. IsData(e) => /\ e.n \in (Len(received[s]) + 1)..sent[s]
                   /\ \A i \in 1..n : IsData(inbox[s][i]) => inbox[s][i].n < e.n
                   /\ \A j \in 1..Len(rx') : IsData(rx'[j]) /\ rx'[j].session = s => e.n < rx'[j].n
  <2> SUFFICES ASSUME IsData(e)
               PROVE  /\ e.n \in (Len(received[s]) + 1)..sent[s]
                      /\ \A i \in 1..n : IsData(inbox[s][i]) => inbox[s][i].n < e.n
                      /\ \A j \in 1..Len(rx') : IsData(rx'[j]) /\ rx'[j].session = s => e.n < rx'[j].n
    OBVIOUS
  <2>1. e.n \in (Len(received[s]) + 1)..sent[s]
    BY <1>2, <1>5 DEF DataOf, Outstanding, e
  <2>2. \A i \in 1..n : IsData(inbox[s][i]) => inbox[s][i].n < e.n
    BY <1>2, <1>5 DEF DataOf, e, n
  <2>3. ASSUME NEW j \in 1..Len(rx'), IsData(rx'[j]), rx'[j].session = s PROVE e.n < rx'[j].n
    <3>1. 1 < j + 1 /\ rx'[j] = rx[j + 1] /\ j + 1 \in 1..Len(rx)
      BY <1>2
    <3> QED
      BY <1>2, <1>5, <2>3, <3>1 DEF DataOf, Increasing, e
  <2> QED
    BY <2>1, <2>2, <2>3
<1>8. Increasing(inbox'[s], s)
  <2> SUFFICES ASSUME NEW i \in 1..Len(inbox'[s]), NEW j \in 1..Len(inbox'[s]), i < j,
                      IsData(inbox'[s][i]), IsData(inbox'[s][j]),
                      inbox'[s][i].session = s, inbox'[s][j].session = s
               PROVE  inbox'[s][i].n < inbox'[s][j].n
    BY DEF Increasing
  <2>1. i \in 1..n /\ inbox'[s][i] = inbox[s][i]
    BY <1>1, <1>4
  <2>2. CASE j = n + 1
    BY <1>4, <1>7, <2>1, <2>2
  <2>3. CASE j # n + 1
    <3>1. j \in 1..n /\ inbox'[s][j] = inbox[s][j]
      BY <1>6, <2>3
    <3> QED
      BY <2>1, <3>1 DEF DataOf, Increasing, n
  <2> QED
    BY <2>2, <2>3
<1>9. Increasing(rx', s)
  <2> SUFFICES ASSUME NEW i \in 1..Len(rx'), NEW j \in 1..Len(rx'), i < j,
                      IsData(rx[i + 1]), IsData(rx[j + 1]),
                      rx[i + 1].session = s, rx[j + 1].session = s
               PROVE  rx[i + 1].n < rx[j + 1].n
    BY <1>2 DEF Increasing
  <2>1. i + 1 < j + 1
    OBVIOUS
  <2> QED
    BY <1>2, <2>1 DEF DataOf, Increasing
<1>10. \A i \in 1..Len(inbox'[s]) : IsData(inbox'[s][i]) =>
          inbox'[s][i].n \in (Len(received[s]) + 1)..sent[s]
  <2> SUFFICES ASSUME NEW i \in 1..Len(inbox'[s]), IsData(inbox'[s][i])
               PROVE  inbox'[s][i].n \in (Len(received[s]) + 1)..sent[s]
    OBVIOUS
  <2>1. CASE i = n + 1
    BY <1>4, <1>7, <2>1
  <2>2. CASE i # n + 1
    BY <1>6, <2>2 DEF DataOf, Outstanding, n
  <2> QED
    BY <2>1, <2>2
<1>11. \A i \in 1..Len(rx') : IsData(rx'[i]) /\ rx'[i].session = s =>
          rx'[i].n \in (Len(received[s]) + 1)..sent[s]
    BY <1>2 DEF DataOf, Outstanding
<1>12. \A i \in 1..Len(inbox'[s]), j \in 1..Len(rx') :
          IsData(inbox'[s][i]) /\ IsData(rx'[j]) /\ rx'[j].session = s => inbox'[s][i].n < rx'[j].n
  <2> SUFFICES ASSUME NEW i \in 1..Len(inbox'[s]), NEW j \in 1..Len(rx'),
                      IsData(inbox'[s][i]), IsData(rx'[j]), rx'[j].session = s
               PROVE  inbox'[s][i].n < rx'[j].n
    OBVIOUS
  <2>1. CASE i = n + 1
    BY <1>4, <1>7, <2>1
  <2>2. CASE i # n + 1
    BY <1>2, <1>6, <2>2 DEF DataOf, n
  <2> QED
    BY <2>1, <2>2
<1>13. \A i \in 1..Len(inbox'[s]) : inbox'[s][i].session = s
    BY <1>5, <1>6 DEF DataOf, n
<1>14. /\ sent'[s] > 0 => told'[s] = "ConnectOk"
       /\ Len(received'[s]) <= sent'[s]
       /\ \A i \in 1..Len(received'[s]) : received'[s][i].session = s
    BY DEF DataOf
<1> QED
    BY <1>8, <1>9, <1>10, <1>11, <1>12, <1>13, <1>14 DEF DataOf, Increasing, Outstanding, IsData

(* The relay takes the DATA at the front of the inbox.                     *)
LEMMA DataReceived ==
    ASSUME Types, NEW s \in Sessions, DataOf(s), inbox[s] # <<>>, IsData(Head(inbox[s])),
           inbox'[s] = Tail(inbox[s]), received'[s] = Append(received[s], Head(inbox[s])),
           rx' = rx, told'[s] = told[s], sent'[s] = sent[s]
    PROVE  DataOf(s)'
<1> DEFINE e == inbox[s][1]
           n == Len(received[s])
<1>1. /\ Len(rx) \in Nat /\ n \in Nat /\ sent[s] \in Nat /\ Len(inbox[s]) \in Nat
    BY LenProperties DEF Types, TypeOK, QueuesOK
<1>2. /\ Len(inbox'[s]) = Len(inbox[s]) - 1 /\ Len(inbox[s]) \in Nat \ {0}
      /\ Head(inbox[s]) = e /\ e \in Events
      /\ \A i \in 1..Len(inbox'[s]) : inbox'[s][i] = inbox[s][i + 1]
    BY TailProps DEF Types, QueuesOK
<1>3. 1 \in 1..Len(inbox[s]) /\ \A i \in 1..Len(inbox'[s]) : i + 1 \in 1..Len(inbox[s])
    BY <1>2
<1>4. received[s] \in Seq(Events) /\ received'[s] = Append(received[s], e)
    BY <1>2 DEF Types, QueuesOK
<1>5. /\ Len(received'[s]) = n + 1
      /\ \A i \in 1..n : received'[s][i] = received[s][i]
      /\ received'[s][n + 1] = e
    BY <1>2, <1>4, AppendProps
<1>6. IsData(e) /\ e.session = s
    BY <1>2, <1>3 DEF DataOf
<1> HIDE DEF e, n
<1>7. e.n \in (n + 1)..sent[s]
    BY <1>3, <1>6 DEF DataOf, Outstanding, e, n
<1>8. ASSUME NEW i \in 1..Len(inbox'[s]), IsData(inbox'[s][i]) PROVE inbox'[s][i].n \in (n + 2)..sent[s]
  <2>1. 1 < i + 1 /\ inbox'[s][i] = inbox[s][i + 1] /\ i + 1 \in 1..Len(inbox[s])
    BY <1>2, <1>3
  <2>2. inbox[s][i + 1].session = s
    BY <2>1 DEF DataOf
  <2>3. e.n < inbox[s][i + 1].n
    BY <1>3, <1>6, <1>8, <2>1, <2>2 DEF DataOf, Increasing, e
  <2>4. inbox[s][i + 1].n \in (n + 1)..sent[s]
    BY <1>8, <2>1, <2>2 DEF DataOf, Outstanding, n
  <2> QED
    BY <1>1, <1>7, <2>1, <2>3, <2>4
<1>9. ASSUME NEW i \in 1..Len(rx'), IsData(rx'[i]), rx'[i].session = s PROVE rx'[i].n \in (n + 2)..sent[s]
  <2>1. e.n < rx[i].n
    BY <1>3, <1>6, <1>9 DEF DataOf, e
  <2>2. rx[i].n \in (n + 1)..sent[s]
    BY <1>9 DEF DataOf, Outstanding, n
  <2> QED
    BY <1>1, <1>7, <2>1, <2>2
<1>10. Increasing(inbox'[s], s)
  <2> SUFFICES ASSUME NEW i \in 1..Len(inbox'[s]), NEW j \in 1..Len(inbox'[s]), i < j,
                      IsData(inbox[s][i + 1]), IsData(inbox[s][j + 1]),
                      inbox[s][i + 1].session = s, inbox[s][j + 1].session = s
               PROVE  inbox[s][i + 1].n < inbox[s][j + 1].n
    BY <1>2 DEF Increasing
  <2>1. i + 1 < j + 1
    OBVIOUS
  <2> QED
    BY <1>3, <2>1 DEF DataOf, Increasing
<1>11. \A i \in 1..Len(inbox'[s]), j \in 1..Len(rx') :
          IsData(inbox'[s][i]) /\ IsData(rx'[j]) /\ rx'[j].session = s => inbox'[s][i].n < rx'[j].n
    BY <1>2, <1>3 DEF DataOf
<1>12. \A i \in 1..Len(inbox'[s]) : inbox'[s][i].session = s
    BY <1>2, <1>3 DEF DataOf
<1>13. Len(received'[s]) <= sent'[s]
    BY <1>1, <1>5, <1>7
<1>14. ASSUME NEW i \in 1..Len(received'[s]) PROVE received'[s][i].session = s
  <2>1. CASE i = n + 1
    BY <1>5, <1>6, <2>1
  <2>2. CASE i # n + 1
    <3>1. i \in 1..n
      BY <1>1, <1>5, <2>2
    <3> QED
      BY <1>5, <3>1 DEF DataOf, n
  <2> QED
    BY <2>1, <2>2
<1>15. sent'[s] > 0 => told'[s] = "ConnectOk"
    BY DEF DataOf
<1>16. /\ \A i \in 1..Len(inbox'[s]) : IsData(inbox'[s][i]) =>
             inbox'[s][i].n \in (Len(received'[s]) + 1)..sent'[s]
       /\ \A i \in 1..Len(rx') : IsData(rx'[i]) /\ rx'[i].session = s =>
             rx'[i].n \in (Len(received'[s]) + 1)..sent'[s]
    BY <1>1, <1>5, <1>8, <1>9
<1> QED
    BY <1>10, <1>11, <1>12, <1>13, <1>14, <1>15, <1>16 DEF DataOf, Increasing, Outstanding, IsData

(* Nothing of it changes.                                                  *)
LEMMA DataKept ==
    ASSUME Types, NEW s \in Sessions, DataOf(s), rx' = rx, inbox'[s] = inbox[s],
           received'[s] = received[s], sent'[s] = sent[s],
           told[s] = "ConnectOk" => told'[s] = "ConnectOk"
    PROVE  DataOf(s)'
<1>1. Len(rx) \in Nat /\ Len(inbox[s]) \in Nat
    BY LenProperties DEF Types, QueuesOK
<1>2. Len(rx') = Len(rx) - 0 /\ \A i \in 1..Len(rx') : rx'[i] = rx[i + 0]
    BY <1>1
<1>3. Len(inbox'[s]) = Len(inbox[s]) - 0 /\ \A i \in 1..Len(inbox'[s]) : inbox'[s][i] = inbox[s][i + 0]
    BY <1>1
<1>4. 0 \in Nat
    OBVIOUS
<1> QED
    BY <1>2, <1>3, <1>4, DataTaken

(* The relay takes what is in the inbox, and passes it on or not.          *)
LEMMA DataRelayed ==
    ASSUME Types, DataInv, NEW s \in Sessions, WritesData(s) \/ RoutesDatagram(s)
    PROVE  DataInv'
<1>1. UNCHANGED <<rx, sent, told>> /\ Has(s, "Data") /\ Reads(s)
    BY DEF WritesData, RoutesDatagram, clientVars
<1>2. /\ inbox \in [Sessions -> Seq(Events)] /\ received \in [Sessions -> Seq(Events)]
      /\ inbox[s] # <<>> /\ IsData(Head(inbox[s]))
    BY <1>1 DEF Types, QueuesOK, Has, IsData
<1>3. inbox'[s] = Tail(inbox[s]) /\ \A r \in Sessions : r # s => inbox'[r] = inbox[r]
    BY <1>1, <1>2 DEF Reads
<1>4. received' = received \/ Writes(s)
    BY DEF WritesData, RoutesDatagram
<1>5. \A r \in Sessions : r # s => received'[r] = received[r]
    BY <1>2, <1>4 DEF Writes
<1>6. DataOf(s)'
  <2>1. CASE Writes(s)
    <3>1. received'[s] = Append(received[s], Head(inbox[s]))
      BY <1>2, <2>1 DEF Writes
    <3> QED
      BY <1>1, <1>2, <1>3, <3>1, DataReceived DEF DataInv
  <2>2. CASE received' = received
    <3>1. /\ Len(rx) \in Nat /\ Len(inbox'[s]) = Len(inbox[s]) - 1
          /\ \A i \in 1..Len(inbox'[s]) : inbox'[s][i] = inbox[s][i + 1]
      BY <1>2, <1>3, TailProps, LenProperties DEF Types, QueuesOK
    <3>2. Len(rx') = Len(rx) - 0 /\ \A i \in 1..Len(rx') : rx'[i] = rx[i + 0]
      BY <1>1, <3>1
    <3>3. 0 \in Nat /\ 1 \in Nat /\ sent'[s] = sent[s] /\ told'[s] = told[s] /\ received'[s] = received[s]
      BY <1>1, <2>2
    <3> QED
      BY <3>1, <3>2, <3>3, DataTaken DEF DataInv
  <2> QED
    BY <1>4, <2>1, <2>2
<1>7. ASSUME NEW r \in Sessions, r # s PROVE DataOf(r)'
    BY <1>1, <1>3, <1>5, <1>7, DataKept DEF DataInv
<1> QED
    BY <1>6, <1>7 DEF DataInv

(* A session that leaves leaves nothing behind.                            *)
LEMMA DataLeft ==
    ASSUME Types, DataInv, NEW s \in Sessions, NEW t \in {"ConnectErr", "Close"}, Leaves(s, t)
    PROVE  DataInv'
<1>1. /\ UNCHANGED <<rx, sent, told>> /\ inbox'[s] = <<>> /\ received'[s] = <<>>
      /\ \A r \in Sessions : r # s => inbox'[r] = inbox[r] /\ received'[r] = received[r]
    BY DEF Leaves, Types, QueuesOK, clientVars
<1>2. Len(rx) \in Nat /\ Len(inbox[s]) \in Nat /\ Len(<<>>) = 0
    BY LenProperties, EmptySeq DEF Types, QueuesOK
<1>3. Len(rx') = Len(rx) - 0 /\ \A i \in 1..Len(rx') : rx'[i] = rx[i + 0]
    BY <1>1, <1>2
<1>4. /\ Len(inbox'[s]) = Len(inbox[s]) - Len(inbox[s])
      /\ \A i \in 1..Len(inbox'[s]) : inbox'[s][i] = inbox[s][i + Len(inbox[s])]
    BY <1>1, <1>2
<1>5. 0 \in Nat /\ sent'[s] = sent[s] /\ told'[s] = told[s]
    BY <1>1
<1>6. DataOf(s)'
    BY <1>1, <1>2, <1>3, <1>4, <1>5, DataTaken DEF DataInv
<1>7. ASSUME NEW r \in Sessions, r # s PROVE DataOf(r)'
    BY <1>1, <1>7, DataKept DEF DataInv
<1> QED
    BY <1>6, <1>7 DEF DataInv

(* The loop takes an event.                                                *)
LEMMA DataLoop ==
    ASSUME Types, DataInv, EventLoop
    PROVE  DataInv'
<1>1. rx # <<>> /\ Handled /\ UNCHANGED <<received, told, sent>>
    BY DEF EventLoop, OpensMux, RemovesMux, StartsSession, RefusesPayload, Dispatches, Gets,
           taskVars, clientVars
<1>2. /\ Len(rx') = Len(rx) - 1 /\ \A i \in 1..Len(rx') : rx'[i] = rx[i + 1]
    BY <1>1, RestOfEvents DEF Types
<1> SUFFICES ASSUME NEW s \in Sessions PROVE DataOf(s)'
    BY DEF DataInv
<1>3. CASE inbox'[s] = inbox[s]
  <2>1. Len(inbox[s]) \in Nat
    BY LenProperties DEF Types, QueuesOK
  <2>2. Len(inbox'[s]) = Len(inbox[s]) - 0 /\ \A i \in 1..Len(inbox'[s]) : inbox'[s][i] = inbox[s][i + 0]
    BY <1>3, <2>1
  <2>3. 0 \in Nat /\ 1 \in Nat /\ sent'[s] = sent[s] /\ told'[s] = told[s] /\ received'[s] = received[s]
    BY <1>1
  <2> QED
    BY <1>2, <2>2, <2>3, DataTaken DEF DataInv
<1>4. CASE inbox'[s] # inbox[s]
  <2>1. Dispatches
    BY <1>4 DEF EventLoop, OpensMux, RemovesMux, StartsSession, RefusesPayload, taskVars
  <2>2. s \in To(Of) /\ inbox'[s] = Append(inbox[s], Head(rx))
    BY <1>4, <2>1 DEF Dispatches
  <2>3. Head(rx).session = s
    BY <2>2 DEF To, Of
  <2> QED
    BY <1>1, <2>2, <2>3, DataDispatched DEF DataInv
<1> QED
    BY <1>3, <1>4

LEMMA DataClients ==
    ASSUME Types, NumberInv, DataInv, Clients
    PROVE  DataInv'
<1> SUFFICES ASSUME NEW s \in Sessions PROVE DataOf(s)'
    BY DEF DataInv
<1>1. UNCHANGED <<inbox, received, told>>
    BY DEF Clients, LinkComesUp, LinkGoesDown, ClientConnects, ClientSends, ClientCloses,
           taskVars, clientVars
<1>2. CASE \E e \in Events : Comes(e) /\ ~IsData(e) /\ sent' = sent
    BY <1>1, <1>2, DataComes DEF DataInv
<1>3. CASE LinkComesUp
  <2>1. Event(links + 1, "LinkEstablished", NoSession) \in Events
        /\ ~IsData(Event(links + 1, "LinkEstablished", NoSession))
    BY <1>3, ServerAssumption DEF LinkComesUp, Types, TypeOK, Event, Events, Links, IsData
  <2> QED
    BY <1>2, <1>3, <2>1 DEF LinkComesUp, clientVars
<1>4. ASSUME NEW l \in Links, LinkGoesDown(l) PROVE DataOf(s)'
  <2>1. Event(l, "LinkClosed", NoSession) \in Events /\ ~IsData(Event(l, "LinkClosed", NoSession))
    BY DEF Event, Events, IsData
  <2> QED
    BY <1>2, <1>4, <2>1 DEF LinkGoesDown, clientVars
<1>5. ASSUME NEW l \in Links, NEW k \in Kinds, ClientConnects(l, k) PROVE DataOf(s)'
  <2>1. NextSession(l) \in Sessions
    BY <1>5, NextSessionIsNew
  <2>2. Event(l, "Connect", NextSession(l)) \in Events /\ ~IsData(Event(l, "Connect", NextSession(l)))
    BY <2>1 DEF Event, Events, IsData
  <2> QED
    BY <1>2, <1>5, <2>2 DEF ClientConnects
<1>6. ASSUME NEW t \in Sessions, ClientSends(t) \/ ClientCloses(t) PROVE DataOf(s)'
  <2>1. PICK e \in Events : /\ Comes(e) /\ e.session = t
                           /\ \/ e.type = "Data" /\ e.n = sent[t] + 1 /\ ClientSends(t)
                              \/ e.type = "Close" /\ ClientCloses(t)
    BY <1>6, SessionEvent DEF Types
  <2>2. CASE ClientCloses(t) /\ e.type = "Close"
    BY <1>2, <2>1, <2>2 DEF ClientCloses, IsData
  <2>3. CASE ClientSends(t) /\ e.n = sent[t] + 1
    <3>1. sent' = [sent EXCEPT ![t] = sent[t] + 1] /\ sent \in [Sessions -> Nat]
          /\ told[t] = "ConnectOk"
      BY <2>3 DEF ClientSends, Talks, Types, TypeOK
    <3>2. CASE s = t
      <4>1. e.n = sent[s] + 1 /\ sent'[s] = sent[s] + 1 /\ told[s] = "ConnectOk"
        BY <2>3, <3>1, <3>2
      <4> QED
        BY <1>1, <2>1, <4>1, DataComes DEF DataInv
    <3>3. CASE s # t
      <4>1. sent'[s] = sent[s] /\ e.session # s
        BY <2>1, <3>1, <3>3
      <4> QED
        BY <1>1, <2>1, <4>1, DataComes DEF DataInv
    <3> QED
      BY <3>2, <3>3
  <2> QED
    BY <2>1, <2>2, <2>3
<1> QED
    BY <1>3, <1>4, <1>5, <1>6 DEF Clients

LEMMA DataStep ==
    Types /\ NumberInv /\ ConnectInv /\ AnswerInv /\ DataInv /\ [Next]_vars => DataInv'
<1> SUFFICES ASSUME Types, NumberInv, ConnectInv, AnswerInv, DataInv, [Next]_vars PROVE DataInv'
    OBVIOUS
<1>1. CASE UNCHANGED <<rx, inbox, received, sent, told>>
    BY <1>1, DataKept DEF DataInv
<1>2. CASE Crashes
  <2> SUFFICES ASSUME NEW s \in Sessions PROVE DataOf(s)'
    BY DEF DataInv
  <2>1. rx' = <<>> /\ inbox'[s] = <<>> /\ received'[s] = <<>> /\ Len(<<>>) = 0 /\ sent'[s] = 0
    BY <1>2, EmptySeq DEF Crashes, Each
  <2> QED
    BY <2>1 DEF DataOf, Increasing, Outstanding
<1>3. ASSUME NEW l \in Links, Sender(l) PROVE DataInv'
  <2> DEFINE f == Head(data_sender_buf[l])
  <2>1. Takes(l) /\ (told' = told \/ told' = Answer(f))
    BY <1>3 DEF Sender, Delivers, Fails
  <2>2. f \in Frames /\ OnItsWay(f.session, f.type)
    BY <2>1, TakenWasOnItsWay
  <2> HIDE DEF f
  <2>3. told \in [Sessions -> {"none", "ConnectOk", "ConnectErr"}]
    BY DEF Types, TypeOK
  <2>4. ASSUME NEW s \in Sessions, told[s] = "ConnectOk" PROVE told'[s] = "ConnectOk"
    <3>1. ~OnItsWay(s, "ConnectErr")
      BY <2>4 DEF AnswerInv, Accepted
    <3> QED
      BY <2>1, <2>2, <2>3, <2>4, <3>1 DEF Answer, Frames
  <2> QED
    BY <2>1, <2>4, DataKept DEF DataInv, Takes, taskVars
<1>4. ASSUME NEW s \in Sessions, Task(s) \/ SocketEnds(s) PROVE DataInv'
  <2>1. CASE Refuses(s) \/ GetsClose(s) \/ SocketEnds(s)
    BY <2>1, DataLeft DEF Refuses, GetsClose, SocketEnds
  <2>2. CASE WritesData(s) \/ RoutesDatagram(s)
    BY <2>2, DataRelayed
  <2>3. CASE Resolves(s) \/ Connects(s) \/ Binds(s)
    BY <1>1, <2>3 DEF Resolves, Connects, Binds, Answers, clientVars
  <2> QED
    BY <1>4, <2>1, <2>2, <2>3 DEF Task
<1>5. ASSUME StartUp PROVE UNCHANGED <<rx, inbox, received, sent, told>>
    BY <1>5
    DEF StartUp, LoadsIdentity, GeneratesIdentity, SaveBegins, SaveEnds, SaveFails, Serves,
        RestUnchanged, taskVars, clientVars
<1>6. ASSUME UNCHANGED vars PROVE UNCHANGED <<rx, inbox, received, sent, told>>
    BY <1>6 DEF vars, taskVars, clientVars
<1> QED
    BY <1>1, <1>2, <1>3, <1>4, <1>5, <1>6, DataLoop, DataClients DEF Next

LEMMA DataIsOwn == Types /\ DataInv => OwnData
<1> SUFFICES ASSUME Types, DataInv, NEW s \in Sessions
             PROVE  /\ Len(received[s]) <= sent[s]
                    /\ \A i \in DOMAIN received[s] : received[s][i].session = s
                    /\ received[s] # <<>> => told[s] = "ConnectOk"
    BY DEF OwnData
<1>1. received[s] \in Seq(Events) /\ sent[s] \in Nat
    BY DEF Types, TypeOK, QueuesOK
<1>2. DOMAIN received[s] = 1..Len(received[s]) /\ (received[s] # <<>> => Len(received[s]) \in Nat \ {0})
    BY <1>1, LenProperties, EmptySeq
<1>3. /\ Len(received[s]) <= sent[s] /\ (sent[s] > 0 => told[s] = "ConnectOk")
      /\ \A i \in 1..Len(received[s]) : received[s][i].session = s
    BY DEF DataInv, DataOf
<1> QED
    BY <1>1, <1>2, <1>3

-----------------------------------------------------------------------------
(* The inductive invariant, and what follows from it.                      *)
LEMMA Invariant == Spec => []IInv
<1>1. Init => IInv
    BY TypesInit, AddressInit, FilterInit, NumberInit, ConnectInit, AnswerInit, DataInit
    DEF IInv, Types
<1>2. IInv /\ [Next]_vars => IInv'
    BY TypesStep, AddressStep, FilterStep, NumberStep, ConnectStep, AnswerStep, DataStep
    DEF IInv, Types
<1> QED
    BY <1>1, <1>2, PTL DEF Spec

(* The type invariant of the start-up, the event loop and the sessions.    *)
THEOREM TypeCorrect == Spec => []TypeOK
<1>1. IInv => TypeOK
    BY DEF IInv
<1> QED
    BY <1>1, Invariant, PTL

(* However often run_server is started, and wherever its start or its      *)
(* saving of the identity is cut short, it only ever shows one address.    *)
THEOREM AddressIsStable == Spec => []AddressStable
<1>1. IInv => AddressStable
    BY AddressIsOne DEF IInv
<1> QED
    BY <1>1, Invariant, PTL

(* Whatever the names resolve to, and whenever, no session of the server   *)
(* reaches for an address that allowed_ip does not allow.                  *)
THEOREM ReachIsAllowed == Spec => []ReachesOnlyAllowed
<1>1. IInv => ReachesOnlyAllowed
    BY FilterHolds DEF IInv
<1> QED
    BY <1>1, Invariant, PTL

(* One loop dispatches the DATA of all links; a session's relay takes only *)
(* data of its own link and id, no more than was sent and only after its   *)
(* client was told CONN_OK.                                                *)
THEOREM DataStaysOwn == Spec => []OwnData
<1>1. IInv => OwnData
    BY DataIsOwn DEF IInv, Types
<1> QED
    BY <1>1, Invariant, PTL

=============================================================================
