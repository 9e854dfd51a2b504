-------------------------- MODULE ClientLinkProofs --------------------------
(***************************************************************************)
(* ClientLink for every number of links, frames and events, every channel  *)
(* capacity and both answers to SendErrors: its type invariant and its     *)
(* safety properties, from the inductive invariant IInv.                   *)
(***************************************************************************)
EXTENDS ClientLink, Queues

(* The event at the end of the channel is the one reported last.           *)
LEMMA LastReported ==
    ASSUME NEW q \in Seq(Event), NEW e \in Event, NEW d \in Event, Append(q, e) = Append(q, d)
    PROVE  e = d
    BY AppendInjective

(* What counting one more chunk of the frame in progress does to it.       *)
LEMMA DoneProps ==
    ASSUME NEW I, NEW C, NEW L, NEW D, NEW r \in [id : I, chunks : C, link : L, done : D],
           NEW n \in D
    PROVE  LET t == [r EXCEPT !.done = n]
           IN  /\ t \in [id : I, chunks : C, link : L, done : D]
               /\ t.id = r.id /\ t.chunks = r.chunks /\ t.link = r.link /\ t.done = n
    OBVIOUS

-----------------------------------------------------------------------------
(* Both delays of the reconnect loop stay within the cap.                  *)
LEMMA BackoffBound ==
    ASSUME NEW d \in 0..MaxDelay
    PROVE  BackoffNoPath(d) \in 0..MaxDelay /\ BackoffNoLink(d) \in 0..MaxDelay
    BY ClientLinkAssumption DEF BackoffNoPath, BackoffNoLink, AtMost

LEMMA TypeInit == Init => TypeOK
    BY ClientLinkAssumption, EmptySeq
    DEF Init, TypeOK, Links, None, LinkStates, Phases, Idle

(* The type invariant is inductive on its own.                             *)
LEMMA TypeStep == TypeOK /\ [Next]_vars => TypeOK'
<1> SUFFICES ASSUME TypeOK, [Next]_vars PROVE TypeOK'
    OBVIOUS
<1> USE ClientLinkAssumption DEF TypeOK, Links, None
<1>1. CASE Rns
  <2>1. \A l \in Links, k \in {"LinkEstablished", "LinkClosed", "LinkData"} :
            [kind |-> k, link |-> l] \in Event
    BY DEF Event
  <2>2. [kind |-> "PathUpdated", link |-> None] \in Event
    BY DEF Event
  <2>3. PICK e \in Event : events' = Append(events, e)
    BY <1>1, <2>1, <2>2
    DEF Rns, LinkComesUp, LinkFails, LinkGoesDown, DataArrives, PathChanges, Report
  <2>4. link_state' \in [Links -> LinkStates]
    BY <1>1 DEF Rns, LinkComesUp, LinkFails, LinkGoesDown, DataArrives, PathChanges, LinkStates
  <2>5. events' \in Seq(Event)
    BY <2>3, AppendProps
  <2> QED
    BY <1>1, <2>4, <2>5 DEF Rns, taskVars, sendVars
<1>2. CASE Start
  <2>1. attempt' \in 0..MaxLinks /\ link_state' \in [Links -> LinkStates]
    <3>1. CASE CreateLink
      BY <3>1 DEF CreateLink, LinkStates
    <3>2. CASE UNCHANGED <<attempt, link_state>>
      BY <3>2
    <3> QED BY <1>2, <3>1, <3>2 DEF Start
  <2>2. phase' \in Phases
    BY <1>2 DEF Start, Phases
  <2> QED
    BY <1>2, <2>1, <2>2 DEF Start, sendVars
<1>3. CASE Attached \/ SetupFails \/ Discard \/ ReceiveData \/ LinkLost
  <2>1. /\ events' = Tail(events) /\ events # <<>>
        /\ UNCHANGED <<link_state, attempt, sendVars>>
    BY <1>3 DEF Attached, SetupFails, Discard, ReceiveData, LinkLost, Take, Is, taskVars
  <2>2. events' \in Seq(Event)
    BY <2>1, TailProps
  <2>3. phase' \in Phases
    BY <1>3 DEF Attached, SetupFails, GivesUp, Discard, ReceiveData, LinkLost, taskVars, Phases
  <2>4. delay' \in 0..MaxDelay
    BY <1>3, BackoffBound DEF Attached, SetupFails, GivesUp, Discard, ReceiveData, LinkLost, taskVars
  <2>5. link_id' \in {None} \cup Links
    BY <1>3 DEF Attached, SetupFails, Discard, ReceiveData, LinkLost
  <2>6. recv_buf' \subseteq Links
    <3>1. CASE ReceiveData
      <4>1. Head(events) \in Event /\ Head(events).kind = "LinkData"
        BY <3>1, TailProps DEF ReceiveData, Is
      <4>2. Head(events).link \in Links
        BY <4>1 DEF Event
      <4> QED BY <3>1, <4>2 DEF ReceiveData
    <3> QED BY <1>3, <3>1 DEF Attached, SetupFails, Discard, LinkLost, taskVars
  <2>7. node' = node
    BY <1>3 DEF Attached, SetupFails, Discard, ReceiveData, LinkLost
  <2> QED
    BY <2>1, <2>2, <2>3, <2>4, <2>5, <2>6, <2>7 DEF sendVars
<1>4. CASE ResetDone \/ Wake \/ LookupFails \/ RetryFails
  <2>1. phase' \in Phases /\ recv_buf' \subseteq Links
    BY <1>4 DEF ResetDone, Wake, LookupFails, RetryFails, Phases
  <2>2. delay' \in 0..MaxDelay
    <3>1. BackoffNoPath(delay) \in 0..MaxDelay /\ BackoffNoLink(delay) \in 0..MaxDelay
      BY BackoffBound
    <3> QED BY <1>4, <3>1 DEF ResetDone, Wake, LookupFails, RetryFails
  <2> QED
    BY <1>4, <2>1, <2>2 DEF ResetDone, Wake, LookupFails, RetryFails, sendVars
<1>5. CASE Retry
  <2>1. attempt' \in 0..MaxLinks /\ link_state' \in [Links -> LinkStates]
    BY <1>5 DEF Retry, CreateLink, LinkStates
  <2>2. phase' \in Phases
    BY <1>5 DEF Retry, Phases
  <2> QED
    BY <1>5, <2>1, <2>2 DEF Retry, sendVars
<1>6. CASE Enqueue
  <2>1. next_frame' \in 0..MaxFrames /\ next_frame + 1 \in 1..MaxFrames
    BY <1>6 DEF Enqueue
  <2>2. data_sender_buf' \in Seq(Frame)
    BY <1>6, <2>1, AppendProps DEF Enqueue, Frame
  <2> QED
    BY <1>6, <2>1, <2>2 DEF Enqueue, rnsVars, taskVars
<1>7. CASE SenderTake
  <2>1. Head(data_sender_buf) \in Frame /\ data_sender_buf' \in Seq(Frame)
    BY <1>7, TailProps DEF SenderTake
  <2>2. Head(data_sender_buf).id \in 1..MaxFrames /\ Head(data_sender_buf).chunks \in 1..MaxChunks
    BY <2>1 DEF Frame
  <2>3. \/ active' = Idle
        \/ /\ active' \in [id : 1..MaxFrames, chunks : 1..MaxChunks,
                           link : Links, done : 0..MaxChunks]
           /\ active'.done < active'.chunks
    BY <1>7, <2>2 DEF SenderTake
  <2> QED
    BY <1>7, <2>1, <2>3 DEF SenderTake, rnsVars, taskVars
<1>8. CASE SenderError
    BY <1>8 DEF SenderError, rnsVars, taskVars
<1>9. CASE SenderChunk
  <2> DEFINE n == active.done + 1
             c == [frame |-> active.id, n |-> n, last |-> n = active.chunks]
  <2>1. /\ active \in [id : 1..MaxFrames, chunks : 1..MaxChunks, link : Links, done : 0..MaxChunks]
        /\ active.done < active.chunks
    BY <1>9 DEF SenderChunk
  <2>2. n \in 1..MaxChunks /\ c \in Chunk
    BY <2>1 DEF Chunk
  <2>3. sent' = [sent EXCEPT ![active.link] = Append(@, c)]
    BY <1>9 DEF SenderChunk
  <2>4. sent' \in [Links -> Seq(Chunk)]
    BY <2>1, <2>2, <2>3, AppendProps
  <2>5. \/ active' = Idle
        \/ /\ active' \in [id : 1..MaxFrames, chunks : 1..MaxChunks,
                           link : Links, done : 0..MaxChunks]
           /\ active'.done < active'.chunks
    <3>1. CASE n = active.chunks
      BY <1>9, <3>1 DEF SenderChunk
    <3>2. CASE n # active.chunks
      <4>1. active' = [active EXCEPT !.done = n]
        BY <1>9, <3>2 DEF SenderChunk
      <4>2. n < active.chunks
        BY <2>1, <3>2
      <4>3. n \in 0..MaxChunks
        BY <2>2
      <4>4. /\ active' \in [id : 1..MaxFrames, chunks : 1..MaxChunks,
                            link : Links, done : 0..MaxChunks]
            /\ active'.done = n /\ active'.chunks = active.chunks
        BY <2>1, <4>1, <4>3, DoneProps
      <4> QED BY <4>2, <4>4
    <3> QED BY <3>1, <3>2
  <2> QED
    BY <1>9, <2>4, <2>5 DEF SenderChunk, rnsVars, taskVars
<1>10. CASE NodeStops
  <2>1. link_state' \in [Links -> LinkStates]
    BY <1>10 DEF NodeStops, LinkStates
  <2> QED
    BY <1>10, <2>1 DEF NodeStops, taskVars, sendVars
<1>11. CASE SetupEnds \/ DispatchEnds
  <2>1. phase' \in Phases /\ delay' \in 0..MaxDelay
    BY <1>11, BackoffBound DEF SetupEnds, DispatchEnds, GivesUp, Phases
  <2> QED
    BY <1>11, <2>1 DEF SetupEnds, DispatchEnds, sendVars
<1>12. CASE UNCHANGED vars
    BY <1>12 DEF vars
<1> QED
    BY <1>1, <1>2, <1>3, <1>4, <1>5, <1>6, <1>7, <1>8, <1>9, <1>10, <1>11, <1>12
    DEF Next, EventTask, Sender

-----------------------------------------------------------------------------
(***************************************************************************)
(* Events: rx holds events of the newest link only.                        *)
(***************************************************************************)

(* Only the newest link can be pending or up, while it is wanted and       *)
(* before its close is in rx.                                              *)
LEMMA LiveLink ==
    ASSUME TypeOK, EventsInv, NEW l \in Links, link_state[l] \in {"pending", "up"}
    PROVE  /\ l = attempt /\ Wanted
           /\ \A i \in 1..Len(events) : events[i].kind # "LinkClosed"
<1>1. l = attempt
  <2>1. l \in Nat /\ attempt \in Nat
    BY ClientLinkAssumption DEF TypeOK, Links
  <2>2. link_state[l] # "unused" /\ ~Down(l)
    BY DEF Down
  <2> QED BY <2>1, <2>2 DEF EventsInv, OldLinksDown
<1>2. ~Down(attempt)
    BY <1>1 DEF Down
<1> QED
    BY <1>1, <1>2 DEF EventsInv, QuietWhenDown, CloseIsLast, Links, None

(* RNS reports one more event.                                             *)
LEMMA EventsRns ==
    ASSUME TypeOK, EventsInv, Rns
    PROVE  EventsInv'
<1> USE DEF TypeOK
<1>1. /\ attempt' = attempt /\ phase' = phase /\ node' = node
    BY DEF Rns, taskVars
<1>2. CASE PathChanges
  <2> DEFINE e == [kind |-> "PathUpdated", link |-> None]
  <2>1. events' = Append(events, e) /\ link_state' = link_state
    BY <1>2 DEF PathChanges, Report
  <2>2. e \in Event /\ ~OfLink(e) /\ e.kind # "LinkClosed"
    BY DEF Event, OfLink
  <2> HIDE DEF e
  <2>3. /\ Len(events') = Len(events) + 1 /\ Len(events) \in Nat
        /\ \A i \in 1..Len(events) : events'[i] = events[i]
        /\ events'[Len(events) + 1] = e
    BY <2>1, <2>2, AppendProps
  <2>4. \A i \in 1..Len(events') :
            OfLink(events'[i]) \/ events'[i].kind = "LinkClosed"
                => i \in 1..Len(events) /\ events'[i] = events[i]
    BY <2>2, <2>3 DEF OfLink
  <2>5. EventsMine'
    BY <1>1, <2>4 DEF EventsInv, EventsMine, OfLink
  <2>6. CloseIsLast'
    BY <1>1, <2>1, <2>3, <2>4 DEF EventsInv, CloseIsLast, OfLink, Down
  <2>7. QuietWhenDown' /\ OldLinksDown'
    BY <1>1, <2>1, <2>4 DEF EventsInv, QuietWhenDown, OldLinksDown, Down, Wanted, OfLink
  <2> QED
    BY <2>5, <2>6, <2>7 DEF EventsInv
<1>3. ASSUME NEW l \in Links, NEW k \in {"LinkEstablished", "LinkClosed", "LinkData"},
             link_state[l] \in {"pending", "up"},
             NEW st \in {"up", "failed", "closed"}, link_state' = [link_state EXCEPT ![l] = st],
             k = "LinkClosed" => st \in {"failed", "closed"},
             events' = Append(events, [kind |-> k, link |-> l])
      PROVE  EventsInv'
  <2> DEFINE e == [kind |-> k, link |-> l]
  <2>1. /\ l = attempt /\ Wanted
        /\ \A i \in 1..Len(events) : events[i].kind # "LinkClosed"
    BY <1>3, LiveLink
  <2>2. e \in Event /\ e.link = attempt /\ e.kind = k
    BY <2>1 DEF Event
  <2>3. events' = Append(events, e)
    BY <1>3
  <2> HIDE DEF e
  <2>4. /\ Len(events') = Len(events) + 1 /\ Len(events) \in Nat
        /\ \A i \in 1..Len(events) : events'[i] = events[i]
        /\ events'[Len(events) + 1] = e
    BY <2>2, <2>3, AppendProps
  <2>5. EventsMine'
    <3> SUFFICES ASSUME NEW i \in 1..Len(events'), OfLink(events'[i])
                 PROVE  events'[i].link = attempt
      BY <1>1 DEF EventsMine, OfLink
    <3>1. CASE i \in 1..Len(events)
      BY <2>4, <3>1 DEF EventsInv, EventsMine, OfLink
    <3>2. CASE i = Len(events) + 1
      BY <2>2, <2>4, <3>2
    <3> QED BY <2>4, <3>1, <3>2
  <2>6. CloseIsLast'
    <3> SUFFICES ASSUME NEW i \in 1..Len(events'), events'[i].kind = "LinkClosed"
                 PROVE  Down(attempt)' /\ \A j \in (i + 1)..Len(events') : ~OfLink(events'[j])
      BY DEF CloseIsLast, OfLink
    <3>1. i = Len(events) + 1 /\ k = "LinkClosed"
      <4>1. i \notin 1..Len(events)
        BY <2>1, <2>4
      <4> QED BY <2>2, <2>4, <4>1
    <3>2. Down(attempt)'
      BY <1>1, <1>3, <2>1, <3>1 DEF Down
    <3> QED BY <2>4, <3>1, <3>2
  <2>7. Wanted'
    BY <1>1, <2>1 DEF Wanted
  <2>8. OldLinksDown'
    BY <1>1, <1>3, <2>1, ClientLinkAssumption DEF EventsInv, OldLinksDown, Down, Wanted, Links
  <2> QED
    BY <2>5, <2>6, <2>7, <2>8 DEF EventsInv, QuietWhenDown
<1>4. ASSUME NEW l \in Links, LinkComesUp(l) \/ LinkFails(l) \/ LinkGoesDown(l) \/ DataArrives(l)
      PROVE  EventsInv'
  <2>1. CASE LinkComesUp(l)
    BY <1>3, <2>1 DEF LinkComesUp, Report
  <2>2. CASE LinkFails(l)
    BY <1>3, <2>2 DEF LinkFails, Report
  <2>3. CASE LinkGoesDown(l)
    BY <1>3, <2>3 DEF LinkGoesDown, Report
  <2>4. CASE DataArrives(l)
    <3>1. link_state' = [link_state EXCEPT ![l] = "up"]
      BY <2>4 DEF DataArrives
    <3> QED BY <1>3, <2>4, <3>1 DEF DataArrives, Report
  <2> QED BY <1>4, <2>1, <2>2, <2>3, <2>4
<1> QED
    BY <1>2, <1>4 DEF Rns

(* The event task takes the first event.  It leaves the phases in which    *)
(* the link is wanted only with its close.                                 *)
LEMMA EventsTake ==
    ASSUME TypeOK, EventsInv, events # <<>>, events' = Tail(events),
           UNCHANGED <<link_state, node, attempt>>,
           Wanted, Wanted' \/ Head(events).kind = "LinkClosed"
    PROVE  EventsInv'
<1>1. /\ Len(events) \in Nat /\ Len(events') = Len(events) - 1 /\ Head(events) = events[1]
      /\ Len(events) # 0
      /\ \A i \in 1..Len(events') : events'[i] = events[i + 1]
    BY TailProps DEF TypeOK
<1>2. EventsMine'
    BY <1>1 DEF EventsInv, EventsMine, OfLink
<1>3. CloseIsLast'
  <2> SUFFICES ASSUME NEW i \in 1..Len(events'), events'[i].kind = "LinkClosed"
               PROVE  Down(attempt)' /\ \A j \in (i + 1)..Len(events') : ~OfLink(events'[j])
    BY DEF CloseIsLast, OfLink
  <2>1. i + 1 \in 1..Len(events) /\ events[i + 1].kind = "LinkClosed"
    BY <1>1
  <2>2. Down(attempt) /\ \A j \in (i + 2)..Len(events) : ~OfLink(events[j])
    BY <2>1 DEF EventsInv, CloseIsLast
  <2> QED BY <1>1, <2>2 DEF Down, OfLink
<1>4. QuietWhenDown'
  <2>1. CASE Head(events).kind = "LinkClosed"
    <3>1. Down(attempt) /\ \A j \in 2..Len(events) : ~OfLink(events[j])
      BY <1>1, <2>1 DEF EventsInv, CloseIsLast
    <3> QED BY <1>1, <3>1 DEF QuietWhenDown, Down, OfLink
  <2> QED BY <2>1 DEF QuietWhenDown
<1>5. OldLinksDown'
    BY DEF EventsInv, OldLinksDown, Down
<1> QED
    BY <1>2, <1>3, <1>4, <1>5 DEF EventsInv

(* create_link is called while no link is wanted.                          *)
LEMMA EventsCreate ==
    ASSUME TypeOK, EventsInv, CreateLink, ~Wanted, Wanted', UNCHANGED <<events, node>>
    PROVE  EventsInv'
<1>1. \A i \in 1..Len(events) : ~OfLink(events[i])
    BY DEF EventsInv, QuietWhenDown
<1>2. EventsMine' /\ CloseIsLast' /\ QuietWhenDown'
    BY <1>1 DEF EventsMine, CloseIsLast, QuietWhenDown, OfLink
<1>3. attempt' = attempt + 1 /\ attempt \in Nat /\ attempt' # None
    BY DEF CreateLink, TypeOK, None
<1>4. ASSUME NEW l \in Links
      PROVE  /\ l > attempt' => link_state'[l] = "unused"
             /\ l < attempt' => Down(l)'
  <2>1. l # attempt + 1 => link_state'[l] = link_state[l]
    BY DEF CreateLink, TypeOK
  <2>2. l = attempt => Down(l)
    BY DEF EventsInv, QuietWhenDown, Links, None
  <2> QED BY <1>3, <2>1, <2>2 DEF EventsInv, OldLinksDown, Down, Links
<1>5. link_state'[attempt'] # "unused" /\ node' = "up"
    BY <1>3, ClientLinkAssumption DEF CreateLink, TypeOK, Links, None
<1>6. OldLinksDown'
    BY <1>3, <1>4, <1>5 DEF OldLinksDown
<1> QED
    BY <1>2, <1>6 DEF EventsInv

(* The node takes what it had with it.                                     *)
LEMMA EventsStop ==
    ASSUME TypeOK, EventsInv, NodeStops
    PROVE  EventsInv'
<1>1. UNCHANGED <<events, attempt, phase>>
    BY DEF NodeStops, taskVars
<1>2. ASSUME NEW l \in Links
      PROVE  /\ link_state'[l] \notin {"pending", "up"}
             /\ link_state[l] = "unused" <=> link_state'[l] = "unused"
             /\ Down(l) => Down(l)'
    BY DEF NodeStops, Down
<1>3. attempt # None => attempt \in Links
    BY DEF TypeOK, Links, None
<1>4. OldLinksDown'
    BY <1>1, <1>2, <1>3 DEF EventsInv, OldLinksDown, Wanted
<1>5. CloseIsLast'
  <2> SUFFICES ASSUME NEW i \in 1..Len(events), events[i].kind = "LinkClosed"
               PROVE  Down(attempt)' /\ \A j \in (i + 1)..Len(events) : ~OfLink(events[j])
    BY <1>1 DEF CloseIsLast, OfLink
  <2>1. Down(attempt) /\ \A j \in (i + 1)..Len(events) : ~OfLink(events[j])
    BY DEF EventsInv, CloseIsLast
  <2>2. attempt \in Links
    <3>1. events[i] \in Event
      BY DEF TypeOK
    <3> QED BY <3>1 DEF EventsInv, EventsMine, OfLink, Event
  <2> QED BY <1>1, <1>2, <2>1, <2>2
<1>6. EventsMine' /\ QuietWhenDown'
    BY <1>1, <1>2, <1>3 DEF EventsInv, EventsMine, QuietWhenDown, Wanted, OfLink
<1> QED
    BY <1>4, <1>5, <1>6 DEF EventsInv

(* The task stops waiting for events of a node that is gone.               *)
LEMMA EventsGone ==
    ASSUME TypeOK, EventsInv, NoneLeft, UNCHANGED <<events, node, link_state, attempt>>, ~Wanted'
    PROVE  EventsInv'
<1>1. attempt # None => Down(attempt)
  <2>1. attempt # None => attempt \in Links /\ link_state[attempt] \in LinkStates
    BY DEF TypeOK, Links, None
  <2> QED
    BY <2>1 DEF NoneLeft, EventsInv, OldLinksDown, Down, LinkStates
<1>2. Len(events) = 0
    BY EmptySeq DEF NoneLeft
<1> QED
    BY <1>1, <1>2 DEF EventsInv, EventsMine, CloseIsLast, QuietWhenDown, OldLinksDown, Down, OfLink

(* Everything else leaves the events, the links and the attempt alone.     *)
LEMMA EventsStutter ==
    ASSUME EventsInv, UNCHANGED <<events, node, link_state, attempt>>, Wanted' <=> Wanted
    PROVE  EventsInv'
    BY DEF EventsInv, EventsMine, CloseIsLast, QuietWhenDown, OldLinksDown, Down, OfLink

LEMMA EventsStep == TypeOK /\ EventsInv /\ [Next]_vars => EventsInv'
<1> SUFFICES ASSUME TypeOK, EventsInv, [Next]_vars PROVE EventsInv'
    OBVIOUS
<1>1. CASE Rns
    BY <1>1, EventsRns
<1>2. CASE Start
  <2>1. CASE CreateLink /\ phase' = "starting"
    BY <1>2, <2>1, EventsCreate DEF Start, Wanted
  <2>2. CASE phase' = "stopped" /\ UNCHANGED <<attempt, link_state>>
    BY <1>2, <2>2, EventsStutter DEF Start, Wanted
  <2> QED BY <1>2, <2>1, <2>2 DEF Start
<1>3. CASE Attached \/ SetupFails \/ Discard \/ ReceiveData \/ LinkLost
  <2>1. events # <<>> /\ events' = Tail(events) /\ UNCHANGED <<link_state, node, attempt>>
    BY <1>3 DEF Attached, SetupFails, Discard, ReceiveData, LinkLost, Take, Is, taskVars
  <2>2. Wanted
    BY <1>3 DEF Attached, SetupFails, Discard, ReceiveData, LinkLost, Awaiting, Wanted, Ignores
  <2>3. Wanted' \/ Head(events).kind = "LinkClosed"
    BY <1>3, <2>2 DEF Attached, SetupFails, Discard, ReceiveData, LinkLost, Wanted, Is, taskVars
  <2> QED BY <2>1, <2>2, <2>3, EventsTake
<1>4. CASE ResetDone \/ Wake \/ LookupFails \/ RetryFails
    BY <1>4, EventsStutter DEF ResetDone, Wake, LookupFails, RetryFails, Wanted
<1>5. CASE Retry
    BY <1>5, EventsCreate DEF Retry, Wanted
<1>6. CASE Enqueue \/ Sender \/ UNCHANGED vars
    BY <1>6, EventsStutter
    DEF Enqueue, Sender, SenderTake, SenderChunk, SenderError, rnsVars, taskVars, vars, Wanted
<1>7. CASE NodeStops
    BY <1>7, EventsStop
<1>8. CASE SetupEnds \/ DispatchEnds
    BY <1>8, EventsGone DEF SetupEnds, DispatchEnds, GivesUp, Wanted
<1> QED
    BY <1>1, <1>2, <1>3, <1>4, <1>5, <1>6, <1>7, <1>8 DEF Next, EventTask

-----------------------------------------------------------------------------
(***************************************************************************)
(* link_id and recv_buf.                                                   *)
(***************************************************************************)

(* The mux holds at most the newest link, and only while its events are    *)
(* dispatched.                                                             *)
LEMMA LinkIdStep == TypeOK /\ LinkIdInv /\ [Next]_vars => LinkIdInv'
<1> SUFFICES ASSUME TypeOK, LinkIdInv, [Next]_vars PROVE LinkIdInv'
    OBVIOUS
<1> USE DEF LinkIdInv
<1>1. CASE Rns \/ NodeStops \/ Enqueue \/ SenderTake \/ SenderChunk \/ UNCHANGED vars
    BY <1>1 DEF Rns, NodeStops, Enqueue, SenderTake, SenderChunk, rnsVars, taskVars, vars
<1>2. CASE SenderError
    BY <1>2 DEF SenderError, rnsVars, taskVars
<1>3. CASE Start \/ Retry
    BY <1>3 DEF Start, Retry
<1>4. CASE Attached \/ SetupFails
    BY <1>4 DEF Attached, SetupFails, GivesUp, Awaiting
<1>5. CASE Discard \/ ReceiveData \/ LinkLost
    BY <1>5 DEF Discard, ReceiveData, LinkLost, taskVars
<1>6. CASE ResetDone \/ Wake \/ LookupFails \/ RetryFails
    BY <1>6 DEF ResetDone, Wake, LookupFails, RetryFails
<1>7. CASE SetupEnds \/ DispatchEnds
    BY <1>7 DEF SetupEnds, DispatchEnds, GivesUp, Awaiting
<1> QED
    BY <1>1, <1>2, <1>3, <1>4, <1>5, <1>6, <1>7 DEF Next, EventTask, Sender

(* recv_buf is empty when a link is attached, and fed by that link only.   *)
LEMMA BufferStep == TypeOK /\ EventsInv /\ BufferInv /\ [Next]_vars => BufferInv'
<1> SUFFICES ASSUME TypeOK, EventsInv, BufferInv, [Next]_vars PROVE BufferInv'
    OBVIOUS
<1> USE DEF BufferInv
<1>1. CASE Rns \/ NodeStops \/ Enqueue \/ Sender \/ UNCHANGED vars
    BY <1>1 DEF Rns, NodeStops, Enqueue, Sender, SenderTake, SenderChunk, SenderError, taskVars, vars
<1>2. CASE Start \/ Retry
    BY <1>2 DEF Start, Retry
<1>3. CASE Attached \/ SetupFails \/ Discard \/ LinkLost
    BY <1>3 DEF Attached, SetupFails, GivesUp, Discard, LinkLost, Awaiting, taskVars
<1>4. CASE ReceiveData
  <2>1. Head(events).link = attempt
    <3>1. 1 \in 1..Len(events) /\ Head(events) = events[1] /\ Head(events).kind = "LinkData"
      BY <1>4, TailProps DEF TypeOK, ReceiveData, Is
    <3> QED BY <3>1 DEF EventsInv, EventsMine, OfLink
  <2> QED BY <1>4, <2>1 DEF ReceiveData
<1>5. CASE ResetDone \/ Wake \/ LookupFails \/ RetryFails
    BY <1>5 DEF ResetDone, Wake, LookupFails, RetryFails
<1>6. CASE SetupEnds \/ DispatchEnds
    BY <1>6 DEF SetupEnds, DispatchEnds, GivesUp, Awaiting
<1> QED
    BY <1>1, <1>2, <1>3, <1>4, <1>5, <1>6 DEF Next, EventTask

-----------------------------------------------------------------------------
(***************************************************************************)
(* The sender task.                                                        *)
(***************************************************************************)

(* The last chunk of a link and the next one fit together.                 *)
LEMMA NextChunk ==
    ASSUME TypeOK, SenderInv, SenderChunk
    PROVE  LET s == sent[active.link]
               c == [frame |-> active.id, n |-> active.done + 1,
                     last |-> active.done + 1 = active.chunks]
           IN  /\ s \in Seq(Chunk) /\ c \in Chunk
               /\ active.link \in Links
               /\ sent' = [sent EXCEPT ![active.link] = Append(s, c)]
               /\ c.frame = Taken
               /\ s = <<>> => c.n = 1
               /\ s # <<>> => Follows(s[Len(s)], c)
<1> DEFINE s == sent[active.link]
           c == [frame |-> active.id, n |-> active.done + 1,
                 last |-> active.done + 1 = active.chunks]
<1>1. /\ active \in [id : 1..MaxFrames, chunks : 1..MaxChunks, link : Links, done : 0..MaxChunks]
      /\ active.done < active.chunks
    BY DEF TypeOK, SenderChunk
<1>2. s \in Seq(Chunk) /\ active.link \in Links
    BY <1>1 DEF TypeOK
<1>3. /\ c \in Chunk
      /\ c.frame = active.id /\ c.n = active.done + 1
  <2>1. active.done + 1 \in 1..MaxChunks /\ active.id \in 1..MaxFrames
    BY <1>1, ClientLinkAssumption
  <2>2. (active.done + 1 = active.chunks) \in BOOLEAN
    OBVIOUS
  <2> QED BY <2>1, <2>2 DEF Chunk
<1>4. sent' = [sent EXCEPT ![active.link] = Append(s, c)]
    BY DEF SenderChunk
<1>5. active.id = Taken
    BY DEF SenderInv, BusyTail, SenderChunk
<1>6. (s = <<>> => c.n = 1) /\ (s # <<>> => Follows(s[Len(s)], c))
  <2> HIDE DEF c
  <2>1. CASE active.done = 0
    <3>1. EndsWhole(s, Taken - 1) /\ c.n = 1
      BY <1>3, <2>1 DEF SenderInv, BusyTail, SenderChunk
    <3>2. c.frame = (Taken - 1) + 1
      BY <1>1, <1>3, <1>5
    <3> QED BY <3>1, <3>2 DEF EndsWhole, Follows
  <2>2. CASE active.done # 0
    <3>1. s # <<>> /\ s[Len(s)] = [frame |-> Taken, n |-> active.done, last |-> FALSE]
      BY <2>2 DEF SenderInv, BusyTail, SenderChunk, Ends
    <3> QED BY <1>3, <1>5, <3>1 DEF Follows
  <2> QED BY <2>1, <2>2
<1> QED
    BY <1>2, <1>3, <1>4, <1>5, <1>6

(* An unbroken sequence stays so when the chunk that follows is added.     *)
LEMMA UnbrokenAppend ==
    ASSUME NEW s \in Seq(Chunk), NEW c \in Chunk, Unbroken(s),
           s = <<>> => c.n = 1,
           s # <<>> => Follows(s[Len(s)], c)
    PROVE  Unbroken(Append(s, c))
<1> DEFINE t == Append(s, c)
<1>1. /\ Len(t) = Len(s) + 1 /\ Len(s) \in Nat
      /\ \A i \in 1..Len(s) : t[i] = s[i]
      /\ t[Len(s) + 1] = c
      /\ s # <<>> => Len(s) # 0
    BY AppendProps, EmptySeq
<1> HIDE DEF t
<1>2. t[1].n = 1
  <2>1. CASE s = <<>>
    BY <1>1, <2>1
  <2>2. CASE s # <<>>
    BY <1>1, <2>2 DEF Unbroken
  <2> QED BY <2>1, <2>2
<1>3. ASSUME NEW i \in 1..(Len(t) - 1) PROVE Follows(t[i], t[i + 1])
  <2>1. CASE i = Len(s)
    <3>1. s # <<>> /\ t[i] = s[Len(s)] /\ t[i + 1] = c
      BY <1>1, <2>1
    <3> QED BY <3>1
  <2>2. CASE i # Len(s)
    <3>1. i \in 1..(Len(s) - 1) /\ t[i] = s[i] /\ t[i + 1] = s[i + 1]
      BY <1>1, <2>2
    <3> QED BY <3>1 DEF Unbroken
  <2> QED BY <2>1, <2>2
<1> QED
    BY <1>2, <1>3 DEF Unbroken, t

LEMMA FramesStep == TypeOK /\ SenderInv /\ FramesInOrder /\ [Next]_vars => FramesInOrder'
<1> SUFFICES ASSUME TypeOK, SenderInv, FramesInOrder, [Next]_vars PROVE FramesInOrder'
    OBVIOUS
<1>1. CASE SenderChunk
  <2> SUFFICES ASSUME NEW l \in Links PROVE Unbroken(sent'[l])
    BY DEF FramesInOrder, Unbroken, Follows
  <2>1. CASE l = active.link
    <3> DEFINE c == [frame |-> active.id, n |-> active.done + 1,
                     last |-> active.done + 1 = active.chunks]
    <3>1. /\ sent[l] \in Seq(Chunk) /\ c \in Chunk
          /\ sent' = [sent EXCEPT ![l] = Append(sent[l], c)]
          /\ sent[l] = <<>> => c.n = 1
          /\ sent[l] # <<>> => Follows(sent[l][Len(sent[l])], c)
      BY <1>1, <2>1, NextChunk
    <3> HIDE DEF c
    <3>2. Unbroken(Append(sent[l], c))
      BY <3>1, UnbrokenAppend DEF FramesInOrder
    <3>3. sent'[l] = Append(sent[l], c)
      BY <3>1 DEF TypeOK
    <3> QED BY <3>2, <3>3
  <2>2. CASE l # active.link
    BY <1>1, <2>2, NextChunk DEF TypeOK, FramesInOrder
  <2> QED BY <2>1, <2>2
<1>2. CASE UNCHANGED sent
    BY <1>2 DEF FramesInOrder, Unbroken, Follows
<1> QED
    BY <1>1, <1>2
    DEF Next, Rns, NodeStops, Start, EventTask, Attached, SetupFails, SetupEnds, Discard,
        ReceiveData, LinkLost, DispatchEnds, ResetDone, Wake, LookupFails, RetryFails, Retry, Enqueue, Sender, SenderTake,
        SenderError, sendVars, vars

(* A step that leaves the frames and the sender alone keeps SenderInv if   *)
(* it attaches no used link and wants no old one.                          *)
LEMMA SenderFrame ==
    ASSUME TypeOK, LinkIdInv, SenderInv, UNCHANGED sendVars,
           \/ UNCHANGED <<attempt, link_id>> /\ (Awaiting' => Awaiting)
           \/ UNCHANGED attempt /\ link_id' = None /\ (Awaiting' => Awaiting)
           \/ attempt' = attempt + 1 /\ link_id' = None
           \/ UNCHANGED attempt /\ link_id' = attempt /\ Awaiting /\ ~Awaiting'
    PROVE  SenderInv'
<1> USE DEF SenderInv, sendVars
<1>1. /\ Taken' = Taken /\ attempt \in Nat /\ attempt' \in Nat /\ attempt <= attempt'
      /\ \A l \in Links : l \in Nat
    BY DEF Taken, TypeOK, Links
<1>2. ChannelInOrder'
    BY <1>1 DEF ChannelInOrder
<1>3. FreshLinks'
    BY <1>1 DEF FreshLinks, Awaiting
<1>4. attempt \in Links /\ Awaiting => sent[attempt] = <<>>
    BY DEF FreshLinks
<1>5. active # Idle => active.link \in Nat
    BY DEF TypeOK, Links
<1>6. link_id' \notin {None, link_id} => link_id' = attempt /\ Awaiting /\ attempt \in Links
    BY DEF TypeOK, Links, None
<1>7. IdleTail'
    BY <1>1, <1>4, <1>6 DEF IdleTail, EndsWhole
<1>8. BusyTail'
    BY <1>1, <1>4, <1>5, <1>6 DEF BusyTail, EndsWhole, Ends
<1> QED
    BY <1>2, <1>3, <1>7, <1>8

LEMMA SenderStep == TypeOK /\ LinkIdInv /\ SenderInv /\ [Next]_vars => SenderInv'
<1> SUFFICES ASSUME TypeOK, LinkIdInv, SenderInv, [Next]_vars PROVE SenderInv'
    OBVIOUS
<1>0. next_frame \in Nat /\ Len(data_sender_buf) \in Nat /\ Taken = next_frame - Len(data_sender_buf)
    BY LenProperties DEF TypeOK, Taken
<1>1. CASE Rns \/ NodeStops \/ UNCHANGED vars
    BY <1>1, SenderFrame DEF Rns, NodeStops, taskVars, vars, sendVars, Awaiting
<1>2. CASE Start \/ Retry
  <2>1. link_id = None
    BY <1>2 DEF LinkIdInv, Start, Retry
  <2>2. UNCHANGED sendVars /\ link_id' = None
    BY <1>2, <2>1 DEF Start, Retry
  <2>3. attempt' = attempt + 1 \/ (UNCHANGED attempt /\ ~Awaiting')
    BY <1>2 DEF Start, Retry, CreateLink, Awaiting
  <2> QED BY <2>2, <2>3, SenderFrame
<1>3. CASE Attached
    BY <1>3, SenderFrame DEF Attached, Awaiting
<1>4. CASE SetupFails \/ Discard \/ ReceiveData \/ LinkLost \/ ResetDone \/ Wake \/ LookupFails
              \/ RetryFails \/ SetupEnds \/ DispatchEnds
  <2>1. UNCHANGED <<sendVars, attempt>> /\ (link_id' = link_id \/ link_id' = None)
    BY <1>4 DEF SetupFails, Discard, ReceiveData, LinkLost, ResetDone, Wake, LookupFails,
                RetryFails, SetupEnds, DispatchEnds, taskVars
  <2>2. Awaiting' => Awaiting
    BY <1>4 DEF SetupFails, GivesUp, Discard, ReceiveData, LinkLost, ResetDone, Wake, LookupFails,
                RetryFails, SetupEnds, DispatchEnds, taskVars, Awaiting
  <2> QED BY <2>1, <2>2, SenderFrame
<1>5. CASE Enqueue
  <2>1. PICK f \in Frame :
            /\ data_sender_buf' = Append(data_sender_buf, f)
            /\ f.id = next_frame + 1
    <3>1. PICK n \in 1..MaxChunks :
              data_sender_buf' = Append(data_sender_buf, [id |-> next_frame + 1, chunks |-> n])
      BY <1>5 DEF Enqueue
    <3>2. next_frame + 1 \in 1..MaxFrames
      BY <1>5, ClientLinkAssumption DEF Enqueue, TypeOK
    <3>3. [id |-> next_frame + 1, chunks |-> n] \in Frame
      BY <3>2 DEF Frame
    <3> QED BY <3>1, <3>3
  <2>2. /\ Len(data_sender_buf') = Len(data_sender_buf) + 1
        /\ \A i \in 1..Len(data_sender_buf) : data_sender_buf'[i] = data_sender_buf[i]
        /\ data_sender_buf'[Len(data_sender_buf) + 1] = f
    BY <2>1, AppendProps DEF TypeOK
  <2>3. /\ next_frame' = next_frame + 1
        /\ UNCHANGED <<attempt, phase, link_id, active, sent>>
    BY <1>5 DEF Enqueue, taskVars
  <2>4. Taken' = Taken
    BY <1>0, <2>2, <2>3 DEF Taken
  <2>5. ChannelInOrder'
    <3>1. ASSUME NEW i \in 1..Len(data_sender_buf') PROVE data_sender_buf'[i].id = Taken + i
      <4>1. CASE i \in 1..Len(data_sender_buf)
        BY <2>2, <4>1 DEF SenderInv, ChannelInOrder
      <4>2. CASE i = Len(data_sender_buf) + 1
        BY <1>0, <2>1, <2>2, <4>2
      <4> QED BY <1>0, <2>2, <4>1, <4>2
    <3> QED BY <1>0, <2>2, <2>3, <2>4, <3>1 DEF SenderInv, ChannelInOrder
  <2>6. FreshLinks' /\ IdleTail' /\ BusyTail'
    BY <2>3, <2>4 DEF SenderInv, FreshLinks, IdleTail, BusyTail, Awaiting
  <2> QED BY <2>5, <2>6 DEF SenderInv
<1>6. CASE SenderTake
  <2>1. /\ data_sender_buf' = Tail(data_sender_buf)
        /\ Len(data_sender_buf') = Len(data_sender_buf) - 1 /\ Len(data_sender_buf) # 0
        /\ \A i \in 1..Len(data_sender_buf') : data_sender_buf'[i] = data_sender_buf[i + 1]
        /\ Head(data_sender_buf) = data_sender_buf[1]
    BY <1>6, TailProps DEF TypeOK, SenderTake
  <2>2. UNCHANGED <<attempt, phase, link_id, sent, next_frame>>
    BY <1>6 DEF SenderTake, taskVars
  <2>3. Taken' = Taken + 1
    BY <1>0, <2>1, <2>2 DEF Taken
  <2>4. Head(data_sender_buf).id = Taken + 1
    BY <1>0, <2>1 DEF SenderInv, ChannelInOrder
  <2>5. ChannelInOrder'
    <3>1. ASSUME NEW i \in 1..Len(data_sender_buf') PROVE data_sender_buf'[i].id = Taken' + i
      <4>1. i + 1 \in 1..Len(data_sender_buf)
        BY <1>0, <2>1
      <4>2. data_sender_buf[i + 1].id = Taken + (i + 1)
        BY <4>1 DEF SenderInv, ChannelInOrder
      <4> QED BY <1>0, <2>1, <2>3, <4>2
    <3> QED BY <1>0, <2>1, <2>2, <3>1 DEF SenderInv, ChannelInOrder
  <2>6. FreshLinks'
    BY <2>2 DEF SenderInv, FreshLinks, Awaiting
  <2>7. CASE link_id = None
    <3>1. active' = Idle /\ link_id' = None
      BY <1>6, <2>2, <2>7 DEF SenderTake
    <3> QED BY <2>5, <2>6, <3>1 DEF SenderInv, IdleTail, BusyTail
  <2>8. CASE link_id # None
    <3>1. /\ active' = [id |-> Taken', chunks |-> Head(data_sender_buf).chunks,
                        link |-> link_id, done |-> 0]
          /\ link_id' = link_id /\ link_id = attempt /\ ~Awaiting'
      BY <1>6, <2>2, <2>3, <2>4, <2>8 DEF SenderTake, LinkIdInv, Awaiting
    <3>2. EndsWhole(sent[link_id], Taken)
      BY <1>6, <2>8 DEF SenderTake, SenderInv, IdleTail
    <3>3. EndsWhole(sent'[link_id], Taken' - 1)
      BY <1>0, <2>2, <2>3, <3>2
    <3>4. active' # Idle
      BY <2>8, <3>1 DEF Idle
    <3>5. attempt' \in Nat
      BY <2>2 DEF TypeOK
    <3>6. BusyTail' /\ IdleTail'
      BY <2>2, <3>1, <3>3, <3>4, <3>5 DEF BusyTail, IdleTail
    <3> QED BY <2>5, <2>6, <3>6 DEF SenderInv
  <2> QED BY <2>7, <2>8
<1>7. CASE SenderError
  <2>1. /\ UNCHANGED <<attempt, phase, sent, data_sender_buf, next_frame>>
        /\ link_id' = None /\ active' = Idle
    BY <1>7 DEF SenderError, taskVars
  <2> QED
    BY <2>1 DEF SenderInv, ChannelInOrder, FreshLinks, IdleTail, BusyTail, Taken, Awaiting
<1>8. CASE SenderChunk
  <2> DEFINE s == sent[active.link]
             c == [frame |-> active.id, n |-> active.done + 1,
                   last |-> active.done + 1 = active.chunks]
  <2>1. /\ s \in Seq(Chunk) /\ c \in Chunk /\ active.link \in Links
        /\ sent' = [sent EXCEPT ![active.link] = Append(s, c)]
    BY <1>8, NextChunk
  <2>2. /\ sent'[active.link] = Append(s, c)
        /\ \A l \in Links : l # active.link => sent'[l] = sent[l]
    BY <2>1 DEF TypeOK
  <2>3. /\ active # Idle /\ active.id = Taken /\ active.link <= attempt
        /\ Awaiting => active.link # attempt
        /\ link_id \notin {None, active.link} => sent[link_id] = <<>>
    BY <1>8 DEF SenderChunk, SenderInv, BusyTail
  <2>4. UNCHANGED <<attempt, phase, link_id, data_sender_buf, next_frame>> /\ Taken' = Taken
    BY <1>8 DEF SenderChunk, taskVars, Taken
  <2>5. Ends(sent'[active.link], c)
    <3> HIDE DEF c, s
    <3> QED BY <2>1, <2>2, AppendProps DEF Ends
  <2>6. ChannelInOrder'
    BY <2>4 DEF SenderInv, ChannelInOrder
  <2>7. FreshLinks'
    <3>1. \A l \in Links : l > attempt \/ (l = attempt /\ Awaiting) => l # active.link
      BY <2>1, <2>3 DEF TypeOK, Links
    <3> QED BY <2>2, <2>4, <3>1 DEF SenderInv, FreshLinks, Awaiting
  <2>8. link_id \notin {None, active.link} => sent'[link_id] = <<>>
    BY <2>2, <2>3 DEF TypeOK
  <2>9. CASE active.done + 1 = active.chunks
    <3>1. active' = Idle
      BY <1>8, <2>9 DEF SenderChunk
    <3>2. EndsWhole(sent'[active.link], Taken)
      <4>1. c.last /\ c.frame = Taken
        BY <2>3, <2>9
      <4> HIDE DEF c
      <4> QED BY <2>5, <4>1 DEF Ends, EndsWhole
    <3>3. link_id # None => EndsWhole(sent'[link_id], Taken)
      BY <2>8, <3>2 DEF EndsWhole
    <3> QED BY <2>4, <2>6, <2>7, <3>1, <3>3 DEF SenderInv, IdleTail, BusyTail
  <2>10. CASE active.done + 1 # active.chunks
    <3>1. active' = [active EXCEPT !.done = active.done + 1]
      BY <1>8, <2>10 DEF SenderChunk
    <3>2. /\ active \in [id : 1..MaxFrames, chunks : 1..MaxChunks, link : Links, done : 0..MaxChunks]
          /\ active.done < active.chunks
      BY <2>3 DEF TypeOK
    <3>3. active.done + 1 \in 0..MaxChunks /\ active.done + 1 # 0
      BY <3>2, ClientLinkAssumption
    <3>4. /\ active'.id = active.id /\ active'.link = active.link
          /\ active'.done = active.done + 1
      BY <3>1, <3>2, <3>3, DoneProps
    <3>5. active' # Idle
      BY <2>1, <3>4 DEF Idle, Links, None
    <3>6. Ends(sent'[active'.link], [frame |-> Taken, n |-> active'.done, last |-> FALSE])
      BY <2>3, <2>5, <2>10, <3>4
    <3>7. BusyTail'
      BY <2>3, <2>4, <2>8, <3>3, <3>4, <3>6 DEF BusyTail, Awaiting
    <3> QED BY <2>6, <2>7, <3>5, <3>7 DEF SenderInv, IdleTail
  <2> QED BY <2>9, <2>10
<1> QED
    BY <1>1, <1>2, <1>3, <1>4, <1>5, <1>6, <1>7, <1>8 DEF Next, EventTask, Sender

-----------------------------------------------------------------------------
(***************************************************************************)
(* The setup of a link: what came up is attached, and only that.           *)
(***************************************************************************)

(* The links that came up change only when the newest one comes up.        *)
LEMMA SeenStep ==
    ASSUME TypeOK, EventsInv, SetupInv, [Next]_vars
    PROVE  \/ Seen' = Seen
           \/ /\ attempt \in Links \ Seen /\ attempt' = attempt
              /\ Seen' = Seen \cup {attempt}
              /\ \A m \in Seen : m < attempt
              /\ link_state[attempt] = "pending" /\ link_state'[attempt] = "up"
              /\ Awaiting /\ UNCHANGED <<phase, link_id>>
<1> USE DEF TypeOK
<1>1. ASSUME NEW l \in Links, LinkComesUp(l), Rns
      PROVE  /\ attempt \in Links \ Seen /\ attempt' = attempt
             /\ Seen' = Seen \cup {attempt}
             /\ \A m \in Seen : m < attempt
             /\ link_state[attempt] = "pending" /\ link_state'[attempt] = "up"
             /\ Awaiting /\ UNCHANGED <<phase, link_id>>
  <2>1. l = attempt /\ Wanted /\ UNCHANGED <<phase, attempt, link_id>>
    BY <1>1, LiveLink DEF LinkComesUp, Rns, taskVars
  <2>2. link_state[l] = "pending" /\ link_state' = [link_state EXCEPT ![l] = "up"]
    BY <1>1 DEF LinkComesUp
  <2>3. attempt \notin Seen /\ Seen' = Seen \cup {attempt}
    BY <2>1, <2>2 DEF Seen
  <2>4. Awaiting
    BY <2>1, <2>3 DEF SetupInv, Wanted, Awaiting
  <2>5. ASSUME NEW m \in Seen PROVE m < attempt
    <3>1. m \in Links /\ m # attempt /\ ~(m > attempt)
      BY <2>3 DEF Seen, EventsInv, OldLinksDown
    <3> QED BY <3>1, ClientLinkAssumption DEF Links
  <2> QED BY <1>1, <2>1, <2>2, <2>3, <2>4, <2>5
<1>2. ASSUME NEW l \in Links, LinkFails(l) \/ LinkGoesDown(l) \/ DataArrives(l)
      PROVE  Seen' = Seen
    BY <1>2 DEF LinkFails, LinkGoesDown, DataArrives, Seen
<1>3. CreateLink => Seen' = Seen
  <2> SUFFICES ASSUME CreateLink PROVE Seen' = Seen
    OBVIOUS
  <2>1. /\ link_state' = [link_state EXCEPT ![attempt + 1] = "pending"]
        /\ attempt + 1 \in Links /\ attempt + 1 > attempt
    BY ClientLinkAssumption DEF CreateLink, Links
  <2>2. link_state[attempt + 1] = "unused"
    BY <2>1 DEF EventsInv, OldLinksDown
  <2> QED BY <2>1, <2>2 DEF Seen
<1>4. CASE Rns
    BY <1>1, <1>2, <1>4 DEF Rns, PathChanges, Seen
<1>5. CASE Start \/ Retry
    BY <1>3, <1>5 DEF Start, Retry, Seen
<1>7. CASE NodeStops
    BY <1>7 DEF NodeStops, Seen
<1>6. CASE ~Rns /\ ~NodeStops /\ ~Start /\ ~Retry
  <2>1. link_state' = link_state
    BY <1>6 DEF Next, EventTask, Attached, SetupFails, SetupEnds, Discard, ReceiveData, LinkLost,
                DispatchEnds, ResetDone, Wake, LookupFails, RetryFails, Enqueue, Sender, SenderTake, SenderChunk,
                SenderError, rnsVars, vars
  <2> QED BY <2>1 DEF Seen
<1> QED BY <1>4, <1>5, <1>6, <1>7

(* RNS reports one more event of the link that is being set up.            *)
LEMMA SetupRns ==
    ASSUME TypeOK, EventsInv, SetupInv, Rns, Awaiting
    PROVE  IF attempt' \in Seen' THEN EstablishedFirst'
           ELSE \A i \in 1..Len(events') : OfLink(events'[i]) => events'[i].kind = "LinkClosed"
<1> USE DEF TypeOK
<1>1. PICK e \in Event : events' = Append(events, e)
  <2>1. \A l \in Links, k \in {"LinkEstablished", "LinkClosed", "LinkData"} :
            [kind |-> k, link |-> l] \in Event
    BY DEF Event
  <2>2. [kind |-> "PathUpdated", link |-> None] \in Event
    BY DEF Event
  <2> QED BY <2>1, <2>2
    DEF Rns, LinkComesUp, LinkFails, LinkGoesDown, DataArrives, PathChanges, Report
<1>2. /\ Len(events) \in Nat /\ Len(events') = Len(events) + 1
      /\ \A i \in 1..Len(events) : events'[i] = events[i]
      /\ events'[Len(events) + 1] = e
    BY <1>1, AppendProps
<1>3. attempt' = attempt /\ phase' = phase /\ Awaiting'
    BY DEF Rns, taskVars, Awaiting
<1>4. CASE attempt \in Seen
  <2>1. attempt' \in Seen'
    BY <1>3, <1>4, SeenStep DEF Next
  <2>2. PICK i \in 1..Len(events) : /\ events[i].kind = "LinkEstablished"
                                    /\ \A j \in 1..(i - 1) : ~OfLink(events[j])
    BY <1>4 DEF SetupInv, EstablishedFirst
  <2>3. i \in 1..Len(events') /\ events'[i].kind = "LinkEstablished"
    BY <1>2, <2>2
  <2>4. ASSUME NEW j \in 1..(i - 1) PROVE ~OfLink(events'[j])
    <3>1. j \in 1..Len(events)
      BY <1>2
    <3> QED BY <1>2, <2>2, <3>1
  <2> QED BY <2>1, <2>3, <2>4 DEF EstablishedFirst, OfLink
<1>5. CASE attempt \notin Seen
  <2>1. \A i \in 1..Len(events) : OfLink(events[i]) => events[i].kind = "LinkClosed"
    BY <1>5 DEF SetupInv
  <2>2. ASSUME NEW l \in Links, LinkComesUp(l)
        PROVE  attempt' \in Seen' /\ EstablishedFirst'
    <3>1. link_state[attempt] = "pending" /\ attempt' \in Seen'
      BY <1>3, <2>2, LiveLink DEF LinkComesUp, Seen
    <3>2. e.kind = "LinkEstablished"
      BY <1>1, <1>2, <2>2, AppendProps, LastReported DEF LinkComesUp, Report
    <3>3. \A i \in 1..Len(events) : events[i].kind # "LinkClosed"
      BY <2>2, LiveLink DEF LinkComesUp
    <3>4. \A i \in 1..Len(events) : ~OfLink(events'[i])
      BY <1>2, <2>1, <3>3 DEF OfLink
    <3>5. /\ Len(events') \in 1..Len(events') /\ events'[Len(events')].kind = "LinkEstablished"
          /\ \A j \in 1..(Len(events') - 1) : ~OfLink(events'[j])
      BY <1>2, <3>2, <3>4
    <3> QED BY <3>1, <3>5 DEF EstablishedFirst, OfLink
  <2>3. ASSUME NEW l \in Links, LinkFails(l) \/ LinkGoesDown(l) \/ DataArrives(l)
        PROVE  attempt' \notin Seen' /\ (OfLink(e) => e.kind = "LinkClosed")
    <3>1. l = attempt /\ link_state[l] = "pending"
      BY <1>5, <2>3, LiveLink DEF LinkFails, LinkGoesDown, DataArrives, Seen
    <3>2. LinkFails(l)
      BY <2>3, <3>1 DEF LinkGoesDown, DataArrives
    <3>3. e.kind = "LinkClosed"
      BY <1>1, <1>2, <3>2, AppendProps, LastReported DEF LinkFails, Report
    <3> QED BY <1>3, <3>1, <3>2, <3>3 DEF LinkFails, Seen
  <2>4. ASSUME PathChanges
        PROVE  attempt' \notin Seen' /\ (OfLink(e) => e.kind = "LinkClosed")
    <3>1. e.kind = "PathUpdated"
      BY <1>1, <1>2, <2>4, AppendProps, LastReported DEF PathChanges, Report
    <3> QED BY <1>3, <1>5, <2>4, <3>1 DEF PathChanges, OfLink, Seen
  <2>5. attempt' \notin Seen' /\ (OfLink(e) => e.kind = "LinkClosed")
            => \A i \in 1..Len(events') : OfLink(events'[i]) => events'[i].kind = "LinkClosed"
    BY <1>2, <2>1 DEF OfLink
  <2>6. \/ \E l \in Links : LinkComesUp(l)
        \/ \E l \in Links : LinkFails(l) \/ LinkGoesDown(l) \/ DataArrives(l)
        \/ PathChanges
    BY DEF Rns
  <2> QED BY <2>2, <2>3, <2>4, <2>5, <2>6
<1> QED BY <1>4, <1>5

(* establish_link drops what is not the answer it waits for.               *)
LEMMA SetupDiscard ==
    ASSUME TypeOK, EventsInv, SetupInv, Discard, Awaiting
    PROVE  IF attempt \in Seen THEN EstablishedFirst'
           ELSE \A i \in 1..Len(events') : OfLink(events'[i]) => events'[i].kind = "LinkClosed"
<1>1. /\ Len(events) \in Nat /\ Len(events') = Len(events) - 1 /\ Head(events) = events[1]
      /\ Len(events) # 0
      /\ \A i \in 1..Len(events') : events'[i] = events[i + 1]
    BY TailProps DEF TypeOK, Discard, Take
<1>2. events[1].link # attempt \/ events[1].kind \notin {"LinkEstablished", "LinkClosed"}
    BY <1>1 DEF Discard, Ignores
<1>3. OfLink(events[1]) => events[1].kind \notin {"LinkEstablished", "LinkClosed"}
    BY <1>1, <1>2 DEF EventsInv, EventsMine
<1>4. CASE attempt \in Seen
  <2>1. PICK i \in 1..Len(events) : /\ events[i].kind = "LinkEstablished"
                                    /\ \A j \in 1..(i - 1) : ~OfLink(events[j])
    BY <1>4 DEF SetupInv, EstablishedFirst
  <2>2. i # 1
    BY <1>3, <2>1 DEF OfLink
  <2>3. i - 1 \in 1..Len(events') /\ events'[i - 1].kind = "LinkEstablished"
    BY <1>1, <2>1, <2>2
  <2>4. ASSUME NEW j \in 1..(i - 1 - 1) PROVE ~OfLink(events'[j])
    <3>1. j \in 1..Len(events') /\ j + 1 \in 1..(i - 1)
      BY <1>1, <2>1, <2>2
    <3> QED BY <1>1, <2>1, <3>1
  <2> QED BY <1>4, <2>3, <2>4 DEF EstablishedFirst, OfLink
<1>5. CASE attempt \notin Seen
    BY <1>1, <1>5 DEF SetupInv, OfLink
<1> QED BY <1>4, <1>5

(* What ends the setup of a link tells how it ended.                       *)
LEMMA SetupAnswer ==
    ASSUME TypeOK, EventsInv, SetupInv, Awaiting, events # <<>>, Head(events).link = attempt
    PROVE  /\ Head(events).kind = "LinkEstablished" => attempt \in Seen
           /\ Head(events).kind = "LinkClosed" => attempt \notin Seen
<1>1. Head(events) = events[1] /\ Len(events) \in Nat \ {0}
    BY TailProps DEF TypeOK
<1>2. CASE attempt \notin Seen
    BY <1>1, <1>2 DEF SetupInv, OfLink
<1>3. CASE attempt \in Seen
  <2>1. PICK i \in 1..Len(events) : /\ events[i].kind = "LinkEstablished"
                                    /\ \A j \in 1..(i - 1) : ~OfLink(events[j])
    BY <1>3 DEF SetupInv, EstablishedFirst
  <2>2. i = 1 \/ ~OfLink(events[1])
    BY <1>1, <2>1
  <2> QED BY <1>1, <1>3, <2>1, <2>2 DEF OfLink
<1> QED BY <1>2, <1>3

LEMMA SetupStep == TypeOK /\ EventsInv /\ SetupInv /\ [Next]_vars => SetupInv'
<1> SUFFICES ASSUME TypeOK, EventsInv, SetupInv, [Next]_vars PROVE SetupInv'
    OBVIOUS
<1>1. Seen' # {} => \E l \in Seen' : \A m \in Seen' : m <= l
  <2>1. CASE Seen' = Seen
    BY <2>1 DEF SetupInv
  <2>2. CASE Seen' = Seen \cup {attempt} /\ \A m \in Seen : m < attempt
    <3>1. Seen \subseteq Nat /\ attempt \in Nat
      BY ClientLinkAssumption DEF TypeOK, Seen, Links
    <3>2. \A m \in Seen' : m <= attempt
      BY <2>2, <3>1
    <3> QED BY <2>2, <3>2
  <2> QED BY <2>1, <2>2, SeenStep
<1>2. (phase' = "dispatch" => attempt' \in Seen')
      /\ (Awaiting' => IF attempt' \in Seen' THEN EstablishedFirst'
                       ELSE \A i \in 1..Len(events') :
                               OfLink(events'[i]) => events'[i].kind = "LinkClosed")
  <2>1. CASE Rns
    <3>1. phase' = phase /\ attempt' = attempt /\ (attempt \in Seen => attempt \in Seen')
      BY <2>1, SeenStep DEF Rns, taskVars
    <3> QED BY <2>1, <3>1, SetupRns DEF Awaiting, SetupInv
  <2>2. CASE (Start \/ Retry) /\ CreateLink
    <3>0. /\ events' = events /\ phase' \in {"starting", "waiting"} /\ ~Wanted
          /\ CreateLink
      BY <2>2 DEF Start, Retry, CreateLink, Wanted
    <3>1. /\ attempt' = attempt + 1 /\ attempt + 1 \in Links
          /\ link_state'[attempt + 1] = "pending"
      BY <3>0, ClientLinkAssumption DEF CreateLink, TypeOK, Links
    <3>2. attempt' \notin Seen'
      BY <3>1 DEF Seen
    <3> QED BY <3>0, <3>1, <3>2 DEF EventsInv, QuietWhenDown
  <2>3. CASE Start /\ ~CreateLink
    BY <2>3 DEF Start, Awaiting
  <2>4. CASE Attached
    <3>1. Seen' = Seen /\ attempt \in Seen /\ attempt' = attempt /\ phase' = "dispatch"
      BY <2>4, SetupAnswer DEF Attached, Is, Mine, Seen
    <3> QED BY <3>1 DEF Awaiting
  <2>5. CASE \/ SetupFails \/ SetupEnds \/ LinkLost \/ DispatchEnds \/ ResetDone \/ Wake
             \/ LookupFails \/ RetryFails
    BY <2>5 DEF SetupFails, SetupEnds, GivesUp, LinkLost, DispatchEnds, ResetDone, Wake, LookupFails, RetryFails, Awaiting
  <2>6. CASE Discard
    <3>1. UNCHANGED <<phase, attempt>> /\ Seen' = Seen
      BY <2>6 DEF Discard, taskVars, Seen
    <3> QED BY <2>6, <3>1, SetupDiscard DEF Awaiting, SetupInv
  <2>7. CASE ReceiveData
    BY <2>7 DEF ReceiveData, Awaiting, SetupInv, Seen
  <2>8. CASE Enqueue \/ Sender \/ UNCHANGED vars
    <3>1. UNCHANGED <<events, phase, attempt, link_state>>
      BY <2>8 DEF Enqueue, Sender, SenderTake, SenderChunk, SenderError, rnsVars, taskVars, vars
    <3> QED BY <3>1 DEF Awaiting, SetupInv, Seen, EstablishedFirst, OfLink
  <2>9. CASE NodeStops
    <3>1. UNCHANGED <<events, phase, attempt>> /\ Seen' = Seen
      BY <2>9 DEF NodeStops, taskVars, Seen
    <3> QED BY <3>1 DEF Awaiting, SetupInv, EstablishedFirst, OfLink
  <2> QED
    BY <2>1, <2>2, <2>3, <2>4, <2>5, <2>6, <2>7, <2>8, <2>9 DEF Next, EventTask, Retry
<1> QED
    BY <1>1, <1>2 DEF SetupInv

-----------------------------------------------------------------------------
(***************************************************************************)
(* The theorems.                                                           *)
(***************************************************************************)

(* The inductive invariant holds at the start.                             *)
LEMMA InitIInv == Init => IInv
<1> SUFFICES ASSUME Init PROVE IInv
    OBVIOUS
<1>1. TypeOK
    BY TypeInit
<1>2. EventsInv
    BY ClientLinkAssumption
    DEF Init, EventsInv, EventsMine, CloseIsLast, QuietWhenDown, OldLinksDown, Links, None, Wanted
<1>3. LinkIdInv /\ BufferInv
    BY DEF Init, LinkIdInv, BufferInv
<1>4. SenderInv
    BY DEF Init, SenderInv, ChannelInOrder, FreshLinks, IdleTail, BusyTail
<1>5. FramesInOrder
    BY DEF Init, FramesInOrder, Unbroken
<1>6. SetupInv
    BY DEF Init, SetupInv, Awaiting, Seen
<1> QED
    BY <1>1, <1>2, <1>3, <1>4, <1>5, <1>6 DEF IInv

(* Every step of the reconnect loop, the sender task, the sessions and RNS *)
(* keeps the inductive invariant.                                          *)
THEOREM Invariance == Spec => []IInv
<1>1. IInv /\ [Next]_vars => IInv'
    BY TypeStep, EventsStep, LinkIdStep, BufferStep, SenderStep, FramesStep,
       SetupStep DEF IInv
<1> QED
    BY InitIInv, <1>1, PTL DEF Spec

(* Type correctness of the reconnect loop, the mux and the sender task.    *)
THEOREM TypeCorrect == Spec => []TypeOK
<1>1. IInv => TypeOK
    BY DEF IInv
<1> QED BY Invariance, <1>1, PTL

(* The dispatch loop of client.rs, which compares no link ids, meets only  *)
(* closes and data of the link it dispatches for.                          *)
THEOREM EventsAreCurrent == Spec => []ClosedIsCurrent
<1>1. IInv => ClosedIsCurrent
  <2> SUFFICES ASSUME IInv, events # <<>>, Head(events).kind \in {"LinkClosed", "LinkData"}
               PROVE  Head(events).link = attempt
    BY DEF ClosedIsCurrent
  <2>1. 1 \in 1..Len(events) /\ Head(events) = events[1]
    BY TailProps DEF IInv, TypeOK
  <2> QED BY <2>1 DEF IInv, EventsInv, EventsMine, OfLink
<1> QED BY Invariance, <1>1, PTL

(* Bytes of two links never meet in recv_buf.                              *)
THEOREM BufferIsOfOneLink == Spec => []BufferOneLink
<1>1. IInv => BufferOneLink
    BY DEF IInv, BufferInv, BufferOneLink
<1> QED BY Invariance, <1>1, PTL

(* run_link_sender puts whole consecutive frames on every link, cut only   *)
(* at the end, whatever fails in between.                                  *)
THEOREM FramesAreUnbroken == Spec => []FramesInOrder
<1>1. IInv => FramesInOrder
    BY DEF IInv
<1> QED BY Invariance, <1>1, PTL

-----------------------------------------------------------------------------
(***************************************************************************)
(* The loop and the sender implement LinkService.                          *)
(***************************************************************************)
Live == \E l \in Links : link_state[l] = "up"
Spent == ~(Awaiting /\ attempt \in Seen)

(* NewestUp is the newest of the links that came up, if there is one.      *)
LEMMA NewestIs ==
    ASSUME NEW l \in Seen, \A m \in Seen : m <= l
    PROVE  NewestUp = l
<1>1. Seen \subseteq Nat
    BY ClientLinkAssumption DEF Seen, Links
<1>2. ASSUME NEW k \in Seen, \A m \in Seen : m <= k PROVE k = l
    BY <1>1, <1>2
<1> QED BY <1>2 DEF NewestUp

LEMMA NewestSeen == SetupInv => NewestUp = None \/ NewestUp \in Seen
    BY DEF SetupInv, NewestUp

(* Only the newest link can be up, and only while it is wanted.            *)
LEMMA LiveIsNewest == TypeOK /\ EventsInv => (Live <=> attempt \in Links /\ link_state[attempt] = "up")
    BY LiveLink DEF Live

LEMMA RefinesInit == Init => LS!Init
<1> SUFFICES ASSUME Init PROVE LS!Init
    OBVIOUS
<1>1. Seen = {} /\ ~Live /\ ~Awaiting
    BY DEF Init, Seen, Live, Awaiting
<1>2. NewestUp = 0
    BY <1>1 DEF NewestUp, None
<1> QED
    BY <1>1, <1>2 DEF Init, LS!Init, Live, None

(* A link comes up: its predecessor is gone and the mux let go of it.      *)
LEMMA RefinesEstablish ==
    ASSUME TypeOK, EventsInv, LinkIdInv, SetupInv, [Next]_vars, Seen' # Seen
    PROVE  LS!Establish
<1>1. /\ attempt \in Links \ Seen /\ attempt' = attempt
      /\ Seen' = Seen \cup {attempt}
      /\ \A m \in Seen : m < attempt
      /\ link_state[attempt] = "pending" /\ link_state'[attempt] = "up"
      /\ Awaiting /\ UNCHANGED <<phase, link_id>>
    BY SeenStep
<1>2. Seen \subseteq Nat /\ attempt \in 1..MaxLinks /\ MaxLinks \in Nat
    BY <1>1, ClientLinkAssumption DEF Seen, Links
<1>3. NewestUp' = attempt
  <2>1. \A m \in Seen' : m <= attempt
    BY <1>1, <1>2
  <2>2. ASSUME NEW k \in Seen', \A m \in Seen' : m <= k PROVE k = attempt
    BY <1>1, <1>2, <2>1, <2>2
  <2> QED BY <1>1, <2>1, <2>2 DEF NewestUp
<1>4. attempt \in (NewestUp + 1)..MaxLinks
  <2>1. NewestUp = 0 \/ NewestUp \in Seen
    BY NewestSeen DEF None
  <2>2. NewestUp \in Nat /\ NewestUp < attempt
    <3>1. attempt \in Nat /\ 0 < attempt
      BY <1>2
    <3>2. CASE NewestUp \in Seen
      BY <1>1, <1>2, <3>2
    <3> QED BY <2>1, <3>1, <3>2
  <2> QED BY <1>2, <2>2
<1>5. ~Live /\ Live'
    BY <1>1, LiveIsNewest DEF Live
<1>6. Spent /\ ~Spent'
    BY <1>1 DEF Spent, Awaiting
<1>7. link_id = 0 /\ link_id' = link_id
    BY <1>1 DEF LinkIdInv, Awaiting, None
<1> QED
    BY <1>3, <1>4, <1>5, <1>6, <1>7 DEF LS!Establish, Live, Spent

(* Every step of the loop, the sender, the sessions or RNS is one of       *)
(* LinkService or none.                                                    *)
LEMMA RefinesStep ==
    ASSUME TypeOK, EventsInv, LinkIdInv, SetupInv, [Next]_vars
    PROVE  [LS!Next]_LS!vars
<1> SUFFICES ASSUME Seen' = Seen PROVE [LS!Next]_LS!vars
    BY RefinesEstablish DEF LS!Next
<1>1. NewestUp' = NewestUp
    BY DEF NewestUp
<1>2. LS!Detach \/ UNCHANGED link_id
        => (UNCHANGED <<Live, Spent>> => [LS!Next]_LS!vars)
    BY <1>1 DEF LS!Next, LS!vars, LS!Detach, Live, Spent
<1>3. ASSUME link_id' = None, UNCHANGED <<Live, Spent>> PROVE [LS!Next]_LS!vars
    BY <1>1, <1>3 DEF LS!Next, LS!vars, LS!Detach, Live, Spent, None
<1>4. CASE Rns
  <2>1. UNCHANGED <<phase, attempt, link_id, Spent>>
    BY <1>4 DEF Rns, taskVars, Spent, Awaiting
  <2>2. ASSUME NEW l \in Links, LinkGoesDown(l) PROVE LS!Lose
    <3>1. l = attempt /\ Live /\ link_state' = [link_state EXCEPT ![l] = "closed"]
      BY <2>2, LiveLink DEF LinkGoesDown, Live
    <3>2. ASSUME NEW m \in Links PROVE link_state'[m] # "up"
      <4>1. m # l => link_state[m] # "up"
        BY <3>1, LiveLink
      <4> QED BY <3>1, <4>1 DEF TypeOK
    <3>3. ~Live'
      BY <3>2 DEF Live
    <3> QED BY <1>1, <2>1, <3>1, <3>3 DEF LS!Lose, Live, Spent
  <2>3. ASSUME NEW l \in Links, LinkFails(l) \/ DataArrives(l) \/ PathChanges
        PROVE  UNCHANGED Live
    BY <2>3 DEF LinkFails, DataArrives, PathChanges, Live, TypeOK
  <2>4. ASSUME NEW l \in Links, LinkComesUp(l) PROVE FALSE
    BY <2>4 DEF LinkComesUp, Seen, TypeOK
  <2>5. CASE PathChanges
    BY <1>2, <2>1, <2>5 DEF PathChanges, Live
  <2> QED BY <1>2, <1>4, <2>1, <2>2, <2>3, <2>4, <2>5 DEF Rns, LS!Next
<1>5. CASE (Start \/ Retry) /\ CreateLink
  <2>1. /\ phase' \in {"starting", "waiting"} /\ ~Awaiting /\ UNCHANGED link_id
        /\ attempt' = attempt + 1 /\ attempt + 1 \in Links
        /\ link_state' = [link_state EXCEPT ![attempt + 1] = "pending"]
    BY <1>5, ClientLinkAssumption DEF Start, Retry, CreateLink, Awaiting, TypeOK, Links
  <2>2. Spent /\ Spent'
    BY <2>1 DEF Spent, Seen, TypeOK
  <2>3. link_state[attempt + 1] = "unused"
    BY <2>1, ClientLinkAssumption DEF EventsInv, OldLinksDown, TypeOK
  <2>4. UNCHANGED Live
    BY <2>1, <2>3 DEF Live, TypeOK
  <2> QED BY <1>2, <2>1, <2>2, <2>4
<1>6. CASE Attached
  <2>1. attempt \in Seen /\ Awaiting /\ UNCHANGED <<link_state, attempt>>
        /\ link_id' = attempt /\ phase' = "dispatch"
    BY <1>6, SetupAnswer DEF Attached, Is, Mine
  <2>2. NewestUp = attempt
    <3>1. \A m \in Seen : m <= attempt
      <4>1. Seen \subseteq Nat /\ attempt \in Nat /\ Seen \subseteq Links
        BY ClientLinkAssumption DEF Seen, Links, TypeOK
      <4>2. ASSUME NEW m \in Seen PROVE ~(m > attempt)
        BY <4>1 DEF EventsInv, OldLinksDown, Seen
      <4> QED BY <4>1, <4>2
    <3> QED BY <2>1, <3>1, NewestIs
  <2>3. ~Spent /\ Spent' /\ UNCHANGED Live
    BY <2>1 DEF Spent, Awaiting, Live
  <2> QED BY <1>1, <2>1, <2>2, <2>3 DEF LS!Next, LS!Attach, Live, Spent
<1>7. CASE SetupFails \/ SetupEnds
  <2>0. SetupEnds => attempt \notin Seen
    BY EmptySeq DEF SetupEnds, NoneLeft, SetupInv, EstablishedFirst
  <2>1. attempt \notin Seen /\ UNCHANGED <<link_state, attempt, link_id>>
    BY <1>7, <2>0, SetupAnswer DEF SetupFails, SetupEnds, Is, Mine
  <2>2. UNCHANGED <<Live, Spent>>
    BY <2>1 DEF Spent, Live
  <2> QED BY <1>2, <2>1, <2>2
<1>8. CASE \/ LinkLost \/ DispatchEnds \/ ResetDone \/ Wake \/ LookupFails \/ RetryFails \/ Discard \/ ReceiveData
           \/ (Start /\ phase' = "stopped")
  <2>1. /\ UNCHANGED <<link_state, attempt>> /\ (UNCHANGED link_id \/ link_id' = None)
        /\ (UNCHANGED phase \/ (phase \notin {"starting", "waiting"}
                                 /\ phase' \notin {"starting", "waiting"}))
    BY <1>8 DEF LinkLost, DispatchEnds, ResetDone, Wake, LookupFails, RetryFails, Discard, ReceiveData, Start,
                CreateLink, taskVars, TypeOK
  <2>2. UNCHANGED <<Live, Spent>>
    BY <2>1 DEF Spent, Live, Awaiting
  <2> QED BY <1>2, <1>3, <2>1, <2>2
<1>9. CASE Enqueue \/ Sender \/ UNCHANGED vars
  <2>1. UNCHANGED <<link_state, attempt, phase>> /\ (UNCHANGED link_id \/ link_id' = None)
    BY <1>9 DEF Enqueue, Sender, SenderTake, SenderChunk, SenderError, rnsVars, taskVars, vars
  <2>2. UNCHANGED <<Live, Spent>>
    BY <2>1 DEF Spent, Live, Awaiting
  <2> QED BY <1>2, <1>3, <2>1, <2>2
<1>10. CASE NodeStops
  <2>1. UNCHANGED <<phase, attempt, link_id, Spent>>
    BY <1>10 DEF NodeStops, taskVars, Spent, Awaiting
  <2>2. ~Live'
    BY <1>10 DEF NodeStops, Live
  <2>3. CASE Live
    BY <1>1, <2>1, <2>2, <2>3 DEF LS!Lose, LS!Next, Live, Spent
  <2>4. CASE ~Live
    BY <1>2, <2>1, <2>2, <2>4 DEF Live
  <2> QED BY <2>3, <2>4
<1> QED
    BY <1>4, <1>5, <1>6, <1>7, <1>8, <1>9, <1>10 DEF Next, EventTask, Start, Retry

(* client.rs and run_link_sender together keep the promise of LinkService: *)
(* the mux is attached to each link at most once, to one link at a time,   *)
(* and to a new one only after it let go of the old one.                   *)
THEOREM LinkServiceIsImplemented == Spec => ImplementsLinkService
<1>1. IInv /\ [Next]_vars => [LS!Next]_LS!vars
    BY RefinesStep DEF IInv
<1> QED
    BY Invariance, RefinesInit, <1>1, PTL DEF Spec, ImplementsLinkService, LS!Spec

=============================================================================
