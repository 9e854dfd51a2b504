----------------------------- MODULE ClientLink -----------------------------
(***************************************************************************)
(* The client's link: the task that dispatches RNS events and reconnects   *)
(* (client.rs: connect_rns, establish_link, dispatch_and_reconnect), the   *)
(* mux's link_id and recv_buf, and the task that takes encoded frames off  *)
(* the bounded channel and sends them chunk by chunk (mux.rs,              *)
(* run_link_sender).  The two tasks share link_id and nothing else, and    *)
(* both hold on to a link id across awaits.                                *)
(*                                                                         *)
(* Sessions appear only as producers of frames; Tunnel models them.  RNS   *)
(* is external: it reports a created link as established or closed, then   *)
(* data, then its close, through one unbounded FIFO channel (node.rs).     *)
(* The channel closes with the node that owns its sending end, and the     *)
(* links go with it.                                                       *)
(***************************************************************************)
EXTENDS Naturals, Sequences

CONSTANTS
    MaxLinks,     \* bound: links the client may create
    MaxFrames,    \* bound: frames the sessions may send
    MaxEvents,    \* bound: events queued before RNS reports further data
    MaxChunks,    \* most LINK_MDU-sized chunks a frame is split into
    Capacity,     \* capacity of the frame channel, 5 in the code
    MaxDelay,     \* cap of the reconnection delay in seconds, 30 in the code
    SendErrors    \* may send_on_link fail on a link that is up

ASSUME ClientLinkAssumption ==
    /\ MaxLinks \in Nat \ {0}
    /\ MaxFrames \in Nat
    /\ MaxEvents \in Nat
    /\ MaxChunks \in Nat \ {0}
    /\ Capacity \in Nat \ {0}
    /\ MaxDelay \in Nat
    /\ SendErrors \in BOOLEAN

None == 0                         \* Option::None for a link id
Links == 1..MaxLinks

VARIABLES
    link_state,       \* RNS: [Links -> "unused" | "pending" | "up" | "failed" | "closed"]
    node,             \* RNS: does the node run, which owns the sending end of rx
    events,           \* ProxyEvents not yet received from rx
    phase,            \* where the event task is
    attempt,          \* the link create_link returned last
    delay,            \* seconds before the next reconnection attempt
    link_id,          \* MuxInner.link_id
    recv_buf,         \* links whose undecoded bytes are in MuxInner.recv_buf
    data_sender_buf,  \* the bounded channel of encoded frames
    active,           \* the frame run_link_sender is sending, on which link
    next_frame,       \* the frames sent so far
    sent              \* per link, the chunks send_on_link accepted

rnsVars == <<link_state, node, events>>
taskVars == <<phase, attempt, delay, recv_buf>>
sendVars == <<data_sender_buf, active, next_frame, sent>>
vars == <<link_state, node, events, phase, attempt, delay, link_id, recv_buf,
          data_sender_buf, active, next_frame, sent>>

Phases == {"start", "starting", "dispatch", "clearing", "sleeping", "lookup",
           "waiting", "stopped", "ended"}
LinkStates == {"unused", "pending", "up", "failed", "closed"}
Event == [kind : {"LinkEstablished", "LinkClosed", "LinkData"}, link : Links]
            \cup [kind : {"PathUpdated"}, link : {None}]
Frame == [id : 1..MaxFrames, chunks : 1..MaxChunks]
Chunk == [frame : 1..MaxFrames, n : 1..MaxChunks, last : BOOLEAN]
Idle == [id |-> 0, chunks |-> 0, link |-> None, done |-> 0]

Init ==
    /\ link_state = [l \in Links |-> "unused"]
    /\ node = "up"
    /\ events = <<>>
    /\ phase = "start"
    /\ attempt = None
    /\ delay = 0
    /\ link_id = None
    /\ recv_buf = {}
    /\ data_sender_buf = <<>>
    /\ active = Idle
    /\ next_frame = 0
    /\ sent = [l \in Links |-> <<>>]

-----------------------------------------------------------------------------
(***************************************************************************)
(* RNS, external: what a link may do and which events it reports.          *)
(***************************************************************************)
Report(kind, l) == events' = Append(events, [kind |-> kind, link |-> l])

LinkComesUp(l) ==
    /\ link_state[l] = "pending"
    /\ link_state' = [link_state EXCEPT ![l] = "up"]
    /\ Report("LinkEstablished", l)

LinkFails(l) ==
    /\ link_state[l] = "pending"
    /\ link_state' = [link_state EXCEPT ![l] = "failed"]
    /\ Report("LinkClosed", l)

LinkGoesDown(l) ==
    /\ link_state[l] = "up"
    /\ link_state' = [link_state EXCEPT ![l] = "closed"]
    /\ Report("LinkClosed", l)

DataArrives(l) ==
    /\ link_state[l] = "up"
    /\ Len(events) < MaxEvents
    /\ Report("LinkData", l)
    /\ UNCHANGED link_state

PathChanges ==
    /\ node = "up"
    /\ Len(events) < MaxEvents
    /\ Report("PathUpdated", None)
    /\ UNCHANGED link_state

Rns ==
    /\ \/ \E l \in Links : LinkComesUp(l) \/ LinkFails(l) \/ LinkGoesDown(l)
                             \/ DataArrives(l)
       \/ PathChanges
    /\ UNCHANGED <<node, taskVars, link_id, sendVars>>

(* The node ends: so do its links, and nothing is reported any more.       *)
NodeStops ==
    /\ node = "up"
    /\ node' = "gone"
    /\ link_state' = [l \in Links |-> IF link_state[l] = "pending" THEN "failed"
                                      ELSE IF link_state[l] = "up" THEN "closed"
                                      ELSE link_state[l]]
    /\ UNCHANGED <<events, taskVars, link_id, sendVars>>

-----------------------------------------------------------------------------
(***************************************************************************)
(* The event task.  It takes one event at a time from rx; each action      *)
(* below is what the task does between two of its awaits.                  *)
(***************************************************************************)
Is(kind) == events # <<>> /\ Head(events).kind = kind
Mine == Head(events).link = attempt       \* lid == link_id
Take == events' = Tail(events)
NoneLeft == node = "gone" /\ events = <<>>         \* rx.recv() is None

Connected == phase \notin {"start", "starting", "stopped"}

(* The delay after a failed lookup and after a failed link.                *)
NoCap(d) == 2 * d + 1
AtMost(d) == IF d < MaxDelay THEN d ELSE MaxDelay      \* min(30)
BackoffNoPath(d) == AtMost(2 * d)
BackoffNoLink(d) == AtMost(2 * d + 1)

(* node.create_link returned the id of a new link.                         *)
CreateLink ==
    /\ node = "up" /\ attempt < MaxLinks
    /\ attempt' = attempt + 1
    /\ link_state' = [link_state EXCEPT ![attempt + 1] = "pending"]

(* connect_rns: a first link that cannot be had ends the program.          *)
Start ==
    /\ phase = "start"
    /\ \/ /\ CreateLink
          /\ phase' = "starting"
       \/ /\ phase' = "stopped"
          /\ UNCHANGED <<attempt, link_state>>
    /\ UNCHANGED <<node, events, delay, link_id, recv_buf, sendVars>>

Awaiting == phase \in {"starting", "waiting"}

Attached ==
    /\ Awaiting /\ Is("LinkEstablished") /\ Mine /\ Take
    /\ link_id' = attempt
    /\ phase' = "dispatch"
    /\ UNCHANGED <<link_state, node, attempt, delay, recv_buf, sendVars>>

(* LinkClosed while the link is being set up: establish_link is false.     *)
SetupFailsDeaf == FALSE
GivesUp ==
    IF phase = "starting"
    THEN phase' = "stopped" /\ UNCHANGED delay
    ELSE phase' = "sleeping" /\ delay' = BackoffNoLink(delay)

SetupFails ==
    /\ Awaiting /\ Is("LinkClosed") /\ Mine /\ Take
    /\ GivesUp
    /\ UNCHANGED <<link_state, node, attempt, link_id, recv_buf, sendVars>>

(* establish_link is false, too, when rx is closed and nothing left in it. *)
SetupEnds ==
    /\ Awaiting /\ NoneLeft
    /\ GivesUp
    /\ UNCHANGED <<link_state, node, events, attempt, link_id, recv_buf, sendVars>>

(* The dispatch loop returns.  Nobody resets the mux or tells its users.   *)
DispatchEnds ==
    /\ phase = "dispatch" /\ NoneLeft
    /\ phase' = "ended"
    /\ UNCHANGED <<link_state, node, events, attempt, delay, link_id, recv_buf, sendVars>>

(* Every other event is read and dropped, by establish_link and by the     *)
(* dispatch loop alike.                                                    *)
Ignores(e) ==
    IF Awaiting
    THEN e.link # attempt \/ e.kind \notin {"LinkEstablished", "LinkClosed"}
    ELSE phase = "dispatch" /\ e.kind \notin {"LinkData", "LinkClosed"}

Discard ==
    /\ events # <<>> /\ Ignores(Head(events)) /\ Take
    /\ UNCHANGED <<link_state, node, taskVars, link_id, sendVars>>

(* receive_data: whatever link the bytes came on, they end up in recv_buf, *)
(* which is left empty or with the start of a frame.                       *)
ReceiveData ==
    /\ phase = "dispatch" /\ Is("LinkData") /\ Take
    /\ recv_buf' \in {{}, recv_buf \cup {Head(events).link}}
    /\ UNCHANGED <<link_state, node, phase, attempt, delay, link_id, sendVars>>

(* LinkClosed, whatever its link: mux.reset() takes three locks in turn.   *)
(* The first step clears link_id, the second the sessions and recv_buf.    *)
LinkLostKeepsId ==
    /\ phase = "dispatch" /\ Is("LinkClosed") /\ Take
    /\ phase' = "clearing"
    /\ UNCHANGED <<link_state, node, attempt, delay, link_id, recv_buf, sendVars>>

LinkLost ==
    /\ phase = "dispatch" /\ Is("LinkClosed") /\ Take
    /\ link_id' = None
    /\ phase' = "clearing"
    /\ UNCHANGED <<link_state, node, attempt, delay, recv_buf, sendVars>>

ResetDoneKeepsBytes ==
    /\ phase = "clearing"
    /\ delay' = 0
    /\ phase' = "sleeping"
    /\ UNCHANGED <<link_state, node, events, attempt, link_id, recv_buf, sendVars>>

ResetDone ==
    /\ phase = "clearing"
    /\ recv_buf' = {}
    /\ delay' = 0
    /\ phase' = "sleeping"
    /\ UNCHANGED <<link_state, node, events, attempt, link_id, sendVars>>

Wake ==
    /\ phase = "sleeping"
    /\ phase' = "lookup"
    /\ UNCHANGED <<link_state, node, events, attempt, delay, link_id, recv_buf, sendVars>>

(* ensure_path timed out or recall_sig_pub found no identity.              *)
LookupFails ==
    /\ phase = "lookup"
    /\ phase' = "sleeping"
    /\ delay' = BackoffNoPath(delay)
    /\ UNCHANGED <<link_state, node, events, attempt, link_id, recv_buf, sendVars>>

(* create_link failed: establish_link is false without having waited.      *)
RetryFails ==
    /\ phase = "lookup"
    /\ phase' = "sleeping"
    /\ delay' = BackoffNoLink(delay)
    /\ UNCHANGED <<link_state, node, events, attempt, link_id, recv_buf, sendVars>>

RetryWithoutClose ==
    /\ phase = "lookup" \/ (phase = "dispatch" /\ link_id = None)
    /\ CreateLink
    /\ phase' = "waiting"
    /\ UNCHANGED <<node, events, delay, link_id, recv_buf, sendVars>>

Retry ==
    /\ phase = "lookup"
    /\ CreateLink
    /\ phase' = "waiting"
    /\ UNCHANGED <<node, events, delay, link_id, recv_buf, sendVars>>

EventTask ==
    \/ Attached \/ SetupFails \/ SetupEnds
    \/ Discard \/ ReceiveData \/ LinkLost \/ ResetDone \/ DispatchEnds

-----------------------------------------------------------------------------
(***************************************************************************)
(* The sessions' frames and the sender task.                               *)
(***************************************************************************)
(* send_frame: waits while the channel is full.  Sessions outlive a link,  *)
(* so a frame may be queued in any phase once the client has started.      *)
Enqueue ==
    /\ Connected
    /\ Len(data_sender_buf) < Capacity
    /\ next_frame < MaxFrames
    /\ next_frame' = next_frame + 1
    /\ \E n \in 1..MaxChunks :
          data_sender_buf' = Append(data_sender_buf, [id |-> next_frame + 1, chunks |-> n])
    /\ UNCHANGED <<rnsVars, taskVars, link_id, active, sent>>

(* The link is read once per frame; a frame taken without one is dropped.  *)
SenderTake ==
    /\ active = Idle
    /\ data_sender_buf # <<>>
    /\ data_sender_buf' = Tail(data_sender_buf)
    /\ active' = IF link_id = None
                 THEN Idle
                 ELSE [id |-> Head(data_sender_buf).id, chunks |-> Head(data_sender_buf).chunks,
                       link |-> link_id, done |-> 0]
    /\ UNCHANGED <<rnsVars, taskVars, link_id, next_frame, sent>>

(* send_on_link accepted the next chunk.                                   *)
SenderChunk ==
    /\ active # Idle
    /\ LET n == active.done + 1
           last == n = active.chunks
       IN  /\ sent' = [sent EXCEPT ![active.link] =
                          Append(@, [frame |-> active.id, n |-> n, last |-> last])]
           /\ active' = IF last THEN Idle ELSE [active EXCEPT !.done = n]
    /\ UNCHANGED <<rnsVars, taskVars, link_id, data_sender_buf, next_frame>>

(* send_on_link failed: the rest of the frame is given up, and link_id is  *)
(* cleared whatever link it holds by now.                                  *)
MaySendFail == link_state[active.link] # "up" \/ SendErrors

SenderErrorKeepsId ==
    /\ active # Idle
    /\ MaySendFail
    /\ active' = Idle
    /\ UNCHANGED <<rnsVars, taskVars, link_id, data_sender_buf, next_frame, sent>>

SenderError ==
    /\ active # Idle
    /\ MaySendFail
    /\ link_id' = None
    /\ active' = Idle
    /\ UNCHANGED <<rnsVars, taskVars, data_sender_buf, next_frame, sent>>

Sender == SenderTake \/ SenderChunk \/ SenderError

-----------------------------------------------------------------------------
Next ==
    \/ Rns \/ NodeStops
    \/ Start
    \/ EventTask
    \/ Wake \/ LookupFails \/ RetryFails \/ Retry
    \/ Enqueue
    \/ Sender

Spec == Init /\ [][Next]_vars

-----------------------------------------------------------------------------
(* Type invariant of the reconnect loop, the mux and the sender task.      *)
TypeOK ==
    /\ link_state \in [Links -> LinkStates]
    /\ node \in {"up", "gone"}
    /\ events \in Seq(Event)
    /\ phase \in Phases
    /\ attempt \in 0..MaxLinks
    /\ delay \in 0..MaxDelay
    /\ link_id \in {None} \cup Links
    /\ recv_buf \subseteq Links
    /\ data_sender_buf \in Seq(Frame)
    /\ \/ active = Idle
       \/ /\ active \in [id : 1..MaxFrames, chunks : 1..MaxChunks,
                         link : Links, done : 0..MaxChunks]
          /\ active.done < active.chunks
    /\ next_frame \in 0..MaxFrames
    /\ sent \in [Links -> Seq(Chunk)]

(* The dispatch loop matches LinkClosed { .. } and LinkData { .. } without *)
(* comparing the link: every such event it reads is nevertheless about the *)
(* link it dispatches for, so a late event of an old link neither resets   *)
(* the sessions of the new one nor feeds its buffer.                       *)
ClosedIsCurrent ==
    phase = "dispatch" /\ events # <<>> /\ Head(events).kind \in {"LinkClosed", "LinkData"}
        => Head(events).link = attempt

(* recv_buf is per mux, not per link: receive_data appends to whatever is  *)
(* there.  Bytes of two links never meet in it.                            *)
BufferOneLink ==
    phase \in {"dispatch", "clearing", "ended"} => recv_buf \subseteq {attempt}

Follows(c, d) ==
    IF c.last THEN d.n = 1 /\ d.frame = c.frame + 1
              ELSE d.n = c.n + 1 /\ d.frame = c.frame
Unbroken(s) ==
    /\ s # <<>> => s[1].n = 1
    /\ \A i \in 1..(Len(s) - 1) : Follows(s[i], s[i + 1])

(* run_link_sender: what is sent on one link is a run of consecutive       *)
(* frames, each with all its chunks in order; only the last may be cut     *)
(* short.  No frame is missing from the middle, and nothing follows a cut  *)
(* frame, although sends fail, link_id is cleared by two tasks and a frame *)
(* in progress outlives the link it started on.                            *)
FramesInOrder == \A l \in Links : Unbroken(sent[l])

(* The loop and the sender together keep the promise of LinkService.       *)
Seen == {l \in Links : link_state[l] \in {"up", "closed"}}
NewestUp == IF Seen = {} THEN None ELSE CHOOSE l \in Seen : \A m \in Seen : m <= l

LS == INSTANCE LinkService WITH
        latest <- NewestUp,
        live <- \E l \in Links : link_state[l] = "up",
        spent <- ~(Awaiting /\ attempt \in Seen),
        attached <- link_id
ImplementsLinkService == LS!Spec

-----------------------------------------------------------------------------
(***************************************************************************)
(* What makes the invariants inductive.                                    *)
(***************************************************************************)
OfLink(e) == e.kind # "PathUpdated"
Down(l) == link_state[l] \in {"failed", "closed"}

Wanted == phase \in {"starting", "waiting", "dispatch"}

(* Every event in rx is about the newest link, its close is the last one,  *)
(* and there are none while no link is wanted.                             *)
EventsMine == \A i \in 1..Len(events) : OfLink(events[i]) => events[i].link = attempt
CloseIsLast ==
    \A i \in 1..Len(events) : events[i].kind = "LinkClosed" =>
        /\ Down(attempt)
        /\ \A j \in (i + 1)..Len(events) : ~OfLink(events[j])
QuietWhenDown ==
    ~Wanted => /\ attempt # None => Down(attempt)
               /\ \A i \in 1..Len(events) : ~OfLink(events[i])
OldLinksDown ==
    /\ \A l \in Links : l > attempt => link_state[l] = "unused"
    /\ \A l \in Links : l < attempt => Down(l)
    /\ Wanted => attempt # None
    /\ attempt # None => link_state[attempt] # "unused"
    /\ node = "gone" => \A l \in Links : link_state[l] \notin {"pending", "up"}
EventsInv == EventsMine /\ CloseIsLast /\ QuietWhenDown /\ OldLinksDown

LinkIdInv ==
    /\ link_id # None => phase \in {"dispatch", "ended"} /\ link_id = attempt
    /\ phase = "start" => attempt = None

BufferInv ==
    IF phase \in {"dispatch", "clearing", "ended"} THEN recv_buf \subseteq {attempt} ELSE recv_buf = {}

Taken == next_frame - Len(data_sender_buf)     \* frames the sender has taken
Ends(s, c) == s # <<>> /\ s[Len(s)] = c
EndsWhole(s, id) == s # <<>> => s[Len(s)].last /\ s[Len(s)].frame = id

(* Frames are taken in the order of their ids.                             *)
ChannelInOrder ==
    /\ Len(data_sender_buf) <= next_frame
    /\ \A i \in 1..Len(data_sender_buf) : data_sender_buf[i].id = Taken + i

(* Nothing is sent on a link before the mux is attached to it.             *)
FreshLinks == \A l \in Links : l > attempt \/ (l = attempt /\ Awaiting) => sent[l] = <<>>

(* An attached link ends with the frame taken last.                        *)
IdleTail == active = Idle /\ link_id # None => EndsWhole(sent[link_id], Taken)

(* A frame in progress extends its own link, where the frame before it was *)
(* sent whole; a link attached meanwhile is still unused.                  *)
BusyTail ==
    active # Idle =>
        /\ active.id = Taken
        /\ active.link <= attempt
        /\ Awaiting => active.link # attempt
        /\ IF active.done = 0
           THEN EndsWhole(sent[active.link], Taken - 1)
           ELSE Ends(sent[active.link],
                     [frame |-> Taken, n |-> active.done, last |-> FALSE])
        /\ link_id \notin {None, active.link} => sent[link_id] = <<>>

SenderInv == ChannelInOrder /\ FreshLinks /\ IdleTail /\ BusyTail

(* A link being set up that came up has its LinkEstablished in rx, first   *)
(* of its events; one that did not has at most its LinkClosed there.       *)
EstablishedFirst ==
    \E i \in 1..Len(events) : /\ events[i].kind = "LinkEstablished"
                             /\ \A j \in 1..(i - 1) : ~OfLink(events[j])
SetupInv ==
    /\ Awaiting /\ attempt \in Seen => EstablishedFirst
    /\ Awaiting /\ attempt \notin Seen =>
          \A i \in 1..Len(events) : OfLink(events[i]) => events[i].kind = "LinkClosed"
    /\ phase = "dispatch" => attempt \in Seen
    /\ Seen # {} => \E l \in Seen : \A m \in Seen : m <= l

IInv ==
    /\ TypeOK /\ EventsInv /\ LinkIdInv /\ BufferInv
    /\ SenderInv /\ FramesInOrder /\ SetupInv

=============================================================================
