# A verification of rns-proxy

rns-proxy carries TCP connections and UDP packets over one Reticulum link per
client. This directory holds TLA+ modules of its concurrent core, the TLC
configurations that check them on small instances, and proofs checked by TLAPS.
Paths such as `mux.rs:94` are relative to `src/src/`.

## 1. The system

| Part | State it keeps | Operations | Correct when |
|---|---|---|---|
| RNS callbacks (`node.rs`) | an unbounded channel of `ProxyEvent` | one event per callback | events of a link arrive in order (assumed of RNS) |
| Client link (`client.rs`: `connect_rns`, `establish_link`, `dispatch_and_reconnect`) | the link id it waits for, the delay | take an event, reset, sleep, look up path and identity, create a link | it always gets back to dispatching; no event of an old link touches the new one; retries back off |
| Mux (`mux.rs`) | `link_id`, `sessions`, `next_sid`, `recv_buf`, each behind its own mutex | attach, reset, register, drop, dispatch, receive | what it holds is of one link |
| Sender task (`mux.rs`, `run_link_sender`) | a channel of five frames, the frame in progress | take a frame, read `link_id`, send its chunks, clear `link_id` after a failure | a link carries whole consecutive frames |
| Codec (`frame.rs`, `receive_data`) | the undecoded bytes | encode, cut into packets, decode | frames come out as they went in |
| SOCKS5 client sessions (`client.rs`) | one task and one inbox each | accept, handshake, CONNECT, reply | the application learns the outcome |
| Relay (`relay.rs`) | two tasks per session and end | read socket, send DATA; take a frame, write socket; CLOSE, drop | streams are prefixes, complete after a CLOSE, and both ends end |
| Server start-up (`server.rs`) | the identity file | load or generate and save, show the address, create the node | every start shows the same address |
| Server (`server.rs`) | one mux per link | open and drop muxes, CONNECT, resolve, filter, dial or bind, answer, relay | a session belongs to one link and id, reaches only what the filter allows, and every CONNECT is answered |
| UDP sessions (`relay.rs`, `client.rs`, `server.rs`, `udp_tunnel`) | two or three tasks per session and end, the application's port behind a mutex | read socket, send DATA; take a frame, write socket; watch the TCP connection; CLOSE, drop | datagrams keep their order, nothing follows the CLOSE, the mutex is released, sessions end with their link |
| Session ids (`mux.rs`) | `next_sid`, a table by id at each end | hand out, register, drop | an id stands for one connection at a time |
| Port forwarding (`forwarding.rs`) | one accept loop per port and protocol, all on one mux | accept, CONNECT to a port of the server's localhost, relay | a connection reaches the server port of its own tunnel |
| CONNECT payload (`frame.rs`) | none | encode, decode | decode gives what was encoded, and nothing for a payload cut short |
| Filter (`filter.rs`), `main.rs` | none | decide whether an address and port are allowed | the last matching rule decides |
| Announcing, parsing of the command line | | | not modelled |

How the parts interact: every callback of RNS becomes an event in one channel;
one task per process takes events from it and calls the mux (`receive_data`,
`dispatch`, `reset`). Sessions call the mux from their own tasks; all frames go
through the bounded channel to the sender task. The session table is the only
way a session hears of the world: a frame put in its inbox, or the inbox closed
because `reset` or `drop_session` removed its sender.

What is hard: link ids are read, kept across awaits and cleared by two tasks;
`reset` takes three locks in turn; frames queued for a lost link are sent on the
next one; `select!` aborts a task asynchronously; the CLOSE is sent by a third
task; channels fill up in both directions; the UDP relays' `select!` detaches its
tasks, which run on beside the CLOSE; ids and their tables outlive timeouts and
links; the server's loop may itself wait for the frame channel of one of its
links; a send may fail, or what was sent be lost, on a link that stays up; a start may be
cut short between two writes. `PROJECT.json` lists each of these
hazards at its line with the properties that cover it, or why none does.

## 2. The modules

`LinkService` is the abstract promise of the client's link layer: links come one
after another, and the mux is attached to each at most once. Whoever lets go of
a link, for whatever reason, never sends on it again.

`ClientLink` is the client's link in detail.

| Model | Code |
|---|---|
| `link_state`, `node`, `events` | RNS, whether its node runs, and the `ProxyEvent` channel (`node.rs`), which closes when the node ends |
| `phase`, `attempt`, `delay` | program counter and locals of `connect_rns`, `establish_link`, `dispatch_and_reconnect` |
| `link_id`, `recv_buf`, `data_sender_buf` | the fields of `MuxInner`; of `recv_buf`, the links whose bytes it holds |
| `active`, `sent` | the frame `run_link_sender` is sending, and per link the chunks it sent |
| `Start`, `Attached`, `SetupFails`, `SetupEnds` | `connect_rns`, `establish_link`; `SetupEnds` is its `None` arm |
| `ReceiveData`, `LinkLost`, `ResetDone`, `Discard`, `DispatchEnds` | the dispatch loop, which returns when the channel is closed; `reset` is two steps, since each of its locks is taken for itself |
| `Wake`, `LookupFails`, `RetryFails`, `Retry` | the reconnection loop |
| `Enqueue` | `send_frame` of any session |
| `SenderTake`, `SenderChunk`, `SenderError` | `run_link_sender` between two awaits |

The steps of the accept loop and of sessions do not read what `ResetDone` writes
here, so the second and third lock of `reset` are one step. That of `Tunnel`
separates `link_id` from the sessions, which other tasks do read.

`Tunnel` has one client, one server mux per link, and the sessions: accept loop,
handshake outcome, CONNECT and its answers, the relay's two tasks at each end,
CLOSE and `drop_session`. The client's mux (end 0) and the server's (ends
1..MaxLinks) are the same code and the same actions. A frame travels whole,
because `ClientLink` shows (and `ClientLinkProofs` proves) that links carry whole
frames in order, cut only at their end. The setup of a link is one step.
`tcp_tunnel` repeats the same accept loop, CONNECT and relay (`relay_forwarded_tcp`)
without handshake and reply, so its behaviours are among those of `Tunnel`. A read
is a number: the n-th read of an end's socket.

Of a frame that run_link_sender has taken, three things may become on a link that is
up: it arrives (`SenderSends`); the send fails and clears `link_id` (`SenderFails`); or
RNS loses it on a lossy path and nobody notices (`SenderLoses`, the repository's
README, line 7). `lossy` is a history variable, the links on which the last happened
while they were up: what their streams are good for nobody promises, so the properties
of data speak of the other links.

`ClientLink` and `Tunnel` are two views of one client. Both implement
`LinkService`: TLC checks it on an instance, and it is proved for every one.

`Reassembly` has the bytes: `Frame::encode`, the cut into packets, `recv_buf` and
the loop around `Frame::decode`. Header fields have one byte each; a packet is
smaller than a header, so every cut occurs. The link may lose packets, as the
repository's README says lossy paths do. `stream` (all bytes sent), `ends` (where
each frame ends in them) and `taken` (the bytes taken in before the first loss) are
history variables.

`UdpRelay` is one UDP session over one link: CONNECT and its answers, and the
relays of both ends. `kind` says whether the client's end is a SOCKS5 association
(`relay_bidirectional_udp_client_side`, with the port mutex and the watcher of
the TCP connection) or a forwarded port (`relay_forwarded_udp`). `tasks` are the
relay tasks still running, which outlive `pc = "relay"`, since dropping a
`JoinHandle` detaches; `holding` is the reader's datagram, `"sending"` once the
mutex is held. `closed_after` is a history variable: the datagrams queued before
an end's CLOSE; `close_lost` is another, the ends whose CLOSE was lost on a link that was
up. The link, mux and event loop are those of `Tunnel`, for one link: `attached` is an
end's `link_id`, and a frame arrives, fails (`Fails`) or is lost (`LosesFrame`).

`Filter` is `allowed_ip`, one rule per step, over the rule lists that `main.rs`
builds for `server` and `forward` and over arbitrary lists. An address filter is
the set of addresses it accepts. `FilterProofs` holds its proofs.

`ConnectPayload` is the payload of CONNECT byte by byte, with its true widths: a
length of one byte, a port of two, the settings. Which bytes are UTF-8 is a
constant. `Sessions` extends it, and `SessionsProofs` begins with its proofs.

`ConnectService` is the abstract promise of a forwarded connection. A TCP connection is
told that it is connected only if the server is connected to the target it asked for. A
UDP one, whose target the server ignores (`server.rs:273`), is told so only if the server
has bound a socket for it, connected to nothing. The server connects to nothing that was
not asked for.

`Sessions` is who a session id stands for, at both ends, for the connections of
`rns-proxy connect` over successive links.

| Model | Code |
|---|---|
| `options`, `TunnelsOf` | the options `-t`, `-u`, `-b` and the tunnels `run_client_forward` starts for them |
| `loop`; `Accepts`, `TakesId`, `Registers` | `tcp_tunnel` and `udp_tunnel`: `is_connected`, `next_session_id` and `register_session` are awaited one after the other, so the loops interleave between them |
| `next_sid`, `sessions`, `data_sender_buf`, `link_id` | the fields of the client's `MuxInner` |
| `pc`, `inbox`, `result`; `Connects`, `Receives`, `Fails`, `Closes`, `Drops` | a connection's task: `connect_tcp_server_side` or `udp_bind_connect`, the relay, CLOSE and `drop_session` |
| `server_sessions`, `server_pc`, `server_inbox`, `target` | the server's table per link and its session tasks |
| `socket`; `DialSucceeds`, `Binds`, `DialFails` | what the server's socket is connected to: the target (TCP) or nothing (UDP); resolving, filtering and dialing, or binding, that fails |

What `Sessions` merges: a link comes up in one step (`ClientLink` has the rest);
a send may fail at any time, which includes every failure `ClientLink` and
`Tunnel` have, and every frame may be lost on the way; the channel of the server's mux, which serves one link only, is
part of the delay of `rx`; at the server the last frame and `drop_session` are
one step, because only a later CONNECT with the same id reads the table there; DATA
is left out, because it is dispatched exactly as CLOSE is.

`Server` is the server process: its start, and one event loop for several links
whose clients number their sessions alike.

| Model | Code |
|---|---|
| `identity_file`, `phase`, `identity`, `shown` | `run_server` up to the event loop; `shown` is a history variable, the addresses in the log |
| `SaveBegins`, `SaveEnds`, `SaveFails`, `Crashes` | `save_identity`, which may leave part of the file; the death of the process at any moment |
| `rx`, `link_muxes`, `attached`, `sessions`, `data_sender_buf` | the `ProxyEvent` channel, the map of muxes, and of each mux `link_id`, the table and the channel |
| `OpensMux`, `RemovesMux`, `StartsSession`, `RefusesPayload`, `Dispatches` | the arms of the event loop |
| `Delivers`, `Fails` | the sender task of each mux; a send may fail on a link that is up, which silences the mux for good |
| `pc`, `inbox`, `addr`, `contacted`, `received` | a session's task: `handle_server_session_tcp` and `_udp`, and the writing half of their relays |
| `asked`, `sent`, `closed`, `told` | the clients: what of their CONNECTs, DATA and CLOSEs arrives, and the answers sent on their links |

What `Server` merges: a packet's frames are events of their own, since the loop
handles them one by one; a task that waits for room in the channel waits before
its step; a task that leaves clears what it kept, since nobody reads it any more.
Addresses that were generated but never shown are one and the same value. A crash
begins the numbers of links and sessions anew, so that crashes need no bound.
`Resolves` takes any address for a name, each time anew, and passes it only if it
is allowed; the rules themselves are `Filter`'s. A packet that
RNS loses on the way to the server is as if not sent; one that it loses on the way to a
client is no concern of the server, which hears of neither.

`MCClientLink`, `MCTunnel`, `MCUdpRelay` and `MCServer` add the fairness, the liveness
properties and the statements the code does not keep; `MCSessions` gives `Sessions`
its constants.

`ClientLinkProofs`, `TunnelProofs`, `SessionsProofs`, `ServerProofs`, `UdpRelayProofs`,
`ReassemblyProofs` and `FilterProofs` hold the proofs of the modules they are named
after, and `Queues` what all of them need of channels. The inductive invariant `IInv` of
a module stands at the end of that module, so that TLC can check it as well; those of
`Tunnel` and `Reassembly`, which quantify over all numbers, begin `TunnelProofs` and
`ReassemblyProofs`.

## 3. The runs

Each cfg gives the constants; names are `<module>_<run>.cfg`.

| Run | Instance | Shows |
|---|---|---|
| `MCClientLink_reconnect` | 3 links, so that a reconnection itself may fail and be lost; 3 frames of 1–2 chunks, channel of 1, failing sends, a node that may end | `TypeOK`; `ClosedIsCurrent` and `BufferOneLink`: though the dispatch loop and `recv_buf` ignore link ids, nothing of an old link reaches the new one; `FramesInOrder`; `ImplementsLinkService`; `ReconnectCompletes` |
| `MCClientLink_backoff` | 2 links | violates `BackoffGrows` (finding 1) |
| `MCClientLink_stale` | 2 links, sends fail only on links that are down | violates `IsConnectedTellsLink` (finding 2) |
| `MCTunnel_safety` | 2 links, 1 session, 1 read, channels of 1, failing sends, lost packets | `TypeOK`; `RelayOnCurrentLink` and `ImplementsLinkService`, with the accept loop racing `reset`; `NothingDiscarded` |
| `MCTunnel_ends` | 1 link, 1 session, 2 reads, channels of 1, failing sends, lost packets | `StreamPrefix`, `CompleteOnClose`; `ServerRelayEnds`, `ClientRelayEnds` |
| `MCTunnel_refused` | 1 link, 1 session | violates `RefusedIsReplied` (finding 3) |
| `Reassembly_frames` | 3 frames of up to 2 payload bytes in packets of 2 bytes, at most one packet lost | `TypeOK`; `ReceivedPrefix`, `NothingHeldBack`, `ExactBeforeLoss` |
| `MCUdpRelay_session` | 2 datagrams, each from either end, channels of 1, both kinds, link lost anywhere, failing sends, lost packets | `TypeOK`, `DatagramsInOrder`; `NothingAfterClose`: late DATA is sent but never delivered; `PortIsReleased`, `ClientSessionEnds` |
| `MCUdpRelay_orphan` | 2 datagrams, each from either end, channels of 1 | violates `ServerStopsWithLink` (finding 4) |
| `MCSessions_ids` | `-t 443:8443` with 3 connections or `-b 443:8443` with 2, two at a time; 2 links, 2 ids, channel of 1, failing sends, lost frames | `TypeOK`; `OwnFrames`, `EntriesAreKept`: late answers and frames of an old link reach only their own connection or one a whole round of ids apart; `LeaksOnlyFailures`; `ImplementsConnectService`, with the real payload on the way |
| `MCServer_restarts` | 2 links, 2 CONNECTs of any kind, 1 DATA, channels of 1, 2 addresses of which 1 is allowed, failing sends, crashes without bound | `TypeOK`; `AddressStable`; `ReachesOnlyAllowed`, also when names resolve differently each time; `OwnData`; `ConnectAnswered`; `LinksForgotten` |
| `Filter` | 3 addresses (loopback, private, other), 2 ports, up to 2 ports per option, arbitrary lists of up to 2 rules | `IInv`, `LastMatchDecides`, `FlagsBlock`, `OnlySpecifiedPorts` |

The bounds. Two links are a lost one and its successor; nothing in the code
distinguishes a third, except a reconnection that is itself lost, which is why
`MCClientLink_reconnect` has three. A channel of one or two is full as often as
one of five is, and in `MCTunnel_safety` it fills while frames are also in the
sender's hands and in flight. Three frames of two chunks give a frame sent
whole, one cut and one queued behind. Sessions share only the frame channel, the
sender and the table; one session exercises every step of those, including being
cleared while it is registered. Two sessions give TLC more than seven million
states before a quarter of the search is done, so what holds of the data of
several is left to the proofs (section 6), and `Sessions` has several of them without data.
Likewise of two links with two reads: an order of reads needs one link
(`MCTunnel_ends`), a change of links no more than one read (`MCTunnel_safety`), and that
streams stay apart over any number of links is proved. Two datagrams are what an order needs; a channel of one makes the
reader wait for room with the mutex held. One address of each class and two
rules give every overlap of two rules; longer lists are the business of the
proof. A cap of three seconds has the same two regimes as one of thirty: growing
and capped.

In `MCSessions_ids` two ids and three connections make the ids wrap once, and two
links make frames and answers outlive a reset. Two tunnels, the TCP and the UDP one
of `-b`, interleave their accept loops; since two tunnels and three connections are
too many states, `MaxWork` bounds tunnels and connections together. With `MaxOpen`
at two, the third connection begins when one of the first two has ended: its id is
that of the first, which is in use still, or in the table still, or in frames. In `MCServer_restarts` two links with two CONNECTs make both
clients use the same id, or one client fill the channel of one with the
answers of two sessions; one DATA frame is enough to be misdirected.

Deadlock is not checked: `ClientLink` stops when the first link cannot be had
(`connect_rns` returns `None`) or the node has ended, `Server` when its node cannot be created, and all
modules stop when their bounds are used up. The liveness runs say that nothing else stops.

## 4. Fairness

`MCClientLink!FairSpec`: tokio runs a task that can run, a sleep ends, and an
answer to a created link arrives (weak fairness of the tasks and of
`LinkAnswers`; RNS, while its node runs, closes a link that it cannot establish). That a lookup or
`create_link` does not fail for ever is strong fairness of `Retry`, the one
assumption about the network: without it no reconnection need ever happen.
`ReconnectCompletes` asks for no reconnection once the node has ended.

`MCTunnel!FairSpec`: weak fairness of each end's event loop and sender task, and
of each session's own steps. tokio's bounded channel queues its waiting senders,
so a session that waits for room gets it. Nothing is assumed of the links, the
applications or the targets: sockets need never have data, links need not be
lost, and every send may fail or be lost on a link that stays up. Neither end hears of
that, so an end need not follow the other when the CLOSE is what got lost. The two
properties except exactly this (`CloseIsLost`: the link is up, the CLOSE was queued, it is
nowhere on its way any more, and either RNS lost a packet of the link or the sender's mux
has let go of it), and `ServerRelayEnds` the client's mux having left the link.

`MCUdpRelay!FairSpec`: the same for one session; sockets need never deliver a
datagram, the TCP connection need not close, and binding the server's socket
succeeds or fails. `ClientSessionEnds` has the same exception for the server's CLOSE;
`PortIsReleased` has none.

`MCServer!FairSpec`: the same for the server's event loop, for each sender task and
for each session's task; resolving, dialing and binding end, one way or the other.
Nothing is assumed of start-up, clients, links or sockets. `ConnectAnswered` speaks of
links that stay up (a crash takes them down) and on which no send failed: after one
that did, the mux drops every answer, as `mux.rs:94` makes it. `LinksForgotten` has no
exception.

## 5. What the code does not keep

1. `BackoffGrows`: the delay starts at 0 and a failed path or identity lookup
   doubles it (`client.rs:301`, `311`); only a failed link adds one. The
   repository's README promises exponential backoff.
2. `IsConnectedTellsLink`: a send that fails on the old link after the
   reconnection clears the new link's id (`mux.rs:94`). The client then refuses
   connections until that link happens to close.
3. `RefusedIsReplied`: an application whose CONNECT was refused gets no SOCKS5
   reply (`client.rs:434`); the arm that would send it is unreachable.
4. `ServerStopsWithLink`: the loss of the link does not end the server's UDP
   relay, whose session keeps the mux and its own table entry alive
   (`server.rs:158`); the comment at `relay.rs:312` says it does.

Two more sentences of the source do not describe the code, and have no run of their own:

- `filter.rs:160` says "also we don't currently discriminate against tcp or udp. that's a
  todo for later". `allowed_ip` does (`filter.rs:136`), the test `port_type_is_enforced`
  (`filter.rs:183`) wants it to, and `OnlySpecifiedPorts` shows what it amounts to: `forward`
  allows a port for exactly the protocols it was given for. The comment is out of date.
- `mux.rs:234` says that after a damaged frame the rest is discarded "and wait for the next
  frame boundary". The code clears its buffer (`mux.rs:242`) and goes on decoding with
  the next packet, which need not begin a frame. `Reassembly` has this; its properties
  only promise the frames that had arrived before the loss.

Facts that are worth knowing, and that nothing in the repository promises otherwise, or
only loosely:

- A partly written identity file makes every later start panic
  (`server.rs:57`): the address stays the one that was shown, but the server does
  not come back by itself.
- The module comments call session ids unique (`mux.rs:4`). When ids wrap, a new
  connection takes over the table entry of one that still lives with the same id. It
  takes 2^32 connections.
- A send that fails on a link that stays up clears `link_id` (`mux.rs:94`): that end drops
  every later frame, CLOSE and answers included, until there is a new link, and the other
  end is not told. A packet lost on the way is not noticed at all (the repository's
  README, line 7, says that streams are corrupted by it).
- When the node ends, the dispatch loop returns (`client.rs:270`) without resetting the
  mux: `is_connected` stays true until a send fails, and relays are not told.

## 6. What is proved

`ClientLinkProofs`, for every value of the constants that meets
`ClientLinkAssumption`: `TypeCorrect`, `EventsAreCurrent`, `BufferIsOfOneLink`
and `FramesAreUnbroken`, all from `Invariance`, `Spec => []IInv`.

None of the four is inductive alone. That a link event at the head of the
channel is about the current link needs to know all of the channel: every link
event in it is about the newest link, its close is the last of them, and there
are none while no link is wanted (`EventsInv`). That in turn rests on a new link
being created only when the previous one is closed or failed and its close was
read. `LinkIdInv` ties `link_id` to that link, `BufferInv` adds that the buffer
is empty outside the dispatch phase.

`FramesInOrder` needs to know where the sender is. Frames leave the channel in
the order of their ids (`ChannelInOrder`). While the sender is idle, an attached
link ends with the frame taken last, whole (`IdleTail`): were it otherwise, that
frame failed, and the failure cleared `link_id`. While the sender is busy, its
frame extends its own link, and a link attached meanwhile is still unused
(`BusyTail`, `FreshLinks`), so that the stale error of finding 2 costs the new
link its id but never a frame out of order.

Assumptions: `ClientLinkAssumption` (constants are natural numbers, capacities
and chunk counts positive). Order of a link's events in the channel is not an
assumption of the proof but part of the external actions of `ClientLink`.

`LinkServiceIsImplemented` (`ClientLinkProofs`): the steps of the reconnect loop and of
the sender task are steps of `LinkService` or change nothing it knows. `Attached` is its
`Attach`, `LinkComesUp` its `Establish`, every clearing of `link_id` its `Detach`. What `IInv`
lacks for that is what waits in the channel while a link is set up: of a link that came
up, its `LinkEstablished` is the first event; of one that did not, there is only its
close, or nothing at all once the node has ended (`SetupInv`). Otherwise a setup could end with a link that had been attached.

`TunnelProofs`, for any number of links, sessions and reads and any capacity
(`TunnelAssumption`), with sends that fail and packets that are lost at any time: all of
the safety properties of `MCTunnel_safety` and `MCTunnel_ends`, from `Invariant`,
`Spec => []IInv`. `StreamPrefix`, `CompleteOnClose` and `NothingDiscarded` are about the
sessions of links that lost no packet while they were up (`Joined`); nothing is assumed of
the other links a socket's peers may be on. `IInv` is a conjunction of layers, each resting
on those before it.

- `LinkInv`: a link's events begin and end it, at both ends; the client's mux and what
  its sender has in hand are of the newest link or of none. `TunnelImplementsLinkService`
  follows. `FreshInv`: nothing has happened on a link the client was not attached to
  yet, and nothing at the server before it opened the link's mux. Without it a frame that
  the sender kept from a lost link could count for the next one.
- `ConnectInv`: a session has one CONNECT, which is in one place, and at most one link
  serves it; while the client has it registered, that is the newest link. With `TasksInv`
  (who relays is served) this is `RelaysAreCurrent`.
- `FramesInv`: wherever a frame is, its sender has done what it says (`Sound`): a CLOSE is
  of an end that stopped, a datum of a read that was made.
- `FlowInv` follows one direction of one session, on a link that lost nothing while up.
  The answer to CONNECT is number 0 and the reads of the peer's socket are 1, 2, ...; what the socket was given, the inbox, the
  link, the frame in `send_on_link` and the channel hold consecutive intervals of these
  numbers, in this order (`Chain`). Three things break it on purpose: the receiver takes
  no more frames (`Gone`); the link is down or the sender's mux was detached from it
  (`Broken`), after which what still arrives is a beginning of what was under way
  (`Starts`); and the relay lost the chunk that its aborted reader held (`Lossy`). A CLOSE
  comes after everything read, if the socket reached its end (`ReadAll`).
- `WrittenInv` and `ClosedInv` record what this means for the socket, since the peer may
  read on after the relay ended: `StreamsArePrefixes`, `ClosedIsComplete`. `NoFrameDiscarded`
  is `FlowInv` at the head of an inbox.

The proof of `FlowInv` is by what a step does to a session (`Moves`, thirteen cases), to the
link, to the sender's hands or to the head of a link's events. TLC checked `IInv` on the
instances of `MCTunnel_safety` and `MCTunnel_ends`, with `Nat` in `FlowInv` cut to the numbers that occur there.

`FilterProofs`, for all sets of addresses and ports, all lists of rules and any
number of ports per option: `LoopInvariant`, that after `n` rules the verdict is
what the last match among them says; `LastRuleDecides` from it; and from the
shape of the lists that `main.rs` builds (`ServerRulesShape`, `PortRulesMatch`)
`FlagsAreKept` and `ForwardIsExact`. The rules of `server` after the first all
exclude, so an address is allowed if none of them matches; those of `forward`
all include, so one match suffices. The assumption used is `FilterAssumption`;
that private and loopback addresses are disjoint is not needed.

`ReassemblyProofs`, for all frames, every size of packets and any number of losses:
`TypeCorrect`, `FramesInOrder`, `AllFramesReturned`, `LossSparesTheArrived`, from `Invariant`.

- `FramesInv`: each frame stands in the stream of bytes where the one before it ends, its
  header first. That a payload may look like a header is no matter: only where a frame
  begins is its header read.
- `PacketsInv`: without loss, the packets on their way continue the stream where
  `receive_data` stopped taking it (`Cut`), and end where it ends. `ChunksProps` shows
  this of `chunks(LINK_MDU)`, `CutJoin` and `CutTail` of sending and taking.
- `TakenInv`: `recv_buf` begins where the last frame returned ends and holds the stream up
  to the first loss, and perhaps more; or, after a loss, all that had arrived whole has
  been returned. `WholeFrame` and `NoWholeFrame` are the two cases of `Frame::decode` on
  such a buffer: the next frame has arrived, and is decoded as it was sent; or it has not,
  and then only a loss can make `decode` return or reject anything.
- `StopInv`: the loop of `receive_data` ends only when no frame is left to decode, which is
  what `NothingHeldBack` and `ExactBeforeLoss` need of a state between two packets.

`ConnectPayload`, for every host of up to 255 bytes that is UTF-8, every
port and both protocols: `RoundTrip`, `decode_connect_payload` gives back what
`encode_connect_payload` took; `TruncatedIsRejected`, a payload that was cut
anywhere, the settings byte at its end included, does not parse. What is UTF-8 is the
constant `IsUtf8`, of which nothing is assumed. A longer host would have its
length cut to one byte; SOCKS5 cannot carry one.

`SessionsProofs`, for every command line, number of links, connections and ids and
every capacity that meet `SessionsAssumption`: the five properties of the run
`MCSessions_ids`, from `Invariant`, `Spec => []IInv`.

- `IdsInv`: connection `c` has the id `c % SidSpan`, and no connection has one before
  `next_session_id` gave it. All else about ids is arithmetic from here.
- `FramesInv`: every frame and answer, wherever it is, in the channel, on the link, in
  an inbox, has the id of the connection that it was made for (`Genuine`), and what is
  in an inbox or stands in a table under an id is of a connection with that id.
  `OwnFrames` and `EntriesAreKept` follow; they would fail if a frame of an old link
  could carry an id that means another connection, which `drop_session` of a late
  task and `reset` make plausible.
- `AskInv`, `AnswerInv`: each connection sends one CONNECT, it is served once, and a
  CONN_OK on its way is of a server task that has its socket. `SocketInv`: that socket is
  connected to the target the server read, for TCP, and to nothing for UDP.
- `ConnectServiceIsImplemented` maps `Connects` to the service's `Ask`, the server's
  `DialSucceeds` to `Reach` and its `Binds` to `Bind`, the reading of CONN_OK to `Connected` and `Fails` to `Failed`;
  all other steps stutter. The target that the server reads is the one that was
  encoded, by `RoundTrip`.
- `OnlyFailuresLeak` is inductive with the ids alone.

`ServerProofs`, for every number of links, sessions, addresses and data and every
capacity that meet `ServerAssumption`: `TypeCorrect`, `AddressIsStable`, `ReachIsAllowed`,
`DataStaysOwn`.

- An address is shown only when the file holds its identity whole, and a whole file
  is never written again: that is all `AddressStable` needs, but for any sequence of
  crashes and failed saves.
- `ReachesOnlyAllowed`: a session keeps an address across the await of the resolver
  and until it dials; the invariant says of the kept address what the property says
  of the contacted one.
- `OwnData` needs the order of things: a client asks for its sessions one after the
  other (`NumberInv`); a session has one CONNECT and no task before it is read
  (`ConnectInv`); one outcome is sent to its client, and success only by a task
  that connected (`AnswerInv`); data is sent after that, and what was received, what is in
  the inbox and what is on its way increase in this order (`DataInv`).

`UdpRelayProofs`, for any number of datagrams and any capacity: `TypeCorrect`,
`DatagramsKeepOrder`, `ClosedIsLast`. Each of the two directions runs through a channel, a
link, an inbox and a socket, and every step of the session does one of seven things to
a direction (`Flows`): nothing, put a frame in, move one on, take one out, use one up,
throw the inbox away, lose the link. The proofs are by these seven cases.

- `OrderInv`: there are bounds that separate the datagrams delivered, in the inbox, on
  the link and in the channel, each increasing for itself.
- `CloseInv`, of ends whose CLOSE was not lost on a link that was up: a datagram sent after the CLOSE is behind it in its queue; or the CLOSE is
  further ahead; or the datagram cannot get ahead, since the link is down, the sender's
  mux let go of it or the peer takes no more frames. That a peer which stopped taking frames never takes any again
  (`ShutStays`) needs that no second CONNECT reaches it (`ConnectInv`), and that its own
  tasks run only after the first (`StartedInv`).

TLC checked each `IInv` before its proof: that of `ClientLink` on two links and three
frames, those of `Sessions`, `Server`, `UdpRelay` and `Reassembly` on the instances of
their runs, the offsets that `PacketsInv` asks for given by the lengths of the packets.
The assumptions are the `ASSUME` of each module, which only say that constants are
numbers or sets of the right kind.

Only model-checked: the liveness properties, since no prover here reasons about
fairness. Every invariant and action property that a passing run checks is proved.

## 7. What is not modelled

- The two-hourly announce of the server: it reads nothing the rest writes.
- The polling inside a path lookup (`ensure_path`, `client.rs:546`): `ClientLink` has
  a lookup that ends with or without an answer.
- Parsing of arguments, logging, the examples.
- SOCKS5 bytes (the UDP header among them), DNS, TCP: libraries. RNS appears as the external actions of
  each module: events of a link in order, its close last, nothing after it.
- What a receiver makes of the rest of a frame whose packet was lost is in `Reassembly`
  only. Elsewhere such a frame is missing whole, and what the rest might be misread as is
  left out. `Tunnel` says nothing of the data of such links; `UdpRelay` (`DatagramsInOrder`,
  `NothingAfterClose`) and `Sessions` do, and so only where what is lost is whole frames:
  those of `Sessions` fit into a packet, datagrams need not.
- Memory: inboxes are unbounded in the code and in the models (`mux.rs:154`).

## 8. Plan

Every safety property of the passing runs is proved. Hazards without a property are
inboxes without bound, the empty datagram that ends a UDP session, what is decoded after
a lost packet, the CLOSE or answer that is lost on a link that stays up, and TCP sessions
of the server that outlive their link; the notes in `PROJECT.json` say why. Beyond that the
project is kept in step with the code.
