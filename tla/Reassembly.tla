----------------------------- MODULE Reassembly -----------------------------
(***************************************************************************)
(* Frames over a link that carries packets: Frame::encode, the split into  *)
(* LINK_MDU-sized chunks (run_link_sender), the receiver's recv_buf and    *)
(* the loop of receive_data around Frame::decode.                          *)
(*                                                                         *)
(* The header has one byte each for type, session id and payload length    *)
(* where the code has one, four and two: the widths play no part, since no *)
(* payload the program builds reaches 2^16 bytes.  The link is external:   *)
(* packets arrive in order, and up to MaxLost of them are lost.            *)
(***************************************************************************)
EXTENDS Naturals, Sequences

CONSTANTS
    Types,         \* the type bytes used
    SessionIds,    \* the session ids used
    PayloadBytes,  \* the payload bytes used
    MaxPayload,    \* bound: bytes in a payload
    MaxFrames,     \* bound: frames sent
    LINK_MDU,      \* bytes in a chunk
    MaxLost        \* bound: packets the link loses

FrameTypes == 1..5                \* FrameType::from_u8
HDR_SIZE == 3

ASSUME ReassemblyAssumption ==
    /\ Types \subseteq FrameTypes
    /\ SessionIds \subseteq Nat
    /\ PayloadBytes \subseteq Nat
    /\ MaxPayload \in Nat
    /\ MaxFrames \in Nat
    /\ LINK_MDU \in Nat \ {0}
    /\ MaxLost \in Nat

VARIABLES
    frames,     \* the frames sent so far
    packets,    \* the chunks on their way
    recv_buf,   \* MuxInner.recv_buf
    decoding,   \* receive_data is in its loop
    received,   \* the frames receive_data returned
    lost,       \* packets lost so far
    stream,     \* all bytes sent so far
    ends,       \* per frame sent, where it ends in stream
    taken       \* the bytes receive_data was given before the first loss

vars == <<frames, packets, recv_buf, decoding, received, lost, stream, ends, taken>>

Payloads == UNION {[1..n -> PayloadBytes] : n \in 0..MaxPayload}
Frame == [type : Types, sid : SessionIds, payload : Payloads]

Init ==
    /\ frames = <<>>
    /\ packets = <<>>
    /\ recv_buf = <<>>
    /\ decoding = FALSE
    /\ received = <<>>
    /\ lost = 0
    /\ stream = <<>>
    /\ ends = <<>>
    /\ taken = 0

-----------------------------------------------------------------------------
Encode(f) == <<f.type, f.sid, Len(f.payload)>> \o f.payload

(* data_frame.chunks(LINK_MDU): all full but the last.                     *)
FullChunks(b) ==
    [i \in 1..(Len(b) \div LINK_MDU) |-> SubSeq(b, (i - 1) * LINK_MDU + 1, i * LINK_MDU)]
Chunks(b) ==
    [i \in 1..((Len(b) + LINK_MDU - 1) \div LINK_MDU) |->
        SubSeq(b, (i - 1) * LINK_MDU + 1,
                  IF i * LINK_MDU < Len(b) THEN i * LINK_MDU ELSE Len(b))]

(* Frame::decode: the header must be complete and its type known before    *)
(* the payload's length is looked at.                                      *)
HasHeader(b) == Len(b) >= HDR_SIZE
AnyType(b) == TRUE
KnownType(b) == b[1] \in FrameTypes
PayloadOnly(b) == b[3]
Total(b) == HDR_SIZE + b[3]
FrameOverfull(b) == HasHeader(b) /\ KnownType(b) /\ Len(b) > Total(b)
FrameReady(b) == HasHeader(b) /\ KnownType(b) /\ Len(b) >= Total(b)
DecodingFailed(b) == HasHeader(b) /\ ~KnownType(b)
Decoded(b) == [type |-> b[1], sid |-> b[2], payload |-> SubSeq(b, HDR_SIZE + 1, Total(b))]
Drained(b) == SubSeq(b, Total(b) + 1, Len(b))

-----------------------------------------------------------------------------
SendFrame ==
    /\ Len(frames) < MaxFrames
    /\ \E f \in Frame :
          /\ frames' = Append(frames, f)
          /\ packets' = packets \o Chunks(Encode(f))
          /\ stream' = stream \o Encode(f)
          /\ ends' = Append(ends, Len(stream'))
    /\ UNCHANGED <<recv_buf, decoding, received, lost, taken>>

Lose ==
    /\ lost < MaxLost
    /\ packets # <<>>
    /\ packets' = Tail(packets)
    /\ lost' = lost + 1
    /\ UNCHANGED <<frames, recv_buf, decoding, received, stream, ends, taken>>

(* receive_data holds recv_buf while it decodes, so it takes no packet     *)
(* before its loop has ended.                                              *)
ReceiveData ==
    /\ ~decoding
    /\ packets # <<>>
    /\ recv_buf' = recv_buf \o Head(packets)
    /\ packets' = Tail(packets)
    /\ decoding' = TRUE
    /\ taken' = IF lost = 0 THEN taken + Len(Head(packets)) ELSE taken
    /\ UNCHANGED <<frames, received, lost, stream, ends>>

Extract ==
    /\ decoding
    /\ FrameReady(recv_buf)
    /\ received' = Append(received, Decoded(recv_buf))
    /\ recv_buf' = Drained(recv_buf)
    /\ UNCHANGED <<frames, packets, decoding, lost, stream, ends, taken>>

(* MoreDataRequired leaves the buffer, DecodingFailed empties it.          *)
Stop ==
    /\ decoding
    /\ ~FrameReady(recv_buf)
    /\ decoding' = FALSE
    /\ recv_buf' = IF DecodingFailed(recv_buf) THEN <<>> ELSE recv_buf
    /\ UNCHANGED <<frames, packets, received, lost, stream, ends, taken>>

Next == SendFrame \/ Lose \/ ReceiveData \/ Extract \/ Stop

Spec == Init /\ [][Next]_vars

-----------------------------------------------------------------------------
(* Type invariant; receive_data returns no frame of an unknown type.       *)
Bytes == Seq(Nat)
TypeOK ==
    /\ frames \in Seq(Frame)
    /\ packets \in Seq(Bytes)
    /\ recv_buf \in Bytes
    /\ decoding \in BOOLEAN
    /\ received \in Seq([type : FrameTypes, sid : Nat, payload : Bytes])
    /\ lost \in 0..MaxLost
    /\ stream \in Bytes
    /\ ends \in Seq(Nat)
    /\ taken \in Nat

(* Without loss, receive_data returns the frames that were sent, in order, *)
(* whatever the chunk boundaries cut and whatever the payloads look like.  *)
ReceivedPrefix ==
    lost = 0 => /\ Len(received) <= Len(frames)
                /\ \A i \in 1..Len(received) : received[i] = frames[i]

(* Without loss, nothing is held back: once the last packet is taken in,   *)
(* every frame has been returned and recv_buf is empty.                    *)
NothingHeldBack ==
    lost = 0 /\ packets = <<>> /\ ~decoding => received = frames /\ recv_buf = <<>>

(* Whatever is lost later, and wherever a damaged frame makes receive_data *)
(* drop its buffer: the frames that had arrived whole before the first     *)
(* loss have been returned, unchanged and in order.                        *)
ExactBeforeLoss ==
    ~decoding => \A i \in 1..Len(frames) :
                     ends[i] <= taken => Len(received) >= i /\ received[i] = frames[i]

=============================================================================
