--------------------------- MODULE ConnectPayload ---------------------------
(***************************************************************************)
(* The payload of a CONNECT frame: one byte with the length of the host,   *)
(* the host, the port big-endian, and a settings byte whose top bit says   *)
(* UDP.  A string is the sequence of its bytes.                            *)
(***************************************************************************)
EXTENDS Naturals, Sequences

CONSTANT IsUtf8(_)   \* what String::from_utf8 accepts

Byte == 0..255
U16 == 0..65535
UdpBit == 128
Settings(udp) == IF udp THEN UdpBit ELSE 0

LittleEndian(port) == <<port % 256, port \div 256>>
BigEndian(port) == <<port \div 256, port % 256>>

(* `h.len() as u8` keeps the low byte of the length.                       *)
HostLen(host) == Len(host) % 256

encode_connect_payload(host, port, udp) ==
    <<HostLen(host)>> \o host \o BigEndian(port) \o <<Settings(udp)>>

Invalid == [host |-> <<>>, port |-> 0, udp |-> FALSE, valid |-> FALSE]
Parsed(host, port, udp) == [host |-> host, port |-> port, udp |-> udp, valid |-> TRUE]

Host(data) == SubSeq(data, 2, 1 + data[1])
LongEnough(data) == data # <<>> /\ Len(data) >= 1 + data[1] + 2 + 1

decode_connect_payload(data) ==
    IF LongEnough(data) /\ IsUtf8(Host(data))
    THEN LET n == data[1]
         IN  Parsed(Host(data), data[n + 2] * 256 + data[n + 3], data[n + 4] >= UdpBit)
    ELSE Invalid

=============================================================================
