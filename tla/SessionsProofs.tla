--------------------------- MODULE SessionsProofs ---------------------------
(***************************************************************************)
(* Sessions for every set of command lines, every number of links and      *)
(* connections, every number of session ids and every channel capacity:    *)
(* its invariants, and that it implements ConnectService.  First, what     *)
(* encode_connect_payload and decode_connect_payload do for every host,    *)
(* port and protocol.                                                      *)
(***************************************************************************)
EXTENDS Sessions, Queues, FiniteSetTheorems, FunctionTheorems

-----------------------------------------------------------------------------
(* The bytes of two payload parts put together: encode appends to buf.     *)
LEMMA Appended ==
    ASSUME NEW a \in Seq(Byte), NEW b \in Seq(Byte)
    PROVE  /\ a \o b \in Seq(Byte)
           /\ Len(a \o b) = Len(a) + Len(b) /\ Len(a) \in Nat /\ Len(b) \in Nat
           /\ \A i \in 1..Len(a) : (a \o b)[i] = a[i]
           /\ \A i \in 1..Len(b) : (a \o b)[Len(a) + i] = b[i]
  OBVIOUS

(* The one-byte and two-byte parts around the host.                        *)
LEMMA OneByte ==
    ASSUME NEW x \in Byte
    PROVE  <<x>> \in Seq(Byte) /\ Len(<<x>>) = 1 /\ <<x>>[1] = x
  OBVIOUS

LEMMA TwoBytes ==
    ASSUME NEW x \in Byte, NEW y \in Byte
    PROVE  <<x, y>> \in Seq(Byte) /\ Len(<<x, y>>) = 2 /\ <<x, y>>[1] = x /\ <<x, y>>[2] = y
  OBVIOUS

(* port.to_be_bytes() and from_be_bytes.                                   *)
LEMMA PortBytes ==
    ASSUME NEW port \in U16
    PROVE  /\ port \div 256 \in Byte /\ port % 256 \in Byte
           /\ (port \div 256) * 256 + (port % 256) = port
<1>1. port \in Nat /\ port <= 65535
  BY DEF U16
<1>2. port = 256 * (port \div 256) + (port % 256) /\ port % 256 \in 0..255 /\ port \div 256 \in Nat
  BY <1>1
<1>3. port \div 256 <= 255
  BY <1>1, <1>2
<1> QED
  BY <1>2, <1>3 DEF Byte

(* `h.len() as u8` of a length that fits.                                  *)
LEMMA LengthFits ==
    ASSUME NEW n \in Byte
    PROVE  n % 256 = n
  BY DEF Byte

(* Four parts one after the other, the first of one byte, as encode puts   *)
(* them together.                                                          *)
LaidOut(data, a, h, b, c) ==
    /\ data \in Seq(Byte)
    /\ Len(h) \in Nat /\ Len(data) = Len(h) + 4
    /\ data[1] = a[1]
    /\ \A i \in 1..Len(h) : data[1 + i] = h[i]
    /\ data[Len(h) + 2] = b[1]
    /\ data[Len(h) + 3] = b[2]
    /\ data[Len(h) + 4] = c[1]

LEMMA FourParts ==
    ASSUME NEW a \in Seq(Byte), NEW h \in Seq(Byte), NEW b \in Seq(Byte), NEW c \in Seq(Byte)
    PROVE  Len(a) = 1 /\ Len(b) = 2 /\ Len(c) = 1 => LaidOut(a \o h \o b \o c, a, h, b, c)
<1> DEFINE front == a \o h
<1>1. /\ front \in Seq(Byte) /\ Len(h) \in Nat
      /\ Len(front) = Len(a) + Len(h)
      /\ \A i \in 1..Len(a) : front[i] = a[i]
      /\ \A i \in 1..Len(h) : front[Len(a) + i] = h[i]
  BY Appended
<1> HIDE DEF front
<1> DEFINE body == front \o b
<1>f. front \in Seq(Byte)
  BY <1>1
<1>2. /\ body \in Seq(Byte) /\ Len(body) = Len(front) + Len(b)
      /\ \A i \in 1..Len(front) : body[i] = front[i]
      /\ \A i \in 1..Len(b) : body[Len(front) + i] = b[i]
  BY <1>f, Appended, Zenon
<1> HIDE DEF body
<1> DEFINE data == body \o c
<1>b. body \in Seq(Byte)
  BY <1>2
<1>3. /\ data \in Seq(Byte) /\ Len(data) = Len(body) + Len(c)
      /\ \A i \in 1..Len(body) : data[i] = body[i]
      /\ \A i \in 1..Len(c) : data[Len(body) + i] = c[i]
  BY <1>b, Appended, Zenon
<1> HIDE DEF data
<1>4. ASSUME Len(a) = 1, Len(b) = 2, Len(c) = 1
      PROVE  LaidOut(data, a, h, b, c)
  <2>1. /\ Len(front) = 1 + Len(h)
        /\ front[1] = a[1]
        /\ \A i \in 1..Len(h) : front[1 + i] = h[i]
    BY <1>1, <1>4
  <2>2. /\ Len(body) = Len(h) + 3
        /\ body[1] = a[1]
        /\ \A i \in 1..Len(h) : body[1 + i] = h[i]
        /\ body[Len(h) + 2] = b[1]
        /\ body[Len(h) + 3] = b[2]
    BY <1>1, <1>2, <1>4, <2>1
  <2>3. Len(h) \in Nat /\ Len(data) = Len(h) + 4
    BY <1>1, <1>3, <1>4, <2>2
  <2>4. \A i \in 1..(Len(h) + 3) : data[i] = body[i]
    BY <1>3, <2>2
  <2>5. /\ data[1] = a[1]
        /\ data[Len(h) + 2] = b[1]
        /\ data[Len(h) + 3] = b[2]
    BY <2>2, <2>3, <2>4
  <2>8. ASSUME NEW i \in 1..Len(h)
        PROVE  data[1 + i] = h[i]
    <3>1. 1 + i \in 1..(Len(h) + 3)
      BY <2>3
    <3>2. QED
      BY <3>1, <2>2, <2>4
  <2>6. data[Len(h) + 4] = c[1]
    BY <1>3, <1>4, <2>2, <2>3
  <2>7. QED
    BY <1>3, <2>3, <2>5, <2>6, <2>8 DEF LaidOut
<1>5. QED
  BY <1>4 DEF data, body, front

(* The layout of a payload whose host has fewer than 256 bytes.            *)
LEMMA Layout ==
    ASSUME NEW host \in Seq(Byte), Len(host) <= 255, NEW port \in U16, NEW udp \in BOOLEAN
    PROVE  LET data == encode_connect_payload(host, port, udp)
           IN  /\ data \in Seq(Byte)
               /\ Len(host) \in Nat /\ Len(data) = Len(host) + 4
               /\ data[1] = Len(host)
               /\ \A i \in 1..Len(host) : data[1 + i] = host[i]
               /\ data[Len(host) + 2] = port \div 256
               /\ data[Len(host) + 3] = port % 256
               /\ data[Len(host) + 4] = Settings(udp)
<1> DEFINE len == <<HostLen(host)>>
           be == BigEndian(port)
           set == <<Settings(udp)>>
<1>1. HostLen(host) \in Byte /\ HostLen(host) = Len(host)
  <2>1. ASSUME NEW n \in Nat, n <= 255
        PROVE  n \in Byte
    BY <2>1 DEF Byte
  <2>2. Len(host) \in Byte
    BY <2>1
  <2>3. QED
    BY <2>2, LengthFits DEF HostLen
<1>2. len \in Seq(Byte) /\ Len(len) = 1 /\ len[1] = Len(host)
  BY <1>1, OneByte
<1>3. /\ be \in Seq(Byte) /\ Len(be) = 2
      /\ be[1] = port \div 256 /\ be[2] = port % 256
  BY PortBytes, TwoBytes DEF BigEndian
<1>4. Settings(udp) \in Byte
  BY DEF Settings, UdpBit, Byte
<1>5. set \in Seq(Byte) /\ Len(set) = 1 /\ set[1] = Settings(udp)
  BY <1>4, OneByte
<1>6. encode_connect_payload(host, port, udp) = len \o host \o be \o set
  BY DEF encode_connect_payload
<1> HIDE DEF len, be, set
<1> DEFINE data == len \o host \o be \o set
<1>a. len \in Seq(Byte) /\ be \in Seq(Byte) /\ set \in Seq(Byte)
  BY <1>2, <1>3, <1>5
<1>b. Len(len) = 1 /\ Len(be) = 2 /\ Len(set) = 1
  BY <1>2, <1>3, <1>5
<1>7. LaidOut(data, len, host, be, set)
  BY <1>a, <1>b, FourParts, Zenon
<1>8. encode_connect_payload(host, port, udp) = data
  BY <1>6
<1> HIDE DEF data
<1>9. QED
  BY <1>2, <1>3, <1>5, <1>7, <1>8 DEF LaidOut

(* What decode takes for the host is the host.                             *)
LEMMA HostIsBack ==
    ASSUME NEW host \in Seq(Byte), Len(host) <= 255, NEW port \in U16, NEW udp \in BOOLEAN
    PROVE  Host(encode_connect_payload(host, port, udp)) = host
<1> DEFINE data == encode_connect_payload(host, port, udp)
<1>1. /\ data \in Seq(Byte)
      /\ Len(host) \in Nat /\ Len(data) = Len(host) + 4
      /\ data[1] = Len(host)
      /\ \A i \in 1..Len(host) : data[1 + i] = host[i]
      /\ data[Len(host) + 2] = port \div 256
      /\ data[Len(host) + 3] = port % 256
      /\ data[Len(host) + 4] = Settings(udp)
  BY Layout, ZenonT(30)
<1> HIDE DEF data
<1>2. /\ SubSeq(data, 2, 1 + Len(host)) \in Seq(Byte)
      /\ Len(SubSeq(data, 2, 1 + Len(host))) = Len(host)
      /\ \A i \in 1..Len(host) : SubSeq(data, 2, 1 + Len(host))[i] = data[1 + i]
  BY <1>1
<1>3. SubSeq(data, 2, 1 + Len(host)) = host
  BY <1>1, <1>2
<1> QED
  BY <1>1, <1>3 DEF Host, data

(* A payload that parses has a host that is UTF-8.                         *)
LEMMA ParsedIsUtf8 ==
    ASSUME NEW host \in Seq(Byte), Len(host) <= 255, NEW port \in U16, NEW udp \in BOOLEAN,
           decode_connect_payload(encode_connect_payload(host, port, udp)).valid
    PROVE  IsUtf8(host)
  BY HostIsBack DEF decode_connect_payload, Invalid

(* frame.rs:146 and 164: what the client asks for is what the server       *)
(* dials, for every UTF-8 host of at most 255 bytes, port and protocol.    *)
THEOREM RoundTrip ==
    ASSUME NEW host \in Seq(Byte), Len(host) <= 255, IsUtf8(host),
           NEW port \in U16, NEW udp \in BOOLEAN
    PROVE  decode_connect_payload(encode_connect_payload(host, port, udp))
               = Parsed(host, port, udp)
<1> DEFINE data == encode_connect_payload(host, port, udp)
<1>1. /\ data \in Seq(Byte)
      /\ Len(host) \in Nat /\ Len(data) = Len(host) + 4
      /\ data[1] = Len(host)
      /\ \A i \in 1..Len(host) : data[1 + i] = host[i]
      /\ data[Len(host) + 2] = port \div 256
      /\ data[Len(host) + 3] = port % 256
      /\ data[Len(host) + 4] = Settings(udp)
  BY Layout, ZenonT(30)
<1> HIDE DEF data
<1>2. data # <<>> /\ Len(data) >= 1 + data[1] + 2 + 1
  BY <1>1
<1>4. data[Len(host) + 2] * 256 + data[Len(host) + 3] = port
  BY <1>1, PortBytes
<1>5. Settings(udp) >= UdpBit <=> udp
  BY DEF Settings, UdpBit
<1>6. (data[Len(host) + 4] >= UdpBit) = udp
  BY <1>1, <1>5
<1>7. LongEnough(data) /\ Host(data) = host
  BY <1>2, HostIsBack DEF LongEnough, data
<1>8. decode_connect_payload(data) =
          Parsed(host, data[Len(host) + 2] * 256 + data[Len(host) + 3],
                 data[Len(host) + 4] >= UdpBit)
  BY <1>1, <1>7 DEF decode_connect_payload
<1>9. QED
  BY <1>4, <1>6, <1>8 DEF data

(* frame.rs:176, rejects_connect_payload_without_settings_byte, for every  *)
(* payload and wherever it is cut: a payload without its end is rejected.  *)
THEOREM TruncatedIsRejected ==
    ASSUME NEW host \in Seq(Byte), Len(host) <= 255, NEW port \in U16, NEW udp \in BOOLEAN,
           NEW k \in 0..(Len(host) + 3)
    PROVE  decode_connect_payload(SubSeq(encode_connect_payload(host, port, udp), 1, k))
               = Invalid
<1> DEFINE data == encode_connect_payload(host, port, udp)
           cut == SubSeq(data, 1, k)
<1>1. /\ data \in Seq(Byte) /\ Len(host) \in Nat
      /\ Len(data) = Len(host) + 4 /\ data[1] = Len(host)
  BY Layout
<1> HIDE DEF data
<1>2. Len(cut) = k /\ (k > 0 => cut[1] = Len(host)) /\ (k = 0 => cut = <<>>)
  BY <1>1
<1> HIDE DEF cut
<1>3. ~LongEnough(cut)
  BY <1>1, <1>2 DEF LongEnough
<1>4. decode_connect_payload(cut) = Invalid
  BY <1>3 DEF decode_connect_payload
<1>5. QED
  BY <1>4 DEF cut, data

-----------------------------------------------------------------------------
(* Wrapping.                                                               *)
LEMMA DivMod ==
    ASSUME NEW n \in Nat, NEW m \in Nat \ {0}
    PROVE  n = m * (n \div m) + (n % m) /\ n \div m \in Nat /\ n % m \in 0..(m - 1)
    OBVIOUS

LEMMA ModIs ==
    ASSUME NEW m \in Nat \ {0}, NEW r \in 0..(m - 1), NEW q \in Nat
    PROVE  (m * q + r) % m = r
    OBVIOUS

(* Counting on from a wrapped number is counting on and then wrapping.     *)
LEMMA ModNext ==
    ASSUME NEW n \in Nat, NEW m \in Nat \ {0}
    PROVE  ((n % m) + 1) % m = (n + 1) % m
<1> DEFINE q == n \div m
           r == n % m
<1>1. n = m * q + r /\ q \in Nat /\ r \in 0..(m - 1)
    BY DivMod
<1> HIDE DEF q, r
<1>2. CASE r + 1 < m
  <2>1. r + 1 \in 0..(m - 1)
    BY <1>1, <1>2
  <2>2. n + 1 = m * q + (r + 1) /\ r + 1 = m * 0 + (r + 1)
    BY <1>1
  <2>3. (n + 1) % m = r + 1
    BY <1>1, <2>1, <2>2, ModIs
  <2>4. (r + 1) % m = r + 1
    BY <2>1, <2>2, ModIs
  <2> QED
    BY <2>3, <2>4 DEF r
<1>3. CASE r + 1 = m
  <2>1. n + 1 = m * (q + 1) + 0 /\ r + 1 = m * 1 + 0
    BY <1>1, <1>3
  <2>2. (n + 1) % m = 0
    BY <1>1, <2>1, ModIs
  <2>3. (r + 1) % m = 0
    BY <2>1, ModIs
  <2> QED
    BY <2>2, <2>3 DEF r
<1> QED
    BY <1>1, <1>2, <1>3

LEMMA IdsAreSids ==
    ASSUME NEW c \in Nat
    PROVE  IdOf(c) \in Sids /\ IdOf(c + 1) = (IdOf(c) + 1) % SidSpan
    BY SessionsAssumption, DivMod, ModNext DEF IdOf, Sids

-----------------------------------------------------------------------------
(* The tunnels of a command line are tunnels, and finitely many.           *)
TunnelSet == [udp : BOOLEAN, server_port : U16, client_port : U16]

LEMMA TunnelsAreTunnels ==
    ASSUME NEW o \in Options
    PROVE  TunnelsOf(o) \subseteq TunnelSet /\ TunnelsOf(o) \subseteq AllTunnels
<1>1. ASSUME NEW p \in ForwardedPorts(o), NEW udp \in BOOLEAN PROVE Tunnel(p, udp) \in TunnelSet
  <2>1. p.port \in U16 \X U16
    BY SessionsAssumption DEF ForwardedPorts
  <2> QED
    BY <2>1 DEF Tunnel, TunnelSet
<1>2. TunnelsOf(o) \subseteq TunnelSet
    BY <1>1 DEF TunnelsOf
<1> QED
    BY <1>2 DEF AllTunnels

LEMMA AllAreTunnels == AllTunnels \subseteq TunnelSet
    BY TunnelsAreTunnels DEF AllTunnels

LEMMA TunnelsAreFinite ==
    ASSUME NEW S \in SUBSET TunnelSet
    PROVE  IsFiniteSet(S)
<1> DEFINE P == BOOLEAN \X (U16 \X U16)
           f == [x \in P |-> [udp |-> x[1], server_port |-> x[2][1], client_port |-> x[2][2]]]
<1>1. IsFiniteSet(U16)
  <2>1. U16 \in SUBSET Nat /\ 65535 \in Nat /\ \A p \in U16 : p <= 65535
    BY DEF U16
  <2> QED
    BY <2>1, FS_BoundedSetOfNaturals
<1>2. IsFiniteSet({TRUE}) /\ IsFiniteSet({TRUE} \cup {FALSE})
    BY FS_Singleton, FS_AddElement
<1>3. BOOLEAN = {TRUE} \cup {FALSE}
    OBVIOUS
<1>4. IsFiniteSet(P)
    BY <1>1, <1>2, <1>3, FS_Product
<1>5. ASSUME NEW t \in TunnelSet PROVE \E x \in P : f[x] = t
  <2>1. <<t.udp, <<t.server_port, t.client_port>>>> \in P
    BY DEF TunnelSet
  <2>2. f[<<t.udp, <<t.server_port, t.client_port>>>>] = t
    BY <2>1 DEF TunnelSet
  <2> QED
    BY <2>1, <2>2
<1>6. f \in [P -> TunnelSet]
    BY DEF TunnelSet
<1> HIDE DEF f, P
<1>7. f \in Surjection(P, TunnelSet)
    BY <1>5, <1>6, Fun_IsSurj
<1>8. IsFiniteSet(TunnelSet)
    BY <1>4, <1>7, FS_Surjection
<1> QED
    BY <1>8, FS_Subset

(* What a tunnel asks for is a target, and the server reads it as that or  *)
(* does not read it.                                                       *)
LEMMA PayloadIsWanted ==
    ASSUME NEW t \in AllTunnels
    PROVE  /\ Wanted(t) \in Targets /\ Wanted(t) # Invalid
           /\ decode_connect_payload(Payload(t)).valid => decode_connect_payload(Payload(t)) = Wanted(t)
<1>1. t.server_port \in U16 /\ t.udp \in BOOLEAN
    BY AllAreTunnels DEF TunnelSet
<1>2. Localhost \in Seq(Byte) /\ Len(Localhost) = 1 /\ 1 <= 255
    BY OneByte DEF Localhost, Byte
<1>3. Wanted(t) \in Targets /\ Wanted(t) # Invalid
  <2>1. Wanted(t).valid = TRUE /\ Invalid.valid = FALSE
    BY DEF Wanted, Parsed, Invalid
  <2> QED
    BY <2>1 DEF Targets
<1>4. ASSUME decode_connect_payload(Payload(t)).valid
      PROVE  decode_connect_payload(Payload(t)) = Wanted(t)
  <2>1. IsUtf8(Localhost)
    BY <1>1, <1>2, <1>4, ParsedIsUtf8 DEF Payload
  <2> QED
    BY <1>1, <1>2, <2>1, RoundTrip DEF Payload, Wanted
<1> QED
    BY <1>3, <1>4

-----------------------------------------------------------------------------
(* The types.                                                              *)
Types == TypeOK /\ QueuesOK

LEMMA TypesInit == Init => Types
<1> SUFFICES ASSUME Init PROVE Types
    OBVIOUS
<1>1. Len(<<>>) = 0 /\ \A S : <<>> \in Seq(S)
    BY EmptySeq
<1>2. 0 \in Sids /\ 0 \in 0..MaxLinks /\ 0 <= Capacity
    BY SessionsAssumption DEF Sids
<1>3. TypeOK
    BY <1>1, <1>2 DEF Init, TypeOK, None
<1>4. QueuesOK
    BY <1>1 DEF Init, QueuesOK
<1> QED
    BY <1>3, <1>4 DEF Types

(* There is an id left for a loop that passed is_connected.                *)
LEMMA RoomForOne ==
    ASSUME Types, BoundInv, NEW t \in Tunnels, loop[t] = "connected"
    PROVE  /\ accepted \in Nat /\ accepted + 1 \in Conns /\ t \in AllTunnels
           /\ IsFiniteSet(Tunnels) /\ IsFiniteSet(Checked)
           /\ Cardinality(Tunnels) + accepted + Cardinality(Checked) <= MaxWork
<1>1. options \in Options /\ accepted \in Nat
    BY SessionsAssumption DEF Types, TypeOK, Conns
<1>2. Tunnels \in SUBSET TunnelSet /\ Tunnels \subseteq AllTunnels /\ Checked \in SUBSET Tunnels
    BY <1>1, TunnelsAreTunnels DEF Tunnels, Checked
<1>3. IsFiniteSet(Tunnels) /\ IsFiniteSet(Checked)
    BY <1>2, TunnelsAreFinite, FS_Subset
<1>4. t \in Checked
    BY DEF Checked
<1>5. Cardinality(Tunnels) \in Nat /\ Cardinality(Checked) \in Nat
    BY <1>3, FS_CardinalityType
<1>6. Cardinality(Tunnels) # 0 /\ Cardinality(Checked) # 0
    BY <1>3, <1>4, FS_EmptySet
<1>7. Cardinality(Tunnels) + accepted + Cardinality(Checked) <= MaxWork
    BY <1>4 DEF BoundInv
<1>8. accepted + 1 \in Conns
    BY <1>1, <1>5, <1>6, <1>7, SessionsAssumption DEF Conns
<1> QED
    BY <1>1, <1>2, <1>3, <1>7, <1>8

(* What a task of either end sends is a frame.                             *)
LEMMA FrameIsFrame ==
    ASSUME Types, IdsInv, NEW c \in Conns, c <= accepted, NEW type \in FrameTypes
    PROVE  /\ Frame(type, c) \in Frames
           /\ Frame(type, c).type = type /\ Frame(type, c).conn = c
           /\ Frame(type, c).sid = IdOf(c) /\ sid[c] = IdOf(c) /\ sid[c] \in Sids
           /\ type = "Connect" => Frame(type, c).payload = Payload(via[c])
<1>1. sid[c] = IdOf(c) /\ via[c] \in AllTunnels /\ sid[c] \in Sids
    BY DEF IdsInv, Types, TypeOK
<1>2. (IF type = "Connect" THEN Payload(via[c]) ELSE <<>>) \in {<<>>} \cup {Payload(t) : t \in AllTunnels}
    BY <1>1
<1> QED
    BY <1>1, <1>2 DEF Frame, Frames

LEMMA SendProps ==
    ASSUME Types, IdsInv, NEW c \in Conns, c <= accepted, NEW type \in FrameTypes, Send(type, c)
    PROVE  /\ data_sender_buf' \in Seq(Frames)
           /\ Len(data_sender_buf') <= Capacity
           /\ Len(data_sender_buf') = Len(data_sender_buf) + 1 /\ Len(data_sender_buf) \in Nat
           /\ \A i \in 1..Len(data_sender_buf) : data_sender_buf'[i] = data_sender_buf[i]
           /\ data_sender_buf'[Len(data_sender_buf')] = Frame(type, c)
<1>1. Frame(type, c) \in Frames
    BY FrameIsFrame
<1> DEFINE f == Frame(type, c)
<1>2. f \in Frames /\ data_sender_buf \in Seq(Frames) /\ data_sender_buf' = Append(data_sender_buf, f)
    BY <1>1 DEF Types, QueuesOK, Send
<1> HIDE DEF f
<1>3. /\ data_sender_buf' \in Seq(Frames)
      /\ Len(data_sender_buf') = Len(data_sender_buf) + 1 /\ Len(data_sender_buf) \in Nat
      /\ \A i \in 1..Len(data_sender_buf) : data_sender_buf'[i] = data_sender_buf[i]
      /\ data_sender_buf'[Len(data_sender_buf')] = f
    BY <1>2, AppendProps
<1>4. Len(data_sender_buf') <= Capacity
    BY <1>3, SessionsAssumption DEF Send
<1> QED
    BY <1>3, <1>4 DEF f

(* RNS and the sender.                                                     *)
LEMMA TypesRns ==
    ASSUME Types, LinkComesUp \/ LinkGoesDown \/ Resets, UNCHANGED options
    PROVE  Types'
<1>1. CASE LinkComesUp
  <2>1. latest' \in 0..MaxLinks
    BY <1>1, SessionsAssumption DEF LinkComesUp, Types, TypeOK
  <2> QED
    BY <1>1, <2>1
    DEF LinkComesUp, Types, TypeOK, QueuesOK, tableVars, acceptVars, connVars, serverVars, taskVars
<1>2. CASE LinkGoesDown
  <2>1. rx' \in Seq(Frames)
    BY <1>2, PrefixProps DEF LinkGoesDown, Types, QueuesOK
  <2> QED
    BY <1>2, <2>1
    DEF LinkGoesDown, Types, TypeOK, QueuesOK, sendVars, tableVars, acceptVars, connVars,
        serverVars, taskVars
<1>3. CASE Resets
    BY <1>3
    DEF Resets, LosesLink, Types, TypeOK, QueuesOK, acceptVars, connVars, serverVars, taskVars
<1> QED
    BY <1>1, <1>2, <1>3

LEMMA TypesDispatches ==
    ASSUME Types, Dispatches, UNCHANGED options
    PROVE  Types'
<1>1. Head(rx) \in Frames /\ rx' \in Seq(Frames)
    BY TailProps DEF Dispatches, Types, QueuesOK
<1>2. inbox' \in [Conns -> Seq(Frames)]
  <2> DEFINE to == sessions[Head(rx).sid]
  <2>1. inbox \in [Conns -> Seq(Frames)]
    BY DEF Types, QueuesOK
  <2>2. inbox' = inbox \/ inbox' = [inbox EXCEPT ![to] = Append(inbox[to], Head(rx))]
    BY DEF Dispatches
  <2>3. ASSUME to \in Conns PROVE Append(inbox[to], Head(rx)) \in Seq(Frames)
    BY <1>1, <2>1, <2>3, AppendProps
  <2>4. ASSUME to \notin Conns, inbox' = [inbox EXCEPT ![to] = Append(inbox[to], Head(rx))] PROVE inbox' = inbox
    BY <2>1, <2>4
  <2> QED
    BY <2>1, <2>2, <2>3, <2>4
<1> QED
    BY <1>1, <1>2
    DEF Dispatches, Types, TypeOK, QueuesOK, linkVars, sendVars, tableVars, acceptVars, serverVars,
        taskVars

LEMMA TypesSender ==
    ASSUME Types, Sender, UNCHANGED options
    PROVE  Types'
<1>1. /\ Head(data_sender_buf) \in Frames /\ data_sender_buf' \in Seq(Frames)
      /\ Len(data_sender_buf') <= Capacity
    BY TailProps, SessionsAssumption DEF Sender, Types, TypeOK, QueuesOK
<1>2. server_rx' \in Seq([link : Links, frame : Frames]) /\ link_id' \in {None, latest}
  <2>1. CASE server_rx' = server_rx /\ link_id' \in {None, link_id}
    BY <2>1 DEF Types, TypeOK, QueuesOK
  <2>2. CASE /\ link_id # None /\ link_id' = link_id
             /\ server_rx' = Append(server_rx, [link |-> latest, frame |-> Head(data_sender_buf)])
    <3>1. latest \in Links
      BY <2>2, SessionsAssumption DEF Types, TypeOK, None, Links
    <3>2. [link |-> latest, frame |-> Head(data_sender_buf)] \in [link : Links, frame : Frames]
      BY <1>1, <3>1
    <3> QED
      BY <2>2, <3>2, AppendProps DEF Types, TypeOK, QueuesOK
  <2> QED
    BY <2>1, <2>2 DEF Sender
<1> QED
    BY <1>1, <1>2
    DEF Sender, Types, TypeOK, QueuesOK, linkVars, tableVars, acceptVars, connVars, serverVars, taskVars

(* The accept loops.                                                       *)
LEMMA TypesAccept ==
    ASSUME Types, BoundInv, IdsInv, NEW t \in Tunnels, Accepts(t) \/ TakesId(t), UNCHANGED options
    PROVE  Types'
<1>1. CASE Accepts(t)
  <2>1. loop' \in [AllTunnels -> {"listening", "connected", "registering"}]
    BY <1>1 DEF Accepts, Types, TypeOK
  <2> QED
    BY <1>1, <2>1
    DEF Accepts, Types, TypeOK, QueuesOK, linkVars, sendVars, tableVars, connVars, serverVars, taskVars
<1>2. CASE TakesId(t)
  <2>1. accepted \in Nat /\ accepted + 1 \in Conns /\ t \in AllTunnels
    BY <1>2, RoomForOne DEF TakesId
  <2>2. next_session_id \in Sids
    BY <2>1, IdsAreSids DEF IdsInv, next_session_id
  <2>3. /\ loop' \in [AllTunnels -> {"listening", "connected", "registering"}]
        /\ accepted' \in {0} \cup Conns /\ next_sid' \in Sids
        /\ sid' \in [Conns -> Sids]
        /\ via' \in [Conns -> AllTunnels \cup {NoTunnel}]
    BY <1>2, <2>1, <2>2 DEF TakesId, Types, TypeOK
  <2> QED
    BY <1>2, <2>3
    DEF TakesId, Types, TypeOK, QueuesOK, linkVars, sendVars, connVars, serverVars, taskVars
<1> QED
    BY <1>1, <1>2

(* A connection's task at the client.                                      *)
LEMMA TypesClientTask ==
    ASSUME Types, IdsInv, NEW c \in Conns, ClientTask(c), UNCHANGED options
    PROVE  Types'
<1>q. /\ pc \in [Conns -> {"none", "accepted", "waiting", "relay", "dropping", "ended"}]
      /\ sessions \in [Sids -> {None} \cup Conns]
      /\ loop \in [AllTunnels -> {"listening", "connected", "registering"}]
      /\ inbox \in [Conns -> Seq(Frames)] /\ result \in [Conns -> {"none", "Ok", "Err"}]
    BY DEF Types, TypeOK, QueuesOK
<1>1. c <= accepted
    BY DEF ClientTask, Registers, Connects, Receives, Fails, Closes, Drops, IdsInv
<1>2. pc' \in [Conns -> {"none", "accepted", "waiting", "relay", "dropping", "ended"}]
  <2>1. pc' = pc \/ \E p \in {"accepted", "waiting", "relay", "dropping", "ended"} :
                          pc' = [pc EXCEPT ![c] = p]
    <3>1. CASE Registers(c) \/ Connects(c) \/ Receives(c)
      BY <3>1 DEF Registers, Connects, Receives, Becomes
    <3>2. CASE Fails(c) \/ Closes(c) \/ Drops(c)
      BY <3>2 DEF Fails, Closes, Drops, Becomes
    <3> QED
      BY <3>1, <3>2 DEF ClientTask
  <2> QED
    BY <1>q, <2>1
<1>3. <<>> \in Seq(Frames)
    BY EmptySeq
<1>4. CASE Registers(c) \/ Drops(c)
  <2>1. /\ loop' \in [AllTunnels -> {"listening", "connected", "registering"}]
        /\ sessions' \in [Sids -> {None} \cup Conns]
    BY <1>4, <1>q DEF Registers, Drops, acceptVars
  <2> QED
    BY <1>2, <1>4, <2>1
    DEF Registers, Drops, Types, TypeOK, QueuesOK, linkVars, sendVars, acceptVars, serverVars, taskVars
<1>5. CASE Connects(c) \/ Closes(c)
  <2>1. data_sender_buf' \in Seq(Frames) /\ Len(data_sender_buf') <= Capacity
    BY <1>1, <1>5, SendProps DEF Connects, Closes, FrameTypes
  <2>2. inbox' \in [Conns -> Seq(Frames)]
    BY <1>5, <1>q, <1>3 DEF Connects, Closes
  <2> QED
    BY <1>2, <1>5, <2>1, <2>2
    DEF Connects, Closes, Types, TypeOK, QueuesOK, linkVars, tableVars, acceptVars, serverVars, taskVars
<1>6. CASE Receives(c) \/ Fails(c)
  <2>1. inbox' \in [Conns -> Seq(Frames)]
    <3>1. inbox[c] # <<>> => Tail(inbox[c]) \in Seq(Frames)
      BY <1>q, TailProps
    <3> QED
      BY <1>6, <1>q, <1>3, <3>1 DEF Receives, Fails
  <2>2. result' \in [Conns -> {"none", "Ok", "Err"}]
    BY <1>6, <1>q DEF Receives, Fails
  <2> QED
    BY <1>2, <1>6, <2>1, <2>2
    DEF Receives, Fails, Types, TypeOK, QueuesOK, linkVars, sendVars, tableVars, acceptVars,
        serverVars, taskVars
<1> QED
    BY <1>4, <1>5, <1>6 DEF ClientTask

(* The event that the server takes next.                                   *)
LEMMA TakenEvent ==
    ASSUME Types, FramesInv, TakesEvent
    PROVE  /\ Head(server_rx) = server_rx[1] /\ 1 \in 1..Len(server_rx)
           /\ Event \in Frames /\ From \in Links /\ Genuine(Event)
           /\ server_rx' \in Seq([link : Links, frame : Frames])
           /\ Len(server_rx') = Len(server_rx) - 1 /\ Len(server_rx) \in Nat
           /\ \A i \in 1..Len(server_rx') :
                 server_rx'[i] = server_rx[i + 1] /\ i + 1 \in 1..Len(server_rx)
<1>1. /\ Head(server_rx) \in [link : Links, frame : Frames] /\ Head(server_rx) = server_rx[1]
      /\ server_rx' \in Seq([link : Links, frame : Frames])
      /\ Len(server_rx) \in Nat \ {0}
      /\ Len(server_rx') = Len(server_rx) - 1
      /\ \A i \in 1..Len(server_rx') : server_rx'[i] = server_rx[i + 1]
    BY TailProps DEF Types, QueuesOK, TakesEvent
<1>2. 1 \in 1..Len(server_rx) /\ \A i \in 1..Len(server_rx') : i + 1 \in 1..Len(server_rx)
    BY <1>1
<1>3. Genuine(Event)
    BY <1>1, <1>2 DEF FramesInv, Event
<1> QED
    BY <1>1, <1>2, <1>3 DEF Event, From

(* What the server reads in a CONNECT that parses is what was asked for.   *)
LEMMA EventIsWanted ==
    ASSUME Types, IdsInv, Event \in Frames, Genuine(Event), Event.type = "Connect",
           decode_connect_payload(Event.payload).valid
    PROVE  /\ via[Event.conn] \in AllTunnels
           /\ decode_connect_payload(Event.payload) = Wanted(via[Event.conn])
           /\ decode_connect_payload(Event.payload) \in Targets
<1>1. Event.conn \in Conns /\ Event.conn <= accepted /\ Event.payload = Payload(via[Event.conn])
    BY DEF Frames, Genuine
<1>2. via[Event.conn] \in AllTunnels
    BY <1>1 DEF IdsInv
<1> QED
    BY <1>1, <1>2, PayloadIsWanted

LEMMA TypesServerLoop ==
    ASSUME Types, IdsInv, FramesInv, ServerConnects \/ ServerDispatches, UNCHANGED options
    PROVE  Types'
<1>1. /\ Event \in Frames /\ From \in Links /\ Genuine(Event)
      /\ server_rx' \in Seq([link : Links, frame : Frames])
    BY TakenEvent DEF ServerConnects, ServerDispatches
<1>2. Event.conn \in Conns /\ Event.sid \in Sids /\ Event.type \in FrameTypes
    BY <1>1 DEF Frames
<1>3. CASE ServerConnects
  <2>2. /\ server_sessions' \in [Links -> [Sids -> {None} \cup Conns]]
        /\ server_pc' \in [Conns -> {"none", "dialing", "relay", "refused", "ended"}]
        /\ server_link' \in [Conns -> {None} \cup Links]
    BY <1>1, <1>2, <1>3 DEF ServerConnects, Types, TypeOK
  <2>3. decode_connect_payload(Event.payload) \in Targets
    BY <1>1, <1>2, <1>3, EventIsWanted DEF ServerConnects
  <2>4. target' \in [Conns -> Targets \cup {Invalid}]
    BY <1>2, <1>3, <2>3 DEF ServerConnects, Types, QueuesOK
  <2> QED
    BY <1>1, <1>3, <2>2, <2>4
    DEF ServerConnects, Types, TypeOK, QueuesOK, clientVars, linkVars, sendVars, tableVars, acceptVars,
        connVars
<1>4. CASE ServerDispatches
  <2> DEFINE to == server_sessions[From][Event.sid]
  <2>1. server_inbox \in [Conns -> Seq(Frames)] /\ (to # None => to \in Conns)
    BY <1>1, <1>2 DEF Types, TypeOK, QueuesOK
  <2>2. server_inbox' = server_inbox
        \/ (to # None /\ server_inbox' = [server_inbox EXCEPT ![to] = Append(server_inbox[to], Event)])
    BY <1>4 DEF ServerDispatches
  <2>3. to # None => Append(server_inbox[to], Event) \in Seq(Frames)
    BY <1>1, <2>1, AppendProps
  <2>4. server_inbox' \in [Conns -> Seq(Frames)]
    BY <2>1, <2>2, <2>3
  <2> QED
    BY <1>1, <1>4, <2>4
    DEF ServerDispatches, Types, TypeOK, QueuesOK, clientVars, linkVars, sendVars, tableVars,
        acceptVars, connVars
<1> QED
    BY <1>3, <1>4

(* A connection's task at the server.                                      *)
LEMMA AnswersProps ==
    ASSUME Types, IdsInv, NEW c \in Conns, c <= accepted, NEW type \in FrameTypes, Answers(type, c)
    PROVE  /\ rx' \in Seq(Frames)
           /\ \A i \in 1..Len(rx') :
                 (i \in 1..Len(rx) /\ rx'[i] = rx[i]) \/ rx'[i] = Frame(type, c)
<1> DEFINE f == Frame(type, c)
<1>1. f \in Frames /\ rx \in Seq(Frames)
    BY FrameIsFrame DEF Types, QueuesOK
<1>2. rx' = rx \/ rx' = Append(rx, f)
    BY DEF Answers
<1> HIDE DEF f
<1>3. /\ Append(rx, f) \in Seq(Frames)
      /\ Len(Append(rx, f)) = Len(rx) + 1 /\ Len(rx) \in Nat
      /\ \A i \in 1..Len(rx) : Append(rx, f)[i] = rx[i]
      /\ Append(rx, f)[Len(rx) + 1] = f
    BY <1>1, AppendProps
<1>4. ASSUME NEW i \in 1..Len(rx') PROVE (i \in 1..Len(rx) /\ rx'[i] = rx[i]) \/ rx'[i] = f
  <2>1. CASE rx' = rx
    BY <2>1
  <2>2. CASE rx' = Append(rx, f)
    <3>1. i \in 1..Len(rx) \/ i = Len(rx) + 1
      BY <1>3, <2>2
    <3> QED
      BY <1>3, <2>2, <3>1
  <2> QED
    BY <1>2, <2>1, <2>2
<1> QED
    BY <1>1, <1>2, <1>3, <1>4 DEF f

LEMMA TypesServerTask ==
    ASSUME Types, IdsInv, AskInv, NEW c \in Conns, ServerTask(c), UNCHANGED options
    PROVE  Types'
<1>1. c <= accepted /\ server_link[c] \in Links /\ server_pc[c] # "none"
    BY DEF ServerTask, DialSucceeds, Binds, Serves, DialFails, ServerCloses, AskInv, HasAsked, IdsInv
<1>2. sid[c] \in Sids
    BY DEF Types, TypeOK
<1>3. rx' \in Seq(Frames)
    BY <1>1, AnswersProps DEF ServerTask, DialSucceeds, Binds, Serves, DialFails, ServerCloses,
                              Leaves, FrameTypes
<1>4. server_pc' \in [Conns -> {"none", "dialing", "relay", "refused", "ended"}]
    BY DEF ServerTask, DialSucceeds, Binds, Serves, DialFails, ServerCloses, Leaves, Types, TypeOK
<1>5. CASE DialSucceeds(c) \/ Binds(c)
  <2>1. PICK made \in Targets \cup {Unconnected, Invalid} : Serves(c, made)
    BY <1>5 DEF DialSucceeds, Binds, Types, QueuesOK
  <2>2. socket' \in [Conns -> Targets \cup {Unconnected, Invalid}]
    BY <2>1 DEF Serves, Types, QueuesOK
  <2> QED
    BY <1>3, <1>4, <2>1, <2>2
    DEF Serves, Types, TypeOK, QueuesOK, clientVars, linkVars, sendVars, tableVars, acceptVars, connVars
<1>6. CASE DialFails(c) \/ ServerCloses(c)
  <2>1. \E last, end : Leaves(c, last, end)
    BY <1>6 DEF DialFails, ServerCloses
  <2>2. /\ server_sessions' \in [Links -> [Sids -> {None} \cup Conns]]
        /\ server_inbox' \in [Conns -> Seq(Frames)]
    BY <1>1, <1>2, <2>1, EmptySeq DEF Leaves, Types, TypeOK, QueuesOK
  <2>3. UNCHANGED <<clientVars, server_rx, server_link, target, socket>>
    BY <2>1 DEF Leaves
  <2> QED
    BY <1>3, <1>4, <2>2, <2>3
    DEF Types, TypeOK, QueuesOK, clientVars, linkVars, sendVars, tableVars, acceptVars, connVars
<1> QED
    BY <1>5, <1>6 DEF ServerTask

LEMMA TypesStep ==
    Types /\ BoundInv /\ IdsInv /\ FramesInv /\ AskInv /\ [Next]_vars => Types'
<1> SUFFICES ASSUME Types, BoundInv, IdsInv, FramesInv, AskInv, [Next]_vars PROVE Types'
    OBVIOUS
<1>1. CASE UNCHANGED vars
    BY <1>1
    DEF Types, TypeOK, QueuesOK, vars, clientVars, linkVars, sendVars, tableVars, acceptVars, connVars,
        serverVars, taskVars
<1> QED
    BY <1>1, TypesRns, TypesDispatches, TypesSender, TypesAccept, TypesClientTask, TypesServerLoop,
       TypesServerTask DEF Next, Step

-----------------------------------------------------------------------------
(* The bound.                                                              *)
LEMMA BoundInit == Init => BoundInv
    BY DEF Init, BoundInv, Checked, Tunnels, AllTunnels

LEMMA BoundStep == Types /\ BoundInv /\ [Next]_vars => BoundInv'
<1> SUFFICES ASSUME Types, BoundInv, [Next]_vars PROVE BoundInv'
    OBVIOUS
<1>1. options' = options /\ Tunnels' = Tunnels
    BY DEF Next, vars, Tunnels
<1>2. /\ options \in Options /\ accepted \in Nat
      /\ loop \in [AllTunnels -> {"listening", "connected", "registering"}]
    BY DEF Types, TypeOK, Conns
<1>3. Tunnels \in SUBSET TunnelSet /\ Tunnels \subseteq AllTunnels /\ Checked \in SUBSET Tunnels
    BY <1>2, TunnelsAreTunnels DEF Tunnels, Checked
<1>4. IsFiniteSet(Tunnels) /\ IsFiniteSet(Checked)
    BY <1>3, TunnelsAreFinite, FS_Subset
<1>5. Cardinality(Tunnels) \in Nat /\ Cardinality(Checked) \in Nat
    BY <1>4, FS_CardinalityType
<1>6. CASE UNCHANGED <<loop, accepted>>
    BY <1>1, <1>6 DEF BoundInv, Checked
<1>7. ASSUME NEW t \in Tunnels, Accepts(t) PROVE BoundInv'
  <2>1. Checked' = Checked \cup {t} /\ t \notin Checked
    BY <1>1, <1>2, <1>3, <1>7 DEF Accepts, Checked
  <2>2. Cardinality(Checked') = Cardinality(Checked) + 1
    BY <1>4, <2>1, FS_AddElement
  <2> QED
    BY <1>1, <1>2, <1>5, <1>7, <2>2, SessionsAssumption DEF Accepts, BoundInv
<1>8. ASSUME NEW t \in Tunnels, TakesId(t) PROVE BoundInv'
  <2>1. Checked' = Checked \ {t} /\ t \in Checked
    BY <1>1, <1>2, <1>3, <1>8 DEF TakesId, Checked
  <2>2. Cardinality(Checked') = Cardinality(Checked) - 1
    BY <1>4, <2>1, FS_RemoveElement
  <2>3. accepted' = accepted + 1
    BY <1>8 DEF TakesId
  <2> QED
    BY <1>1, <1>2, <1>5, <2>1, <2>2, <2>3, SessionsAssumption DEF BoundInv
<1>9. ASSUME NEW c \in Conns, Registers(c) PROVE BoundInv'
  <2>1. Checked' \in SUBSET Checked /\ accepted' = accepted
    BY <1>1, <1>2, <1>3, <1>9 DEF Registers, Checked
  <2>2. IsFiniteSet(Checked') /\ Cardinality(Checked') <= Cardinality(Checked)
    BY <1>4, <2>1, FS_Subset
  <2>3. Cardinality(Checked') \in Nat
    BY <2>2, FS_CardinalityType
  <2> QED
    BY <1>1, <1>2, <1>5, <2>1, <2>2, <2>3, SessionsAssumption DEF BoundInv
<1>10. ASSUME LinkComesUp \/ LinkGoesDown \/ Resets \/ Dispatches \/ Sender \/ ServerConnects
                 \/ ServerDispatches
       PROVE  UNCHANGED <<loop, accepted>>
    BY <1>10
    DEF LinkComesUp, LinkGoesDown, Resets, Dispatches, Sender, ServerConnects, ServerDispatches,
        clientVars, acceptVars
<1>11. ASSUME NEW c \in Conns, ClientTask(c) \/ ServerTask(c), ~Registers(c)
       PROVE  UNCHANGED <<loop, accepted>>
    BY <1>11
    DEF ClientTask, ServerTask, Connects, Receives, Fails, Closes, Drops, DialSucceeds, Binds,
        Serves, DialFails,
        ServerCloses, Leaves, clientVars, acceptVars
<1>12. ASSUME UNCHANGED vars PROVE UNCHANGED <<loop, accepted>>
    BY <1>12 DEF vars, clientVars, acceptVars
<1> QED
    BY <1>6, <1>7, <1>8, <1>9, <1>10, <1>11, <1>12 DEF Next, Step

-----------------------------------------------------------------------------
(* The ids.                                                                *)
LEMMA IdsInit == Init => IdsInv
<1> SUFFICES ASSUME Init PROVE IdsInv
    OBVIOUS
<1>1. 0 = SidSpan * 0 + 0 /\ 0 \in 0..(SidSpan - 1)
    BY SessionsAssumption
<1>2. IdOf(0) = 0
    BY <1>1, SessionsAssumption, ModIs DEF IdOf
<1>3. \A c \in Conns : ~(c <= 0)
    BY DEF Conns
<1> QED
    BY <1>2, <1>3 DEF Init, IdsInv

LEMMA IdsAccept ==
    ASSUME Types, BoundInv, IdsInv, NEW t \in Tunnels, Accepts(t) \/ TakesId(t)
    PROVE  IdsInv'
<1>1. CASE Accepts(t)
    BY <1>1 DEF Accepts, IdsInv, IdOf, tableVars, connVars, serverVars
<1>2. CASE TakesId(t)
  <2>1. accepted \in Nat /\ accepted + 1 \in Conns /\ t \in AllTunnels
    BY <1>2, RoomForOne DEF TakesId
  <2>2. next_session_id = IdOf(accepted + 1)
    BY <2>1, IdsAreSids DEF IdsInv, next_session_id
  <2>3. /\ accepted' = accepted + 1 /\ next_sid' = next_session_id
        /\ sid' = [sid EXCEPT ![accepted + 1] = next_session_id]
        /\ via' = [via EXCEPT ![accepted + 1] = t]
        /\ UNCHANGED <<pc, sessions, server_sessions>>
    BY <1>2 DEF TakesId, connVars, serverVars
  <2>4. sid \in [Conns -> Sids] /\ via \in [Conns -> AllTunnels \cup {NoTunnel}]
    BY DEF Types, TypeOK
  <2>5. ASSUME NEW c \in Conns, c <= accepted' PROVE sid'[c] = IdOf(c) /\ via'[c] \in AllTunnels
    <3>1. CASE c = accepted + 1
      BY <2>1, <2>2, <2>3, <2>4, <3>1
    <3>2. CASE c # accepted + 1
      <4>1. c <= accepted
        BY <2>1, <2>3, <2>5, <3>2 DEF Conns
      <4> QED
        BY <2>3, <2>4, <3>2, <4>1 DEF IdsInv
    <3> QED
      BY <3>1, <3>2
  <2>6. \A c \in Conns : pc'[c] # "none" => c <= accepted'
    BY <2>1, <2>3 DEF IdsInv, Conns
  <2> QED
    BY <2>2, <2>3, <2>5, <2>6 DEF IdsInv, IdOf
<1> QED
    BY <1>1, <1>2

LEMMA IdsClientTask ==
    ASSUME Types, IdsInv, NEW c \in Conns, ClientTask(c)
    PROVE  IdsInv'
<1>1. /\ UNCHANGED <<next_sid, accepted, sid, via, server_sessions>>
      /\ c <= accepted
    BY DEF ClientTask, Registers, Connects, Receives, Fails, Closes, Drops, IdsInv, tableVars,
           acceptVars, serverVars
<1>2. sessions' = sessions \/ \E d \in {c, None} : sessions' = [sessions EXCEPT ![sid[c]] = d]
    BY DEF ClientTask, Registers, Connects, Receives, Fails, Closes, Drops, tableVars
<1>3. \A d \in Conns : d # c => pc'[d] = pc[d]
    BY DEF ClientTask, Registers, Connects, Receives, Fails, Closes, Drops, Becomes, Types, TypeOK
<1>4. sid[c] = IdOf(c) /\ sessions \in [Sids -> {None} \cup Conns]
    BY <1>1 DEF IdsInv, Types, TypeOK
<1>5. \A i \in Sids : sessions'[i] # None => IdOf(sessions'[i]) = i
    BY <1>2, <1>4 DEF IdsInv
<1>6. \A d \in Conns : pc'[d] # "none" => d <= accepted'
    BY <1>1, <1>3 DEF IdsInv
<1> QED
    BY <1>1, <1>5, <1>6 DEF IdsInv, IdOf

LEMMA IdsServer ==
    ASSUME Types, IdsInv, FramesInv, AskInv,
           ServerConnects \/ ServerDispatches \/ \E c \in Conns : ServerTask(c)
    PROVE  IdsInv'
<1>1. UNCHANGED <<next_sid, accepted, sid, via, pc, sessions>>
    BY DEF ServerConnects, ServerDispatches, ServerTask, DialSucceeds, Binds, Serves, DialFails,
           ServerCloses, Leaves,
           clientVars, tableVars, acceptVars, connVars
<1>2. server_sessions \in [Links -> [Sids -> {None} \cup Conns]]
    BY DEF Types, TypeOK
<1>3. \A l \in Links, i \in Sids :
          server_sessions'[l][i] # None => IdOf(server_sessions'[l][i]) = i
  <2>1. CASE ServerConnects
    <3>1. Event \in Frames /\ From \in Links /\ Genuine(Event)
      BY <2>1, TakenEvent DEF ServerConnects
    <3>2. Event.sid = IdOf(Event.conn) /\ Event.sid \in Sids
      BY <3>1 DEF Genuine, Frames
    <3>3. server_sessions' = [server_sessions EXCEPT ![From][Event.sid] = Event.conn]
      BY <2>1 DEF ServerConnects
    <3> QED
      BY <1>2, <3>1, <3>2, <3>3 DEF IdsInv
  <2>2. ASSUME NEW c \in Conns, DialFails(c) \/ ServerCloses(c)
        PROVE  \A l \in Links, i \in Sids :
                  server_sessions'[l][i] # None => IdOf(server_sessions'[l][i]) = i
    <3>1. server_link[c] \in Links /\ sid[c] \in Sids
      BY <2>2 DEF DialFails, ServerCloses, AskInv, Types, TypeOK
    <3>2. server_sessions' = [server_sessions EXCEPT ![server_link[c]][sid[c]] = None]
      BY <2>2 DEF DialFails, ServerCloses, Leaves
    <3> QED
      BY <1>2, <3>1, <3>2 DEF IdsInv
  <2>3. CASE server_sessions' = server_sessions
    BY <2>3 DEF IdsInv
  <2> QED
    BY <2>1, <2>2, <2>3 DEF ServerDispatches, ServerTask, DialSucceeds, Binds, Serves
<1> QED
    BY <1>1, <1>3 DEF IdsInv, IdOf

LEMMA IdsStep ==
    Types /\ BoundInv /\ IdsInv /\ FramesInv /\ AskInv /\ [Next]_vars => IdsInv'
<1> SUFFICES ASSUME Types, BoundInv, IdsInv, FramesInv, AskInv, [Next]_vars PROVE IdsInv'
    OBVIOUS
<1>1. CASE UNCHANGED <<next_sid, accepted, sid, via, pc, sessions, server_sessions>>
    BY <1>1 DEF IdsInv, IdOf
<1>2. CASE Resets
    BY <1>2 DEF Resets, LosesLink, IdsInv, IdOf, acceptVars, connVars, serverVars
<1>3. ASSUME LinkComesUp \/ LinkGoesDown \/ Dispatches \/ Sender
      PROVE  UNCHANGED <<next_sid, accepted, sid, via, pc, sessions, server_sessions>>
    BY <1>3
    DEF LinkComesUp, LinkGoesDown, Dispatches, Sender, tableVars, acceptVars, connVars, serverVars
<1>4. ASSUME UNCHANGED vars
      PROVE  UNCHANGED <<next_sid, accepted, sid, via, pc, sessions, server_sessions>>
    BY <1>4 DEF vars, clientVars, tableVars, acceptVars, connVars, serverVars
<1> QED
    BY <1>1, <1>2, <1>3, <1>4, IdsAccept, IdsClientTask, IdsServer DEF Next, Step

-----------------------------------------------------------------------------
(* What no step takes back.                                                *)
LEMMA ClientOnward ==
    ASSUME Types, BoundInv, IdsInv, [Next]_vars
    PROVE  /\ accepted <= accepted'
           /\ \A c \in Conns : c <= accepted => via'[c] = via[c] /\ sid'[c] = sid[c]
           /\ \A c \in Conns : HasAsked(c) => HasAsked(c)'
<1>1. accepted \in Nat /\ via \in [Conns -> AllTunnels \cup {NoTunnel}] /\ sid \in [Conns -> Sids]
      /\ pc \in [Conns -> {"none", "accepted", "waiting", "relay", "dropping", "ended"}]
    BY DEF Types, TypeOK, Conns
<1>2. ASSUME UNCHANGED <<accepted, via, sid, pc>>
      PROVE  /\ accepted <= accepted'
             /\ \A c \in Conns : c <= accepted => via'[c] = via[c] /\ sid'[c] = sid[c]
             /\ \A c \in Conns : HasAsked(c) => HasAsked(c)'
    BY <1>1, <1>2 DEF HasAsked
<1>3. ASSUME NEW t \in Tunnels, TakesId(t)
      PROVE  /\ accepted <= accepted'
             /\ \A c \in Conns : c <= accepted => via'[c] = via[c] /\ sid'[c] = sid[c]
             /\ \A c \in Conns : HasAsked(c) => HasAsked(c)'
  <2>1. \A c \in Conns : c <= accepted => c # accepted + 1
    BY <1>1 DEF Conns
  <2>2. accepted' = accepted + 1 /\ pc' = pc
        /\ via' = [via EXCEPT ![accepted + 1] = t] /\ sid' = [sid EXCEPT ![accepted + 1] = next_session_id]
    BY <1>3 DEF TakesId, connVars
  <2> QED
    BY <1>1, <2>1, <2>2 DEF HasAsked
<1>4. ASSUME NEW d \in Conns, ClientTask(d)
      PROVE  /\ accepted <= accepted'
             /\ \A c \in Conns : c <= accepted => via'[c] = via[c] /\ sid'[c] = sid[c]
             /\ \A c \in Conns : HasAsked(c) => HasAsked(c)'
  <2>1. UNCHANGED <<accepted, via, sid>>
    BY <1>4 DEF ClientTask, Registers, Connects, Receives, Fails, Closes, Drops, acceptVars
  <2>2. \/ pc' = pc
        \/ pc[d] = "none" /\ Becomes(d, "accepted")
        \/ \E p \in {"waiting", "relay", "dropping", "ended"} : Becomes(d, p)
    BY <1>4 DEF ClientTask, Registers, Connects, Receives, Fails, Closes, Drops
  <2> QED
    BY <1>1, <2>1, <2>2 DEF Becomes, HasAsked
<1>5. ASSUME \/ LinkComesUp \/ LinkGoesDown \/ Resets \/ Dispatches \/ Sender \/ ServerConnects
             \/ ServerDispatches \/ (\E t \in Tunnels : Accepts(t)) \/ \E c \in Conns : ServerTask(c)
      PROVE  UNCHANGED <<accepted, via, sid, pc>>
    BY <1>5
    DEF LinkComesUp, LinkGoesDown, Resets, Dispatches, Sender, ServerConnects, ServerDispatches,
        Accepts, ServerTask, DialSucceeds, Binds, Serves, DialFails, ServerCloses, Leaves,
        clientVars, acceptVars,
        connVars
<1>6. ASSUME UNCHANGED vars PROVE UNCHANGED <<accepted, via, sid, pc>>
    BY <1>6 DEF vars, clientVars, acceptVars, connVars
<1> QED
    BY <1>2, <1>3, <1>4, <1>5, <1>6 DEF Next, Step

LEMMA ServerOnward ==
    ASSUME Types, FramesInv, AskInv, [Next]_vars
    PROVE  \A c \in Conns : server_pc[c] \in {"relay", "ended"} => server_pc'[c] \in {"relay", "ended"}
<1>1. server_pc \in [Conns -> {"none", "dialing", "relay", "refused", "ended"}]
    BY DEF Types, TypeOK
<1>2. CASE ServerConnects
  <2>1. Event.type = "Connect" /\ Event = server_rx[1].frame /\ 1 \in 1..Len(server_rx)
    BY <1>2, TakenEvent DEF ServerConnects, Event
  <2>2. server_pc[Event.conn] = "none"
    BY <2>1 DEF AskInv, Asks
  <2>3. server_pc' = [server_pc EXCEPT ![Event.conn] = "dialing"]
    BY <1>2 DEF ServerConnects
  <2> QED
    BY <1>1, <2>2, <2>3
<1>3. ASSUME NEW d \in Conns, ServerTask(d)
      PROVE  \A c \in Conns : server_pc[c] \in {"relay", "ended"} => server_pc'[c] \in {"relay", "ended"}
    BY <1>1, <1>3 DEF ServerTask, DialSucceeds, Binds, Serves, DialFails, ServerCloses, Leaves
<1>4. ASSUME \/ LinkComesUp \/ LinkGoesDown \/ Resets \/ Dispatches \/ Sender \/ ServerDispatches
             \/ (\E t \in Tunnels : Accepts(t) \/ TakesId(t)) \/ \E c \in Conns : ClientTask(c)
      PROVE  server_pc' = server_pc
    BY <1>4
    DEF LinkComesUp, LinkGoesDown, Resets, Dispatches, Sender, ServerDispatches, Accepts, TakesId,
        ClientTask, Registers, Connects, Receives, Fails, Closes, Drops, serverVars, taskVars
<1>5. ASSUME UNCHANGED vars PROVE server_pc' = server_pc
    BY <1>5 DEF vars, serverVars, taskVars
<1> QED
    BY <1>2, <1>3, <1>4, <1>5 DEF Next, Step

(* Where what is in a queue comes from.                                    *)
LEMMA SentFrom ==
    ASSUME Types, IdsInv, [Next]_vars
    PROVE  \A i \in 1..Len(data_sender_buf') :
              \/ \E j \in 1..Len(data_sender_buf) : data_sender_buf'[i] = data_sender_buf[j]
              \/ \E c \in Conns, type \in FrameTypes :
                    c <= accepted /\ HasAsked(c)' /\ data_sender_buf'[i] = Frame(type, c)
<1> DEFINE From1(i) ==
              \/ \E j \in 1..Len(data_sender_buf) : data_sender_buf'[i] = data_sender_buf[j]
              \/ \E c \in Conns, type \in FrameTypes :
                    c <= accepted /\ HasAsked(c)' /\ data_sender_buf'[i] = Frame(type, c)
<1> SUFFICES ASSUME NEW i \in 1..Len(data_sender_buf') PROVE From1(i)
    OBVIOUS
<1>1. CASE data_sender_buf' = data_sender_buf
    BY <1>1
<1>2. CASE Sender
  <2>1. /\ Len(data_sender_buf') = Len(data_sender_buf) - 1 /\ Len(data_sender_buf) \in Nat
        /\ \A j \in 1..Len(data_sender_buf') : data_sender_buf'[j] = data_sender_buf[j + 1]
    BY <1>2, TailProps DEF Sender, Types, QueuesOK
  <2>2. i + 1 \in 1..Len(data_sender_buf) /\ data_sender_buf'[i] = data_sender_buf[i + 1]
    BY <2>1
  <2> QED
    BY <2>2
<1>3. ASSUME NEW c \in Conns, Connects(c) \/ Closes(c) PROVE From1(i)
  <2>1. PICK type \in FrameTypes : Send(type, c)
    BY <1>3 DEF Connects, Closes, FrameTypes
  <2>2. c <= accepted /\ HasAsked(c)'
    BY <1>3 DEF Connects, Closes, Becomes, HasAsked, IdsInv, Types, TypeOK
  <2>3. /\ Len(data_sender_buf') = Len(data_sender_buf) + 1 /\ Len(data_sender_buf) \in Nat
        /\ \A j \in 1..Len(data_sender_buf) : data_sender_buf'[j] = data_sender_buf[j]
        /\ data_sender_buf'[Len(data_sender_buf')] = Frame(type, c)
    BY <2>1, <2>2, SendProps
  <2>4. CASE i = Len(data_sender_buf')
    BY <2>2, <2>3, <2>4
  <2>5. CASE i # Len(data_sender_buf')
    <3>1. i \in 1..Len(data_sender_buf)
      BY <2>3, <2>5
    <3> QED
      BY <2>3, <3>1
  <2> QED
    BY <2>4, <2>5
<1>4. ASSUME \/ LinkComesUp \/ LinkGoesDown \/ Resets \/ Dispatches \/ ServerConnects
             \/ ServerDispatches \/ \E t \in Tunnels : Accepts(t) \/ TakesId(t)
      PROVE  data_sender_buf' = data_sender_buf
    BY <1>4
    DEF LinkComesUp, LinkGoesDown, Resets, Dispatches, ServerConnects, ServerDispatches, Accepts,
        TakesId, clientVars, sendVars
<1>5. ASSUME NEW c \in Conns, ClientTask(c) \/ ServerTask(c), ~Connects(c), ~Closes(c)
      PROVE  data_sender_buf' = data_sender_buf
    BY <1>5
    DEF ClientTask, ServerTask, Registers, Receives, Fails, Drops, DialSucceeds, Binds, Serves,
        DialFails,
        ServerCloses, Leaves, clientVars, sendVars
<1>6. ASSUME UNCHANGED vars PROVE data_sender_buf' = data_sender_buf
    BY <1>6 DEF vars, clientVars, sendVars
<1> QED
    BY <1>1, <1>2, <1>3, <1>4, <1>5, <1>6 DEF Next, Step

LEMMA AnsweredFrom ==
    ASSUME Types, IdsInv, AskInv, [Next]_vars
    PROVE  \A i \in 1..Len(rx') :
              \/ \E j \in 1..Len(rx) : rx'[i] = rx[j]
              \/ \E c \in Conns, type \in FrameTypes :
                    /\ server_pc[c] # "none" /\ rx'[i] = Frame(type, c)
                    /\ type = "ConnectOk" => server_pc'[c] = "relay"
<1> DEFINE From1(i) ==
              \/ \E j \in 1..Len(rx) : rx'[i] = rx[j]
              \/ \E c \in Conns, type \in FrameTypes :
                    /\ server_pc[c] # "none" /\ rx'[i] = Frame(type, c)
                    /\ type = "ConnectOk" => server_pc'[c] = "relay"
<1> SUFFICES ASSUME NEW i \in 1..Len(rx') PROVE From1(i)
    OBVIOUS
<1>1. CASE rx' = rx
    BY <1>1
<1>2. CASE LinkGoesDown
  <2>1. PICK k \in 0..Len(rx) : rx' = SubSeq(rx, 1, k)
    BY <1>2 DEF LinkGoesDown
  <2>2. rx'[i] = rx[i] /\ i \in 1..Len(rx)
    BY <2>1, PrefixProps DEF Types, QueuesOK
  <2> QED
    BY <2>2
<1>3. CASE Dispatches
  <2>1. /\ Len(rx') = Len(rx) - 1 /\ Len(rx) \in Nat
        /\ \A j \in 1..Len(rx') : rx'[j] = rx[j + 1]
    BY <1>3, TailProps DEF Dispatches, Types, QueuesOK
  <2>2. i + 1 \in 1..Len(rx) /\ rx'[i] = rx[i + 1]
    BY <2>1
  <2> QED
    BY <2>2
<1>4. ASSUME NEW c \in Conns, ServerTask(c) PROVE From1(i)
  <2>1. PICK type \in FrameTypes :
            Answers(type, c) /\ (type = "ConnectOk" => server_pc' = [server_pc EXCEPT ![c] = "relay"])
    BY <1>4 DEF ServerTask, DialSucceeds, Binds, Serves, DialFails, ServerCloses, Leaves, FrameTypes
  <2>2. server_pc[c] # "none" /\ c <= accepted
    BY <1>4 DEF ServerTask, DialSucceeds, Binds, Serves, DialFails, ServerCloses, AskInv, HasAsked,
                IdsInv
  <2>3. type = "ConnectOk" => server_pc'[c] = "relay"
    BY <2>1 DEF Types, TypeOK
  <2> QED
    BY <2>1, <2>2, <2>3, AnswersProps
<1>5. ASSUME \/ LinkComesUp \/ Resets \/ Sender \/ ServerConnects \/ ServerDispatches
             \/ \E t \in Tunnels : Accepts(t) \/ TakesId(t)
      PROVE  rx' = rx
    BY <1>5
    DEF LinkComesUp, Resets, Sender, ServerConnects, ServerDispatches, Accepts, TakesId
<1>6. ASSUME NEW c \in Conns, ClientTask(c) PROVE rx' = rx
    BY <1>6 DEF ClientTask, Registers, Connects, Receives, Fails, Closes, Drops
<1>7. ASSUME UNCHANGED vars PROVE rx' = rx
    BY <1>7 DEF vars
<1> QED
    BY <1>1, <1>2, <1>3, <1>4, <1>5, <1>6, <1>7 DEF Next, Step

LEMMA ReceivedFrom ==
    ASSUME Types, [Next]_vars
    PROVE  \A c \in Conns : \A i \in 1..Len(inbox'[c]) :
              \/ \E j \in 1..Len(inbox[c]) : inbox'[c][i] = inbox[c][j]
              \/ \E j \in 1..Len(rx) : inbox'[c][i] = rx[j] /\ sessions[rx[j].sid] = c /\ rx[j] \in Frames
<1> DEFINE From1(c, i) ==
              \/ \E j \in 1..Len(inbox[c]) : inbox'[c][i] = inbox[c][j]
              \/ \E j \in 1..Len(rx) : inbox'[c][i] = rx[j] /\ sessions[rx[j].sid] = c /\ rx[j] \in Frames
<1> SUFFICES ASSUME NEW c \in Conns, NEW i \in 1..Len(inbox'[c]) PROVE From1(c, i)
    OBVIOUS
<1>q. inbox \in [Conns -> Seq(Frames)] /\ inbox[c] \in Seq(Frames) /\ Len(<<>>) = 0
    BY EmptySeq DEF Types, QueuesOK
<1>1. CASE inbox'[c] = inbox[c]
    BY <1>1
<1>2. CASE Dispatches /\ inbox'[c] # inbox[c]
  <2>1. Head(rx) = rx[1] /\ Head(rx) \in Frames /\ 1 \in 1..Len(rx)
    BY <1>2, TailProps DEF Dispatches, Types, QueuesOK
  <2>2. sessions[Head(rx).sid] = c /\ inbox'[c] = Append(inbox[c], Head(rx))
    BY <1>q, <1>2 DEF Dispatches
  <2>3. /\ Len(inbox'[c]) = Len(inbox[c]) + 1 /\ Len(inbox[c]) \in Nat
        /\ \A j \in 1..Len(inbox[c]) : inbox'[c][j] = inbox[c][j]
        /\ inbox'[c][Len(inbox[c]) + 1] = Head(rx)
    BY <1>q, <2>1, <2>2, AppendProps
  <2>4. CASE i = Len(inbox[c]) + 1
    BY <2>1, <2>2, <2>3, <2>4
  <2>5. CASE i # Len(inbox[c]) + 1
    <3>1. i \in 1..Len(inbox[c])
      BY <2>3, <2>5
    <3> QED
      BY <2>3, <3>1
  <2> QED
    BY <2>4, <2>5
<1>3. ASSUME NEW d \in Conns, ClientTask(d) PROVE From1(c, i)
  <2>1. CASE Receives(d) /\ c = d
    <3>1. /\ Len(inbox'[c]) = Len(inbox[c]) - 1 /\ Len(inbox[c]) \in Nat
          /\ \A j \in 1..Len(inbox'[c]) : inbox'[c][j] = inbox[c][j + 1]
      BY <1>q, <2>1, TailProps DEF Receives
    <3>2. i + 1 \in 1..Len(inbox[c]) /\ inbox'[c][i] = inbox[c][i + 1]
      BY <3>1
    <3> QED
      BY <3>2
  <2>2. CASE (Fails(d) \/ Closes(d)) /\ c = d
    BY <1>q, <2>2 DEF Fails, Closes
  <2>3. CASE c # d
    BY <1>q, <1>1, <1>3, <2>3
    DEF ClientTask, Registers, Connects, Receives, Fails, Closes, Drops
  <2>4. CASE Registers(d) \/ Connects(d) \/ Drops(d)
    BY <1>1, <2>4 DEF Registers, Connects, Drops
  <2> QED
    BY <1>3, <2>1, <2>2, <2>3, <2>4 DEF ClientTask
<1>4. ASSUME \/ LinkComesUp \/ LinkGoesDown \/ Resets \/ Sender \/ ServerConnects \/ ServerDispatches
             \/ (\E t \in Tunnels : Accepts(t) \/ TakesId(t)) \/ \E d \in Conns : ServerTask(d)
      PROVE  inbox' = inbox
    BY <1>4
    DEF LinkComesUp, LinkGoesDown, Resets, Sender, ServerConnects, ServerDispatches, Accepts, TakesId,
        ServerTask, DialSucceeds, Binds, Serves, DialFails, ServerCloses, Leaves, clientVars, connVars
<1>5. ASSUME UNCHANGED vars PROVE inbox' = inbox
    BY <1>5 DEF vars, clientVars, connVars
<1> QED
    BY <1>1, <1>2, <1>3, <1>4, <1>5 DEF Next, Step

LEMMA ServerReceivedFrom ==
    ASSUME Types, FramesInv, [Next]_vars
    PROVE  \A c \in Conns : \A i \in 1..Len(server_inbox'[c]) :
              \/ \E j \in 1..Len(server_inbox[c]) : server_inbox'[c][i] = server_inbox[c][j]
              \/ \E l \in Links :
                    server_inbox'[c][i] = Event /\ server_sessions[l][Event.sid] = c
                    /\ Event \in Frames /\ Genuine(Event)
<1> DEFINE From1(c, i) ==
              \/ \E j \in 1..Len(server_inbox[c]) : server_inbox'[c][i] = server_inbox[c][j]
              \/ \E l \in Links :
                    server_inbox'[c][i] = Event /\ server_sessions[l][Event.sid] = c
                    /\ Event \in Frames /\ Genuine(Event)
<1> SUFFICES ASSUME NEW c \in Conns, NEW i \in 1..Len(server_inbox'[c]) PROVE From1(c, i)
    OBVIOUS
<1>q. server_inbox \in [Conns -> Seq(Frames)] /\ server_inbox[c] \in Seq(Frames) /\ Len(<<>>) = 0
    BY EmptySeq DEF Types, QueuesOK
<1>1. CASE server_inbox'[c] = server_inbox[c]
    BY <1>1
<1>2. CASE ServerDispatches /\ server_inbox'[c] # server_inbox[c]
  <2>1. From \in Links /\ Event \in Frames /\ Genuine(Event)
    BY <1>2, TakenEvent DEF ServerDispatches
  <2>2. server_sessions[From][Event.sid] = c /\ server_inbox'[c] = Append(server_inbox[c], Event)
    BY <1>q, <1>2 DEF ServerDispatches
  <2>3. /\ Len(server_inbox'[c]) = Len(server_inbox[c]) + 1 /\ Len(server_inbox[c]) \in Nat
        /\ \A j \in 1..Len(server_inbox[c]) : server_inbox'[c][j] = server_inbox[c][j]
        /\ server_inbox'[c][Len(server_inbox[c]) + 1] = Event
    BY <1>q, <2>1, <2>2, AppendProps
  <2>4. CASE i = Len(server_inbox[c]) + 1
    BY <2>1, <2>2, <2>3, <2>4
  <2>5. CASE i # Len(server_inbox[c]) + 1
    <3>1. i \in 1..Len(server_inbox[c])
      BY <2>3, <2>5
    <3> QED
      BY <2>3, <3>1
  <2> QED
    BY <2>4, <2>5
<1>3. ASSUME NEW d \in Conns, ServerTask(d) PROVE From1(c, i)
  <2>1. server_inbox' = server_inbox \/ server_inbox' = [server_inbox EXCEPT ![d] = <<>>]
    BY <1>3 DEF ServerTask, DialSucceeds, Binds, Serves, DialFails, ServerCloses, Leaves
  <2> QED
    BY <1>q, <1>1, <2>1
<1>4. ASSUME \/ LinkComesUp \/ LinkGoesDown \/ Resets \/ Dispatches \/ Sender \/ ServerConnects
             \/ (\E t \in Tunnels : Accepts(t) \/ TakesId(t)) \/ \E d \in Conns : ClientTask(d)
      PROVE  server_inbox' = server_inbox
    BY <1>4
    DEF LinkComesUp, LinkGoesDown, Resets, Dispatches, Sender, ServerConnects, Accepts, TakesId,
        ClientTask, Registers, Connects, Receives, Fails, Closes, Drops, serverVars, taskVars
<1>5. ASSUME UNCHANGED vars PROVE server_inbox' = server_inbox
    BY <1>5 DEF vars, serverVars, taskVars
<1> QED
    BY <1>1, <1>2, <1>3, <1>4, <1>5 DEF Next, Step

LEMMA DeliveredFrom ==
    ASSUME Types, [Next]_vars
    PROVE  \A i \in 1..Len(server_rx') :
              \/ \E j \in 1..Len(server_rx) : server_rx'[i] = server_rx[j]
              \/ \E j \in 1..Len(data_sender_buf) : server_rx'[i].frame = data_sender_buf[j]
<1> DEFINE From1(i) ==
              \/ \E j \in 1..Len(server_rx) : server_rx'[i] = server_rx[j]
              \/ \E j \in 1..Len(data_sender_buf) : server_rx'[i].frame = data_sender_buf[j]
<1> SUFFICES ASSUME NEW i \in 1..Len(server_rx') PROVE From1(i)
    OBVIOUS
<1>1. CASE server_rx' = server_rx
    BY <1>1
<1>2. CASE Sender /\ server_rx' # server_rx
  <2> DEFINE e == [link |-> latest, frame |-> Head(data_sender_buf)]
  <2>1. /\ Head(data_sender_buf) = data_sender_buf[1] /\ Head(data_sender_buf) \in Frames
        /\ 1 \in 1..Len(data_sender_buf)
    BY <1>2, TailProps DEF Sender, Types, QueuesOK
  <2>2. server_rx' = Append(server_rx, e) /\ latest \in Links
    BY <1>2, SessionsAssumption DEF Sender, Types, TypeOK, None, Links
  <2>3. e \in [link : Links, frame : Frames] /\ e.frame = data_sender_buf[1]
    BY <2>1, <2>2
  <2> HIDE DEF e
  <2>4. /\ Len(server_rx') = Len(server_rx) + 1 /\ Len(server_rx) \in Nat
        /\ \A j \in 1..Len(server_rx) : server_rx'[j] = server_rx[j]
        /\ server_rx'[Len(server_rx) + 1] = e
    BY <2>2, <2>3, AppendProps DEF Types, QueuesOK
  <2>5. CASE i = Len(server_rx) + 1
    BY <2>1, <2>3, <2>4, <2>5
  <2>6. CASE i # Len(server_rx) + 1
    <3>1. i \in 1..Len(server_rx)
      BY <2>4, <2>6
    <3> QED
      BY <2>4, <3>1
  <2> QED
    BY <2>5, <2>6
<1>3. CASE ServerConnects \/ ServerDispatches
  <2>1. /\ Len(server_rx') = Len(server_rx) - 1 /\ Len(server_rx) \in Nat
        /\ \A j \in 1..Len(server_rx') : server_rx'[j] = server_rx[j + 1]
    BY <1>3, TailProps DEF ServerConnects, ServerDispatches, TakesEvent, Types, QueuesOK
  <2>2. i + 1 \in 1..Len(server_rx) /\ server_rx'[i] = server_rx[i + 1]
    BY <2>1
  <2> QED
    BY <2>2
<1>4. ASSUME \/ LinkComesUp \/ LinkGoesDown \/ Resets \/ Dispatches
             \/ (\E t \in Tunnels : Accepts(t) \/ TakesId(t))
             \/ \E d \in Conns : ClientTask(d) \/ ServerTask(d)
      PROVE  server_rx' = server_rx
    BY <1>4
    DEF LinkComesUp, LinkGoesDown, Resets, Dispatches, Accepts, TakesId, ClientTask, Registers,
        Connects, Receives, Fails, Closes, Drops, ServerTask, DialSucceeds, Binds, Serves,
        DialFails, ServerCloses,
        Leaves
<1>5. ASSUME UNCHANGED vars PROVE server_rx' = server_rx
    BY <1>5 DEF vars
<1> QED
    BY <1>1, <1>2, <1>3, <1>4, <1>5 DEF Next, Step

-----------------------------------------------------------------------------
(* The frames.                                                             *)
LEMMA FramesInit == Init => FramesInv
<1> SUFFICES ASSUME Init PROVE FramesInv
    OBVIOUS
<1>1. Len(<<>>) = 0
    BY EmptySeq
<1> QED
    BY <1>1 DEF Init, FramesInv

(* Genuine, read in the state after a step.                                *)
GenuineAfter(f) ==
    /\ f.conn <= accepted' /\ pc'[f.conn] \notin {"none", "accepted"}
    /\ f.sid = IdOf(f.conn)
    /\ f.type = "Connect" => f.payload = Payload(via'[f.conn])

LEMMA GenuineStays ==
    ASSUME Types, BoundInv, IdsInv, FramesInv, AskInv, [Next]_vars, NEW f \in Frames, Genuine(f)
    PROVE  GenuineAfter(f)
<1>1. f.conn \in Conns /\ accepted \in Nat /\ accepted' \in Nat /\ f.conn \in Nat
    BY TypesStep DEF Frames, Types, TypeOK, Conns
<1> QED
    BY <1>1, ClientOnward DEF Genuine, GenuineAfter, HasAsked

LEMMA GenuineSent ==
    ASSUME Types, BoundInv, IdsInv, FramesInv, AskInv, [Next]_vars,
           NEW c \in Conns, c <= accepted, HasAsked(c)', NEW type \in FrameTypes
    PROVE  Frame(type, c) \in Frames /\ GenuineAfter(Frame(type, c))
<1> DEFINE f == Frame(type, c)
<1>1. /\ f \in Frames /\ f.type = type /\ f.conn = c /\ f.sid = IdOf(c)
      /\ type = "Connect" => f.payload = Payload(via[c])
    BY FrameIsFrame
<1>2. accepted <= accepted' /\ via'[c] = via[c]
    BY ClientOnward
<1>3. c \in Nat /\ accepted \in Nat /\ accepted' \in Nat
    BY TypesStep DEF Types, TypeOK, Conns
<1> HIDE DEF f
<1>4. GenuineAfter(f)
    BY <1>1, <1>2, <1>3 DEF GenuineAfter, HasAsked
<1> QED
    BY <1>1, <1>4 DEF f

LEMMA FramesStep ==
    Types /\ BoundInv /\ IdsInv /\ FramesInv /\ AskInv /\ [Next]_vars => FramesInv'
<1> SUFFICES ASSUME Types, BoundInv, IdsInv, FramesInv, AskInv, [Next]_vars PROVE FramesInv'
    OBVIOUS
<1>q. /\ data_sender_buf \in Seq(Frames) /\ rx \in Seq(Frames)
      /\ server_rx \in Seq([link : Links, frame : Frames])
      /\ \A c \in Conns : inbox[c] \in Seq(Frames) /\ server_inbox[c] \in Seq(Frames)
    BY DEF Types, QueuesOK
<1>1. ASSUME NEW i \in 1..Len(data_sender_buf) PROVE GenuineAfter(data_sender_buf[i])
  <2>1. data_sender_buf[i] \in Frames /\ Genuine(data_sender_buf[i])
    BY <1>q, ElementOfSeq DEF FramesInv
  <2> QED
    BY <2>1, GenuineStays
<1>2. ASSUME NEW i \in 1..Len(rx) PROVE rx[i] \in Frames /\ Genuine(rx[i]) /\ GenuineAfter(rx[i])
  <2>1. rx[i] \in Frames /\ Genuine(rx[i])
    BY <1>q, ElementOfSeq DEF FramesInv
  <2> QED
    BY <2>1, GenuineStays
<1>3. ASSUME NEW i \in 1..Len(data_sender_buf') PROVE GenuineAfter(data_sender_buf'[i])
    BY <1>1, SentFrom, GenuineSent
<1>4. ASSUME NEW i \in 1..Len(rx') PROVE GenuineAfter(rx'[i])
  <2>1. ASSUME NEW c \in Conns, NEW type \in FrameTypes, server_pc[c] # "none", rx'[i] = Frame(type, c)
        PROVE  GenuineAfter(rx'[i])
    <3>1. HasAsked(c) /\ c <= accepted
      BY <2>1 DEF AskInv, HasAsked, IdsInv
    <3>2. HasAsked(c)'
      BY <3>1, ClientOnward
    <3> QED
      BY <2>1, <3>1, <3>2, GenuineSent
  <2> QED
    BY <1>2, <2>1, AnsweredFrom
<1>5. ASSUME NEW i \in 1..Len(server_rx') PROVE GenuineAfter(server_rx'[i].frame)
  <2>1. ASSUME NEW j \in 1..Len(server_rx) PROVE GenuineAfter(server_rx[j].frame)
    <3>1. server_rx[j] \in [link : Links, frame : Frames] /\ Genuine(server_rx[j].frame)
      BY <1>q, ElementOfSeq DEF FramesInv
    <3> QED
      BY <3>1, GenuineStays
  <2> QED
    BY <1>1, <2>1, DeliveredFrom
<1>6. ASSUME NEW c \in Conns, NEW i \in 1..Len(inbox'[c])
      PROVE  inbox'[c][i].sid = IdOf(c) /\ GenuineAfter(inbox'[c][i])
  <2>1. ASSUME NEW j \in 1..Len(inbox[c]) PROVE inbox[c][j].sid = IdOf(c) /\ GenuineAfter(inbox[c][j])
    <3>1. inbox[c][j] \in Frames /\ inbox[c][j].sid = IdOf(c) /\ Genuine(inbox[c][j])
      BY <1>q, ElementOfSeq DEF FramesInv
    <3> QED
      BY <3>1, GenuineStays
  <2>2. ASSUME NEW j \in 1..Len(rx), sessions[rx[j].sid] = c PROVE rx[j].sid = IdOf(c)
    <3>1. rx[j].sid \in Sids /\ c # None
      BY <1>2 DEF Frames, Conns, None
    <3> QED
      BY <2>2, <3>1 DEF IdsInv
  <2> QED
    BY <1>2, <2>1, <2>2, ReceivedFrom
<1>7. ASSUME NEW c \in Conns, NEW i \in 1..Len(server_inbox'[c])
      PROVE  server_inbox'[c][i].sid = IdOf(c) /\ GenuineAfter(server_inbox'[c][i])
  <2>1. ASSUME NEW j \in 1..Len(server_inbox[c])
        PROVE  server_inbox[c][j].sid = IdOf(c) /\ GenuineAfter(server_inbox[c][j])
    <3>1. server_inbox[c][j] \in Frames /\ server_inbox[c][j].sid = IdOf(c) /\ Genuine(server_inbox[c][j])
      BY <1>q, ElementOfSeq DEF FramesInv
    <3> QED
      BY <3>1, GenuineStays
  <2>2. ASSUME NEW l \in Links, server_sessions[l][Event.sid] = c, Event \in Frames, Genuine(Event)
        PROVE  Event.sid = IdOf(c) /\ GenuineAfter(Event)
    <3>1. Event.sid \in Sids /\ c # None
      BY <2>2 DEF Frames, Conns, None
    <3>2. Event.sid = IdOf(c)
      BY <2>2, <3>1 DEF IdsInv
    <3> QED
      BY <2>2, <3>2, GenuineStays
  <2> QED
    BY <2>1, <2>2, ServerReceivedFrom
<1> QED
    BY <1>3, <1>4, <1>5, <1>6, <1>7 DEF FramesInv, Genuine, GenuineAfter, HasAsked, IdOf

-----------------------------------------------------------------------------
(* The CONNECTs on their way: AskInv of a channel q, the server's queue r  *)
(* and the places tasks of the server's tasks.                             *)
AsksOnce(q, r, tasks) ==
    /\ \A i \in 1..Len(q) : Asks(q[i]) =>
          /\ tasks[q[i].conn] = "none"
          /\ \A j \in 1..Len(q) : Asks(q[j]) /\ q[j].conn = q[i].conn => j = i
          /\ \A j \in 1..Len(r) : Asks(r[j].frame) => r[j].frame.conn # q[i].conn
    /\ \A i \in 1..Len(r) : Asks(r[i].frame) =>
          /\ tasks[r[i].frame.conn] = "none"
          /\ \A j \in 1..Len(r) :
                Asks(r[j].frame) /\ r[j].frame.conn = r[i].frame.conn => j = i
TaskAsked == \A c \in Conns : server_pc[c] # "none" =>
                HasAsked(c) /\ server_link[c] \in Links /\ target[c] = Wanted(via[c])

LEMMA AskParts == AskInv <=> AsksOnce(data_sender_buf, server_rx, server_pc) /\ TaskAsked
    BY DEF AskInv, AsksOnce, TaskAsked

(* The queues of AsksOnce.                                                 *)
Delivered == [link : Links, frame : Frames]

LEMMA AskSent ==
    ASSUME NEW q \in Seq(Frames), NEW r \in Seq(Delivered), NEW tasks, NEW f \in Frames,
           AsksOnce(q, r, tasks),
           Asks(f) => /\ tasks[f.conn] = "none"
                      /\ \A j \in 1..Len(q) : Asks(q[j]) => q[j].conn # f.conn
                      /\ \A j \in 1..Len(r) : Asks(r[j].frame) => r[j].frame.conn # f.conn
    PROVE  AsksOnce(Append(q, f), r, tasks)
<1> DEFINE p == Append(q, f)
           n == Len(q)
<1>1. Len(p) = n + 1 /\ n \in Nat /\ p[n + 1] = f /\ \A i \in 1..n : p[i] = q[i]
    BY AppendProps
<1>2. \A i \in 1..Len(p) : i \in 1..n \/ i = n + 1
    BY <1>1
<1> HIDE DEF p, n
<1>3. AsksOnce(p, r, tasks)
    BY <1>1, <1>2 DEF AsksOnce, n
<1> QED
    BY <1>3 DEF p

LEMMA AskDropped ==
    ASSUME NEW q \in Seq(Frames), NEW r, NEW tasks, q # <<>>, AsksOnce(q, r, tasks)
    PROVE  AsksOnce(Tail(q), r, tasks)
<1>1. /\ Len(Tail(q)) = Len(q) - 1 /\ Len(q) \in Nat
      /\ \A i \in 1..Len(Tail(q)) : Tail(q)[i] = q[i + 1]
    BY TailProps
<1>2. \A i \in 1..Len(Tail(q)) : i \in Nat /\ i + 1 \in 1..Len(q)
    BY <1>1
<1>3. \A i, j \in Nat : i + 1 = j + 1 => i = j
    OBVIOUS
<1> QED
    BY <1>1, <1>2, <1>3 DEF AsksOnce

LEMMA AskTaken ==
    ASSUME NEW q, NEW r \in Seq(Delivered), NEW tasks, r # <<>>, AsksOnce(q, r, tasks)
    PROVE  AsksOnce(q, Tail(r), tasks)
<1>1. /\ Len(Tail(r)) = Len(r) - 1 /\ Len(r) \in Nat
      /\ \A i \in 1..Len(Tail(r)) : Tail(r)[i] = r[i + 1]
    BY TailProps
<1>2. \A i \in 1..Len(Tail(r)) : i \in Nat /\ i + 1 \in 1..Len(r)
    BY <1>1
<1>3. \A i, j \in Nat : i + 1 = j + 1 => i = j
    OBVIOUS
<1> QED
    BY <1>1, <1>2, <1>3 DEF AsksOnce

LEMMA AskDelivered ==
    ASSUME NEW q \in Seq(Frames), NEW r \in Seq(Delivered), NEW tasks, NEW e \in Delivered,
           q # <<>>, e.frame = Head(q), AsksOnce(q, r, tasks)
    PROVE  AsksOnce(Tail(q), Append(r, e), tasks)
<1> DEFINE s == Append(r, e)
           n == Len(r)
<1>1. Len(s) = n + 1 /\ n \in Nat /\ s[n + 1] = e /\ \A i \in 1..n : s[i] = r[i]
    BY AppendProps
<1>2. \A i \in 1..Len(s) : i \in 1..n \/ i = n + 1
    BY <1>1
<1>3. /\ Head(q) = q[1] /\ Len(Tail(q)) = Len(q) - 1 /\ Len(q) \in Nat \ {0}
      /\ \A i \in 1..Len(Tail(q)) : Tail(q)[i] = q[i + 1]
    BY TailProps
<1>4. 1 \in 1..Len(q) /\ \A i \in 1..Len(Tail(q)) : i \in Nat /\ i + 1 \in 1..Len(q) /\ i + 1 # 1
    BY <1>3
<1>5. \A i, j \in Nat : i + 1 = j + 1 => i = j
    OBVIOUS
<1>6. e.frame = q[1]
    BY <1>3
<1> HIDE DEF s, n
<1>7. ASSUME NEW i \in 1..Len(Tail(q)), Asks(Tail(q)[i])
      PROVE  /\ tasks[Tail(q)[i].conn] = "none"
             /\ \A j \in 1..Len(Tail(q)) :
                   Asks(Tail(q)[j]) /\ Tail(q)[j].conn = Tail(q)[i].conn => j = i
             /\ \A j \in 1..Len(s) : Asks(s[j].frame) => s[j].frame.conn # Tail(q)[i].conn
  <2>1. Asks(q[i + 1]) /\ i + 1 \in 1..Len(q) /\ i + 1 # 1 /\ Tail(q)[i] = q[i + 1]
    BY <1>3, <1>4, <1>7
  <2>2. ASSUME NEW j \in 1..Len(s), Asks(s[j].frame) PROVE s[j].frame.conn # q[i + 1].conn
    <3>1. CASE j \in 1..n
      <4>1. s[j] = r[j] /\ j \in 1..Len(r) /\ Asks(r[j].frame)
        BY <1>1, <2>2, <3>1 DEF n
      <4>2. r[j].frame.conn # q[i + 1].conn
        BY <2>1, <4>1 DEF AsksOnce
      <4> QED
        BY <4>1, <4>2
    <3>2. CASE j = n + 1
      <4>1. s[j].frame = q[1] /\ Asks(q[1])
        BY <1>1, <1>6, <2>2, <3>2
      <4>2. q[1].conn # q[i + 1].conn
        BY <1>4, <2>1, <4>1 DEF AsksOnce
      <4> QED
        BY <4>1, <4>2
    <3> QED
      BY <1>2, <3>1, <3>2
  <2>3. ASSUME NEW j \in 1..Len(Tail(q)), Asks(Tail(q)[j]), Tail(q)[j].conn = Tail(q)[i].conn
        PROVE  j = i
    BY <1>3, <1>4, <1>5, <2>1, <2>3 DEF AsksOnce
  <2> QED
    BY <2>1, <2>2, <2>3 DEF AsksOnce
<1>8. ASSUME NEW i \in 1..Len(s), Asks(s[i].frame)
      PROVE  /\ tasks[s[i].frame.conn] = "none"
             /\ \A j \in 1..Len(s) : Asks(s[j].frame) /\ s[j].frame.conn = s[i].frame.conn => j = i
  <2>1. ASSUME NEW j \in 1..n, Asks(s[j].frame), Asks(q[1])
        PROVE  s[j].frame.conn # q[1].conn
    BY <1>1, <1>4, <2>1 DEF AsksOnce, n
  <2>2. CASE i \in 1..n
    <3>1. s[i] = r[i] /\ i \in 1..Len(r) /\ Asks(r[i].frame)
      BY <1>1, <1>8, <2>2 DEF n
    <3>2. tasks[s[i].frame.conn] = "none"
      BY <3>1 DEF AsksOnce
    <3>3. ASSUME NEW j \in 1..Len(s), Asks(s[j].frame), s[j].frame.conn = s[i].frame.conn PROVE j = i
      <4>1. CASE j \in 1..n
        BY <1>1, <3>1, <3>3, <4>1 DEF AsksOnce, n
      <4>2. CASE j = n + 1
        BY <1>1, <1>6, <1>8, <2>1, <2>2, <3>3, <4>2
      <4> QED
        BY <1>2, <4>1, <4>2
    <3> QED
      BY <3>2, <3>3
  <2>3. CASE i = n + 1
    <3>1. s[i].frame = q[1] /\ Asks(q[1])
      BY <1>1, <1>6, <1>8, <2>3
    <3>2. tasks[s[i].frame.conn] = "none"
      BY <1>4, <3>1 DEF AsksOnce
    <3>3. ASSUME NEW j \in 1..Len(s), Asks(s[j].frame), s[j].frame.conn = s[i].frame.conn PROVE j = i
      BY <1>2, <2>1, <2>3, <3>1, <3>3
    <3> QED
      BY <3>2, <3>3
  <2> QED
    BY <1>2, <2>2, <2>3
<1>9. AsksOnce(Tail(q), s, tasks)
    BY <1>7, <1>8 DEF AsksOnce
<1> QED
    BY <1>9 DEF s

(* Once the server has the only CONNECT of a connection, its task may run. *)
LEMMA AskServed ==
    ASSUME NEW q, NEW r \in Seq(Delivered), NEW tasks, NEW new, r # <<>>, AsksOnce(q, r, tasks),
           Asks(r[1].frame),
           \A f \in Frames : f.conn # r[1].frame.conn => new[f.conn] = tasks[f.conn],
           \A i \in 1..Len(q) : q[i] \in Frames
    PROVE  AsksOnce(q, Tail(r), new)
<1>1. /\ Len(Tail(r)) = Len(r) - 1 /\ Len(r) \in Nat \ {0}
      /\ \A i \in 1..Len(Tail(r)) : Tail(r)[i] = r[i + 1]
    BY TailProps
<1>2. 1 \in 1..Len(r) /\ \A i \in 1..Len(Tail(r)) : i \in Nat /\ i + 1 \in 1..Len(r) /\ i + 1 # 1
    BY <1>1
<1>3. \A i \in 1..Len(r) : r[i].frame \in Frames
  <2>1. \A i \in 1..Len(r) : r[i] \in Delivered
    BY ElementOfSeq
  <2> QED
    BY <2>1 DEF Delivered
<1>4. AsksOnce(q, Tail(r), tasks)
    BY AskTaken
<1>5. \A i \in 1..Len(q) : Asks(q[i]) => q[i].conn # r[1].frame.conn
    BY <1>2 DEF AsksOnce
<1>6. \A i \in 1..Len(Tail(r)) : Asks(Tail(r)[i].frame) => Tail(r)[i].frame.conn # r[1].frame.conn
    BY <1>1, <1>2 DEF AsksOnce
<1>7. \A i \in 1..Len(Tail(r)) : Tail(r)[i].frame \in Frames
    BY <1>1, <1>2, <1>3
<1> QED
    BY <1>4, <1>5, <1>6, <1>7 DEF AsksOnce

LEMMA AskInit == Init => AskInv
<1> SUFFICES ASSUME Init PROVE AskInv
    OBVIOUS
<1>1. Len(<<>>) = 0
    BY EmptySeq
<1> QED
    BY <1>1 DEF Init, AskInv

LEMMA AskQueues ==
    ASSUME Types
    PROVE  /\ data_sender_buf \in Seq(Frames) /\ server_rx \in Seq(Delivered)
           /\ \A i \in 1..Len(data_sender_buf) : data_sender_buf[i] \in Frames
           /\ \A i \in 1..Len(server_rx) : server_rx[i] \in Delivered
    BY ElementOfSeq DEF Types, QueuesOK, Delivered

(* A connection asks when nothing about it is under way.                   *)
LEMMA AskClientTask ==
    ASSUME Types, IdsInv, FramesInv, AskInv, NEW c \in Conns, ClientTask(c)
    PROVE  AsksOnce(data_sender_buf', server_rx', server_pc')
<1>q. AsksOnce(data_sender_buf, server_rx, server_pc)
    BY AskParts
<1>0. server_rx' = server_rx /\ server_pc' = server_pc
    BY DEF ClientTask, Registers, Connects, Receives, Fails, Closes, Drops, serverVars, taskVars
<1>1. CASE Connects(c)
  <2> DEFINE f == Frame("Connect", c)
  <2>1. c <= accepted /\ ~HasAsked(c) /\ Send("Connect", c)
    BY <1>1 DEF Connects, HasAsked, IdsInv
  <2>2. f \in Frames /\ f.conn = c
    BY <2>1, FrameIsFrame DEF FrameTypes
  <2>3. server_pc[c] = "none"
    BY <2>1 DEF AskInv
  <2>4. /\ \A j \in 1..Len(data_sender_buf) : data_sender_buf[j].conn # c
        /\ \A j \in 1..Len(server_rx) : server_rx[j].frame.conn # c
    BY <2>1 DEF FramesInv, Genuine
  <2>5. data_sender_buf' = Append(data_sender_buf, f)
    BY <2>1 DEF Send
  <2> HIDE DEF f
  <2> QED
    BY <1>q, <1>0, <2>2, <2>3, <2>4, <2>5, AskSent, AskQueues
<1>2. CASE Closes(c)
  <2> DEFINE f == Frame("Close", c)
  <2>1. c <= accepted /\ Send("Close", c)
    BY <1>2 DEF Closes, IdsInv
  <2>2. f \in Frames /\ ~Asks(f)
    BY <2>1, FrameIsFrame DEF FrameTypes, Asks
  <2>3. data_sender_buf' = Append(data_sender_buf, f)
    BY <2>1 DEF Send
  <2> HIDE DEF f
  <2> QED
    BY <1>q, <1>0, <2>2, <2>3, AskSent, AskQueues
<1>3. CASE Registers(c) \/ Receives(c) \/ Fails(c) \/ Drops(c)
  <2>1. data_sender_buf' = data_sender_buf
    BY <1>3 DEF Registers, Receives, Fails, Drops, sendVars
  <2> QED
    BY <1>q, <1>0, <2>1
<1> QED
    BY <1>1, <1>2, <1>3 DEF ClientTask

LEMMA AskSender ==
    ASSUME Types, AskInv, Sender
    PROVE  AsksOnce(data_sender_buf', server_rx', server_pc')
<1>q. AsksOnce(data_sender_buf, server_rx, server_pc)
    BY AskParts
<1>1. data_sender_buf # <<>> /\ data_sender_buf' = Tail(data_sender_buf) /\ server_pc' = server_pc
    BY DEF Sender, serverVars, taskVars
<1>2. CASE server_rx' = server_rx
    BY <1>q, <1>1, <1>2, AskDropped, AskQueues
<1>3. CASE server_rx' # server_rx
  <2> DEFINE e == [link |-> latest, frame |-> Head(data_sender_buf)]
  <2>1. latest \in Links /\ server_rx' = Append(server_rx, e)
    BY <1>3, SessionsAssumption DEF Sender, Types, TypeOK, None, Links
  <2>2. Head(data_sender_buf) \in Frames
    BY <1>1, TailProps DEF Types, QueuesOK
  <2>3. e \in Delivered /\ e.frame = Head(data_sender_buf)
    BY <2>1, <2>2 DEF Delivered
  <2> HIDE DEF e
  <2> QED
    BY <1>q, <1>1, <2>1, <2>3, AskDelivered, AskQueues
<1> QED
    BY <1>2, <1>3

LEMMA AskServer ==
    ASSUME Types, FramesInv, AskInv, ServerConnects \/ ServerDispatches \/ \E c \in Conns : ServerTask(c)
    PROVE  AsksOnce(data_sender_buf', server_rx', server_pc')
<1>q. AsksOnce(data_sender_buf, server_rx, server_pc)
    BY AskParts
<1>0. data_sender_buf' = data_sender_buf
    BY DEF ServerConnects, ServerDispatches, ServerTask, DialSucceeds, Binds, Serves, DialFails,
           ServerCloses, Leaves,
           clientVars, sendVars
<1>1. CASE ServerConnects
  <2>1. server_rx # <<>> /\ server_rx' = Tail(server_rx) /\ TakesEvent
    BY <1>1 DEF ServerConnects, TakesEvent
  <2>2. Event = server_rx[1].frame /\ Asks(Event) /\ Event \in Frames
    BY <1>1, <2>1, TakenEvent DEF ServerConnects, Event, Asks
  <2>3. server_pc' = [server_pc EXCEPT ![Event.conn] = "dialing"]
    BY <1>1 DEF ServerConnects
  <2>4. \A f \in Frames : f.conn # Event.conn => server_pc'[f.conn] = server_pc[f.conn]
    BY <2>3 DEF Types, TypeOK, Frames
  <2>5. /\ data_sender_buf \in Seq(Frames) /\ server_rx \in Seq(Delivered)
        /\ \A i \in 1..Len(data_sender_buf) : data_sender_buf[i] \in Frames
    BY AskQueues
  <2> QED
    BY <1>q, <1>0, <2>1, <2>2, <2>4, <2>5, AskServed
<1>2. CASE ServerDispatches
  <2>1. server_rx # <<>> /\ server_rx' = Tail(server_rx) /\ server_pc' = server_pc
    BY <1>2 DEF ServerDispatches, TakesEvent
  <2> QED
    BY <1>q, <1>0, <2>1, AskTaken, AskQueues
<1>3. ASSUME NEW c \in Conns, ServerTask(c) PROVE AsksOnce(data_sender_buf', server_rx', server_pc')
  <2>1. server_rx' = server_rx /\ server_pc[c] # "none"
    BY <1>3 DEF ServerTask, DialSucceeds, Binds, Serves, DialFails, ServerCloses, Leaves
  <2>2. \A d \in Conns : d # c => server_pc'[d] = server_pc[d]
    BY <1>3 DEF ServerTask, DialSucceeds, Binds, Serves, DialFails, ServerCloses, Leaves, Types, TypeOK
  <2>3. /\ \A i \in 1..Len(data_sender_buf) : data_sender_buf[i].conn \in Conns
        /\ \A i \in 1..Len(server_rx) : server_rx[i].frame.conn \in Conns
    BY AskQueues DEF Frames, Delivered
  <2> QED
    BY <1>q, <1>0, <2>1, <2>2, <2>3 DEF AsksOnce
<1> QED
    BY <1>1, <1>2, <1>3

(* A task of the server is for a connection that asked, and stays so.      *)
LEMMA TaskAskedStep ==
    ASSUME Types, BoundInv, IdsInv, FramesInv, AskInv, [Next]_vars
    PROVE  TaskAsked'
<1> SUFFICES ASSUME NEW c \in Conns, server_pc'[c] # "none"
             PROVE  HasAsked(c)' /\ server_link'[c] \in Links /\ target'[c] = Wanted(via'[c])
    BY DEF TaskAsked
<1>q. /\ server_pc \in [Conns -> {"none", "dialing", "relay", "refused", "ended"}]
      /\ server_link \in [Conns -> {None} \cup Links] /\ target \in [Conns -> Targets \cup {Invalid}]
    BY DEF Types, TypeOK, QueuesOK
<1>1. CASE server_pc[c] # "none" /\ server_link'[c] = server_link[c] /\ target'[c] = target[c]
  <2>1. HasAsked(c) /\ c <= accepted /\ server_link[c] \in Links /\ target[c] = Wanted(via[c])
    BY <1>1 DEF AskInv, HasAsked, IdsInv
  <2> QED
    BY <1>1, <2>1, ClientOnward
<1>2. CASE ServerConnects
  <2>1. Event \in Frames /\ From \in Links /\ Genuine(Event)
    BY <1>2, TakenEvent DEF ServerConnects
  <2>2. Event.conn \in Conns /\ Event.conn <= accepted /\ HasAsked(Event.conn)
    BY <2>1 DEF Frames, Genuine
  <2>3. via' = via
    BY <1>2 DEF ServerConnects, clientVars, acceptVars
  <2>4. CASE c = Event.conn
    <3>1. target'[c] = Wanted(via[c]) /\ server_link'[c] = From
      BY <1>q, <1>2, <2>1, <2>2, <2>4, EventIsWanted DEF ServerConnects
    <3> QED
      BY <2>1, <2>2, <2>3, <2>4, <3>1, ClientOnward
  <2>5. CASE c # Event.conn
    BY <1>q, <1>1, <1>2, <2>5 DEF ServerConnects
  <2> QED
    BY <2>4, <2>5
<1>3. ASSUME NEW d \in Conns, ServerTask(d)
      PROVE  server_pc[c] # "none" /\ server_link' = server_link /\ target' = target
    BY <1>q, <1>3 DEF ServerTask, DialSucceeds, Binds, Serves, DialFails, ServerCloses, Leaves
<1>4. ASSUME \/ LinkComesUp \/ LinkGoesDown \/ Resets \/ Dispatches \/ Sender \/ ServerDispatches
             \/ (\E t \in Tunnels : Accepts(t) \/ TakesId(t)) \/ \E d \in Conns : ClientTask(d)
      PROVE  UNCHANGED <<server_pc, server_link, target>>
    BY <1>4
    DEF LinkComesUp, LinkGoesDown, Resets, Dispatches, Sender, ServerDispatches, Accepts, TakesId,
        ClientTask, Registers, Connects, Receives, Fails, Closes, Drops, serverVars, taskVars
<1>5. ASSUME UNCHANGED vars PROVE UNCHANGED <<server_pc, server_link, target>>
    BY <1>5 DEF vars, serverVars, taskVars
<1> QED
    BY <1>1, <1>2, <1>3, <1>4, <1>5 DEF Next, Step

LEMMA AskStep ==
    Types /\ BoundInv /\ IdsInv /\ FramesInv /\ AskInv /\ [Next]_vars => AskInv'
<1> SUFFICES ASSUME Types, BoundInv, IdsInv, FramesInv, AskInv, [Next]_vars PROVE AskInv'
    OBVIOUS
<1>2. ASSUME \/ LinkComesUp \/ LinkGoesDown \/ Resets \/ Dispatches
             \/ \E t \in Tunnels : Accepts(t) \/ TakesId(t)
      PROVE  UNCHANGED <<data_sender_buf, server_rx, server_pc>>
    BY <1>2
    DEF LinkComesUp, LinkGoesDown, Resets, Dispatches, Accepts, TakesId, sendVars, serverVars, taskVars
<1>3. ASSUME UNCHANGED vars PROVE UNCHANGED <<data_sender_buf, server_rx, server_pc>>
    BY <1>3 DEF vars, clientVars, sendVars, serverVars, taskVars
<1>4. AsksOnce(data_sender_buf, server_rx, server_pc)
    BY AskParts
<1>5. AsksOnce(data_sender_buf', server_rx', server_pc')
  <2>1. CASE UNCHANGED <<data_sender_buf, server_rx, server_pc>>
    BY <1>4, <2>1
  <2> QED
    BY <2>1, <1>2, <1>3, AskClientTask, AskSender, AskServer DEF Next, Step
<1>6. TaskAsked'
    BY TaskAskedStep
<1> QED
    BY <1>5, <1>6 DEF AskInv, AsksOnce, TaskAsked

-----------------------------------------------------------------------------
(* The answers.                                                            *)
LEMMA AnswerInit == Init => AnswerInv
<1> SUFFICES ASSUME Init PROVE AnswerInv
    OBVIOUS
<1>1. Len(<<>>) = 0
    BY EmptySeq
<1> QED
    BY <1>1 DEF Init, AnswerInv

LEMMA NoResultYet ==
    ASSUME Types, AnswerInv, [Next]_vars, NEW c \in Conns, pc'[c] \in {"none", "accepted", "waiting"}
    PROVE  result'[c] = "none"
<1>q. /\ pc \in [Conns -> {"none", "accepted", "waiting", "relay", "dropping", "ended"}]
      /\ result \in [Conns -> {"none", "Ok", "Err"}]
    BY DEF Types, TypeOK
<1>1. CASE pc'[c] = pc[c] /\ result'[c] = result[c]
    BY <1>1 DEF AnswerInv
<1>2. ASSUME NEW d \in Conns, ClientTask(d) PROVE result'[c] = "none"
  <2>1. CASE c = d
    BY <1>q, <1>2, <2>1
    DEF AnswerInv, ClientTask, Registers, Connects, Receives, Fails, Closes, Drops, Becomes
  <2>2. CASE c # d
    BY <1>q, <1>1, <1>2, <2>2
    DEF ClientTask, Registers, Connects, Receives, Fails, Closes, Drops, Becomes
  <2> QED
    BY <2>1, <2>2
<1>3. ASSUME \/ LinkComesUp \/ LinkGoesDown \/ Resets \/ Dispatches \/ Sender \/ ServerConnects
             \/ ServerDispatches \/ (\E t \in Tunnels : Accepts(t) \/ TakesId(t))
             \/ \E d \in Conns : ServerTask(d)
      PROVE  UNCHANGED <<pc, result>>
    BY <1>3
    DEF LinkComesUp, LinkGoesDown, Resets, Dispatches, Sender, ServerConnects, ServerDispatches,
        Accepts, TakesId, ServerTask, DialSucceeds, Binds, Serves, DialFails, ServerCloses, Leaves,
        clientVars, connVars
<1>4. ASSUME UNCHANGED vars PROVE UNCHANGED <<pc, result>>
    BY <1>4 DEF vars, clientVars, connVars
<1> QED
    BY <1>1, <1>2, <1>3, <1>4 DEF Next, Step

LEMMA AnswerStep ==
    Types /\ IdsInv /\ FramesInv /\ AskInv /\ AnswerInv /\ [Next]_vars => AnswerInv'
<1> SUFFICES ASSUME Types, IdsInv, FramesInv, AskInv, AnswerInv, [Next]_vars PROVE AnswerInv'
    OBVIOUS
<1> DEFINE ReachedAfter(f) == f.type = "ConnectOk" => server_pc'[f.conn] \in {"relay", "ended"}
<1>q. rx \in Seq(Frames) /\ \A c \in Conns : inbox[c] \in Seq(Frames)
    BY DEF Types, QueuesOK
<1>1. ASSUME NEW f \in Frames, Reached(f) PROVE ReachedAfter(f)
    BY <1>1, ServerOnward DEF Reached, Serving, Frames
<1>2. ASSUME NEW i \in 1..Len(rx) PROVE ReachedAfter(rx[i])
  <2>1. rx[i] \in Frames /\ Reached(rx[i])
    BY <1>q, ElementOfSeq DEF AnswerInv
  <2> QED
    BY <1>1, <2>1
<1>3. ASSUME NEW i \in 1..Len(rx') PROVE ReachedAfter(rx'[i])
  <2>1. ASSUME NEW c \in Conns, NEW type \in FrameTypes, rx'[i] = Frame(type, c),
               type = "ConnectOk" => server_pc'[c] = "relay"
        PROVE  ReachedAfter(rx'[i])
    BY <2>1 DEF Frame
  <2> QED
    BY <1>2, <2>1, AnsweredFrom
<1>4. ASSUME NEW c \in Conns, NEW i \in 1..Len(inbox'[c]) PROVE ReachedAfter(inbox'[c][i])
  <2>1. ASSUME NEW j \in 1..Len(inbox[c]) PROVE ReachedAfter(inbox[c][j])
    <3>1. inbox[c][j] \in Frames /\ Reached(inbox[c][j])
      BY <1>q, ElementOfSeq DEF AnswerInv
    <3> QED
      BY <1>1, <3>1
  <2>2. \/ \E j \in 1..Len(inbox[c]) : inbox'[c][i] = inbox[c][j]
        \/ \E j \in 1..Len(rx) : inbox'[c][i] = rx[j]
    BY ReceivedFrom
  <2> HIDE DEF ReachedAfter
  <2> QED
    BY <1>2, <2>1, <2>2
<1> QED
    BY <1>3, <1>4, NoResultYet DEF AnswerInv, Reached, Serving

-----------------------------------------------------------------------------
(* The sockets of the server's sessions.                                   *)
LEMMA SocketInit == Init => SocketInv
    BY DEF Init, SocketInv, Serving

LEMMA SocketStep ==
    Types /\ FramesInv /\ AskInv /\ SocketInv /\ [Next]_vars => SocketInv'
<1> SUFFICES ASSUME Types, FramesInv, AskInv, SocketInv, [Next]_vars PROVE SocketInv'
    OBVIOUS
<1>q. /\ server_pc \in [Conns -> {"none", "dialing", "relay", "refused", "ended"}]
      /\ target \in [Conns -> Targets \cup {Invalid}]
      /\ socket \in [Conns -> Targets \cup {Unconnected, Invalid}]
    BY DEF Types, TypeOK, QueuesOK
<1> DEFINE Kept(c) == /\ Serving(c) <=> Serving(c)'
                      /\ socket'[c] = socket[c]
                      /\ Serving(c) => target'[c] = target[c]
<1>1. ASSUME \A c \in Conns : Kept(c) PROVE SocketInv'
    BY <1>1 DEF SocketInv
<1>2. CASE ServerConnects
  <2>1. /\ 1 \in 1..Len(server_rx) /\ Event = server_rx[1].frame /\ Event \in Frames
        /\ Event.type = "Connect"
    BY <1>2, TakenEvent DEF ServerConnects, Event
  <2>2. server_pc[Event.conn] = "none" /\ Event.conn \in Conns
    BY <2>1 DEF AskInv, Asks, Frames
  <2>3. \A c \in Conns : Kept(c)
    BY <1>q, <1>2, <2>2 DEF ServerConnects, Serving
  <2> QED
    BY <1>1, <2>3
<1>3. ASSUME NEW d \in Conns, DialSucceeds(d) \/ Binds(d) PROVE SocketInv'
  <2> DEFINE made == IF target[d].udp THEN Unconnected ELSE target[d]
  <2>1. Serves(d, made)
    BY <1>3 DEF DialSucceeds, Binds
  <2>2. /\ server_pc' = [server_pc EXCEPT ![d] = "relay"] /\ target' = target
        /\ socket' = [socket EXCEPT ![d] = made]
    BY <2>1 DEF Serves
  <2>3. ASSUME NEW c \in Conns, c # d PROVE Kept(c)
    BY <1>q, <2>2, <2>3 DEF Serving
  <2>4. Serving(d)' /\ socket'[d] = made /\ target'[d] = target[d]
    BY <1>q, <2>2 DEF Serving
  <2> QED
    BY <2>3, <2>4 DEF SocketInv
<1>4. ASSUME NEW d \in Conns, DialFails(d) \/ ServerCloses(d) PROVE \A c \in Conns : Kept(c)
    BY <1>q, <1>4 DEF DialFails, ServerCloses, Leaves, Serving
<1>5. ASSUME UNCHANGED <<server_pc, target, socket>> PROVE \A c \in Conns : Kept(c)
    BY <1>5 DEF Serving
<1>6. ASSUME \/ LinkComesUp \/ LinkGoesDown \/ Resets \/ Dispatches \/ Sender \/ ServerDispatches
             \/ (\E t \in Tunnels : Accepts(t) \/ TakesId(t)) \/ \E d \in Conns : ClientTask(d)
      PROVE  UNCHANGED <<server_pc, target, socket>>
    BY <1>6
    DEF LinkComesUp, LinkGoesDown, Resets, Dispatches, Sender, ServerDispatches, Accepts, TakesId,
        ClientTask, Registers, Connects, Receives, Fails, Closes, Drops, serverVars, taskVars
<1>7. ASSUME UNCHANGED vars PROVE UNCHANGED <<server_pc, target, socket>>
    BY <1>7 DEF vars, serverVars, taskVars
<1> HIDE DEF Kept
<1> QED
    BY <1>1, <1>2, <1>3, <1>4, <1>5, <1>6, <1>7 DEF Next, Step, ServerTask

-----------------------------------------------------------------------------
(* What stays in the client's table.                                       *)
LEMMA LeaksInit == Init => LeaksOnlyFailures
    BY DEF Init, LeaksOnlyFailures

LEMMA LeaksStep ==
    Types /\ IdsInv /\ LeaksOnlyFailures /\ [Next]_vars => LeaksOnlyFailures'
<1> SUFFICES ASSUME Types, IdsInv, LeaksOnlyFailures, [Next]_vars, NEW c \in Conns,
                    sessions'[sid'[c]] = c, pc'[c] = "ended"
             PROVE  result'[c] = "Err"
    BY DEF LeaksOnlyFailures, Registered
<1>q. /\ pc \in [Conns -> {"none", "accepted", "waiting", "relay", "dropping", "ended"}]
      /\ result \in [Conns -> {"none", "Ok", "Err"}]
      /\ sessions \in [Sids -> {None} \cup Conns] /\ sid \in [Conns -> Sids]
      /\ accepted \in Nat /\ c # None
    BY DEF Types, TypeOK, Conns, None
<1>1. CASE /\ sessions'[sid'[c]] = sessions[sid[c]]
           /\ pc'[c] = pc[c] /\ result'[c] = result[c]
    BY <1>1 DEF LeaksOnlyFailures, Registered
<1>2. CASE Resets
    BY <1>q, <1>2 DEF Resets, LosesLink, acceptVars
<1>3. ASSUME NEW t \in Tunnels, TakesId(t) PROVE result'[c] = "Err"
  <2>1. UNCHANGED <<pc, result, sessions>> /\ sid' = [sid EXCEPT ![accepted + 1] = next_session_id]
    BY <1>3 DEF TakesId, connVars
  <2>2. c <= accepted
    BY <2>1 DEF IdsInv
  <2>3. c # accepted + 1
    BY <1>q, <2>2 DEF Conns
  <2> QED
    BY <1>q, <1>1, <2>1, <2>3
<1>4. ASSUME NEW d \in Conns, Registers(d) \/ Drops(d) PROVE result'[c] = "Err"
  <2>1. /\ UNCHANGED <<result, sid>> /\ sid[d] \in Sids
        /\ \/ sessions' = [sessions EXCEPT ![sid[d]] = d] /\ pc' = [pc EXCEPT ![d] = "accepted"]
           \/ sessions' = [sessions EXCEPT ![sid[d]] = None] /\ pc' = [pc EXCEPT ![d] = "ended"]
    BY <1>q, <1>4 DEF Registers, Drops, Becomes, acceptVars
  <2>2. c # d
    BY <1>q, <2>1
  <2> QED
    BY <1>q, <1>1, <2>1, <2>2
<1>5. ASSUME NEW d \in Conns, Connects(d) \/ Receives(d) \/ Fails(d) \/ Closes(d) PROVE result'[c] = "Err"
  <2>1. UNCHANGED <<sessions, sid>>
    BY <1>5 DEF Connects, Receives, Fails, Closes, tableVars, acceptVars
  <2>2. CASE c # d
    BY <1>q, <1>1, <1>5, <2>1, <2>2 DEF Connects, Receives, Fails, Closes, Becomes
  <2>3. CASE c = d
    BY <1>q, <1>5, <2>3 DEF Connects, Receives, Fails, Closes, Becomes
  <2> QED
    BY <2>2, <2>3
<1>6. ASSUME \/ LinkComesUp \/ LinkGoesDown \/ Dispatches \/ Sender \/ ServerConnects
             \/ ServerDispatches \/ (\E t \in Tunnels : Accepts(t)) \/ \E d \in Conns : ServerTask(d)
      PROVE  UNCHANGED <<sessions, sid, pc, result>>
    BY <1>6
    DEF LinkComesUp, LinkGoesDown, Dispatches, Sender, ServerConnects, ServerDispatches,
        Accepts, ServerTask, DialSucceeds, Binds, Serves, DialFails, ServerCloses, Leaves,
        clientVars, connVars,
        tableVars, acceptVars
<1>7. ASSUME UNCHANGED vars PROVE UNCHANGED <<sessions, sid, pc, result>>
    BY <1>7 DEF vars, clientVars, connVars, tableVars, acceptVars
<1> QED
    BY <1>1, <1>2, <1>3, <1>4, <1>5, <1>6, <1>7 DEF Next, Step, ClientTask

-----------------------------------------------------------------------------
(* The inductive invariant, and what follows from it.                      *)
LEMMA Invariant == Spec => []IInv
<1>1. Init => IInv
    BY TypesInit, BoundInit, IdsInit, FramesInit, AskInit, SocketInit, AnswerInit, LeaksInit DEF IInv, Types
<1>2. IInv /\ [Next]_vars => IInv'
    BY TypesStep, BoundStep, IdsStep, FramesStep, AskStep, SocketStep, AnswerStep, LeaksStep DEF IInv, Types
<1> QED
    BY <1>1, <1>2, PTL DEF Spec

(* The type invariant of the tables, the accept loops and the tasks.       *)
THEOREM TypeCorrect == Spec => []TypeOK
<1>1. IInv => TypeOK
    BY DEF IInv
<1> QED
    BY <1>1, Invariant, PTL

(* dispatch hands frames to whoever the id stands for by now: it is always *)
(* the connection the frame is about, or one a whole round of ids away.    *)
THEOREM FramesStayOwn == Spec => []OwnFrames
<1>1. IInv => OwnFrames
  <2> SUFFICES ASSUME IInv, NEW c \in Conns, NEW q \in {inbox[c], server_inbox[c]}, NEW i \in DOMAIN q
               PROVE  q[i].conn \in Namesakes(c)
    BY DEF OwnFrames
  <2>1. q \in Seq(Frames)
    BY DEF IInv, QueuesOK
  <2>2. i \in 1..Len(q) /\ q[i] \in Frames
    BY <2>1, LenProperties, ElementOfSeq
  <2>3. q[i].sid = IdOf(c) /\ Genuine(q[i])
    BY <2>2 DEF IInv, FramesInv
  <2> QED
    BY <2>2, <2>3 DEF Genuine, Frames, Namesakes, IdOf
<1> QED
    BY <1>1, Invariant, PTL

(* Sessions that ended without drop_session are those whose CONNECT        *)
(* failed: nothing else is left in the mux's table.                        *)
THEOREM OnlyFailuresLeak == Spec => []LeaksOnlyFailures
<1>1. IInv => LeaksOnlyFailures
    BY DEF IInv
<1> QED
    BY <1>1, Invariant, PTL

(* The end of a connection of an earlier link (drop_session), however late *)
(* it comes, does not take the entry of a connection that lives: an id is  *)
(* not given out again before all others were.                             *)
THEOREM LiveEntriesStay == Spec => EntriesAreKept
<1> DEFINE Kept == \A c \in Conns : LosesPlace(c) =>
                      \/ dispatching /\ ~dispatching'
                      \/ \E d \in Namesakes(c) \ {c} : pc'[d] # pc[d]
<1>1. ASSUME IInv, [Next]_vars PROVE Kept
  <2> SUFFICES ASSUME NEW c \in Conns, sessions[sid[c]] = c, pc[c] \in {"waiting", "relay"},
                      sessions'[sid'[c]] # c
               PROVE  \/ dispatching /\ ~dispatching'
                      \/ \E d \in Namesakes(c) \ {c} : pc'[d] # pc[d]
    BY DEF LosesPlace, Registered
  <2>q. /\ pc \in [Conns -> {"none", "accepted", "waiting", "relay", "dropping", "ended"}]
        /\ sessions \in [Sids -> {None} \cup Conns] /\ sid \in [Conns -> Sids]
        /\ accepted \in Nat /\ c <= accepted /\ sid[c] = IdOf(c)
    BY <1>1 DEF IInv, TypeOK, IdsInv, Conns
  <2>1. CASE Resets
    BY <2>1 DEF Resets, LosesLink
  <2>2. ASSUME NEW t \in Tunnels, TakesId(t) PROVE FALSE
    <3>1. c # accepted + 1
      BY <2>q DEF Conns
    <3> QED
      BY <2>2, <2>q, <3>1 DEF TakesId
  <2>3. ASSUME NEW d \in Conns, Registers(d) \/ Drops(d)
        PROVE  \E e \in Namesakes(c) \ {c} : pc'[e] # pc[e]
    <3>1. /\ sid' = sid /\ pc'[d] # pc[d] /\ d # c
          /\ \E e \in {d, None} : sessions' = [sessions EXCEPT ![sid[d]] = e]
      BY <2>q, <2>3 DEF Registers, Drops, Becomes, acceptVars
    <3>2. d <= accepted /\ sid[d] = IdOf(d)
      BY <1>1, <2>3 DEF Registers, Drops, IInv, IdsInv
    <3>3. sid[d] = sid[c]
      BY <2>q, <3>1
    <3>4. d \in Namesakes(c)
      BY <2>q, <3>2, <3>3 DEF Namesakes, IdOf
    <3> QED
      BY <3>1, <3>4
  <2>4. ASSUME NEW d \in Conns, Connects(d) \/ Receives(d) \/ Fails(d) \/ Closes(d)
        PROVE  UNCHANGED <<sessions, sid>>
    BY <2>4 DEF Connects, Receives, Fails, Closes, tableVars, acceptVars
  <2>5. ASSUME \/ LinkComesUp \/ LinkGoesDown \/ Dispatches \/ Sender \/ ServerConnects
               \/ ServerDispatches \/ (\E t \in Tunnels : Accepts(t)) \/ \E d \in Conns : ServerTask(d)
        PROVE  UNCHANGED <<sessions, sid>>
    BY <2>5
    DEF LinkComesUp, LinkGoesDown, Dispatches, Sender, ServerConnects, ServerDispatches,
        Accepts, ServerTask, DialSucceeds, Binds, Serves, DialFails, ServerCloses, Leaves, clientVars,
        tableVars, acceptVars
  <2>6. ASSUME UNCHANGED vars PROVE UNCHANGED <<sessions, sid>>
    BY <2>6 DEF vars, clientVars, tableVars, acceptVars
  <2> QED
    BY <1>1, <2>1, <2>2, <2>3, <2>4, <2>5, <2>6 DEF Next, Step, ClientTask
<1>2. ASSUME IInv, [Next]_vars PROVE [Kept]_vars
    BY <1>1, <1>2
<1> QED
    BY <1>2, Invariant, PTL DEF Spec, EntriesAreKept

-----------------------------------------------------------------------------
(* ConnectService: what connections asked for, and what was reached.       *)
Wants == [c \in Conns |-> IF pc[c] \in {"none", "accepted"} THEN Invalid ELSE Wanted(via[c])]

LEMMA ServiceInit == Init => CS!Init
    BY DEF Init, CS!Init

LEMMA ServiceStutters ==
    ASSUME UNCHANGED <<Wants, socket, result>>
    PROVE  [CS!Next]_(CS!vars)
    BY DEF CS!vars, Wants

(* Nothing of it changes with what these actions change.                   *)
LEMMA SameService ==
    ASSUME UNCHANGED <<result, socket>>,
           \A c \in Conns :
              /\ pc'[c] = pc[c] \/ (HasAsked(c) /\ HasAsked(c)') \/ (~HasAsked(c) /\ ~HasAsked(c)')
              /\ HasAsked(c) => via'[c] = via[c]
    PROVE  [CS!Next]_(CS!vars)
<1>1. Wants' = Wants
    BY DEF Wants, HasAsked
<1> QED
    BY <1>1, ServiceStutters

LEMMA ServiceStep == IInv /\ [Next]_vars => [CS!Next]_(CS!vars)
<1> SUFFICES ASSUME IInv, [Next]_vars PROVE [CS!Next]_(CS!vars)
    OBVIOUS
<1>q. /\ pc \in [Conns -> {"none", "accepted", "waiting", "relay", "dropping", "ended"}]
      /\ via \in [Conns -> AllTunnels \cup {NoTunnel}] /\ accepted \in Nat
      /\ result \in [Conns -> {"none", "Ok", "Err"}]
    BY DEF IInv, TypeOK, Conns
<1>1. \A c \in Conns : HasAsked(c) => via[c] \in AllTunnels /\ c <= accepted
    BY DEF IInv, IdsInv, HasAsked
<1>2. ASSUME NEW c \in Conns, HasAsked(c) PROVE Wants[c] = Wanted(via[c]) /\ Wants[c] # Invalid
    BY <1>1, <1>2, PayloadIsWanted DEF Wants, HasAsked
<1>3. ASSUME NEW c \in Conns, Connects(c) PROVE CS!Next
  <2>1. via[c] \in AllTunnels /\ pc[c] = "accepted" /\ pc' = [pc EXCEPT ![c] = "waiting"]
    BY <1>3 DEF Connects, Becomes, IInv, IdsInv
  <2>2. UNCHANGED <<via, result, socket>>
    BY <1>3 DEF Connects, acceptVars, serverVars, taskVars
  <2>3. Wants[c] = Invalid /\ Wants' = [Wants EXCEPT ![c] = Wanted(via[c])]
    BY <1>q, <2>1, <2>2 DEF Wants
  <2>4. Wanted(via[c]) \in Targets
    BY <2>1, PayloadIsWanted
  <2>5. PICK t \in Targets : t = Wanted(via[c])
    BY <2>4
  <2>6. t \in TcpTargets \cup UdpTargets
    BY DEF TcpTargets, UdpTargets
  <2>7. CS!Ask(c)
    BY <2>2, <2>3, <2>5, <2>6 DEF CS!Ask, CS!Asked, Wants
  <2> QED
    BY <2>7 DEF CS!Next
<1>4. ASSUME NEW c \in Conns, DialSucceeds(c) \/ Binds(c) PROVE CS!Next
  <2> DEFINE made == IF target[c].udp THEN Unconnected ELSE target[c]
  <2>1. server_pc[c] = "dialing" /\ Serves(c, made)
    BY <1>4 DEF DialSucceeds, Binds
  <2>2. UNCHANGED <<pc, via, result>> /\ socket' = [socket EXCEPT ![c] = made]
    BY <2>1 DEF Serves, clientVars, acceptVars, connVars
  <2>3. HasAsked(c) /\ target[c] = Wanted(via[c]) /\ socket[c] = Invalid
    BY <2>1 DEF IInv, AskInv, SocketInv, Serving
  <2>4. Wants[c] = target[c] /\ Wants[c] # Invalid /\ Wants' = Wants
    BY <1>2, <2>2, <2>3 DEF Wants
  <2>5. target[c] \in Targets
    BY <1>1, <2>3, PayloadIsWanted
  <2>6. CASE target[c].udp
    <3>1. Wants[c] \in UdpTargets /\ made = Unconnected
      BY <2>4, <2>5, <2>6 DEF UdpTargets
    <3>2. CS!Bind(c)
      BY <2>2, <2>3, <2>4, <3>1 DEF CS!Bind, CS!Serve, CS!Asked, Wants
    <3> QED
      BY <3>2 DEF CS!Next
  <2>7. CASE ~target[c].udp
    <3>1. Wants[c] \in TcpTargets /\ made = Wants[c]
      BY <2>4, <2>5, <2>7 DEF TcpTargets
    <3>2. CS!Reach(c)
      BY <2>2, <2>3, <2>4, <3>1 DEF CS!Reach, CS!Serve, CS!Asked, Wants
    <3> QED
      BY <3>2 DEF CS!Next
  <2> QED
    BY <2>6, <2>7
<1>5. ASSUME NEW c \in Conns, Receives(c), result' # result PROVE CS!Next
  <2> DEFINE f == Head(inbox[c])
  <2>1. /\ pc[c] = "waiting" /\ inbox[c] # <<>> /\ f.type = "ConnectOk"
        /\ pc' = [pc EXCEPT ![c] = "relay"] /\ result' = [result EXCEPT ![c] = "Ok"]
        /\ UNCHANGED <<via, socket>>
    BY <1>5 DEF Receives, Becomes, acceptVars, serverVars, taskVars
  <2>2. f \in Frames /\ f = inbox[c][1] /\ 1 \in 1..Len(inbox[c])
    BY <2>1, TailProps DEF IInv, QueuesOK
  <2>3. f.conn \in Conns /\ f.sid = IdOf(c) /\ f.sid = IdOf(f.conn) /\ Reached(f)
    BY <2>2 DEF IInv, FramesInv, AnswerInv, Genuine, Frames
  <2> DEFINE d == f.conn
  <2>4. d \in CS!Namesakes(c) /\ Serving(d)
    BY <2>1, <2>3 DEF CS!Namesakes, IdOf, Reached
  <2>5. /\ socket[d] = IF target[d].udp THEN Unconnected ELSE target[d]
        /\ target[d] = Wanted(via[d]) /\ HasAsked(d)
    BY <2>3, <2>4 DEF IInv, AskInv, SocketInv, Serving
  <2>6. socket[d] # Invalid
    <3>1. Wants[d] = Wanted(via[d]) /\ Wants[d] # Invalid
      BY <2>3, <2>5, <1>2
    <3> QED
      BY <2>5, <3>1 DEF Unconnected, Parsed, Invalid
  <2>7. HasAsked(c) /\ Wants' = Wants /\ result[c] = "none"
    BY <1>q, <2>1 DEF HasAsked, Wants, IInv, AnswerInv
  <2>8. Wants[c] # Invalid
    BY <1>2, <2>7
  <2> HIDE DEF d, f
  <2>9. CS!Connected(c)
    BY <2>1, <2>4, <2>6, <2>7, <2>8 DEF CS!Connected, CS!Asked, Wants
  <2> QED
    BY <2>9 DEF CS!Next
<1>6. ASSUME NEW c \in Conns, Fails(c) PROVE CS!Next
  <2>1. /\ pc[c] = "waiting" /\ pc' = [pc EXCEPT ![c] = "ended"]
        /\ result' = [result EXCEPT ![c] = "Err"] /\ UNCHANGED <<via, socket>>
    BY <1>6 DEF Fails, Becomes, acceptVars, serverVars, taskVars
  <2>2. HasAsked(c) /\ Wants' = Wants /\ result[c] = "none"
    BY <1>q, <2>1 DEF HasAsked, Wants, IInv, AnswerInv
  <2>3. Wants[c] # Invalid
    BY <1>2, <2>2
  <2>4. CS!Failed(c)
    BY <2>1, <2>2, <2>3 DEF CS!Failed, CS!Asked, Wants
  <2> QED
    BY <2>4 DEF CS!Next
<1> DEFINE Same ==
       /\ UNCHANGED <<result, socket>>
       /\ \A c \in Conns :
             /\ pc'[c] = pc[c] \/ (HasAsked(c) /\ HasAsked(c)') \/ (~HasAsked(c) /\ ~HasAsked(c)')
             /\ HasAsked(c) => via'[c] = via[c]
<1>7. ASSUME Same PROVE [CS!Next]_(CS!vars)
    BY <1>7, SameService
<1>8. ASSUME NEW t \in Tunnels, TakesId(t) PROVE Same
  <2>1. /\ UNCHANGED <<pc, result, socket>>
        /\ via' = [via EXCEPT ![accepted + 1] = t]
    BY <1>8 DEF TakesId, connVars, serverVars, taskVars
  <2>2. \A c \in Conns : HasAsked(c) => c # accepted + 1
    BY <1>q, <1>1 DEF Conns
  <2> QED
    BY <1>q, <2>1, <2>2
<1>9. ASSUME NEW d \in Conns,
             Registers(d) \/ (Receives(d) /\ result' = result) \/ Closes(d) \/ Drops(d)
      PROVE  Same
  <2>1. /\ UNCHANGED <<via, socket, result>>
        /\ \/ pc' = pc
           \/ pc[d] = "none" /\ pc' = [pc EXCEPT ![d] = "accepted"]
           \/ HasAsked(d) /\ \E p \in {"relay", "dropping", "ended"} : pc' = [pc EXCEPT ![d] = p]
    BY <1>9
    DEF Registers, Receives, Closes, Drops, Becomes, HasAsked, acceptVars, serverVars, taskVars
  <2> QED
    BY <1>q, <2>1 DEF HasAsked
<1>10. CASE ServerConnects \/ \E d \in Conns : DialFails(d) \/ ServerCloses(d)
  <2>1. UNCHANGED <<pc, via, result, socket>>
    BY <1>10
    DEF ServerConnects, DialFails, ServerCloses, Leaves, clientVars, acceptVars, connVars
  <2>2. Same
    BY <2>1 DEF HasAsked
  <2> QED
    BY <1>7, <2>2
<1>11. ASSUME UNCHANGED <<pc, via, result, socket>> PROVE Same
    BY <1>11 DEF HasAsked
<1>12. ASSUME \/ LinkComesUp \/ LinkGoesDown \/ Resets \/ Dispatches \/ Sender
              \/ ServerDispatches \/ \E t \in Tunnels : Accepts(t)
       PROVE  UNCHANGED <<pc, via, result, socket>>
    BY <1>12
    DEF LinkComesUp, LinkGoesDown, Resets, Dispatches, Sender, ServerDispatches, Accepts, clientVars,
        connVars, acceptVars, serverVars, taskVars
<1>13. ASSUME UNCHANGED vars PROVE UNCHANGED <<pc, via, result, socket>>
    BY <1>13 DEF vars, clientVars, connVars, acceptVars, serverVars, taskVars
<1> HIDE DEF Same
<1> QED
    BY <1>3, <1>4, <1>5, <1>6, <1>7, <1>8, <1>9, <1>10, <1>11, <1>12, <1>13
    DEF Next, Step, ClientTask, ServerTask

(* server.rs:228-246, 273-294: a TCP connection is told CONN_OK only if    *)
(* the server connected to what it asked for, a UDP one only if the server *)
(* bound a socket for it, which is connected to nothing; the server        *)
(* connects to nothing else.  The payload of its CONNECT parses as what    *)
(* was asked for, answers go by ids and outlive timeouts and links, and no *)
(* CONNECT is served twice.                                                *)
THEOREM ConnectServiceIsImplemented == Spec => ImplementsConnectService
    BY Invariant, ServiceInit, ServiceStep, PTL DEF Spec, ImplementsConnectService, CS!Spec

=============================================================================
