--------------------------- MODULE ReassemblyProofs ---------------------------
(***************************************************************************)
(* Reassembly for any frames, any size of packets and any losses: what was *)
(* sent before the first loss comes out of receive_data as it was sent.    *)
(***************************************************************************)
EXTENDS Reassembly, Queues

(* Each frame stands in the stream behind the frames before it.            *)
Start(i) == IF i = 1 THEN 0 ELSE ends[i - 1]
Stands(i) ==
    /\ ends[i] = Start(i) + HDR_SIZE + Len(frames[i].payload) /\ ends[i] <= Len(stream)
    /\ stream[Start(i) + 1] = frames[i].type
    /\ stream[Start(i) + 2] = frames[i].sid
    /\ stream[Start(i) + 3] = Len(frames[i].payload)
    /\ \A j \in 1..Len(frames[i].payload) : stream[Start(i) + HDR_SIZE + j] = frames[i].payload[j]
FramesInv ==
    /\ Len(ends) = Len(frames)
    /\ Start(Len(frames) + 1) = Len(stream)
    /\ \A i \in 1..Len(frames) : Stands(i)
    /\ \A i, j \in 1..Len(frames) : i <= j => ends[i] <= ends[j]

(* The packets q continue the bytes st at P[0], each at the end of the one *)
(* before.                                                                 *)
Cut(st, q, P) ==
    \A i \in 1..Len(q) : /\ P[i] = P[i - 1] + Len(q[i]) /\ P[i] <= Len(st)
                         /\ \A j \in 1..Len(q[i]) : q[i][j] = st[P[i - 1] + j]
PacketsInv ==
    lost = 0 => \E P \in [0..Len(packets) -> Nat] :
                    P[0] = taken /\ P[Len(packets)] = Len(stream) /\ Cut(stream, packets, P)

(* recv_buf begins where the last frame returned ends, and is what was     *)
(* sent up to the first loss; once it no longer is, every frame that had   *)
(* arrived before has been returned.                                       *)
Returned == Len(received)
BufferInv ==
    /\ Returned <= Len(frames) /\ \A i \in 1..Returned : received[i] = frames[i]
    /\ Start(Returned + 1) <= taken /\ taken <= Start(Returned + 1) + Len(recv_buf)
    /\ \A j \in 1..(taken - Start(Returned + 1)) : recv_buf[j] = stream[Start(Returned + 1) + j]
    /\ lost = 0 => taken = Start(Returned + 1) + Len(recv_buf)
AllBeforeLoss == \A i \in 1..Len(frames) : ends[i] <= taken => i <= Returned /\ received[i] = frames[i]
TakenInv == taken <= Len(stream) /\ (BufferInv \/ (lost > 0 /\ AllBeforeLoss))

StopInv == ~decoding => ~FrameReady(recv_buf)
IInv == TypeOK /\ FramesInv /\ PacketsInv /\ TakenInv /\ StopInv

-----------------------------------------------------------------------------
(* Joining and cutting byte strings.                                       *)
LEMMA JoinProps ==
    ASSUME NEW S, NEW a \in Seq(S), NEW b \in Seq(S)
    PROVE  /\ a \o b \in Seq(S) /\ Len(a) \in Nat /\ Len(b) \in Nat /\ Len(a \o b) = Len(a) + Len(b)
           /\ \A i \in 1..Len(a) : (a \o b)[i] = a[i]
           /\ \A i \in 1..Len(b) : (a \o b)[Len(a) + i] = b[i]
<1>1. Len(a) \in Nat /\ Len(b) \in Nat
    BY LenProperties
<1>2. /\ a \o b \in Seq(S) /\ Len(a \o b) = Len(a) + Len(b)
      /\ \A i \in 1..Len(a) + Len(b) : (a \o b)[i] = IF i <= Len(a) THEN a[i] ELSE b[i - Len(a)]
    BY ConcatProperties
<1> QED
    BY <1>1, <1>2

LEMMA PieceProps ==
    ASSUME NEW S, NEW b \in Seq(S), NEW m \in Nat, NEW n \in Nat, m <= n, n <= Len(b)
    PROVE  /\ SubSeq(b, m + 1, n) \in Seq(S) /\ Len(SubSeq(b, m + 1, n)) = n - m
           /\ \A i \in 1..(n - m) : SubSeq(b, m + 1, n)[i] = b[m + i]
<1>1. Len(b) \in Nat
    BY LenProperties
<1>2. \A i \in (m + 1)..n : b[i] \in S
    BY <1>1, ElementOfSeq
<1>3. /\ SubSeq(b, m + 1, n) \in Seq(S)
      /\ Len(SubSeq(b, m + 1, n)) = IF m + 1 <= n THEN n - (m + 1) + 1 ELSE 0
      /\ \A i \in 1..(n - (m + 1) + 1) : SubSeq(b, m + 1, n)[i] = b[m + 1 + i - 1]
    BY <1>2, SubSeqProperties
<1> QED
    BY <1>3

(* Types of what the steps compute.                                        *)
LEMMA FrameProps ==
    ASSUME NEW f \in Frame
    PROVE  /\ f.type \in FrameTypes /\ f.type \in Nat /\ f.sid \in Nat /\ f.payload \in Bytes /\ Len(f.payload) \in Nat
           /\ f = [type |-> f.type, sid |-> f.sid, payload |-> f.payload]
<1>1. f.type \in Types /\ f.sid \in SessionIds /\ f.payload \in Payloads
    BY DEF Frame
<1>2. PICK n \in 0..MaxPayload : f.payload \in [1..n -> PayloadBytes]
    BY <1>1 DEF Payloads
<1>3. f.payload \in [1..n -> Nat] /\ n \in Nat
  <2>1. PayloadBytes \subseteq Nat /\ n \in Nat
    BY ReassemblyAssumption
  <2> QED
    BY <1>2, <2>1
<1>4. f.payload \in Bytes
    BY <1>3 DEF Bytes
<1>5. Len(f.payload) \in Nat
    BY <1>4, LenProperties DEF Bytes
<1>6. f.type \in FrameTypes /\ f.sid \in Nat
  <2>1. Types \subseteq FrameTypes /\ SessionIds \subseteq Nat
    BY ReassemblyAssumption
  <2> QED
    BY <1>1, <2>1
<1>7. f.type \in Nat
    BY <1>6 DEF FrameTypes
<1> QED
    BY <1>4, <1>5, <1>6, <1>7 DEF Frame

LEMMA EncodeProps ==
    ASSUME NEW f \in Frame
    PROVE  LET b == Encode(f) IN
           /\ b \in Bytes /\ Len(b) = HDR_SIZE + Len(f.payload)
           /\ b[1] = f.type /\ b[2] = f.sid /\ b[3] = Len(f.payload)
           /\ \A j \in 1..Len(f.payload) : b[HDR_SIZE + j] = f.payload[j]
<1>0. /\ f.type \in Nat /\ f.sid \in Nat /\ f.payload \in Seq(Nat) /\ Len(f.payload) \in Nat
    BY FrameProps DEF Bytes
<1> DEFINE h == <<f.type, f.sid, Len(f.payload)>>
<1>1. h \in Seq(Nat) /\ Len(h) = 3 /\ h[1] = f.type /\ h[2] = f.sid /\ h[3] = Len(f.payload)
    BY <1>0
<1> HIDE DEF h
<1>2. /\ h \o f.payload \in Seq(Nat)
      /\ Len(h \o f.payload) = Len(h) + Len(f.payload)
      /\ \A i \in 1..Len(h) + Len(f.payload) :
            (h \o f.payload)[i] = IF i <= Len(h) THEN h[i] ELSE f.payload[i - Len(h)]
    BY <1>0, <1>1, ConcatProperties
<1>3. Encode(f) = h \o f.payload
    BY DEF Encode, h
<1>4. \A j \in 1..Len(f.payload) : (h \o f.payload)[3 + j] = f.payload[j]
  <2>1. PICK p \in Seq(Nat), g \in Seq(Nat) : p = f.payload /\ g = h
    BY <1>0, <1>1
  <2>2. \A j \in 1..Len(p) : (g \o p)[Len(g) + j] = p[j]
    BY JoinProps
  <2> QED
    BY <1>1, <2>1, <2>2, Zenon
<1>5. \A j \in 1..3 : (h \o f.payload)[j] = h[j]
    BY <1>0, <1>1, <1>2
<1>6. (h \o f.payload)[1] = f.type /\ (h \o f.payload)[2] = f.sid /\ (h \o f.payload)[3] = Len(f.payload)
  <2>1. 1 \in 1..3 /\ 2 \in 1..3 /\ 3 \in 1..3
    OBVIOUS
  <2> QED
    BY <1>1, <1>5, <2>1, Zenon
<1>7. Len(h \o f.payload) = HDR_SIZE + Len(f.payload)
    BY <1>1, <1>2 DEF HDR_SIZE
<1> QED
    BY <1>2, <1>3, <1>4, <1>6, <1>7 DEF Bytes, HDR_SIZE

(* The cut into packets: the i-th ends after i * LINK_MDU bytes, the last  *)
(* one at the end.                                                         *)
LEMMA Products ==
    ASSUME NEW m \in Nat \ {0}, NEW n \in Nat, NEW q \in Nat, q = (n + m - 1) \div m
    PROVE  n <= q * m /\ \A i \in 1..q : (i - 1) * m < n /\ i * m = (i - 1) * m + m /\ (i - 1) * m \in Nat
<1>1. PICK r \in Nat : n + m - 1 = q * m + r /\ r < m
  <2>1. n + m - 1 \in Nat
    OBVIOUS
  <2> QED
    BY <2>1
<1>2. n <= q * m
    BY <1>1
<1>3. ASSUME NEW i \in 1..q
      PROVE  (i - 1) * m < n /\ i * m = (i - 1) * m + m /\ (i - 1) * m \in Nat
  <2>1. PICK d \in Nat : q = i + d
    <3>1. q - i \in Nat
      OBVIOUS
    <3> QED
      BY <3>1
  <2>2. PICK k \in Nat : k = i - 1
    OBVIOUS
  <2>3. q * m = k * m + m + d * m
    BY <2>1, <2>2
  <2>4. d * m \in Nat /\ k * m \in Nat /\ d * m >= 0
    OBVIOUS
  <2>5. k * m < n
    BY <1>1, <2>3, <2>4
  <2>6. i * m = k * m + m
    BY <2>2
  <2> QED
    BY <2>2, <2>4, <2>5, <2>6
<1> QED
    BY <1>2, <1>3

LEMMA ChunksProps ==
    ASSUME NEW b \in Bytes
    PROVE  /\ Chunks(b) \in Seq(Bytes)
           /\ \E P \in [0..Len(Chunks(b)) -> Nat] : P[0] = 0 /\ P[Len(Chunks(b))] = Len(b) /\ Cut(b, Chunks(b), P)
<1>0. Len(b) \in Nat /\ LINK_MDU \in Nat \ {0} /\ b \in Seq(Nat)
    BY LenProperties, ReassemblyAssumption DEF Bytes
<1>1. PICK q \in Nat : q = (Len(b) + LINK_MDU - 1) \div LINK_MDU
  <2>1. Len(b) + LINK_MDU - 1 \in Nat
    BY <1>0
  <2> QED
    BY <1>0, <2>1
<1>2. /\ Len(b) <= q * LINK_MDU
      /\ \A i \in 1..q : (i - 1) * LINK_MDU < Len(b) /\ i * LINK_MDU = (i - 1) * LINK_MDU + LINK_MDU
                         /\ (i - 1) * LINK_MDU \in Nat
    BY <1>0, <1>1, Products
<1> DEFINE End(i) == IF i * LINK_MDU < Len(b) THEN i * LINK_MDU ELSE Len(b)
           P == [i \in 0..q |-> End(i)]
<1>3. /\ \A i \in 0..q : End(i) \in Nat /\ End(i) <= Len(b)
      /\ End(0) = 0 /\ End(q) = Len(b)
      /\ \A i \in 1..q : End(i - 1) = (i - 1) * LINK_MDU /\ End(i - 1) <= End(i)
  <2>1. \A i \in 0..q : i * LINK_MDU \in Nat
    BY <1>0
  <2>2. 0 * LINK_MDU = 0
    BY <1>0
  <2>3. \A i \in 1..q : End(i - 1) = (i - 1) * LINK_MDU /\ End(i - 1) <= End(i)
    BY <1>0, <1>2
  <2> QED
    BY <1>0, <1>2, <2>1, <2>2, <2>3
<1>4. Chunks(b) = [i \in 1..q |-> SubSeq(b, End(i - 1) + 1, End(i))]
    BY <1>1, <1>3 DEF Chunks
<1> HIDE DEF End
<1>5. \A i \in 1..q : /\ SubSeq(b, End(i - 1) + 1, End(i)) \in Seq(Nat)
                      /\ Len(SubSeq(b, End(i - 1) + 1, End(i))) = End(i) - End(i - 1)
                      /\ \A j \in 1..(End(i) - End(i - 1)) : SubSeq(b, End(i - 1) + 1, End(i))[j] = b[End(i - 1) + j]
  <2>1. ASSUME NEW i \in 1..q
        PROVE  End(i - 1) \in Nat /\ End(i) \in Nat /\ End(i - 1) <= End(i) /\ End(i) <= Len(b)
    BY <1>3, <2>1
  <2>2. SUFFICES ASSUME NEW i \in 1..q
                 PROVE  /\ SubSeq(b, End(i - 1) + 1, End(i)) \in Seq(Nat)
                        /\ Len(SubSeq(b, End(i - 1) + 1, End(i))) = End(i) - End(i - 1)
                        /\ \A j \in 1..(End(i) - End(i - 1)) :
                              SubSeq(b, End(i - 1) + 1, End(i))[j] = b[End(i - 1) + j]
    OBVIOUS
  <2>3. PICK m \in Nat, n \in Nat : m = End(i - 1) /\ n = End(i)
    BY <2>1
  <2>4. m <= n /\ n <= Len(b)
    BY <2>1, <2>3
  <2>5. /\ SubSeq(b, m + 1, n) \in Seq(Nat) /\ Len(SubSeq(b, m + 1, n)) = n - m
        /\ \A j \in 1..(n - m) : SubSeq(b, m + 1, n)[j] = b[m + j]
    BY <1>0, <2>4, PieceProps
  <2> QED
    BY <2>3, <2>5
<1>6. Chunks(b) \in Seq(Bytes) /\ Len(Chunks(b)) = q
  <2>1. \A i \in 1..q : SubSeq(b, End(i - 1) + 1, End(i)) \in Bytes
    BY <1>5 DEF Bytes
  <2>2. Chunks(b) \in [1..q -> Bytes]
    BY <1>4, <2>1
  <2> QED
    BY <2>2
<1>7. P \in [0..q -> Nat] /\ P[0] = 0 /\ P[q] = Len(b)
    BY <1>3
<1>8. Cut(b, Chunks(b), P)
  <2>1. SUFFICES ASSUME NEW i \in 1..q
                 PROVE  /\ P[i] = P[i - 1] + Len(Chunks(b)[i]) /\ P[i] <= Len(b)
                        /\ \A j \in 1..Len(Chunks(b)[i]) : Chunks(b)[i][j] = b[P[i - 1] + j]
    BY <1>6 DEF Cut
  <2>2. P[i] = End(i) /\ P[i - 1] = End(i - 1) /\ End(i) \in Nat /\ End(i - 1) \in Nat /\ End(i) <= Len(b)
    BY <1>3
  <2>3. Chunks(b)[i] = SubSeq(b, End(i - 1) + 1, End(i))
    BY <1>4
  <2> QED
    BY <1>5, <2>2, <2>3
<1> QED
    BY <1>6, <1>7, <1>8


-----------------------------------------------------------------------------
(* Where the frames stand, in numbers.                                     *)
LEMMA StartProps ==
    ASSUME TypeOK, FramesInv
    PROVE  /\ Len(frames) \in Nat /\ Len(ends) = Len(frames) /\ Len(stream) \in Nat
           /\ \A i \in 1..Len(frames) : ends[i] \in Nat /\ frames[i] \in Frame /\ Start(i + 1) = ends[i]
           /\ \A i \in 1..(Len(frames) + 1) : Start(i) \in Nat
           /\ Start(1) = 0
<1>1. Len(frames) \in Nat /\ Len(ends) = Len(frames) /\ Len(stream) \in Nat
    BY LenProperties DEF TypeOK, FramesInv, Bytes
<1>2. \A i \in 1..Len(frames) : ends[i] \in Nat /\ frames[i] \in Frame
    BY <1>1, ElementOfSeq DEF TypeOK
<1>3. \A i \in 1..Len(frames) : Start(i + 1) = ends[i]
    BY <1>1 DEF Start
<1>4. \A i \in 1..(Len(frames) + 1) : Start(i) \in Nat
    BY <1>1, <1>2 DEF Start
<1> QED
    BY <1>1, <1>2, <1>3, <1>4 DEF Start

(* The next frame has arrived whole: the buffer begins with it.            *)
Arrived == Returned + 1 <= Len(frames) /\ ends[Returned + 1] <= taken

LEMMA WholeFrame ==
    ASSUME TypeOK, FramesInv, BufferInv, Arrived
    PROVE  /\ FrameReady(recv_buf)
           /\ Decoded(recv_buf) = frames[Returned + 1]
           /\ Start(Returned + 1) + Total(recv_buf) = ends[Returned + 1]
<1> DEFINE k == Returned + 1
           f == frames[k]
           n == Len(f.payload)
<1>1. Returned \in Nat /\ Len(recv_buf) \in Nat /\ taken \in Nat /\ recv_buf \in Seq(Nat)
    BY LenProperties DEF TypeOK, Returned, Bytes
<1>2. k \in 1..Len(frames) /\ Start(k) \in Nat /\ ends[k] \in Nat /\ f \in Frame
    BY <1>1, StartProps DEF Arrived
<1>3. n \in Nat /\ f.payload \in Seq(Nat) /\ f.type \in FrameTypes
      /\ f = [type |-> f.type, sid |-> f.sid, payload |-> f.payload]
    BY <1>2, FrameProps DEF Bytes
<1> HIDE DEF k, f, n
<1>4. /\ ends[k] = Start(k) + 3 + n /\ ends[k] <= taken
      /\ taken <= Start(k) + Len(recv_buf)
      /\ \A j \in 1..(taken - Start(k)) : recv_buf[j] = stream[Start(k) + j]
      /\ stream[Start(k) + 1] = f.type /\ stream[Start(k) + 2] = f.sid /\ stream[Start(k) + 3] = n
      /\ \A j \in 1..n : stream[Start(k) + 3 + j] = f.payload[j]
    BY <1>2 DEF FramesInv, Stands, BufferInv, Arrived, k, f, n, HDR_SIZE
<1>5. 3 + n <= taken - Start(k) /\ 3 + n <= Len(recv_buf)
  <2>1. ends[k] = Start(k) + 3 + n /\ ends[k] <= taken /\ taken <= Start(k) + Len(recv_buf)
    BY <1>4
  <2> QED
    BY <1>1, <1>2, <1>3, <2>1
<1>6. \A j \in 1..(3 + n) : recv_buf[j] = stream[Start(k) + j]
  <2>1. \A j \in 1..(3 + n) : j \in 1..(taken - Start(k))
    BY <1>1, <1>2, <1>3, <1>5
  <2> QED
    BY <1>4, <2>1, Zenon
<1>7. recv_buf[1] = f.type /\ recv_buf[2] = f.sid /\ recv_buf[3] = n
  <2>1. 1 \in 1..(3 + n) /\ 2 \in 1..(3 + n) /\ 3 \in 1..(3 + n)
    BY <1>3
  <2> QED
    BY <1>4, <1>6, <2>1, Zenon
<1>8. Total(recv_buf) = 3 + n
    BY <1>7 DEF Total, HDR_SIZE
<1>9. FrameReady(recv_buf)
    BY <1>1, <1>3, <1>5, <1>7, <1>8 DEF FrameReady, HasHeader, KnownType, HDR_SIZE
<1>10. SubSeq(recv_buf, 4, 3 + n) = f.payload
  <2>1. PICK m \in Nat : m = 3 + n
    BY <1>3
  <2>2. 3 \in Nat /\ 3 <= m /\ m <= Len(recv_buf) /\ m - 3 = n
    BY <1>3, <1>5, <2>1
  <2> DEFINE p == SubSeq(recv_buf, 3 + 1, m)
  <2>3. p \in Seq(Nat) /\ Len(p) = n /\ \A j \in 1..n : p[j] = recv_buf[3 + j]
    <3>1. /\ p \in Seq(Nat) /\ Len(p) = m - 3
          /\ \A j \in 1..(m - 3) : p[j] = recv_buf[3 + j]
      BY <1>1, <2>2, PieceProps
    <3> QED
      BY <2>2, <3>1
  <2> HIDE DEF p
  <2>4. \A j \in 1..n : p[j] = f.payload[j]
    <3>1. SUFFICES ASSUME NEW j \in 1..n PROVE p[j] = f.payload[j]
      OBVIOUS
    <3>2. 3 + j \in 1..(3 + n) /\ Start(k) + (3 + j) = Start(k) + 3 + j
      BY <1>2, <1>3, <3>1
    <3>3. recv_buf[3 + j] = stream[Start(k) + 3 + j]
      BY <1>6, <3>2
    <3> QED
      BY <1>4, <2>3, <3>3
  <2>5. p = f.payload
    BY <1>3, <2>3, <2>4, SeqEqual DEF n
  <2>6. SubSeq(recv_buf, 4, m) = f.payload
    BY <2>5 DEF p
  <2> QED
    BY <2>1, <2>6
<1>11. Decoded(recv_buf) = f
    BY <1>3, <1>7, <1>8, <1>10 DEF Decoded, HDR_SIZE
<1>12. Start(k) + Total(recv_buf) = ends[k]
    BY <1>2, <1>3, <1>4, <1>8
<1> QED
    BY <1>9, <1>11, <1>12 DEF k, f

(* It has not: nothing that came before the first loss is missing, and     *)
(* without a loss there is nothing to decode and nothing to drop.          *)
LEMMA NoWholeFrame ==
    ASSUME TypeOK, FramesInv, taken <= Len(stream), BufferInv, ~Arrived
    PROVE  /\ AllBeforeLoss
           /\ lost = 0 => ~FrameReady(recv_buf) /\ ~DecodingFailed(recv_buf)
           /\ lost = 0 /\ taken = Len(stream) => Returned = Len(frames) /\ Len(recv_buf) = 0
<1> DEFINE k == Returned + 1
<1>1. Returned \in Nat /\ Len(recv_buf) \in Nat /\ taken \in Nat
    BY LenProperties DEF TypeOK, Returned, Bytes
<1>2. /\ Len(frames) \in Nat /\ Len(stream) \in Nat
      /\ \A i \in 1..Len(frames) : ends[i] \in Nat /\ frames[i] \in Frame
      /\ \A i \in 1..(Len(frames) + 1) : Start(i) \in Nat
    BY StartProps
<1>3. /\ Returned <= Len(frames) /\ \A i \in 1..Returned : received[i] = frames[i]
      /\ Start(k) <= taken /\ taken <= Start(k) + Len(recv_buf)
      /\ \A j \in 1..(taken - Start(k)) : recv_buf[j] = stream[Start(k) + j]
      /\ lost = 0 => taken = Start(k) + Len(recv_buf)
    BY DEF BufferInv
<1>4. AllBeforeLoss
  <2>1. SUFFICES ASSUME NEW i \in 1..Len(frames), ends[i] <= taken
                 PROVE  i <= Returned /\ received[i] = frames[i]
    BY DEF AllBeforeLoss
  <2>2. CASE i <= Returned
    BY <1>1, <1>3, <2>2
  <2>3. CASE ~(i <= Returned)
    <3>1. k \in 1..Len(frames) /\ k <= i
      BY <1>1, <1>2, <2>3
    <3>2. ends[k] <= ends[i]
      BY <3>1 DEF FramesInv
    <3>3. ends[k] <= taken
      BY <1>1, <1>2, <2>1, <3>1, <3>2
    <3> QED
      BY <1>1, <1>2, <3>1, <3>3 DEF Arrived
  <2> QED
    BY <2>2, <2>3
<1>5. CASE k <= Len(frames)
  <2> DEFINE f == frames[k]
             n == Len(f.payload)
  <2>1. k \in 1..Len(frames) /\ Start(k) \in Nat /\ ends[k] \in Nat /\ f \in Frame
    BY <1>1, <1>2, <1>5
  <2>2. n \in Nat /\ f.type \in FrameTypes
    BY <2>1, FrameProps
  <2>3. /\ ends[k] = Start(k) + 3 + n /\ ends[k] <= Len(stream)
        /\ stream[Start(k) + 1] = f.type /\ stream[Start(k) + 3] = n
    BY <2>1 DEF FramesInv, Stands, HDR_SIZE
  <2>4. taken < ends[k]
    BY <1>1, <1>5, <2>1 DEF Arrived
  <2> HIDE DEF f, n, k
  <2>5. ASSUME lost = 0
        PROVE  ~FrameReady(recv_buf) /\ ~DecodingFailed(recv_buf)
    <3>1. taken - Start(k) = Len(recv_buf) /\ Len(recv_buf) < 3 + n
      <4>1. taken = Start(k) + Len(recv_buf) /\ taken < Start(k) + 3 + n
        BY <1>3, <2>3, <2>4, <2>5
      <4> QED
        BY <1>1, <2>1, <2>2, <4>1
    <3>2. CASE Len(recv_buf) < 3
      BY <1>1, <3>2 DEF FrameReady, DecodingFailed, HasHeader, HDR_SIZE
    <3>3. CASE Len(recv_buf) >= 3
      <4>1. 1 \in 1..(taken - Start(k)) /\ 3 \in 1..(taken - Start(k))
        BY <1>1, <3>1, <3>3
      <4>2. recv_buf[1] = f.type /\ recv_buf[3] = n
        BY <1>3, <2>3, <4>1, Zenon
      <4> QED
        BY <1>1, <2>2, <3>1, <4>2 DEF FrameReady, DecodingFailed, KnownType, Total, HDR_SIZE
    <3> QED
      BY <1>1, <3>2, <3>3
  <2> QED
    BY <1>1, <1>2, <1>4, <2>1, <2>3, <2>4, <2>5
<1>6. CASE ~(k <= Len(frames))
  <2>1. k = Len(frames) + 1 /\ Start(k) = Len(stream) /\ Returned = Len(frames)
    BY <1>1, <1>2, <1>3, <1>6 DEF FramesInv
  <2>2. lost = 0 => Len(recv_buf) = 0
    BY <1>1, <1>2, <1>3, <2>1
  <2>3. lost = 0 => ~FrameReady(recv_buf) /\ ~DecodingFailed(recv_buf)
    BY <2>2 DEF FrameReady, DecodingFailed, HasHeader, HDR_SIZE
  <2> QED
    BY <1>4, <2>1, <2>2, <2>3
<1> QED
    BY <1>5, <1>6

-----------------------------------------------------------------------------
LEMMA TypesHold == TypeOK /\ [Next]_vars => TypeOK'
<1> SUFFICES ASSUME TypeOK, [Next]_vars PROVE TypeOK'
    OBVIOUS
<1> USE DEF TypeOK
<1>1. CASE SendFrame
  <2>1. PICK f \in Frame : /\ frames' = Append(frames, f)
                           /\ packets' = packets \o Chunks(Encode(f))
                           /\ stream' = stream \o Encode(f)
                           /\ ends' = Append(ends, Len(stream'))
    BY <1>1 DEF SendFrame
  <2>2. Encode(f) \in Bytes
    BY EncodeProps
  <2>3. Chunks(Encode(f)) \in Seq(Bytes)
    BY <2>2, ChunksProps
  <2>4. frames' \in Seq(Frame)
    BY <2>1, AppendProps
  <2>5. packets' \in Seq(Bytes)
    BY <2>1, <2>3, JoinProps
  <2>6. stream' \in Bytes
    BY <2>1, <2>2, JoinProps DEF Bytes
  <2>7. Len(stream') \in Nat
    BY <2>6, LenProperties DEF Bytes
  <2>8. ends' \in Seq(Nat)
    BY <2>1, <2>7, AppendProps
  <2> QED
    BY <1>1, <2>4, <2>5, <2>6, <2>8 DEF SendFrame
<1>2. CASE Lose
  <2>1. packets' \in Seq(Bytes)
    BY <1>2, TailProps DEF Lose
  <2>2. lost' \in 0..MaxLost
    BY <1>2, ReassemblyAssumption DEF Lose
  <2> QED
    BY <1>2, <2>1, <2>2 DEF Lose
<1>3. CASE ReceiveData
  <2>1. packets' \in Seq(Bytes) /\ Head(packets) \in Bytes
    BY <1>3, TailProps DEF ReceiveData
  <2>2. recv_buf' \in Bytes /\ Len(Head(packets)) \in Nat
    BY <1>3, <2>1, JoinProps DEF ReceiveData, Bytes
  <2>3. taken' \in Nat
    BY <1>3, <2>2 DEF ReceiveData
  <2> QED
    BY <1>3, <2>1, <2>2, <2>3 DEF ReceiveData
<1>4. CASE Extract
  <2>1. recv_buf \in Seq(Nat) /\ Len(recv_buf) \in Nat /\ Len(recv_buf) >= 3 /\ recv_buf[1] \in FrameTypes
    BY <1>4, LenProperties DEF Extract, FrameReady, HasHeader, KnownType, HDR_SIZE, Bytes
  <2>2. recv_buf[2] \in Nat /\ recv_buf[3] \in Nat
    BY <2>1, ElementOfSeq
  <2>3. PICK t \in Nat : t = 3 + recv_buf[3]
    BY <2>2
  <2>4. Total(recv_buf) = t /\ t <= Len(recv_buf) /\ 3 <= t
    <3>1. Total(recv_buf) = t
      BY <2>3 DEF Total, HDR_SIZE
    <3>2. Len(recv_buf) >= Total(recv_buf)
      BY <1>4 DEF Extract, FrameReady
    <3> QED
      BY <2>1, <2>2, <2>3, <3>1, <3>2
  <2>5. SubSeq(recv_buf, 3 + 1, t) \in Seq(Nat)
    BY <2>1, <2>4, PieceProps
  <2>6. SubSeq(recv_buf, t + 1, Len(recv_buf)) \in Seq(Nat)
    <3>1. PICK b \in Nat : b = Len(recv_buf) /\ t <= b /\ b <= Len(recv_buf)
      BY <2>1, <2>4
    <3>2. SubSeq(recv_buf, t + 1, b) \in Seq(Nat)
      BY <2>1, <3>1, PieceProps
    <3> QED
      BY <3>1, <3>2
  <2>7. Decoded(recv_buf) \in [type : FrameTypes, sid : Nat, payload : Bytes]
    BY <2>1, <2>2, <2>4, <2>5 DEF Decoded, HDR_SIZE, Bytes
  <2>8. received' \in Seq([type : FrameTypes, sid : Nat, payload : Bytes])
    BY <1>4, <2>7, AppendProps DEF Extract
  <2>9. recv_buf' \in Bytes
    BY <1>4, <2>4, <2>6 DEF Extract, Drained, Bytes
  <2> QED
    BY <1>4, <2>8, <2>9 DEF Extract
<1>5. CASE Stop
  <2>1. <<>> \in Bytes
    BY DEF Bytes
  <2> QED
    BY <1>5, <2>1 DEF Stop
<1>6. CASE UNCHANGED vars
  BY <1>6 DEF vars
<1> QED
    BY <1>1, <1>2, <1>3, <1>4, <1>5, <1>6 DEF Next

(* A frame that is sent: what stood in the stream still stands there, and  *)
(* the new frame behind it.                                                *)
Sent(f) ==
    /\ frames' = Append(frames, f)
    /\ stream' = stream \o Encode(f)
    /\ ends' = Append(ends, Len(stream'))

LEMMA SendProps ==
    ASSUME TypeOK, FramesInv, NEW f \in Frame, Sent(f)
    PROVE  /\ Len(frames') = Len(frames) + 1 /\ frames'[Len(frames) + 1] = f
           /\ Len(ends') = Len(frames) + 1 /\ ends'[Len(frames) + 1] = Len(stream')
           /\ \A i \in 1..Len(frames) : frames'[i] = frames[i] /\ ends'[i] = ends[i]
           /\ \A i \in 1..(Len(frames) + 1) : Start(i)' = Start(i)
           /\ Len(stream') \in Nat /\ Len(stream) <= Len(stream')
           /\ Len(stream') = Len(stream) + Len(Encode(f))
           /\ \A j \in 1..Len(stream) : stream'[j] = stream[j]
           /\ \A j \in 1..Len(Encode(f)) : stream'[Len(stream) + j] = Encode(f)[j]
<1>1. /\ Len(frames) \in Nat /\ Len(ends) = Len(frames) /\ Len(stream) \in Nat
      /\ frames \in Seq(Frame) /\ ends \in Seq(Nat) /\ stream \in Seq(Nat)
    BY StartProps DEF TypeOK, Bytes
<1>2. Encode(f) \in Seq(Nat) /\ Len(Encode(f)) = HDR_SIZE + Len(f.payload) /\ Len(f.payload) \in Nat
    BY EncodeProps, FrameProps DEF Bytes
<1>3. /\ Len(stream') = Len(stream) + Len(Encode(f))
      /\ \A j \in 1..Len(stream) : stream'[j] = stream[j]
      /\ \A j \in 1..Len(Encode(f)) : stream'[Len(stream) + j] = Encode(f)[j]
    BY <1>1, <1>2, JoinProps DEF Sent
<1>4. Len(stream') \in Nat /\ Len(stream) <= Len(stream')
  <2>1. Len(Encode(f)) \in Nat
    BY <1>2, LenProperties
  <2> QED
    BY <1>1, <1>3, <2>1
<1>5. /\ Len(frames') = Len(frames) + 1 /\ frames'[Len(frames) + 1] = f
      /\ \A i \in 1..Len(frames) : frames'[i] = frames[i]
    BY <1>1, AppendProps DEF Sent
<1>6. /\ Len(ends') = Len(frames) + 1 /\ ends'[Len(frames) + 1] = Len(stream')
      /\ \A i \in 1..Len(frames) : ends'[i] = ends[i]
    BY <1>1, <1>4, AppendProps DEF Sent
<1>7. \A i \in 1..(Len(frames) + 1) : Start(i)' = Start(i)
  <2>1. SUFFICES ASSUME NEW i \in 1..(Len(frames) + 1) PROVE Start(i)' = Start(i)
    OBVIOUS
  <2>2. i # 1 => i - 1 \in 1..Len(frames)
    BY <1>1, <2>1
  <2> QED
    BY <1>6, <2>2 DEF Start
<1> QED
    BY <1>3, <1>4, <1>5, <1>6, <1>7

LEMMA FramesHold == TypeOK /\ FramesInv /\ [Next]_vars => FramesInv'
<1> SUFFICES ASSUME TypeOK, FramesInv, [Next]_vars PROVE FramesInv'
    OBVIOUS
<1>1. CASE SendFrame
  <2>1. PICK f \in Frame : Sent(f)
    BY <1>1 DEF SendFrame, Sent
  <2>0. PICK N \in Nat : N = Len(frames)
    BY StartProps
  <2>2. /\ Len(frames') = N + 1 /\ frames'[N + 1] = f
        /\ Len(ends') = N + 1 /\ ends'[N + 1] = Len(stream')
        /\ \A i \in 1..N : frames'[i] = frames[i] /\ ends'[i] = ends[i]
        /\ \A i \in 1..(N + 1) : Start(i)' = Start(i)
        /\ Len(stream') \in Nat /\ Len(stream) <= Len(stream')
        /\ Len(stream') = Len(stream) + Len(Encode(f))
        /\ \A j \in 1..Len(stream) : stream'[j] = stream[j]
        /\ \A j \in 1..Len(Encode(f)) : stream'[Len(stream) + j] = Encode(f)[j]
    BY <2>0, <2>1, SendProps
  <2>3. /\ N \in Nat /\ Len(stream) \in Nat /\ Start(N + 1) = Len(stream)
        /\ \A i \in 1..N : ends[i] \in Nat /\ frames[i] \in Frame
        /\ \A i \in 1..(N + 1) : Start(i) \in Nat
    BY <2>0, StartProps DEF FramesInv
  <2>5. ASSUME NEW i \in 1..N PROVE Stands(i)'
    <3> DEFINE n == Len(frames[i].payload)
    <3>1. n \in Nat /\ Start(i) \in Nat /\ i \in 1..(N + 1)
      BY <2>3, <2>5, FrameProps
    <3>2. /\ ends[i] = Start(i) + 3 + n /\ ends[i] <= Len(stream)
          /\ stream[Start(i) + 1] = frames[i].type
          /\ stream[Start(i) + 2] = frames[i].sid
          /\ stream[Start(i) + 3] = n
          /\ \A j \in 1..n : stream[Start(i) + 3 + j] = frames[i].payload[j]
      BY <2>0, <2>5 DEF FramesInv, Stands, HDR_SIZE
    <3> HIDE DEF n
    <3>3. \A j \in 1..(3 + n) : stream'[Start(i) + j] = stream[Start(i) + j]
      <4>1. \A j \in 1..(3 + n) : Start(i) + j \in 1..Len(stream)
        <5>1. Start(i) + 3 + n <= Len(stream) /\ Len(stream) \in Nat
          BY <2>3, <3>2
        <5> QED
          BY <3>1, <5>1
      <4> QED
        BY <2>2, <4>1
    <3>4. /\ stream'[Start(i) + 1] = stream[Start(i) + 1]
          /\ stream'[Start(i) + 2] = stream[Start(i) + 2]
          /\ stream'[Start(i) + 3] = stream[Start(i) + 3]
      BY <3>1, <3>3
    <3>5. \A j \in 1..n : stream'[Start(i) + 3 + j] = frames[i].payload[j]
      <4>1. \A j \in 1..n : 3 + j \in 1..(3 + n) /\ Start(i) + (3 + j) = Start(i) + 3 + j
        BY <3>1
      <4> QED
        BY <3>2, <3>3, <4>1
    <3>6. frames'[i] = frames[i] /\ ends'[i] = ends[i] /\ Start(i)' = Start(i)
      BY <2>2, <3>1
    <3>7. ends[i] <= Len(stream')
      BY <2>2, <2>3, <2>5, <3>2
    <3> QED
      BY <3>2, <3>4, <3>5, <3>6, <3>7 DEF Stands, HDR_SIZE, n
  <2>6. Stands(N + 1)'
    <3> DEFINE e == Encode(f)
               n == Len(f.payload)
    <3>1. /\ Len(e) = 3 + n /\ e[1] = f.type /\ e[2] = f.sid /\ e[3] = n
          /\ \A j \in 1..n : e[3 + j] = f.payload[j]
      BY EncodeProps DEF HDR_SIZE
    <3>2. Start(N + 1)' = Len(stream)
      <4>1. N + 1 \in 1..(N + 1)
        BY <2>3
      <4> QED
        BY <2>2, <2>3, <4>1
    <3> HIDE DEF e, n
    <3>3. n \in Nat
      BY FrameProps DEF n
    <3>4. \A j \in 1..(3 + n) : stream'[Len(stream) + j] = e[j]
      BY <2>2, <3>1 DEF e
    <3>5. /\ stream'[Len(stream) + 1] = f.type
          /\ stream'[Len(stream) + 2] = f.sid
          /\ stream'[Len(stream) + 3] = n
      BY <3>1, <3>3, <3>4
    <3>6. \A j \in 1..n : stream'[Len(stream) + 3 + j] = f.payload[j]
      <4>1. \A j \in 1..n : 3 + j \in 1..(3 + n) /\ Len(stream) + (3 + j) = Len(stream) + 3 + j
        BY <2>3, <3>3
      <4> QED
        BY <3>1, <3>4, <4>1
    <3>7. Len(stream') = Len(stream) + 3 + n
      BY <2>2, <2>3, <3>1, <3>3 DEF e
    <3>8. /\ ends'[N + 1] = Start(N + 1)' + 3 + n /\ ends'[N + 1] <= Len(stream')
          /\ stream'[Start(N + 1)' + 1] = f.type
          /\ stream'[Start(N + 1)' + 2] = f.sid
          /\ stream'[Start(N + 1)' + 3] = n
          /\ \A j \in 1..n : stream'[Start(N + 1)' + 3 + j] = f.payload[j]
      <4>1. ends'[N + 1] = Len(stream) + 3 + n /\ ends'[N + 1] <= Len(stream')
        <5>1. ends'[N + 1] = Len(stream') /\ Len(stream') \in Nat
          BY <2>2
        <5> QED
          BY <3>7, <5>1
      <4> QED
        BY <3>2, <3>5, <3>6, <4>1, Zenon
    <3>9. frames'[N + 1] = f
      BY <2>2
    <3> QED
      BY <3>8, <3>9, Zenon DEF Stands, HDR_SIZE, n
  <2>7. \A i \in 1..(N + 1) : Stands(i)'
    <3>1. \A i \in 1..(N + 1) : i \in 1..N \/ i = N + 1
      BY <2>3
    <3> QED
      BY <2>5, <2>6, <3>1
  <2>8. \A i, j \in 1..(N + 1) : i <= j => ends'[i] <= ends'[j]
    <3>1. SUFFICES ASSUME NEW i \in 1..(N + 1), NEW j \in 1..(N + 1), i <= j
                   PROVE  ends'[i] <= ends'[j]
      OBVIOUS
    <3>2. CASE j \in 1..N
      <4>1. i \in 1..N
        BY <2>3, <3>1, <3>2
      <4> QED
        BY <2>0, <2>2, <3>1, <3>2, <4>1 DEF FramesInv
    <3>3. CASE i \in 1..N /\ j = N + 1
      <4>1. ends[i] <= Len(stream) /\ ends'[i] = ends[i] /\ ends[i] \in Nat
        BY <2>0, <2>2, <2>3, <3>3 DEF FramesInv, Stands
      <4> QED
        BY <2>2, <2>3, <3>3, <4>1
    <3>4. CASE i = N + 1 /\ j = N + 1
      BY <2>2, <3>4
    <3> QED
      BY <2>3, <3>1, <3>2, <3>3, <3>4
  <2>9. Start(N + 2)' = Len(stream')
    BY <2>2, <2>3 DEF Start
  <2> QED
    BY <2>2, <2>3, <2>7, <2>8, <2>9 DEF FramesInv
<1>2. CASE UNCHANGED <<frames, stream, ends>>
  BY <1>2 DEF FramesInv, Stands, Start
<1> QED
    BY <1>1, <1>2 DEF Next, Lose, ReceiveData, Extract, Stop, vars

-----------------------------------------------------------------------------
(* The packets of a frame that is sent stand behind those on their way.    *)
LEMMA CutJoin ==
    ASSUME NEW st \in Seq(Nat), NEW e \in Seq(Nat), NEW q \in Seq(Bytes), NEW c \in Seq(Bytes), NEW t \in Nat,
           NEW P \in [0..Len(q) -> Nat], P[0] = t, P[Len(q)] = Len(st), Cut(st, q, P),
           NEW Q \in [0..Len(c) -> Nat], Q[0] = 0, Q[Len(c)] = Len(e), Cut(e, c, Q)
    PROVE  \E R \in [0..Len(q \o c) -> Nat] :
              R[0] = t /\ R[Len(q \o c)] = Len(st \o e) /\ Cut(st \o e, q \o c, R)
<1>1. PICK m \in Nat, n \in Nat, a \in Nat : m = Len(q) /\ n = Len(c) /\ a = Len(st)
    BY LenProperties
<1>2. /\ Len(q \o c) = m + n
      /\ \A i \in 1..m : (q \o c)[i] = q[i]
      /\ \A i \in 1..n : (q \o c)[m + i] = c[i]
    BY <1>1, JoinProps
<1>3. PICK w : w = q \o c
    OBVIOUS
<1>4. /\ Len(e) \in Nat /\ Len(st \o e) = a + Len(e)
      /\ \A i \in 1..a : (st \o e)[i] = st[i]
      /\ \A i \in 1..Len(e) : (st \o e)[a + i] = e[i]
    BY <1>1, JoinProps
<1>5. PICK v : v = st \o e
    OBVIOUS
<1>6. /\ \A i \in 0..m : P[i] \in Nat
      /\ \A i \in 1..m : /\ P[i] = P[i - 1] + Len(q[i]) /\ P[i] <= a
                         /\ \A j \in 1..Len(q[i]) : q[i][j] = st[P[i - 1] + j]
      /\ P[m] = a
    BY <1>1 DEF Cut
<1>7. /\ \A i \in 0..n : Q[i] \in Nat
      /\ \A i \in 1..n : /\ Q[i] = Q[i - 1] + Len(c[i]) /\ Q[i] <= Len(e)
                         /\ \A j \in 1..Len(c[i]) : c[i][j] = e[Q[i - 1] + j]
      /\ Q[n] = Len(e)
    BY <1>1 DEF Cut
<1>8. /\ \A i \in 1..m : Len(q[i]) \in Nat
      /\ \A i \in 1..n : Len(c[i]) \in Nat
  <2>1. \A i \in 1..m : q[i] \in Seq(Nat)
    BY <1>1, ElementOfSeq DEF Bytes
  <2>2. \A i \in 1..n : c[i] \in Seq(Nat)
    BY <1>1, ElementOfSeq DEF Bytes
  <2> QED
    BY <2>1, <2>2, LenProperties
<1> DEFINE R == [i \in 0..(m + n) |-> IF i <= m THEN P[i] ELSE a + Q[i - m]]
<1>9. R \in [0..(m + n) -> Nat]
  <2>1. \A i \in 0..(m + n) : i <= m \/ (i - m \in 0..n /\ ~(i <= m))
    OBVIOUS
  <2>2. ASSUME NEW i \in 0..(m + n) PROVE (IF i <= m THEN P[i] ELSE a + Q[i - m]) \in Nat
    <3>1. CASE i <= m
      BY <1>6, <2>2, <3>1
    <3>2. CASE ~(i <= m)
      <4>1. Q[i - m] \in Nat
        BY <1>7, <2>1, <2>2, <3>2
      <4>2. a + Q[i - m] \in Nat
        BY <4>1
      <4> QED
        BY <3>2, <4>2
    <3> QED
      BY <3>1, <3>2
  <2> QED
    BY <2>2
<1>10. /\ \A i \in 0..m : R[i] = P[i]
       /\ \A i \in 0..n : R[m + i] = a + Q[i]
  <2>1. \A i \in 0..m : R[i] = P[i]
    OBVIOUS
  <2>2. ASSUME NEW i \in 0..n PROVE R[m + i] = a + Q[i]
    <3>1. CASE i = 0
      BY <1>6, <2>1, <3>1
    <3>2. CASE i # 0
      <4>1. m + i \in 0..(m + n) /\ ~(m + i <= m) /\ (m + i) - m = i
        BY <2>2, <3>2
      <4> QED
        BY <4>1
    <3> QED
      BY <3>1, <3>2
  <2> QED
    BY <2>1, <2>2
<1> HIDE DEF R
<1>11. R[0] = t /\ R[m + n] = Len(v)
  <2>1. R[0] = P[0] /\ R[m + n] = a + Q[n]
    BY <1>10
  <2>2. Len(v) = a + Len(e)
    BY <1>4, <1>5
  <2> QED
    BY <1>7, <2>1, <2>2, Zenon
<1>12. \A i \in 1..m : /\ R[i] = R[i - 1] + Len(w[i]) /\ R[i] <= Len(v)
                       /\ \A j \in 1..Len(w[i]) : w[i][j] = v[R[i - 1] + j]
  <2>1. SUFFICES ASSUME NEW i \in 1..m
                 PROVE  /\ R[i] = R[i - 1] + Len(w[i]) /\ R[i] <= Len(v)
                        /\ \A j \in 1..Len(w[i]) : w[i][j] = v[R[i - 1] + j]
    OBVIOUS
  <2>2. i \in 0..m /\ i - 1 \in 0..m
    BY <2>1
  <2>3. /\ R[i] = P[i] /\ R[i - 1] = P[i - 1] /\ P[i] \in Nat /\ P[i - 1] \in Nat
        /\ w[i] = q[i] /\ Len(q[i]) \in Nat
    BY <1>2, <1>3, <1>6, <1>8, <1>10, <2>1, <2>2
  <2>4. /\ P[i] = P[i - 1] + Len(q[i]) /\ P[i] <= a
        /\ \A j \in 1..Len(q[i]) : q[i][j] = st[P[i - 1] + j]
    BY <1>6, <2>1
  <2>5. Len(v) = a + Len(e) /\ \A j \in 1..a : v[j] = st[j]
    BY <1>4, <1>5
  <2>6. ASSUME NEW j \in 1..Len(q[i]) PROVE P[i - 1] + j \in 1..a
    <3>1. P[i - 1] + Len(q[i]) <= a /\ P[i - 1] \in Nat /\ Len(q[i]) \in Nat
      BY <2>3, <2>4
    <3>2. PICK y \in Nat, z \in Nat : y = P[i - 1] /\ z = Len(q[i])
      BY <3>1
    <3>3. y + z <= a /\ j \in 1..z
      BY <2>6, <3>1, <3>2
    <3>4. y + j \in 1..a
      BY <3>3
    <3> QED
      BY <3>2, <3>4, Zenon
  <2>7. P[i] <= Len(v)
    BY <1>4, <2>3, <2>4, <2>5
  <2> QED
    BY <2>3, <2>4, <2>5, <2>6, <2>7
<1>13. \A i \in 1..n : /\ R[m + i] = R[m + i - 1] + Len(w[m + i]) /\ R[m + i] <= Len(v)
                       /\ \A j \in 1..Len(w[m + i]) : w[m + i][j] = v[R[m + i - 1] + j]
  <2>1. SUFFICES ASSUME NEW i \in 1..n
                 PROVE  /\ R[m + i] = R[m + i - 1] + Len(w[m + i]) /\ R[m + i] <= Len(v)
                        /\ \A j \in 1..Len(w[m + i]) : w[m + i][j] = v[R[m + i - 1] + j]
    OBVIOUS
  <2>2. i \in 0..n /\ i - 1 \in 0..n /\ m + i - 1 = m + (i - 1)
    BY <2>1
  <2>3. /\ R[m + i] = a + Q[i] /\ R[m + i - 1] = a + Q[i - 1] /\ Q[i] \in Nat /\ Q[i - 1] \in Nat
        /\ w[m + i] = c[i] /\ Len(c[i]) \in Nat
    BY <1>2, <1>3, <1>7, <1>8, <1>10, <2>1, <2>2
  <2>4. /\ Q[i] = Q[i - 1] + Len(c[i]) /\ Q[i] <= Len(e)
        /\ \A j \in 1..Len(c[i]) : c[i][j] = e[Q[i - 1] + j]
    BY <1>7, <2>1
  <2>5. Len(v) = a + Len(e) /\ \A j \in 1..Len(e) : v[a + j] = e[j]
    BY <1>4, <1>5
  <2>6. ASSUME NEW j \in 1..Len(c[i]) PROVE c[i][j] = v[a + Q[i - 1] + j]
    <3>1. Q[i - 1] + j \in 1..Len(e) /\ a + (Q[i - 1] + j) = a + Q[i - 1] + j
      <4>1. Q[i - 1] + Len(c[i]) <= Len(e) /\ Q[i - 1] \in Nat /\ Len(c[i]) \in Nat
        BY <2>3, <2>4
      <4>2. PICK b \in Nat, y \in Nat, z \in Nat : b = Len(e) /\ y = Q[i - 1] /\ z = Len(c[i])
        BY <1>4, <4>1
      <4>3. y + z <= b /\ j \in 1..z
        BY <2>6, <4>1, <4>2
      <4>4. y + j \in 1..b /\ a + (y + j) = a + y + j
        BY <4>3
      <4> QED
        BY <4>2, <4>4, Zenon
    <3> QED
      BY <2>4, <2>5, <2>6, <3>1
  <2>7. a + Q[i] <= Len(v) /\ a + Q[i] = a + Q[i - 1] + Len(c[i])
    <3>1. PICK x \in Nat, y \in Nat, z \in Nat : x = Q[i] /\ y = Q[i - 1] /\ z = Len(c[i])
      BY <2>3
    <3>2. x = y + z
      BY <2>4, <3>1
    <3>3. a + x = a + y + z
      BY <3>2
    <3>4. a + x <= Len(v)
      BY <1>4, <2>4, <2>5, <3>1
    <3> QED
      BY <3>1, <3>3, <3>4, Zenon
  <2> QED
    BY <2>3, <2>6, <2>7
<1>14. Cut(v, w, R)
  <2>1. SUFFICES ASSUME NEW i \in 1..(m + n)
                 PROVE  /\ R[i] = R[i - 1] + Len(w[i]) /\ R[i] <= Len(v)
                        /\ \A j \in 1..Len(w[i]) : w[i][j] = v[R[i - 1] + j]
    BY <1>2, <1>3 DEF Cut
  <2>2. CASE i <= m
    BY <1>12, <2>1, <2>2
  <2>3. CASE ~(i <= m)
    <3>1. PICK k \in 1..n : i = m + k
      <4>1. i - m \in 1..n /\ i = m + (i - m)
        BY <2>1, <2>3
      <4> QED
        BY <4>1
    <3>2. i - 1 = m + k - 1
      BY <3>1
    <3> QED
      BY <1>13, <3>1, <3>2, Zenon
  <2> QED
    BY <2>2, <2>3
<1> QED
    BY <1>2, <1>3, <1>5, <1>9, <1>11, <1>14

(* The first packet is taken: the next one continues where it ended.       *)
LEMMA CutTail ==
    ASSUME NEW st \in Seq(Nat), NEW q \in Seq(Bytes), q # <<>>,
           NEW P \in [0..Len(q) -> Nat], Cut(st, q, P)
    PROVE  /\ P[0] + Len(Head(q)) <= Len(st)
           /\ \A j \in 1..Len(Head(q)) : Head(q)[j] = st[P[0] + j]
           /\ \E R \in [0..Len(Tail(q)) -> Nat] :
                 /\ R[0] = P[0] + Len(Head(q)) /\ R[Len(Tail(q))] = P[Len(q)]
                 /\ Cut(st, Tail(q), R)
<1>1. PICK n \in Nat : Len(q) = n + 1
    BY TailProps
<1>2. /\ Head(q) = q[1] /\ Len(Tail(q)) = n
      /\ \A i \in 1..n : Tail(q)[i] = q[i + 1]
    BY <1>1, TailProps
<1>3. \A i \in 1..(n + 1) : /\ P[i] = P[i - 1] + Len(q[i]) /\ P[i] <= Len(st)
                            /\ \A j \in 1..Len(q[i]) : q[i][j] = st[P[i - 1] + j]
    BY <1>1 DEF Cut
<1>4. /\ P[1] = P[0] + Len(Head(q)) /\ P[1] <= Len(st)
      /\ \A j \in 1..Len(Head(q)) : Head(q)[j] = st[P[0] + j]
  <2>1. 1 \in 1..(n + 1) /\ 1 - 1 = 0
    OBVIOUS
  <2> QED
    BY <1>2, <1>3, <2>1
<1> DEFINE R == [i \in 0..n |-> P[i + 1]]
<1>5. R \in [0..n -> Nat]
  <2>1. \A i \in 0..n : i + 1 \in 0..Len(q)
    BY <1>1
  <2> QED
    BY <2>1
<1>6. \A i \in 0..n : R[i] = P[i + 1]
    OBVIOUS
<1> HIDE DEF R
<1>7. R[0] = P[1] /\ R[n] = P[n + 1]
    BY <1>6
<1>8. Cut(st, Tail(q), R)
  <2>1. SUFFICES ASSUME NEW i \in 1..n
                 PROVE  /\ R[i] = R[i - 1] + Len(Tail(q)[i]) /\ R[i] <= Len(st)
                        /\ \A j \in 1..Len(Tail(q)[i]) : Tail(q)[i][j] = st[R[i - 1] + j]
    BY <1>2 DEF Cut
  <2>2. i + 1 \in 1..(n + 1) /\ i \in 0..n /\ i - 1 \in 0..n /\ (i + 1) - 1 = i /\ (i - 1) + 1 = i
    BY <2>1
  <2>3. R[i] = P[i + 1] /\ R[i - 1] = P[i] /\ Tail(q)[i] = q[i + 1]
    BY <1>2, <1>6, <2>1, <2>2
  <2>4. /\ P[i + 1] = P[i] + Len(q[i + 1]) /\ P[i + 1] <= Len(st)
        /\ \A j \in 1..Len(q[i + 1]) : q[i + 1][j] = st[P[i] + j]
    BY <1>3, <2>2
  <2> QED
    BY <2>3, <2>4
<1> QED
    BY <1>1, <1>2, <1>4, <1>5, <1>7, <1>8

LEMMA PacketsHold == TypeOK /\ PacketsInv /\ [Next]_vars => PacketsInv'
<1> SUFFICES ASSUME TypeOK, PacketsInv, [Next]_vars PROVE PacketsInv'
    OBVIOUS
<1>0. stream \in Seq(Nat) /\ packets \in Seq(Bytes) /\ taken \in Nat
    BY DEF TypeOK, Bytes
<1>1. CASE SendFrame
  <2>1. SUFFICES ASSUME lost = 0
                 PROVE  \E R \in [0..Len(packets') -> Nat] :
                            R[0] = taken /\ R[Len(packets')] = Len(stream') /\ Cut(stream', packets', R)
    BY <1>1 DEF PacketsInv, SendFrame
  <2>2. PICK P \in [0..Len(packets) -> Nat] :
            P[0] = taken /\ P[Len(packets)] = Len(stream) /\ Cut(stream, packets, P)
    BY <2>1 DEF PacketsInv
  <2>3. PICK f \in Frame : packets' = packets \o Chunks(Encode(f)) /\ stream' = stream \o Encode(f)
    BY <1>1 DEF SendFrame
  <2>4. Encode(f) \in Bytes
    BY EncodeProps
  <2>5. PICK e \in Seq(Nat) : e = Encode(f)
    BY <2>4 DEF Bytes
  <2>6. Chunks(e) \in Seq(Bytes)
    BY <2>4, <2>5, ChunksProps
  <2>7. PICK Q \in [0..Len(Chunks(e)) -> Nat] :
            Q[0] = 0 /\ Q[Len(Chunks(e))] = Len(e) /\ Cut(e, Chunks(e), Q)
    BY <2>4, <2>5, ChunksProps
  <2>8. PICK c \in Seq(Bytes) : c = Chunks(e)
    BY <2>6
  <2>9. Q \in [0..Len(c) -> Nat] /\ Q[0] = 0 /\ Q[Len(c)] = Len(e) /\ Cut(e, c, Q)
    BY <2>7, <2>8
  <2>10. \E R \in [0..Len(packets \o c) -> Nat] :
            R[0] = taken /\ R[Len(packets \o c)] = Len(stream \o e) /\ Cut(stream \o e, packets \o c, R)
    BY <1>0, <2>2, <2>9, CutJoin
  <2> QED
    BY <2>3, <2>5, <2>8, <2>10
<1>2. CASE Lose
  <2>1. lost' # 0
    BY <1>2 DEF Lose, TypeOK
  <2> QED
    BY <2>1 DEF PacketsInv
<1>3. CASE ReceiveData
  <2>1. SUFFICES ASSUME lost = 0
                 PROVE  \E R \in [0..Len(Tail(packets)) -> Nat] :
                            /\ R[0] = taken + Len(Head(packets)) /\ R[Len(Tail(packets))] = Len(stream)
                            /\ Cut(stream, Tail(packets), R)
    BY <1>3 DEF PacketsInv, ReceiveData
  <2>2. PICK P \in [0..Len(packets) -> Nat] :
            P[0] = taken /\ P[Len(packets)] = Len(stream) /\ Cut(stream, packets, P)
    BY <2>1 DEF PacketsInv
  <2> QED
    BY <1>0, <1>3, <2>2, CutTail DEF ReceiveData
<1>4. CASE UNCHANGED <<packets, stream, taken, lost>>
  BY <1>4 DEF PacketsInv
<1> QED
    BY <1>1, <1>2, <1>3, <1>4 DEF Next, Extract, Stop, vars

-----------------------------------------------------------------------------
(* recv_buf and the stream, in numbers.                                    *)
LEMMA BufferNumbers ==
    ASSUME TypeOK, FramesInv
    PROVE  /\ Returned \in Nat /\ Len(recv_buf) \in Nat /\ taken \in Nat /\ lost \in Nat
           /\ Len(frames) \in Nat /\ Len(stream) \in Nat
           /\ BufferInv => Start(Returned + 1) \in Nat
<1>1. Returned \in Nat /\ Len(recv_buf) \in Nat /\ taken \in Nat /\ lost \in Nat
  <2>1. MaxLost \in Nat
    BY ReassemblyAssumption
  <2> QED
    BY <2>1, LenProperties DEF TypeOK, Returned, Bytes
<1>2. Len(frames) \in Nat /\ Len(stream) \in Nat /\ \A i \in 1..(Len(frames) + 1) : Start(i) \in Nat
    BY StartProps
<1>3. BufferInv => Returned + 1 \in 1..(Len(frames) + 1)
    BY <1>1, <1>2 DEF BufferInv
<1> QED
    BY <1>1, <1>2, <1>3

LEMMA SendTaken == TypeOK /\ FramesInv /\ TakenInv /\ SendFrame => TakenInv'
<1>1. SUFFICES ASSUME TypeOK, FramesInv, TakenInv, SendFrame PROVE TakenInv'
    OBVIOUS
<1>2. PICK f \in Frame : Sent(f)
    BY <1>1 DEF SendFrame, Sent
<1>3. PICK N \in Nat, L \in Nat : N = Len(frames) /\ L = Len(stream)
    BY <1>1, StartProps
<1>4. /\ Len(frames') = N + 1 /\ ends'[N + 1] = Len(stream')
      /\ \A i \in 1..N : frames'[i] = frames[i] /\ ends'[i] = ends[i]
      /\ \A i \in 1..(N + 1) : Start(i)' = Start(i)
      /\ Len(stream') \in Nat /\ L <= Len(stream')
      /\ Len(stream') = L + Len(Encode(f))
      /\ \A j \in 1..L : stream'[j] = stream[j]
    BY <1>1, <1>2, <1>3, SendProps
<1>5. L < Len(stream')
  <2> DEFINE n == Len(f.payload)
  <2>1. Len(Encode(f)) = 3 + n
    BY EncodeProps DEF HDR_SIZE
  <2>2. n \in Nat
    BY FrameProps
  <2> HIDE DEF n
  <2> QED
    BY <1>3, <1>4, <2>1, <2>2
<1>6. taken' = taken /\ lost' = lost /\ Returned' = Returned /\ received' = received /\ recv_buf' = recv_buf
    BY <1>1 DEF SendFrame, Returned
<1>7. /\ Returned \in Nat /\ Len(recv_buf) \in Nat /\ taken \in Nat /\ lost \in Nat
      /\ BufferInv => Start(Returned + 1) \in Nat
    BY <1>1, BufferNumbers
<1>8. taken <= L
    BY <1>1, <1>3 DEF TakenInv
<1>9. taken' <= Len(stream')
    BY <1>4, <1>6, <1>7, <1>8
<1>10. ASSUME BufferInv PROVE BufferInv'
  <2>1. PICK k \in Nat, s \in Nat : k = Returned /\ s = Start(k + 1)
    BY <1>7, <1>10
  <2>2. /\ k <= N /\ \A i \in 1..k : received[i] = frames[i]
        /\ s <= taken /\ taken <= s + Len(recv_buf)
        /\ \A j \in 1..(taken - s) : recv_buf[j] = stream[s + j]
        /\ lost = 0 => taken = s + Len(recv_buf)
    BY <1>3, <1>10, <2>1, Zenon DEF BufferInv
  <2>3. Start(k + 1)' = s
    BY <1>4, <2>1, <2>2
  <2>4. Returned' = k
    BY <1>6, <2>1
  <2>5. Start(Returned + 1)' = s
    BY <2>3, <2>4 DEF Start
  <2>6. k <= Len(frames') /\ \A i \in 1..k : received[i] = frames'[i]
    BY <1>4, <2>2
  <2>7. \A j \in 1..(taken - s) : recv_buf[j] = stream'[s + j]
    <3>1. \A j \in 1..(taken - s) : s + j \in 1..L
      BY <1>7, <1>8, <2>2
    <3> QED
      BY <1>4, <2>2, <3>1
  <2> QED
    BY <1>6, <2>2, <2>4, <2>5, <2>6, <2>7, Zenon DEF BufferInv
<1>11. ASSUME AllBeforeLoss PROVE AllBeforeLoss'
  <2>1. SUFFICES ASSUME NEW i \in 1..(N + 1), ends'[i] <= taken
                 PROVE  i <= Returned /\ received[i] = frames'[i]
    BY <1>4, <1>6 DEF AllBeforeLoss
  <2>2. CASE i = N + 1
    BY <1>4, <1>5, <1>7, <1>8, <2>1, <2>2
  <2>3. CASE i # N + 1
    <3>1. i \in 1..N
      BY <2>1, <2>3
    <3> QED
      BY <1>3, <1>4, <1>11, <2>1, <3>1 DEF AllBeforeLoss
  <2> QED
    BY <2>2, <2>3
<1> QED
    BY <1>1, <1>6, <1>9, <1>10, <1>11 DEF TakenInv

LEMMA ReceiveTaken == TypeOK /\ FramesInv /\ PacketsInv /\ TakenInv /\ ReceiveData => TakenInv'
<1>1. SUFFICES ASSUME TypeOK, FramesInv, PacketsInv, TakenInv, ReceiveData PROVE TakenInv'
    OBVIOUS
<1>2. /\ Returned \in Nat /\ Len(recv_buf) \in Nat /\ taken \in Nat /\ lost \in Nat
      /\ Len(frames) \in Nat /\ Len(stream) \in Nat
      /\ BufferInv => Start(Returned + 1) \in Nat
    BY <1>1, BufferNumbers
<1>3. /\ frames' = frames /\ received' = received /\ ends' = ends /\ stream' = stream /\ lost' = lost
      /\ packets # <<>> /\ taken' = IF lost = 0 THEN taken + Len(Head(packets)) ELSE taken
    BY <1>1 DEF ReceiveData
<1>4. Returned' = Returned /\ Start(Returned + 1)' = Start(Returned + 1)
    BY <1>3 DEF Returned, Start
<1>5. Head(packets) \in Seq(Nat) /\ recv_buf \in Seq(Nat)
    BY <1>1, <1>3, TailProps DEF TypeOK, Bytes
<1>6. PICK h \in Seq(Nat) : h = Head(packets)
    BY <1>5
<1>7. /\ Len(h) \in Nat /\ Len(recv_buf \o h) = Len(recv_buf) + Len(h)
      /\ \A i \in 1..Len(recv_buf) : (recv_buf \o h)[i] = recv_buf[i]
      /\ \A i \in 1..Len(h) : (recv_buf \o h)[Len(recv_buf) + i] = h[i]
    BY <1>5, JoinProps
<1>8. PICK nb : nb = recv_buf \o h
    OBVIOUS
<1>9. recv_buf' = nb
    BY <1>1, <1>6, <1>8 DEF ReceiveData
<1>10. CASE lost = 0
  <2>1. BufferInv
    BY <1>1, <1>10 DEF TakenInv
  <2>2. PICK k \in Nat, s \in Nat : k = Returned /\ s = Start(k + 1)
    BY <1>2, <2>1
  <2>3. PICK b \in Nat, n \in Nat, t \in Nat : b = Len(recv_buf) /\ n = Len(h) /\ t = taken
    BY <1>2, <1>7
  <2>4. /\ k <= Len(frames) /\ \A i \in 1..k : received[i] = frames[i]
        /\ \A j \in 1..(t - s) : recv_buf[j] = stream[s + j]
        /\ t = s + b
    BY <1>10, <2>1, <2>2, <2>3, Zenon DEF BufferInv
  <2>5. t + n <= Len(stream) /\ \A j \in 1..n : h[j] = stream[t + j]
    <3>1. PICK P \in [0..Len(packets) -> Nat] : P[0] = taken /\ Cut(stream, packets, P)
      BY <1>1, <1>10 DEF PacketsInv
    <3>2. stream \in Seq(Nat) /\ packets \in Seq(Bytes)
      BY <1>1 DEF TypeOK, Bytes
    <3>3. P[0] + Len(Head(packets)) <= Len(stream) /\ \A j \in 1..Len(Head(packets)) : Head(packets)[j] = stream[P[0] + j]
      BY <1>3, <3>1, <3>2, CutTail
    <3> QED
      BY <1>6, <2>3, <3>1, <3>3, Zenon
  <2>6. Len(nb) = b + n /\ (\A i \in 1..b : nb[i] = recv_buf[i]) /\ \A i \in 1..n : nb[b + i] = h[i]
    BY <1>7, <1>8, <2>3, Zenon
  <2>7. taken' = t + n
    BY <1>3, <1>6, <1>10, <2>3
  <2>8. ASSUME NEW j \in 1..((t + n) - s) PROVE nb[j] = stream[s + j]
    <3>1. CASE j <= b
      <4>1. j \in 1..b /\ j \in 1..(t - s)
        BY <2>4, <2>8, <3>1
      <4> QED
        BY <2>4, <2>6, <4>1
    <3>2. CASE ~(j <= b)
      <4>1. PICK i \in 1..n : j = b + i
        <5>1. j - b \in 1..n /\ j = b + (j - b)
          BY <2>4, <2>8, <3>2
        <5> QED
          BY <5>1
      <4>2. s + j = t + i
        BY <2>4, <4>1
      <4> QED
        BY <2>5, <2>6, <4>1, <4>2
    <3> QED
      BY <3>1, <3>2
  <2>9. s <= t + n /\ t + n = s + Len(nb)
    BY <2>4, <2>6
  <2>10. BufferInv'
    <3>1. Returned' = k /\ Start(Returned + 1)' = s
      BY <1>4, <2>2
    <3>2. t + n <= s + Len(nb)
      BY <2>9
    <3>3. PICK u : u = t + n
      OBVIOUS
    <3>4. /\ taken' = u /\ s <= u /\ u <= s + Len(nb) /\ u = s + Len(nb)
          /\ \A j \in 1..(u - s) : nb[j] = stream[s + j]
      BY <2>7, <2>8, <2>9, <3>2, <3>3, Zenon
    <3>5. k <= Len(frames) /\ \A i \in 1..k : received[i] = frames[i]
      BY <2>4
    <3> QED
      BY <1>3, <1>9, <3>1, <3>4, <3>5, Zenon DEF BufferInv
  <2>11. taken' <= Len(stream')
    BY <1>3, <2>5, <2>7
  <2> QED
    BY <2>10, <2>11 DEF TakenInv
<1>11. CASE lost # 0
  <2>1. taken' = taken /\ taken' <= Len(stream')
    BY <1>1, <1>3, <1>11 DEF TakenInv
  <2>2. ASSUME BufferInv PROVE BufferInv'
    <3>1. PICK k \in Nat, s \in Nat : k = Returned /\ s = Start(k + 1)
      BY <1>2, <2>2
    <3>2. PICK b \in Nat, n \in Nat, t \in Nat : b = Len(recv_buf) /\ n = Len(h) /\ t = taken
      BY <1>2, <1>7
    <3>3. /\ k <= Len(frames) /\ \A i \in 1..k : received[i] = frames[i]
          /\ s <= t /\ t <= s + b
          /\ \A j \in 1..(t - s) : recv_buf[j] = stream[s + j]
      BY <2>2, <3>1, <3>2, Zenon DEF BufferInv
    <3>4. Len(nb) = b + n /\ (\A i \in 1..b : nb[i] = recv_buf[i])
      BY <1>7, <1>8, <3>2, Zenon
    <3>5. t <= s + Len(nb)
      BY <3>3, <3>4
    <3>6. \A j \in 1..(t - s) : nb[j] = stream[s + j]
      <4>1. \A j \in 1..(t - s) : j \in 1..b
        BY <3>3
      <4> QED
        BY <3>3, <3>4, <4>1
    <3>7. Returned' = k /\ Start(Returned + 1)' = s /\ taken' = t /\ lost' # 0
      BY <1>3, <1>4, <1>11, <2>1, <3>1, <3>2
    <3> QED
      BY <1>3, <1>9, <3>3, <3>5, <3>6, <3>7, Zenon DEF BufferInv
  <2>3. ASSUME AllBeforeLoss PROVE AllBeforeLoss'
    BY <1>3, <1>4, <2>1, <2>3 DEF AllBeforeLoss
  <2> QED
    BY <1>1, <1>3, <2>1, <2>2, <2>3 DEF TakenInv
<1> QED
    BY <1>10, <1>11

LEMMA ExtractTaken == TypeOK /\ FramesInv /\ TakenInv /\ Extract => TakenInv'
<1>1. SUFFICES ASSUME TypeOK, FramesInv, TakenInv, Extract PROVE TakenInv'
    OBVIOUS
<1>2. /\ Returned \in Nat /\ Len(recv_buf) \in Nat /\ taken \in Nat /\ lost \in Nat
      /\ Len(frames) \in Nat /\ Len(stream) \in Nat
      /\ BufferInv => Start(Returned + 1) \in Nat
    BY <1>1, BufferNumbers
<1>3. /\ frames' = frames /\ ends' = ends /\ stream' = stream /\ lost' = lost /\ taken' = taken
      /\ FrameReady(recv_buf) /\ recv_buf' = Drained(recv_buf)
    BY <1>1 DEF Extract
<1>4. PICK d : d = Decoded(recv_buf)
    OBVIOUS
<1>5. /\ Returned' = Returned + 1 /\ received'[Returned + 1] = d
      /\ \A i \in 1..Returned : received'[i] = received[i]
    BY <1>1, <1>4, AppendProperties, LenProperties DEF Extract, TypeOK, Returned
<1>6. taken' <= Len(stream')
    BY <1>1, <1>3 DEF TakenInv
<1>7. ASSUME AllBeforeLoss PROVE AllBeforeLoss'
  <2>1. SUFFICES ASSUME NEW i \in 1..Len(frames), ends[i] <= taken
                 PROVE  i <= Returned + 1 /\ received'[i] = frames[i]
    BY <1>3, <1>5 DEF AllBeforeLoss
  <2>2. i <= Returned /\ received[i] = frames[i]
    BY <1>7, <2>1 DEF AllBeforeLoss
  <2> QED
    BY <1>2, <1>5, <2>1, <2>2
<1>8. CASE BufferInv /\ Arrived
  <2>1. PICK k \in Nat, s \in Nat : k = Returned /\ s = Start(k + 1)
    BY <1>2, <1>8
  <2>2. PICK b \in Nat, t \in Nat : b = Len(recv_buf) /\ t = taken
    BY <1>2
  <2>3. /\ \A i \in 1..k : received[i] = frames[i]
        /\ s <= t /\ t <= s + b
        /\ \A j \in 1..(t - s) : recv_buf[j] = stream[s + j]
        /\ lost = 0 => t = s + b
    BY <1>8, <2>1, <2>2, Zenon DEF BufferInv
  <2>4. k + 1 <= Len(frames) /\ ends[k + 1] <= t /\ k + 1 \in 1..Len(frames)
    BY <1>2, <1>8, <2>1, <2>2 DEF Arrived
  <2>5. d = frames[k + 1] /\ s + Total(recv_buf) = ends[k + 1]
    BY <1>1, <1>4, <1>8, <2>1, WholeFrame
  <2>6. PICK T \in Nat : T = Total(recv_buf) /\ T <= b
    <3>1. recv_buf \in Seq(Nat) /\ Len(recv_buf) >= 3
      BY <1>1, <1>3 DEF TypeOK, Bytes, FrameReady, HasHeader, HDR_SIZE
    <3>2. recv_buf[3] \in Nat
      BY <1>2, <3>1, ElementOfSeq
    <3>3. Total(recv_buf) \in Nat
      BY <3>2 DEF Total, HDR_SIZE
    <3> QED
      BY <1>3, <2>2, <3>3 DEF FrameReady
  <2>7. PICK e \in Nat : e = s + T /\ e = ends[k + 1]
    BY <2>5, <2>6
  <2>8. PICK nb : nb = Drained(recv_buf)
    OBVIOUS
  <2>9. Len(nb) = b - T /\ \A j \in 1..(b - T) : nb[j] = recv_buf[T + j]
    <3>1. recv_buf \in Seq(Nat) /\ b <= Len(recv_buf) /\ T <= b
      BY <1>1, <2>2, <2>6 DEF TypeOK, Bytes
    <3>2. /\ Len(SubSeq(recv_buf, T + 1, b)) = b - T
          /\ \A j \in 1..(b - T) : SubSeq(recv_buf, T + 1, b)[j] = recv_buf[T + j]
      BY <3>1, PieceProps
    <3> QED
      BY <2>2, <2>6, <2>8, <3>2, Zenon DEF Drained
  <2>10. e <= t /\ t <= e + Len(nb) /\ (lost = 0 => t = e + Len(nb))
    <3>1. e + (b - T) = s + b
      BY <2>7
    <3> QED
      BY <2>3, <2>4, <2>7, <2>9, <3>1
  <2>11. ASSUME NEW j \in 1..(t - e) PROVE nb[j] = stream[e + j]
    <3>1. j \in 1..(b - T) /\ T + j \in 1..(t - s) /\ s + (T + j) = e + j
      BY <2>3, <2>6, <2>7, <2>11
    <3> QED
      BY <2>3, <2>9, <3>1
  <2>12. ASSUME NEW i \in 1..(k + 1) PROVE received'[i] = frames[i]
    <3>1. i \in 1..k \/ i = k + 1
      BY <2>12
    <3> QED
      BY <1>5, <2>1, <2>3, <2>5, <3>1
  <2>13. Returned' = k + 1
    BY <1>5, <2>1
  <2>14. Start(Returned + 1)' = e
    <3>1. Start(Returned + 1)' = ends'[k + 1]
      BY <2>13 DEF Start
    <3> QED
      BY <1>3, <2>7, <3>1
  <2>15. taken' = t /\ recv_buf' = nb
    BY <1>3, <2>2, <2>8
  <2>16. PICK m : m = k + 1
    OBVIOUS
  <2>17. Returned' = m /\ m <= Len(frames) /\ \A i \in 1..m : received'[i] = frames[i]
    BY <2>4, <2>12, <2>13, <2>16, Zenon
  <2>18. BufferInv'
    BY <1>3, <2>10, <2>11, <2>14, <2>15, <2>17, Zenon DEF BufferInv
  <2> QED
    BY <1>6, <2>18 DEF TakenInv
<1>9. CASE BufferInv /\ ~Arrived
  <2>1. AllBeforeLoss /\ lost # 0
    BY <1>1, <1>3, <1>9, NoWholeFrame DEF TakenInv
  <2> QED
    BY <1>2, <1>3, <1>6, <1>7, <2>1 DEF TakenInv
<1>10. CASE lost > 0 /\ AllBeforeLoss
  BY <1>3, <1>6, <1>7, <1>10 DEF TakenInv
<1> QED
    BY <1>1, <1>8, <1>9, <1>10 DEF TakenInv

LEMMA StopTaken == TypeOK /\ FramesInv /\ TakenInv /\ Stop => TakenInv'
<1>1. SUFFICES ASSUME TypeOK, FramesInv, TakenInv, Stop PROVE TakenInv'
    OBVIOUS
<1>2. /\ frames' = frames /\ ends' = ends /\ stream' = stream /\ lost' = lost /\ taken' = taken
      /\ received' = received /\ ~FrameReady(recv_buf)
      /\ recv_buf' = IF DecodingFailed(recv_buf) THEN <<>> ELSE recv_buf
    BY <1>1 DEF Stop
<1>3. lost \in Nat
    BY <1>1, BufferNumbers
<1>4. AllBeforeLoss => AllBeforeLoss'
    BY <1>2 DEF AllBeforeLoss, Returned
<1>5. CASE BufferInv
  <2>1. ~Arrived
    BY <1>1, <1>2, <1>5, WholeFrame
  <2>2. AllBeforeLoss /\ (lost = 0 => ~DecodingFailed(recv_buf))
    BY <1>1, <1>5, <2>1, NoWholeFrame DEF TakenInv
  <2>3. CASE lost = 0
    <3>1. recv_buf' = recv_buf
      BY <1>2, <2>2, <2>3
    <3> QED
      BY <1>1, <1>2, <1>5, <3>1 DEF TakenInv, BufferInv, Returned, Start
  <2>4. CASE lost # 0
    BY <1>1, <1>2, <1>3, <1>4, <2>2, <2>4 DEF TakenInv
  <2> QED
    BY <2>3, <2>4
<1>6. CASE lost > 0 /\ AllBeforeLoss
  BY <1>1, <1>2, <1>4, <1>6 DEF TakenInv
<1> QED
    BY <1>1, <1>5, <1>6 DEF TakenInv

LEMMA TakenHolds == TypeOK /\ FramesInv /\ PacketsInv /\ TakenInv /\ [Next]_vars => TakenInv'
<1>1. SUFFICES ASSUME TypeOK, FramesInv, PacketsInv, TakenInv, [Next]_vars PROVE TakenInv'
    OBVIOUS
<1>2. CASE Lose
  <2>1. lost' > 0
    <3>1. lost \in Nat
      BY <1>1, BufferNumbers
    <3> QED
      BY <1>2, <3>1 DEF Lose
  <2>2. UNCHANGED <<frames, recv_buf, received, stream, ends, taken>>
    BY <1>2 DEF Lose
  <2>3. ASSUME BufferInv PROVE BufferInv'
    BY <2>1, <2>2, <2>3 DEF BufferInv, Returned, Start
  <2>4. ASSUME AllBeforeLoss PROVE AllBeforeLoss'
    BY <2>2, <2>4 DEF AllBeforeLoss, Returned
  <2> QED
    BY <1>1, <2>1, <2>2, <2>3, <2>4 DEF TakenInv
<1>3. CASE UNCHANGED vars
  BY <1>1, <1>3 DEF vars, TakenInv, BufferInv, AllBeforeLoss, Returned, Start
<1> QED
    BY <1>1, <1>2, <1>3, SendTaken, ReceiveTaken, ExtractTaken, StopTaken DEF Next

LEMMA StopHolds == StopInv /\ [Next]_vars => StopInv'
<1>1. SUFFICES ASSUME StopInv, [Next]_vars PROVE StopInv'
    OBVIOUS
<1>2. CASE Stop
  <2>1. CASE DecodingFailed(recv_buf)
    <3>1. recv_buf' = <<>>
      BY <1>2, <2>1 DEF Stop
    <3>2. ~HasHeader(<<>>)
      BY DEF HasHeader, HDR_SIZE
    <3> QED
      BY <3>1, <3>2 DEF StopInv, FrameReady
  <2>2. CASE ~DecodingFailed(recv_buf)
    BY <1>2, <2>2 DEF Stop, StopInv
  <2> QED
    BY <2>1, <2>2
<1>3. CASE ReceiveData \/ Extract
  <2>1. decoding'
    BY <1>3 DEF ReceiveData, Extract
  <2> QED
    BY <2>1 DEF StopInv
<1>4. CASE UNCHANGED <<decoding, recv_buf>>
  BY <1>1, <1>4 DEF StopInv
<1> QED
    BY <1>1, <1>2, <1>3, <1>4 DEF Next, SendFrame, Lose, vars

-----------------------------------------------------------------------------
LEMMA InitHolds == Init => IInv
<1>1. SUFFICES ASSUME Init PROVE IInv
    OBVIOUS
<1>2. /\ frames = <<>> /\ packets = <<>> /\ recv_buf = <<>> /\ received = <<>> /\ stream = <<>> /\ ends = <<>>
      /\ decoding = FALSE /\ lost = 0 /\ taken = 0
    BY <1>1 DEF Init
<1>3. Len(<<>>) = 0
    OBVIOUS
<1>4. TypeOK
  <2>1. 0 \in 0..MaxLost /\ 0 \in Nat
    BY ReassemblyAssumption
  <2>2. \A S : <<>> \in Seq(S)
    OBVIOUS
  <2> QED
    BY <1>2, <2>1, <2>2, Zenon DEF TypeOK, Bytes
<1>5. FramesInv
    BY <1>2, <1>3 DEF FramesInv, Start
<1>6. PacketsInv
  <2> DEFINE P == [i \in 0..0 |-> 0]
  <2>1. P \in [0..Len(packets) -> Nat] /\ P[0] = taken /\ P[Len(packets)] = Len(stream)
    BY <1>2, <1>3
  <2>2. Cut(stream, packets, P)
    BY <1>2, <1>3 DEF Cut
  <2> QED
    BY <2>1, <2>2 DEF PacketsInv
<1>7. TakenInv
  <2>1. BufferInv
    BY <1>2, <1>3 DEF BufferInv, Returned, Start
  <2> QED
    BY <1>2, <1>3, <2>1 DEF TakenInv
<1>8. StopInv
    BY <1>2, <1>3 DEF StopInv, FrameReady, HasHeader, HDR_SIZE
<1> QED
    BY <1>4, <1>5, <1>6, <1>7, <1>8 DEF IInv

(* In every behaviour of the link and of receive_data, for every choice of *)
(* frames and packet size and every pattern of losses: the bytes in        *)
(* recv_buf are those that follow the last frame returned, until a loss.   *)
THEOREM Invariant == Spec => []IInv
<1>1. IInv /\ [Next]_vars => IInv'
    BY TypesHold, FramesHold, PacketsHold, TakenHolds, StopHolds DEF IInv
<1> QED
    BY InitHolds, <1>1, PTL DEF Spec

(* receive_data returns only frames of a known type, and its buffer is     *)
(* always a string of bytes.                                               *)
THEOREM TypeCorrect == Spec => []TypeOK
<1>1. IInv => TypeOK
    BY DEF IInv
<1> QED
    BY Invariant, <1>1, PTL

(* Without loss, receive_data returns the frames that were sent, in order. *)
THEOREM FramesInOrder == Spec => []ReceivedPrefix
<1>1. IInv => ReceivedPrefix
    BY DEF IInv, TakenInv, BufferInv, Returned, ReceivedPrefix
<1> QED
    BY Invariant, <1>1, PTL

(* Without loss, recv_buf holds nothing back once the last packet is in.   *)
THEOREM AllFramesReturned == Spec => []NothingHeldBack
<1>1. IInv => NothingHeldBack
  <2>1. SUFFICES ASSUME IInv, lost = 0, packets = <<>>, ~decoding
                 PROVE  received = frames /\ recv_buf = <<>>
    BY DEF NothingHeldBack
  <2>2. TypeOK /\ FramesInv /\ BufferInv /\ taken <= Len(stream) /\ ~FrameReady(recv_buf)
    BY <2>1 DEF IInv, TakenInv, StopInv
  <2>3. taken = Len(stream)
    BY <2>1 DEF IInv, PacketsInv
  <2>4. ~Arrived
    BY <2>2, WholeFrame
  <2>5. Returned = Len(frames) /\ Len(recv_buf) = 0
    BY <2>1, <2>2, <2>3, <2>4, NoWholeFrame
  <2>6. recv_buf = <<>>
    BY <2>2, <2>5, EmptySeq DEF TypeOK, Bytes
  <2>7. received = frames
    <3>1. \A i \in 1..Len(received) : received[i] = frames[i]
      BY <2>2 DEF BufferInv, Returned
    <3> DEFINE U == [type : FrameTypes, sid : Nat, payload : Bytes]
    <3>2. Frame \subseteq U
      <4>1. SUFFICES ASSUME NEW f \in Frame PROVE f \in U
        OBVIOUS
      <4>2. f.type \in FrameTypes /\ f.sid \in Nat /\ f.payload \in Bytes
        BY FrameProps
      <4>3. f = [type |-> f.type, sid |-> f.sid, payload |-> f.payload]
        BY FrameProps
      <4> QED
        BY <4>2, <4>3
    <3>3. received \in Seq(U) /\ frames \in Seq(Frame)
      BY <2>2 DEF TypeOK
    <3> HIDE DEF U
    <3>4. frames \in Seq(U)
      BY <3>2, <3>3, SeqMonotonic
    <3>5. Len(received) = Len(frames)
      BY <2>5 DEF Returned
    <3> QED
      BY <3>1, <3>3, <3>4, <3>5, SeqEqual
  <2> QED
    BY <2>6, <2>7
<1> QED
    BY Invariant, <1>1, PTL

(* A loss never costs a frame that had arrived whole before it, however    *)
(* receive_data then misreads or drops what follows.                       *)
THEOREM LossSparesTheArrived == Spec => []ExactBeforeLoss
<1>1. IInv => ExactBeforeLoss
  <2>1. SUFFICES ASSUME IInv, ~decoding PROVE AllBeforeLoss
    BY BufferNumbers DEF ExactBeforeLoss, AllBeforeLoss, IInv, Returned
  <2>2. CASE BufferInv
    <3>1. TypeOK /\ FramesInv /\ taken <= Len(stream) /\ ~FrameReady(recv_buf)
      BY <2>1 DEF IInv, TakenInv, StopInv
    <3> QED
      BY <2>2, <3>1, WholeFrame, NoWholeFrame
  <2>3. CASE ~BufferInv
    BY <2>1, <2>3 DEF IInv, TakenInv
  <2> QED
    BY <2>2, <2>3
<1> QED
    BY Invariant, <1>1, PTL

=============================================================================
