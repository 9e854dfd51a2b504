------------------------------- MODULE Queues -------------------------------
(***************************************************************************)
(* What the channels and queues of all components do: an element is put at *)
(* the end, or taken from the front.                                       *)
(***************************************************************************)
EXTENDS SequenceTheorems, TLAPS

(* What taking an element off a queue does to it.                          *)
LEMMA TailProps ==
    ASSUME NEW S, NEW q \in Seq(S), q # <<>>
    PROVE  /\ Head(q) \in S
           /\ Head(q) = q[1]
           /\ Tail(q) \in Seq(S)
           /\ Len(q) \in Nat \ {0}
           /\ Len(Tail(q)) = Len(q) - 1
           /\ \A i \in 1..Len(Tail(q)) : Tail(q)[i] = q[i + 1]
    BY HeadTailProperties, EmptySeq

(* What putting an element at the end of a queue does to it.               *)
LEMMA AppendProps ==
    ASSUME NEW S, NEW q \in Seq(S), NEW x \in S
    PROVE  /\ Append(q, x) \in Seq(S)
           /\ Append(q, x) # <<>>
           /\ Len(q) \in Nat
           /\ Len(Append(q, x)) = Len(q) + 1
           /\ \A i \in 1..Len(q) : Append(q, x)[i] = q[i]
           /\ Append(q, x)[Len(q) + 1] = x
    BY AppendProperties, LenProperties

(* What losing everything from some point on leaves of a queue.            *)
LEMMA PrefixProps ==
    ASSUME NEW S, NEW q \in Seq(S), NEW k \in 0..Len(q)
    PROVE  /\ SubSeq(q, 1, k) \in Seq(S)
           /\ Len(SubSeq(q, 1, k)) = k
           /\ \A i \in 1..k : SubSeq(q, 1, k)[i] = q[i] /\ i \in 1..Len(q)
<1>1. Len(q) \in Nat /\ k \in Nat
    BY LenProperties
<1>2. \A i \in 1..k : i \in 1..Len(q) /\ q[i] \in S
    BY <1>1, ElementOfSeq
<1>3. /\ SubSeq(q, 1, k) \in Seq(S)
      /\ Len(SubSeq(q, 1, k)) = IF 1 <= k THEN k - 1 + 1 ELSE 0
      /\ \A i \in 1..(k - 1 + 1) : SubSeq(q, 1, k)[i] = q[1 + i - 1]
    BY <1>1, <1>2, SubSeqProperties
<1> QED
    BY <1>1, <1>2, <1>3

=============================================================================
