--------------------------- MODULE SequenceLemmas ---------------------------
(***************************************************************************)
(* What the operations on channels and streams do to the set of what is in *)
(* them, and the least number of a set of positions: facts the proofs of   *)
(* several components share.                                               *)
(***************************************************************************)
EXTENDS Integers, Sequences, Functions, SequenceTheorems, WellFoundedInduction, TLAPS

\* try_send adds one frame to a channel, insert one id to the seen-set.
LEMMA RangeAppend ==
    ASSUME NEW S, NEW s \in Seq(S), NEW e \in S
    PROVE  /\ Append(s, e) \in Seq(S)
           /\ Range(Append(s, e)) = Range(s) \union {e}
<1>1. /\ Append(s, e) \in Seq(S)
      /\ Len(Append(s, e)) = Len(s) + 1
      /\ \A i \in 1 .. Len(s) : Append(s, e)[i] = s[i]
      /\ Append(s, e)[Len(s) + 1] = e
      /\ Len(s) \in Nat
  BY AppendProperties, LenProperties
<1>2. DOMAIN Append(s, e) = 1 .. Len(s) + 1 /\ DOMAIN s = 1 .. Len(s)
  BY <1>1, LenProperties
<1> QED
  BY <1>1, <1>2 DEF Range

\* recv takes one frame off a channel or stream.
LEMMA RangeHeadTail ==
    ASSUME NEW S, NEW s \in Seq(S), s # <<>>
    PROVE  /\ Head(s) \in S
           /\ Tail(s) \in Seq(S)
           /\ Range(s) = {Head(s)} \union Range(Tail(s))
<1>1. /\ Head(s) \in S
      /\ Tail(s) \in Seq(S)
      /\ Len(Tail(s)) = Len(s) - 1
      /\ \A i \in 1 .. Len(Tail(s)) : Tail(s)[i] = s[i + 1]
  BY HeadTailProperties
<1>2. /\ Head(s) = s[1]
      /\ Len(s) \in Nat /\ Len(s) > 0
      /\ DOMAIN s = 1 .. Len(s)
      /\ DOMAIN Tail(s) = 1 .. Len(s) - 1
  BY <1>1, LenProperties, EmptySeq
<1>3. ASSUME NEW i \in 1 .. Len(s) PROVE s[i] \in {Head(s)} \union Range(Tail(s))
  <2>1. CASE i = 1
    BY <2>1, <1>2
  <2>2. CASE i # 1
    <3>1. i - 1 \in DOMAIN Tail(s) /\ Tail(s)[i - 1] = s[i]
      BY <2>2, <1>1, <1>2
    <3> QED
      BY <3>1 DEF Range
  <2> QED
    BY <2>1, <2>2
<1>4. ASSUME NEW i \in DOMAIN Tail(s) PROVE Tail(s)[i] \in Range(s)
  BY <1>1, <1>2 DEF Range
<1> QED
  BY <1>1, <1>2, <1>3, <1>4 DEF Range

\* A reader of a dead stream finds a prefix of what was written.
LEMMA RangePrefix ==
    ASSUME NEW S, NEW s \in Seq(S), NEW n \in 0 .. Len(s)
    PROVE  /\ SubSeq(s, 1, n) \in Seq(S)
           /\ Range(SubSeq(s, 1, n)) \subseteq Range(s)
<1>1. /\ SubSeq(s, 1, n) \in Seq(S)
      /\ Len(SubSeq(s, 1, n)) = n
      /\ \A i \in 1 .. n : SubSeq(s, 1, n)[i] = s[i]
  BY LenProperties, SubSeqProperties
<1> QED
  BY <1>1, LenProperties DEF Range

\* A cut stream: what is still read and what is not make up what was written.
LEMMA RangeSplit ==
    ASSUME NEW S, NEW s \in Seq(S), NEW n \in 0 .. Len(s)
    PROVE  /\ SubSeq(s, n + 1, Len(s)) \in Seq(S)
           /\ Range(s) = Range(SubSeq(s, 1, n)) \union Range(SubSeq(s, n + 1, Len(s)))
<1> DEFINE front == SubSeq(s, 1, n)
           back == SubSeq(s, n + 1, Len(s))
<1>1. Len(s) \in Nat /\ DOMAIN s = 1 .. Len(s)
  BY LenProperties
<1>2. /\ front \in Seq(S) /\ Len(front) = n
      /\ \A i \in 1 .. n : front[i] = s[i]
  BY <1>1, SubSeqProperties
<1>3. /\ back \in Seq(S) /\ Len(back) = Len(s) - n
      /\ \A i \in 1 .. Len(s) - n : back[i] = s[n + i]
  <2>1. \A i \in n + 1 .. Len(s) : s[i] \in S
    BY <1>1
  <2>2. /\ back \in Seq(S)
        /\ Len(back) = IF n + 1 <= Len(s) THEN Len(s) - (n + 1) + 1 ELSE 0
        /\ \A i \in 1 .. Len(s) - (n + 1) + 1 : back[i] = s[n + 1 + i - 1]
    BY <1>1, <2>1, SubSeqProperties
  <2> HIDE DEF back
  <2>3. Len(back) = Len(s) - n /\ Len(s) - (n + 1) + 1 = Len(s) - n
    <3>1. \A k \in Nat : \A j \in 0 .. k :
             /\ k - (j + 1) + 1 = k - j
             /\ (IF j + 1 <= k THEN k - (j + 1) + 1 ELSE 0) = k - j
      OBVIOUS
    <3> QED
      BY <1>1, <2>2, <3>1
  <2>4. ASSUME NEW i \in 1 .. Len(s) - n PROVE n + 1 + i - 1 = n + i
    BY <1>1
  <2> QED
    BY <2>2, <2>3, <2>4
<1>4. DOMAIN front = 1 .. n /\ DOMAIN back = 1 .. Len(s) - n
  BY <1>2, <1>3, LenProperties
<1> HIDE DEF front, back
<1>5. ASSUME NEW i \in 1 .. Len(s) PROVE s[i] \in Range(front) \union Range(back)
  <2>1. CASE i <= n
    BY <1>2, <1>4, <2>1 DEF Range
  <2>2. CASE i > n
    <3>1. i - n \in 1 .. Len(s) - n /\ n + (i - n) = i
      BY <1>1, <2>2
    <3> QED
      BY <1>3, <1>4, <3>1 DEF Range
  <2> QED
    BY <1>1, <2>1, <2>2
<1>6. Range(front) \subseteq Range(s)
  BY <1>1, <1>2, <1>4 DEF Range
<1>7. Range(back) \subseteq Range(s)
  <2>1. ASSUME NEW i \in 1 .. Len(s) - n PROVE n + i \in 1 .. Len(s)
    BY <1>1
  <2> QED
    BY <1>1, <1>3, <1>4, <2>1 DEF Range
<1>8. Range(s) = Range(front) \union Range(back)
  BY <1>1, <1>5, <1>6, <1>7 DEF Range
<1> QED
  BY <1>3, <1>8 DEF front, back

\* What a crashed daemon had written is found after what was there before.
LEMMA RangeConcat ==
    ASSUME NEW S, NEW s \in Seq(S), NEW u \in Seq(S)
    PROVE  /\ s \o u \in Seq(S)
           /\ Range(s \o u) = Range(s) \union Range(u)
  BY ConcatProperties, RangeConcatenation

\* A new channel holds nothing.
LEMMA RangeEmpty == ASSUME NEW S PROVE <<>> \in Seq(S) /\ Range(<<>>) = {}
  BY EmptySeq DEF Range

-----------------------------------------------------------------------------
Less == {pair \in Nat \X Nat : pair[1] < pair[2]}

\* The first position of which something holds: induction over positions, for
\* provers that have none, is that the first to fail does not exist.
LEMMA LeastNumber ==
    ASSUME NEW T, T \subseteq Nat, T # {}
    PROVE  \E n \in T : \A m \in T : n <= m
<1>1. OpToRel(<, Nat) = Less
  BY DEF OpToRel, Less
<1>2. IsWellFoundedOn(Less, Nat)
  BY <1>1, NatLessThanWellFounded
<1>3. PICK n \in T : \A m \in T : ~ (<<m, n>> \in Less)
  BY <1>2, WFMin
<1>4. \A m \in T : ~ (m < n)
  BY <1>3 DEF Less
<1> QED
  BY <1>4
=============================================================================
