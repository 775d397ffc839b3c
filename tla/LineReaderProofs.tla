-------------------------- MODULE LineReaderProofs --------------------------
(***************************************************************************)
(* The lines a reader takes are the lines of what was sent, for every      *)
(* limit, every input and every split of it into reads: proofs about       *)
(* LineReader.                                                             *)
(***************************************************************************)
EXTENDS LineReader, SequenceLemmas, FiniteSetTheorems, TLAPS

-----------------------------------------------------------------------------
(* The inductive invariants.                                               *)

\* A reader that waits has no line and less than a line's limit; one that has
\* refused a command has still the command it refused.
Judged ==
    /\ state = "need" => ~ TooLong(rbuf) /\ Feeds(rbuf) = {}
    /\ state = "refused" => mode = "command" /\ TooLong(rbuf)

ShapeInv == TypeOK /\ Judged

\* The ends of line among the first i octets.
FeedsUpTo(i) == {j \in Feeds(input) : j <= i}

\* The octets not taken are those after the last line taken.
FrontInv ==
    /\ End(Len(taken)) \in 0 .. Len(input)
    /\ Cardinality(FeedsUpTo(End(Len(taken)))) = Len(taken)
    /\ rbuf \o wire = SubSeq(input, End(Len(taken)) + 1, Len(input))

\* The lines taken are those of the input.
LinesInv ==
    /\ Len(taken) <= Cardinality(Feeds(input))
    /\ \A n \in DOMAIN taken :
          \/ taken[n] = Line(n)
          \/ taken[n] = Skipped /\ Len(Line(n)) > MaxBodyLine

ReaderInv == ShapeInv /\ FrontInv /\ LinesInv

-----------------------------------------------------------------------------
(* Parts of the buffer.                                                    *)

\* A part of a sequence.
LEMMA PartOf ==
    ASSUME NEW S, NEW s \in Seq(S), NEW m \in Nat \ {0}, NEW n \in Nat, n <= Len(s)
    PROVE  /\ SubSeq(s, m, n) \in Seq(S)
           /\ m <= n + 1 => Len(SubSeq(s, m, n)) = n - m + 1
           /\ \A i \in 1 .. n - m + 1 : SubSeq(s, m, n)[i] = s[m + i - 1]
<1>1. Len(s) \in Nat /\ \A i \in m .. n : s[i] \in S
  BY LenProperties, ElementOfSeq
<1>2. /\ SubSeq(s, m, n) \in Seq(S)
      /\ Len(SubSeq(s, m, n)) = IF m <= n THEN n - m + 1 ELSE 0
      /\ \A i \in 1 .. n - m + 1 : SubSeq(s, m, n)[i] = s[m + i - 1]
  BY <1>1, SubSeqProperties
<1>3. m <= n + 1 => (IF m <= n THEN n - m + 1 ELSE 0) = n - m + 1
  OBVIOUS
<1> QED
  BY <1>2, <1>3

\* take_line looks for the first line feed.
LEMMA FeedFirst ==
    ASSUME NEW b \in Seq(Octet), Feeds(b) # {}
    PROVE  /\ FirstFeed(b) \in 1 .. Len(b) /\ b[FirstFeed(b)] = "LF"
           /\ \A j \in 1 .. FirstFeed(b) - 1 : b[j] # "LF"
<1>1. DOMAIN b = 1 .. Len(b) /\ Len(b) \in Nat
  BY LenProperties
<1>2. Feeds(b) \in SUBSET Nat
  BY <1>1 DEF Feeds
<1>3. \E i \in Feeds(b) : \A j \in Feeds(b) : i <= j
  BY <1>2, LeastNumber
<1>4. FirstFeed(b) \in Feeds(b) /\ \A j \in Feeds(b) : FirstFeed(b) <= j
  BY <1>3 DEF FirstFeed
<1>5. FirstFeed(b) \in 1 .. Len(b) /\ b[FirstFeed(b)] = "LF"
  BY <1>1, <1>4 DEF Feeds
<1>6. ASSUME NEW j \in 1 .. FirstFeed(b) - 1, b[j] = "LF" PROVE FALSE
  <2>1. j \in 1 .. Len(b) /\ ~ (FirstFeed(b) <= j)
    BY <1>1, <1>5
  <2>2. j \in Feeds(b)
    BY <1>1, <1>6, <2>1 DEF Feeds
  <2> QED
    BY <1>4, <2>1, <2>2
<1> QED
  BY <1>5, <1>6

LEMMA Stripped ==
    ASSUME NEW b \in Seq(Octet)
    PROVE  /\ Strip(b) \in Seq(Octet)
           /\ Len(Strip(b)) \in {Len(b), Len(b) - 1} /\ Len(Strip(b)) \in Nat
<1>1. Len(b) \in Nat
  BY LenProperties
<1>2. CASE b # <<>> /\ b[Len(b)] = "CR"
  <2>1. Len(b) # 0
    BY <1>2, EmptySeq
  <2>2. Strip(b) = SubSeq(b, 1, Len(b) - 1) /\ Len(b) - 1 \in Nat /\ Len(b) - 1 <= Len(b)
    BY <1>1, <1>2, <2>1 DEF Strip
  <2>3. SubSeq(b, 1, Len(b) - 1) \in Seq(Octet) /\ Len(SubSeq(b, 1, Len(b) - 1)) = Len(b) - 1
    <3>1. /\ SubSeq(b, 1, Len(b) - 1) \in Seq(Octet)
          /\ 1 <= (Len(b) - 1) + 1 => Len(SubSeq(b, 1, Len(b) - 1)) = (Len(b) - 1) - 1 + 1
      <4> DEFINE n == Len(b) - 1
      <4>1. n \in Nat /\ n <= Len(b) /\ 1 \in Nat \ {0}
        BY <2>2
      <4> HIDE DEF n
      <4>2. SubSeq(b, 1, n) \in Seq(Octet) /\ (1 <= n + 1 => Len(SubSeq(b, 1, n)) = n - 1 + 1)
        BY <4>1, PartOf
      <4> QED
        BY <4>2 DEF n
    <3>2. 1 <= (Len(b) - 1) + 1 /\ (Len(b) - 1) - 1 + 1 = Len(b) - 1
      BY <2>2
    <3> QED
      BY <3>1, <3>2
  <2> QED
    BY <2>2, <2>3
<1>3. CASE ~ (b # <<>> /\ b[Len(b)] = "CR")
  BY <1>1, <1>3 DEF Strip
<1> QED
  BY <1>2, <1>3

\* The first line and what is left.
LEMMA SplitBuffer ==
    ASSUME NEW b \in Seq(Octet), Feeds(b) # {}
    PROVE  /\ FirstLine(b) \in Seq(Octet) /\ Rest(b) \in Seq(Octet)
           /\ Len(Rest(b)) = Len(b) - FirstFeed(b)
           /\ \A i \in 1 .. Len(b) - FirstFeed(b) : Rest(b)[i] = b[FirstFeed(b) + i]
<1>1. FirstFeed(b) \in 1 .. Len(b) /\ Len(b) \in Nat
  BY FeedFirst, LenProperties
<1> DEFINE f == FirstFeed(b)
<1> HIDE DEF f
<1>2. f \in Nat \ {0} /\ f <= Len(b) /\ f - 1 \in Nat /\ f - 1 <= Len(b) /\ f + 1 \in Nat \ {0}
      /\ f + 1 <= Len(b) + 1
  BY <1>1 DEF f
<1>3. SubSeq(b, 1, f - 1) \in Seq(Octet)
  BY <1>2, PartOf
<1>4. FirstLine(b) \in Seq(Octet)
  BY <1>3, Stripped DEF FirstLine, f
<1>5. /\ SubSeq(b, f + 1, Len(b)) \in Seq(Octet)
      /\ Len(SubSeq(b, f + 1, Len(b))) = Len(b) - (f + 1) + 1
      /\ \A i \in 1 .. Len(b) - (f + 1) + 1 : SubSeq(b, f + 1, Len(b))[i] = b[(f + 1) + i - 1]
  <2>1. Len(b) <= Len(b)
    BY <1>1
  <2> QED
    BY <1>1, <1>2, <2>1, PartOf
<1>6. Len(b) - (f + 1) + 1 = Len(b) - f /\ \A i \in 1 .. Len(b) - f : (f + 1) + i - 1 = f + i
  BY <1>1, <1>2
<1> QED
  BY <1>4, <1>5, <1>6 DEF Rest, f

-----------------------------------------------------------------------------
(* The buffer stays within a line and a read.                              *)

LEMMA LimitType == Limit \in Nat /\ Limit \in {MaxCommand, MaxBodyLine}
  BY LimitAssumption DEF Limit

LEMMA ShapeInit == Init => ShapeInv
<1> SUFFICES ASSUME Init PROVE ShapeInv
  OBVIOUS
<1>1. PICK n \in 0 .. MaxInput : input \in [1 .. n -> Octet]
  BY DEF Init
<1>2. n \in Nat
  BY ReadAssumption
<1>3. input \in Seq(Octet)
  BY <1>1, <1>2
<1>4. MaxCommand \in {MaxCommand, MaxBodyLine} /\ Len(rbuf) <= MaxCommand + MaxRead
  BY LimitAssumption, ReadAssumption DEF Init
<1> QED
  BY <1>3, <1>4 DEF Init, ShapeInv, TypeOK, Judged

LEMMA ShapeStep == ShapeInv /\ [Next]_vars => ShapeInv'
<1> SUFFICES ASSUME ShapeInv, [Next]_vars PROVE ShapeInv'
  OBVIOUS
<1>1. /\ input \in Seq(Octet) /\ wire \in Seq(Octet) /\ rbuf \in Seq(Octet)
      /\ taken \in Seq(Seq(Octet) \union {Skipped}) /\ mode \in {"command", "body"}
      /\ state \in {"take", "need", "refused", "eof"}
      /\ Len(rbuf) \in Nat /\ Len(wire) \in Nat
  BY LenProperties DEF ShapeInv, TypeOK
<1>2. PICK m \in {MaxCommand, MaxBodyLine} : Len(rbuf) <= m + MaxRead
  BY DEF ShapeInv, TypeOK
<1>3. m \in Nat /\ MaxRead \in Nat
  BY LimitAssumption, ReadAssumption
<1>4. state = "need" => ~ TooLong(rbuf) /\ Feeds(rbuf) = {}
  BY DEF ShapeInv, Judged
<1>5. ASSUME UNCHANGED vars PROVE ShapeInv'
  BY <1>5 DEF vars, ShapeInv, TypeOK, Judged, TooLong, Measured, Feeds, FirstLine, FirstFeed, Strip,
              Limit
\* What take_line finds.
<1>6. ASSUME Feeds(rbuf) # {}, rbuf' = Rest(rbuf), UNCHANGED <<input, wire>>,
             taken' \in {Append(taken, FirstLine(rbuf)), Append(taken, Skipped)},
             mode' \in {"command", "body"}, state' = "take"
      PROVE  ShapeInv'
  <2>1. /\ FirstLine(rbuf) \in Seq(Octet) /\ Rest(rbuf) \in Seq(Octet)
        /\ Len(Rest(rbuf)) = Len(rbuf) - FirstFeed(rbuf) /\ FirstFeed(rbuf) \in 1 .. Len(rbuf)
    BY <1>1, <1>6, SplitBuffer, FeedFirst
  <2>2. Len(rbuf') <= m + MaxRead
    <3>1. Len(rbuf) - FirstFeed(rbuf) <= Len(rbuf)
      BY <1>1, <2>1
    <3> QED
      BY <1>1, <1>2, <1>3, <1>6, <2>1, <3>1
  <2>3. taken' \in Seq(Seq(Octet) \union {Skipped})
    <3> DEFINE S == Seq(Octet) \union {Skipped}
    <3>1. FirstLine(rbuf) \in S /\ Skipped \in S /\ taken \in Seq(S)
      BY <1>1, <2>1
    <3> HIDE DEF S
    <3>2. Append(taken, FirstLine(rbuf)) \in Seq(S) /\ Append(taken, Skipped) \in Seq(S)
      BY <3>1, AppendProperties
    <3>3. taken' \in Seq(S)
      BY <1>6, <3>2
    <3> QED
      BY <3>3 DEF S
  <2> QED
    BY <1>1, <1>2, <1>6, <2>1, <2>2, <2>3 DEF ShapeInv, TypeOK, Judged
\* A verdict that leaves the buffer.
<1>7. ASSUME UNCHANGED <<input, wire, rbuf, taken>>, mode' \in {"command", "body"},
             state' \in {"take", "need", "refused", "eof"}, Judged'
      PROVE  ShapeInv'
  BY <1>1, <1>2, <1>7 DEF ShapeInv, TypeOK
<1>8. CASE TakeLine
  BY <1>1, <1>6, <1>8 DEF TakeLine, AfterLine
<1>9. CASE RefuseBodyLine
  <2>1. CASE Feeds(rbuf) = {}
    BY <1>7, <1>9, <2>1 DEF RefuseBodyLine, Judged
  <2>2. CASE Feeds(rbuf) # {}
    BY <1>6, <1>9, <2>2 DEF RefuseBodyLine
  <2> QED
    BY <2>1, <2>2
<1>10. CASE RefuseCommand \/ Need \/ Eof
  <2>1. /\ UNCHANGED <<input, wire, rbuf, taken, mode>> /\ state' \in {"refused", "need", "eof"}
        /\ state' = "need" => ~ TooLong(rbuf) /\ Feeds(rbuf) = {}
        /\ state' = "refused" => mode = "command" /\ TooLong(rbuf)
    BY <1>10 DEF RefuseCommand, Need, Eof
  <2>2. (TooLong(rbuf))' <=> TooLong(rbuf)
    BY <2>1 DEF TooLong, Limit, Measured, Feeds, FirstLine, FirstFeed, Strip
  <2>3. (Feeds(rbuf))' = Feeds(rbuf)
    BY <2>1 DEF Feeds
  <2>4. Judged'
    BY <2>1, <2>2, <2>3 DEF Judged
  <2> QED
    BY <1>1, <1>7, <2>1, <2>4
<1>11. ASSUME NEW n \in 1 .. MaxRead, Read(n) PROVE ShapeInv'
  <2>1. /\ state = "need" /\ n <= Len(wire) /\ rbuf' = rbuf \o SubSeq(wire, 1, n)
        /\ wire' = SubSeq(wire, n + 1, Len(wire)) /\ state' = "take"
        /\ UNCHANGED <<input, mode, taken>>
    BY <1>11 DEF Read
  <2>2. n \in Nat \ {0} /\ n + 1 \in Nat \ {0} /\ n <= MaxRead /\ Len(wire) <= Len(wire)
        /\ 1 <= n + 1 /\ n - 1 + 1 = n
    BY <1>1, <1>3
  <2>3. SubSeq(wire, 1, n) \in Seq(Octet) /\ Len(SubSeq(wire, 1, n)) = n
    BY <1>1, <2>1, <2>2, PartOf
  <2>4. SubSeq(wire, n + 1, Len(wire)) \in Seq(Octet)
    BY <1>1, <2>2, PartOf
  <2>5. rbuf' \in Seq(Octet) /\ Len(rbuf') = Len(rbuf) + n
    BY <1>1, <2>1, <2>3, ConcatProperties
  <2>6. Len(rbuf) <= Limit
    <3>1. ~ (Len(rbuf) > Limit)
      BY <1>4, <2>1 DEF TooLong, Measured
    <3> QED
      BY <1>1, <3>1, LimitType
  <2>7. Len(rbuf') <= Limit + MaxRead
    BY <1>1, <1>3, <2>2, <2>5, <2>6, LimitType
  <2>8. \E k \in {MaxCommand, MaxBodyLine} : Len(rbuf') <= k + MaxRead
    BY <2>7, LimitType
  <2> QED
    BY <1>1, <2>1, <2>4, <2>5, <2>8 DEF ShapeInv, TypeOK, Judged
<1> QED
  BY <1>5, <1>8, <1>9, <1>10, <1>11 DEF Next

\* Every read is bounded, and none is begun while the buffer holds more than the
\* longest line (Conn::read_line_blocking): neither rbuf nor anything else of
\* the reader grows with what a client sends.
THEOREM TypeCorrect == Spec => []TypeOK
<1>1. ShapeInv => TypeOK
  BY DEF ShapeInv
<1> QED
  BY <1>1, ShapeInit, ShapeStep, PTL DEF Spec

\* A client whose command is refused sent a text that reaches the limit
\* (take_line measures the line's end with it, if that has come in part).
THEOREM RefusedNotBefore == Spec => []RefusedAtLimit
<1>1. ASSUME ShapeInv, state = "refused"
      PROVE  Len(IF Feeds(rbuf) = {} THEN Strip(rbuf) ELSE FirstLine(rbuf)) >= MaxCommand
  <2>1. rbuf \in Seq(Octet) /\ Len(rbuf) \in Nat /\ MaxCommand \in Nat
    BY <1>1, LenProperties, LimitAssumption DEF ShapeInv, TypeOK
  <2>2. Len(Measured(rbuf)) > MaxCommand
    BY <1>1 DEF ShapeInv, Judged, TooLong, Limit
  <2>3. CASE Feeds(rbuf) = {}
    BY <2>1, <2>2, <2>3, Stripped DEF Measured
  <2>4. CASE Feeds(rbuf) # {}
    <3>1. FirstLine(rbuf) \in Seq(Octet)
      BY <2>1, <2>4, SplitBuffer
    <3>2. Len(FirstLine(rbuf)) \in Nat
      BY <3>1, LenProperties
    <3> QED
      BY <2>1, <2>2, <2>4, <3>2 DEF Measured
  <2> QED
    BY <2>3, <2>4
<1>2. ShapeInv => RefusedAtLimit
  BY <1>1 DEF RefusedAtLimit
<1> QED
  BY <1>2, ShapeInit, ShapeStep, PTL DEF Spec

-----------------------------------------------------------------------------
(* The lines taken are the lines sent.                                     *)

\* The ends of line are finitely many, and fewer up to an earlier octet.
LEMMA CountedFeeds ==
    ASSUME input \in Seq(Octet)
    PROVE  /\ Feeds(input) \subseteq 1 .. Len(input) /\ IsFiniteSet(Feeds(input))
           /\ Cardinality(Feeds(input)) \in Nat
           /\ \A i \in Int : /\ FeedsUpTo(i) \subseteq Feeds(input) /\ IsFiniteSet(FeedsUpTo(i))
                             /\ Cardinality(FeedsUpTo(i)) \in Nat
                             /\ Cardinality(FeedsUpTo(i)) <= Cardinality(Feeds(input))
<1>1. DOMAIN input = 1 .. Len(input) /\ Len(input) \in Nat
  BY LenProperties
<1>2. Feeds(input) \subseteq 1 .. Len(input)
  BY <1>1 DEF Feeds
<1>3. IsFiniteSet(1 .. Len(input))
  BY <1>1, FS_Interval
<1>4. IsFiniteSet(Feeds(input))
  BY <1>2, <1>3, FS_Subset
<1>5. ASSUME NEW i \in Int
      PROVE  /\ FeedsUpTo(i) \subseteq Feeds(input) /\ IsFiniteSet(FeedsUpTo(i))
             /\ Cardinality(FeedsUpTo(i)) \in Nat
             /\ Cardinality(FeedsUpTo(i)) <= Cardinality(Feeds(input))
  <2>1. FeedsUpTo(i) \subseteq Feeds(input)
    BY DEF FeedsUpTo
  <2> QED
    BY <1>4, <2>1, FS_Subset, FS_CardinalityType
<1> QED
  BY <1>2, <1>4, <1>5, FS_CardinalityType

\* Where the buffer lies in the input.
LEMMA BufferInInput ==
    ASSUME ShapeInv, FrontInv, NEW e, e = End(Len(taken))
    PROVE  /\ e \in Nat /\ Len(input) \in Nat /\ Len(rbuf) \in Nat /\ Len(wire) \in Nat
           /\ e + Len(rbuf) + Len(wire) = Len(input)
           /\ \A i \in 1 .. Len(rbuf) : rbuf[i] = input[e + i]
           /\ \A i \in 1 .. Len(wire) : wire[i] = input[e + Len(rbuf) + i]
<1>1. /\ input \in Seq(Octet) /\ wire \in Seq(Octet) /\ rbuf \in Seq(Octet)
      /\ Len(input) \in Nat /\ Len(rbuf) \in Nat /\ Len(wire) \in Nat
  BY LenProperties DEF ShapeInv, TypeOK
<1>2. e \in 0 .. Len(input) /\ rbuf \o wire = SubSeq(input, e + 1, Len(input))
  BY DEF FrontInv
<1>3. /\ Len(SubSeq(input, e + 1, Len(input))) = Len(input) - e
      /\ \A i \in 1 .. Len(input) - e : SubSeq(input, e + 1, Len(input))[i] = input[e + i]
  <2> DEFINE m == e + 1
             part == SubSeq(input, m, Len(input))
  <2>1. m \in Nat \ {0} /\ Len(input) <= Len(input) /\ m <= Len(input) + 1
        /\ Len(input) - m + 1 = Len(input) - e
        /\ \A i \in 1 .. Len(input) - e : m + i - 1 = e + i
    <3>1. e \in Nat /\ Len(input) \in Nat /\ e <= Len(input)
      BY <1>1, <1>2
    <3> QED
      BY <3>1
  <2> HIDE DEF m
  <2>2. /\ m <= Len(input) + 1 => Len(part) = Len(input) - m + 1
        /\ \A i \in 1 .. Len(input) - m + 1 : part[i] = input[m + i - 1]
    BY <1>1, <2>1, PartOf
  <2> HIDE DEF part
  <2>3. Len(part) = Len(input) - e /\ \A i \in 1 .. Len(input) - e : part[i] = input[e + i]
    BY <2>1, <2>2
  <2> QED
    BY <2>3 DEF part, m
<1>4. /\ Len(rbuf \o wire) = Len(rbuf) + Len(wire)
      /\ \A i \in 1 .. Len(rbuf) + Len(wire) :
            (rbuf \o wire)[i] = IF i <= Len(rbuf) THEN rbuf[i] ELSE wire[i - Len(rbuf)]
  BY <1>1, ConcatProperties
<1>5. Len(rbuf) + Len(wire) = Len(input) - e
  BY <1>2, <1>3, <1>4
<1>6. ASSUME NEW i \in 1 .. Len(rbuf) PROVE rbuf[i] = input[e + i]
  <2>1. i \in 1 .. Len(rbuf) + Len(wire) /\ i <= Len(rbuf) /\ i \in 1 .. Len(input) - e
    BY <1>1, <1>2, <1>5
  <2> QED
    BY <1>2, <1>3, <1>4, <2>1
<1>7. ASSUME NEW i \in 1 .. Len(wire) PROVE wire[i] = input[e + Len(rbuf) + i]
  <2>1. /\ Len(rbuf) + i \in 1 .. Len(rbuf) + Len(wire) /\ ~ (Len(rbuf) + i <= Len(rbuf))
        /\ Len(rbuf) + i \in 1 .. Len(input) - e /\ (Len(rbuf) + i) - Len(rbuf) = i
        /\ e + (Len(rbuf) + i) = e + Len(rbuf) + i
    BY <1>1, <1>2, <1>5
  <2>2. (rbuf \o wire)[Len(rbuf) + i] = input[e + (Len(rbuf) + i)]
    BY <1>2, <1>3, <2>1
  <2>3. (rbuf \o wire)[Len(rbuf) + i] = wire[i]
    BY <1>4, <2>1
  <2> QED
    BY <2>1, <2>2, <2>3
<1> QED
  BY <1>1, <1>2, <1>5, <1>6, <1>7

\* The first line of the buffer is the octets after e, f of them.
Lies(e, f) == e = End(Len(taken)) /\ f = FirstFeed(rbuf)

\* The end of the first line in the buffer is the next end of line in the input.
LEMMA NextEnd ==
    ASSUME ShapeInv, FrontInv, Feeds(rbuf) # {},
           NEW e \in Nat, NEW f \in Nat \ {0}, Lies(e, f)
    PROVE  /\ e + f \in 1 .. Len(input)
           /\ Cardinality(FeedsUpTo(e + f)) = Len(taken) + 1
           /\ End(Len(taken) + 1) = e + f
<1>1. /\ input \in Seq(Octet) /\ rbuf \in Seq(Octet) /\ Len(taken) \in Nat
      /\ DOMAIN input = 1 .. Len(input)
  BY LenProperties DEF ShapeInv, TypeOK
<1>2. /\ e \in Nat /\ Len(input) \in Nat /\ Len(rbuf) \in Nat /\ Len(wire) \in Nat
      /\ e + Len(rbuf) + Len(wire) = Len(input)
  BY BufferInInput DEF Lies
<1>3. /\ f \in 1 .. Len(rbuf) /\ rbuf[f] = "LF" /\ \A j \in 1 .. f - 1 : rbuf[j] # "LF"
  BY <1>1, FeedFirst DEF Lies
<1>4. /\ e + f \in 1 .. Len(input) /\ e + f \in Nat /\ f \in Nat \ {0} /\ f <= Len(rbuf)
      /\ ~ (e + f <= e)
  <2>1. f \in Nat \ {0} /\ f <= Len(rbuf)
    BY <1>2, <1>3
  <2> QED
    BY <1>2, <2>1
<1>5. e + f \in Feeds(input)
  <2>1. input[e + f] = "LF"
    BY <1>3, BufferInInput DEF Lies
  <2> QED
    BY <1>1, <1>4, <2>1 DEF Feeds
<1>6. ASSUME NEW j \in Feeds(input), j > e PROVE j >= e + f
  <2>1. j \in 1 .. Len(input) /\ input[j] = "LF" /\ j \in Nat
    BY <1>1, <1>2, <1>6 DEF Feeds
  <2>2. ASSUME j < e + f PROVE FALSE
    <3>1. j - e \in 1 .. f - 1 /\ j - e \in 1 .. Len(rbuf) /\ e + (j - e) = j
      BY <1>2, <1>4, <1>6, <2>1, <2>2
    <3>2. rbuf[j - e] = input[j]
      BY <3>1, BufferInInput DEF Lies
    <3> QED
      BY <1>3, <2>1, <3>1, <3>2
  <2> QED
    BY <1>4, <2>1, <2>2
<1>7. \A j \in Feeds(input) : j \in Nat
  <2>1. Feeds(input) \subseteq 1 .. Len(input)
    BY <1>1, CountedFeeds
  <2> QED
    BY <1>2, <2>1
<1>8. FeedsUpTo(e + f) = FeedsUpTo(e) \union {e + f} /\ e + f \notin FeedsUpTo(e)
  <2>1. ASSUME NEW j \in Feeds(input) PROVE j <= e + f <=> (j <= e \/ j = e + f)
    <3>1. j \in Nat /\ (j > e => j >= e + f)
      BY <1>6, <1>7
    <3> QED
      BY <1>2, <1>4, <3>1
  <2> QED
    BY <1>4, <1>5, <2>1 DEF FeedsUpTo
<1>9. /\ IsFiniteSet(FeedsUpTo(e)) /\ Cardinality(FeedsUpTo(e)) = Len(taken)
  BY <1>1, <1>2, CountedFeeds DEF FrontInv, Lies
<1>10. Cardinality(FeedsUpTo(e + f)) = Len(taken) + 1 /\ IsFiniteSet(FeedsUpTo(e + f))
  <2>1. /\ IsFiniteSet(FeedsUpTo(e) \union {e + f})
        /\ Cardinality(FeedsUpTo(e) \union {e + f}) = Cardinality(FeedsUpTo(e)) + 1
    BY <1>8, <1>9, FS_AddElement
  <2> QED
    BY <1>8, <1>9, <2>1
<1>11. ASSUME NEW i \in Feeds(input), Cardinality(FeedsUpTo(i)) = Len(taken) + 1
       PROVE  i = e + f
  <2>1. i \in Nat /\ i \in Int /\ IsFiniteSet(FeedsUpTo(i)) /\ i \in FeedsUpTo(i)
    BY <1>1, <1>7, CountedFeeds DEF FeedsUpTo
  <2>2. ASSUME i < e + f PROVE FALSE
    <3>1. i <= e
      <4>1. i > e => i >= e + f
        BY <1>6
      <4> QED
        BY <1>2, <1>4, <2>1, <2>2, <4>1
    <3>2. FeedsUpTo(i) \subseteq FeedsUpTo(e)
      <4>1. ASSUME NEW j \in Feeds(input), j <= i PROVE j <= e
        BY <1>2, <1>7, <2>1, <3>1, <4>1
      <4> QED
        BY <4>1 DEF FeedsUpTo
    <3>3. Len(taken) + 1 <= Len(taken)
      BY <1>9, <1>11, <3>2, FS_Subset
    <3> QED
      BY <1>1, <3>3
  <2>3. ASSUME i > e + f PROVE FALSE
    <3>1. FeedsUpTo(e + f) \subseteq FeedsUpTo(i)
      <4>1. ASSUME NEW j \in Feeds(input), j <= e + f PROVE j <= i
        BY <1>4, <1>7, <2>1, <2>3, <4>1
      <4> QED
        BY <4>1 DEF FeedsUpTo
    <3>2. FeedsUpTo(i) = FeedsUpTo(e + f)
      BY <1>10, <1>11, <2>1, <3>1, FS_Subset
    <3>3. i <= e + f
      BY <2>1, <3>2 DEF FeedsUpTo
    <3> QED
      BY <1>4, <2>1, <2>3, <3>3
  <2> QED
    BY <1>4, <2>1, <2>2, <2>3
<1>12. End(Len(taken) + 1) = e + f
  <2>1. Len(taken) + 1 # 0
    BY <1>1
  <2>2. End(Len(taken) + 1) = CHOOSE i \in Feeds(input) : Cardinality(FeedsUpTo(i)) = Len(taken) + 1
    BY <2>1 DEF End, FeedsUpTo
  <2> QED
    BY <1>5, <1>10, <1>11, <2>2
<1> QED
  BY <1>4, <1>10, <1>12

\* The first line in the buffer is the next line of the input, and the rest of
\* the buffer begins where the line after it does.
LEMMA NextLine ==
    ASSUME ShapeInv, FrontInv, Feeds(rbuf) # {},
           NEW e \in Nat, NEW f \in Nat \ {0}, Lies(e, f)
    PROVE  /\ Line(Len(taken) + 1) = FirstLine(rbuf)
           /\ Rest(rbuf) \o wire = SubSeq(input, e + f + 1, Len(input))
<1>1. /\ input \in Seq(Octet) /\ rbuf \in Seq(Octet) /\ wire \in Seq(Octet) /\ Len(taken) \in Nat
  BY LenProperties DEF ShapeInv, TypeOK
<1>2. /\ e \in Nat /\ Len(input) \in Nat /\ Len(rbuf) \in Nat /\ Len(wire) \in Nat
      /\ e + Len(rbuf) + Len(wire) = Len(input)
  BY BufferInInput DEF Lies
<1>3. f \in Nat \ {0} /\ f <= Len(rbuf) /\ End(Len(taken) + 1) = e + f
  <2>1. f \in 1 .. Len(rbuf) /\ End(Len(taken) + 1) = e + f
    BY <1>1, FeedFirst, NextEnd DEF Lies
  <2> QED
    BY <1>2, <2>1
<1>4. SubSeq(input, e + 1, e + f - 1) = SubSeq(rbuf, 1, f - 1)
  <2> DEFINE g == f - 1
             m == e + 1
             h == e + f - 1
             part == SubSeq(input, m, h)
             line == SubSeq(rbuf, 1, g)
  <2>1. /\ g \in Nat /\ g <= Len(rbuf) /\ 1 <= g + 1 /\ g - 1 + 1 = g /\ 1 \in Nat \ {0}
        /\ m \in Nat \ {0} /\ h \in Nat /\ h <= Len(input) /\ m <= h + 1 /\ h - m + 1 = g
    BY <1>2, <1>3
  <2>7. \A i \in 1 .. g : i \in 1 .. Len(rbuf) /\ m + i - 1 = e + i /\ 1 + i - 1 = i
    BY <1>2, <1>3
  <2> HIDE DEF g, m, h
  <2>2. /\ part \in Seq(Octet) /\ (m <= h + 1 => Len(part) = h - m + 1)
        /\ \A i \in 1 .. h - m + 1 : part[i] = input[m + i - 1]
    BY <1>1, <2>1, PartOf
  <2>3. /\ line \in Seq(Octet) /\ (1 <= g + 1 => Len(line) = g - 1 + 1)
        /\ \A i \in 1 .. g - 1 + 1 : line[i] = rbuf[1 + i - 1]
    BY <1>1, <2>1, PartOf
  <2> HIDE DEF part, line
  <2>4. Len(part) = Len(line) /\ Len(part) = g
    BY <2>1, <2>2, <2>3
  <2>5. ASSUME NEW i \in 1 .. g PROVE part[i] = line[i]
    <3>1. i \in 1 .. Len(rbuf) /\ m + i - 1 = e + i /\ 1 + i - 1 = i
      BY <2>7
    <3>2. part[i] = input[e + i]
      BY <2>1, <2>2, <3>1
    <3>3. line[i] = rbuf[i]
      BY <2>1, <2>3, <3>1
    <3> QED
      BY <3>1, <3>2, <3>3, BufferInInput DEF Lies
  <2>6. part = line
    BY <2>2, <2>3, <2>4, <2>5, SeqEqual
  <2> QED
    BY <2>6 DEF part, line, g, m, h
<1>5. Line(Len(taken) + 1) = FirstLine(rbuf)
  <2>1. Len(taken) + 1 - 1 = Len(taken)
    BY <1>1
  <2>2. Line(Len(taken) + 1)
           = Strip(SubSeq(input, End(Len(taken) + 1 - 1) + 1, End(Len(taken) + 1) - 1))
    BY DEF Line
  <2>3. Line(Len(taken) + 1) = Strip(SubSeq(input, e + 1, e + f - 1))
    <3>1. End(Len(taken) + 1 - 1) = e
      BY <2>1 DEF Lies
    <3>2. End(Len(taken) + 1) = e + f
      BY <1>3
    <3> QED
      BY <2>2, <3>1, <3>2
  <2> QED
    BY <1>4, <2>3 DEF FirstLine, Lies
<1>6. Rest(rbuf) \o wire = SubSeq(input, e + f + 1, Len(input))
  <2> DEFINE rest == Rest(rbuf)
             m == e + f + 1
             part == SubSeq(input, m, Len(input))
             k == Len(input) - (e + f)
  <2>1. /\ rest \in Seq(Octet) /\ Len(rest) = Len(rbuf) - f
        /\ \A i \in 1 .. Len(rbuf) - f : rest[i] = rbuf[f + i]
    BY <1>1, SplitBuffer DEF Lies
  <2> HIDE DEF rest
  <2>2. /\ rest \o wire \in Seq(Octet) /\ Len(rest \o wire) = Len(rest) + Len(wire)
        /\ \A i \in 1 .. Len(rest) + Len(wire) :
              (rest \o wire)[i] = IF i <= Len(rest) THEN rest[i] ELSE wire[i - Len(rest)]
    BY <1>1, <2>1, ConcatProperties
  <2>3. /\ m \in Nat \ {0} /\ Len(input) <= Len(input) /\ m <= Len(input) + 1
        /\ Len(input) - m + 1 = k /\ Len(rest) + Len(wire) = k /\ k \in Nat
    <3>1. Len(rest) = Len(rbuf) - f
      BY <2>1
    <3> QED
      BY <1>2, <1>3, <3>1
  <2>8. \A i \in 1 .. k : m + i - 1 = e + f + i
    BY <1>2, <1>3
  <2> HIDE DEF m, k
  <2>4. /\ part \in Seq(Octet) /\ (m <= Len(input) + 1 => Len(part) = Len(input) - m + 1)
        /\ \A i \in 1 .. Len(input) - m + 1 : part[i] = input[m + i - 1]
    BY <1>1, <1>2, <2>3, PartOf
  <2> HIDE DEF part
  <2>5. Len(part) = k /\ Len(rest \o wire) = k /\ \A i \in 1 .. k : part[i] = input[e + f + i]
    BY <2>2, <2>3, <2>4, <2>8
  <2>6. ASSUME NEW i \in 1 .. k PROVE (rest \o wire)[i] = part[i]
    <3>4. i \in Nat \ {0} /\ i <= Len(rest) + Len(wire) /\ Len(rest) = Len(rbuf) - f
      BY <2>1, <2>3
    <3>1. CASE i <= Len(rest)
      <4>1. i \in 1 .. Len(rbuf) - f /\ f + i \in 1 .. Len(rbuf) /\ e + (f + i) = e + f + i
        BY <1>2, <1>3, <3>1, <3>4
      <4>2. rest[i] = input[e + f + i]
        <5>1. rest[i] = rbuf[f + i]
          BY <2>1, <4>1
        <5>2. rbuf[f + i] = input[e + (f + i)]
          BY <4>1, BufferInInput DEF Lies
        <5> QED
          BY <4>1, <5>1, <5>2
      <4> QED
        BY <2>2, <2>3, <2>5, <3>1, <4>2
    <3>2. CASE ~ (i <= Len(rest))
      <4>2. /\ i - Len(rest) \in 1 .. Len(wire)
            /\ e + Len(rbuf) + (i - Len(rest)) = e + f + i
        BY <1>2, <1>3, <3>2, <3>4
      <4>3. wire[i - Len(rest)] = input[e + f + i]
        <5>1. wire[i - Len(rest)] = input[e + Len(rbuf) + (i - Len(rest))]
          BY <4>2, BufferInInput DEF Lies
        <5> QED
          BY <4>2, <5>1
      <4> QED
        BY <2>2, <2>3, <2>5, <3>2, <4>3
    <3> QED
      BY <3>1, <3>2
  <2>7. rest \o wire = part
    BY <2>2, <2>4, <2>5, <2>6, SeqEqual
  <2> QED
    BY <2>7 DEF rest, part, m
<1> QED
  BY <1>5, <1>6

LEMMA FrontInit == Init => FrontInv /\ LinesInv
<1> SUFFICES ASSUME Init PROVE FrontInv /\ LinesInv
  OBVIOUS
<1>1. /\ input \in Seq(Octet) /\ wire = input /\ rbuf = <<>> /\ taken = <<>> /\ Len(taken) = 0
      /\ Len(input) \in Nat
  BY ShapeInit, LenProperties DEF Init, ShapeInv, TypeOK
<1>2. End(Len(taken)) = 0
  BY <1>1 DEF End
<1>3. FeedsUpTo(0) = {}
  <2>1. Feeds(input) \subseteq 1 .. Len(input)
    BY <1>1, CountedFeeds
  <2>2. \A j \in 1 .. Len(input) : ~ (j <= 0)
    BY <1>1
  <2> QED
    BY <2>1, <2>2 DEF FeedsUpTo
<1>4. Cardinality(FeedsUpTo(0)) = 0
  BY <1>3, FS_EmptySet
<1>5. rbuf \o wire = SubSeq(input, End(Len(taken)) + 1, Len(input))
  <2>1. rbuf \o wire = input
    BY <1>1, ConcatEmptySeq
  <2>2. SubSeq(input, 1, Len(input)) = input
    BY <1>1, SubSeqFull
  <2>3. 0 + 1 = 1
    OBVIOUS
  <2> QED
    BY <1>2, <2>1, <2>2, <2>3
<1>6. FrontInv
  BY <1>1, <1>2, <1>4, <1>5 DEF FrontInv
<1>7. LinesInv
  BY <1>1, CountedFeeds DEF LinesInv
<1> QED
  BY <1>6, <1>7

\* A line leaves the buffer.
LEMMA TakenStep ==
    ASSUME ReaderInv, Feeds(rbuf) # {}, rbuf' = Rest(rbuf), UNCHANGED <<input, wire>>,
           NEW text, taken' = Append(taken, text),
           text = FirstLine(rbuf) \/ (text = Skipped /\ Len(FirstLine(rbuf)) > MaxBodyLine),
           ShapeInv'
    PROVE  FrontInv' /\ LinesInv'
<1>1. ShapeInv /\ FrontInv /\ LinesInv
  BY DEF ReaderInv
<1>2. /\ input \in Seq(Octet) /\ rbuf \in Seq(Octet)
      /\ taken \in Seq(Seq(Octet) \union {Skipped}) /\ taken' \in Seq(Seq(Octet) \union {Skipped})'
      /\ Len(taken) \in Nat /\ DOMAIN taken = 1 .. Len(taken)
  BY <1>1, LenProperties DEF ShapeInv, TypeOK
<1>3. End(Len(taken)) \in Nat /\ FirstFeed(rbuf) \in Nat \ {0}
  <2>1. End(Len(taken)) \in Nat
    BY <1>1, BufferInInput
  <2>2. FirstFeed(rbuf) \in 1 .. Len(rbuf) /\ Len(rbuf) \in Nat
    BY <1>2, FeedFirst, LenProperties
  <2> QED
    BY <2>1, <2>2
<1>4. PICK e \in Nat, f \in Nat \ {0} : Lies(e, f)
  BY <1>3 DEF Lies
<1>5. /\ e + f \in 1 .. Len(input) /\ Cardinality(FeedsUpTo(e + f)) = Len(taken) + 1
      /\ End(Len(taken) + 1) = e + f
      /\ Line(Len(taken) + 1) = FirstLine(rbuf)
      /\ Rest(rbuf) \o wire = SubSeq(input, e + f + 1, Len(input))
  BY <1>1, <1>4, NextEnd, NextLine
<1>6. /\ Len(taken') = Len(taken) + 1 /\ taken'[Len(taken) + 1] = text
      /\ \A n \in 1 .. Len(taken) : taken'[n] = taken[n]
  <2> DEFINE S == Seq(Octet) \union {Skipped} \union {text}
  <2>1. taken \in Seq(S)
    <3>1. Seq(Octet) \union {Skipped} \subseteq S
      OBVIOUS
    <3> HIDE DEF S
    <3> QED
      BY <1>2, <3>1, SeqMonotonic
  <2>2. text \in S
    OBVIOUS
  <2> HIDE DEF S
  <2> QED
    BY <2>1, <2>2, AppendProperties
<1>7. /\ (Feeds(input))' = Feeds(input)
      /\ \A n \in Nat : End(n)' = End(n) /\ Line(n)' = Line(n) /\ FeedsUpTo(n)' = FeedsUpTo(n)
  BY DEF Feeds, End, Line, FeedsUpTo, Strip
<1>8. /\ (End(Len(taken)))' = e + f /\ e + f \in Nat
      /\ (FeedsUpTo(End(Len(taken))))' = FeedsUpTo(e + f)
  <2>1. (End(Len(taken)))' = End(Len(taken) + 1)
    BY <1>6 DEF End, Feeds
  <2>2. (End(Len(taken)))' = e + f
    BY <1>5, <2>1
  <2>3. (FeedsUpTo(End(Len(taken))))' = FeedsUpTo(e + f)
    BY <2>2, <1>7 DEF FeedsUpTo
  <2> QED
    BY <1>4, <2>2, <2>3
<1>9. FrontInv'
  <2>1. /\ (End(Len(taken)))' \in 0 .. Len(input')
        /\ Cardinality((FeedsUpTo(End(Len(taken))))') = Len(taken')
    <3>1. e + f \in 0 .. Len(input)
      BY <1>2, <1>5, <1>8, LenProperties
    <3> QED
      BY <1>5, <1>6, <1>8, <3>1
  <2>2. (rbuf \o wire = SubSeq(input, End(Len(taken)) + 1, Len(input)))'
    BY <1>5, <1>8
  <2> QED
    BY <2>1, <2>2 DEF FrontInv
<1>10. LinesInv'
  <2>1. Len(taken') <= Cardinality((Feeds(input))')
    <3>1. Cardinality(FeedsUpTo(e + f)) <= Cardinality(Feeds(input))
      BY <1>2, <1>8, CountedFeeds
    <3> QED
      BY <1>5, <1>6, <1>7, <3>1
  <2>2. ASSUME NEW n \in DOMAIN taken'
        PROVE  \/ taken'[n] = Line(n)'
               \/ taken'[n] = Skipped /\ Len(Line(n)') > MaxBodyLine
    <3>1. n \in 1 .. Len(taken) + 1
      <4>1. DOMAIN taken' = 1 .. Len(taken')
        BY <1>2, LenProperties
      <4> QED
        BY <1>6, <2>2, <4>1
    <3>2. n \in Nat /\ (n \in 1 .. Len(taken) \/ n = Len(taken) + 1)
      BY <1>2, <3>1
    <3>3. Line(n)' = Line(n)
      BY <1>7, <3>2
    <3>4. CASE n \in 1 .. Len(taken)
      <4>1. taken'[n] = taken[n] /\ n \in DOMAIN taken
        BY <1>2, <1>6, <3>4
      <4> QED
        BY <1>1, <3>3, <4>1 DEF LinesInv
    <3>5. CASE n = Len(taken) + 1
      <4>1. taken'[n] = text /\ Line(n) = FirstLine(rbuf)
        BY <1>5, <1>6, <3>5
      <4> QED
        BY <3>3, <4>1
    <3> QED
      BY <3>2, <3>4, <3>5
  <2> QED
    BY <2>1, <2>2 DEF LinesInv
<1> QED
  BY <1>9, <1>10

\* A read takes octets from the front of the wire to the end of the buffer.
LEMMA ReadKeeps ==
    ASSUME NEW S, NEW r \in Seq(S), NEW w \in Seq(S), NEW n \in Nat \ {0}, n <= Len(w)
    PROVE  (r \o SubSeq(w, 1, n)) \o SubSeq(w, n + 1, Len(w)) = r \o w
<1> DEFINE one == SubSeq(w, 1, n)
           two == SubSeq(w, n + 1, Len(w))
<1>1. /\ Len(w) \in Nat /\ 1 \in Nat \ {0} /\ n + 1 \in Nat \ {0} /\ Len(w) <= Len(w)
      /\ 1 \in 1 .. Len(w) + 1 /\ n \in 1 - 1 .. Len(w) /\ Len(w) \in n .. Len(w)
  <2>1. Len(w) \in Nat
    BY LenProperties
  <2> QED
    BY <2>1
<1>2. one \in Seq(S) /\ two \in Seq(S)
  BY <1>1, PartOf
<1>3. one \o two = w
  <2>1. one \o two = SubSeq(w, 1, Len(w))
    BY <1>1, ConcatAdjacentSubSeq
  <2> QED
    BY <2>1, SubSeqFull
<1> HIDE DEF one, two
<1>4. (r \o one) \o two = r \o w
  <2>1. ASSUME NEW T, NEW s \in Seq(T), NEW t \in Seq(T), NEW u \in Seq(T), t \o u = w
        PROVE  (s \o t) \o u = s \o w
    <3>1. (s \o t) \o u = s \o (t \o u)
      BY ConcatAssociative
    <3> QED
      BY <2>1, <3>1
  <2> QED
    BY <1>2, <1>3, <2>1
<1> QED
  BY <1>4 DEF one, two

LEMMA ReaderStep == ReaderInv /\ ShapeInv' /\ [Next]_vars => FrontInv' /\ LinesInv'
<1> SUFFICES ASSUME ReaderInv, ShapeInv', [Next]_vars PROVE FrontInv' /\ LinesInv'
  OBVIOUS
<1>1. ShapeInv /\ FrontInv /\ LinesInv
  BY DEF ReaderInv
<1>2. ASSUME UNCHANGED <<input, taken>>, rbuf' \o wire' = rbuf \o wire
      PROVE  FrontInv' /\ LinesInv'
  <2>1. /\ (Feeds(input))' = Feeds(input)
        /\ \A n : End(n)' = End(n) /\ Line(n)' = Line(n) /\ FeedsUpTo(n)' = FeedsUpTo(n)
    BY <1>2 DEF Feeds, End, Line, FeedsUpTo, Strip
  <2>2. (End(Len(taken)))' = End(Len(taken))
    BY <1>2 DEF End, Feeds
  <2>3. (FeedsUpTo(End(Len(taken))))' = FeedsUpTo(End(Len(taken)))
    BY <1>2, <2>2 DEF FeedsUpTo, Feeds
  <2>4. FrontInv'
    BY <1>1, <1>2, <2>2, <2>3 DEF FrontInv
  <2>5. LinesInv'
    BY <1>1, <1>2, <2>1 DEF LinesInv
  <2> QED
    BY <2>4, <2>5
<1>3. ASSUME UNCHANGED <<input, taken, rbuf, wire>> PROVE FrontInv' /\ LinesInv'
  BY <1>2, <1>3
<1>4. CASE TakeLine
  BY <1>4, TakenStep DEF TakeLine
<1>5. CASE RefuseBodyLine
  <2>1. CASE Feeds(rbuf) = {}
    BY <1>3, <1>5, <2>1 DEF RefuseBodyLine
  <2>2. CASE Feeds(rbuf) # {}
    <3>1. Len(FirstLine(rbuf)) > MaxBodyLine
      BY <1>5, <2>2 DEF RefuseBodyLine, TooLong, Measured, Limit
    <3> QED
      BY <1>5, <2>2, <3>1, TakenStep DEF RefuseBodyLine
  <2> QED
    BY <2>1, <2>2
<1>6. CASE RefuseCommand \/ Need \/ Eof \/ UNCHANGED vars
  BY <1>3, <1>6 DEF RefuseCommand, Need, Eof, vars
<1>7. ASSUME NEW n \in 1 .. MaxRead, Read(n) PROVE FrontInv' /\ LinesInv'
  <2>1. n \in Nat \ {0} /\ rbuf \in Seq(Octet) /\ wire \in Seq(Octet)
    BY <1>1, ReadAssumption DEF ShapeInv, TypeOK
  <2>2. rbuf' \o wire' = rbuf \o wire
    BY <1>7, <2>1, ReadKeeps DEF Read
  <2> QED
    BY <1>2, <1>7, <2>2 DEF Read
<1> QED
  BY <1>4, <1>5, <1>6, <1>7 DEF Next

\* The lines serve and read_body are given are the lines the other end sent, in
\* order, none lost, joined or split, however reads cut the stream (take_line
\* and the loop of Conn::read_line_blocking around it).
THEOREM LinesKept == Spec => []LinesFaithful
<1>1. Init => ReaderInv
  BY ShapeInit, FrontInit DEF ReaderInv
<1>2. ReaderInv /\ [Next]_vars => ReaderInv'
  <2>1. ReaderInv /\ [Next]_vars => ShapeInv'
    BY ShapeStep DEF ReaderInv
  <2>2. ReaderInv /\ [Next]_vars => FrontInv' /\ LinesInv'
    BY <2>1, ReaderStep
  <2> QED
    BY <2>1, <2>2 DEF ReaderInv
<1>3. ReaderInv => LinesFaithful
  BY DEF ReaderInv, FrontInv, LinesInv, LinesFaithful
<1> QED
  BY <1>1, <1>2, <1>3, PTL DEF Spec
=============================================================================
