----------------------------- MODULE FloodProofs -----------------------------
(***************************************************************************)
(* What holds of the flood of messages for every cluster, topology, queue  *)
(* depth, seen-set capacity, and number of messages and failures.          *)
(***************************************************************************)
EXTENDS Flood, SequenceLemmas, FiniteSetTheorems, TLAPS

-----------------------------------------------------------------------------
(* Streams.                                                                *)

\* The two streams of a link have its ends, and are two.
LEMMA Streams ==
    ASSUME NEW l \in Link
    PROVE  /\ From(l) \in Daemon /\ To(l) \in Daemon /\ From(l) # To(l)
           /\ Live(l) \in Stream /\ Dying(l) \in Stream /\ Live(l) # Dying(l)
           /\ Src(Live(l)) = From(l) /\ Dst(Live(l)) = To(l)
           /\ Src(Dying(l)) = From(l) /\ Dst(Dying(l)) = To(l)
  BY FloodLinks DEF From, To, Live, Dying, Stream, Src, Dst

\* Every stream is one of the two of its link.
LEMMA StreamLink ==
    ASSUME NEW s \in Stream
    PROVE  /\ s[1] \in Link /\ s \in {Live(s[1]), Dying(s[1])}
           /\ Src(s) = From(s[1]) /\ Dst(s) = To(s[1])
           /\ Src(s) \in Daemon /\ Dst(s) \in Daemon /\ Src(s) # Dst(s)
<1>1. s[1] \in Link /\ s \in {Live(s[1]), Dying(s[1])}
  BY DEF Stream, Live, Dying
<1> QED
  BY <1>1, Streams DEF Src, Dst

LEMMA MessageParts ==
    ASSUME NEW m \in Message
    PROVE  /\ m.origin \in Daemon /\ m.n \in 1 .. MaxMsgs /\ m.life \in 0 .. MaxFailures
           /\ Id(m) \in Ids /\ Id(m) = <<m.origin, m.n>>
  BY DEF Message, Id, Ids

-----------------------------------------------------------------------------
(* Type correctness.                                                       *)

\* The registry numbers what it publishes: a message of the running daemon has
\* a number below the next, those of earlier lives an earlier life, and a daemon
\* has numbered no more messages than were published.
Numbered ==
    /\ IsFiniteSet(published)
    /\ \A d \in Daemon : seq[d] <= Cardinality(published) + 1
    /\ failures <= MaxFailures
    /\ \A d \in Daemon : life[d] <= failures
    /\ \A m \in published :
        /\ m.life <= life[m.origin]
        /\ m.life = life[m.origin] => m.n < seq[m.origin]

TypeInv == TypeOK /\ Numbered

LEMMA TypeInvInit == Init => TypeInv
<1> SUFFICES ASSUME Init PROVE TypeInv
  OBVIOUS
<1>1. Cardinality({}) = 0 /\ IsFiniteSet({})
  BY FS_EmptySet
<1>2. Len(<<>>) = 0 /\ <<>> \in Seq(Ids) /\ <<>> \in Seq(Message) /\ IsInjective(<<>>)
  BY EmptySeq DEF IsInjective
<1>3. TypeOK
  BY <1>2, FloodDepths DEF Init, TypeOK
<1>4. Numbered
  BY <1>1, FloodBounds DEF Init, Numbered
<1> QED
  BY <1>3, <1>4 DEF TypeInv

\* What insert does to the seen-set: it grows by the id, loses the oldest, and
\* has none twice.
LEMMA InsertSeen ==
    ASSUME NEW order \in Seq(Ids), Len(order) <= SeenCap, IsInjective(order), NEW id \in Ids,
           NEW new, new = IF id \in Range(order) THEN order ELSE Append(order, id)
    PROVE  /\ Bounded(new) \in Seq(Ids)
           /\ Len(Bounded(new)) <= SeenCap
           /\ IsInjective(Bounded(new))
           /\ Range(new) = Range(order) \union {id}
           /\ Range(Bounded(new)) \subseteq Range(new)
<1> SeenCap \in Nat \ {0}
  BY FloodDepths
<1>1. CASE id \in Range(order)
  BY <1>1 DEF Bounded
<1>2. CASE id \notin Range(order)
  <2>1. /\ new = Append(order, id)
        /\ new \in Seq(Ids)
        /\ Range(new) = Range(order) \union {id}
        /\ Len(new) = Len(order) + 1
        /\ Len(order) \in Nat
    BY <1>2, RangeAppend, AppendProperties, LenProperties
  <2>2. IsInjective(new)
    <3>1. /\ DOMAIN new = 1 .. Len(order) + 1
          /\ DOMAIN order = 1 .. Len(order)
          /\ \A i \in 1 .. Len(order) : new[i] = order[i]
          /\ new[Len(order) + 1] = id
      BY <2>1, AppendProperties, LenProperties
    <3>2. \A i \in 1 .. Len(order) : new[i] # id
      BY <1>2, <3>1 DEF Range
    <3> SUFFICES ASSUME NEW i \in 1 .. Len(order) + 1, NEW j \in 1 .. Len(order) + 1,
                        new[i] = new[j]
                 PROVE  i = j
      BY <3>1 DEF IsInjective
    <3>3. CASE i \in 1 .. Len(order) /\ j \in 1 .. Len(order)
      BY <3>1, <3>3 DEF IsInjective
    <3>4. CASE i = Len(order) + 1 \/ j = Len(order) + 1
      BY <3>1, <3>2, <3>4, <2>1
    <3> QED
      BY <3>3, <3>4, <2>1
  <2>3. CASE Len(new) > SeenCap
    <3>1. Bounded(new) = Tail(new)
      BY <2>3 DEF Bounded
    <3>2. new # <<>>
      BY <2>1, EmptySeq
    <3>3. /\ Tail(new) \in Seq(Ids)
          /\ Len(Tail(new)) = Len(new) - 1
          /\ \A i \in 1 .. Len(Tail(new)) : Tail(new)[i] = new[i + 1]
          /\ Range(Tail(new)) \subseteq Range(new)
      BY <2>1, <3>2, HeadTailProperties, RangeHeadTail
    <3>6. Len(Tail(new)) = Len(order)
      BY <2>1, <3>3
    <3>4. DOMAIN Tail(new) = 1 .. Len(order) /\ DOMAIN new = 1 .. Len(order) + 1
      BY <2>1, <3>3, LenProperties
    <3>5. IsInjective(Tail(new))
      <4> SUFFICES ASSUME NEW i \in 1 .. Len(order), NEW j \in 1 .. Len(order),
                          Tail(new)[i] = Tail(new)[j]
                   PROVE  i = j
        BY <3>4 DEF IsInjective
      <4>1. new[i + 1] = new[j + 1]
        BY <3>3, <3>6
      <4>2. i + 1 = j + 1
        BY <2>1, <2>2, <3>4, <4>1 DEF IsInjective
      <4> QED
        BY <4>2, <2>1
    <3> QED
      BY <2>1, <3>1, <3>3, <3>5, <3>6
  <2>4. CASE ~ (Len(new) > SeenCap)
    BY <2>1, <2>2, <2>4 DEF Bounded
  <2> QED
    BY <2>3, <2>4
<1> QED
  BY <1>1, <1>2

LEMMA InsertType ==
    ASSUME TypeOK, NEW d \in Daemon, NEW id \in Ids, Insert(d, id)
    PROVE  /\ seen' \in [Daemon -> Seq(Ids)]
           /\ \A e \in Daemon : Len(seen'[e]) <= SeenCap /\ IsInjective(seen'[e])
           /\ evicted' \in [Daemon -> SUBSET Ids]
<1> DEFINE order == IF id \in Range(seen[d]) THEN seen[d] ELSE Append(seen[d], id)
<1>1. /\ seen \in [Daemon -> Seq(Ids)] /\ evicted \in [Daemon -> SUBSET Ids]
      /\ \A e \in Daemon : Len(seen[e]) <= SeenCap /\ IsInjective(seen[e])
  BY DEF TypeOK
<1>2. /\ seen' = [seen EXCEPT ![d] = Bounded(order)]
      /\ evicted' = [evicted EXCEPT ![d] = @ \union (Range(order) \ Range(Bounded(order)))]
  BY DEF Insert
<1>3. /\ Bounded(order) \in Seq(Ids)
      /\ Len(Bounded(order)) <= SeenCap
      /\ IsInjective(Bounded(order))
      /\ Range(order) = Range(seen[d]) \union {id}
  BY <1>1, InsertSeen
<1>4. Range(order) \subseteq Ids
  BY <1>1, <1>3, RangeOfSeq
<1> HIDE DEF order
<1> QED
  BY <1>1, <1>2, <1>3, <1>4

\* The effect of a broadcast: each stream from d takes the message or not, and
\* when nothing was lost each link but the one to `e' took it.
LEMMA SendFlow ==
    ASSUME TypeOK, NEW d \in Daemon, NEW e, NEW m \in Message, Send(d, e, m)
    PROVE  /\ flow' \in [Stream -> Seq(Message)]
           /\ \A s \in Stream : /\ Len(flow'[s]) <= QueueDepth + WireDepth
                                /\ Range(flow[s]) \subseteq Range(flow'[s])
                                /\ Range(flow'[s]) \subseteq Range(flow[s]) \union {m}
                                /\ Src(s) # d => flow'[s] = flow[s]
           /\ lost' \in {lost, lost \union {m}}
           /\ m \notin lost' =>
                \A l \in Link : From(l) = d /\ To(l) # e => m \in Range(flow'[Live(l)])
<1> DEFINE targets == {l \in Owed(d, e) : up[l]}
           mayDrop == {l \in targets : Len(flow[Live(l)]) >= QueueDepth}
           mustDrop == {l \in targets : Len(flow[Live(l)]) >= QueueDepth + WireDepth}
<1>1. PICK dropped \in SUBSET mayDrop :
        /\ mustDrop \subseteq dropped
        /\ flow' = [s \in Stream |-> IF s[1] \in targets \ dropped /\ s = Live(s[1])
                                    THEN Append(flow[s], m) ELSE flow[s]]
        /\ lost' = IF Owed(d, e) \subseteq targets \ dropped THEN lost ELSE lost \union {m}
  BY DEF Send
<1>2. /\ flow \in [Stream -> Seq(Message)]
      /\ \A s \in Stream : Len(flow[s]) <= QueueDepth + WireDepth
  BY DEF TypeOK
<1>3. QueueDepth \in Nat /\ WireDepth \in Nat
  BY FloodDepths
<1>4. ASSUME NEW s \in Stream
      PROVE  /\ flow'[s] \in Seq(Message)
             /\ Len(flow'[s]) <= QueueDepth + WireDepth
             /\ Range(flow[s]) \subseteq Range(flow'[s])
             /\ Range(flow'[s]) \subseteq Range(flow[s]) \union {m}
             /\ Src(s) # d => flow'[s] = flow[s]
  <2>1. CASE s[1] \in targets \ dropped /\ s = Live(s[1])
    <3>1. flow'[s] = Append(flow[s], m)
      BY <1>1, <2>1
    <3>2. Src(s) = d
      BY <2>1 DEF Src, Owed
    <3>3. ~ (Len(flow[s]) >= QueueDepth + WireDepth)
      BY <1>1, <2>1
    <3>4. Len(Append(flow[s], m)) = Len(flow[s]) + 1 /\ Len(flow[s]) \in Nat
      BY <1>2, AppendProperties, LenProperties
    <3>5. Append(flow[s], m) \in Seq(Message) /\ Range(Append(flow[s], m)) = Range(flow[s]) \union {m}
      BY <1>2, RangeAppend
    <3> HIDE DEF targets, mayDrop, mustDrop
    <3> QED
      BY <1>3, <3>1, <3>2, <3>3, <3>4, <3>5
  <2>2. CASE ~ (s[1] \in targets \ dropped /\ s = Live(s[1]))
    <3>1. flow'[s] = flow[s]
      BY <1>1, <2>2
    <3> QED
      BY <1>2, <3>1
  <2> QED
    BY <2>1, <2>2
<1>5. flow' \in [Stream -> Seq(Message)]
  BY <1>1, <1>4
<1>6. lost' \in {lost, lost \union {m}}
  BY <1>1
<1>7. ASSUME m \notin lost', NEW l \in Link, From(l) = d, To(l) # e
      PROVE  m \in Range(flow'[Live(l)])
  <2>1. l \in targets \ dropped
    BY <1>1, <1>7 DEF Owed
  <2>2. Live(l) \in Stream /\ Live(l)[1] = l
    BY DEF Live, Stream
  <2>3. flow'[Live(l)] = Append(flow[Live(l)], m)
    BY <1>1, <2>1, <2>2
  <2> QED
    BY <1>2, <2>2, <2>3, RangeAppend
<1> QED
  BY <1>4, <1>5, <1>6, <1>7
\* The two pieces of a stream that is cut: what its reader still finds, and not.
Found(l, n) == SubSeq(flow[Live(l)], 1, n)
Gone(l, n) == Range(SubSeq(flow[Live(l)], n + 1, Len(flow[Live(l)])))

LEMMA CutPieces ==
    ASSUME TypeOK, NEW l \in Link, NEW n \in 0 .. WireDepth, Cut(l, n)
    PROVE  /\ Found(l, n) \in Seq(Message) /\ Len(Found(l, n)) <= QueueDepth + WireDepth
           /\ Range(flow[Live(l)]) = Range(Found(l, n)) \union Gone(l, n)
           /\ Gone(l, n) \subseteq Message
           /\ flow[Dying(l)] = <<>> /\ reader[Dying(l)] = NoMsg
<1>1. Live(l) \in Stream /\ flow[Live(l)] \in Seq(Message)
  BY Streams DEF TypeOK
<1>2. n \in 0 .. Len(flow[Live(l)])
  BY <1>1, LenProperties, FloodDepths DEF Cut
<1>3. Found(l, n) \in Seq(Message) /\ Range(flow[Live(l)]) = Range(Found(l, n)) \union Gone(l, n)
  BY <1>1, <1>2, RangePrefix, RangeSplit DEF Found, Gone
<1>4. Len(Found(l, n)) = n
  <2>1. \A i \in 1 .. n : flow[Live(l)][i] \in Message
    BY <1>1, <1>2, LenProperties, ElementOfSeq
  <2>2. n \in Int /\ n >= 0 /\ (1 <= n => n - 1 + 1 = n)
    BY <1>2, FloodDepths
  <2> QED
    BY <2>1, <2>2, SubSeqProperties DEF Found
<1>5. n <= QueueDepth + WireDepth
  BY FloodDepths
<1>6. Gone(l, n) \subseteq Message
  BY <1>1, <1>3, RangeOfSeq
<1> QED
  BY <1>3, <1>4, <1>5, <1>6 DEF Cut

\* What a break leaves: the reader and a part of the frames pass to the dead
\* stream, and the other frames are lost.
LEMMA BreakParts ==
    ASSUME TypeOK, NEW l \in Link, Break(l)
    PROVE  /\ flow' \in [Stream -> Seq(Message)]
           /\ reader' \in [Stream -> Reading \union {NoMsg}]
           /\ lost \subseteq lost' /\ lost' \subseteq Message
           /\ \A s \in Stream : Len(flow'[s]) <= QueueDepth + WireDepth
           /\ \A s \in Stream : s[1] # l => flow'[s] = flow[s] /\ reader'[s] = reader[s]
           /\ flow'[Live(l)] = <<>> /\ reader'[Live(l)] = NoMsg
           /\ Range(flow'[Dying(l)]) \subseteq Range(flow[Live(l)])
           /\ Range(flow[Live(l)]) \subseteq Range(flow'[Dying(l)]) \union lost'
           /\ reader'[Dying(l)] = reader[Live(l)]
           /\ flow[Dying(l)] = <<>> /\ reader[Dying(l)] = NoMsg
<1>1. PICK n \in 0 .. WireDepth :
        /\ Cut(l, n)
        /\ flow' = [flow EXCEPT ![Live(l)] = <<>>, ![Dying(l)] = Found(l, n)]
        /\ lost' = lost \union Gone(l, n)
  BY DEF Break, Found, Gone
<1>2. reader' = [reader EXCEPT ![Live(l)] = NoMsg, ![Dying(l)] = reader[Live(l)]]
  BY DEF Break
<1>3. /\ Found(l, n) \in Seq(Message) /\ Len(Found(l, n)) <= QueueDepth + WireDepth
      /\ Range(flow[Live(l)]) = Range(Found(l, n)) \union Gone(l, n)
      /\ Gone(l, n) \subseteq Message
      /\ flow[Dying(l)] = <<>> /\ reader[Dying(l)] = NoMsg
  BY <1>1, CutPieces
<1>4. /\ flow \in [Stream -> Seq(Message)] /\ reader \in [Stream -> Reading \union {NoMsg}]
      /\ lost \subseteq Message
      /\ \A s \in Stream : Len(flow[s]) <= QueueDepth + WireDepth
  BY DEF TypeOK
<1>5. /\ Live(l) \in Stream /\ Dying(l) \in Stream /\ Live(l) # Dying(l)
      /\ \A s \in Stream : s[1] # l => s # Live(l) /\ s # Dying(l)
  BY Streams DEF Live, Dying
<1>6. <<>> \in Seq(Message) /\ Len(<<>>) <= QueueDepth + WireDepth
  BY FloodDepths, EmptySeq
<1>7. /\ \A s \in Stream : s[1] # l => flow'[s] = flow[s] /\ reader'[s] = reader[s]
      /\ flow'[Live(l)] = <<>> /\ flow'[Dying(l)] = Found(l, n)
      /\ reader'[Live(l)] = NoMsg /\ reader'[Dying(l)] = reader[Live(l)]
  BY <1>1, <1>2, <1>4, <1>5
<1>8. /\ flow' \in [Stream -> Seq(Message)]
      /\ reader' \in [Stream -> Reading \union {NoMsg}]
  BY <1>1, <1>2, <1>3, <1>4, <1>5, <1>6
<1>9. \A s \in Stream : Len(flow'[s]) <= QueueDepth + WireDepth
  <2> TAKE s \in Stream
  <2>1. flow'[s] \in {flow[s], <<>>, Found(l, n)}
    BY <1>1, <1>4, <1>5
  <2> QED
    BY <2>1, <1>3, <1>4, <1>6
<1> QED
  BY <1>1, <1>3, <1>4, <1>7, <1>8, <1>9
LEMMA HeldType == ASSUME TypeOK, NEW d \in Daemon PROVE Held(d) \subseteq Message
<1>1. outbox[d] \subseteq Message
  BY DEF TypeOK
<1>2. \A s \in Stream : Range(flow[s]) \subseteq Message
  BY RangeOfSeq DEF TypeOK
<1>3. \A s \in Stream : reader[s] # NoMsg => reader[s].msg \in Message
  BY DEF TypeOK, Reading
<1> DEFINE streams == {s \in Stream : Dst(s) = d}
           sent == UNION {Range(flow[s]) : s \in streams}
           read == {reader[s].msg : s \in {r \in streams : reader[r] # NoMsg}}
<1>4. sent \subseteq Message
  BY <1>2
<1>5. read \subseteq Message
  BY <1>3
<1>6. Held(d) = outbox[d] \union sent \union read
  BY Zenon DEF Held
<1> HIDE DEF sent, read
<1> QED
  BY <1>1, <1>4, <1>5, <1>6

\* What a restart leaves: on streams from the daemon what a break leaves, on
\* streams to it nothing, and what it held is lost.
LEMMA CrashParts ==
    ASSUME TypeOK, NEW d \in Daemon, Crash(d)
    PROVE  /\ flow' \in [Stream -> Seq(Message)]
           /\ reader' \in [Stream -> Reading \union {NoMsg}]
           /\ lost \union Held(d) \subseteq lost' /\ lost' \subseteq Message
           /\ \A s \in Stream : Len(flow'[s]) <= QueueDepth + WireDepth
           /\ \A s \in Stream :
                /\ d \notin {Src(s), Dst(s)} => flow'[s] = flow[s] /\ reader'[s] = reader[s]
                /\ Dst(s) = d => flow'[s] = <<>> /\ reader'[s] = NoMsg
           /\ \A l \in Link : From(l) = d =>
                /\ flow'[Live(l)] = <<>> /\ reader'[Live(l)] = NoMsg
                /\ Range(flow'[Dying(l)]) \subseteq Range(flow[Live(l)])
                /\ Range(flow[Live(l)]) \subseteq Range(flow'[Dying(l)]) \union lost'
                /\ reader'[Dying(l)] = reader[Live(l)]
                /\ flow[Dying(l)] = <<>> /\ reader[Dying(l)] = NoMsg
<1> DEFINE outgoing == {l \in Link : From(l) = d}
<1>1. PICK keep \in [outgoing -> 0 .. WireDepth] :
        /\ \A l \in outgoing : Cut(l, keep[l])
        /\ flow' = [s \in Stream |->
                      IF d \notin {Src(s), Dst(s)} THEN flow[s]
                      ELSE IF Src(s) = d /\ s = Dying(s[1]) THEN Found(s[1], keep[s[1]])
                      ELSE <<>>]
        /\ lost' = lost \union Held(d) \union UNION {Gone(l, keep[l]) : l \in outgoing}
  BY DEF Crash, Found, Gone
<1>2. reader' = [s \in Stream |->
                   IF Src(s) = d THEN (IF s = Dying(s[1]) THEN reader[Live(s[1])] ELSE NoMsg)
                   ELSE IF Dst(s) = d THEN NoMsg ELSE reader[s]]
  BY DEF Crash
<1>3. ASSUME NEW l \in Link, From(l) = d
      PROVE  /\ Found(l, keep[l]) \in Seq(Message)
             /\ Len(Found(l, keep[l])) <= QueueDepth + WireDepth
             /\ Range(flow[Live(l)]) = Range(Found(l, keep[l])) \union Gone(l, keep[l])
             /\ Gone(l, keep[l]) \subseteq Message
             /\ flow[Dying(l)] = <<>> /\ reader[Dying(l)] = NoMsg
  <2>1. PICK n \in 0 .. WireDepth : n = keep[l] /\ Cut(l, n)
    BY <1>1, <1>3
  <2>2. /\ Found(l, n) \in Seq(Message) /\ Len(Found(l, n)) <= QueueDepth + WireDepth
        /\ Range(flow[Live(l)]) = Range(Found(l, n)) \union Gone(l, n)
        /\ Gone(l, n) \subseteq Message
        /\ flow[Dying(l)] = <<>> /\ reader[Dying(l)] = NoMsg
    BY <2>1, CutPieces
  <2> QED
    BY <2>1, <2>2
<1>4. /\ flow \in [Stream -> Seq(Message)] /\ reader \in [Stream -> Reading \union {NoMsg}]
      /\ lost \subseteq Message
      /\ \A s \in Stream : Len(flow[s]) <= QueueDepth + WireDepth
  BY DEF TypeOK
<1>5. <<>> \in Seq(Message) /\ Len(<<>>) <= QueueDepth + WireDepth
  BY FloodDepths, EmptySeq
<1>6. ASSUME NEW s \in Stream
      PROVE  /\ flow'[s] \in Seq(Message) /\ Len(flow'[s]) <= QueueDepth + WireDepth
             /\ reader'[s] \in Reading \union {NoMsg}
             /\ d \notin {Src(s), Dst(s)} => flow'[s] = flow[s] /\ reader'[s] = reader[s]
             /\ Dst(s) = d => flow'[s] = <<>> /\ reader'[s] = NoMsg
  <2>1. /\ s[1] \in Link /\ Src(s) = From(s[1]) /\ Src(s) # Dst(s)
        /\ Live(s[1]) \in Stream
    BY StreamLink, Streams
  <2>2. \/ flow'[s] \in {flow[s], <<>>}
        \/ Src(s) = d /\ flow'[s] = Found(s[1], keep[s[1]])
    BY <1>1
  <2>3. flow'[s] \in Seq(Message) /\ Len(flow'[s]) <= QueueDepth + WireDepth
    BY <1>3, <1>4, <1>5, <2>1, <2>2
  <2>4. reader'[s] \in Reading \union {NoMsg}
    BY <1>2, <1>4, <2>1
  <2>5. d \notin {Src(s), Dst(s)} => flow'[s] = flow[s] /\ reader'[s] = reader[s]
    BY <1>1, <1>2
  <2>6. Dst(s) = d => flow'[s] = <<>> /\ reader'[s] = NoMsg
    BY <1>1, <1>2, <2>1
  <2> QED
    BY <2>3, <2>4, <2>5, <2>6
<1>7. ASSUME NEW l \in Link, From(l) = d
      PROVE  /\ flow'[Live(l)] = <<>> /\ reader'[Live(l)] = NoMsg
             /\ flow'[Dying(l)] = Found(l, keep[l]) /\ reader'[Dying(l)] = reader[Live(l)]
  <2>1. /\ Live(l) \in Stream /\ Dying(l) \in Stream /\ Live(l) # Dying(l)
        /\ Src(Live(l)) = d /\ Src(Dying(l)) = d /\ Live(l)[1] = l /\ Dying(l)[1] = l
    BY <1>7, Streams DEF Live, Dying
  <2>2. flow'[Live(l)] = <<>> /\ flow'[Dying(l)] = Found(l, keep[l])
    BY <1>1, <2>1
  <2>3. reader'[Live(l)] = NoMsg /\ reader'[Dying(l)] = reader[Live(l)]
    BY <1>2, <2>1
  <2> QED
    BY <2>2, <2>3
<1>8. flow' \in [Stream -> Seq(Message)] /\ reader' \in [Stream -> Reading \union {NoMsg}]
  BY <1>1, <1>2, <1>6
<1>9. lost \union Held(d) \subseteq lost' /\ lost' \subseteq Message
  BY <1>1, <1>3, <1>4, HeldType
<1>10. ASSUME NEW l \in Link, From(l) = d
       PROVE  Range(flow[Live(l)]) \subseteq Range(flow'[Dying(l)]) \union lost'
  <2>1. Gone(l, keep[l]) \subseteq lost'
    BY <1>1, <1>10
  <2> QED
    BY <1>3, <1>7, <1>10, <2>1
<1> QED
  BY <1>3, <1>6, <1>7, <1>8, <1>9, <1>10
\* A message given a number by the running daemon was not published before.
LEMMA PublishNew ==
    ASSUME TypeInv, NEW d \in Daemon, NEW size \in Sizes[d], Publish(d, size),
           NEW m, m = [origin |-> d, n |-> seq[d], life |-> life[d], size |-> size]
    PROVE  /\ m \in Message /\ m \notin published /\ published' = published \union {m}
           /\ Id(m) = <<d, seq[d]>>
           /\ Insert(d, Id(m)) /\ FanOut(d, m)
           /\ outbox' = [outbox EXCEPT ![d] = @ \union {m}]
<1>1. /\ seq \in [Daemon -> Nat \ {0}] /\ life \in [Daemon -> Nat] /\ failures \in Nat
  BY DEF TypeInv, TypeOK
<1>2. /\ IsFiniteSet(published) /\ seq[d] <= Cardinality(published) + 1
      /\ life[d] <= failures /\ failures <= MaxFailures
  BY DEF TypeInv, Numbered
<1>3. Cardinality(published) \in Nat /\ Cardinality(published) < MaxMsgs
  BY <1>2, FS_CardinalityType DEF Publish
<1>4. seq[d] \in 1 .. MaxMsgs
  BY <1>1, <1>2, <1>3, FloodBounds
<1>5. life[d] \in 0 .. MaxFailures
  BY <1>1, <1>2, FloodBounds
<1>6. size \in UNION {Sizes[e] : e \in Daemon}
  OBVIOUS
<1>7. m \in Message
  BY <1>4, <1>5, <1>6 DEF Message
<1>8. m \notin published
  <2>1. m.life = life[d] /\ m.origin = d /\ m.n = seq[d]
    OBVIOUS
  <2>2. ~ (seq[d] < seq[d])
    BY <1>1
  <2> QED
    BY <2>1, <2>2 DEF TypeInv, Numbered
<1>9. Id(m) = <<d, seq[d]>>
  BY DEF Id
<1> QED
  BY <1>7, <1>8, <1>9 DEF Publish, InsertOwn

LEMMA FanOutType ==
    ASSUME TypeOK, NEW d \in Daemon, NEW m \in Message, FanOut(d, m)
    PROVE  {got', again', reached'} \subseteq [Daemon -> SUBSET Message]
<1>1. got' \in [Daemon -> SUBSET Message]
  BY DEF TypeOK, FanOut
<1>2. again' \in [Daemon -> SUBSET Message]
  BY DEF TypeOK, FanOut
<1>3. reached' \in [Daemon -> SUBSET Message]
  BY DEF TypeOK, FanOut
<1> QED
  BY <1>1, <1>2, <1>3

\* What a reader has in hand or finds next.
LEMMA ReaderMessage ==
    ASSUME TypeOK, NEW s \in Stream
    PROVE  /\ reader[s] # NoMsg => reader[s] \in Reading /\ reader[s].msg \in Message
           /\ flow[s] # <<>> => /\ Head(flow[s]) \in Message /\ Tail(flow[s]) \in Seq(Message)
                                /\ Len(Tail(flow[s])) <= QueueDepth + WireDepth
                                /\ Range(flow[s]) = {Head(flow[s])} \union Range(Tail(flow[s]))
<1>1. reader[s] \in Reading \union {NoMsg} /\ flow[s] \in Seq(Message)
      /\ Len(flow[s]) <= QueueDepth + WireDepth
  BY DEF TypeOK
<1>2. reader[s] # NoMsg => reader[s] \in Reading /\ reader[s].msg \in Message
  BY <1>1 DEF Reading
<1>3. ASSUME flow[s] # <<>>
      PROVE  /\ Head(flow[s]) \in Message /\ Tail(flow[s]) \in Seq(Message)
             /\ Len(Tail(flow[s])) = Len(flow[s]) - 1 /\ Len(flow[s]) \in Nat
             /\ Range(flow[s]) = {Head(flow[s])} \union Range(Tail(flow[s]))
  BY <1>1, <1>3, RangeHeadTail, HeadTailProperties, LenProperties
<1> QED
  BY <1>1, <1>2, <1>3, FloodDepths

LEMMA TypeStep == ASSUME TypeInv, [Next]_vars PROVE TypeOK'
<1> TypeOK
  BY DEF TypeInv
<1>1. ASSUME NEW d \in Daemon, NEW size \in Sizes[d], Publish(d, size) PROVE TypeOK'
  <2>1. PICK m \in Message :
          /\ Id(m) \in Ids /\ Insert(d, Id(m)) /\ FanOut(d, m)
          /\ published' = published \union {m}
          /\ outbox' = [outbox EXCEPT ![d] = @ \union {m}]
    BY <1>1, PublishNew, MessageParts
  <2>2. /\ seen' \in [Daemon -> Seq(Ids)] /\ evicted' \in [Daemon -> SUBSET Ids]
        /\ \A e \in Daemon : Len(seen'[e]) <= SeenCap /\ IsInjective(seen'[e])
    BY <2>1, InsertType
  <2>3. {got', again', reached'} \subseteq [Daemon -> SUBSET Message]
    BY <2>1, FanOutType
  <2>4. /\ outbox' \in [Daemon -> SUBSET Message] /\ published' \in SUBSET Message
        /\ seq' \in [Daemon -> Nat \ {0}]
    BY <1>1, <2>1 DEF TypeOK, Publish
  <2>5. UNCHANGED <<up, flow, reader, life, failures, lost>>
    BY <1>1 DEF Publish, linkVars, failVars
  <2> QED
    BY <2>2, <2>3, <2>4, <2>5 DEF TypeOK
<1>2. ASSUME NEW d \in Daemon, ForwardLocal(d) PROVE TypeOK'
  <2>1. PICK m \in outbox[d] : Send(d, d, m) /\ outbox' = [outbox EXCEPT ![d] = @ \ {m}]
    BY <1>2 DEF ForwardLocal
  <2>2. m \in Message
    BY DEF TypeOK
  <2>3. /\ flow' \in [Stream -> Seq(Message)] /\ lost' \in {lost, lost \union {m}}
        /\ \A s \in Stream : Len(flow'[s]) <= QueueDepth + WireDepth
    BY <2>1, <2>2, SendFlow
  <2>4. outbox' \in [Daemon -> SUBSET Message] /\ lost' \in SUBSET Message
    BY <2>1, <2>2, <2>3 DEF TypeOK
  <2>5. UNCHANGED <<seq, seen, up, reader, got, again, reached, life, failures, published, evicted>>
    BY <1>2 DEF ForwardLocal, seenHist, failVars
  <2> QED
    BY <2>3, <2>4, <2>5 DEF TypeOK
<1>3. ASSUME NEW s \in Stream, flow[s] # <<>>, flow' = [flow EXCEPT ![s] = Tail(@)]
      PROVE  /\ flow' \in [Stream -> Seq(Message)]
             /\ \A t \in Stream : Len(flow'[t]) <= QueueDepth + WireDepth
  BY <1>3, ReaderMessage DEF TypeOK
<1>4. ASSUME NEW s \in Stream, ReadOversize(s) PROVE TypeOK'
  BY <1>3, <1>4 DEF TypeOK, ReadOversize, nodeVars, seenHist, failVars
<1>5. ASSUME NEW s \in Stream, ReadFeed(s) PROVE TypeOK'
  <2>1. Head(flow[s]) \in Message /\ flow[s] # <<>> /\ Dst(s) \in Daemon
    BY <1>5, ReaderMessage, StreamLink DEF ReadFeed
  <2>2. /\ seen' \in [Daemon -> Seq(Ids)] /\ evicted' \in [Daemon -> SUBSET Ids]
        /\ \A e \in Daemon : Len(seen'[e]) <= SeenCap /\ IsInjective(seen'[e])
    BY <1>5, <2>1, InsertType, MessageParts DEF ReadFeed
  <2>3. reader' \in [Stream -> Reading \union {NoMsg}]
    BY <1>5, <2>1 DEF ReadFeed, TypeOK, Reading
  <2>4. /\ flow' \in [Stream -> Seq(Message)]
        /\ \A t \in Stream : Len(flow'[t]) <= QueueDepth + WireDepth
    BY <1>3, <1>5, <2>1 DEF ReadFeed
  <2>5. UNCHANGED <<seq, outbox, up, got, again, reached, life, failures, published, lost>>
    BY <1>5 DEF ReadFeed, seenHist, failVars
  <2> QED
    BY <2>2, <2>3, <2>4, <2>5 DEF TypeOK
<1>6. ASSUME NEW s \in Stream, Ingest(s) PROVE TypeOK'
  <2>1. reader[s].msg \in Message /\ reader[s] \in Reading /\ Dst(s) \in Daemon
    BY <1>6, ReaderMessage, StreamLink DEF Ingest
  <2>2. {got', again', reached'} \subseteq [Daemon -> SUBSET Message]
    BY <1>6, <2>1, FanOutType DEF Ingest
  <2>3. reader' \in [Stream -> Reading \union {NoMsg}]
    BY <1>6, <2>1 DEF Ingest, TypeOK, Reading
  <2> QED
    BY <1>6, <2>2, <2>3 DEF Ingest, TypeOK, nodeVars, failVars
<1>7. ASSUME NEW s \in Stream, PassOn(s) PROVE TypeOK'
  <2>1. reader[s].msg \in Message /\ Dst(s) \in Daemon
    BY <1>7, ReaderMessage, StreamLink DEF PassOn
  <2>2. /\ flow' \in [Stream -> Seq(Message)] /\ lost' \in {lost, lost \union {reader[s].msg}}
        /\ \A t \in Stream : Len(flow'[t]) <= QueueDepth + WireDepth
    BY <1>7, <2>1, SendFlow DEF PassOn
  <2>3. reader' \in [Stream -> Reading \union {NoMsg}]
    BY <1>7 DEF PassOn, TypeOK
  <2> QED
    BY <1>7, <2>1, <2>2, <2>3 DEF PassOn, TypeOK, nodeVars, seenHist, failVars
<1>8. ASSUME NEW l \in Link, Connect(l) PROVE TypeOK'
  BY <1>8 DEF Connect, TypeOK, nodeVars, seenHist, failVars
<1>9. ASSUME NEW l \in Link, Break(l) PROVE TypeOK'
  <2>1. /\ flow' \in [Stream -> Seq(Message)] /\ lost' \in SUBSET Message
        /\ reader' \in [Stream -> Reading \union {NoMsg}]
        /\ \A s \in Stream : Len(flow'[s]) <= QueueDepth + WireDepth
    BY <1>9, BreakParts
  <2>2. /\ up' = [up EXCEPT ![l] = FALSE] /\ failures' = failures + 1
        /\ UNCHANGED <<seq, seen, outbox, got, again, reached, life, published, evicted>>
    BY <1>9 DEF Break, nodeVars, seenHist
  <2> QED
    BY <2>1, <2>2 DEF TypeOK
<1>10. ASSUME NEW d \in Daemon, Crash(d) PROVE TypeOK'
  <2>1. /\ flow' \in [Stream -> Seq(Message)] /\ lost' \in SUBSET Message
        /\ reader' \in [Stream -> Reading \union {NoMsg}]
        /\ \A s \in Stream : Len(flow'[s]) <= QueueDepth + WireDepth
    BY <1>10, CrashParts
  <2>2. /\ seq' \in [Daemon -> Nat \ {0}] /\ outbox' \in [Daemon -> SUBSET Message]
        /\ {got', again', reached'} \subseteq [Daemon -> SUBSET Message]
        /\ up' \in [Link -> BOOLEAN] /\ evicted' \in [Daemon -> SUBSET Ids]
        /\ life' \in [Daemon -> Nat] /\ failures' \in Nat /\ published' \in SUBSET Message
    BY <1>10 DEF Crash, TypeOK
  <2>3. /\ seen' \in [Daemon -> Seq(Ids)]
        /\ \A e \in Daemon : Len(seen'[e]) <= SeenCap /\ IsInjective(seen'[e])
    <3>1. <<>> \in Seq(Ids) /\ Len(<<>>) <= SeenCap /\ IsInjective(<<>>)
      BY FloodDepths, EmptySeq DEF IsInjective
    <3> QED
      BY <1>10, <3>1 DEF Crash, TypeOK
  <2> QED
    BY <2>1, <2>2, <2>3 DEF TypeOK
<1>11. ASSUME UNCHANGED vars PROVE TypeOK'
  BY <1>11 DEF vars, nodeVars, linkVars, seenHist, failVars, TypeOK
<1> QED
  BY <1>1, <1>2, <1>4, <1>5, <1>6, <1>7, <1>8, <1>9, <1>10, <1>11 DEF Next, Reader
LEMMA NumberedStep == ASSUME TypeInv, [Next]_vars PROVE Numbered'
<1>1. /\ seq \in [Daemon -> Nat \ {0}] /\ life \in [Daemon -> Nat] /\ failures \in Nat
      /\ published \subseteq Message
  BY DEF TypeInv, TypeOK
<1>2. /\ IsFiniteSet(published) /\ Cardinality(published) \in Nat
      /\ \A d \in Daemon : seq[d] <= Cardinality(published) + 1
      /\ failures <= MaxFailures /\ \A d \in Daemon : life[d] <= failures
      /\ \A m \in published : /\ m.life <= life[m.origin]
                              /\ m.life = life[m.origin] => m.n < seq[m.origin]
  BY FS_CardinalityType DEF TypeInv, Numbered
<1>3. \A m \in published : m.origin \in Daemon /\ m.life \in Nat /\ m.n \in Nat
  BY <1>1, MessageParts, FloodBounds
<1>4. ASSUME NEW d \in Daemon, NEW size \in Sizes[d], Publish(d, size) PROVE Numbered'
  <2> DEFINE m == [origin |-> d, n |-> seq[d], life |-> life[d], size |-> size]
  <2>1. m \notin published /\ published' = published \union {m}
    BY <1>4, PublishNew
  <2>2. /\ IsFiniteSet(published') /\ Cardinality(published') = Cardinality(published) + 1
    BY <1>2, <2>1, FS_AddElement
  <2>3. /\ seq' = [seq EXCEPT ![d] = @ + 1] /\ UNCHANGED <<life, failures>>
    BY <1>4 DEF Publish, failVars
  <2>4. \A e \in Daemon : seq'[e] <= Cardinality(published') + 1
    BY <1>1, <1>2, <2>2, <2>3
  <2>5. ASSUME NEW k \in published'
        PROVE  /\ k.life <= life'[k.origin]
               /\ k.life = life'[k.origin] => k.n < seq'[k.origin]
    <3>1. CASE k \in published
      BY <1>1, <1>2, <1>3, <2>3, <3>1
    <3>2. CASE k = m
      BY <1>1, <2>3, <3>2
    <3> QED
      BY <2>1, <3>1, <3>2
  <2> QED
    BY <1>2, <2>2, <2>3, <2>4, <2>5 DEF Numbered
<1>5. ASSUME NEW d \in Daemon, Crash(d) PROVE Numbered'
  <2>1. /\ seq' = [seq EXCEPT ![d] = 1] /\ life' = [life EXCEPT ![d] = @ + 1]
        /\ failures' = failures + 1 /\ failures < MaxFailures /\ published' = published
    BY <1>5 DEF Crash
  <2>2. \A e \in Daemon : seq'[e] <= Cardinality(published') + 1
    BY <1>1, <1>2, <2>1
  <2>3. failures' <= MaxFailures /\ \A e \in Daemon : life'[e] <= failures'
    BY <1>1, <1>2, <2>1, FloodBounds
  <2>4. ASSUME NEW k \in published
        PROVE  /\ k.life <= life'[k.origin]
               /\ k.life = life'[k.origin] => k.n < seq'[k.origin]
    <3>1. CASE k.origin = d
      BY <1>1, <1>2, <1>3, <2>1, <3>1
    <3>2. CASE k.origin # d
      BY <1>2, <1>3, <2>1, <3>2
    <3> QED
      BY <3>1, <3>2
  <2> QED
    BY <1>2, <2>1, <2>2, <2>3, <2>4 DEF Numbered
<1>6. ASSUME NEW l \in Link, Break(l) PROVE Numbered'
  <2>1. failures' = failures + 1 /\ failures < MaxFailures /\ UNCHANGED <<seq, life, published>>
    BY <1>6 DEF Break, nodeVars
  <2>2. failures' <= MaxFailures /\ \A e \in Daemon : life[e] <= failures'
    BY <1>1, <1>2, <2>1, FloodBounds
  <2> QED
    BY <1>2, <2>1, <2>2 DEF Numbered
<1>7. ASSUME UNCHANGED <<seq, life, failures, published>> PROVE Numbered'
  BY <1>7 DEF TypeInv, Numbered
<1>8. ASSUME NEW d \in Daemon, ForwardLocal(d) PROVE Numbered'
  BY <1>7, <1>8 DEF ForwardLocal, failVars
<1>9. ASSUME NEW s \in Stream, Reader(s) PROVE Numbered'
  BY <1>7, <1>9 DEF Reader, ReadOversize, ReadFeed, Ingest, PassOn, nodeVars, failVars
<1>10. ASSUME NEW l \in Link, Connect(l) PROVE Numbered'
  BY <1>7, <1>10 DEF Connect, nodeVars, failVars
<1>11. ASSUME UNCHANGED vars PROVE Numbered'
  BY <1>7, <1>11 DEF vars, nodeVars, failVars
<1> QED
  BY <1>4, <1>5, <1>6, <1>8, <1>9, <1>10, <1>11 DEF Next

LEMMA TypeInvariant == Spec => []TypeInv
<1>1. TypeInv /\ [Next]_vars => TypeInv'
  BY TypeStep, NumberedStep DEF TypeInv
<1> QED
  BY TypeInvInit, <1>1, PTL DEF Spec

\* Every variable keeps its type in every cluster: in particular a seen-set has
\* no id twice and no more than seen_capacity of them, and no stream holds more
\* than its channel and its buffers do (SeenSet::insert, PEER_QUEUE_DEPTH).
THEOREM TypeCorrect == Spec => []TypeOK
<1>1. TypeInv => TypeOK
  BY DEF TypeInv
<1> QED
  BY TypeInvariant, <1>1, PTL
-----------------------------------------------------------------------------
(* No message is fanned out twice by one run of a daemon.                  *)

\* Where a reader is with the message it has.
At(s, m, where) == reader[s] # NoMsg /\ reader[s].msg = m /\ reader[s].at = where
Holds(s, m) == At(s, m, "new") \/ At(s, m, "fanned")

\* Every copy of a message is of one that was published.
CopiesPublished ==
    /\ \A d \in Daemon : outbox[d] \union got[d] \union reached[d] \subseteq published
    /\ \A s \in Stream : Range(flow[s]) \subseteq published
    /\ \A s \in Stream, m \in Message : Holds(s, m) => m \in published

\* The id was entered in the seen-set of the running daemon.
Recorded(d, id) == id \in Range(seen[d]) \union evicted[d]

\* What was fanned out, or is about to be, has its id entered first.
FirstRecorded ==
    /\ \A d \in Daemon : \A m \in got[d] : Recorded(d, Id(m))
    /\ \A s \in Stream, m \in Message : Holds(s, m) => Recorded(Dst(s), Id(m))

\* A reader that found its message new has a message that was not fanned out,
\* and no other reader of the daemon found one of that id new; unless the id
\* has left the seen-set.
NewIsNew ==
    /\ \A s \in Stream, m \in Message :
         At(s, m, "new") /\ m \in got[Dst(s)] => Id(m) \in evicted[Dst(s)]
    /\ \A s, t \in Stream, m \in Message :
         At(s, m, "new") /\ At(t, m, "new") /\ Dst(t) = Dst(s) /\ s # t
           => Id(m) \in evicted[Dst(s)]

OnceInv == TypeInv /\ CopiesPublished /\ FirstRecorded /\ NewIsNew /\ AtMostOnce

LEMMA OnceInvInit == Init => OnceInv
<1> SUFFICES ASSUME Init PROVE OnceInv
  OBVIOUS
<1>1. \A s \in Stream, m \in Message : ~ At(s, m, "new") /\ ~ Holds(s, m)
  BY DEF Init, Holds, At
<1>2. CopiesPublished /\ FirstRecorded /\ NewIsNew /\ AtMostOnce
  BY <1>1, RangeEmpty DEF Init, CopiesPublished, FirstRecorded, NewIsNew, AtMostOnce
<1> QED
  BY <1>2, TypeInvInit DEF OnceInv

\* An id that is entered stays recorded as long as the daemon runs.
LEMMA InsertRecords ==
    ASSUME TypeOK, NEW d \in Daemon, NEW id \in Ids, Insert(d, id)
    PROVE  /\ Recorded(d, id)'
           /\ \A e \in Daemon, x \in Ids : Recorded(e, x) => Recorded(e, x)'
           /\ \A e \in Daemon : evicted[e] \subseteq evicted'[e]
           /\ Range(seen'[d]) \subseteq Range(seen[d]) \union {id}
           /\ \A e \in Daemon : e # d => seen'[e] = seen[e] /\ evicted'[e] = evicted[e]
<1> DEFINE order == IF id \in Range(seen[d]) THEN seen[d] ELSE Append(seen[d], id)
<1>1. /\ seen \in [Daemon -> Seq(Ids)] /\ evicted \in [Daemon -> SUBSET Ids]
      /\ Len(seen[d]) <= SeenCap /\ IsInjective(seen[d])
  BY DEF TypeOK
<1>2. /\ seen' = [seen EXCEPT ![d] = Bounded(order)]
      /\ evicted' = [evicted EXCEPT ![d] = @ \union (Range(order) \ Range(Bounded(order)))]
  BY DEF Insert
<1>3. Range(order) = Range(seen[d]) \union {id} /\ Range(Bounded(order)) \subseteq Range(order)
  BY <1>1, InsertSeen
<1> HIDE DEF order
<1>4. /\ seen'[d] = Bounded(order)
      /\ evicted'[d] = evicted[d] \union (Range(order) \ Range(Bounded(order)))
      /\ \A e \in Daemon : e # d => seen'[e] = seen[e] /\ evicted'[e] = evicted[e]
  BY <1>1, <1>2
<1>5. Range(seen'[d]) \union evicted'[d] = Range(seen[d]) \union evicted[d] \union {id}
  BY <1>3, <1>4
<1>6. \A e \in Daemon, x \in Ids : Recorded(e, x) => Recorded(e, x)'
  <2> TAKE e \in Daemon, x \in Ids
  <2>1. CASE e = d
    BY <1>5, <2>1 DEF Recorded
  <2>2. CASE e # d
    BY <1>4, <2>2 DEF Recorded
  <2> QED
    BY <2>1, <2>2
<1>7. Recorded(d, id)'
  BY <1>5 DEF Recorded
<1> QED
  BY <1>3, <1>4, <1>6, <1>7

\* A break or a restart adds no copy of a message, moves a reader at most from
\* a stream to its successor, and leaves the daemons that run as they are.
LEMMA FailureSteps ==
    ASSUME TypeOK, \/ \E l \in Link : Break(l)
                   \/ \E d \in Daemon : Crash(d)
    PROVE  /\ \A s \in Stream :
                Range(flow'[s]) \subseteq Range(flow[s]) \union Range(flow[Live(s[1])])
           /\ \A s \in Stream : \E t \in Stream :
                /\ t[1] = s[1] /\ reader'[s] \in {NoMsg, reader[t]}
                /\ t # s => t = Live(s[1]) /\ reader'[t] = NoMsg
           /\ \A d \in Daemon :
                \/ UNCHANGED <<seen[d], evicted[d], got[d], again[d], outbox[d]>>
                \/ /\ seen'[d] = <<>> /\ evicted'[d] = {} /\ got'[d] = {} /\ again'[d] = {}
                   /\ outbox'[d] = {} /\ \A s \in Stream : Dst(s) = d => reader'[s] = NoMsg
           /\ UNCHANGED <<published, reached>>
<1> DEFINE Goal == /\ \A s \in Stream :
                        Range(flow'[s]) \subseteq Range(flow[s]) \union Range(flow[Live(s[1])])
                   /\ \A s \in Stream : \E t \in Stream :
                        /\ t[1] = s[1] /\ reader'[s] \in {NoMsg, reader[t]}
                        /\ t # s => t = Live(s[1]) /\ reader'[t] = NoMsg
<1>1. ASSUME NEW l \in Link, Break(l) PROVE Goal
  <2>1. ASSUME NEW s \in Stream, s[1] # l
        PROVE  /\ Range(flow'[s]) \subseteq Range(flow[s])
               /\ reader'[s] = reader[s]
    BY <1>1, <2>1, BreakParts
  <2>2. ASSUME NEW s \in Stream, s[1] = l
        PROVE  /\ Range(flow'[s]) \subseteq Range(flow[Live(l)])
               /\ \/ s = Live(l) /\ reader'[s] = NoMsg
                  \/ /\ s # Live(l) /\ Live(l) \in Stream /\ Live(l)[1] = l
                     /\ reader'[s] = reader[Live(l)] /\ reader'[Live(l)] = NoMsg
    BY <1>1, <2>2, BreakParts, StreamLink, Streams, RangeEmpty DEF Live
  <2> QED
    BY <2>1, <2>2
<1>2. ASSUME NEW d \in Daemon, Crash(d) PROVE Goal
  <2>1. ASSUME NEW s \in Stream, d \notin {Src(s), Dst(s)}
        PROVE  /\ Range(flow'[s]) \subseteq Range(flow[s])
               /\ reader'[s] = reader[s]
    BY <1>2, <2>1, CrashParts
  <2>2. ASSUME NEW s \in Stream, Dst(s) = d
        PROVE  /\ Range(flow'[s]) \subseteq Range(flow[s])
               /\ reader'[s] = NoMsg
    BY <1>2, <2>2, CrashParts, RangeEmpty
  <2>3. ASSUME NEW s \in Stream, Src(s) = d
        PROVE  /\ Range(flow'[s]) \subseteq Range(flow[Live(s[1])])
               /\ \/ s = Live(s[1]) /\ reader'[s] = NoMsg
                  \/ /\ s # Live(s[1]) /\ Live(s[1]) \in Stream /\ Live(s[1])[1] = s[1]
                     /\ reader'[s] = reader[Live(s[1])] /\ reader'[Live(s[1])] = NoMsg
    <3>1. s[1] \in Link /\ From(s[1]) = d /\ s \in {Live(s[1]), Dying(s[1])}
      BY <2>3, StreamLink
    <3>2. Live(s[1]) \in Stream /\ Live(s[1])[1] = s[1] /\ Live(s[1]) # Dying(s[1])
      BY <3>1, Streams DEF Live
    <3>3. /\ flow'[Live(s[1])] = <<>> /\ reader'[Live(s[1])] = NoMsg
          /\ Range(flow'[Dying(s[1])]) \subseteq Range(flow[Live(s[1])])
          /\ reader'[Dying(s[1])] = reader[Live(s[1])]
      BY <1>2, <3>1, CrashParts
    <3>4. CASE s = Live(s[1])
      BY <3>3, <3>4, RangeEmpty
    <3>5. CASE s = Dying(s[1])
      BY <3>2, <3>3, <3>5
    <3> QED
      BY <3>1, <3>4, <3>5
  <2> QED
    BY <2>1, <2>2, <2>3
<1>3. ASSUME NEW l \in Link, Break(l)
      PROVE  UNCHANGED <<seen, evicted, got, again, outbox, published, reached>>
  BY <1>3 DEF Break, nodeVars, seenHist
<1>4. ASSUME NEW d \in Daemon, Crash(d), NEW e \in Daemon
      PROVE  /\ UNCHANGED <<published, reached>>
             /\ \/ UNCHANGED <<seen[e], evicted[e], got[e], again[e], outbox[e]>>
                \/ /\ seen'[e] = <<>> /\ evicted'[e] = {} /\ got'[e] = {} /\ again'[e] = {}
                   /\ outbox'[e] = {} /\ \A s \in Stream : Dst(s) = e => reader'[s] = NoMsg
  <2>1. /\ seen' = [seen EXCEPT ![d] = <<>>] /\ evicted' = [evicted EXCEPT ![d] = {}]
        /\ got' = [got EXCEPT ![d] = {}] /\ again' = [again EXCEPT ![d] = {}]
        /\ outbox' = [outbox EXCEPT ![d] = {}] /\ UNCHANGED <<published, reached>>
    BY <1>4 DEF Crash
  <2>2. /\ d \in DOMAIN seen /\ d \in DOMAIN evicted /\ d \in DOMAIN got /\ d \in DOMAIN again
        /\ d \in DOMAIN outbox
    BY DEF TypeOK
  <2>3. \A s \in Stream : Dst(s) = d => reader'[s] = NoMsg
    BY <1>4, CrashParts
  <2>4. CASE e = d
    BY <2>1, <2>2, <2>3, <2>4
  <2>5. CASE e # d
    BY <2>1, <2>5
  <2> QED
    BY <2>4, <2>5
<1>5. Goal
  BY <1>1, <1>2
<1> HIDE DEF Goal
<1>6. Goal /\ UNCHANGED <<published, reached>>
  BY <1>3, <1>4, <1>5
<1> QED
  BY <1>3, <1>4, <1>6 DEF Goal
LEMMA CopiesStep == ASSUME TypeInv, CopiesPublished, [Next]_vars PROVE CopiesPublished'
<1> TypeOK
  BY DEF TypeInv
<1>1. ASSUME NEW d \in Daemon, NEW size \in Sizes[d], Publish(d, size) PROVE CopiesPublished'
  <2>1. PICK m \in Message : /\ FanOut(d, m) /\ published' = published \union {m}
                             /\ outbox' = [outbox EXCEPT ![d] = @ \union {m}]
    BY <1>1, PublishNew
  <2>2. UNCHANGED <<flow, reader>>
    BY <1>1 DEF Publish, linkVars
  <2>3. \A e \in Daemon : /\ outbox'[e] \subseteq outbox[e] \union {m}
                          /\ got'[e] \subseteq got[e] \union {m}
                          /\ reached'[e] \subseteq reached[e] \union {m}
    BY <2>1 DEF FanOut, TypeOK
  <2> QED
    BY <2>1, <2>2, <2>3 DEF CopiesPublished, Holds, At
<1>2. ASSUME NEW d \in Daemon, NEW e, NEW m \in published, Send(d, e, m), UNCHANGED published
      PROVE  \A s \in Stream : Range(flow'[s]) \subseteq published'
  BY <1>2, SendFlow DEF CopiesPublished, TypeOK
<1>3. ASSUME NEW d \in Daemon, ForwardLocal(d) PROVE CopiesPublished'
  <2>1. PICK m \in outbox[d] : Send(d, d, m) /\ outbox' = [outbox EXCEPT ![d] = @ \ {m}]
    BY <1>3 DEF ForwardLocal
  <2>2. UNCHANGED <<got, reached, published, reader>>
    BY <1>3 DEF ForwardLocal, seenHist
  <2>3. m \in published /\ \A f \in Daemon : outbox'[f] \subseteq outbox[f]
    BY <2>1 DEF CopiesPublished, TypeOK
  <2>4. \A s \in Stream : Range(flow'[s]) \subseteq published'
    BY <1>2, <2>1, <2>2, <2>3
  <2> QED
    BY <2>2, <2>3, <2>4 DEF CopiesPublished, Holds, At
<1>4. ASSUME NEW s \in Stream, flow[s] # <<>>, flow' = [flow EXCEPT ![s] = Tail(@)],
             UNCHANGED published
      PROVE  (\A t \in Stream : Range(flow'[t]) \subseteq published') /\ Head(flow[s]) \in published
  <2>1. Range(flow[s]) = {Head(flow[s])} \union Range(Tail(flow[s]))
    BY <1>4, ReaderMessage
  <2>2. ASSUME NEW t \in Stream PROVE Range(flow'[t]) \subseteq Range(flow[t])
    BY <1>4, <2>1 DEF TypeOK
  <2> QED
    BY <1>4, <2>1, <2>2 DEF CopiesPublished
<1>5. ASSUME NEW s \in Stream, ReadOversize(s) PROVE CopiesPublished'
  <2>1. UNCHANGED <<outbox, got, reached, published, reader>>
    BY <1>5 DEF ReadOversize, nodeVars, seenHist
  <2> QED
    BY <1>4, <1>5, <2>1 DEF ReadOversize, CopiesPublished, Holds, At
<1>6. ASSUME NEW s \in Stream, ReadFeed(s) PROVE CopiesPublished'
  <2>1. UNCHANGED <<outbox, got, reached, published>>
    BY <1>6 DEF ReadFeed, seenHist
  <2>2. (\A t \in Stream : Range(flow'[t]) \subseteq published') /\ Head(flow[s]) \in published
    BY <1>4, <1>6, <2>1 DEF ReadFeed
  <2>3. ASSUME NEW t \in Stream, NEW m \in Message, Holds(t, m)'
        PROVE  Holds(t, m) \/ m = Head(flow[s])
    BY <1>6, <2>3 DEF ReadFeed, TypeOK, Holds, At
  <2> QED
    BY <2>1, <2>2, <2>3 DEF CopiesPublished
<1>7. ASSUME NEW s \in Stream, Ingest(s) PROVE CopiesPublished'
  <2>1. UNCHANGED <<outbox, published, flow>>
    BY <1>7 DEF Ingest, nodeVars
  <2>2. PICK m \in Message : At(s, m, "new") /\ FanOut(Dst(s), m) /\ m \in published
    BY <1>7, ReaderMessage DEF Ingest, At, Holds, CopiesPublished
  <2>3. ASSUME NEW t \in Stream, NEW k \in Message, Holds(t, k)' PROVE Holds(t, k)
    BY <1>7, <2>3 DEF Ingest, TypeOK, Reading, Holds, At
  <2>4. \A e \in Daemon : got'[e] \subseteq got[e] \union {m} /\ reached'[e] \subseteq reached[e] \union {m}
    BY <2>2 DEF FanOut, TypeOK
  <2> QED
    BY <2>1, <2>2, <2>3, <2>4 DEF CopiesPublished
<1>8. ASSUME NEW s \in Stream, PassOn(s) PROVE CopiesPublished'
  <2>1. UNCHANGED <<outbox, got, reached, published>>
    BY <1>8 DEF PassOn, nodeVars, seenHist
  <2>2. /\ reader[s].msg \in published /\ Dst(s) \in Daemon
        /\ Send(Dst(s), Src(s), reader[s].msg) /\ reader' = [reader EXCEPT ![s] = NoMsg]
    BY <1>8, ReaderMessage, StreamLink DEF PassOn, CopiesPublished, Holds, At
  <2>3. \A t \in Stream : Range(flow'[t]) \subseteq published'
    BY <1>2, <2>1, <2>2
  <2>4. ASSUME NEW t \in Stream, NEW k \in Message, Holds(t, k)' PROVE Holds(t, k)
    BY <2>2, <2>4 DEF TypeOK, Holds, At
  <2> QED
    BY <2>1, <2>3, <2>4 DEF CopiesPublished
<1>9. ASSUME \/ \E l \in Link : Break(l)
             \/ \E d \in Daemon : Crash(d)
      PROVE  CopiesPublished'
  <2>1. /\ \A s \in Stream :
             Range(flow'[s]) \subseteq Range(flow[s]) \union Range(flow[Live(s[1])])
        /\ \A s \in Stream : \E t \in Stream : reader'[s] \in {NoMsg, reader[t]}
        /\ \A d \in Daemon : outbox'[d] \subseteq outbox[d] /\ got'[d] \subseteq got[d]
        /\ UNCHANGED <<published, reached>>
    BY <1>9, FailureSteps
  <2>2. \A s \in Stream : Range(flow'[s]) \subseteq published'
    BY <2>1, StreamLink, Streams DEF CopiesPublished
  <2>3. ASSUME NEW s \in Stream, NEW m \in Message, Holds(s, m)' PROVE m \in published'
    BY <2>1, <2>3 DEF CopiesPublished, Holds, At
  <2> QED
    BY <2>1, <2>2, <2>3 DEF CopiesPublished
<1>10. ASSUME UNCHANGED <<outbox, got, reached, published, flow, reader>> PROVE CopiesPublished'
  BY <1>10 DEF CopiesPublished, Holds, At
<1>11. ASSUME NEW l \in Link, Connect(l) PROVE CopiesPublished'
  BY <1>10, <1>11 DEF Connect, nodeVars, seenHist
<1>12. ASSUME UNCHANGED vars PROVE CopiesPublished'
  BY <1>10, <1>12 DEF vars, nodeVars, linkVars, seenHist
<1> QED
  BY <1>1, <1>3, <1>5, <1>6, <1>7, <1>8, <1>9, <1>11, <1>12 DEF Next, Reader
Once == FirstRecorded /\ NewIsNew /\ AtMostOnce

\* A step in which readers keep or drop what they have, no daemon fans anything
\* out, and no id is forgotten.
LEMMA OnceKept ==
    ASSUME TypeInv, TypeOK', Once, UNCHANGED <<got, again>>,
           \A s \in Stream, m \in Message : /\ Holds(s, m)' => Holds(s, m)
                                            /\ At(s, m, "new")' => At(s, m, "new"),
           \A d \in Daemon, id \in Ids : Recorded(d, id) => Recorded(d, id)',
           \A d \in Daemon : evicted[d] \subseteq evicted'[d]
    PROVE  Once'
<1>1. \A s \in Stream : Dst(s) \in Daemon
  BY StreamLink
<1>2. \A d \in Daemon : \A m \in got[d] \union again[d] : Id(m) \in Ids
  BY MessageParts DEF TypeInv, TypeOK
<1>3. FirstRecorded'
  BY <1>1, <1>2, MessageParts DEF Once, FirstRecorded
<1>4. NewIsNew'
  BY <1>1 DEF Once, NewIsNew
<1>5. AtMostOnce'
  BY DEF Once, AtMostOnce
<1> QED
  BY <1>3, <1>4, <1>5 DEF Once

LEMMA OnceStep ==
    ASSUME TypeInv, TypeOK', CopiesPublished, Once, [Next]_vars
    PROVE  Once'
<1> TypeOK
  BY DEF TypeInv
<1> \A s \in Stream : Dst(s) \in Daemon
  BY StreamLink
<1>1. ASSUME NEW d \in Daemon, NEW size \in Sizes[d], Publish(d, size) PROVE Once'
  <2>1. PICK m \in Message : /\ FanOut(d, m) /\ m \notin published
                             /\ Id(m) \in Ids /\ Insert(d, Id(m))
    BY <1>1, PublishNew, MessageParts
  <2>2. reader' = reader
    BY <1>1 DEF Publish, linkVars
  <2>3. /\ Recorded(d, Id(m))' /\ \A e \in Daemon : evicted[e] \subseteq evicted'[e]
        /\ \A e \in Daemon, x \in Ids : Recorded(e, x) => Recorded(e, x)'
    BY <2>1, InsertRecords
  <2>4. /\ \A e \in Daemon : e # d => got'[e] = got[e]
        /\ got'[d] = got[d] \union {m} /\ again' = again
    BY <2>1 DEF FanOut, TypeOK, CopiesPublished
  <2>5. \A s \in Stream : ~ Holds(s, m)
    BY <2>1 DEF CopiesPublished
  <2>6. \A e \in Daemon : got[e] \subseteq Message
    BY DEF TypeOK
  <2>7. FirstRecorded'
    <3>1. \A e \in Daemon : \A k \in got'[e] : Recorded(e, Id(k))'
      BY <2>3, <2>4, <2>6, MessageParts DEF Once, FirstRecorded
    <3>2. \A s \in Stream, k \in Message : Holds(s, k)' => Recorded(Dst(s), Id(k))'
      BY <2>2, <2>3, MessageParts DEF Once, FirstRecorded, Holds, At
    <3> QED
      BY <3>1, <3>2 DEF FirstRecorded
  <2>8. NewIsNew'
    <3>1. ASSUME NEW s \in Stream, NEW k \in Message, At(s, k, "new")', k \in got'[Dst(s)]
          PROVE  Id(k) \in evicted'[Dst(s)]
      <4>1. At(s, k, "new") /\ k # m
        BY <2>2, <2>5, <3>1 DEF At, Holds
      <4>2. k \in got[Dst(s)]
        BY <2>4, <3>1, <4>1
      <4> QED
        BY <2>3, <4>1, <4>2 DEF Once, NewIsNew
    <3>2. \A s, t \in Stream, k \in Message :
            At(s, k, "new")' /\ At(t, k, "new")' /\ Dst(t) = Dst(s) /\ s # t
              => Id(k) \in evicted'[Dst(s)]
      BY <2>2, <2>3 DEF Once, NewIsNew, At
    <3> QED
      BY <3>1, <3>2 DEF NewIsNew
  <2>9. AtMostOnce'
    BY <2>3, <2>4 DEF Once, AtMostOnce
  <2> QED
    BY <2>7, <2>8, <2>9 DEF Once
<1>2. ASSUME UNCHANGED <<got, again, reader, seen, evicted>> PROVE Once'
  BY <1>2, OnceKept DEF Holds, At, Recorded
<1>3. ASSUME NEW d \in Daemon, ForwardLocal(d) PROVE Once'
  BY <1>2, <1>3 DEF ForwardLocal, seenHist
<1>4. ASSUME NEW s \in Stream, ReadOversize(s) PROVE Once'
  BY <1>2, <1>4 DEF ReadOversize, nodeVars, seenHist
<1>5. ASSUME NEW s \in Stream, ReadFeed(s) PROVE Once'
  <2>1. PICK m \in Message, d \in Daemon : Id(m) \in Ids /\ m = Head(flow[s]) /\ d = Dst(s)
    BY <1>5, ReaderMessage, MessageParts DEF ReadFeed
  <2>2. /\ Insert(d, Id(m)) /\ reader[s] = NoMsg /\ UNCHANGED <<got, again>>
        /\ reader' = [reader EXCEPT ![s] = IF New(d, Id(m)) THEN [msg |-> m, at |-> "new"] ELSE NoMsg]
    BY <1>5, <2>1 DEF ReadFeed, seenHist
  <2>3. /\ Recorded(d, Id(m))' /\ \A e \in Daemon : evicted[e] \subseteq evicted'[e]
        /\ \A e \in Daemon, x \in Ids : Recorded(e, x) => Recorded(e, x)'
    BY <2>1, <2>2, InsertRecords
  <2>4. ASSUME NEW t \in Stream, t # s, NEW k \in Message
        PROVE  (Holds(t, k)' <=> Holds(t, k)) /\ (At(t, k, "new")' <=> At(t, k, "new"))
    BY <2>2, <2>4 DEF TypeOK, Holds, At
  <2>5. ASSUME NEW k \in Message, Holds(s, k)' PROVE k = m /\ New(d, Id(m))
    BY <2>2, <2>5 DEF TypeOK, Holds, At
  <2>6. New(d, Id(m)) /\ Recorded(d, Id(m)) => Id(m) \in evicted'[d]
    BY <2>1, <2>3 DEF New, Recorded
  <2>7. \A e \in Daemon : got[e] \subseteq Message
    BY DEF TypeOK
  <2>8. FirstRecorded'
    <3>1. \A e \in Daemon : \A k \in got'[e] : Recorded(e, Id(k))'
      BY <2>2, <2>3, <2>7, MessageParts DEF Once, FirstRecorded
    <3>2. ASSUME NEW t \in Stream, NEW k \in Message, Holds(t, k)' PROVE Recorded(Dst(t), Id(k))'
      <4>1. CASE t = s
        BY <2>1, <2>3, <2>5, <3>2, <4>1
      <4>2. CASE t # s
        BY <2>3, <2>4, <3>2, <4>2, MessageParts DEF Once, FirstRecorded
      <4> QED
        BY <4>1, <4>2
    <3> QED
      BY <3>1, <3>2 DEF FirstRecorded
  <2>9. NewIsNew'
    <3>1. ASSUME NEW t \in Stream, NEW k \in Message, At(t, k, "new")', k \in got'[Dst(t)]
          PROVE  Id(k) \in evicted'[Dst(t)]
      <4>1. CASE t = s
        <5>1. k = m /\ New(d, Id(m)) /\ Dst(t) = d
          BY <2>1, <2>5, <3>1, <4>1 DEF Holds
        <5>2. Recorded(d, Id(m))
          BY <2>1, <2>2, <3>1, <5>1 DEF Once, FirstRecorded
        <5> QED
          BY <2>6, <5>1, <5>2
      <4>2. CASE t # s
        BY <2>2, <2>3, <2>4, <3>1, <4>2 DEF Once, NewIsNew
      <4> QED
        BY <4>1, <4>2
    <3>2. ASSUME NEW t \in Stream, NEW u \in Stream, NEW k \in Message,
                 At(t, k, "new")', At(u, k, "new")', Dst(u) = Dst(t), t # u
          PROVE  Id(k) \in evicted'[Dst(t)]
      <4>1. CASE t # s /\ u # s
        BY <2>3, <2>4, <3>2, <4>1 DEF Once, NewIsNew
      <4>2. ASSUME NEW v \in {t, u}, NEW w \in {t, u}, v = s, w # s
            PROVE  Id(k) \in evicted'[Dst(t)]
        <5>1. k = m /\ New(d, Id(m)) /\ Dst(t) = d /\ Dst(w) = d
          BY <2>1, <2>5, <3>2, <4>2 DEF Holds
        <5>2. Holds(w, k)
          BY <2>4, <3>2, <4>2 DEF Holds
        <5>3. Recorded(d, Id(m))
          BY <5>1, <5>2 DEF Once, FirstRecorded
        <5> QED
          BY <2>6, <5>1, <5>3
      <4> QED
        BY <3>2, <4>1, <4>2
    <3> QED
      BY <3>1, <3>2 DEF NewIsNew
  <2>10. AtMostOnce'
    BY <2>2, <2>3 DEF Once, AtMostOnce
  <2> QED
    BY <2>8, <2>9, <2>10 DEF Once
<1>6. ASSUME NEW s \in Stream, Ingest(s) PROVE Once'
  <2>1. PICK m \in Message : At(s, m, "new") /\ FanOut(Dst(s), m)
    BY <1>6, ReaderMessage DEF Ingest, At
  <2>2. /\ UNCHANGED <<seen, evicted>> /\ reader' = [reader EXCEPT ![s].at = "fanned"]
        /\ reader[s] \in Reading /\ [reader[s] EXCEPT !.at = "fanned"] \in Reading
    BY <1>6, ReaderMessage DEF Ingest, nodeVars, Reading
  <2>3. \A k \in Message : ~ At(s, k, "new")' /\ (Holds(s, k)' => k = m)
    BY <2>1, <2>2 DEF TypeOK, Reading, Holds, At
  <2>4. ASSUME NEW t \in Stream, t # s, NEW k \in Message
        PROVE  (Holds(t, k)' <=> Holds(t, k)) /\ (At(t, k, "new")' <=> At(t, k, "new"))
    BY <2>2, <2>4 DEF TypeOK, Holds, At
  <2>5. /\ \A e \in Daemon : e # Dst(s) => got'[e] = got[e] /\ again'[e] = again[e]
        /\ got'[Dst(s)] = got[Dst(s)] \union {m}
        /\ again'[Dst(s)] = again[Dst(s)] \union (IF m \in got[Dst(s)] THEN {m} ELSE {})
    BY <2>1 DEF FanOut, TypeOK
  <2>6. FirstRecorded'
    <3>1. Recorded(Dst(s), Id(m))
      BY <2>1 DEF Once, FirstRecorded, Holds
    <3>2. \A e \in Daemon, id \in Ids : Recorded(e, id)' <=> Recorded(e, id)
      BY <2>2 DEF Recorded
    <3>3. \A e \in Daemon : \A k \in got'[e] : Recorded(e, Id(k))
      BY <2>5, <3>1 DEF Once, FirstRecorded
    <3>4. \A t \in Stream, k \in Message : Holds(t, k)' => Recorded(Dst(t), Id(k))
      BY <2>3, <2>4, <3>1 DEF Once, FirstRecorded
    <3>5. \A e \in Daemon : \A k \in got'[e] : Id(k) \in Ids
      BY MessageParts DEF TypeOK
    <3> QED
      BY <3>2, <3>3, <3>4, <3>5, MessageParts DEF FirstRecorded
  <2>7. NewIsNew'
    <3>1. ASSUME NEW t \in Stream, NEW k \in Message, At(t, k, "new")', k \in got'[Dst(t)]
          PROVE  Id(k) \in evicted[Dst(t)]
      <4>1. t # s /\ At(t, k, "new")
        BY <2>3, <2>4, <3>1
      <4>2. CASE k \in got[Dst(t)]
        BY <4>1, <4>2 DEF Once, NewIsNew
      <4>3. CASE k = m /\ Dst(t) = Dst(s)
        BY <2>1, <4>1, <4>3 DEF Once, NewIsNew
      <4> QED
        BY <2>5, <3>1, <4>2, <4>3
    <3>2. \A t, u \in Stream, k \in Message :
            At(t, k, "new")' /\ At(u, k, "new")' /\ Dst(u) = Dst(t) /\ t # u
              => Id(k) \in evicted[Dst(t)]
      BY <2>3, <2>4 DEF Once, NewIsNew
    <3> QED
      BY <2>2, <3>1, <3>2 DEF NewIsNew
  <2>8. AtMostOnce'
    <3>1. m \in got[Dst(s)] => Id(m) \in evicted[Dst(s)]
      BY <2>1 DEF Once, NewIsNew
    <3> QED
      BY <2>2, <2>5, <3>1 DEF Once, AtMostOnce
  <2> QED
    BY <2>6, <2>7, <2>8 DEF Once
<1>7. ASSUME NEW s \in Stream, PassOn(s) PROVE Once'
  <2>1. UNCHANGED <<got, again, seen, evicted>> /\ reader' = [reader EXCEPT ![s] = NoMsg]
    BY <1>7 DEF PassOn, nodeVars, seenHist
  <2>2. \A t \in Stream, k \in Message : /\ Holds(t, k)' => Holds(t, k)
                                         /\ At(t, k, "new")' => At(t, k, "new")
    BY <2>1 DEF TypeOK, Holds, At
  <2> QED
    BY <2>1, <2>2, OnceKept DEF Recorded
<1>8. ASSUME \/ \E l \in Link : Break(l)
             \/ \E d \in Daemon : Crash(d)
      PROVE  Once'
  <2>1. /\ \A s \in Stream : \E t \in Stream :
             /\ t[1] = s[1] /\ reader'[s] \in {NoMsg, reader[t]}
             /\ t # s => t = Live(s[1]) /\ reader'[t] = NoMsg
        /\ \A d \in Daemon :
             \/ UNCHANGED <<seen[d], evicted[d], got[d], again[d]>>
             \/ /\ got'[d] = {} /\ again'[d] = {}
                /\ \A s \in Stream : Dst(s) = d => reader'[s] = NoMsg
    BY <1>8, FailureSteps
  <2>2. ASSUME NEW s \in Stream, NEW m \in Message, Holds(s, m)'
        PROVE  /\ UNCHANGED <<seen[Dst(s)], evicted[Dst(s)], got[Dst(s)]>>
               /\ \E t \in Stream : /\ Dst(t) = Dst(s) /\ reader'[s] = reader[t] /\ Holds(t, m)
                                    /\ t # s => reader'[t] = NoMsg /\ t = Live(s[1]) /\ s = Dying(s[1])
    <3>1. PICK t \in Stream : /\ t[1] = s[1] /\ reader'[s] \in {NoMsg, reader[t]}
                              /\ t # s => t = Live(s[1]) /\ reader'[t] = NoMsg
      BY <2>1
    <3>2. reader'[s] = reader[t] /\ Holds(t, m)
      BY <2>2, <3>1 DEF Holds, At
    <3>3. Dst(t) = Dst(s)
      BY <3>1, StreamLink
    <3>4. t # s => s = Dying(s[1])
      BY <3>1, StreamLink
    <3>5. UNCHANGED <<seen[Dst(s)], evicted[Dst(s)], got[Dst(s)]>>
      BY <2>1, <2>2 DEF Holds, At
    <3> QED
      BY <3>1, <3>2, <3>3, <3>4, <3>5
  <2>3. FirstRecorded'
    <3>1. ASSUME NEW d \in Daemon, NEW m \in got'[d] PROVE Recorded(d, Id(m))'
      BY <2>1 DEF Once, FirstRecorded, Recorded
    <3>2. ASSUME NEW s \in Stream, NEW m \in Message, Holds(s, m)' PROVE Recorded(Dst(s), Id(m))'
      BY <2>2, <3>2 DEF Once, FirstRecorded, Recorded
    <3> QED
      BY <3>1, <3>2 DEF FirstRecorded
  <2>4. NewIsNew'
    <3>1. ASSUME NEW s \in Stream, NEW m \in Message, At(s, m, "new")', m \in got'[Dst(s)]
          PROVE  Id(m) \in evicted'[Dst(s)]
      <4>1. Holds(s, m)'
        BY <3>1 DEF Holds
      <4> QED
        BY <2>2, <3>1, <4>1 DEF Once, NewIsNew, At
    <3>2. ASSUME NEW s \in Stream, NEW t \in Stream, NEW m \in Message,
                 At(s, m, "new")', At(t, m, "new")', Dst(t) = Dst(s), s # t
          PROVE  Id(m) \in evicted'[Dst(s)]
      <4>1. Holds(s, m)' /\ Holds(t, m)' /\ reader'[s] # NoMsg /\ reader'[t] # NoMsg
        BY <3>2 DEF Holds, At
      <4>2. PICK u \in Stream :
              /\ Dst(u) = Dst(s) /\ reader'[s] = reader[u]
              /\ u # s => reader'[u] = NoMsg /\ u = Live(s[1]) /\ s = Dying(s[1])
        BY <2>2, <4>1
      <4>3. PICK v \in Stream :
              /\ Dst(v) = Dst(t) /\ reader'[t] = reader[v]
              /\ v # t => reader'[v] = NoMsg /\ v = Live(t[1]) /\ t = Dying(t[1])
        BY <2>2, <4>1
      <4>4. u # v
        <5> SUFFICES ASSUME u = v PROVE FALSE
          OBVIOUS
        <5>1. u # s /\ v # t
          BY <3>2, <4>1, <4>2, <4>3
        <5>2. s[1] = t[1]
          BY <4>2, <4>3, <5>1 DEF Live
        <5> QED
          BY <3>2, <4>2, <4>3, <5>1, <5>2
      <4>5. At(u, m, "new") /\ At(v, m, "new")
        BY <3>2, <4>2, <4>3 DEF At
      <4>6. Id(m) \in evicted[Dst(s)]
        BY <3>2, <4>2, <4>3, <4>4, <4>5 DEF Once, NewIsNew
      <4> QED
        BY <2>2, <4>1, <4>6
    <3> QED
      BY <3>1, <3>2 DEF NewIsNew
  <2>5. AtMostOnce'
    BY <2>1 DEF Once, AtMostOnce
  <2> QED
    BY <2>3, <2>4, <2>5 DEF Once
<1>9. ASSUME NEW l \in Link, Connect(l) PROVE Once'
  BY <1>2, <1>9 DEF Connect, nodeVars, seenHist
<1>10. ASSUME UNCHANGED vars PROVE Once'
  BY <1>2, <1>10 DEF vars, nodeVars, linkVars, seenHist
<1> QED
  BY <1>1, <1>3, <1>4, <1>5, <1>6, <1>7, <1>8, <1>9, <1>10 DEF Next, Reader

LEMMA OnceInvariant == Spec => []OnceInv
<1>1. OnceInv /\ [Next]_vars => OnceInv'
  BY TypeStep, NumberedStep, CopiesStep, OnceStep DEF OnceInv, Once, TypeInv
<1> QED
  BY OnceInvInit, <1>1, PTL DEF Spec

\* No run of a daemon fans a message out twice unless its id has meanwhile left
\* the seen-set, on any topology, with any number of readers between the
\* seen-set's lock and the registry's (handle_feed, ingest_remote), of breaks
\* with a reader still at work, and of restarts that number messages from 1
\* again (publish_local).
THEOREM FannedOutOnce == Spec => []AtMostOnce
<1>1. OnceInv => AtMostOnce
  BY DEF OnceInv
<1> QED
  BY OnceInvariant, <1>1, PTL
-----------------------------------------------------------------------------
(* No message is withheld.                                                 *)

\* A daemon that has a message to send has fanned it out.
SendersHave ==
    /\ \A d \in Daemon : outbox[d] \subseteq reached[d]
    /\ \A s \in Stream : Range(flow[s]) \subseteq reached[Src(s)]
    /\ \A s \in Stream, m \in Message :
         /\ Holds(s, m) => m \in reached[Src(s)] /\ Takes(Dst(s), m)
         /\ At(s, m, "fanned") => m \in reached[Dst(s)]
    /\ \A m \in published : m \in reached[m.origin]

\* A message is fanned out only where a path of daemons that take it leads.
StaysWithin == \A d \in Daemon : \A m \in reached[d] : Takes(d, m) /\ Within(m, d)

\* An id in the seen-set is that of a message the daemon fanned out, or that one
\* of its readers is about to.
SeenMeansTaken ==
    \A d \in Daemon : \A id \in Range(seen[d]) :
        \E m \in published : /\ Id(m) = id
                             /\ \/ m \in reached[d]
                                \/ \E s \in Stream : Dst(s) = d /\ At(s, m, "new")

\* The message was taken over the link, or is on its way.
Underway(l, m) ==
    \/ m \in reached[To(l)]
    \/ m \in outbox[From(l)]
    \/ m \in Range(flow[Live(l)]) \union Range(flow[Dying(l)])
    \/ \E s \in Stream : Dst(s) = From(l) /\ At(s, m, "fanned")
    \/ \E s \in Stream : Dst(s) = To(l) /\ At(s, m, "new")

\* What a daemon fanned out is under way on each of its links.
Forwarded ==
    \A m \in published \ lost : OnlyWithItsId(m) =>
        \A l \in Link : m \in reached[From(l)] /\ Takes(To(l), m) => Underway(l, m)

SpreadInv == /\ TypeInv /\ CopiesPublished /\ SendersHave /\ StaysWithin
             /\ SeenMeansTaken /\ Forwarded

LEMMA SpreadInvInit == Init => SpreadInv
<1> SUFFICES ASSUME Init PROVE SpreadInv
  OBVIOUS
<1>1. \A s \in Stream, m \in Message : ~ At(s, m, "new") /\ ~ At(s, m, "fanned") /\ ~ Holds(s, m)
  BY DEF Init, Holds, At
<1>2. CopiesPublished /\ SendersHave
  BY <1>1, RangeEmpty, StreamLink DEF Init, CopiesPublished, SendersHave
<1>3. StaysWithin /\ SeenMeansTaken /\ Forwarded
  BY RangeEmpty DEF Init, StaysWithin, SeenMeansTaken, Forwarded
<1> QED
  BY <1>2, <1>3, TypeInvInit DEF SpreadInv

\* Paths from the origin: the empty one, and one link more.
LEMMA WithinOrigin == ASSUME NEW m PROVE Within(m, m.origin)
  BY DEF Within

LEMMA WithinLink ==
    ASSUME NEW m, NEW l \in Link, Within(m, From(l)), Takes(To(l), m)
    PROVE  Within(m, To(l))
<1> DEFINE takers == {e \in Daemon : Takes(e, m)}
<1>1. To(l) \in takers
  BY Streams
<1> SUFFICES ASSUME NEW S \in SUBSET takers, m.origin \in S, To(l) \notin S
             PROVE  \E k \in Link : From(k) \in S /\ To(k) \in takers \ S
  BY DEF Within
<1>2. CASE From(l) \in S
  BY <1>1, <1>2
<1>3. CASE From(l) \notin S
  BY <1>3 DEF Within
<1> QED
  BY <1>2, <1>3

\* What was fanned out stays so, in the history, and nothing is published or
\* lost but by a step that says so.
LEMMA HistoryGrows ==
    ASSUME TypeInv, [Next]_vars
    PROVE  /\ published \subseteq published' /\ lost \subseteq lost'
           /\ \A d \in Daemon : reached[d] \subseteq reached'[d]
<1> TypeOK
  BY DEF TypeInv
<1>1. ASSUME NEW d \in Daemon, NEW m, FanOut(d, m)
      PROVE  \A e \in Daemon : reached[e] \subseteq reached'[e]
  BY <1>1 DEF FanOut, TypeOK
<1>2. ASSUME NEW d \in Daemon, NEW e, NEW m, Send(d, e, m) PROVE lost \subseteq lost'
  BY <1>2 DEF Send
<1>3. ASSUME NEW d \in Daemon, NEW size \in Sizes[d], Publish(d, size)
      PROVE  /\ published \subseteq published' /\ lost \subseteq lost'
             /\ \A e \in Daemon : reached[e] \subseteq reached'[e]
  BY <1>1, <1>3 DEF Publish
<1>4. ASSUME NEW d \in Daemon, ForwardLocal(d)
      PROVE  UNCHANGED <<published, reached>> /\ lost \subseteq lost'
  BY <1>2, <1>4 DEF ForwardLocal, seenHist
<1>5. ASSUME NEW s \in Stream, ReadOversize(s) \/ ReadFeed(s)
      PROVE  UNCHANGED <<published, reached, lost>>
  BY <1>5 DEF ReadOversize, ReadFeed, seenHist
<1>6. ASSUME NEW s \in Stream, Ingest(s)
      PROVE  /\ UNCHANGED <<published, lost>>
             /\ \A e \in Daemon : reached[e] \subseteq reached'[e]
  BY <1>1, <1>6, StreamLink DEF Ingest
<1>7. ASSUME NEW s \in Stream, PassOn(s)
      PROVE  UNCHANGED <<published, reached>> /\ lost \subseteq lost'
  BY <1>2, <1>7, StreamLink DEF PassOn, seenHist
<1>8. ASSUME NEW l \in Link, Connect(l) \/ Break(l)
      PROVE  UNCHANGED <<published, reached>> /\ lost \subseteq lost'
  BY <1>8, BreakParts DEF Connect, Break, seenHist
<1>9. ASSUME NEW d \in Daemon, Crash(d)
      PROVE  UNCHANGED <<published, reached>> /\ lost \subseteq lost'
  BY <1>9, CrashParts DEF Crash
<1>10. ASSUME UNCHANGED vars PROVE UNCHANGED <<published, reached, lost>>
  BY <1>10 DEF vars, seenHist
<1> QED
  BY <1>3, <1>4, <1>5, <1>6, <1>7, <1>8, <1>9, <1>10 DEF Next, Reader

LEMMA StaysWithinStep ==
    ASSUME TypeInv, SendersHave, StaysWithin, [Next]_vars
    PROVE  StaysWithin'
<1> TypeOK
  BY DEF TypeInv
<1>1. ASSUME NEW d \in Daemon, NEW m \in Message, FanOut(d, m), Takes(d, m), Within(m, d)
      PROVE  StaysWithin'
  <2>1. \A e \in Daemon : reached'[e] \subseteq reached[e] \union (IF e = d THEN {m} ELSE {})
    BY <1>1 DEF FanOut, TypeOK
  <2> QED
    BY <1>1, <2>1 DEF StaysWithin, Takes, Within
<1>2. ASSUME NEW d \in Daemon, NEW size \in Sizes[d], Publish(d, size) PROVE StaysWithin'
  <2> DEFINE m == [origin |-> d, n |-> seq[d], life |-> life[d], size |-> size]
  <2>1. m \in Message /\ FanOut(d, m)
    BY <1>2, PublishNew
  <2>2. m.origin = d /\ m.size = size
    OBVIOUS
  <2>3. Takes(d, m)
    BY <2>2, FloodLimits DEF Takes
  <2>4. Within(m, d)
    BY <2>2, WithinOrigin
  <2> HIDE DEF m
  <2> QED
    BY <1>1, <2>1, <2>3, <2>4
<1>3. ASSUME NEW s \in Stream, Ingest(s) PROVE StaysWithin'
  <2>1. PICK m \in Message : At(s, m, "new") /\ FanOut(Dst(s), m)
    BY <1>3, ReaderMessage DEF Ingest, At
  <2>2. m \in reached[Src(s)] /\ Takes(Dst(s), m)
    BY <2>1 DEF SendersHave, Holds
  <2>3. s[1] \in Link /\ Src(s) = From(s[1]) /\ Dst(s) = To(s[1]) /\ Src(s) \in Daemon /\ Dst(s) \in Daemon
    BY StreamLink
  <2>4. Within(m, Dst(s))
    BY <2>2, <2>3, WithinLink DEF StaysWithin
  <2> QED
    BY <1>1, <2>1, <2>2, <2>3, <2>4
<1>4. ASSUME reached' = reached PROVE StaysWithin'
  BY <1>4 DEF StaysWithin, Takes, Within
<1>5. ASSUME NEW d \in Daemon, ForwardLocal(d) \/ Crash(d) PROVE StaysWithin'
  BY <1>4, <1>5 DEF ForwardLocal, Crash, seenHist
<1>6. ASSUME NEW s \in Stream, ReadOversize(s) \/ ReadFeed(s) \/ PassOn(s) PROVE StaysWithin'
  BY <1>4, <1>6 DEF ReadOversize, ReadFeed, PassOn, seenHist
<1>7. ASSUME NEW l \in Link, Connect(l) \/ Break(l) PROVE StaysWithin'
  BY <1>4, <1>7 DEF Connect, Break, seenHist
<1>8. ASSUME UNCHANGED vars PROVE StaysWithin'
  BY <1>4, <1>8 DEF vars, seenHist
<1> QED
  BY <1>2, <1>3, <1>5, <1>6, <1>7, <1>8 DEF Next, Reader
LEMMA SendersHaveStep ==
    ASSUME TypeInv, CopiesPublished, SendersHave, [Next]_vars
    PROVE  SendersHave'
<1> TypeOK
  BY DEF TypeInv
<1> USE HistoryGrows
<1> DEFINE Have == /\ \A s \in Stream : Range(flow'[s]) \subseteq reached'[Src(s)]
                   /\ \A s \in Stream, m \in Message :
                        /\ Holds(s, m)' => m \in reached'[Src(s)] /\ Takes(Dst(s), m)
                        /\ At(s, m, "fanned")' => m \in reached'[Dst(s)]
           OwnHave == /\ \A d \in Daemon : outbox'[d] \subseteq reached'[d]
                      /\ \A m \in published' : m \in reached'[m.origin]
<1>1. ASSUME Have, OwnHave PROVE SendersHave'
  BY <1>1 DEF SendersHave, Takes
<1>2. \A s \in Stream : Src(s) \in Daemon /\ Dst(s) \in Daemon
  BY StreamLink
<1>3. ASSUME UNCHANGED published, \A d \in Daemon : outbox'[d] \subseteq outbox[d] PROVE OwnHave
  <2>1. \A m \in published : m.origin \in Daemon
    BY MessageParts DEF TypeOK
  <2> QED
    BY <1>3, <2>1 DEF SendersHave
<1>4. ASSUME \A s \in Stream : Range(flow'[s]) \subseteq Range(flow[s]), UNCHANGED reader PROVE Have
  BY <1>2, <1>4 DEF SendersHave, Holds, At
<1>5. ASSUME NEW d \in Daemon, NEW e, NEW m \in Message, Send(d, e, m), m \in reached[d],
             \A s \in Stream : reader'[s] \in {reader[s], NoMsg}
      PROVE  Have
  <2>1. ASSUME NEW s \in Stream PROVE Range(flow'[s]) \subseteq reached[Src(s)]
    <3>1. Range(flow'[s]) \subseteq Range(flow[s]) \union {m} /\ (Src(s) # d => flow'[s] = flow[s])
      BY <1>5, SendFlow
    <3>2. Range(flow[s]) \subseteq reached[Src(s)]
      BY DEF SendersHave
    <3> QED
      BY <1>5, <3>1, <3>2
  <2>2. \A s \in Stream, k \in Message : /\ Holds(s, k)' => Holds(s, k)
                                         /\ At(s, k, "fanned")' => At(s, k, "fanned")
    BY <1>5 DEF Holds, At
  <2> QED
    BY <1>2, <2>1, <2>2 DEF SendersHave
<1>6. ASSUME NEW d \in Daemon, NEW size \in Sizes[d], Publish(d, size) PROVE Have /\ OwnHave
  <2>1. PICK m \in Message : /\ m.origin = d /\ FanOut(d, m) /\ published' = published \union {m}
                             /\ outbox' = [outbox EXCEPT ![d] = @ \union {m}]
    BY <1>6, PublishNew
  <2>2. m \in reached'[d]
    BY <2>1 DEF FanOut, TypeOK
  <2>3. \A e \in Daemon : outbox'[e] \subseteq outbox[e] \union (IF e = d THEN {m} ELSE {})
    BY <2>1 DEF TypeOK
  <2>4. \A k \in published : k.origin \in Daemon
    BY MessageParts DEF TypeOK
  <2>5. OwnHave
    BY <2>1, <2>2, <2>3, <2>4 DEF SendersHave
  <2>6. UNCHANGED <<flow, reader>>
    BY <1>6 DEF Publish, linkVars
  <2> QED
    BY <1>4, <2>5, <2>6
<1>7. ASSUME NEW d \in Daemon, ForwardLocal(d) PROVE Have /\ OwnHave
  <2>1. PICK m \in outbox[d] : Send(d, d, m) /\ outbox' = [outbox EXCEPT ![d] = @ \ {m}]
    BY <1>7 DEF ForwardLocal
  <2>2. UNCHANGED <<published, reader>>
    BY <1>7 DEF ForwardLocal
  <2>3. m \in Message /\ m \in reached[d] /\ \A e \in Daemon : outbox'[e] \subseteq outbox[e]
    BY <2>1 DEF SendersHave, TypeOK
  <2> QED
    BY <1>3, <1>5, <2>1, <2>2, <2>3
<1>8. ASSUME NEW s \in Stream, flow[s] # <<>>, flow' = [flow EXCEPT ![s] = Tail(@)]
      PROVE  \A t \in Stream : Range(flow'[t]) \subseteq Range(flow[t])
  BY <1>8, ReaderMessage DEF TypeOK
<1>9. ASSUME NEW s \in Stream, ReadOversize(s) PROVE Have /\ OwnHave
  BY <1>3, <1>4, <1>8, <1>9 DEF ReadOversize, nodeVars
<1>10. ASSUME NEW s \in Stream, ReadFeed(s) PROVE Have /\ OwnHave
  <2>1. OwnHave
    BY <1>3, <1>10 DEF ReadFeed
  <2>2. \A t \in Stream : Range(flow'[t]) \subseteq Range(flow[t])
    BY <1>8, <1>10 DEF ReadFeed
  <2>3. Head(flow[s]) \in reached[Src(s)] /\ Takes(Dst(s), Head(flow[s]))
    BY <1>10, ReaderMessage DEF ReadFeed, SendersHave
  <2>4. ASSUME NEW t \in Stream, NEW m \in Message
        PROVE  /\ At(t, m, "fanned")' => At(t, m, "fanned")
               /\ Holds(t, m)' => Holds(t, m) \/ (t = s /\ m = Head(flow[s]))
    BY <1>10 DEF ReadFeed, TypeOK, Holds, At
  <2>5. Have
    BY <1>2, <2>2, <2>3, <2>4 DEF SendersHave
  <2> QED
    BY <2>1, <2>5
<1>11. ASSUME NEW s \in Stream, Ingest(s) PROVE Have /\ OwnHave
  <2>1. PICK m \in Message : At(s, m, "new") /\ FanOut(Dst(s), m)
    BY <1>11, ReaderMessage DEF Ingest, At
  <2>2. m \in reached'[Dst(s)]
    BY <1>2, <2>1 DEF FanOut, TypeOK
  <2>3. /\ reader' = [reader EXCEPT ![s].at = "fanned"] /\ reader[s] \in Reading
        /\ [reader[s] EXCEPT !.at = "fanned"] \in Reading /\ flow' = flow
    BY <1>11, ReaderMessage DEF Ingest, Reading
  <2>4. ASSUME NEW t \in Stream, NEW k \in Message
        PROVE  /\ At(t, k, "fanned")' => At(t, k, "fanned") \/ (t = s /\ k = m)
               /\ Holds(t, k)' => Holds(t, k)
    BY <2>1, <2>3 DEF TypeOK, Reading, Holds, At
  <2>5. Have
    BY <1>2, <2>2, <2>3, <2>4 DEF SendersHave
  <2>6. OwnHave
    BY <1>3, <1>11 DEF Ingest, nodeVars
  <2> QED
    BY <2>5, <2>6
<1>12. ASSUME NEW s \in Stream, PassOn(s) PROVE Have /\ OwnHave
  <2>1. PICK m \in Message : At(s, m, "fanned") /\ Send(Dst(s), Src(s), m)
    BY <1>12, ReaderMessage DEF PassOn, At
  <2>2. m \in reached[Dst(s)]
    BY <2>1 DEF SendersHave
  <2>3. \A t \in Stream : reader'[t] \in {reader[t], NoMsg}
    BY <1>12 DEF PassOn, TypeOK
  <2> QED
    BY <1>2, <1>3, <1>5, <1>12, <2>1, <2>2, <2>3 DEF PassOn, nodeVars
<1>13. ASSUME \/ \E l \in Link : Break(l)
              \/ \E d \in Daemon : Crash(d)
       PROVE  Have /\ OwnHave
  <2>1. /\ \A s \in Stream :
             Range(flow'[s]) \subseteq Range(flow[s]) \union Range(flow[Live(s[1])])
        /\ \A s \in Stream : \E t \in Stream : t[1] = s[1] /\ reader'[s] \in {NoMsg, reader[t]}
        /\ \A d \in Daemon : outbox'[d] \subseteq outbox[d]
        /\ UNCHANGED published
    BY <1>13, FailureSteps
  <2>2. OwnHave
    BY <1>3, <2>1
  <2>3. ASSUME NEW s \in Stream PROVE Range(flow'[s]) \subseteq reached[Src(s)]
    <3>1. Live(s[1]) \in Stream /\ Src(Live(s[1])) = Src(s)
      BY StreamLink, Streams
    <3> QED
      BY <2>1, <3>1 DEF SendersHave
  <2>4. ASSUME NEW s \in Stream, NEW m \in Message
        PROVE  \E t \in Stream : /\ Src(t) = Src(s) /\ Dst(t) = Dst(s)
                                 /\ Holds(s, m)' => Holds(t, m)
                                 /\ At(s, m, "fanned")' => At(t, m, "fanned")
    <3>1. PICK t \in Stream : t[1] = s[1] /\ reader'[s] \in {NoMsg, reader[t]}
      BY <2>1
    <3>2. Src(t) = Src(s) /\ Dst(t) = Dst(s)
      BY <3>1, StreamLink
    <3> QED
      BY <3>1, <3>2 DEF Holds, At
  <2>5. Have
    <3>1. ASSUME NEW s \in Stream, NEW m \in Message
          PROVE  /\ Holds(s, m)' => m \in reached[Src(s)] /\ Takes(Dst(s), m)
                 /\ At(s, m, "fanned")' => m \in reached[Dst(s)]
      BY <2>4 DEF SendersHave
    <3> QED
      BY <1>2, <2>3, <3>1
  <2> QED
    BY <2>2, <2>5
<1>14. ASSUME UNCHANGED <<flow, reader, published, outbox>> PROVE Have /\ OwnHave
  BY <1>3, <1>4, <1>14
<1>15. ASSUME NEW l \in Link, Connect(l) PROVE Have /\ OwnHave
  BY <1>14, <1>15 DEF Connect, nodeVars
<1>16. ASSUME UNCHANGED vars PROVE Have /\ OwnHave
  BY <1>14, <1>16 DEF vars, nodeVars, linkVars
<1> HIDE DEF Have, OwnHave
<1>17. Have /\ OwnHave
  BY <1>6, <1>7, <1>9, <1>10, <1>11, <1>12, <1>13, <1>15, <1>16 DEF Next, Reader
<1> QED
  BY <1>1, <1>17
\* What a break or a restart does not lose is found again on the same link.
LEMMA FailureKeeps ==
    ASSUME TypeOK, \/ \E l \in Link : Break(l)
                   \/ \E d \in Daemon : Crash(d)
    PROVE  /\ \A s \in Stream :
                /\ Range(flow[s]) \subseteq
                     Range(flow'[Live(s[1])]) \union Range(flow'[Dying(s[1])]) \union lost'
                /\ reader[s] # NoMsg =>
                     \/ \E t \in Stream : t[1] = s[1] /\ reader'[t] = reader[s]
                     \/ reader[s].msg \in lost' /\ seen'[Dst(s)] = <<>>
           /\ \A d \in Daemon : /\ outbox[d] \subseteq outbox'[d] \union lost'
                                /\ seen'[d] \in {seen[d], <<>>}
<1>1. ASSUME NEW l \in Link, Break(l), NEW s \in Stream
      PROVE  /\ Range(flow[s]) \subseteq
                  Range(flow'[Live(s[1])]) \union Range(flow'[Dying(s[1])]) \union lost'
             /\ reader[s] # NoMsg => \E t \in Stream : t[1] = s[1] /\ reader'[t] = reader[s]
  <2>1. CASE s[1] # l
    <3>1. flow'[s] = flow[s] /\ reader'[s] = reader[s] /\ s \in {Live(s[1]), Dying(s[1])}
      BY <1>1, <2>1, BreakParts, StreamLink
    <3> QED
      BY <3>1
  <2>2. CASE s[1] = l
    <3>1. /\ Range(flow[Live(l)]) \subseteq Range(flow'[Dying(l)]) \union lost'
          /\ reader'[Dying(l)] = reader[Live(l)]
          /\ flow[Dying(l)] = <<>> /\ reader[Dying(l)] = NoMsg
      BY <1>1, BreakParts
    <3>2. s \in {Live(l), Dying(l)} /\ Dying(l) \in Stream /\ Dying(l)[1] = l
      BY <2>2, StreamLink, Streams DEF Dying
    <3>3. CASE s = Live(l)
      BY <2>2, <3>1, <3>2, <3>3
    <3>4. CASE s = Dying(l)
      BY <2>2, <3>1, <3>4, RangeEmpty
    <3> QED
      BY <3>2, <3>3, <3>4
  <2> QED
    BY <2>1, <2>2
<1>2. ASSUME NEW d \in Daemon, Crash(d), NEW s \in Stream
      PROVE  /\ Range(flow[s]) \subseteq
                  Range(flow'[Live(s[1])]) \union Range(flow'[Dying(s[1])]) \union lost'
             /\ reader[s] # NoMsg =>
                  \/ \E t \in Stream : t[1] = s[1] /\ reader'[t] = reader[s]
                  \/ reader[s].msg \in lost' /\ seen'[Dst(s)] = <<>>
  <2>1. CASE d \notin {Src(s), Dst(s)}
    <3>1. flow'[s] = flow[s] /\ reader'[s] = reader[s] /\ s \in {Live(s[1]), Dying(s[1])}
      BY <1>2, <2>1, CrashParts, StreamLink
    <3> QED
      BY <3>1
  <2>2. CASE Dst(s) = d
    <3>1. Range(flow[s]) \subseteq Held(d)
      BY <2>2 DEF Held
    <3>2. reader[s] # NoMsg => reader[s].msg \in Held(d)
      BY <2>2 DEF Held
    <3>3. Held(d) \subseteq lost'
      BY <1>2, CrashParts
    <3>4. seen'[d] = <<>>
      BY <1>2 DEF Crash, TypeOK
    <3> QED
      BY <2>2, <3>1, <3>2, <3>3, <3>4
  <2>3. CASE Src(s) = d
    <3> DEFINE l == s[1]
    <3>1. l \in Link /\ From(l) = d /\ s \in {Live(l), Dying(l)}
      BY <2>3, StreamLink
    <3>2. /\ Range(flow[Live(l)]) \subseteq Range(flow'[Dying(l)]) \union lost'
          /\ reader'[Dying(l)] = reader[Live(l)]
          /\ flow[Dying(l)] = <<>> /\ reader[Dying(l)] = NoMsg
      BY <1>2, <3>1, CrashParts
    <3>3. Dying(l) \in Stream /\ Dying(l)[1] = l
      BY <3>1, Streams DEF Dying
    <3>4. CASE s = Live(l)
      BY <3>2, <3>3, <3>4
    <3>5. CASE s = Dying(l)
      BY <3>2, <3>5, RangeEmpty
    <3> QED
      BY <3>1, <3>4, <3>5
  <2> QED
    BY <2>1, <2>2, <2>3
<1>3. ASSUME NEW l \in Link, Break(l) PROVE UNCHANGED <<outbox, seen>>
  BY <1>3 DEF Break, nodeVars
<1>4. ASSUME NEW d \in Daemon, Crash(d), NEW e \in Daemon
      PROVE  outbox[e] \subseteq outbox'[e] \union lost' /\ seen'[e] \in {seen[e], <<>>}
  <2>1. /\ outbox' = [outbox EXCEPT ![d] = {}] /\ seen' = [seen EXCEPT ![d] = <<>>]
        /\ Held(d) \subseteq lost'
    BY <1>4, CrashParts DEF Crash
  <2>2. outbox[d] \subseteq Held(d)
    BY DEF Held
  <2> QED
    BY <2>1, <2>2 DEF TypeOK
<1> QED
  BY <1>1, <1>2, <1>3, <1>4

LEMMA SeenMeansTakenStep ==
    ASSUME TypeInv, CopiesPublished, SeenMeansTaken, [Next]_vars
    PROVE  SeenMeansTaken'
<1> TypeOK
  BY DEF TypeInv
<1> \A s \in Stream : Dst(s) \in Daemon
  BY StreamLink
<1> DEFINE Taken(d, m) == \/ m \in reached'[d]
                          \/ \E s \in Stream : Dst(s) = d /\ At(s, m, "new")'
\* It is enough that an id entered is accounted for, and that a reader that no
\* longer finds its message new has fanned it out or is on an empty daemon.
<1>1. ASSUME \A d \in Daemon : \A id \in Range(seen'[d]) :
                id \in Range(seen[d]) \/ \E m \in published' : Id(m) = id /\ Taken(d, m),
             \A s \in Stream, m \in Message :
                At(s, m, "new") => Taken(Dst(s), m) \/ seen'[Dst(s)] = <<>>
      PROVE  SeenMeansTaken'
  <2> SUFFICES ASSUME NEW d \in Daemon, NEW id \in Range(seen'[d]), id \in Range(seen[d])
               PROVE  \E m \in published' : Id(m) = id /\ Taken(d, m)
    BY <1>1 DEF SeenMeansTaken
  <2>1. PICK m \in published :
          /\ Id(m) = id
          /\ m \in reached[d] \/ \E s \in Stream : Dst(s) = d /\ At(s, m, "new")
    BY DEF SeenMeansTaken
  <2>2. m \in published' /\ m \in Message /\ reached[d] \subseteq reached'[d]
    BY HistoryGrows DEF TypeOK
  <2>3. seen'[d] # <<>>
    BY RangeEmpty
  <2> QED
    BY <1>1, <2>1, <2>2, <2>3
<1>2. ASSUME UNCHANGED seen, \A s \in Stream, m \in Message : At(s, m, "new") => At(s, m, "new")'
      PROVE  SeenMeansTaken'
  BY <1>1, <1>2
<1>3. ASSUME NEW d \in Daemon, NEW size \in Sizes[d], Publish(d, size) PROVE SeenMeansTaken'
  <2>1. PICK m \in Message : /\ FanOut(d, m) /\ Insert(d, Id(m)) /\ Id(m) \in Ids
                             /\ published' = published \union {m}
    BY <1>3, PublishNew, MessageParts
  <2>2. m \in published' /\ m \in reached'[d]
    BY <2>1 DEF FanOut, TypeOK
  <2>3. /\ Range(seen'[d]) \subseteq Range(seen[d]) \union {Id(m)}
        /\ \A e \in Daemon : e # d => seen'[e] = seen[e]
    BY <2>1, InsertRecords
  <2>4. reader' = reader
    BY <1>3 DEF Publish, linkVars
  <2> QED
    BY <1>1, <2>2, <2>3, <2>4 DEF At
<1>4. ASSUME NEW s \in Stream, ReadFeed(s) PROVE SeenMeansTaken'
  <2>1. PICK m \in Message, d \in Daemon : Id(m) \in Ids /\ m = Head(flow[s]) /\ d = Dst(s)
    BY <1>4, ReaderMessage, MessageParts DEF ReadFeed
  <2>2. /\ Insert(d, Id(m)) /\ reader[s] = NoMsg /\ UNCHANGED published
        /\ reader' = [reader EXCEPT ![s] = IF New(d, Id(m)) THEN [msg |-> m, at |-> "new"] ELSE NoMsg]
    BY <1>4, <2>1 DEF ReadFeed
  <2>3. m \in published
    BY <1>4, <2>1, ReaderMessage DEF ReadFeed, CopiesPublished
  <2>4. /\ Range(seen'[d]) \subseteq Range(seen[d]) \union {Id(m)}
        /\ \A e \in Daemon : e # d => seen'[e] = seen[e]
    BY <2>1, <2>2, InsertRecords
  <2>5. \A t \in Stream, k \in Message : At(t, k, "new") => At(t, k, "new")'
    BY <2>2 DEF TypeOK, At
  <2>6. Id(m) \notin Range(seen[d]) => At(s, m, "new")'
    <3>1. [msg |-> m, at |-> "new"] \in Reading
      BY DEF Reading
    <3> QED
      BY <2>2, <3>1, NoMsgAssumption DEF TypeOK, At, New
  <2> QED
    BY <1>1, <2>1, <2>2, <2>3, <2>4, <2>5, <2>6
<1>5. ASSUME NEW s \in Stream, Ingest(s) PROVE SeenMeansTaken'
  <2>1. PICK m \in Message : At(s, m, "new") /\ FanOut(Dst(s), m)
    BY <1>5, ReaderMessage DEF Ingest, At
  <2>2. m \in reached'[Dst(s)]
    BY <2>1 DEF FanOut, TypeOK
  <2>3. UNCHANGED seen /\ reader' = [reader EXCEPT ![s].at = "fanned"]
    BY <1>5 DEF Ingest, nodeVars
  <2>4. ASSUME NEW t \in Stream, NEW k \in Message, At(t, k, "new")
        PROVE  Taken(Dst(t), k)
    <3>1. CASE t = s
      BY <2>1, <2>2, <2>4, <3>1 DEF At
    <3>2. CASE t # s
      BY <2>3, <2>4, <3>2 DEF TypeOK, At
    <3> QED
      BY <3>1, <3>2
  <2> QED
    BY <1>1, <2>3, <2>4
<1>6. ASSUME NEW s \in Stream, PassOn(s) PROVE SeenMeansTaken'
  <2>1. UNCHANGED seen /\ reader[s].at = "fanned" /\ reader' = [reader EXCEPT ![s] = NoMsg]
    BY <1>6 DEF PassOn, nodeVars
  <2>2. \A t \in Stream, m \in Message : At(t, m, "new") => At(t, m, "new")'
    BY <2>1 DEF TypeOK, At
  <2> QED
    BY <1>2, <2>1, <2>2
<1>7. ASSUME \/ \E l \in Link : Break(l)
             \/ \E d \in Daemon : Crash(d)
      PROVE  SeenMeansTaken'
  <2>1. /\ \A s \in Stream : reader[s] # NoMsg =>
             \/ \E t \in Stream : t[1] = s[1] /\ reader'[t] = reader[s]
             \/ seen'[Dst(s)] = <<>>
        /\ \A d \in Daemon : seen'[d] \in {seen[d], <<>>}
    BY <1>7, FailureKeeps
  <2>2. \A d \in Daemon : Range(seen'[d]) \subseteq Range(seen[d])
    BY <2>1, RangeEmpty
  <2>3. ASSUME NEW s \in Stream, NEW m \in Message, At(s, m, "new"), seen'[Dst(s)] # <<>>
        PROVE  Taken(Dst(s), m)
    <3>1. PICK t \in Stream : t[1] = s[1] /\ reader'[t] = reader[s]
      BY <2>1, <2>3 DEF At
    <3>2. Dst(t) = Dst(s) /\ At(t, m, "new")'
      BY <2>3, <3>1, StreamLink DEF At
    <3> QED
      BY <3>2
  <2> QED
    BY <1>1, <2>2, <2>3
<1>8. ASSUME UNCHANGED <<seen, reader>> PROVE SeenMeansTaken'
  BY <1>2, <1>8 DEF At
<1>9. ASSUME NEW d \in Daemon, ForwardLocal(d) PROVE SeenMeansTaken'
  BY <1>8, <1>9 DEF ForwardLocal
<1>10. ASSUME NEW s \in Stream, ReadOversize(s) PROVE SeenMeansTaken'
  BY <1>8, <1>10 DEF ReadOversize, nodeVars
<1>11. ASSUME NEW l \in Link, Connect(l) PROVE SeenMeansTaken'
  BY <1>8, <1>11 DEF Connect, nodeVars
<1>12. ASSUME UNCHANGED vars PROVE SeenMeansTaken'
  BY <1>8, <1>12 DEF vars, nodeVars, linkVars
<1> QED
  BY <1>3, <1>4, <1>5, <1>6, <1>7, <1>9, <1>10, <1>11, <1>12 DEF Next, Reader
\* A message a link's end is owed stays under way until it gets there, or lost.
LEMMA UnderwayStep ==
    ASSUME TypeInv, CopiesPublished, SendersHave, SeenMeansTaken, [Next]_vars,
           NEW l \in Link, NEW m \in published, m \notin lost', OnlyWithItsId(m),
           Takes(To(l), m), Underway(l, m)
    PROVE  Underway(l, m)'
<1> TypeOK
  BY DEF TypeInv
<1> USE HistoryGrows
<1>1. /\ m \in Message /\ From(l) \in Daemon /\ To(l) \in Daemon
      /\ Live(l) \in Stream /\ Dying(l) \in Stream
      /\ Src(Live(l)) = From(l) /\ Dst(Live(l)) = To(l)
      /\ Src(Dying(l)) = From(l) /\ Dst(Dying(l)) = To(l)
  BY Streams DEF TypeOK
<1> DEFINE InStreams == m \in Range(flow[Live(l)]) \union Range(flow[Dying(l)])
           Fanned == \E s \in Stream : Dst(s) = From(l) /\ At(s, m, "fanned")
           New0 == \E s \in Stream : Dst(s) = To(l) /\ At(s, m, "new")
\* Each place the message may be in leads to one of the others.
<1>2. ASSUME m \in outbox[From(l)] => m \in outbox'[From(l)] \/ InStreams' \/ m \in reached'[To(l)],
             InStreams => InStreams' \/ New0' \/ m \in reached'[To(l)],
             Fanned => Fanned' \/ InStreams' \/ m \in reached'[To(l)],
             New0 => New0' \/ m \in reached'[To(l)]
      PROVE  Underway(l, m)'
  <2>1. reached[To(l)] \subseteq reached'[To(l)]
    BY <1>1
  <2> QED
    BY <1>2, <2>1 DEF Underway
<1>3. ASSUME UNCHANGED reader PROVE (Fanned => Fanned') /\ (New0 => New0')
  BY <1>3 DEF At
<1>4. ASSUME UNCHANGED flow PROVE InStreams => InStreams'
  BY <1>4
<1>5. ASSUME NEW d \in Daemon, NEW e, NEW k \in Message, Send(d, e, k)
      PROVE  /\ InStreams => InStreams'
             /\ (k = m /\ d = From(l) /\ e # To(l)) => InStreams'
  <2>1. \A s \in Stream : Range(flow[s]) \subseteq Range(flow'[s])
    BY <1>5, SendFlow
  <2>2. k \notin lost' =>
          \A j \in Link : From(j) = d /\ To(j) # e => k \in Range(flow'[Live(j)])
    BY <1>5, SendFlow
  <2>3. ASSUME k = m, d = From(l), e # To(l) PROVE m \in Range(flow'[Live(l)])
    BY <2>2, <2>3
  <2> QED
    BY <1>1, <2>1, <2>3
<1> HIDE DEF InStreams, Fanned, New0
<1>6. ASSUME NEW d \in Daemon, NEW size \in Sizes[d], Publish(d, size) PROVE Underway(l, m)'
  <2>1. /\ UNCHANGED <<flow, reader>>
        /\ m \in outbox[From(l)] => m \in outbox'[From(l)]
    BY <1>6, PublishNew DEF Publish, linkVars, TypeOK
  <2> QED
    BY <1>2, <1>3, <1>4, <2>1
<1>7. ASSUME NEW d \in Daemon, ForwardLocal(d) PROVE Underway(l, m)'
  <2>1. PICK k \in outbox[d] : Send(d, d, k) /\ outbox' = [outbox EXCEPT ![d] = @ \ {k}]
    BY <1>7 DEF ForwardLocal
  <2>2. k \in Message /\ UNCHANGED reader
    BY <1>7 DEF ForwardLocal, TypeOK
  <2>3. From(l) # To(l)
    BY Streams
  <2>4. m \in outbox[From(l)] => m \in outbox'[From(l)] \/ InStreams'
    <3>1. CASE d = From(l) /\ k = m
      BY <1>5, <2>1, <2>2, <2>3, <3>1
    <3>2. CASE ~ (d = From(l) /\ k = m)
      BY <1>1, <2>1, <3>2 DEF TypeOK
    <3> QED
      BY <3>1, <3>2
  <2> QED
    BY <1>2, <1>3, <1>5, <2>1, <2>2, <2>4
<1>8. ASSUME NEW s \in Stream, flow[s] # <<>>, flow' = [flow EXCEPT ![s] = Tail(@)]
      PROVE  InStreams => InStreams' \/ (s \in {Live(l), Dying(l)} /\ m = Head(flow[s]))
  <2>1. Range(flow[s]) = {Head(flow[s])} \union Range(Tail(flow[s]))
    BY <1>8, ReaderMessage
  <2>2. flow'[s] = Tail(flow[s]) /\ \A t \in Stream : t # s => flow'[t] = flow[t]
    BY <1>8 DEF TypeOK
  <2> QED
    BY <1>1, <2>1, <2>2 DEF InStreams
<1>9. ASSUME NEW s \in Stream, ReadOversize(s) PROVE Underway(l, m)'
  <2>1. UNCHANGED <<outbox, reader>>
    BY <1>9 DEF ReadOversize, nodeVars
  <2>2. s \in {Live(l), Dying(l)} => m # Head(flow[s])
    BY <1>1, <1>9 DEF ReadOversize
  <2> QED
    BY <1>2, <1>3, <1>8, <1>9, <2>1, <2>2 DEF ReadOversize
<1>10. ASSUME NEW s \in Stream, ReadFeed(s) PROVE Underway(l, m)'
  <2>1. PICK k \in Message : k = Head(flow[s])
    BY <1>10, ReaderMessage DEF ReadFeed
  <2>2. /\ reader[s] = NoMsg /\ UNCHANGED outbox
        /\ reader' = [reader EXCEPT ![s] = IF New(Dst(s), Id(k)) THEN [msg |-> k, at |-> "new"] ELSE NoMsg]
    BY <1>10, <2>1 DEF ReadFeed
  <2>3. \A t \in Stream, w \in {"new", "fanned"} : At(t, m, w) => At(t, m, w)'
    BY <2>2 DEF TypeOK, At
  <2>4. (Fanned => Fanned') /\ (New0 => New0')
    BY <2>3 DEF Fanned, New0
  <2>5. ASSUME s \in {Live(l), Dying(l)}, m = k PROVE New0' \/ m \in reached'[To(l)]
    <3>1. Dst(s) = To(l)
      BY <1>1, <2>5
    <3>2. CASE New(To(l), Id(m))
      <4>1. [msg |-> m, at |-> "new"] \in Reading
        BY <1>1 DEF Reading
      <4>2. At(s, m, "new")'
        BY <2>2, <2>5, <3>1, <3>2, <4>1, NoMsgAssumption DEF TypeOK, At
      <4> QED
        BY <3>1, <4>2 DEF New0
    <3>3. CASE ~ New(To(l), Id(m))
      <4>1. PICK j \in published :
              /\ Id(j) = Id(m)
              /\ j \in reached[To(l)] \/ \E t \in Stream : Dst(t) = To(l) /\ At(t, j, "new")
        BY <1>1, <3>3 DEF New, SeenMeansTaken
      <4>2. j = m
        BY <4>1 DEF OnlyWithItsId
      <4>3. m \in reached[To(l)] \/ New0
        BY <4>1, <4>2 DEF New0
      <4> QED
        BY <1>1, <2>4, <4>3
    <3> QED
      BY <3>2, <3>3
  <2>6. InStreams => InStreams' \/ (s \in {Live(l), Dying(l)} /\ m = k)
    BY <1>8, <1>10, <2>1 DEF ReadFeed
  <2> QED
    BY <1>2, <2>2, <2>4, <2>5, <2>6
<1>11. ASSUME NEW s \in Stream, Ingest(s) PROVE Underway(l, m)'
  <2>1. PICK k \in Message : At(s, k, "new") /\ FanOut(Dst(s), k)
    BY <1>11, ReaderMessage DEF Ingest, At
  <2>2. /\ UNCHANGED <<outbox, flow>> /\ reader' = [reader EXCEPT ![s].at = "fanned"]
        /\ Dst(s) \in Daemon
    BY <1>11, StreamLink DEF Ingest, nodeVars
  <2>3. k \in reached'[Dst(s)]
    BY <2>1, <2>2 DEF FanOut, TypeOK
  <2>4. \A t \in Stream, w \in {"new", "fanned"} : t # s => (At(t, m, w) => At(t, m, w)')
    BY <2>2 DEF TypeOK, At
  <2>5. ~ At(s, m, "fanned") /\ (At(s, m, "new") => m = k)
    BY <2>1 DEF At
  <2>6. Fanned => Fanned'
    BY <2>4, <2>5 DEF Fanned
  <2>7. New0 => New0' \/ m \in reached'[To(l)]
    BY <2>3, <2>4, <2>5 DEF New0
  <2> QED
    BY <1>2, <1>4, <2>2, <2>6, <2>7
<1>12. ASSUME NEW s \in Stream, PassOn(s) PROVE Underway(l, m)'
  <2>1. PICK k \in Message : At(s, k, "fanned") /\ Send(Dst(s), Src(s), k)
    BY <1>12, ReaderMessage DEF PassOn, At
  <2>2. UNCHANGED outbox /\ reader' = [reader EXCEPT ![s] = NoMsg] /\ Dst(s) \in Daemon
    BY <1>12, StreamLink DEF PassOn, nodeVars
  <2>3. \A t \in Stream, w \in {"new", "fanned"} : t # s => (At(t, m, w) => At(t, m, w)')
    BY <2>2 DEF TypeOK, At
  <2>4. ~ At(s, m, "new") /\ (At(s, m, "fanned") => m = k)
    BY <2>1 DEF At
  <2>5. New0 => New0'
    BY <2>3, <2>4 DEF New0
  <2>6. ASSUME Dst(s) = From(l), m = k PROVE InStreams' \/ m \in reached'[To(l)]
    <3>1. CASE Src(s) = To(l)
      BY <1>1, <2>1, <2>6, <3>1 DEF SendersHave, Holds
    <3>2. CASE Src(s) # To(l)
      BY <1>5, <2>1, <2>2, <2>6, <3>2
    <3> QED
      BY <3>1, <3>2
  <2>7. Fanned => Fanned' \/ InStreams' \/ m \in reached'[To(l)]
    BY <2>3, <2>4, <2>6 DEF Fanned
  <2>8. InStreams => InStreams'
    BY <1>5, <2>1, <2>2
  <2> QED
    BY <1>2, <2>2, <2>5, <2>7, <2>8
<1>13. ASSUME \/ \E k \in Link : Break(k)
              \/ \E d \in Daemon : Crash(d)
       PROVE  Underway(l, m)'
  <2>1. /\ \A s \in Stream :
             /\ Range(flow[s]) \subseteq
                  Range(flow'[Live(s[1])]) \union Range(flow'[Dying(s[1])]) \union lost'
             /\ reader[s] # NoMsg =>
                  \/ \E t \in Stream : t[1] = s[1] /\ reader'[t] = reader[s]
                  \/ reader[s].msg \in lost'
        /\ \A d \in Daemon : outbox[d] \subseteq outbox'[d] \union lost'
    BY <1>13, FailureKeeps
  <2>2. Live(l)[1] = l /\ Dying(l)[1] = l
    BY DEF Live, Dying
  <2>3. InStreams => InStreams'
    BY <1>1, <2>1, <2>2 DEF InStreams
  <2>4. ASSUME NEW s \in Stream, NEW w, At(s, m, w)
        PROVE  \E t \in Stream : Dst(t) = Dst(s) /\ At(t, m, w)'
    <3>1. PICK t \in Stream : t[1] = s[1] /\ reader'[t] = reader[s]
      BY <2>1, <2>4 DEF At
    <3>2. Dst(t) = Dst(s) /\ At(t, m, w)'
      BY <2>4, <3>1, StreamLink DEF At
    <3> QED
      BY <3>2
  <2>5. (Fanned => Fanned') /\ (New0 => New0')
    BY <2>4 DEF Fanned, New0
  <2> QED
    BY <1>1, <1>2, <2>1, <2>3, <2>5
<1>14. ASSUME UNCHANGED <<outbox, flow, reader>> PROVE Underway(l, m)'
  BY <1>2, <1>3, <1>4, <1>14
<1>15. ASSUME NEW k \in Link, Connect(k) PROVE Underway(l, m)'
  BY <1>14, <1>15 DEF Connect, nodeVars
<1>16. ASSUME UNCHANGED vars PROVE Underway(l, m)'
  BY <1>14, <1>16 DEF vars, nodeVars, linkVars
<1> QED
  BY <1>6, <1>7, <1>9, <1>10, <1>11, <1>12, <1>13, <1>15, <1>16 DEF Next, Reader

LEMMA ForwardedStep == ASSUME SpreadInv, [Next]_vars PROVE Forwarded'
<1> TypeOK
  BY DEF SpreadInv, TypeInv
<1>1. TypeInv /\ CopiesPublished /\ SendersHave /\ SeenMeansTaken /\ Forwarded
  BY DEF SpreadInv
<1> SUFFICES ASSUME NEW m \in published', m \notin lost', OnlyWithItsId(m)',
                    NEW l \in Link, m \in reached'[From(l)], Takes(To(l), m)
             PROVE  Underway(l, m)'
  BY DEF Forwarded, Takes
<1>2. From(l) \in Daemon /\ \A d \in Daemon : reached[d] \subseteq published
  BY <1>1, Streams DEF CopiesPublished
<1>3. CASE m \in reached[From(l)]
  <2>1. m \in published /\ m \notin lost /\ OnlyWithItsId(m)
    BY <1>1, <1>2, <1>3, HistoryGrows DEF OnlyWithItsId
  <2>2. Underway(l, m)
    BY <1>1, <1>3, <2>1 DEF Forwarded
  <2> QED
    BY <1>1, <2>1, <2>2, UnderwayStep
\* A message fanned out in this step: the daemon still has to forward it.
<1>4. CASE m \notin reached[From(l)]
  <2>1. ASSUME NEW d \in Daemon, NEW size \in Sizes[d], Publish(d, size) PROVE Underway(l, m)'
    <3>1. PICK k \in Message : FanOut(d, k) /\ outbox' = [outbox EXCEPT ![d] = @ \union {k}]
      BY <1>1, <2>1, PublishNew
    <3>2. From(l) = d /\ m = k
      BY <1>2, <1>4, <3>1 DEF FanOut, TypeOK
    <3> QED
      BY <3>1, <3>2 DEF Underway, TypeOK
  <2>2. ASSUME NEW s \in Stream, Ingest(s) PROVE Underway(l, m)'
    <3>1. PICK k \in Message : At(s, k, "new") /\ FanOut(Dst(s), k)
      BY <2>2, ReaderMessage DEF Ingest, At
    <3>2. Dst(s) = From(l) /\ m = k
      BY <1>2, <1>4, <3>1, StreamLink DEF FanOut, TypeOK
    <3>3. /\ reader' = [reader EXCEPT ![s].at = "fanned"] /\ reader[s] \in Reading
          /\ [reader[s] EXCEPT !.at = "fanned"] \in Reading
      BY <2>2, ReaderMessage DEF Ingest, Reading
    <3>4. At(s, k, "fanned")'
      BY <3>1, <3>3, NoMsgAssumption DEF TypeOK, Reading, At
    <3> QED
      BY <3>2, <3>4 DEF Underway
  <2>3. ASSUME reached' = reached PROVE FALSE
    BY <1>4, <2>3
  <2>4. ASSUME NEW d \in Daemon, ForwardLocal(d) \/ Crash(d) PROVE FALSE
    BY <2>3, <2>4 DEF ForwardLocal, Crash, seenHist
  <2>5. ASSUME NEW s \in Stream, ReadOversize(s) \/ ReadFeed(s) \/ PassOn(s) PROVE FALSE
    BY <2>3, <2>5 DEF ReadOversize, ReadFeed, PassOn, seenHist
  <2>6. ASSUME NEW k \in Link, Connect(k) \/ Break(k) PROVE FALSE
    BY <2>3, <2>6 DEF Connect, Break, seenHist
  <2>7. ASSUME UNCHANGED vars PROVE FALSE
    BY <2>3, <2>7 DEF vars, seenHist
  <2> QED
    BY <2>1, <2>2, <2>4, <2>5, <2>6, <2>7 DEF Next, Reader
<1> QED
  BY <1>3, <1>4

LEMMA SpreadInvariant == Spec => []SpreadInv
<1>1. SpreadInv /\ [Next]_vars => SpreadInv'
  BY TypeStep, NumberedStep, CopiesStep, SendersHaveStep, StaysWithinStep,
     SeenMeansTakenStep, ForwardedStep DEF SpreadInv, TypeInv
<1> QED
  BY SpreadInvInit, <1>1, PTL DEF Spec

\* With nothing under way, what one daemon fanned out the next one did too.
LEMMA QuietSpread == SpreadInv => EveryoneGets
<1> SUFFICES ASSUME SpreadInv, Quiet, NEW m \in published \ lost, OnlyWithItsId(m),
                    NEW d \in Daemon
             PROVE  m \in reached[d] <=> Takes(d, m) /\ Within(m, d)
  BY DEF EveryoneGets
<1> TypeOK /\ SendersHave /\ StaysWithin /\ Forwarded
  BY DEF SpreadInv, TypeInv
<1>1. ASSUME m \in reached[d] PROVE Takes(d, m) /\ Within(m, d)
  BY <1>1 DEF StaysWithin
<1>2. ASSUME NEW l \in Link, m \in reached[From(l)], Takes(To(l), m) PROVE m \in reached[To(l)]
  <2>1. /\ \A e \in Daemon : outbox[e] \subseteq InFlight
        /\ \A s \in Stream : Range(flow[s]) \subseteq InFlight
        /\ \A s \in Stream : reader[s] # NoMsg => reader[s].msg \in InFlight
    BY DEF InFlight
  <2>2. m \notin outbox[From(l)]
    BY <2>1, Streams DEF Quiet
  <2>3. m \notin Range(flow[Live(l)]) \union Range(flow[Dying(l)])
    BY <2>1, Streams DEF Quiet
  <2>4. \A s \in Stream : ~ At(s, m, "fanned") /\ ~ At(s, m, "new")
    BY <2>1 DEF Quiet, At
  <2>5. Underway(l, m)
    BY <1>2 DEF Forwarded
  <2> QED
    BY <2>2, <2>3, <2>4, <2>5 DEF Underway
<1>3. ASSUME Takes(d, m), Within(m, d), m \notin reached[d] PROVE FALSE
  <2> DEFINE S == {e \in Daemon : Takes(e, m) /\ m \in reached[e]}
             takers == {e \in Daemon : Takes(e, m)}
  <2>1. m.origin \in S
    <3>1. m.origin \in Daemon
      BY MessageParts DEF TypeOK
    <3>2. m \in reached[m.origin]
      BY DEF SendersHave
    <3> QED
      BY <3>1, <3>2 DEF StaysWithin
  <2>2. S \in SUBSET takers /\ d \notin S
    BY <1>3
  <2>3. PICK l \in Link : From(l) \in S /\ To(l) \in takers \ S
    BY <1>3, <2>1, <2>2 DEF Within
  <2> QED
    BY <1>2, <2>3
<1> QED
  BY <1>1, <1>3

\* Once a cluster is quiet, every message with an id of its own of which no frame
\* was dropped or cut off has been fanned out exactly where paths of daemons with
\* room for it lead: neither the seen-set, nor the rule that spares the sender,
\* nor two copies racing through two readers withholds it from anyone
\* (handle_feed, Cluster::broadcast).
THEOREM Delivery == Spec => []EveryoneGets
  BY SpreadInvariant, QuietSpread, PTL
=============================================================================
