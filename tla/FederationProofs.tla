-------------------------- MODULE FederationProofs --------------------------
(***************************************************************************)
(* What holds of the federated type table for every cluster, topology,     *)
(* queue depth and number of failures.                                     *)
(***************************************************************************)
EXTENDS Federation, SequenceLemmas, TLAPS

-----------------------------------------------------------------------------
(* Type correctness.                                                       *)

\* A REGISTER that creates a record creates one of the right shape.
LEMMA RegisterRecord ==
    ASSUME NEW d \in Daemon, NEW t \in Type, NEW k \in Key,
           NEW c \in Nat, NEW ts \in c .. MaxTs
    PROVE  /\ [key |-> k, origin |-> d, ts |-> ts] \in TypeReg
           /\ [type |-> t, reg |-> [key |-> k, origin |-> d, ts |-> ts]] \in Rreg
  BY BoundAssumption DEF TypeReg, Rreg

\* handle_rreg keeps the shape of the table and of the pending broadcasts.
LEMMA HandleType ==
    ASSUME TypeOK, NEW l \in Link, NEW f \in Rreg, HandleRreg(l, f)
    PROVE  /\ types' \in [Daemon -> Table]
           /\ todo' \in [Daemon -> SUBSET Broadcasts]
<1>1. From(l) \in Daemon /\ To(l) \in Daemon
  BY LinkAssumption DEF From, To
<1>2. f.type \in Type /\ f.reg \in TypeReg
  BY DEF Rreg
<1>3. [frame |-> f, exclude |-> From(l)] \in Broadcasts
  BY <1>1 DEF Broadcasts
<1>4. CASE Wins(f.reg, types[To(l)][f.type])
  <2>1. /\ types' = [types EXCEPT ![To(l)][f.type] = f.reg]
        /\ todo' = [todo EXCEPT ![To(l)] =
                       @ \union {[frame |-> f, exclude |-> From(l)]}]
    BY <1>4 DEF HandleRreg
  <2> QED
    BY <2>1, <1>1, <1>2, <1>3 DEF TypeOK, Table
<1>5. CASE ~ Wins(f.reg, types[To(l)][f.type])
  BY <1>5 DEF HandleRreg, TypeOK
<1> QED
  BY <1>4, <1>5

LEMMA TypeInit == Init => TypeOK
<1> SUFFICES ASSUME Init PROVE TypeOK
  OBVIOUS
<1>1. EmptyTable \in Table
  BY DEF EmptyTable, Table
<1>2. <<>> \in Seq(Rreg)
  BY RangeEmpty
<1> QED
  BY <1>1, <1>2 DEF Init, TypeOK, Phase

LEMMA TypeStep == TypeOK /\ [Next]_vars => TypeOK'
<1> SUFFICES ASSUME TypeOK, [Next]_vars PROVE TypeOK'
  OBVIOUS
<1> USE DEF TypeOK
<1>1. ASSUME NEW d \in Daemon, NEW t \in Type, NEW k \in Key, NEW ts \in 0 .. MaxTs,
             Register(d, t, k, ts)
      PROVE  TypeOK'
  <2> DEFINE r == [key |-> k, origin |-> d, ts |-> ts]
             f == [type |-> t, reg |-> r]
  <2>1. clock[d] \in Nat /\ ts \in clock[d] .. MaxTs /\ ts \in Nat
    BY <1>1, BoundAssumption DEF Register
  <2>2. r \in TypeReg /\ f \in Rreg
    BY <2>1, RegisterRecord
  <2>3. [frame |-> f, exclude |-> d] \in Broadcasts
    BY <2>2 DEF Broadcasts
  <2>4. types' = [types EXCEPT ![d][t] = r]
        /\ todo' = [todo EXCEPT ![d] = @ \union {[frame |-> f, exclude |-> d]}]
        /\ issued' = issued \union {f}
        /\ clock' = clock
    BY <1>1 DEF Register
  <2> HIDE DEF r, f
  <2>5. types' \in [Daemon -> Table]
    BY <2>2, <2>4 DEF Table
  <2>6. todo' \in [Daemon -> SUBSET Broadcasts] /\ issued' \in SUBSET Rreg
        /\ clock' \in [Daemon -> Nat]
    BY <2>1, <2>2, <2>3, <2>4
  <2> QED
    BY <1>1, <2>5, <2>6 DEF Register
<1>2. ASSUME NEW d \in Daemon, Broadcast(d) PROVE TypeOK'
  <2>1. PICK b \in todo[d] :
            LET sends == {l \in Link : From(l) = d /\ Addressed(b, l)}
                full  == {l \in sends : Len(queue[l]) >= QueueDepth}
            IN  /\ todo' = [todo EXCEPT ![d] = @ \ {b}]
                /\ queue' = [l \in Link |-> IF l \in sends \ full
                                            THEN Append(queue[l], b.frame)
                                            ELSE queue[l]]
                /\ lost' = [l \in Link |-> lost[l] \/ l \in full]
    BY <1>2 DEF Broadcast
  <2>2. b.frame \in Rreg
    BY DEF Broadcasts
  <2>3. \A l \in Link : Append(queue[l], b.frame) \in Seq(Rreg)
    BY <2>2, RangeAppend
  <2>4. queue' \in [Link -> Seq(Rreg)] /\ lost' \in [Link -> BOOLEAN]
    BY <2>1, <2>3
  <2> QED
    BY <1>2, <2>1, <2>4 DEF Broadcast
<1>3. ASSUME NEW d \in Daemon, Crash(d) PROVE TypeOK'
  <2>1. EmptyTable \in Table
    BY DEF EmptyTable, Table
  <2>2. \A l \in Link : stale[l] \o wire[l] \in Seq(Rreg) /\ <<>> \in Seq(Rreg)
    BY RangeConcat, RangeEmpty
  <2>3. clock' \in [Daemon -> Nat]
    <3>1. PICK n \in NextStart(d) : clock' = [clock EXCEPT ![d] = n]
      BY <1>3 DEF Crash
    <3>2. n \in Nat
      BY <3>1, GapAssumption, BoundAssumption DEF NextStart
    <3> QED
      BY <3>1, <3>2
  <2>4. link' \in [Link -> Phase] /\ orphan' \in [Link -> BOOLEAN]
    BY <1>3 DEF Crash, Phase
  <2>5. stale' \in [Link -> Seq(Rreg)] /\ wire' \in [Link -> Seq(Rreg)]
        /\ queue' \in [Link -> Seq(Rreg)]
    BY <1>3, <2>2 DEF Crash
  <2> QED
    BY <1>3, <2>1, <2>3, <2>4, <2>5 DEF Crash
<1>4. ASSUME NEW l \in Link, Connect(l) PROVE TypeOK'
  BY <1>4, RangeEmpty DEF Connect, Phase
<1>5. ASSUME NEW l \in Link, TakeSnapshot(l) PROVE TypeOK'
  <2>1. types[From(l)] \in Table
    BY LinkAssumption DEF From
  <2>2. Registrations(types[From(l)]) \in SUBSET Rreg
    BY <2>1 DEF Registrations, Table, Rreg
  <2> QED
    BY <1>5, <2>2 DEF TakeSnapshot, Phase
<1>6. ASSUME NEW l \in Link, Push(l) PROVE TypeOK'
  <2>1. PICK f \in snap[l] :
            /\ snap' = [snap EXCEPT ![l] = @ \ {f}]
            /\ IF Len(queue[l]) < QueueDepth
               THEN queue' = [queue EXCEPT ![l] = Append(@, f)] /\ UNCHANGED lost
               ELSE lost' = [lost EXCEPT ![l] = TRUE] /\ UNCHANGED queue
    BY <1>6 DEF Push
  <2>2. Append(queue[l], f) \in Seq(Rreg)
    BY RangeAppend
  <2>3. queue' \in [Link -> Seq(Rreg)] /\ lost' \in [Link -> BOOLEAN]
    BY <2>1, <2>2
  <2> QED
    BY <1>6, <2>1, <2>3 DEF Push
<1>7. ASSUME NEW l \in Link, StartLoops(l) PROVE TypeOK'
  BY <1>7 DEF StartLoops, Phase
<1>8. ASSUME NEW l \in Link, WriteLoop(l) PROVE TypeOK'
  <2>1. Head(queue[l]) \in Rreg /\ Tail(queue[l]) \in Seq(Rreg)
    BY <1>8, RangeHeadTail DEF WriteLoop
  <2>2. Append(wire[l], Head(queue[l])) \in Seq(Rreg)
    BY <2>1, RangeAppend
  <2> QED
    BY <1>8, <2>1, <2>2 DEF WriteLoop
<1>9. ASSUME NEW l \in Link, Close(l) PROVE TypeOK'
  BY <1>9, RangeEmpty DEF Close, Phase
<1>10. ASSUME NEW l \in Link, ReadWire(l) PROVE TypeOK'
  <2>1. Head(wire[l]) \in Rreg /\ Tail(wire[l]) \in Seq(Rreg)
    BY <1>10, RangeHeadTail DEF ReadWire
  <2>2. types' \in [Daemon -> Table] /\ todo' \in [Daemon -> SUBSET Broadcasts]
    BY <1>10, <2>1, HandleType DEF ReadWire
  <2> QED
    BY <1>10, <2>1, <2>2 DEF ReadWire
<1>11. ASSUME NEW l \in Link, ReadStale(l) PROVE TypeOK'
  <2>1. Head(stale[l]) \in Rreg /\ Tail(stale[l]) \in Seq(Rreg)
    BY <1>11, RangeHeadTail DEF ReadStale
  <2>2. types' \in [Daemon -> Table] /\ todo' \in [Daemon -> SUBSET Broadcasts]
    BY <1>11, <2>1, HandleType DEF ReadStale
  <2> QED
    BY <1>11, <2>1, <2>2 DEF ReadStale
<1>12. ASSUME NEW l \in Link, Break(l) PROVE TypeOK'
  <2>1. \A n \in 0 .. Len(wire[l]) : SubSeq(wire[l], 1, n) \in Seq(Rreg)
    BY RangePrefix
  <2>2. stale' \in [Link -> Seq(Rreg)]
    BY <1>12, <2>1 DEF Break
  <2> QED
    BY <1>12, <2>2, RangeEmpty DEF Break, Phase
<1>13. CASE UNCHANGED vars
  BY <1>13 DEF vars
<1> QED
  BY <1>1, <1>2, <1>3, <1>4, <1>5, <1>6, <1>7, <1>8, <1>9, <1>10, <1>11, <1>12, <1>13
  DEF Next

\* Every reachable state of the federation is well typed.
THEOREM TypeCorrect == Spec => []TypeOK
  BY TypeInit, TypeStep, PTL DEF Spec
-----------------------------------------------------------------------------
(* Where the frames of a link come from.                                   *)

\* The frames dial_once and write_loop hold for link l, and those they wrote.
Frames(l) == snap[l] \union Range(queue[l]) \union Range(wire[l])

\* The frames daemon d has still to broadcast.
Pending(d) == {b.frame : b \in todo[d]}

\* What the reader of l's dead stream has from a daemon that still runs.
Trusted(l) == IF orphan[l] THEN {} ELSE Range(stale[l])

\* A link is fed by its dialer's broadcasts and table alone; a dead stream
\* holds what the live one held.
LEMMA FrameFlow ==
    ASSUME TypeOK, [Next]_vars, NEW m \in Link
    PROVE  /\ Frames(m)' \subseteq Frames(m) \union Pending(From(m))
                                     \union Registrations(types[From(m)])
           /\ Range(stale'[m]) \subseteq Range(stale[m]) \union Range(wire[m])
           /\ Trusted(m)' \subseteq Trusted(m) \union Range(wire[m])
<1> DEFINE Goal == /\ Frames(m)' \subseteq Frames(m) \union Pending(From(m))
                                     \union Registrations(types[From(m)])
                   /\ Range(stale'[m]) \subseteq Range(stale[m]) \union Range(wire[m])
                   /\ Trusted(m)' \subseteq Trusted(m) \union Range(wire[m])
<1>0. /\ queue[m] \in Seq(Rreg) /\ wire[m] \in Seq(Rreg) /\ stale[m] \in Seq(Rreg)
      /\ From(m) \in Daemon /\ To(m) \in Daemon
  BY LinkAssumption DEF TypeOK, From, To
<1>1. ASSUME NEW d \in Daemon, NEW t \in Type, NEW k \in Key, NEW ts \in 0 .. MaxTs,
             Register(d, t, k, ts)
      PROVE  Goal
  BY <1>1 DEF Register, Frames, Trusted
<1>2. ASSUME NEW d \in Daemon, Broadcast(d) PROVE Goal
  <2>1. PICK b \in todo[d] :
            LET sends == {l \in Link : From(l) = d /\ Addressed(b, l)}
                full  == {l \in sends : Len(queue[l]) >= QueueDepth}
            IN  queue' = [l \in Link |-> IF l \in sends \ full
                                         THEN Append(queue[l], b.frame)
                                         ELSE queue[l]]
    BY <1>2 DEF Broadcast
  <2>2. queue'[m] = queue[m] \/ (From(m) = d /\ queue'[m] = Append(queue[m], b.frame))
    BY <2>1
  <2>3. b.frame \in Rreg /\ b.frame \in Pending(d)
    BY DEF TypeOK, Broadcasts, Pending
  <2>4. Range(Append(queue[m], b.frame)) = Range(queue[m]) \union {b.frame}
    BY <2>3, <1>0, RangeAppend
  <2>5. Range(queue'[m]) \subseteq Range(queue[m]) \union Pending(From(m))
    <3>1. CASE queue'[m] = queue[m]
      BY <3>1
    <3>2. CASE From(m) = d /\ queue'[m] = Append(queue[m], b.frame)
      BY <3>2, <2>3, <2>4
    <3> QED
      BY <2>2, <3>1, <3>2
  <2> QED
    BY <1>2, <2>5 DEF Broadcast, Frames, Trusted
<1>3. ASSUME NEW d \in Daemon, Crash(d) PROVE Goal
  <2>1. Range(<<>>) = {}
    BY RangeEmpty
  <2>2. Range(stale[m] \o wire[m]) = Range(stale[m]) \union Range(wire[m])
    BY <1>0, RangeConcat
  <2>3. /\ snap'[m] = {} \/ snap'[m] = snap[m]
        /\ queue'[m] = <<>> \/ queue'[m] = queue[m]
        /\ wire'[m] = <<>> \/ wire'[m] = wire[m]
        /\ IF From(m) = d THEN stale'[m] = stale[m] \o wire[m] /\ orphan'[m]
                          ELSE /\ stale'[m] = <<>> \/ stale'[m] = stale[m]
                               /\ orphan'[m] = orphan[m]
    BY <1>3 DEF Crash, TypeOK
  <2> QED
    BY <2>1, <2>2, <2>3 DEF Frames, Trusted
<1>4. ASSUME NEW l \in Link, Connect(l) PROVE Goal
  BY <1>4, RangeEmpty DEF Connect, Frames, Trusted, TypeOK
<1>5. ASSUME NEW l \in Link, TakeSnapshot(l) PROVE Goal
  BY <1>5 DEF TakeSnapshot, Frames, Trusted, TypeOK
<1>6. ASSUME NEW l \in Link, Push(l) PROVE Goal
  <2>1. PICK f \in snap[l] :
            /\ snap' = [snap EXCEPT ![l] = @ \ {f}]
            /\ \/ queue' = [queue EXCEPT ![l] = Append(@, f)]
               \/ UNCHANGED queue
    BY <1>6 DEF Push
  <2>2. f \in Rreg
    BY DEF TypeOK
  <2>3. queue'[m] = queue[m] \/ (m = l /\ queue'[m] = Append(queue[m], f))
    BY <2>1 DEF TypeOK
  <2>4. snap'[m] \subseteq snap[m]
    BY <2>1 DEF TypeOK
  <2>5. Range(Append(queue[m], f)) = Range(queue[m]) \union {f}
    BY <2>2, <1>0, RangeAppend
  <2>6. Range(queue'[m]) \subseteq Range(queue[m]) \union snap[m]
    BY <2>3, <2>5
  <2> QED
    BY <1>6, <2>4, <2>6 DEF Push, Frames, Trusted
<1>7. ASSUME NEW l \in Link, StartLoops(l) PROVE Goal
  BY <1>7 DEF StartLoops, Frames, Trusted
<1>8. ASSUME NEW l \in Link, WriteLoop(l) PROVE Goal
  <2>1. CASE m = l
    <3>1. queue[m] # <<>> /\ queue'[m] = Tail(queue[m])
          /\ wire'[m] = Append(wire[m], Head(queue[m]))
      BY <1>8, <2>1 DEF WriteLoop, TypeOK
    <3>2. Head(queue[m]) \in Rreg
          /\ Range(queue[m]) = {Head(queue[m])} \union Range(Tail(queue[m]))
      BY <3>1, <1>0, RangeHeadTail
    <3>3. Range(wire'[m]) = Range(wire[m]) \union {Head(queue[m])}
      BY <3>1, <3>2, <1>0, RangeAppend
    <3> QED
      BY <1>8, <3>1, <3>2, <3>3 DEF WriteLoop, Frames, Trusted
  <2>2. CASE m # l
    BY <1>8, <2>2 DEF WriteLoop, Frames, Trusted, TypeOK
  <2> QED
    BY <2>1, <2>2
<1>9. ASSUME NEW l \in Link, Close(l) PROVE Goal
  BY <1>9, RangeEmpty DEF Close, Frames, Trusted, TypeOK
<1>10. ASSUME NEW l \in Link, ReadWire(l) PROVE Goal
  <2>1. wire'[m] = wire[m] \/ (wire[m] # <<>> /\ wire'[m] = Tail(wire[m]))
    BY <1>10 DEF ReadWire, TypeOK
  <2>2. Range(wire'[m]) \subseteq Range(wire[m])
    BY <2>1, <1>0, RangeHeadTail
  <2> QED
    BY <1>10, <2>2 DEF ReadWire, Frames, Trusted
<1>11. ASSUME NEW l \in Link, ReadStale(l) PROVE Goal
  <2>1. stale'[m] = stale[m] \/ (stale[m] # <<>> /\ stale'[m] = Tail(stale[m]))
    BY <1>11 DEF ReadStale, TypeOK
  <2>2. Range(stale'[m]) \subseteq Range(stale[m])
    BY <2>1, <1>0, RangeHeadTail
  <2> QED
    BY <1>11, <2>2 DEF ReadStale, Frames, Trusted
<1>12. ASSUME NEW l \in Link, Break(l) PROVE Goal
  <2>1. CASE m = l
    <3>1. PICK n \in 0 .. Len(wire[m]) : stale'[m] = SubSeq(wire[m], 1, n)
      BY <1>12, <2>1 DEF Break, TypeOK
    <3>2. Range(stale'[m]) \subseteq Range(wire[m])
      BY <3>1, <1>0, RangePrefix
    <3> QED
      BY <1>12, <2>1, <3>2, RangeEmpty DEF Break, Frames, Trusted, TypeOK
  <2>2. CASE m # l
    BY <1>12, <2>2 DEF Break, Frames, Trusted, TypeOK
  <2> QED
    BY <2>1, <2>2
<1>13. CASE UNCHANGED vars
  BY <1>13 DEF vars, Frames, Trusted
<1> QED
  BY <1>1, <1>2, <1>3, <1>4, <1>5, <1>6, <1>7, <1>8, <1>9, <1>10, <1>11, <1>12, <1>13
  DEF Next
-----------------------------------------------------------------------------
(* The order on records, and what handle_rreg does with it.                *)

\* TypeReg::tuple orders records totally, up to their keys.
LEMMA LowerOrder ==
    ASSUME NEW a \in TypeReg, NEW b \in TypeReg, NEW c \in TypeReg
    PROVE  /\ ~ Lower(a, a)
           /\ Lower(a, b) => ~ Lower(b, a)
           /\ ~ Lower(a, b) /\ ~ Lower(b, c) => ~ Lower(a, c)
           /\ ~ Lower(a, b) /\ ~ Lower(b, a) => a.ts = b.ts /\ a.origin = b.origin
<1>1. /\ a.ts \in Nat /\ b.ts \in Nat /\ c.ts \in Nat
      /\ a.origin \in Nat /\ b.origin \in Nat /\ c.origin \in Nat
  BY DaemonAssumption DEF TypeReg
<1> QED
  BY <1>1 DEF Lower

\* Daemon d holds a record for f's type that f would not lose to.
Known(d, f) == types[d][f.type] # NoReg /\ ~ Lower(f.reg, types[d][f.type])

\* handle_rreg changes at most the entry the frame is about, to the frame's
\* record, and then has that record to broadcast; in the end the table holds
\* a record no later than the frame's.
LEMMA Handled ==
    ASSUME TypeOK, NEW l \in Link, NEW f \in Rreg, HandleRreg(l, f)
    PROVE  /\ \A d \in Daemon, t \in Type :
                 \/ types'[d][t] = types[d][t]
                 \/ /\ d = To(l) /\ t = f.type /\ Wins(f.reg, types[d][t])
                    /\ types'[d][t] = f.reg
                    /\ [frame |-> f, exclude |-> From(l)] \in todo'[d]
           /\ \A d \in Daemon : \A b \in todo'[d] :
                 \/ b \in todo[d]
                 \/ /\ d = To(l) /\ b = [frame |-> f, exclude |-> From(l)]
                    /\ types'[d][f.type] = f.reg
           /\ \A d \in Daemon : todo[d] \subseteq todo'[d]
           /\ Known(To(l), f)'
<1>1. /\ From(l) \in Daemon /\ To(l) \in Daemon
      /\ f.type \in Type /\ f.reg \in TypeReg
  BY LinkAssumption DEF From, To, Rreg
<1>2. CASE Wins(f.reg, types[To(l)][f.type])
  <2>1. /\ types' = [types EXCEPT ![To(l)][f.type] = f.reg]
        /\ todo' = [todo EXCEPT ![To(l)] =
                       @ \union {[frame |-> f, exclude |-> From(l)]}]
    BY <1>2 DEF HandleRreg
  <2>2. types'[To(l)][f.type] = f.reg
    BY <2>1, <1>1 DEF TypeOK, Table
  <2>3. Known(To(l), f)'
    BY <2>2, <1>1, LowerOrder, NoRegAssumption DEF Known
  <2>4. \A d \in Daemon, t \in Type :
            d # To(l) \/ t # f.type => types'[d][t] = types[d][t]
    BY <2>1, <1>1 DEF TypeOK, Table
  <2>5. \A d \in Daemon : todo'[d] = IF d = To(l)
                THEN todo[d] \union {[frame |-> f, exclude |-> From(l)]} ELSE todo[d]
    BY <2>1, <1>1 DEF TypeOK
  <2> QED
    BY <1>2, <2>2, <2>3, <2>4, <2>5
<1>3. CASE ~ Wins(f.reg, types[To(l)][f.type])
  <2>1. UNCHANGED <<types, todo>>
    BY <1>3 DEF HandleRreg
  <2> QED
    BY <1>3, <2>1 DEF Wins, Known
<1> QED
  BY <1>2, <1>3

\* The same of one entry of one table.
LEMMA HandledEntry ==
    ASSUME TypeOK, NEW l \in Link, NEW f \in Rreg, HandleRreg(l, f),
           NEW d \in Daemon, NEW t \in Type
    PROVE  \/ types'[d][t] = types[d][t]
           \/ /\ t = f.type /\ types'[d][t] = f.reg /\ Wins(f.reg, types[d][t])
<1>1. \A e \in Daemon, u \in Type :
         \/ types'[e][u] = types[e][u]
         \/ /\ e = To(l) /\ u = f.type /\ Wins(f.reg, types[e][u])
            /\ types'[e][u] = f.reg
            /\ [frame |-> f, exclude |-> From(l)] \in todo'[e]
  BY Handled
<1> QED
  BY <1>1

\* The frame read_loop takes, and the rest of the step.
LEMMA FrameRead ==
    ASSUME TypeOK, NEW l \in Link
    PROVE  /\ ReadWire(l) => /\ Head(wire[l]) \in Rreg /\ Head(wire[l]) \in Range(wire[l])
                             /\ HandleRreg(l, Head(wire[l]))
           /\ ReadStale(l) => /\ Head(stale[l]) \in Rreg
                              /\ Head(stale[l]) \in Range(stale[l])
                              /\ HandleRreg(l, Head(stale[l]))
<1>1. wire[l] \in Seq(Rreg) /\ stale[l] \in Seq(Rreg)
  BY DEF TypeOK
<1>2. ASSUME ReadWire(l)
      PROVE  /\ Head(wire[l]) \in Rreg /\ Head(wire[l]) \in Range(wire[l])
             /\ HandleRreg(l, Head(wire[l]))
  BY <1>1, <1>2, RangeHeadTail DEF ReadWire
<1>3. ASSUME ReadStale(l)
      PROVE  /\ Head(stale[l]) \in Rreg /\ Head(stale[l]) \in Range(stale[l])
             /\ HandleRreg(l, Head(stale[l]))
  BY <1>1, <1>3, RangeHeadTail DEF ReadStale
<1> QED
  BY <1>2, <1>3

-----------------------------------------------------------------------------
(* A claim names one key.                                                  *)

\* Every record anywhere was created by a REGISTER.
RecordsIssued ==
    /\ \A d \in Daemon, t \in Type :
          types[d][t] # NoReg => [type |-> t, reg |-> types[d][t]] \in issued
    /\ \A l \in Link : Frames(l) \union Range(stale[l]) \subseteq issued
    /\ \A d \in Daemon : Pending(d) \subseteq issued

\* A daemon's claims to a type it does not hold are earlier than its start: it
\* lost them in a restart.
ClaimsPast ==
    \A i \in issued :
        types[i.reg.origin][i.type] = NoReg => i.reg.ts < clock[i.reg.origin]

\* No two claims for a type have the same daemon and instant.
ClaimsDistinct ==
    \A i, j \in issued :
        i.type = j.type /\ i.reg.origin = j.reg.origin /\ i.reg.ts = j.reg.ts => i = j

LEMMA RecordsIssuedStep ==
    ASSUME TypeOK, RecordsIssued, [Next]_vars
    PROVE  RecordsIssued'
<1>1. issued \subseteq issued'
  BY DEF Next, vars, Register, Broadcast, Crash, Connect, TakeSnapshot, Push,
         StartLoops, WriteLoop, Close, ReadWire, ReadStale, Break
<1>2. ASSUME NEW d \in Daemon PROVE Registrations(types[d]) \subseteq issued
  BY DEF RecordsIssued, Registrations
<1>3. ASSUME NEW l \in Link PROVE (Frames(l) \union Range(stale[l]))' \subseteq issued'
  <2>1. From(l) \in Daemon
    BY LinkAssumption DEF From
  <2>2. Range(wire[l]) \subseteq Frames(l)
    BY DEF Frames
  <2> QED
    BY <1>1, <1>2, <2>1, <2>2, FrameFlow DEF RecordsIssued
<1> DEFINE TablesIssued ==
        /\ \A d \in Daemon, t \in Type :
              types'[d][t] # NoReg => [type |-> t, reg |-> types'[d][t]] \in issued'
        /\ \A d \in Daemon : \A b \in todo'[d] : b.frame \in issued'
<1>4. ASSUME NEW l \in Link, NEW f \in issued, f \in Rreg, HandleRreg(l, f)
      PROVE  TablesIssued
  <2>1. f = [type |-> f.type, reg |-> f.reg]
    BY <1>4 DEF Rreg
  <2>2. ASSUME NEW d \in Daemon, NEW t \in Type, types'[d][t] # NoReg
        PROVE  [type |-> t, reg |-> types'[d][t]] \in issued
    <3>1. \/ types'[d][t] = types[d][t]
          \/ t = f.type /\ types'[d][t] = f.reg
      BY <1>4, HandledEntry
    <3> QED
      BY <1>4, <2>1, <2>2, <3>1 DEF RecordsIssued
  <2>3. ASSUME NEW d \in Daemon, NEW b \in todo'[d] PROVE b.frame \in issued
    <3>1. b \in todo[d] \/ b = [frame |-> f, exclude |-> From(l)]
      BY <1>4, Handled
    <3> QED
      BY <1>4, <3>1 DEF RecordsIssued, Pending
  <2> QED
    BY <1>1, <2>2, <2>3
<1>5. ASSUME NEW l \in Link, ReadWire(l) PROVE TablesIssued
  <2>1. Head(wire[l]) \in issued
    BY <1>5, FrameRead DEF RecordsIssued, Frames
  <2> QED
    BY <1>4, <1>5, <2>1, FrameRead
<1>6. ASSUME NEW l \in Link, ReadStale(l) PROVE TablesIssued
  <2>1. Head(stale[l]) \in issued
    BY <1>6, FrameRead DEF RecordsIssued
  <2> QED
    BY <1>4, <1>6, <2>1, FrameRead
<1>7. ASSUME NEW d \in Daemon, NEW t \in Type, NEW k \in Key, NEW ts \in 0 .. MaxTs,
             Register(d, t, k, ts)
      PROVE  TablesIssued
  <2> DEFINE r == [key |-> k, origin |-> d, ts |-> ts]
             f == [type |-> t, reg |-> r]
  <2>1. /\ types' = [types EXCEPT ![d][t] = r]
        /\ todo' = [todo EXCEPT ![d] = @ \union {[frame |-> f, exclude |-> d]}]
        /\ issued' = issued \union {f}
    BY <1>7 DEF Register
  <2>2. \A e \in Daemon, u \in Type :
            types'[e][u] = IF e = d /\ u = t THEN r ELSE types[e][u]
    BY <2>1 DEF TypeOK, Table
  <2>3. \A e \in Daemon : \A b \in todo'[e] : b \in todo[e] \/ b.frame = f
    BY <2>1 DEF TypeOK
  <2> HIDE DEF r
  <2> QED
    BY <1>1, <2>1, <2>2, <2>3 DEF RecordsIssued, Pending
<1>8. ASSUME NEW d \in Daemon, Crash(d) PROVE TablesIssued
  <2>1. \A e \in Daemon : /\ types'[e] = IF e = d THEN EmptyTable ELSE types[e]
                          /\ todo'[e] = IF e = d THEN {} ELSE todo[e]
    BY <1>8 DEF Crash, TypeOK
  <2> QED
    BY <1>1, <2>1 DEF RecordsIssued, Pending, EmptyTable
<1>9. ASSUME NEW d \in Daemon, Broadcast(d) PROVE TablesIssued
  <2>1. types' = types /\ \A e \in Daemon : todo'[e] \subseteq todo[e]
    BY <1>9 DEF Broadcast, TypeOK
  <2> QED
    BY <1>1, <2>1 DEF RecordsIssued, Pending
<1>10. ASSUME UNCHANGED <<types, todo>> PROVE TablesIssued
  <2>1. types' = types /\ todo' = todo
    BY <1>10
  <2> QED
    BY <1>1, <2>1 DEF RecordsIssued, Pending
<1>11. TablesIssued
  <2>1. CASE \E l \in Link : \/ Connect(l) \/ TakeSnapshot(l) \/ Push(l) \/ StartLoops(l)
                             \/ WriteLoop(l) \/ Close(l) \/ Break(l)
    <3>1. UNCHANGED <<types, todo>>
      BY <2>1 DEF Connect, TakeSnapshot, Push, StartLoops, WriteLoop, Close, Break
    <3> QED
      BY <1>10, <3>1
  <2>2. CASE UNCHANGED vars
    BY <1>10, <2>2 DEF vars
  <2> QED
    BY <1>5, <1>6, <1>7, <1>8, <1>9, <2>1, <2>2 DEF Next
<1>12. \A d \in Daemon : Pending(d)' \subseteq issued'
  BY <1>11 DEF Pending
<1> QED
  BY <1>3, <1>11, <1>12 DEF RecordsIssued
\* The one step that creates a claim gives it an instant of its own.
LEMMA RegisterClaims ==
    ASSUME TypeOK, ClaimsPast, ClaimsDistinct,
           NEW d \in Daemon, NEW t \in Type, NEW k \in Key, NEW ts \in 0 .. MaxTs,
           Register(d, t, k, ts)
    PROVE  ClaimsPast' /\ ClaimsDistinct'
<1> DEFINE r == [key |-> k, origin |-> d, ts |-> ts]
           f == [type |-> t, reg |-> r]
<1>1. /\ types[d][t] = NoReg
      /\ clock[d] \in Nat /\ ts \in Nat /\ clock[d] <= ts
  BY BoundAssumption DEF Register, Claimable, TypeOK
<1>2. /\ types' = [types EXCEPT ![d][t] = r]
      /\ clock' = clock
      /\ issued' = issued \union {f}
  BY DEF Register
<1>3. r \in TypeReg /\ r # NoReg /\ r.ts = ts /\ r.origin = d
  BY <1>1, NoRegAssumption DEF TypeReg
<1>4. f.type = t /\ f.reg = r
  OBVIOUS
<1>5. \A i \in issued : i.type \in Type /\ i.reg.ts \in Nat /\ i.reg.origin \in Daemon
  BY DEF TypeOK, Rreg, TypeReg
<1>6. \A e \in Daemon, u \in Type :
          types'[e][u] = IF e = d /\ u = t THEN r ELSE types[e][u]
  BY <1>2 DEF TypeOK, Table
<1> HIDE DEF r, f
<1>7. ClaimsPast'
  <2> SUFFICES ASSUME NEW i \in issued', types'[i.reg.origin][i.type] = NoReg
               PROVE  i.reg.ts < clock[i.reg.origin]
    BY <1>2 DEF ClaimsPast
  <2>1. i # f
    BY <1>3, <1>4, <1>6
  <2>2. i \in issued /\ i.type \in Type /\ i.reg.origin \in Daemon
    BY <2>1, <1>2, <1>5
  <2>3. types[i.reg.origin][i.type] = NoReg
    BY <2>2, <1>3, <1>6
  <2> QED
    BY <2>2, <2>3 DEF ClaimsPast
<1>8. \A i \in issued : ~ (i.type = t /\ i.reg.origin = d /\ i.reg.ts = ts)
  BY <1>1, <1>5 DEF ClaimsPast
<1>9. ClaimsDistinct'
  BY <1>2, <1>3, <1>4, <1>8 DEF ClaimsDistinct
<1> QED
  BY <1>7, <1>9

LEMMA ClaimsStep ==
    ASSUME RestartGap > 0, TypeOK, ClaimsPast, ClaimsDistinct, [Next]_vars
    PROVE  ClaimsPast' /\ ClaimsDistinct'
<1>1. \A i \in issued : i.type \in Type /\ i.reg.ts \in Nat /\ i.reg.origin \in Daemon
  BY DEF TypeOK, Rreg, TypeReg
<1>2. ASSUME NEW l \in Link, NEW f \in Rreg, HandleRreg(l, f), UNCHANGED <<clock, issued>>
      PROVE  ClaimsPast' /\ ClaimsDistinct'
  <2>1. \A d \in Daemon, t \in Type : types'[d][t] = NoReg => types[d][t] = NoReg
    <3>1. f.reg # NoReg
      BY NoRegAssumption DEF Rreg
    <3> QED
      BY <1>2, <3>1, HandledEntry
  <2>2. clock' = clock /\ issued' = issued
    BY <1>2
  <2> QED
    BY <1>1, <2>1, <2>2 DEF ClaimsPast, ClaimsDistinct
<1>3. ASSUME NEW l \in Link, ReadWire(l) PROVE ClaimsPast' /\ ClaimsDistinct'
  <2>1. UNCHANGED <<clock, issued>>
    BY <1>3 DEF ReadWire
  <2> QED
    BY <1>2, <1>3, <2>1, FrameRead
<1>4. ASSUME NEW l \in Link, ReadStale(l) PROVE ClaimsPast' /\ ClaimsDistinct'
  <2>1. UNCHANGED <<clock, issued>>
    BY <1>4 DEF ReadStale
  <2> QED
    BY <1>2, <1>4, <2>1, FrameRead
<1>5. ASSUME NEW d \in Daemon, Crash(d) PROVE ClaimsPast' /\ ClaimsDistinct'
  <2>1. PICK n \in NextStart(d) : clock' = [clock EXCEPT ![d] = n]
    BY <1>5 DEF Crash
  <2>2. \A e \in Daemon : e # d => clock'[e] = clock[e] /\ types'[e] = types[e]
    BY <1>5, <2>1 DEF Crash, TypeOK
  <2>3. issued' = issued
    BY <1>5 DEF Crash
  <2>4. ASSUME NEW i \in issued, types'[i.reg.origin][i.type] = NoReg
        PROVE  i.reg.ts < clock'[i.reg.origin]
    <3>1. CASE i.reg.origin = d
      <4>1. i.reg.ts + RestartGap <= n /\ n \in Nat /\ clock'[d] = n
        BY <3>1, <2>1, GapAssumption, BoundAssumption DEF NextStart, TypeOK
      <4> QED
        BY <3>1, <4>1, <1>1, GapAssumption
    <3>2. CASE i.reg.origin # d
      BY <3>2, <1>1, <2>2, <2>4 DEF ClaimsPast
    <3> QED
      BY <3>1, <3>2
  <2> QED
    BY <2>3, <2>4 DEF ClaimsPast, ClaimsDistinct
<1>6. ASSUME UNCHANGED <<types, clock, issued>> PROVE ClaimsPast' /\ ClaimsDistinct'
  <2>1. types' = types /\ clock' = clock /\ issued' = issued
    BY <1>6
  <2> QED
    BY <2>1 DEF ClaimsPast, ClaimsDistinct
<1>7. CASE \/ \E d \in Daemon : Broadcast(d)
           \/ \E l \in Link : \/ Connect(l) \/ TakeSnapshot(l) \/ Push(l) \/ StartLoops(l)
                              \/ WriteLoop(l) \/ Close(l) \/ Break(l)
           \/ UNCHANGED vars
  <2>1. UNCHANGED <<types, clock, issued>>
    BY <1>7 DEF Broadcast, Connect, TakeSnapshot, Push, StartLoops, WriteLoop, Close,
                Break, vars
  <2> QED
    BY <1>6, <2>1
<1> QED
  BY <1>3, <1>4, <1>5, <1>7, RegisterClaims DEF Next

\* The claims behind every record: what makes OneKeyPerClaim inductive.
ClaimInv == TypeOK /\ RecordsIssued /\ ClaimsPast /\ ClaimsDistinct

LEMMA ClaimInvInit == Init => ClaimInv
<1> SUFFICES ASSUME Init PROVE ClaimInv
  OBVIOUS
<1>1. TypeOK
  BY TypeInit
<1>2. RecordsIssued
  BY RangeEmpty DEF Init, RecordsIssued, Frames, Pending, EmptyTable
<1>3. ClaimsPast /\ ClaimsDistinct
  BY DEF Init, ClaimsPast, ClaimsDistinct
<1> QED
  BY <1>1, <1>2, <1>3 DEF ClaimInv

LEMMA ClaimInvStep ==
    ASSUME RestartGap > 0 PROVE ClaimInv /\ [Next]_vars => ClaimInv'
  BY TypeStep, RecordsIssuedStep, ClaimsStep DEF ClaimInv

LEMMA ClaimInvOneKey == ClaimInv => OneKeyPerClaim
<1> SUFFICES ASSUME ClaimInv, NEW d \in Daemon, NEW e \in Daemon, NEW t \in Type,
                    types[d][t] # NoReg, types[e][t] # NoReg,
                    types[d][t].ts = types[e][t].ts,
                    types[d][t].origin = types[e][t].origin
             PROVE  types[d][t].key = types[e][t].key
  BY DEF OneKeyPerClaim
<1> DEFINE i == [type |-> t, reg |-> types[d][t]]
           j == [type |-> t, reg |-> types[e][t]]
<1>1. i \in issued /\ j \in issued
  BY DEF ClaimInv, RecordsIssued
<1>2. i = j
  BY <1>1 DEF ClaimInv, ClaimsDistinct
<1>3. i.reg = j.reg
  BY <1>2
<1> QED
  BY <1>3

\* A claim names one key at every daemon, if a daemon's clock advances over its
\* restarts.
THEOREM OneKey == ASSUME RestartGap > 0 PROVE Spec => []OneKeyPerClaim
<1>1. Init => ClaimInv
  BY ClaimInvInit
<1>2. ClaimInv /\ [Next]_vars => ClaimInv'
  BY ClaimInvStep
<1>3. ClaimInv => OneKeyPerClaim
  BY ClaimInvOneKey
<1> QED
  BY <1>1, <1>2, <1>3, PTL DEF Spec
-----------------------------------------------------------------------------
(* A running daemon's table only moves to lower records.                   *)

LEMMA TableAdvances ==
    ASSUME TypeOK, [Next]_vars, NEW d \in Daemon, ~ Crash(d), NEW t \in Type
    PROVE  \/ types'[d][t] = types[d][t]
           \/ types'[d][t] \in TypeReg /\ Wins(types'[d][t], types[d][t])
<1> DEFINE Goal == \/ types'[d][t] = types[d][t]
                   \/ types'[d][t] \in TypeReg /\ Wins(types'[d][t], types[d][t])
<1>1. ASSUME NEW l \in Link, ReadWire(l) PROVE Goal
  <2>1. PICK f \in Rreg : HandleRreg(l, f)
    BY <1>1, FrameRead
  <2>2. \/ types'[d][t] = types[d][t]
        \/ types'[d][t] = f.reg /\ Wins(f.reg, types[d][t])
    BY <2>1, HandledEntry
  <2> QED
    BY <2>2 DEF Rreg
<1>2. ASSUME NEW l \in Link, ReadStale(l) PROVE Goal
  <2>1. PICK f \in Rreg : HandleRreg(l, f)
    BY <1>2, FrameRead
  <2>2. \/ types'[d][t] = types[d][t]
        \/ types'[d][t] = f.reg /\ Wins(f.reg, types[d][t])
    BY <2>1, HandledEntry
  <2> QED
    BY <2>2 DEF Rreg
<1>3. ASSUME NEW e \in Daemon, NEW u \in Type, NEW k \in Key, NEW ts \in 0 .. MaxTs,
             Register(e, u, k, ts)
      PROVE  Goal
  <2> DEFINE r == [key |-> k, origin |-> e, ts |-> ts]
  <2>1. r \in TypeReg
    BY <1>3, RegisterRecord DEF Register, TypeOK
  <2>2. types[e][u] = NoReg /\ types' = [types EXCEPT ![e][u] = r]
    BY <1>3 DEF Register, Claimable
  <2> HIDE DEF r
  <2> QED
    BY <2>1, <2>2 DEF Wins, TypeOK, Table
<1>4. ASSUME NEW e \in Daemon, Crash(e) PROVE Goal
  <2>1. e # d
    BY <1>4
  <2> QED
    BY <1>4, <2>1 DEF Crash, TypeOK
<1>5. CASE \/ \E e \in Daemon : Broadcast(e)
           \/ \E l \in Link : \/ Connect(l) \/ TakeSnapshot(l) \/ Push(l) \/ StartLoops(l)
                              \/ WriteLoop(l) \/ Close(l) \/ Break(l)
           \/ UNCHANGED vars
  BY <1>5 DEF Broadcast, Connect, TakeSnapshot, Push, StartLoops, WriteLoop, Close,
              Break, vars
<1> QED
  BY <1>1, <1>2, <1>3, <1>4, <1>5 DEF Next

\* What a running daemon knows it goes on knowing.
LEMMA KnownAdvances ==
    ASSUME TypeOK, [Next]_vars, NEW d \in Daemon, ~ Crash(d),
           NEW f \in Rreg, Known(d, f)
    PROVE  Known(d, f)'
<1>1. f.type \in Type /\ f.reg \in TypeReg
  BY DEF Rreg
<1>2. types[d][f.type] \in TypeReg
  BY <1>1 DEF Known, TypeOK, Table
<1>3. /\ types'[d][f.type] \in TypeReg
      /\ \/ types'[d][f.type] = types[d][f.type]
         \/ Lower(types'[d][f.type], types[d][f.type])
  BY <1>1, <1>2, TableAdvances DEF Wins, Known
<1>4. types'[d][f.type] # NoReg
  BY <1>3, NoRegAssumption
<1>5. ~ Lower(f.reg, types'[d][f.type])
  BY <1>1, <1>2, <1>3, LowerOrder DEF Known
<1> QED
  BY <1>4, <1>5 DEF Known

\* A daemon knows every frame it holds, and every frame it has written that
\* its present life wrote.
SenderKnows ==
    /\ \A l \in Link : \A f \in Frames(l) \union Trusted(l) : Known(From(l), f)
    /\ \A d \in Daemon : \A f \in Pending(d) : Known(d, f)

\* A daemon broadcasts nothing but what its table has just come to hold.
LEMMA TodoFlow ==
    ASSUME TypeOK, [Next]_vars, NEW d \in Daemon, NEW b \in todo'[d]
    PROVE  \/ b \in todo[d] /\ ~ Crash(d)
           \/ ~ Crash(d) /\ types'[d][b.frame.type] = b.frame.reg
<1>0. ~ Crash(d)
  BY DEF Crash, TypeOK
<1> DEFINE Goal == b \in todo[d] \/ types'[d][b.frame.type] = b.frame.reg
<1>1. ASSUME NEW l \in Link, ReadWire(l) PROVE Goal
  <2>1. PICK f \in Rreg : HandleRreg(l, f)
    BY <1>1, FrameRead
  <2>2. \/ b \in todo[d]
        \/ b = [frame |-> f, exclude |-> From(l)] /\ types'[d][f.type] = f.reg
    BY <2>1, Handled
  <2> QED
    BY <2>2
<1>2. ASSUME NEW l \in Link, ReadStale(l) PROVE Goal
  <2>1. PICK f \in Rreg : HandleRreg(l, f)
    BY <1>2, FrameRead
  <2>2. \/ b \in todo[d]
        \/ b = [frame |-> f, exclude |-> From(l)] /\ types'[d][f.type] = f.reg
    BY <2>1, Handled
  <2> QED
    BY <2>2
<1>3. ASSUME NEW e \in Daemon, NEW u \in Type, NEW k \in Key, NEW ts \in 0 .. MaxTs,
             Register(e, u, k, ts)
      PROVE  Goal
  <2> DEFINE r == [key |-> k, origin |-> e, ts |-> ts]
             f == [type |-> u, reg |-> r]
  <2>1. /\ types' = [types EXCEPT ![e][u] = r]
        /\ todo' = [todo EXCEPT ![e] = @ \union {[frame |-> f, exclude |-> e]}]
    BY <1>3 DEF Register
  <2>2. f.type = u /\ f.reg = r
    OBVIOUS
  <2> HIDE DEF r, f
  <2>3. b \in todo[d] \/ (d = e /\ b.frame = f)
    BY <2>1 DEF TypeOK
  <2>4. types'[e][u] = r
    BY <2>1 DEF TypeOK, Table
  <2> QED
    BY <2>2, <2>3, <2>4
<1>4. ASSUME NEW e \in Daemon, Crash(e) PROVE Goal
  BY <1>4, <1>0 DEF Crash, TypeOK
<1>5. ASSUME NEW e \in Daemon, Broadcast(e) PROVE Goal
  BY <1>5 DEF Broadcast, TypeOK
<1>6. ASSUME \/ \E l \in Link :
                   \/ Connect(l) \/ TakeSnapshot(l) \/ Push(l) \/ StartLoops(l)
                   \/ WriteLoop(l) \/ Close(l) \/ Break(l)
             \/ UNCHANGED vars
      PROVE  Goal
  BY <1>6 DEF Connect, TakeSnapshot, Push, StartLoops, WriteLoop, Close, Break, vars
<1>7. Goal
  BY <1>1, <1>2, <1>3, <1>4, <1>5, <1>6 DEF Next
<1> QED
  BY <1>0, <1>7

LEMMA SenderKnowsStep ==
    ASSUME TypeOK, SenderKnows, [Next]_vars
    PROVE  SenderKnows'
<1>1. ASSUME NEW d \in Daemon, NEW f \in Pending(d)' PROVE Known(d, f)'
  <2>1. PICK b \in todo'[d] : f = b.frame
    BY DEF Pending
  <2>2. ~ Crash(d) /\ (b \in todo[d] \/ types'[d][f.type] = f.reg)
    BY <2>1, TodoFlow
  <2>3. f \in Rreg
    BY <2>1, TypeStep DEF TypeOK, Broadcasts
  <2>4. CASE b \in todo[d]
    BY <2>1, <2>2, <2>3, <2>4, KnownAdvances DEF SenderKnows, Pending
  <2>5. CASE types'[d][f.type] = f.reg
    BY <2>3, <2>5, NoRegAssumption, LowerOrder DEF Known, Rreg
  <2> QED
    BY <2>2, <2>4, <2>5
<1>2. ASSUME NEW l \in Link, NEW f \in (Frames(l) \union Trusted(l))'
      PROVE  Known(From(l), f)'
  <2>1. From(l) \in Daemon /\ Range(wire[l]) \subseteq Frames(l)
    BY LinkAssumption DEF From, Frames
  <2>2. ~ Crash(From(l))
    <3> SUFFICES ASSUME Crash(From(l)) PROVE FALSE
      OBVIOUS
    <3>1. snap'[l] = {} /\ queue'[l] = <<>> /\ wire'[l] = <<>> /\ orphan'[l]
      BY DEF Crash, TypeOK
    <3>2. Frames(l)' = {} /\ Trusted(l)' = {}
      BY <3>1, RangeEmpty DEF Frames, Trusted
    <3> QED
      BY <3>2
  <2>3. f \in Frames(l) \union Trusted(l) \union Pending(From(l))
              \union Registrations(types[From(l)])
    BY <2>1, FrameFlow
  <2>4. f \in Rreg /\ Known(From(l), f)
    <3>1. CASE f \in Frames(l) \union Trusted(l)
      <4>1. f \in Rreg
        BY <3>1, RangeOfSeq DEF TypeOK, Frames, Trusted
      <4> QED
        BY <3>1, <4>1 DEF SenderKnows
    <3>2. CASE f \in Pending(From(l))
      BY <2>1, <3>2 DEF SenderKnows, Pending, TypeOK, Broadcasts
    <3>3. CASE f \in Registrations(types[From(l)])
      <4>1. PICK t \in Type : /\ types[From(l)][t] # NoReg
                              /\ f = [type |-> t, reg |-> types[From(l)][t]]
        BY <3>3 DEF Registrations
      <4>2. types[From(l)][t] \in TypeReg
        BY <2>1, <4>1 DEF TypeOK, Table
      <4>3. f.type = t /\ f.reg = types[From(l)][t] /\ f \in Rreg
        BY <4>1, <4>2 DEF Rreg
      <4> QED
        BY <4>1, <4>2, <4>3, LowerOrder DEF Known
    <3> QED
      BY <2>3, <3>1, <3>2, <3>3
  <2> QED
    BY <2>1, <2>2, <2>4, KnownAdvances
<1> QED
  BY <1>1, <1>2 DEF SenderKnows
-----------------------------------------------------------------------------
(* Nothing is withheld between snapshot and broadcast.                     *)

\* Link m is one NothingWithheld speaks of, for type t.
Owed(m, t) == link[m] \in {"push", "up"} /\ ~ lost[m] /\ types[From(m)][t] # NoReg

Current(m, t) == [type |-> t, reg |-> types[From(m)][t]]

\* Both ends of a link are daemons, and not the same one.
LEMMA LinkEnds ==
    ASSUME NEW l \in Link
    PROVE  From(l) \in Daemon /\ To(l) \in Daemon /\ From(l) # To(l) /\ l = <<From(l), To(l)>>
  BY LinkAssumption DEF From, To

\* A frame pending at the dialer counts as on its way to every peer but one.
LEMMA PendingInFlight ==
    ASSUME NEW l \in Link, NEW b \in todo[From(l)], b.exclude # To(l)
    PROVE  b.frame \in InFlight(l)
  BY DEF InFlight

\* What the acceptor's table has reached it stays at, if the dialer's stays.
LEMMA ReachedAdvances ==
    ASSUME TypeOK, [Next]_vars, NEW m \in Link, NEW t \in Type, ~ Crash(To(m)),
           types'[From(m)][t] = types[From(m)][t], types[From(m)][t] # NoReg, Reached(m, t)
    PROVE  Reached(m, t)'
<1>1. /\ From(m) \in Daemon /\ To(m) \in Daemon
      /\ types[From(m)][t] \in TypeReg /\ types[To(m)][t] \in TypeReg
  BY LinkEnds DEF TypeOK, Table, Reached
<1>2. Current(m, t) \in Rreg
  BY <1>1 DEF Current, Rreg
<1>3. Known(To(m), Current(m, t))
  BY DEF Known, Current, Reached
<1>4. Known(To(m), Current(m, t))'
  <2> DEFINE f == Current(m, t)
  <2>1. f \in Rreg /\ Known(To(m), f) /\ f' = f
    BY <1>2, <1>3 DEF Current
  <2> HIDE DEF f
  <2>2. types'[To(m)][f.type] # NoReg /\ ~ Lower(f.reg, types'[To(m)][f.type])
    BY <2>1, <1>1, KnownAdvances DEF Known
  <2> QED
    BY <2>1, <2>2 DEF Known, f
<1> QED
  BY <1>4 DEF Known, Current, Reached

\* The frame f that a read_loop of link l takes.
Takes(l, f) == \/ ReadWire(l) /\ f = Head(wire[l])
               \/ ReadStale(l) /\ f = Head(stale[l])

\* handle_rreg at one end of some link leaves every link accounted for.
LEMMA HandleWithheld ==
    ASSUME TypeOK, SenderKnows, NothingWithheld, [Next]_vars,
           NEW l \in Link, NEW f \in Rreg, HandleRreg(l, f), Takes(l, f),
           NEW m \in Link, NEW t \in Type, Owed(m, t)'
    PROVE  Reached(m, t)' \/ Current(m, t)' \in InFlight(m)'
<1>1. \A d \in Daemon : ~ Crash(d)
  <2>1. crashes' = crashes /\ crashes \in Nat
    BY DEF Takes, ReadWire, ReadStale, TypeOK
  <2>2. \A d \in Daemon : Crash(d) => crashes' = crashes + 1
    BY DEF Crash
  <2> QED
    BY <2>1, <2>2
<1>2. /\ UNCHANGED <<link, snap, queue>>
      /\ ~ lost[m]
      /\ \A d \in Daemon : todo[d] \subseteq todo'[d]
  BY Handled DEF Takes, ReadWire, ReadStale, Owed
<1>3. Known(To(l), f)'
  BY Handled
<1>4. \/ wire'[m] = wire[m]
      \/ m = l /\ wire[m] # <<>> /\ f = Head(wire[m]) /\ wire'[m] = Tail(wire[m])
  BY DEF Takes, ReadWire, ReadStale, TypeOK
<1>5. \/ InFlight(m) \subseteq InFlight(m)'
      \/ m = l /\ InFlight(m) \subseteq InFlight(m)' \union {f}
  <2>1. From(m) \in Daemon
    BY LinkEnds
  <2>2. Range(wire[m]) \subseteq Range(wire'[m])
        \/ (m = l /\ Range(wire[m]) = {f} \union Range(wire'[m]))
    BY <1>4, RangeHeadTail DEF TypeOK
  <2>3. snap'[m] = snap[m] /\ queue'[m] = queue[m] /\ todo[From(m)] \subseteq todo'[From(m)]
    BY <1>2, <2>1
  <2> QED
    BY <2>2, <2>3 DEF InFlight
<1>6. CASE types'[From(m)][t] = types[From(m)][t]
  <2>1. Owed(m, t)
    BY <1>2, <1>6 DEF Owed
  <2>2. Reached(m, t) \/ Current(m, t) \in InFlight(m)
    BY <2>1 DEF NothingWithheld, Owed, Current
  <2>3. CASE Reached(m, t)
    BY <1>1, <1>6, <2>1, <2>3, LinkEnds, ReachedAdvances DEF Owed
  <2>4. CASE Current(m, t) \in InFlight(m) /\ Current(m, t) = f /\ m = l
    <3>1. t = f.type /\ types[From(m)][t] = f.reg
      BY <2>4 DEF Current
    <3> QED
      BY <1>3, <1>6, <2>4, <3>1 DEF Known, Reached
  <2>5. CASE Current(m, t) \in InFlight(m)'
    BY <1>6, <2>5 DEF Current
  <2> QED
    BY <1>5, <2>2, <2>3, <2>4, <2>5
<1>7. CASE types'[From(m)][t] # types[From(m)][t]
  <2>1. /\ From(m) = To(l) /\ t = f.type
        /\ Wins(f.reg, types[To(l)][t])
        /\ types'[From(m)][t] = f.reg
        /\ [frame |-> f, exclude |-> From(l)] \in todo'[From(m)]
    BY <1>7, LinkEnds, Handled
  <2>2. Current(m, t)' = f
    BY <2>1 DEF Current, Rreg
  <2>3. CASE To(m) # From(l)
    BY <2>1, <2>2, <2>3 DEF InFlight
  <2>4. CASE To(m) = From(l)
    <3>1. m = <<To(l), From(l)>>
      BY <2>1, <2>4, LinkEnds
    <3>2. f \in Frames(l) \union Trusted(l)
      <4>1. CASE ReadWire(l) /\ f = Head(wire[l])
        BY <4>1, FrameRead DEF Frames
      <4>2. CASE ReadStale(l) /\ f = Head(stale[l])
        <5>1. ~ orphan[l]
          BY <2>1, <3>1, <4>2 DEF ReadStale, Owed
        <5> QED
          BY <4>2, <5>1, FrameRead DEF Trusted
      <4> QED
        BY <4>1, <4>2 DEF Takes
    <3>3. Known(From(l), f)
      BY <3>2 DEF SenderKnows
    <3>4. Known(From(l), f)'
      BY <1>1, <3>3, LinkEnds, KnownAdvances
    <3> QED
      BY <2>1, <2>4, <3>4 DEF Known, Reached
  <2> QED
    BY <2>3, <2>4
<1> QED
  BY <1>6, <1>7
LEMMA NothingWithheldStep ==
    ASSUME TypeOK, SenderKnows, NothingWithheld, [Next]_vars
    PROVE  NothingWithheld'
<1> SUFFICES ASSUME NEW m \in Link, NEW t \in Type, Owed(m, t)'
             PROVE  Reached(m, t)' \/ Current(m, t)' \in InFlight(m)'
  BY DEF NothingWithheld, Owed, Current
<1> DEFINE Goal == Reached(m, t)' \/ Current(m, t)' \in InFlight(m)'
<1>0. /\ From(m) \in Daemon /\ To(m) \in Daemon /\ From(m) # To(m)
      /\ queue[m] \in Seq(Rreg) /\ wire[m] \in Seq(Rreg)
  BY LinkEnds DEF TypeOK
<1>1. Owed(m, t) => Reached(m, t) \/ Current(m, t) \in InFlight(m)
  BY DEF NothingWithheld, Owed, Current
<1>2. ASSUME NEW l \in Link, ReadWire(l) PROVE Goal
  <2> DEFINE f == Head(wire[l])
  <2>1. f \in Rreg /\ HandleRreg(l, f)
    BY <1>2, FrameRead
  <2>2. Takes(l, f)
    BY <1>2 DEF Takes
  <2> HIDE DEF f
  <2> QED
    BY <2>1, <2>2, HandleWithheld
<1>3. ASSUME NEW l \in Link, ReadStale(l) PROVE Goal
  <2> DEFINE f == Head(stale[l])
  <2>1. f \in Rreg /\ HandleRreg(l, f)
    BY <1>3, FrameRead
  <2>2. Takes(l, f)
    BY <1>3 DEF Takes
  <2> HIDE DEF f
  <2> QED
    BY <2>1, <2>2, HandleWithheld
\* The tables stay as they are, and no frame of the link is lost on the way.
<1>4. ASSUME types' = types, Owed(m, t), InFlight(m) \subseteq InFlight(m)'
      PROVE  Goal
  BY <1>1, <1>4 DEF Current, Reached
<1>5. ASSUME NEW d \in Daemon, NEW u \in Type, NEW k \in Key, NEW ts \in 0 .. MaxTs,
             Register(d, u, k, ts)
      PROVE  Goal
  <2> DEFINE r == [key |-> k, origin |-> d, ts |-> ts]
             f == [type |-> u, reg |-> r]
  <2>1. /\ types[d][u] = NoReg
        /\ types' = [types EXCEPT ![d][u] = r]
        /\ todo' = [todo EXCEPT ![d] = @ \union {[frame |-> f, exclude |-> d]}]
        /\ UNCHANGED <<link, snap, queue, wire, lost>>
    BY <1>5 DEF Register, Claimable
  <2>2. \A e \in Daemon, v \in Type :
            types'[e][v] = IF e = d /\ v = u THEN r ELSE types[e][v]
    BY <2>1 DEF TypeOK, Table
  <2>3. \A e \in Daemon : todo'[e] = IF e = d THEN todo[e] \union {[frame |-> f, exclude |-> d]}
                                     ELSE todo[e]
    BY <2>1 DEF TypeOK
  <2> HIDE DEF r
  <2>4. CASE From(m) = d /\ t = u
    <3>1. Current(m, t)' = f
      BY <2>2, <2>4, <1>0 DEF Current
    <3>2. [frame |-> f, exclude |-> d] \in todo'[From(m)] /\ d # To(m)
      BY <2>3, <2>4, <1>0
    <3> QED
      BY <3>1, <3>2 DEF InFlight
  <2>5. CASE ~ (From(m) = d /\ t = u)
    <3>1. types'[From(m)][t] = types[From(m)][t]
      BY <2>2, <2>5, <1>0
    <3>2. Owed(m, t)
      BY <2>1, <3>1 DEF Owed
    <3>3. InFlight(m) \subseteq InFlight(m)'
      BY <2>1, <2>3, <1>0 DEF InFlight
    <3>4. Reached(m, t) => Reached(m, t)'
      <4>1. types[To(m)][t] # NoReg => types'[To(m)][t] = types[To(m)][t]
        BY <2>1, <2>2, <1>0
      <4> QED
        BY <3>1, <4>1 DEF Reached
    <3> QED
      BY <1>1, <3>1, <3>2, <3>3, <3>4 DEF Current
  <2> QED
    BY <2>4, <2>5
<1>6. ASSUME NEW d \in Daemon, Broadcast(d) PROVE Goal
  <2> DEFINE Sends(b) == {l \in Link : From(l) = d /\ Addressed(b, l)}
             Full(b)  == {l \in Sends(b) : Len(queue[l]) >= QueueDepth}
  <2>1. PICK b \in todo[d] :
            /\ todo' = [todo EXCEPT ![d] = @ \ {b}]
            /\ queue' = [l \in Link |-> IF l \in Sends(b) \ Full(b)
                                        THEN Append(queue[l], b.frame)
                                        ELSE queue[l]]
            /\ lost' = [l \in Link |-> lost[l] \/ l \in Full(b)]
            /\ UNCHANGED <<types, link, snap, wire>>
    BY <1>6 DEF Broadcast
  <2>2. Owed(m, t)
    BY <2>1 DEF Owed
  <2>3. b.frame \in Rreg
    BY DEF TypeOK, Broadcasts
  <2>4. Range(Append(queue[m], b.frame)) = Range(queue[m]) \union {b.frame}
    BY <2>3, <1>0, RangeAppend
  <2>5. Range(queue[m]) \subseteq Range(queue'[m])
    BY <2>1, <2>4
  <2>6. From(m) = d /\ b.exclude # To(m) => b.frame \in Range(queue'[m])
    <3> SUFFICES ASSUME From(m) = d, b.exclude # To(m)
                 PROVE  b.frame \in Range(queue'[m])
      OBVIOUS
    <3>1. m \in Sends(b)
      BY <2>2 DEF Owed, Addressed
    <3>2. m \notin Full(b)
      BY <2>1 DEF Owed
    <3> QED
      BY <2>1, <2>4, <3>1, <3>2
  <2>7. \A c \in todo[From(m)] : c \in todo'[From(m)] \/ (From(m) = d /\ c = b)
    BY <2>1, <1>0 DEF TypeOK
  <2>8. InFlight(m) \subseteq InFlight(m)'
    BY <2>1, <2>5, <2>6, <2>7 DEF InFlight
  <2> QED
    BY <1>4, <2>1, <2>2, <2>8
<1>7. ASSUME NEW d \in Daemon, Crash(d) PROVE Goal
  <2>1. link'[m] \in {"push", "up"}
    BY DEF Owed
  <2>2. From(m) # d /\ To(m) # d
    BY <1>7, <2>1 DEF Crash
  <2>3. /\ types'[From(m)] = types[From(m)] /\ types'[To(m)] = types[To(m)]
        /\ todo'[From(m)] = todo[From(m)]
        /\ link'[m] = link[m] /\ lost' = lost
        /\ snap'[m] = snap[m] /\ queue'[m] = queue[m] /\ wire'[m] = wire[m]
    BY <1>7, <1>0, <2>2 DEF Crash, TypeOK
  <2>4. Owed(m, t)
    BY <2>3 DEF Owed
  <2>5. InFlight(m)' = InFlight(m)
    BY <2>3 DEF InFlight
  <2> QED
    BY <1>1, <2>3, <2>4, <2>5 DEF Current, Reached
<1>8. ASSUME NEW l \in Link, Connect(l) PROVE Goal
  <2>1. l # m
    BY <1>8 DEF Connect, Owed, TypeOK
  <2>2. /\ UNCHANGED <<types, todo, snap, wire, lost>>
        /\ link'[m] = link[m] /\ queue'[m] = queue[m]
    BY <1>8, <2>1 DEF Connect, TypeOK
  <2> QED
    BY <1>4, <2>2 DEF Owed, InFlight
<1>9. ASSUME NEW l \in Link, TakeSnapshot(l) PROVE Goal
  <2>1. CASE l = m
    <3>1. snap'[m] = Registrations(types[From(m)]) /\ types' = types
      BY <1>9, <2>1 DEF TakeSnapshot, TypeOK
    <3>2. Current(m, t)' \in snap'[m]
      BY <3>1 DEF Owed, Current, Registrations
    <3> QED
      BY <3>2 DEF InFlight
  <2>2. CASE l # m
    <3>1. /\ UNCHANGED <<types, todo, queue, wire>>
          /\ link'[m] = link[m] /\ snap'[m] = snap[m] /\ lost'[m] = lost[m]
      BY <1>9, <2>2 DEF TakeSnapshot, TypeOK
    <3> QED
      BY <1>4, <3>1 DEF Owed, InFlight
  <2> QED
    BY <2>1, <2>2
<1>10. ASSUME NEW l \in Link, Push(l) PROVE Goal
  <2>1. PICK f \in snap[l] :
            /\ snap' = [snap EXCEPT ![l] = @ \ {f}]
            /\ IF Len(queue[l]) < QueueDepth
               THEN queue' = [queue EXCEPT ![l] = Append(@, f)] /\ UNCHANGED lost
               ELSE lost' = [lost EXCEPT ![l] = TRUE] /\ UNCHANGED queue
    BY <1>10 DEF Push
  <2>2. /\ types' = types /\ todo' = todo /\ link' = link /\ wire' = wire
    BY <1>10 DEF Push
  <2>3. Owed(m, t)
    BY <2>1, <2>2 DEF Owed, TypeOK
  <2>4. f \in Rreg
    BY DEF TypeOK
  <2>5. Range(Append(queue[m], f)) = Range(queue[m]) \union {f}
    BY <2>4, <1>0, RangeAppend
  <2>6. CASE l = m
    <3>1. queue'[m] = Append(queue[m], f)
      BY <2>1, <2>6 DEF Owed, TypeOK
    <3>2. snap'[m] = snap[m] \ {f}
      BY <2>1, <2>6 DEF TypeOK
    <3>3. InFlight(m) \subseteq InFlight(m)'
      BY <2>2, <2>5, <3>1, <3>2 DEF InFlight
    <3> QED
      BY <1>4, <2>2, <2>3, <3>3
  <2>7. CASE l # m
    <3>1. snap'[m] = snap[m] /\ queue'[m] = queue[m]
      BY <2>1, <2>7 DEF TypeOK
    <3> QED
      BY <1>4, <2>2, <2>3, <3>1 DEF InFlight
  <2> QED
    BY <2>6, <2>7
<1>11. ASSUME NEW l \in Link, StartLoops(l) PROVE Goal
  <2>1. UNCHANGED <<types, todo, snap, queue, wire, lost>>
    BY <1>11 DEF StartLoops
  <2>2. link[m] \in {"push", "up"}
    BY <1>11 DEF StartLoops, Owed, TypeOK
  <2> QED
    BY <1>4, <2>1, <2>2 DEF Owed, InFlight
<1>12. ASSUME NEW l \in Link, WriteLoop(l) PROVE Goal
  <2>1. UNCHANGED <<types, todo, link, snap, lost>>
    BY <1>12 DEF WriteLoop
  <2>2. CASE l = m
    <3>1. queue[m] # <<>> /\ queue'[m] = Tail(queue[m])
          /\ wire'[m] = Append(wire[m], Head(queue[m]))
      BY <1>12, <2>2 DEF WriteLoop, TypeOK
    <3>2. Head(queue[m]) \in Rreg
          /\ Range(queue[m]) = {Head(queue[m])} \union Range(Tail(queue[m]))
      BY <3>1, <1>0, RangeHeadTail
    <3>3. Range(wire'[m]) = Range(wire[m]) \union {Head(queue[m])}
      BY <3>1, <3>2, <1>0, RangeAppend
    <3>4. InFlight(m) \subseteq InFlight(m)'
      BY <2>1, <3>1, <3>2, <3>3 DEF InFlight
    <3> QED
      BY <1>4, <2>1, <3>4 DEF Owed
  <2>3. CASE l # m
    <3>1. queue'[m] = queue[m] /\ wire'[m] = wire[m]
      BY <1>12, <2>3 DEF WriteLoop, TypeOK
    <3> QED
      BY <1>4, <2>1, <3>1 DEF Owed, InFlight
  <2> QED
    BY <2>2, <2>3
<1>13. ASSUME NEW l \in Link, Close(l) \/ Break(l) PROVE Goal
  <2>1. l # m
    BY <1>13 DEF Close, Break, Owed, TypeOK
  <2>2. /\ UNCHANGED <<types, todo, lost>>
        /\ link'[m] = link[m] /\ snap'[m] = snap[m]
        /\ queue'[m] = queue[m] /\ wire'[m] = wire[m]
    BY <1>13, <2>1 DEF Close, Break, TypeOK
  <2> QED
    BY <1>4, <2>2 DEF Owed, InFlight
<1>14. ASSUME UNCHANGED vars PROVE Goal
  <2>1. UNCHANGED <<types, todo, link, snap, queue, wire, lost>>
    BY <1>14 DEF vars
  <2> QED
    BY <1>4, <2>1 DEF Owed, InFlight
<1> QED
  BY <1>2, <1>3, <1>5, <1>6, <1>7, <1>8, <1>9, <1>10, <1>11, <1>12, <1>13, <1>14 DEF Next
\* SenderKnows is what NothingWithheld needs to be inductive: a record is not
\* sent back to its source, which must therefore know it.
CoverInv == TypeOK /\ SenderKnows /\ NothingWithheld

LEMMA CoverInvInit == Init => CoverInv
<1> SUFFICES ASSUME Init PROVE CoverInv
  OBVIOUS
<1>1. TypeOK
  BY TypeInit
<1>2. SenderKnows
  BY RangeEmpty, LinkEnds DEF Init, SenderKnows, Frames, Trusted, Pending
<1>3. NothingWithheld
  BY DEF Init, NothingWithheld
<1> QED
  BY <1>1, <1>2, <1>3 DEF CoverInv

LEMMA CoverInvStep == CoverInv /\ [Next]_vars => CoverInv'
  BY TypeStep, SenderKnowsStep, NothingWithheldStep DEF CoverInv

\* While a link stands and nothing was dropped on it, every record of the
\* dialer has reached the peer or is on its way there.
THEOREM Coverage == Spec => []NothingWithheld
<1>1. CoverInv => NothingWithheld
  BY DEF CoverInv
<1> QED
  BY <1>1, CoverInvInit, CoverInvStep, PTL DEF Spec

-----------------------------------------------------------------------------
(* Idle clusters agree.                                                    *)

\* Daemon d holds a record for t that daemon e's does not beat.
NoLater(d, e, t) == types[d][t] # NoReg /\ ~ Lower(types[e][t], types[d][t])

\* If every link has delivered what its dialer holds, records have reached
\* every daemon a chain of links leads to: a set of daemons closed under the
\* links and not empty is the whole of a strongly connected cluster.
LEMMA IdleNoLater ==
    ASSUME TypeOK, NothingWithheld, StronglyConnected, \A l \in Link : Idle(l) /\ ~ lost[l],
           NEW e \in Daemon, NEW t \in Type, types[e][t] # NoReg
    PROVE  \A d \in Daemon : NoLater(d, e, t)
<1> DEFINE S == {d \in Daemon : NoLater(d, e, t)}
<1>0. \A d \in Daemon : types[d][t] # NoReg => types[d][t] \in TypeReg
  BY DEF TypeOK, Table
<1>1. e \in S
  BY <1>0, LowerOrder DEF NoLater
<1>2. \A l \in Link : From(l) \in S => To(l) \in S
  <2> SUFFICES ASSUME NEW l \in Link, From(l) \in S PROVE To(l) \in S
    OBVIOUS
  <2>1. /\ From(l) \in Daemon /\ To(l) \in Daemon
        /\ types[From(l)][t] # NoReg /\ ~ Lower(types[e][t], types[From(l)][t])
    BY LinkEnds DEF NoLater
  <2>2. Reached(l, t)
    BY <2>1 DEF NothingWithheld, Idle
  <2>3. types[To(l)][t] # NoReg /\ ~ Lower(types[From(l)][t], types[To(l)][t])
    BY <2>2 DEF Reached
  <2>4. ~ Lower(types[e][t], types[To(l)][t])
    BY <1>0, <2>1, <2>3, LowerOrder
  <2> QED
    BY <2>1, <2>3, <2>4 DEF NoLater
<1>3. S \in SUBSET Daemon /\ S # {}
  BY <1>1
<1>4. S = Daemon
  BY <1>2, <1>3 DEF StronglyConnected
<1> QED
  BY <1>4

LEMMA IdleAgree == TypeOK /\ NothingWithheld /\ OneKeyPerClaim => Agreement
<1> SUFFICES ASSUME TypeOK, NothingWithheld, OneKeyPerClaim, StronglyConnected,
                    \A l \in Link : Idle(l) /\ ~ lost[l],
                    NEW d \in Daemon, NEW e \in Daemon, NEW t \in Type
             PROVE  types[d][t] = types[e][t]
  BY DEF Agreement, AllAgree, TypeOK, Table
<1>1. CASE types[d][t] = NoReg /\ types[e][t] = NoReg
  BY <1>1
<1>2. CASE types[d][t] # NoReg \/ types[e][t] # NoReg
  <2>1. types[d][t] # NoReg /\ types[e][t] # NoReg
    BY <1>2, IdleNoLater DEF NoLater
  <2>2. /\ ~ Lower(types[e][t], types[d][t])
        /\ ~ Lower(types[d][t], types[e][t])
    BY <2>1, IdleNoLater DEF NoLater
  <2>3. types[d][t] \in TypeReg /\ types[e][t] \in TypeReg
    BY <2>1 DEF TypeOK, Table
  <2>4. /\ types[d][t].ts = types[e][t].ts
        /\ types[d][t].origin = types[e][t].origin
    BY <2>2, <2>3, LowerOrder
  <2>5. types[d][t].key = types[e][t].key
    BY <2>1, <2>4 DEF OneKeyPerClaim
  <2> QED
    BY <2>3, <2>4, <2>5 DEF TypeReg
<1> QED
  BY <1>1, <1>2

\* In every strongly connected cluster whose clocks advance over restarts, all
\* daemons hold the same table whenever the links are idle and have dropped
\* nothing since they were dialed.
THEOREM ClusterAgrees == ASSUME RestartGap > 0 PROVE Spec => []Agreement
<1>1. TypeOK /\ NothingWithheld /\ OneKeyPerClaim => Agreement
  BY IdleAgree
<1>2. Spec => []OneKeyPerClaim
  BY OneKey
<1> QED
  BY <1>1, <1>2, TypeCorrect, Coverage, PTL
-----------------------------------------------------------------------------
(* The federation implements the abstract registration.                    *)

\* handle_rreg is the abstract daemon learning an older claim, or nothing.
LEMMA HandleLearns ==
    ASSUME TypeOK, NEW l \in Link, NEW f \in issued, f \in Rreg,
           HandleRreg(l, f), issued' = issued
    PROVE  Promise!Learn(To(l)) \/ UNCHANGED <<types, issued>>
<1>1. CASE Wins(f.reg, types[To(l)][f.type])
  <2>1. types' = [types EXCEPT ![To(l)][f.type] = f.reg]
    BY <1>1 DEF HandleRreg
  <2>2. types[To(l)][f.type] = NoReg \/ Promise!Older(f.reg, types[To(l)][f.type])
    BY <1>1 DEF Wins, Lower, Promise!Older
  <2> QED
    BY <2>1, <2>2 DEF Promise!Learn
<1>2. CASE ~ Wins(f.reg, types[To(l)][f.type])
  BY <1>2 DEF HandleRreg
<1> QED
  BY <1>1, <1>2

LEMMA RefinesInit == Init => Promise!Init
  BY DEF Init, Promise!Init, EmptyTable

LEMMA RefinesStep ==
    ClaimInv /\ [Next]_vars => [Promise!Next]_<<types, issued>>
<1> SUFFICES ASSUME ClaimInv, [Next]_vars
             PROVE  Promise!Next \/ UNCHANGED <<types, issued>>
  OBVIOUS
<1> USE DEF ClaimInv
<1>1. ASSUME NEW d \in Daemon, NEW t \in Type, NEW k \in Key, NEW ts \in 0 .. MaxTs,
             Register(d, t, k, ts)
      PROVE  Promise!Next
  <2>1. /\ types[d][t] = NoReg /\ clock[d] \in Nat /\ ts \in Nat /\ clock[d] <= ts
        /\ types' = [types EXCEPT ![d][t] = [key |-> k, origin |-> d, ts |-> ts]]
        /\ issued' = issued \union
              {[type |-> t, reg |-> [key |-> k, origin |-> d, ts |-> ts]]}
    BY <1>1, BoundAssumption DEF Register, Claimable, TypeOK
  <2>2. ASSUME NEW c \in issued, c.type = t, c.reg.origin = d
        PROVE  c.reg.ts < ts
    <3>1. c.reg.ts \in Nat
      BY DEF TypeOK, Rreg, TypeReg
    <3>2. c.reg.ts < clock[d]
      BY <2>1, <2>2 DEF ClaimsPast
    <3> QED
      BY <2>1, <3>1, <3>2
  <2>3. Promise!Claim(d, t, k, ts)
    BY <2>1, <2>2 DEF Promise!Claim
  <2> QED
    BY <2>3 DEF Promise!Next
<1>2. ASSUME NEW d \in Daemon, Crash(d) PROVE Promise!Next
  <2>1. Promise!Forget(d)
    BY <1>2 DEF Crash, EmptyTable, Promise!Forget
  <2> QED
    BY <2>1 DEF Promise!Next
<1>3. ASSUME NEW l \in Link, ReadWire(l) PROVE Promise!Next \/ UNCHANGED <<types, issued>>
  <2> DEFINE f == Head(wire[l])
  <2>1. f \in Rreg /\ f \in issued /\ HandleRreg(l, f)
    BY <1>3, FrameRead DEF RecordsIssued, Frames
  <2>2. issued' = issued
    BY <1>3 DEF ReadWire
  <2> HIDE DEF f
  <2>3. Promise!Learn(To(l)) \/ UNCHANGED <<types, issued>>
    BY <2>1, <2>2, HandleLearns
  <2> QED
    BY <2>3, LinkEnds DEF Promise!Next
<1>4. ASSUME NEW l \in Link, ReadStale(l) PROVE Promise!Next \/ UNCHANGED <<types, issued>>
  <2> DEFINE f == Head(stale[l])
  <2>1. f \in Rreg /\ f \in issued /\ HandleRreg(l, f)
    BY <1>4, FrameRead DEF RecordsIssued
  <2>2. issued' = issued
    BY <1>4 DEF ReadStale
  <2> HIDE DEF f
  <2>3. Promise!Learn(To(l)) \/ UNCHANGED <<types, issued>>
    BY <2>1, <2>2, HandleLearns
  <2> QED
    BY <2>3, LinkEnds DEF Promise!Next
<1>5. ASSUME \/ \E d \in Daemon : Broadcast(d)
             \/ \E l \in Link :
                   \/ Connect(l) \/ TakeSnapshot(l) \/ Push(l) \/ StartLoops(l)
                   \/ WriteLoop(l) \/ Close(l) \/ Break(l)
             \/ UNCHANGED vars
      PROVE  UNCHANGED <<types, issued>>
  BY <1>5 DEF Broadcast, Connect, TakeSnapshot, Push, StartLoops, WriteLoop, Close,
              Break, vars
<1> QED
  BY <1>1, <1>2, <1>3, <1>4, <1>5 DEF Next

\* Whatever the cluster does, its tables are views of claims that were made,
\* and a running daemon's view moves to older claims alone.
THEOREM Refinement == ASSUME RestartGap > 0 PROVE Spec => ImplementsOwnership
<1>1. Init => ClaimInv
  BY ClaimInvInit
<1>2. ClaimInv /\ [Next]_vars => ClaimInv'
  BY ClaimInvStep
<1> QED
  BY <1>1, <1>2, RefinesInit, RefinesStep, PTL
  DEF Spec, ImplementsOwnership, Promise!Spec, Promise!vars
=============================================================================
