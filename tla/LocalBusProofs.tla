--------------------------- MODULE LocalBusProofs ---------------------------
(***************************************************************************)
(* What holds of one daemon's bus for every number of connections, types,  *)
(* keys and messages, every queue depth and every amount of pipelining.    *)
(***************************************************************************)
EXTENDS LocalBus, SequenceTheorems, TLAPS

-----------------------------------------------------------------------------
(* Type correctness.                                                       *)

LEMMA TypeInit == Init => TypeOK
<1> SUFFICES ASSUME Init PROVE TypeOK
  OBVIOUS
<1>1. Zero \in [Type -> Nat]
  BY DEF Zero
<1>2. asked \in [Conn -> [type : Type, key : Key \union {NoKey}]]
  <2>1. (CHOOSE t \in Type : TRUE) \in Type
    BY TypeAssumption
  <2> QED
    BY <2>1 DEF Init
<1>3. /\ queue \in [Conn -> Seq(Message)]
      /\ \A c \in Conn : Len(queue[c]) <= QueueDepth
  <2>1. <<>> \in Seq(Message) /\ Len(<<>>) = 0
    BY EmptySeq
  <2> QED
    BY <2>1, QueueAssumption DEF Init
<1>4. /\ owner \in [Type -> Key \union {NoKey}] /\ subs \in [Type -> SUBSET Conn]
      /\ fan \in [Task -> Fan \union {NoFan}] /\ {seq, overrides} \subseteq Nat
      /\ pc \in [Conn -> Point] /\ mySubs \in [Conn -> SUBSET Type]
  BY DEF Init, Point
<1>5. /\ lines \in [Conn -> Nat] /\ sent \in [Conn -> Nat] /\ last \in [Conn -> Nat]
      /\ permit \in [Conn -> BOOLEAN] /\ {drops, drained, noticed} \subseteq Counters
  BY <1>1 DEF Init, Counters
<1> QED
  BY <1>2, <1>3, <1>4, <1>5 DEF TypeOK

\* The connection's own loop.
LEMMA LoopType ==
    ASSUME TypeOK, NEW c \in Conn,
           \/ FlushDrops(c) \/ WriteNotices(c) \/ Need(c) \/ Recv(c) \/ Wake(c)
           \/ Disconnect(c) \/ \E n \in 0 .. MaxBatch : Read(c, n)
    PROVE  TypeOK'
<1> USE DEF TypeOK, Point, Goto, regVars, taskVars, outVars, histVars
<1>1. Zero \in [Type -> Nat]
  BY DEF Zero
<1>2. CASE FlushDrops(c)
  <2>1. drops' \in Counters /\ drained' \in Counters
    <3>1. drops \in [Conn -> [Type -> Nat]] /\ drained \in [Conn -> [Type -> Nat]]
      BY DEF Counters
    <3>2. /\ drops' = drops \/ drops' = [drops EXCEPT ![c] = Zero]
          /\ drained' = drained \/ drained' = [drained EXCEPT ![c] = drops[c]]
      BY <1>2 DEF FlushDrops, Drain
    <3> HIDE DEF TypeOK, Point
    <3> QED
      BY <1>1, <3>1, <3>2 DEF Counters
  <2> QED
    BY <1>2, <2>1 DEF FlushDrops
<1>3. CASE WriteNotices(c)
  <2>1. /\ [t \in Type |-> noticed[c][t] + drained[c][t]] \in [Type -> Nat]
        /\ noticed' = [noticed EXCEPT ![c] = [t \in Type |-> noticed[c][t] + drained[c][t]]]
    BY <1>3 DEF WriteNotices, Counters
  <2>2. noticed' \in Counters /\ drained' \in Counters
    BY <1>1, <1>3, <2>1 DEF WriteNotices, Counters
  <2> QED
    BY <1>3, <2>2 DEF WriteNotices
<1>4. CASE Need(c)
  BY <1>4 DEF Need
<1>5. CASE Recv(c)
  <2>1. queue[c] # <<>> /\ queue[c] \in Seq(Message)
    BY <1>5 DEF Recv, Ready
  <2>2. /\ Head(queue[c]) \in Message /\ Tail(queue[c]) \in Seq(Message)
        /\ Len(Tail(queue[c])) = Len(queue[c]) - 1 /\ Len(queue[c]) \in Nat
    BY <2>1, HeadTailProperties, LenProperties
  <2>3. Len(Tail(queue[c])) <= QueueDepth
    BY <2>2, QueueAssumption
  <2>4. Head(queue[c]).id \in Nat
    BY <2>2 DEF Message
  <2> QED
    BY <1>5, <2>2, <2>3, <2>4 DEF Recv
<1>6. CASE Wake(c)
  BY <1>6 DEF Wake
<1>7. CASE Disconnect(c)
  BY <1>7 DEF Disconnect
<1>8. CASE \E n \in 0 .. MaxBatch : Read(c, n)
  BY <1>8 DEF Read
<1> QED
  BY <1>2, <1>3, <1>4, <1>5, <1>6, <1>7, <1>8

\* What starts a fan-out.
LEMMA StartType ==
    ASSUME TypeOK, NEW p \in Task, NEW t \in Type, StartFan(p, t)
    PROVE  /\ fan' \in [Task -> Fan \union {NoFan}]
           /\ seq' \in Nat
           /\ fan' = [fan EXCEPT ![p] =
                        [msg |-> [id |-> seq + 1, type |-> t], left |-> subs[t], ring |-> {}]]
           /\ fan'[p] \in Fan /\ fan'[p] # NoFan
<1> DEFINE f == [msg |-> [id |-> seq + 1, type |-> t], left |-> subs[t], ring |-> {}]
<1>1. seq' \in Nat /\ seq + 1 \in Nat /\ subs[t] \in SUBSET Conn
  BY DEF StartFan, TypeOK
<1>2. f \in Fan
  BY <1>1 DEF Fan, Message
<1>3. fan' = [fan EXCEPT ![p] = f]
  BY DEF StartFan
<1> HIDE DEF f
<1>4. fan'[p] = f /\ fan' \in [Task -> Fan \union {NoFan}]
  BY <1>2, <1>3 DEF TypeOK
<1> QED
  BY <1>1, <1>2, <1>3, <1>4, NoFanAssumption DEF f

\* Commands and the end of a connection.
LEMMA CommandType ==
    ASSUME TypeOK, NEW c \in Conn, Command(c) \/ EndBody(c) \/ Cleanup(c)
    PROVE  TypeOK'
<1> USE DEF TypeOK, Point, Goto, regVars, taskVars, outVars, histVars
<1>1. CASE Inert(c)
  BY <1>1 DEF Inert, TakeLine
<1>2. CASE Quit(c)
  BY <1>2 DEF Quit, TakeLine
<1>3. ASSUME NEW t \in Type, Subscribe(c, t) PROVE TypeOK'
  BY <1>3 DEF Subscribe, TakeLine
<1>4. ASSUME NEW t \in Type, Unsubscribe(c, t) PROVE TypeOK'
  BY <1>4 DEF Unsubscribe, Unsubscribed, TakeLine
<1>5. ASSUME NEW t \in Type, NEW k \in Key, Register(c, t, k) PROVE TypeOK'
  BY <1>5 DEF Register, TakeLine
<1>6. ASSUME NEW t \in Type, NEW k \in Key, Publish(c, t, k) PROVE TypeOK'
  <2>1. asked' \in [Conn -> [type : Type, key : Key \union {NoKey}]]
    <3>1. [type |-> t, key |-> k] \in [type : Type, key : Key \union {NoKey}]
      OBVIOUS
    <3>2. asked' = [asked EXCEPT ![c] = [type |-> t, key |-> k]] \/ asked' = asked
      BY <1>6 DEF Publish
    <3> HIDE DEF Point
    <3> QED
      BY <3>1, <3>2
  <2>2. pc' \in [Conn -> Point]
    BY <1>6 DEF Publish
  <2> HIDE DEF Point
  <2> QED
    BY <1>6, <2>1, <2>2 DEF Publish, TakeLine
<1>7. ASSUME BodyRead(c) PROVE lines' \in [Conn -> Nat]
  BY <1>7 DEF BodyRead
<1>8. CASE PublishLocal(c)
  <2>1. fan' \in [Task -> Fan \union {NoFan}] /\ seq' \in Nat
    <3>1. c \in Task /\ asked[c].type \in Type
      BY DEF Task
    <3>2. StartFan(c, asked[c].type)
      BY <1>8 DEF PublishLocal
    <3> QED
      BY <3>1, <3>2, StartType
  <2>2. lines' \in [Conn -> Nat]
    BY <1>7, <1>8 DEF PublishLocal
  <2> QED
    BY <1>8, <2>1, <2>2 DEF PublishLocal
<1>9. CASE PublishRefused(c)
  BY <1>7, <1>9 DEF PublishRefused
<1>10. CASE PublishTooLarge(c)
  BY <1>7, <1>10 DEF PublishTooLarge
<1>11. CASE Cleanup(c)
  <2>1. <<>> \in Seq(Message) /\ Len(<<>>) = 0
    BY EmptySeq
  <2>2. /\ queue' \in [Conn -> Seq(Message)]
        /\ \A d \in Conn : Len(queue'[d]) <= QueueDepth
    BY <1>11, <2>1, QueueAssumption DEF Cleanup
  <2> QED
    BY <1>11, <2>2 DEF Cleanup, RemoveConn
<1> QED
  BY <1>1, <1>2, <1>3, <1>4, <1>5, <1>6, <1>8, <1>9, <1>10, <1>11
  DEF Command, EndBody

\* Fan-outs, and what peers bring.
LEMMA FanType ==
    ASSUME TypeOK,
           \/ \E p \in Task : FanStep(p)
           \/ IngestDone
           \/ \E c \in Conn : Accept(c)
           \/ \E t \in Type : IngestRemote(t) \/ \E k \in Key : Override(t, k)
    PROVE  TypeOK'
<1> USE DEF TypeOK, Point, Goto, regVars, taskVars, outVars, histVars
<1>1. ASSUME NEW p \in Task, NEW c \in Conn, FanSend(p, c) PROVE TypeOK'
  <2> DEFINE m == fan[p].msg
  <2>1. fan[p] \in Fan /\ m \in Message /\ m.type \in Type
    BY <1>1 DEF FanSend, Fan, Message
  <2>2. fan' \in [Task -> Fan \union {NoFan}]
    BY <1>1, <2>1 DEF FanSend, Fan
  <2>3. /\ queue' \in [Conn -> Seq(Message)]
        /\ \A d \in Conn : Len(queue'[d]) <= QueueDepth
    <3>1. /\ Append(queue[c], m) \in Seq(Message)
          /\ Len(Append(queue[c], m)) = Len(queue[c]) + 1
          /\ Len(queue[c]) \in Nat
      BY <2>1, AppendProperties, LenProperties
    <3>2. Offered(c, m) \in Seq(Message) /\ Len(Offered(c, m)) <= QueueDepth
      BY <3>1, QueueAssumption DEF Offered, Full
    <3> QED
      BY <1>1, <3>2 DEF FanSend
  <2>4. drops' \in Counters
    <3>1. drops \in [Conn -> [Type -> Nat]]
      BY DEF Counters
    <3> HIDE DEF m, TypeOK, Point
    <3>2. drops[c][m.type] + 1 \in Nat
      BY <2>1, <3>1
    <3>3. [drops EXCEPT ![c][m.type] = @ + 1] \in [Conn -> [Type -> Nat]]
      BY <2>1, <3>1, <3>2
    <3>4. drops' = drops \/ drops' = [drops EXCEPT ![c][m.type] = @ + 1]
      BY <1>1 DEF FanSend, m
    <3> QED
      BY <3>1, <3>3, <3>4 DEF Counters
  <2> QED
    BY <1>1, <2>2, <2>3, <2>4 DEF FanSend
<1>2. ASSUME NEW p \in Task, NEW c \in Conn, Notify(p, c) PROVE TypeOK'
  <2>1. fan[p] \in Fan /\ fan' = [fan EXCEPT ![p].ring = @ \ {c}]
    BY <1>2 DEF Notify
  <2>2. fan' \in [Task -> Fan \union {NoFan}]
    <3>1. [fan[p] EXCEPT !.ring = @ \ {c}] \in Fan
      BY <2>1 DEF Fan
    <3> HIDE DEF Point
    <3> QED
      BY <2>1, <3>1
  <2>3. permit' \in [Conn -> BOOLEAN]
    BY <1>2 DEF Notify, Notified
  <2> QED
    BY <1>2, <2>2, <2>3 DEF Notify
<1>3. ASSUME NEW c \in Conn, Accept(c) PROVE TypeOK'
  BY <1>3 DEF Accept, Task
<1>4. CASE IngestDone
  BY <1>4 DEF IngestDone, Task
<1>5. ASSUME NEW t \in Type, IngestRemote(t) PROVE TypeOK'
  <2>1. fan' \in [Task -> Fan \union {NoFan}] /\ seq' \in Nat
    BY <1>5, StartType DEF IngestRemote, Task
  <2> QED
    BY <1>5, <2>1 DEF IngestRemote
<1>6. ASSUME NEW t \in Type, NEW k \in Key, Override(t, k) PROVE TypeOK'
  BY <1>6 DEF Override
<1> QED
  BY <1>1, <1>2, <1>3, <1>4, <1>5, <1>6 DEF FanStep

\* The three groups of steps are all there are.
LEMMA StepKinds ==
    ASSUME [Next]_vars
    PROVE  \/ \E c \in Conn :
                 \/ FlushDrops(c) \/ WriteNotices(c) \/ Need(c) \/ Recv(c) \/ Wake(c)
                 \/ Disconnect(c) \/ \E n \in 0 .. MaxBatch : Read(c, n)
           \/ \E c \in Conn : Command(c) \/ EndBody(c) \/ Cleanup(c)
           \/ \E p \in Task : FanStep(p)
           \/ IngestDone
           \/ \E c \in Conn : Accept(c)
           \/ \E t \in Type : IngestRemote(t) \/ \E k \in Key : Override(t, k)
           \/ UNCHANGED vars
  BY DEF Next, Run, RunPeer, Task

LEMMA TypeStep == ASSUME TypeOK, [Next]_vars PROVE TypeOK'
<1>1. CASE UNCHANGED vars
  BY <1>1 DEF TypeOK, vars, regVars, taskVars, outVars, histVars
<1> QED
  BY <1>1, StepKinds, LoopType, CommandType, FanType

\* Every variable keeps its shape: no queue exceeds queue_depth and no counter
\* or my_subs entry is about anything but a type.
THEOREM TypeCorrect == Spec => []TypeOK
<1>1. TypeOK /\ [Next]_vars => TypeOK'
  BY TypeStep
<1> QED
  BY <1>1, TypeInit, PTL DEF Spec
-----------------------------------------------------------------------------
(* The registry's lock, subscriptions, wake-ups.                           *)

\* One task at a time holds the registry's lock over a fan-out; a connection's
\* task that does is inside publish_local; and the targets still to serve are
\* subscribers, for nobody can leave meanwhile.
LockInv ==
    /\ \A p, q \in Task : fan[p] # NoFan /\ fan[q] # NoFan => p = q
    /\ \A c \in Conn : fan[c] # NoFan => pc[c] = "fan"
    /\ \A p \in Task : fan[p] # NoFan => fan[p].left \subseteq subs[fan[p].msg.type]

\* my_subs and the registry agree, and a task that is gone has left nothing.
SubsInv ==
    /\ SubscriptionsAgree
    /\ \A c \in Conn : pc[c] = "gone" => mySubs[c] = {}

\* Drained counters exist only between flush_drops and the write of 102 DROP,
\* or where the connection ended in between.
NothingDrained ==
    \A c \in Conn : pc[c] \notin {"flush", "end", "gone"} => drained[c] = Zero

\* From its flush to the end of its wait a task with drops to report has a
\* wake-up stored or owed: NoLostWakeup, at the points that lead to the wait too.
WakeOwed ==
    \A c \in Conn : pc[c] \in {"flush", "poll", "wait"} /\ drops[c] # Zero =>
        permit[c] \/ \E p \in Task : fan[p] # NoFan /\ c \in fan[p].ring

BusInv == TypeOK /\ LockInv /\ SubsInv /\ NothingDrained /\ WakeOwed

\* Everything is empty at the start.
LEMMA BusInvInit == Init => BusInv
<1> SUFFICES ASSUME Init PROVE BusInv
  OBVIOUS
<1>1. TypeOK
  BY TypeInit
<1>2. LockInv
  BY DEF Init, LockInv, Task
<1>3. SubsInv
  BY DEF Init, SubsInv, SubscriptionsAgree
<1>4. NothingDrained /\ WakeOwed
  BY DEF Init, NothingDrained, WakeOwed
<1> QED
  BY <1>1, <1>2, <1>3, <1>4 DEF BusInv

\* The steps that leave fan-outs and subscriptions alone do not take a task
\* out of publish_local either.
Bystander(c) ==
    \/ FlushDrops(c) \/ WriteNotices(c) \/ Need(c) \/ Recv(c) \/ Wake(c) \/ Disconnect(c)
    \/ \E n \in 0 .. MaxBatch : Read(c, n)
    \/ Inert(c) \/ Quit(c) \/ PublishRefused(c) \/ PublishTooLarge(c)
    \/ \E t \in Type, k \in Key : Register(c, t, k) \/ Publish(c, t, k)

LEMMA BystanderSteps ==
    ASSUME TypeOK, NEW c \in Conn, Bystander(c)
    PROVE  /\ UNCHANGED <<fan, subs, mySubs, seq>>
           /\ \E q \in Point \ {"fan", "gone"} : pc' = [pc EXCEPT ![c] = q]
           /\ pc[c] \notin {"fan", "end", "gone"}
<1> USE DEF Goto, Point, regVars, taskVars, outVars, histVars
<1>1. CASE FlushDrops(c) \/ WriteNotices(c) \/ Need(c) \/ Recv(c) \/ Wake(c) \/ Disconnect(c)
  BY <1>1 DEF FlushDrops, WriteNotices, Need, Recv, Wake, Disconnect
<1>2. CASE \E n \in 0 .. MaxBatch : Read(c, n)
  BY <1>2 DEF Read
<1>3. CASE Inert(c) \/ Quit(c) \/ PublishRefused(c) \/ PublishTooLarge(c)
  BY <1>3 DEF Inert, Quit, PublishRefused, PublishTooLarge, TakeLine, BodyRead
<1>4. ASSUME NEW t \in Type, NEW k \in Key, Register(c, t, k) \/ Publish(c, t, k)
      PROVE  /\ UNCHANGED <<fan, subs, mySubs, seq>>
             /\ \E q \in Point \ {"fan", "gone"} : pc' = [pc EXCEPT ![c] = q]
             /\ pc[c] \notin {"fan", "end", "gone"}
  BY <1>4 DEF Register, Publish, TakeLine
<1> QED
  BY <1>1, <1>2, <1>3, <1>4 DEF Bystander

\* All steps, by what they do to fan-outs and subscriptions.
LEMMA BusSteps ==
    ASSUME [Next]_vars
    PROVE  \/ \E c \in Conn : Bystander(c)
           \/ \E c \in Conn, t \in Type : Subscribe(c, t) \/ Unsubscribe(c, t)
           \/ \E c \in Conn : PublishLocal(c) \/ Accept(c) \/ Cleanup(c)
           \/ \E p \in Task, c \in Conn : FanSend(p, c) \/ Notify(p, c)
           \/ IngestDone
           \/ \E t \in Type : IngestRemote(t) \/ \E k \in Key : Override(t, k)
           \/ UNCHANGED vars
  BY DEF Next, Run, RunPeer, Task, Command, EndBody, FanStep, Bystander

\* What a step of a fan-out does to it: the message stays, targets and wake-ups
\* only go, but for the wake-up a full queue is owed.
LEMMA FanSteps ==
    ASSUME TypeOK, NEW p \in Task, NEW c \in Conn, FanSend(p, c) \/ Notify(p, c)
    PROVE  /\ fan[p] \in Fan /\ fan'[p] \in Fan /\ fan[p] # NoFan /\ fan'[p] # NoFan
           /\ fan'[p].msg = fan[p].msg
           /\ fan'[p].left \subseteq fan[p].left
           /\ fan[p].ring \ {c} \subseteq fan'[p].ring
           /\ \A q \in Task \ {p} : fan'[q] = fan[q]
           /\ UNCHANGED <<subs, seq, pc, mySubs>>
<1>1. fan[p] \in Fan /\ fan[p] # NoFan /\ fan \in [Task -> Fan \union {NoFan}]
  BY DEF TypeOK, FanSend, Notify
<1>2. UNCHANGED <<subs, seq, pc, mySubs>>
  BY DEF FanSend, Notify, taskVars
<1>3. CASE FanSend(p, c)
  <2>1. fan' = [fan EXCEPT ![p].left = @ \ {c}, ![p].ring = IF Full(c) THEN {c} ELSE {}]
    BY <1>3 DEF FanSend
  <2>2. fan[p].ring = {}
    BY <1>3 DEF FanSend
  <2> DEFINE r == IF Full(c) THEN {c} ELSE {}
  <2>3. /\ fan'[p] = [fan[p] EXCEPT !.left = @ \ {c}, !.ring = r]
        /\ \A q \in Task \ {p} : fan'[q] = fan[q]
    BY <1>1, <2>1
  <2>4. r \subseteq Conn
    OBVIOUS
  <2> HIDE DEF r
  <2>5. /\ fan'[p] \in Fan /\ fan'[p].msg = fan[p].msg
        /\ fan'[p].left = fan[p].left \ {c}
    BY <1>1, <2>3, <2>4 DEF Fan
  <2> QED
    BY <1>1, <1>2, <2>2, <2>3, <2>5, NoFanAssumption
<1>4. CASE Notify(p, c)
  <2>1. fan' = [fan EXCEPT ![p].ring = @ \ {c}]
    BY <1>4 DEF Notify
  <2> QED
    BY <1>1, <1>2, <2>1, NoFanAssumption DEF Fan
<1> QED
  BY <1>3, <1>4

LEMMA LockInvStep == ASSUME TypeOK, LockInv, [Next]_vars PROVE LockInv'
<1>1. ASSUME NEW c \in Conn, Bystander(c) PROVE LockInv'
  <2>1. UNCHANGED <<fan, subs>>
    BY <1>1, BystanderSteps
  <2>2. \A d \in Conn : pc[d] = "fan" => pc'[d] = "fan"
    BY <1>1, BystanderSteps DEF TypeOK
  <2> QED
    BY <2>1, <2>2 DEF LockInv
<1>2. ASSUME LockFree, UNCHANGED fan PROVE LockInv'
  BY <1>2 DEF LockFree, LockInv, Task
<1>3. ASSUME NEW p \in Task, NEW t \in Type, LockFree, StartFan(p, t), UNCHANGED subs,
             p \in Conn => pc'[p] = "fan"
      PROVE  LockInv'
  <2>1. fan' = [fan EXCEPT ![p] =
                  [msg |-> [id |-> seq + 1, type |-> t], left |-> subs[t], ring |-> {}]]
    BY <1>3, StartType
  <2>2. /\ fan'[p].msg.type = t /\ fan'[p].left = subs[t]
        /\ \A q \in Task \ {p} : fan'[q] = NoFan
    BY <1>3, <2>1 DEF TypeOK, LockFree
  <2> QED
    BY <1>3, <2>2 DEF LockInv, Task
<1>4. ASSUME NEW c \in Conn, PublishLocal(c) PROVE LockInv'
  <2>1. /\ LockFree /\ StartFan(c, asked[c].type) /\ UNCHANGED subs
        /\ pc' = [pc EXCEPT ![c] = "fan"]
    BY <1>4 DEF PublishLocal, Goto
  <2>2. asked[c].type \in Type /\ pc'[c] = "fan" /\ c \in Task
    BY <2>1 DEF TypeOK, Task
  <2> QED
    BY <1>3, <2>1, <2>2
<1>5. ASSUME NEW t \in Type, IngestRemote(t) PROVE LockInv'
  <2>1. LockFree /\ StartFan(Peer, t) /\ UNCHANGED subs
    BY <1>5 DEF IngestRemote
  <2>2. Peer \in Task /\ Peer \notin Conn
    BY PeerAssumption DEF Task
  <2> QED
    BY <1>3, <2>1, <2>2
<1>6. ASSUME NEW p \in Task, NEW c \in Conn, FanSend(p, c) \/ Notify(p, c) PROVE LockInv'
  <2>1. \A q \in Task : fan'[q] # NoFan => fan[q] # NoFan
    BY <1>6, FanSteps
  <2>2. \A q \in Task \ {p} : fan[q] = NoFan
    BY <1>6, FanSteps DEF LockInv
  <2>3. UNCHANGED <<subs, pc>>
    BY <1>6, FanSteps
  <2>4. fan'[p].left \subseteq subs'[fan'[p].msg.type]
    BY <1>6, <2>3, FanSteps DEF LockInv
  <2> QED
    BY <2>1, <2>2, <2>3, <2>4 DEF LockInv, Task
<1>7. ASSUME NEW p \in Task, FanDone(p), fan' = [fan EXCEPT ![p] = NoFan] PROVE LockInv'
  <2>1. \A q \in Task : fan'[q] = NoFan
    BY <1>7 DEF LockInv, FanDone, TypeOK
  <2> QED
    BY <2>1 DEF LockInv, Task
<1>8. ASSUME NEW t \in Type, NEW k \in Key, Override(t, k) PROVE LockInv'
  BY <1>2, <1>8 DEF Override
<1>9. ASSUME NEW c \in Conn, NEW t \in Type, Subscribe(c, t) \/ Unsubscribe(c, t) PROVE LockInv'
  BY <1>2, <1>9 DEF Subscribe, Unsubscribe
<1>10. ASSUME NEW c \in Conn, Cleanup(c) PROVE LockInv'
  BY <1>2, <1>10 DEF Cleanup
<1>11. ASSUME NEW c \in Conn, Accept(c) PROVE LockInv'
  BY <1>7, <1>11 DEF Accept, Task
<1>12. CASE IngestDone
  BY <1>7, <1>12 DEF IngestDone, Task
<1>13. CASE UNCHANGED vars
  BY <1>13 DEF vars, regVars, taskVars, LockInv
<1> QED
  BY <1>1, <1>4, <1>5, <1>6, <1>8, <1>9, <1>10, <1>11, <1>12, <1>13, BusSteps

LEMMA SubsInvStep == ASSUME TypeOK, LockInv, SubsInv, [Next]_vars PROVE SubsInv'
<1>1. ASSUME NEW c \in Conn, Bystander(c) PROVE SubsInv'
  <2>1. UNCHANGED <<subs, mySubs>>
    BY <1>1, BystanderSteps
  <2>2. \A d \in Conn : pc'[d] = "gone" => pc[d] = "gone"
    BY <1>1, BystanderSteps DEF TypeOK
  <2> QED
    BY <2>1, <2>2 DEF SubsInv, SubscriptionsAgree
<1>2. ASSUME NEW c \in Conn, NEW t \in Type, Subscribe(c, t) PROVE SubsInv'
  <2>1. /\ subs' = [subs EXCEPT ![t] = @ \union {c}]
        /\ mySubs' = [mySubs EXCEPT ![c] = @ \union {t}]
        /\ pc[c] = "poll" /\ pc' = [pc EXCEPT ![c] = "top"]
    BY <1>2 DEF Subscribe, TakeLine, Goto
  <2> QED
    BY <2>1 DEF SubsInv, SubscriptionsAgree, TypeOK
<1>3. ASSUME NEW c \in Conn, NEW t \in Type, Unsubscribe(c, t) PROVE SubsInv'
  <2>1. /\ subs' = [subs EXCEPT ![t] = @ \ {c}]
        /\ mySubs' = [mySubs EXCEPT ![c] = @ \ {t}]
        /\ pc[c] = "poll" /\ pc' = [pc EXCEPT ![c] = "top"]
    BY <1>3 DEF Unsubscribe, Unsubscribed, TakeLine, Goto
  <2> QED
    BY <2>1 DEF SubsInv, SubscriptionsAgree, TypeOK
<1>4. ASSUME NEW c \in Conn, Cleanup(c) PROVE SubsInv'
  <2>1. /\ subs' = [t \in Type |-> IF t \in mySubs[c] THEN subs[t] \ {c} ELSE subs[t]]
        /\ mySubs' = [mySubs EXCEPT ![c] = {}]
        /\ pc' = [pc EXCEPT ![c] = "gone"]
    BY <1>4 DEF Cleanup, RemoveConn, Goto
  <2>2. mySubs'[c] = {} /\ \A d \in Conn \ {c} : mySubs'[d] = mySubs[d] /\ pc'[d] = pc[d]
    BY <2>1 DEF TypeOK
  <2>3. SubscriptionsAgree'
    BY <2>1, <2>2 DEF SubsInv, SubscriptionsAgree
  <2> QED
    BY <2>2, <2>3 DEF SubsInv
<1>5. ASSUME NEW c \in Conn, PublishLocal(c) \/ Accept(c) PROVE SubsInv'
  <2>1. UNCHANGED <<subs, mySubs>> /\ pc' \in {[pc EXCEPT ![c] = "fan"], [pc EXCEPT ![c] = "top"]}
    BY <1>5 DEF PublishLocal, Accept, Goto
  <2>2. pc[c] # "gone"
    BY <1>5 DEF PublishLocal, BodyRead, Accept, FanDone, LockInv
  <2>3. \A d \in Conn : pc'[d] = "gone" => pc[d] = "gone"
    BY <2>1, <2>2 DEF TypeOK
  <2> QED
    BY <2>1, <2>3 DEF SubsInv, SubscriptionsAgree
<1>6. ASSUME NEW p \in Task, NEW c \in Conn, FanSend(p, c) \/ Notify(p, c) PROVE SubsInv'
  BY <1>6 DEF FanSend, Notify, taskVars, SubsInv, SubscriptionsAgree
<1>7. CASE IngestDone \/ UNCHANGED vars
  BY <1>7 DEF IngestDone, vars, regVars, taskVars, SubsInv, SubscriptionsAgree
<1>8. ASSUME NEW t \in Type, IngestRemote(t) \/ \E k \in Key : Override(t, k) PROVE SubsInv'
  BY <1>8 DEF IngestRemote, Override, taskVars, SubsInv, SubscriptionsAgree
<1> QED
  BY <1>1, <1>2, <1>3, <1>4, <1>5, <1>6, <1>7, <1>8, BusSteps

\* The wake-ups owed by the fan-outs.
Owed(c) == \E p \in Task : fan[p] # NoFan /\ c \in fan[p].ring

\* The loop's own steps and the counters.
LEMMA LoopCounts ==
    ASSUME TypeOK, NothingDrained, WakeOwed, NEW c \in Conn, Bystander(c)
    PROVE  NothingDrained' /\ WakeOwed'
<1> USE DEF Goto, regVars, taskVars, outVars, histVars
<1>1. \A d \in Conn \ {c} : /\ pc'[d] = pc[d] /\ drops'[d] = drops[d]
                            /\ drained'[d] = drained[d] /\ permit'[d] = permit[d]
  <2>1. \A d \in Conn \ {c} : pc'[d] = pc[d]
    BY BystanderSteps DEF TypeOK
  <2>2. /\ drops' = drops \/ drops' = [drops EXCEPT ![c] = Zero]
        /\ \/ drained' = drained \/ drained' = [drained EXCEPT ![c] = Zero]
           \/ drained' = [drained EXCEPT ![c] = Drain(c)]
        /\ permit' = permit \/ permit' = [permit EXCEPT ![c] = FALSE]
    BY DEF Bystander, FlushDrops, WriteNotices, Need, Recv, Wake, Disconnect, Read, Inert,
           Quit, PublishRefused, PublishTooLarge, Register, Publish
  <2> QED
    BY <2>1, <2>2 DEF TypeOK, Counters
<1>2. UNCHANGED fan
  BY BystanderSteps
<1>3. Owed(c)' = Owed(c)
  BY <1>2 DEF Owed
<1>4. /\ pc'[c] \notin {"flush", "end", "gone"} => drained'[c] = Zero
      /\ pc'[c] \in {"flush", "poll", "wait"} /\ drops'[c] # Zero => permit'[c] \/ Owed(c)
  <2> USE DEF TypeOK, Counters
  <2>1. CASE FlushDrops(c)
    <3>1. drops[c] = Zero \/ drops'[c] = Zero
      BY <2>1 DEF FlushDrops
    <3>2. pc'[c] = "flush" \/ (pc'[c] = "poll" /\ drained' = drained /\ drops' = drops)
      BY <2>1 DEF FlushDrops
    <3> QED
      BY <2>1, <3>1, <3>2 DEF FlushDrops, NothingDrained
  <2>2. CASE WriteNotices(c)
    <3>1. /\ pc[c] = "flush" /\ pc'[c] = "poll" /\ drained'[c] = Zero
          /\ UNCHANGED <<drops, permit>>
      BY <2>2 DEF WriteNotices
    <3> QED
      BY <3>1 DEF WakeOwed, Owed
  <2>3. CASE Need(c)
    <3>1. /\ pc[c] = "poll" /\ pc'[c] = "wait" /\ UNCHANGED <<drops, drained, permit>>
      BY <2>3 DEF Need
    <3> QED
      BY <3>1 DEF NothingDrained, WakeOwed, Owed
  <2>4. CASE Disconnect(c) \/ Quit(c)
    <3>1. pc'[c] = "end"
      BY <2>4 DEF Disconnect, Quit
    <3> QED
      BY <3>1
  <2>5. CASE \/ Recv(c) \/ Wake(c) \/ \E n \in 0 .. MaxBatch : Read(c, n)
             \/ Inert(c) \/ PublishRefused(c) \/ PublishTooLarge(c)
             \/ \E t \in Type, k \in Key : Register(c, t, k) \/ Publish(c, t, k)
    <3>1. /\ pc'[c] \in {"top", "body"} /\ pc[c] \in {"wait", "poll", "body"}
          /\ UNCHANGED drained
      BY <2>5 DEF Recv, Wake, Read, Inert, PublishRefused, PublishTooLarge, Register,
                  Publish, TakeLine, BodyRead
    <3> QED
      BY <3>1 DEF NothingDrained
  <2> QED
    BY <2>1, <2>2, <2>3, <2>4, <2>5 DEF Bystander
<1> QED
  BY <1>1, <1>2, <1>3, <1>4 DEF NothingDrained, WakeOwed, Owed

\* A drop is counted together with the wake-up it is owed, and a wake-up is
\* stored before it is no longer owed.
LEMMA FanCounts ==
    ASSUME TypeOK, NothingDrained, WakeOwed,
           NEW p \in Task, NEW c \in Conn, FanSend(p, c) \/ Notify(p, c)
    PROVE  NothingDrained' /\ WakeOwed'
<1>1. UNCHANGED <<pc, drained>>
  BY DEF FanSend, Notify, taskVars
<1>2. ASSUME NEW d \in Conn, d # c
      PROVE  drops'[d] = drops[d] /\ permit'[d] = permit[d] /\ (Owed(d) => Owed(d)')
  <2>1. drops'[d] = drops[d]
    BY <1>2 DEF FanSend, Notify, TypeOK, Counters
  <2>2. permit'[d] = permit[d]
    BY <1>2 DEF FanSend, Notify, TypeOK
  <2>3. Owed(d) => Owed(d)'
    BY <1>2, FanSteps DEF Owed
  <2> QED
    BY <2>1, <2>2, <2>3
<1>3. drops'[c] # Zero /\ (drops[c] # Zero => permit[c] \/ Owed(c)) => permit'[c] \/ Owed(c)'
  <2>1. CASE FanSend(p, c) /\ Full(c)
    <3>1. fan' = [fan EXCEPT ![p].left = @ \ {c}, ![p].ring = {c}]
      BY <2>1 DEF FanSend
    <3>2. c \in fan'[p].ring
      BY <3>1, FanSteps DEF TypeOK, Fan
    <3> QED
      BY <3>2, FanSteps DEF Owed
  <2>2. CASE FanSend(p, c) /\ ~ Full(c)
    <3>1. drops' = drops /\ permit' = permit /\ fan[p].ring = {}
      BY <2>2 DEF FanSend
    <3>2. Owed(c) => Owed(c)'
      BY <3>1, FanSteps DEF Owed
    <3> QED
      BY <3>1, <3>2
  <2>3. CASE Notify(p, c)
    <3>1. permit'[c] = TRUE
      BY <2>3 DEF Notify, Notified, TypeOK
    <3> QED
      BY <3>1
  <2> QED
    BY <2>1, <2>2, <2>3
<1>4. NothingDrained'
  BY <1>1 DEF NothingDrained
<1> QED
  BY <1>1, <1>2, <1>3, <1>4 DEF WakeOwed, Owed

LEMMA CountsStep ==
    ASSUME TypeOK, LockInv, NothingDrained, WakeOwed, [Next]_vars
    PROVE  NothingDrained' /\ WakeOwed'
<1> USE DEF regVars, taskVars, outVars, histVars
<1>1. ASSUME NEW c \in Conn, pc[c] \notin {"flush", "end", "gone"},
             NEW q \in {"top", "fan"}, pc' = [pc EXCEPT ![c] = q],
             UNCHANGED <<drops, drained, permit>>, \A d \in Conn : Owed(d) => Owed(d)'
      PROVE  NothingDrained' /\ WakeOwed'
  BY <1>1 DEF NothingDrained, WakeOwed, Owed, TypeOK
<1>2. ASSUME NEW c \in Conn, NEW t \in Type, Subscribe(c, t) \/ Unsubscribe(c, t)
      PROVE  NothingDrained' /\ WakeOwed'
  <2>1. /\ pc[c] = "poll" /\ pc' = [pc EXCEPT ![c] = "top"]
        /\ UNCHANGED <<drops, drained, permit, fan>>
    BY <1>2 DEF Subscribe, Unsubscribe, TakeLine, Goto
  <2> QED
    BY <1>1, <2>1 DEF Owed
<1>3. ASSUME LockFree, NEW d \in Conn PROVE ~ Owed(d)
  BY <1>3 DEF LockFree, Owed
<1>4. ASSUME NEW c \in Conn, PublishLocal(c) PROVE NothingDrained' /\ WakeOwed'
  <2>1. /\ pc[c] = "body" /\ pc' = [pc EXCEPT ![c] = "fan"] /\ LockFree
        /\ UNCHANGED <<drops, drained, permit>>
    BY <1>4 DEF PublishLocal, BodyRead, Goto
  <2> QED
    BY <1>1, <1>3, <2>1
<1>5. ASSUME NEW p \in Task, FanDone(p), fan' = [fan EXCEPT ![p] = NoFan], NEW d \in Conn, Owed(d)
      PROVE  Owed(d)'
  BY <1>5 DEF Owed, FanDone, TypeOK
<1>6. ASSUME NEW c \in Conn, Accept(c) PROVE NothingDrained' /\ WakeOwed'
  <2>1. /\ pc[c] = "fan" /\ pc' = [pc EXCEPT ![c] = "top"]
        /\ UNCHANGED <<drops, drained, permit>>
        /\ FanDone(c) /\ fan' = [fan EXCEPT ![c] = NoFan]
    BY <1>6 DEF Accept, FanDone, LockInv, Goto
  <2>2. \A d \in Conn : Owed(d) => Owed(d)'
    BY <1>5, <2>1 DEF Task
  <2> QED
    BY <1>1, <2>1, <2>2
<1>7. ASSUME NEW c \in Conn, Cleanup(c) PROVE NothingDrained' /\ WakeOwed'
  <2>1. pc' = [pc EXCEPT ![c] = "gone"] /\ UNCHANGED <<drops, drained, permit, fan>>
    BY <1>7 DEF Cleanup, Goto
  <2> QED
    BY <2>1 DEF NothingDrained, WakeOwed, TypeOK
<1>8. ASSUME UNCHANGED <<pc, drops, drained, permit>>, \A d \in Conn : Owed(d) => Owed(d)'
      PROVE  NothingDrained' /\ WakeOwed'
  BY <1>8 DEF NothingDrained, WakeOwed, Owed
<1>9. CASE IngestDone
  <2>1. /\ FanDone(Peer) /\ fan' = [fan EXCEPT ![Peer] = NoFan]
        /\ UNCHANGED <<pc, drops, drained, permit>>
    BY <1>9 DEF IngestDone
  <2> QED
    BY <1>5, <1>8, <2>1 DEF Task
<1>10. ASSUME NEW t \in Type, IngestRemote(t) \/ \E k \in Key : Override(t, k)
       PROVE  NothingDrained' /\ WakeOwed'
  <2>1. LockFree /\ UNCHANGED <<pc, drops, drained, permit>>
    BY <1>10 DEF IngestRemote, Override
  <2> QED
    BY <1>3, <1>8, <2>1
<1>11. CASE UNCHANGED vars
  BY <1>8, <1>11 DEF vars, Owed
<1> QED
  BY <1>2, <1>4, <1>6, <1>7, <1>9, <1>10, <1>11, LoopCounts, FanCounts, BusSteps

LEMMA BusInvStep == BusInv /\ [Next]_vars => BusInv'
  BY TypeStep, LockInvStep, SubsInvStep, CountsStep DEF BusInv

LEMMA BusInvariant == Spec => []BusInv
  BY BusInvInit, BusInvStep, PTL DEF Spec

\* The registry and every connection agree on what is subscribed to, over
\* every interleaving of commands, fan-outs and ends of connections:
\* remove_conn, which trusts my_subs, leaves nothing behind.
THEOREM SubscriptionsKept == Spec => []SubscriptionsAgree
<1>1. BusInv => SubscriptionsAgree
  BY DEF BusInv, SubsInv
<1> QED
  BY <1>1, BusInvariant, PTL

\* The Closed arm of fanout_locked is never taken: who is still to be served
\* is subscribed, and whoever is gone is not.
THEOREM TargetsAlive == Spec => []NoSendToClosed
<1>1. BusInv => NoSendToClosed
  <2> SUFFICES ASSUME BusInv, NEW p \in Task, fan[p] # NoFan, NEW c \in fan[p].left,
                      pc[c] = "gone"
               PROVE  FALSE
    BY DEF NoSendToClosed
  <2>1. fan[p] \in Fan /\ c \in Conn /\ fan[p].msg.type \in Type
    BY DEF BusInv, TypeOK, Fan, Message
  <2>2. c \in subs[fan[p].msg.type]
    BY DEF BusInv, LockInv
  <2>3. fan[p].msg.type \in mySubs[c]
    BY <2>1, <2>2 DEF BusInv, SubsInv, SubscriptionsAgree
  <2> QED
    BY <2>1, <2>3 DEF BusInv, SubsInv
<1> QED
  BY <1>1, BusInvariant, PTL

\* No wake-up is lost between a flush of the drop counters and the wait that
\* follows, for any number of publishers.
THEOREM WakeupsKept == Spec => []NoLostWakeup
<1>1. BusInv => NoLostWakeup
  BY DEF BusInv, WakeOwed, NoLostWakeup
<1> QED
  BY <1>1, BusInvariant, PTL
-----------------------------------------------------------------------------
(* Authorization.                                                          *)

\* publish_local lets a message in only with the key that owns its type then.
LEMMA AuthorizedStep ==
    ASSUME TypeOK, [Next]_vars, NEW c \in Conn, fan[c] = NoFan, fan'[c] # NoFan
    PROVE  owner[fan'[c].msg.type] = asked[c].key
<1>1. c \in Task /\ c # Peer
  BY PeerAssumption DEF Task
<1>2. ASSUME NEW d \in Conn, PublishLocal(d) PROVE owner[fan'[c].msg.type] = asked[c].key
  <2> DEFINE t == asked[d].type
  <2>1. StartFan(d, t) /\ Authorized(d) /\ d \in Task /\ t \in Type
    BY <1>2 DEF PublishLocal, Task, TypeOK
  <2>2. fan' = [fan EXCEPT ![d] =
                  [msg |-> [id |-> seq + 1, type |-> t], left |-> subs[t], ring |-> {}]]
    BY <2>1, StartType
  <2>3. d = c
    BY <1>1, <2>1, <2>2 DEF TypeOK
  <2>4. fan'[c].msg.type = t
    BY <1>1, <2>2, <2>3 DEF TypeOK
  <2>5. owner[t] \in {NoKey, asked[d].key} /\ owner[t] # NoKey
    BY <2>1 DEF Authorized, Verdict
  <2> QED
    BY <2>3, <2>4, <2>5
<1>3. ASSUME NEW p \in Task, NEW d \in Conn, FanSend(p, d) \/ Notify(p, d) PROVE FALSE
  BY <1>1, <1>3, FanSteps
<1>4. ASSUME NEW p \in Task, fan' = [fan EXCEPT ![p] = NoFan] PROVE FALSE
  BY <1>1, <1>4 DEF TypeOK
<1>5. ASSUME NEW t \in Type, IngestRemote(t) PROVE FALSE
  <2>1. fan'[c] = fan[c]
    BY <1>1, <1>5, StartType DEF IngestRemote, StartFan, Task, TypeOK
  <2> QED
    BY <2>1
<1>6. ASSUME fan' = fan PROVE FALSE
  BY <1>6
<1>7. CASE \E d \in Conn : Bystander(d)
  BY <1>6, <1>7, BystanderSteps
<1>8. CASE \E d \in Conn, t \in Type : Subscribe(d, t) \/ Unsubscribe(d, t)
  BY <1>6, <1>8 DEF Subscribe, Unsubscribe
<1>9. CASE \E d \in Conn : Accept(d) \/ Cleanup(d)
  BY <1>4, <1>6, <1>9 DEF Accept, Cleanup, Task
<1>10. CASE IngestDone
  BY <1>4, <1>10 DEF IngestDone, Task
<1>11. CASE (\E t \in Type, k \in Key : Override(t, k)) \/ UNCHANGED vars
  BY <1>6, <1>11 DEF Override, vars, regVars
<1> QED
  BY <1>2, <1>3, <1>5, <1>7, <1>8, <1>9, <1>10, <1>11, BusSteps

\* The check before 354 is out of date when the body has been read; the one
\* publish_local takes under the lock is not, whoever overrode the owner meanwhile.
THEOREM Authorization == Spec => AuthorizedAtPublish
<1>1. ASSUME BusInv, [Next]_vars
      PROVE  [\A c \in Conn : fan[c] = NoFan /\ fan'[c] # NoFan
                 => owner[fan'[c].msg.type] = asked[c].key]_vars
  BY <1>1, AuthorizedStep DEF BusInv
<1> QED
  BY <1>1, BusInvariant, PTL DEF Spec, AuthorizedAtPublish
-----------------------------------------------------------------------------
(* The bus its subscribers see.                                            *)

\* Coming, of any value of fan.
ComingOf(f, c) ==
    LET fans == {p \in Task : f[p] # NoFan /\ c \in f[p].left}
    IN  IF fans = {} THEN <<>> ELSE <<f[CHOOSE p \in fans : TRUE].msg>>

\* With one fan-out at a time its message is all that comes.
LEMMA ComingIs ==
    ASSUME NEW f, NEW p \in Task, NEW c,
           \A q \in Task : f[q] # NoFan => q = p,
           f[p] # NoFan
    PROVE  ComingOf(f, c) = IF c \in f[p].left THEN <<f[p].msg>> ELSE <<>>
<1> DEFINE fans == {q \in Task : f[q] # NoFan /\ c \in f[q].left}
<1>1. CASE c \in f[p].left
  <2>1. fans = {p}
    BY <1>1
  <2>2. (CHOOSE q \in fans : TRUE) = p
    BY <2>1
  <2> QED
    BY <1>1, <2>1, <2>2 DEF ComingOf
<1>2. CASE c \notin f[p].left
  <2>1. fans = {}
    BY <1>2
  <2> QED
    BY <1>2, <2>1 DEF ComingOf
<1> QED
  BY <1>1, <1>2

\* With none nothing comes.
LEMMA NothingComing ==
    ASSUME NEW f, NEW c, \A q \in Task : f[q] = NoFan PROVE ComingOf(f, c) = <<>>
  BY DEF ComingOf

LEMMA ComingDef == ASSUME NEW c PROVE Coming(c) = ComingOf(fan, c) /\ Coming(c)' = ComingOf(fan', c)
  BY DEF Coming, ComingOf

LEMMA ComingMessage ==
    ASSUME TypeOK, LockInv, NEW c
    PROVE  Coming(c) = <<>> \/ \E m \in Message : Coming(c) = <<m>>
<1>1. CASE \A q \in Task : fan[q] = NoFan
  BY <1>1, ComingDef, NothingComing
<1>2. ASSUME NEW p \in Task, fan[p] # NoFan
      PROVE  Coming(c) = <<>> \/ \E m \in Message : Coming(c) = <<m>>
  <2>1. fan[p].msg \in Message
    BY <1>2 DEF TypeOK, Fan
  <2>2. \A q \in Task : fan[q] # NoFan => q = p
    BY <1>2 DEF LockInv
  <2> QED
    BY <1>2, <2>1, <2>2, ComingDef, ComingIs
<1> QED
  BY <1>1, <1>2

\* What the abstract bus calls due and missed.
DueMap == [c \in Conn |-> queue[c] \o Coming(c)]
MissMap == [c \in Conn |-> Plus(Plus(drops[c], drained[c]), noticed[c])]

LEMMA RefinesInit == Init => Promise!Init
<1> SUFFICES ASSUME Init PROVE Promise!Init
  OBVIOUS
<1>1. \A c \in Conn : Coming(c) = <<>>
  BY ComingDef, NothingComing DEF Init
<1>2. \A c \in Conn : queue[c] \o Coming(c) = <<>>
  <2>1. <<>> \o <<>> = <<>>
    BY EmptySeq, ConcatEmptySeq
  <2> QED
    BY <1>1, <2>1 DEF Init
<1>3. \A c \in Conn : Plus(Plus(drops[c], drained[c]), noticed[c]) = Zero
  <2>1. Plus(Zero, Zero) = Zero
    BY DEF Plus, Zero
  <2> QED
    BY <2>1 DEF Init
<1> QED
  BY <1>2, <1>3 DEF Init, Promise!Init, Promise!None, Zero

\* A step that changes nothing the abstract bus has.
LEMMA Stutter ==
    ASSUME UNCHANGED <<subs, seq, last, noticed>>, DueMap' = DueMap, MissMap' = MissMap
    PROVE  UNCHANGED Promise!vars
  BY DEF Promise!vars, DueMap, MissMap

LEMMA SameDue == ASSUME UNCHANGED <<queue, fan>> PROVE DueMap' = DueMap
  BY ComingDef DEF DueMap

LEMMA SameMissed == ASSUME UNCHANGED <<drops, drained, noticed>> PROVE MissMap' = MissMap
  BY DEF MissMap, Plus

\* flush_drops moves counts from one place to another.
LEMMA FlushMissed == ASSUME BusInv, NEW c \in Conn, FlushDrops(c) PROVE MissMap' = MissMap
<1>1. drops \in Counters /\ drained \in Counters /\ noticed \in Counters
  BY DEF BusInv, TypeOK
<1>2. drained[c] = Zero /\ UNCHANGED noticed
  BY DEF BusInv, NothingDrained, FlushDrops, histVars
<1>3. CASE drops[c] = Zero
  BY <1>2, <1>3, SameMissed DEF FlushDrops
<1>4. CASE drops[c] # Zero
  <2>1. /\ drained' = [drained EXCEPT ![c] = drops[c]]
        /\ drops' = [drops EXCEPT ![c] = Zero]
    BY <1>4 DEF FlushDrops, Drain
  <2>2. /\ \A d \in Conn \ {c} : drops'[d] = drops[d] /\ drained'[d] = drained[d]
        /\ drops'[c] = Zero /\ drained'[c] = drops[c]
    BY <1>1, <2>1 DEF Counters
  <2>3. Plus(Zero, drops[c]) = Plus(drops[c], Zero)
    BY <1>1 DEF Plus, Zero, Counters
  <2>4. ASSUME NEW d \in Conn
        PROVE  Plus(Plus(drops[d], drained[d]), noticed[d])'
                   = Plus(Plus(drops[d], drained[d]), noticed[d])
    <3>1. Plus(drops[d], drained[d])' = Plus(drops[d], drained[d])
      BY <1>2, <2>2, <2>3 DEF Plus
    <3> QED
      BY <1>2, <3>1 DEF Plus
  <2> QED
    BY <2>4 DEF MissMap
<1> QED
  BY <1>3, <1>4

\* The write of 102 DROP tells the client of misses that happened.
LEMMA NoticesReport == ASSUME BusInv, NEW c \in Conn, WriteNotices(c) PROVE Promise!Report(c)
<1>1. drops \in Counters /\ drained \in Counters /\ noticed \in Counters /\ noticed' \in Counters
  <2>1. TypeOK'
    BY LoopType DEF BusInv
  <2> QED
    BY <2>1 DEF BusInv, TypeOK
<1>2. /\ noticed' = [noticed EXCEPT ![c] = [t \in Type |-> @[t] + drained[c][t]]]
      /\ drained' = [drained EXCEPT ![c] = Zero]
      /\ UNCHANGED <<drops, subs, seq, last, queue, fan>>
  BY DEF WriteNotices, regVars
<1>3. /\ \A t \in Type : noticed'[c][t] = noticed[c][t] + drained[c][t]
      /\ \A d \in Conn \ {c} : noticed'[d] = noticed[d] /\ drained'[d] = drained[d]
      /\ drained'[c] = Zero
  BY <1>1, <1>2 DEF Counters
<1>4. \A t \in Type : /\ noticed[c][t] \in Nat /\ drained[c][t] \in Nat /\ drops[c][t] \in Nat
                      /\ drained'[c][t] = 0
  BY <1>1, <1>3 DEF Counters, Zero
<1>5. \A t \in Type : (drops[c][t] + drained[c][t]) + noticed[c][t]
                          = (drops[c][t] + drained'[c][t]) + noticed'[c][t]
  BY <1>3, <1>4
<1>6. \A d \in Conn, t \in Type : (drops[d][t] + drained[d][t]) + noticed[d][t]
                          = (drops[d][t] + drained'[d][t]) + noticed'[d][t]
  BY <1>3, <1>5
<1>7. ASSUME NEW d \in Conn
      PROVE  Plus(Plus(drops[d], drained[d]), noticed[d])'
                 = Plus(Plus(drops[d], drained[d]), noticed[d])
  BY <1>2, <1>6 DEF Plus
<1>8. MissMap' = MissMap
  BY <1>7 DEF MissMap
<1>9. DueMap' = DueMap
  BY <1>2, SameDue
<1>10. \A t \in Type : /\ noticed[c][t] <= noticed'[c][t]
                       /\ noticed'[c][t] <= MissMap[c][t]
  <2>1. \A t \in Type : MissMap[c][t] = (drops[c][t] + drained[c][t]) + noticed[c][t]
    BY DEF MissMap, Plus
  <2> QED
    BY <1>3, <1>4, <2>1
<1> QED
  BY <1>1, <1>2, <1>3, <1>8, <1>9, <1>10
  DEF Promise!Report, DueMap, MissMap, Counters

\* What is written is the first of what is due.
LEMMA RecvDelivers == ASSUME BusInv, NEW c \in Conn, Recv(c) PROVE Promise!Deliver(c)
<1>1. queue[c] \in Seq(Message) /\ queue[c] # <<>> /\ queue \in [Conn -> Seq(Message)]
  BY DEF Recv, Ready, BusInv, TypeOK
<1>2. /\ queue' = [queue EXCEPT ![c] = Tail(@)]
      /\ last' = [last EXCEPT ![c] = Head(queue[c]).id]
      /\ UNCHANGED <<subs, seq, fan, drops, drained, noticed>>
  BY DEF Recv, regVars
<1>3. \A d \in Conn : Coming(d)' = Coming(d)
  BY <1>2, ComingDef
<1>4. /\ queue[c] \o Coming(c) # <<>>
      /\ Head(queue[c] \o Coming(c)) = Head(queue[c])
      /\ Tail(queue[c] \o Coming(c)) = Tail(queue[c]) \o Coming(c)
  <2>1. CASE Coming(c) = <<>>
    <3>1. Tail(queue[c]) \in Seq(Message)
      BY <1>1, HeadTailProperties
    <3> QED
      BY <1>1, <2>1, <3>1, ConcatEmptySeq
  <2>2. ASSUME NEW m \in Message, Coming(c) = <<m>>
        PROVE  /\ queue[c] \o Coming(c) # <<>>
               /\ Head(queue[c] \o Coming(c)) = Head(queue[c])
               /\ Tail(queue[c] \o Coming(c)) = Tail(queue[c]) \o Coming(c)
    <3>1. Tail(queue[c]) \in Seq(Message)
      BY <1>1, HeadTailProperties
    <3>2. /\ queue[c] \o <<m>> = Append(queue[c], m)
          /\ Tail(queue[c]) \o <<m>> = Append(Tail(queue[c]), m)
      BY <1>1, <3>1, AppendIsConcat
    <3> QED
      BY <1>1, <2>2, <3>2, HeadTailAppend, AppendProperties
  <2>3. Coming(c) = <<>> \/ \E m \in Message : Coming(c) = <<m>>
    BY ComingMessage DEF BusInv
  <2> QED
    BY <2>1, <2>2, <2>3
<1>5. /\ \A d \in Conn \ {c} : queue'[d] = queue[d]
      /\ queue'[c] = Tail(queue[c])
  BY <1>1, <1>2
<1>6. DueMap' = [DueMap EXCEPT ![c] = Tail(@)]
  BY <1>3, <1>4, <1>5 DEF DueMap
<1>7. MissMap' = MissMap
  BY <1>2, SameMissed
<1>8. DueMap[c] # <<>> /\ Head(DueMap[c]) = Head(queue[c])
  BY <1>4 DEF DueMap
<1> QED
  BY <1>2, <1>6, <1>7, <1>8 DEF Promise!Deliver, DueMap, MissMap

\* The message a fan-out starts with is due to all subscribers at once.
LEMMA StartAccepts ==
    ASSUME BusInv, NEW p \in Task, NEW t \in Type, LockFree, StartFan(p, t),
           UNCHANGED <<subs, queue, drops, drained, noticed, last>>
    PROVE  Promise!Accept(t)
<1> DEFINE m == [id |-> seq + 1, type |-> t]
<1>1. TypeOK /\ \A q \in Task : fan[q] = NoFan
  BY DEF BusInv, LockFree
<1>2. fan' = [fan EXCEPT ![p] = [msg |-> m, left |-> subs[t], ring |-> {}]]
  BY <1>1, StartType
<1>3. /\ fan'[p].msg = m /\ fan'[p].left = subs[t] /\ fan'[p] # NoFan
      /\ \A q \in Task : fan'[q] # NoFan => q = p
  BY <1>1, <1>2, StartType DEF TypeOK
<1>4. seq' = seq + 1 /\ m \in Message
  BY <1>1 DEF StartFan, TypeOK, Message
<1> HIDE DEF m
<1>5. ASSUME NEW c \in Conn
      PROVE  DueMap[c] = queue[c] /\ DueMap'[c] = IF c \in subs[t] THEN Append(queue[c], m) ELSE queue[c]
  <2>1. queue[c] \in Seq(Message)
    BY <1>1 DEF TypeOK
  <2>2. Coming(c) = <<>>
    BY <1>1, ComingDef, NothingComing
  <2>3. Coming(c)' = IF c \in subs[t] THEN <<m>> ELSE <<>>
    BY <1>3, ComingDef, ComingIs
  <2>4. queue[c] \o <<>> = queue[c] /\ queue[c] \o <<m>> = Append(queue[c], m)
    BY <1>4, <2>1, ConcatEmptySeq, AppendIsConcat
  <2>5. DueMap[c] = queue[c] \o Coming(c) /\ DueMap'[c] = queue[c] \o Coming(c)'
    BY DEF DueMap
  <2> QED
    BY <2>2, <2>3, <2>4, <2>5
<1>6. DueMap' = [c \in Conn |-> IF c \in subs[t] THEN Append(DueMap[c], m) ELSE DueMap[c]]
  <2>1. DueMap' = [c \in Conn |-> DueMap'[c]]
    BY DEF DueMap
  <2> QED
    BY <1>5, <2>1
<1>7. MissMap' = MissMap
  BY SameMissed
<1> QED
  BY <1>4, <1>6, <1>7 DEF Promise!Accept, DueMap, MissMap, m

\* A send appends what was due to the queue; a full queue misses it instead.
LEMMA SendMissesOrKeeps ==
    ASSUME BusInv, NEW p \in Task, NEW c \in Conn, FanSend(p, c)
    PROVE  Promise!Miss(c) \/ UNCHANGED Promise!vars
<1> DEFINE m == fan[p].msg
<1>1. /\ fan[p] # NoFan /\ fan[p] \in Fan /\ c \in fan[p].left /\ m \in Message
      /\ \A q \in Task : fan[q] # NoFan => q = p
      /\ queue[c] \in Seq(Message) /\ queue \in [Conn -> Seq(Message)]
      /\ drops \in Counters /\ drained \in Counters /\ noticed \in Counters
  BY DEF BusInv, LockInv, TypeOK, FanSend, Fan
<1>2. /\ fan'[p] # NoFan /\ fan'[p].msg = m /\ UNCHANGED <<subs, seq, last, noticed, drained>>
      /\ \A q \in Task : fan'[q] # NoFan => q = p
  BY <1>1, FanSteps DEF BusInv, FanSend, histVars
<1>3. fan'[p].left = fan[p].left \ {c}
  <2>1. fan' = [fan EXCEPT ![p].left = @ \ {c}, ![p].ring = IF Full(c) THEN {c} ELSE {}]
    BY DEF FanSend
  <2> QED
    BY <1>1, <2>1 DEF BusInv, TypeOK, Fan
<1>4. /\ queue' = [queue EXCEPT ![c] = Offered(c, m)]
      /\ drops' = IF Full(c) THEN [drops EXCEPT ![c][m.type] = @ + 1] ELSE drops
  BY DEF FanSend
<1> HIDE DEF m
<1>5. \A d \in Conn : /\ Coming(d) = IF d \in fan[p].left THEN <<m>> ELSE <<>>
                      /\ Coming(d)' = IF d \in fan[p].left \ {c} THEN <<m>> ELSE <<>>
  <2>1. fan[p].msg = m
    BY DEF m
  <2> QED
    BY <1>1, <1>2, <1>3, <2>1, ComingDef, ComingIs
<1>6. /\ DueMap[c] = Append(queue[c], m)
      /\ DueMap'[c] = Offered(c, m)
  <2>1. queue'[c] = Offered(c, m)
    BY <1>1, <1>4
  <2>2. Append(queue[c], m) = queue[c] \o <<m>>
    BY <1>1, AppendIsConcat
  <2>3. Offered(c, m) \in Seq(Message)
    BY <1>1, AppendProperties DEF Offered
  <2>4. Offered(c, m) \o <<>> = Offered(c, m)
    BY <2>3, ConcatEmptySeq
  <2>5. Coming(c) = <<m>> /\ Coming(c)' = <<>>
    BY <1>1, <1>5
  <2>6. DueMap[c] = queue[c] \o Coming(c) /\ DueMap'[c] = queue'[c] \o Coming(c)'
    BY DEF DueMap
  <2> QED
    BY <2>1, <2>2, <2>4, <2>5, <2>6
<1>7. ASSUME NEW d \in Conn, d # c PROVE DueMap'[d] = DueMap[d]
  <2>1. queue'[d] = queue[d]
    BY <1>1, <1>4, <1>7
  <2>2. Coming(d)' = Coming(d)
    BY <1>5, <1>7
  <2>3. DueMap[d] = queue[d] \o Coming(d) /\ DueMap'[d] = queue'[d] \o Coming(d)'
    BY DEF DueMap
  <2> QED
    BY <2>1, <2>2, <2>3
<1>8. DueMap = [d \in Conn |-> DueMap[d]] /\ DueMap' = [d \in Conn |-> DueMap'[d]]
  BY DEF DueMap
<1>9. CASE ~ Full(c)
  <2>1. DueMap'[c] = DueMap[c]
    BY <1>6, <1>9 DEF Offered
  <2>2. DueMap' = DueMap
    BY <1>7, <1>8, <2>1
  <2>3. MissMap' = MissMap
    BY <1>2, <1>4, <1>9, SameMissed
  <2> QED
    BY <1>2, <2>2, <2>3, Stutter
<1>10. CASE Full(c)
  <2> DEFINE a == Append(queue[c], m)
  <2>1. DueMap'[c] = queue[c]
    BY <1>6, <1>10 DEF Offered
  <2>2. /\ a # <<>> /\ a[Len(a)] = m /\ SubSeq(a, 1, Len(a) - 1) = queue[c]
    <3>1. /\ a # <<>> /\ a \in Seq(Message)
          /\ Len(a) = Len(queue[c]) + 1 /\ a[Len(queue[c]) + 1] = m
          /\ Len(queue[c]) \in Nat
          /\ a = queue[c] \o <<m>>
      BY <1>1, AppendProperties, AppendIsConcat, LenProperties
    <3>2. Len(queue[c]) >= 1
      BY <1>10, <3>1, QueueAssumption DEF Full
    <3>3. <<m>> \in Seq(Message)
      BY <1>1
    <3>4. SubSeq(queue[c] \o <<m>>, 1, Len(queue[c])) = SubSeq(queue[c], 1, Len(queue[c]))
      BY <1>1, <3>1, <3>2, <3>3, SubSeqOfConcat1
    <3>5. SubSeq(queue[c], 1, Len(queue[c])) = queue[c]
      BY <1>1, SubSeqFull
    <3>6. Len(a) - 1 = Len(queue[c])
      BY <3>1
    <3> HIDE DEF a
    <3> QED
      BY <3>1, <3>4, <3>5, <3>6
  <2>3. DueMap' = [DueMap EXCEPT ![c] = queue[c]]
    BY <1>7, <1>8, <2>1
  <2>4. MissMap' = [MissMap EXCEPT ![c][m.type] = @ + 1]
    <3>1. m.type \in Type
      BY <1>1 DEF Message
    <3>2. ASSUME NEW d \in Conn, NEW t \in Type
          PROVE  drops'[d][t] = IF d = c /\ t = m.type THEN drops[d][t] + 1 ELSE drops[d][t]
      BY <1>1, <1>4, <1>10, <3>1 DEF Counters
    <3>3. ASSUME NEW d \in Conn, NEW t \in Type
          PROVE  MissMap'[d][t] = IF d = c /\ t = m.type THEN MissMap[d][t] + 1 ELSE MissMap[d][t]
      <4>1. drops[d][t] \in Nat /\ drained[d][t] \in Nat /\ noticed[d][t] \in Nat
        BY <1>1 DEF Counters
      <4>2. /\ MissMap[d][t] = (drops[d][t] + drained[d][t]) + noticed[d][t]
            /\ MissMap'[d][t] = (drops'[d][t] + drained[d][t]) + noticed[d][t]
        BY <1>2 DEF MissMap, Plus
      <4> QED
        BY <3>2, <4>1, <4>2
    <3>4. /\ MissMap = [d \in Conn |-> [t \in Type |-> MissMap[d][t]]]
          /\ MissMap' = [d \in Conn |-> [t \in Type |-> MissMap'[d][t]]]
      BY DEF MissMap, Plus
    <3> QED
      BY <3>1, <3>3, <3>4
  <2>5. DueMap[c] # <<>> /\ DueMap[c][Len(DueMap[c])] = m
        /\ SubSeq(DueMap[c], 1, Len(DueMap[c]) - 1) = queue[c]
    BY <1>6, <2>2
  <2>6. Promise!Miss(c)
    BY <1>2, <2>3, <2>4, <2>5 DEF Promise!Miss, DueMap, MissMap
  <2> QED
    BY <2>6
<1> QED
  BY <1>9, <1>10

\* remove_conn, which trusts my_subs, ends every subscription there is, and
\* what was queued is dropped with the queue.
LEMMA CleanupLeaves == ASSUME BusInv, NEW c \in Conn, Cleanup(c) PROVE Promise!Leave(c)
<1>1. /\ subs' = [t \in Type |-> IF t \in mySubs[c] THEN subs[t] \ {c} ELSE subs[t]]
      /\ queue' = [queue EXCEPT ![c] = <<>>] /\ LockFree
      /\ UNCHANGED <<fan, seq, last, drops, drained, noticed>>
  BY DEF Cleanup, RemoveConn, histVars
<1>2. subs' = [t \in Type |-> subs[t] \ {c}]
  <2>1. \A t \in Type : t \notin mySubs[c] => c \notin subs[t]
    BY DEF BusInv, SubsInv, SubscriptionsAgree
  <2> QED
    BY <1>1, <2>1
<1>3. \A d \in Conn : Coming(d) = <<>> /\ Coming(d)' = <<>>
  BY <1>1, ComingDef, NothingComing DEF LockFree
<1>4. \A d \in Conn : queue'[d] = IF d = c THEN <<>> ELSE queue[d]
  BY <1>1 DEF BusInv, TypeOK
<1>5. <<>> \o <<>> = <<>>
  BY EmptySeq, ConcatEmptySeq
<1>6. DueMap' = [DueMap EXCEPT ![c] = <<>>]
  BY <1>3, <1>4, <1>5 DEF DueMap
<1>7. MissMap' = MissMap
  BY <1>1, SameMissed
<1> QED
  BY <1>1, <1>2, <1>6, <1>7 DEF Promise!Leave, DueMap, MissMap

\* A wake-up, or the end of a fan-out, changes nothing that is due.
LEMMA FanEndsQuietly ==
    ASSUME BusInv, NEW p \in Task,
           \/ \E c \in Conn : Notify(p, c)
           \/ FanDone(p) /\ fan' = [fan EXCEPT ![p] = NoFan]
                         /\ UNCHANGED <<subs, seq, outVars, histVars>>
    PROVE  UNCHANGED Promise!vars
<1>1. /\ fan[p] # NoFan /\ \A q \in Task : fan[q] # NoFan => q = p
      /\ UNCHANGED <<subs, seq, last, noticed, queue, drops, drained>>
  BY DEF BusInv, LockInv, FanDone, Notify, outVars, histVars
<1>2. ASSUME NEW d \in Conn PROVE Coming(d)' = Coming(d)
  <2>1. CASE \E c \in Conn : Notify(p, c)
    <3>1. /\ fan'[p] # NoFan /\ fan'[p].msg = fan[p].msg /\ fan'[p].left = fan[p].left
          /\ \A q \in Task : fan'[q] # NoFan => q = p
      <4>1. PICK c \in Conn : Notify(p, c)
        BY <2>1
      <4>2. fan' = [fan EXCEPT ![p].ring = @ \ {c}]
        BY <4>1 DEF Notify
      <4> QED
        BY <1>1, <4>1, <4>2, FanSteps DEF BusInv, TypeOK, Fan
    <3> QED
      BY <1>1, <3>1, ComingDef, ComingIs
  <2>2. CASE FanDone(p) /\ fan' = [fan EXCEPT ![p] = NoFan]
    <3>1. \A q \in Task : fan'[q] = NoFan
      BY <1>1, <2>2 DEF BusInv, TypeOK
    <3>2. fan[p].left = {}
      BY <2>2 DEF FanDone
    <3> QED
      BY <1>1, <3>1, <3>2, ComingDef, ComingIs, NothingComing
  <2> QED
    BY <2>1, <2>2
<1>3. DueMap' = DueMap /\ MissMap' = MissMap
  BY <1>1, <1>2, SameMissed DEF DueMap
<1> QED
  BY <1>1, <1>3, Stutter

LEMMA RefinesStep == ASSUME BusInv, [Next]_vars PROVE [Promise!Next]_(Promise!vars)
<1> USE DEF regVars, taskVars, outVars, histVars
<1>1. ASSUME UNCHANGED <<subs, seq, fan, queue, drops, drained, noticed, last>>
      PROVE  UNCHANGED Promise!vars
  BY <1>1, SameDue, SameMissed, Stutter
<1>2. ASSUME NEW c \in Conn, FlushDrops(c) PROVE UNCHANGED Promise!vars
  <2>1. UNCHANGED <<subs, seq, fan, queue, noticed, last>>
    BY <1>2 DEF FlushDrops
  <2> QED
    BY <1>2, <2>1, FlushMissed, SameDue, Stutter
<1>3. ASSUME NEW c \in Conn, WriteNotices(c) PROVE Promise!Next
  BY <1>3, NoticesReport DEF Promise!Next
<1>4. ASSUME NEW c \in Conn, Recv(c) PROVE Promise!Next
  BY <1>4, RecvDelivers DEF Promise!Next
<1>5. ASSUME NEW c \in Conn,
             \/ Need(c) \/ Wake(c) \/ Disconnect(c) \/ \E n \in 0 .. MaxBatch : Read(c, n)
             \/ Inert(c) \/ Quit(c) \/ PublishRefused(c) \/ PublishTooLarge(c)
             \/ \E t \in Type, k \in Key : Register(c, t, k) \/ Publish(c, t, k)
      PROVE  UNCHANGED Promise!vars
  <2>1. UNCHANGED <<subs, seq, fan, queue, drops, drained, noticed, last>>
    BY <1>5 DEF Need, Wake, Disconnect, Read, Inert, Quit, PublishRefused, PublishTooLarge,
                Register, Publish
  <2> QED
    BY <1>1, <2>1
<1>6. ASSUME NEW c \in Conn, NEW t \in Type, Subscribe(c, t) PROVE Promise!Next
  <2>1. /\ subs' = [subs EXCEPT ![t] = @ \union {c}]
        /\ UNCHANGED <<seq, fan, queue, drops, drained, noticed, last>>
    BY <1>6 DEF Subscribe
  <2>2. DueMap' = DueMap /\ MissMap' = MissMap
    BY <2>1, SameDue, SameMissed
  <2>3. Promise!Join(c, t)
    BY <2>1, <2>2 DEF Promise!Join, DueMap, MissMap
  <2> QED
    BY <2>3 DEF Promise!Next
<1>7. ASSUME NEW c \in Conn, NEW t \in Type, Unsubscribe(c, t) PROVE Promise!Next
  <2>1. /\ subs' = [subs EXCEPT ![t] = @ \ {c}]
        /\ UNCHANGED <<seq, fan, queue, drops, drained, noticed, last>>
    BY <1>7 DEF Unsubscribe, Unsubscribed
  <2>2. DueMap' = DueMap /\ MissMap' = MissMap
    BY <2>1, SameDue, SameMissed
  <2>3. Promise!Part(c, t)
    BY <2>1, <2>2 DEF Promise!Part, DueMap, MissMap
  <2> QED
    BY <2>3 DEF Promise!Next
<1>8. ASSUME NEW c \in Conn, PublishLocal(c) PROVE Promise!Next
  <2>1. /\ c \in Task /\ asked[c].type \in Type /\ LockFree /\ StartFan(c, asked[c].type)
        /\ UNCHANGED <<subs, queue, drops, drained, noticed, last>>
    BY <1>8 DEF PublishLocal, Task, BusInv, TypeOK
  <2> QED
    BY <2>1, StartAccepts DEF Promise!Next
<1>9. ASSUME NEW t \in Type, IngestRemote(t) PROVE Promise!Next
  <2>1. /\ Peer \in Task /\ LockFree /\ StartFan(Peer, t)
        /\ UNCHANGED <<subs, queue, drops, drained, noticed, last>>
    BY <1>9 DEF IngestRemote, Task
  <2> QED
    BY <2>1, StartAccepts DEF Promise!Next
<1>10. ASSUME NEW p \in Task, NEW c \in Conn, FanSend(p, c) PROVE [Promise!Next]_(Promise!vars)
  BY <1>10, SendMissesOrKeeps DEF Promise!Next
<1>11. ASSUME NEW p \in Task, NEW c \in Conn, Notify(p, c) PROVE UNCHANGED Promise!vars
  BY <1>11, FanEndsQuietly
<1>12. ASSUME NEW c \in Conn, Accept(c) PROVE UNCHANGED Promise!vars
  BY <1>12, FanEndsQuietly DEF Accept, Task
<1>13. CASE IngestDone
  BY <1>13, FanEndsQuietly DEF IngestDone, Task
<1>14. ASSUME NEW c \in Conn, Cleanup(c) PROVE Promise!Next
  BY <1>14, CleanupLeaves DEF Promise!Next
<1>15. CASE (\E t \in Type, k \in Key : Override(t, k)) \/ UNCHANGED vars
  <2>1. UNCHANGED <<subs, seq, fan, queue, drops, drained, noticed, last>>
    BY <1>15 DEF Override, vars
  <2> QED
    BY <1>1, <2>1
<1> QED
  BY <1>2, <1>3, <1>4, <1>5, <1>6, <1>7, <1>8, <1>9, <1>10, <1>11, <1>12, <1>13, <1>14,
     <1>15, BusSteps DEF Bystander

\* Tasks, queues, counters and the lock implement the abstract bus: to its
\* subscribers a fan-out is one instant, what they are due comes in the bus's
\* order, and every message missed is counted once.
THEOREM BusRefinement == Spec => ImplementsBus
  BY BusInvariant, RefinesInit, RefinesStep, PTL
  DEF Spec, ImplementsBus, Promise!Spec, Promise!vars
=============================================================================
