------------------------------- MODULE Flood -------------------------------
(***************************************************************************)
(* How published messages spread over the cluster: FEED frames and the     *)
(* seen-set (macro-busd/src/federation.rs with registry.rs).  A daemon     *)
(* sends what its clients publish to every dialed peer, and what a peer    *)
(* sends to every dialed peer but that one, unless its seen-set holds the  *)
(* message's id.                                                           *)
(*                                                                         *)
(*   publish_local --> outbox --(broadcast)--> flow of each dialed link    *)
(*   flow --(read_loop, seen-set)--> reader --(fan-out, broadcast)--> ...  *)
(*                                                                         *)
(* Every accepted stream has a reader task of its own.  The seen-set and   *)
(* the subscribers have a lock each, and the broadcast comes after both.   *)
(***************************************************************************)
EXTENDS Integers, Sequences, FiniteSets, Functions

CONSTANTS Daemon,
          Link,       \* <<d, p>>: daemon d has peer p in its configuration
          Limit,      \* limits.max_message_bytes of each daemon
          Sizes,      \* the sizes of what each daemon's clients publish
          NoMsg,      \* a reader between two frames
          SeenCap,    \* seen_capacity, at least 1
          QueueDepth, \* PEER_QUEUE_DEPTH
          WireDepth,  \* frames the stream's buffers hold
          MaxMsgs,    \* bound: messages published
          MaxFailures \* bound: links that break and daemons that restart

ASSUME FloodLinks == Link \subseteq {l \in Daemon \X Daemon : l[1] # l[2]}
ASSUME FloodLimits ==
    /\ Limit \in [Daemon -> Nat] /\ Sizes \in [Daemon -> SUBSET Nat]
    /\ \A d \in Daemon : \A n \in Sizes[d] : n <= Limit[d]
ASSUME FloodDepths == {SeenCap, QueueDepth, WireDepth} \subseteq Nat \ {0}
ASSUME FloodBounds == {MaxMsgs, MaxFailures} \subseteq Nat

VARIABLES
    seq,       \* Registry.seq: the number of the next message
    seen,      \* SeenSet.order, whose elements are SeenSet.set
    outbox,    \* messages published here and not yet forwarded
    up,        \* whether the link is in `peers'
    flow,      \* frames queued, written or buffered, and not yet read
    reader,    \* the frame each reader task is at work on
    life,      \* history: restarts of the daemon
    published, \* history: all messages
    got,       \* history: messages fanned out by the running daemon
    again,     \* history: messages it fanned out more than once
    reached,   \* history: messages fanned out by the daemon in any life
    evicted,   \* history: ids that left the running daemon's seen-set
    lost,      \* history: messages a frame of which was dropped or cut off
    failures

nodeVars == <<seq, seen, outbox>>
linkVars == <<up, flow, reader>>
seenHist == <<got, again, reached>>
failVars == <<life, failures>>
vars == <<nodeVars, linkVars, seenHist, failVars, published, evicted, lost>>

From(l) == l[1]
To(l)   == l[2]

\* A message is its origin, its number, the life of the origin it is from, and
\* its size; its id has no trace of the last two.
Message == [origin : Daemon, n : 1 .. MaxMsgs, life : 0 .. MaxFailures,
            size : UNION {Sizes[d] : d \in Daemon}]
Id(m) == <<m.origin, m.n>>
Ids == Daemon \X (1 .. MaxMsgs)

\* A link's stream, and the last one that broke, whose reader may still run.
Live(l) == <<l, "live">>
Dying(l) == <<l, "dying">>
Stream == Link \X {"live", "dying"}
Src(s) == From(s[1])
Dst(s) == To(s[1])

\* A reader has found the frame new, or has fanned it out as well.
Reading == [msg : Message, at : {"new", "fanned"}]

ASSUME NoMsgAssumption == NoMsg \notin Reading

Init ==
    /\ seq = [d \in Daemon |-> 1]
    /\ seen = [d \in Daemon |-> <<>>]
    /\ outbox = [d \in Daemon |-> {}]
    /\ up = [l \in Link |-> FALSE]
    /\ flow = [s \in Stream |-> <<>>]
    /\ reader = [s \in Stream |-> NoMsg]
    /\ life = [d \in Daemon |-> 0]
    /\ published = {}
    /\ got = [d \in Daemon |-> {}]
    /\ again = [d \in Daemon |-> {}]
    /\ reached = [d \in Daemon |-> {}]
    /\ evicted = [d \in Daemon |-> {}]
    /\ lost = {}
    /\ failures = 0

-----------------------------------------------------------------------------
(* The seen-set.                                                           *)

\* Mutant: one id too many stays in the set.
OneTooMany(order) == IF Len(order) > SeenCap + 1 THEN Tail(order) ELSE order

\* The oldest id leaves a set that has grown over its capacity.
Bounded(order) == IF Len(order) > SeenCap THEN Tail(order) ELSE order

New(d, id) == id \notin Range(seen[d])

\* Mutant: the id is left out of the seen-set.
Forget(d, id) == UNCHANGED <<seen, evicted>>

\* SeenSet::insert.
Insert(d, id) ==
    LET order == IF id \in Range(seen[d]) THEN seen[d] ELSE Append(seen[d], id)
    IN  /\ seen' = [seen EXCEPT ![d] = Bounded(order)]
        /\ evicted' = [evicted EXCEPT ![d] = @ \union (Range(order) \ Range(Bounded(order)))]

\* publish_local's use of it; the result is ignored.
InsertOwn(d, id) == Insert(d, id)

\* fanout_locked, as far as the cluster is concerned: d's subscribers get m.
FanOut(d, m) ==
    /\ got' = [got EXCEPT ![d] = @ \union {m}]
    /\ again' = [again EXCEPT ![d] = IF m \in got[d] THEN @ \union {m} ELSE @]
    /\ reached' = [reached EXCEPT ![d] = @ \union {m}]

-----------------------------------------------------------------------------
(* Sending.                                                                *)

\* Mutant: what a peer sent is not passed on.
OriginOnly(d, exclude) == {l \in Link : From(l) = d /\ exclude = d}

\* The links on which daemon d owes a message that came from `exclude' (d
\* itself for one of its own: no peer has the daemon's id).
Owed(d, exclude) == {l \in Link : From(l) = d /\ To(l) # exclude}

\* Cluster::broadcast: try_send to each peer in the map.  The queue is full
\* when write_loop leaves QueueDepth frames in it, which it may do as soon as
\* the link has that many and must do once the stream's buffers are full too.
Send(d, exclude, m) ==
    LET targets == {l \in Owed(d, exclude) : up[l]}
        mayDrop == {l \in targets : Len(flow[Live(l)]) >= QueueDepth}
        mustDrop == {l \in targets : Len(flow[Live(l)]) >= QueueDepth + WireDepth}
    IN  \E dropped \in SUBSET mayDrop :
          /\ mustDrop \subseteq dropped
          /\ flow' = [s \in Stream |-> IF s[1] \in targets \ dropped /\ s = Live(s[1])
                                       THEN Append(flow[s], m)
                                       ELSE flow[s]]
          /\ lost' = IF Owed(d, exclude) \subseteq targets \ dropped
                     THEN lost ELSE lost \union {m}

\* A client's message: publish_local gives it an id, records the id and fans
\* the message out, all under the registry lock.
Publish(d, size) ==
    LET m == [origin |-> d, n |-> seq[d], life |-> life[d], size |-> size]
    IN  /\ Cardinality(published) < MaxMsgs
        /\ seq' = [seq EXCEPT ![d] = @ + 1]
        /\ InsertOwn(d, Id(m))
        /\ FanOut(d, m)
        /\ outbox' = [outbox EXCEPT ![d] = @ \union {m}]
        /\ published' = published \union {m}
        /\ UNCHANGED <<linkVars, failVars, lost>>

\* forward_local, after the lock is released.
ForwardLocal(d) ==
    \E m \in outbox[d] :
        /\ Send(d, d, m)
        /\ outbox' = [outbox EXCEPT ![d] = @ \ {m}]
        /\ UNCHANGED <<seq, seen, up, reader, seenHist, failVars, published, evicted>>

-----------------------------------------------------------------------------
(* Receiving: handle_feed, and in it ingest_remote.                        *)

\* Whether read_body at daemon d returns the body of m.
Takes(d, m) == m.size <= Limit[d]

\* The frame is read; a message too large for this daemon is read to its end
\* and dropped, with no trace in the seen-set.
ReadOversize(s) ==
    /\ reader[s] = NoMsg
    /\ flow[s] # <<>>
    /\ ~ Takes(Dst(s), Head(flow[s]))
    /\ flow' = [flow EXCEPT ![s] = Tail(@)]
    /\ UNCHANGED <<nodeVars, up, reader, seenHist, failVars, published, evicted, lost>>

\* The frame is read and its id looked up and recorded, in one hold of the
\* seen-set's lock; a frame seen before is dropped.
ReadFeed(s) ==
    LET m == Head(flow[s])
        d == Dst(s)
    IN  /\ reader[s] = NoMsg
        /\ flow[s] # <<>>
        /\ Takes(d, m)
        /\ flow' = [flow EXCEPT ![s] = Tail(@)]
        /\ reader' = [reader EXCEPT ![s] = IF New(d, Id(m))
                                           THEN [msg |-> m, at |-> "new"] ELSE NoMsg]
        /\ Insert(d, Id(m))
        /\ UNCHANGED <<seq, outbox, up, seenHist, failVars, published, lost>>

\* The registry lock is taken, and the local subscribers get the message.
Ingest(s) ==
    /\ reader[s] # NoMsg
    /\ reader[s].at = "new"
    /\ FanOut(Dst(s), reader[s].msg)
    /\ reader' = [reader EXCEPT ![s].at = "fanned"]
    /\ UNCHANGED <<nodeVars, up, flow, failVars, published, evicted, lost>>

\* The broadcast to every peer but the one the frame came from.
PassOn(s) ==
    /\ reader[s] # NoMsg
    /\ reader[s].at = "fanned"
    /\ Send(Dst(s), Src(s), reader[s].msg)
    /\ reader' = [reader EXCEPT ![s] = NoMsg]
    /\ UNCHANGED <<nodeVars, up, seenHist, failVars, published, evicted>>

-----------------------------------------------------------------------------
(* Links and failures.                                                     *)

\* dial_once enters the link in `peers'.  Nothing is sent again.
Connect(l) ==
    /\ ~ up[l]
    /\ up' = [up EXCEPT ![l] = TRUE]
    /\ UNCHANGED <<nodeVars, flow, reader, seenHist, failVars, published, evicted, lost>>

\* The stream of l is cut: its reader still finds n of the frames in it, none
\* of which was still queued.  What a dialer queues before it notices is lost,
\* as what it does not send while the link is down: the link is down at once.
Cut(l, n) ==
    /\ flow[Dying(l)] = <<>> /\ reader[Dying(l)] = NoMsg
    /\ n <= Len(flow[Live(l)])

\* One dead stream a link is kept at a time (a bound of the model).
Break(l) ==
    /\ up[l]
    /\ failures < MaxFailures
    /\ \E n \in 0 .. WireDepth :
        /\ Cut(l, n)
        /\ flow' = [flow EXCEPT ![Live(l)] = <<>>,
                                ![Dying(l)] = SubSeq(flow[Live(l)], 1, n)]
        /\ lost' = lost \union Range(SubSeq(flow[Live(l)], n + 1, Len(flow[Live(l)])))
    /\ reader' = [reader EXCEPT ![Live(l)] = NoMsg, ![Dying(l)] = reader[Live(l)]]
    /\ up' = [up EXCEPT ![l] = FALSE]
    /\ failures' = failures + 1
    /\ UNCHANGED <<nodeVars, seenHist, life, published, evicted>>

\* What daemon d held or was being sent.
Held(d) ==
    LET streams == {s \in Stream : Dst(s) = d}
    IN  outbox[d] \union (UNION {Range(flow[s]) : s \in streams})
          \union {reader[s].msg : s \in {r \in streams : reader[r] # NoMsg}}

\* Daemon d crashes and starts again with nothing, its sequence at 1.  What it
\* had written to peers may still be read there.
Crash(d) ==
    LET outgoing == {l \in Link : From(l) = d}
    IN  /\ failures < MaxFailures
        /\ \E keep \in [outgoing -> 0 .. WireDepth] :
            /\ \A l \in outgoing : Cut(l, keep[l])
            /\ flow' = [s \in Stream |->
                          IF d \notin {Src(s), Dst(s)} THEN flow[s]
                          ELSE IF Src(s) = d /\ s = Dying(s[1])
                               THEN SubSeq(flow[Live(s[1])], 1, keep[s[1]])
                               ELSE <<>>]
            /\ lost' = lost \union Held(d) \union
                         UNION {Range(SubSeq(flow[Live(l)], keep[l] + 1, Len(flow[Live(l)])))
                                  : l \in outgoing}
        /\ reader' = [s \in Stream |->
                        IF Src(s) = d THEN (IF s = Dying(s[1]) THEN reader[Live(s[1])]
                                                               ELSE NoMsg)
                        ELSE IF Dst(s) = d THEN NoMsg ELSE reader[s]]
        /\ up' = [l \in Link |-> up[l] /\ d \notin {From(l), To(l)}]
        /\ seq' = [seq EXCEPT ![d] = 1]
        /\ seen' = [seen EXCEPT ![d] = <<>>]
        /\ outbox' = [outbox EXCEPT ![d] = {}]
        /\ got' = [got EXCEPT ![d] = {}]
        /\ again' = [again EXCEPT ![d] = {}]
        /\ evicted' = [evicted EXCEPT ![d] = {}]
        /\ life' = [life EXCEPT ![d] = @ + 1]
        /\ failures' = failures + 1
        /\ UNCHANGED <<reached, published>>

-----------------------------------------------------------------------------
Reader(s) == ReadOversize(s) \/ ReadFeed(s) \/ Ingest(s) \/ PassOn(s)

Next ==
    \/ \E d \in Daemon : \/ ForwardLocal(d) \/ Crash(d)
                         \/ \E size \in Sizes[d] : Publish(d, size)
    \/ \E s \in Stream : Reader(s)
    \/ \E l \in Link : Connect(l) \/ Break(l)

Spec == Init /\ [][Next]_vars

\* The runtime polls a ready task.  No link need ever come up.
Fairness ==
    /\ \A d \in Daemon : WF_vars(ForwardLocal(d))
    /\ \A s \in Stream : WF_vars(Reader(s))

FairSpec == Spec /\ Fairness

-----------------------------------------------------------------------------
(* Properties.                                                             *)

\* Every variable keeps its shape; a seen-set has no id twice and no more than
\* seen_capacity of them.
TypeOK ==
    /\ seq \in [Daemon -> Nat \ {0}]
    /\ seen \in [Daemon -> Seq(Ids)]
    /\ \A d \in Daemon : Len(seen[d]) <= SeenCap /\ IsInjective(seen[d])
    /\ outbox \in [Daemon -> SUBSET Message]
    /\ up \in [Link -> BOOLEAN]
    /\ flow \in [Stream -> Seq(Message)]
    /\ \A s \in Stream : Len(flow[s]) <= QueueDepth + WireDepth
    /\ reader \in [Stream -> Reading \union {NoMsg}]
    /\ life \in [Daemon -> Nat]
    /\ {published, lost} \subseteq SUBSET Message
    /\ {got, again, reached} \subseteq [Daemon -> SUBSET Message]
    /\ evicted \in [Daemon -> SUBSET Ids]
    /\ failures \in Nat

\* A daemon's subscribers get a message twice only if its id has meanwhile left
\* the seen-set: not when copies arrive on several links at once, nor when the
\* message comes back to the daemon it was published on.
AtMostOnce ==
    \A d \in Daemon : \A m \in again[d] : Id(m) \in evicted[d]

\* Daemon d takes m, and a path of daemons that take m leads to it from the
\* origin: whichever of them are cut off from d, a link leaves that part.
Within(m, d) ==
    LET takers == {e \in Daemon : Takes(e, m)}
    IN  \A S \in SUBSET takers :
          m.origin \in S /\ d \notin S => \E l \in Link : From(l) \in S /\ To(l) \in takers \ S

\* Copies of messages that some task or link still holds.
InFlight == (UNION {outbox[d] : d \in Daemon}) \union (UNION {Range(flow[s]) : s \in Stream})
              \union {reader[s].msg : s \in {r \in Stream : reader[r] # NoMsg}}

Quiet == InFlight = {}

OnlyWithItsId(m) == \A k \in published : Id(k) = Id(m) => k = m

\* Once nothing is in flight, a message no frame of which was dropped for want
\* of room or cut off was fanned out by the daemons that daemons with room for
\* it in max_message_bytes lead to, and by no daemon without, unless two messages
\* share its id: the seen-set and the rule to spare the sender withhold nothing.
EveryoneGets ==
    Quiet => \A m \in published \ lost : OnlyWithItsId(m) =>
                \A d \in Daemon : m \in reached[d] <=> Takes(d, m) /\ Within(m, d)

\* Some daemon's seen-set no longer holds the id of a message in flight.
BeyondHorizon ==
    \E m \in InFlight, d \in Daemon : Id(m) \in evicted[d] \ Range(seen[d])

\* The flood of every message ends, in a cluster with cycles too, if ids stay
\* in the seen-sets while copies of their messages are in flight.
FloodEnds == []~BeyondHorizon => <>[]Quiet

\* The comment in publish_local: a locally generated id is unique, so the
\* seen-set never holds it before.
OwnIdIsNew == [][\A d \in Daemon : seq'[d] = seq[d] + 1 => New(d, <<d, seq[d]>>)]_vars
=============================================================================
