------------------------------ MODULE LocalBus ------------------------------
(***************************************************************************)
(* One daemon's bus (macro-busd/src/conn.rs with registry.rs): connection  *)
(* tasks that serve commands and drain their outbound queues, and the      *)
(* registry they share.  The registry's lock is held for a whole fan-out,  *)
(* one try_send at a time; the connections' own queues and drop counters   *)
(* move meanwhile.  A peer link brings messages and ownership changes.     *)
(*                                                                         *)
(* Control points of a connection task:                                    *)
(*   top   -> flush_drops is about to drain the drop counters              *)
(*   flush -> the drained counters are being written as 102 DROP           *)
(*   poll  -> take_line is about to look at the read buffer                *)
(*   wait  -> the select! of read, recv and notified                       *)
(*   body  -> 354 is sent, the body is being read (nothing is multiplexed) *)
(*   fan   -> publish_local holds the lock and fans the message out        *)
(*   end   -> serve has returned, remove_conn is still to come             *)
(*   gone  -> the task and its end of the queue are dropped                *)
(***************************************************************************)
EXTENDS Naturals, Sequences

CONSTANTS Conn, Type, Key,
          Peer,          \* the tasks that read federation links
          NoKey,         \* a type nobody registered
          NoFan,         \* a task that is not fanning out
          QueueDepth,    \* limits.queue_depth
          MaxBatch,      \* bound: command lines one read brings
          MaxLines,      \* bound: command lines a client sends
          MaxMsgs,       \* bound: messages published or received
          MaxOverrides   \* bound: ownership changes a peer brings

Task == Conn \union {Peer}
Message == [id : Nat, type : Type]
Fan == [msg : Message, left : SUBSET Conn, ring : SUBSET Conn]

ASSUME PeerAssumption == Peer \notin Conn
ASSUME TypeAssumption == Type # {}
ASSUME NoKeyAssumption == NoKey \notin Key
ASSUME NoFanAssumption == NoFan \notin Fan
ASSUME QueueAssumption == QueueDepth \in Nat \ {0}

VARIABLES
    owner,     \* Inner.types: the key that owns each type
    subs,      \* Inner.subs: the connections subscribed to each type
    fan,       \* the fan-out each task is in: message, targets left, wake-up owed
    seq,       \* messages the registry has taken, in order
    overrides, \* ownership changes so far
    pc,        \* where each connection task stands
    lines,     \* complete command lines in rbuf
    sent,      \* command lines the client has sent
    asked,     \* the type and key of the PUBLISH in progress
    mySubs,    \* my_subs
    queue,     \* the outbound channel
    drops,     \* the drop counters
    permit,    \* the permit drop_notify stores
    drained,   \* counters drained and not yet written
    noticed,   \* history: drops the client was told of
    last       \* history: the last message written

regVars  == <<owner, subs, fan, seq, overrides>>
taskVars == <<pc, lines, sent, asked, mySubs>>
outVars  == <<queue, drops, permit, drained>>
histVars == <<noticed, last>>
vars == <<regVars, taskVars, outVars, histVars>>

Point == {"top", "flush", "poll", "wait", "body", "fan", "end", "gone"}
Zero == [t \in Type |-> 0]

Init ==
    /\ owner = [t \in Type |-> NoKey]
    /\ subs = [t \in Type |-> {}]
    /\ fan = [p \in Task |-> NoFan]
    /\ seq = 0
    /\ overrides = 0
    /\ pc = [c \in Conn |-> "top"]
    /\ lines = [c \in Conn |-> 0]
    /\ sent = [c \in Conn |-> 0]
    /\ asked = [c \in Conn |-> [type |-> CHOOSE t \in Type : TRUE, key |-> NoKey]]
    /\ mySubs = [c \in Conn |-> {}]
    /\ queue = [c \in Conn |-> <<>>]
    /\ drops = [c \in Conn |-> Zero]
    /\ permit = [c \in Conn |-> FALSE]
    /\ drained = [c \in Conn |-> Zero]
    /\ noticed = [c \in Conn |-> Zero]
    /\ last = [c \in Conn |-> 0]

Goto(c, p) == pc' = [pc EXCEPT ![c] = p]

-----------------------------------------------------------------------------
(* The connection's loop.                                                  *)

\* Mutant: drained counters are forgotten when the type is no longer subscribed.
DrainSubscribed(c) == [t \in Type |-> IF t \in mySubs[c] THEN drops[c][t] ELSE 0]

\* What flush_drops takes out of the counters.
Drain(c) == drops[c]

\* flush_drops: the counters are drained under their lock.
FlushDrops(c) ==
    /\ pc[c] = "top"
    /\ IF drops[c] = Zero
       THEN Goto(c, "poll") /\ UNCHANGED <<drops, drained>>
       ELSE /\ Goto(c, "flush")
            /\ drained' = [drained EXCEPT ![c] = Drain(c)]
            /\ drops' = [drops EXCEPT ![c] = Zero]
    /\ UNCHANGED <<regVars, lines, sent, asked, mySubs, queue, permit, histVars>>

\* The 102 DROP lines are written.
WriteNotices(c) ==
    /\ pc[c] = "flush"
    /\ Goto(c, "poll")
    /\ noticed' = [noticed EXCEPT ![c] = [t \in Type |-> @[t] + drained[c][t]]]
    /\ drained' = [drained EXCEPT ![c] = Zero]
    /\ UNCHANGED <<regVars, lines, sent, asked, mySubs, queue, drops, permit,
                   last>>

\* take_line finds no complete line: on to the select.
Need(c) ==
    /\ pc[c] = "poll"
    /\ lines[c] = 0
    /\ Goto(c, "wait")
    /\ UNCHANGED <<regVars, lines, sent, asked, mySubs, outVars, histVars>>

\* The read branch: bytes arrive that complete n command lines.
Read(c, n) ==
    /\ pc[c] = "wait"
    /\ sent[c] + n <= MaxLines
    /\ Goto(c, "top")
    /\ lines' = [lines EXCEPT ![c] = @ + n]
    /\ sent' = [sent EXCEPT ![c] = @ + n]
    /\ UNCHANGED <<regVars, asked, mySubs, outVars, histVars>>

\* Mutant: a message is held back once its type is no longer subscribed.
ReadyIfSubscribed(c) == queue[c] # <<>> /\ Head(queue[c]).type \in mySubs[c]

\* Whether the recv branch is ready.
Ready(c) == queue[c] # <<>>

\* The recv branch: a queued message is written as 101 MSG.
Recv(c) ==
    /\ pc[c] = "wait"
    /\ Ready(c)
    /\ Goto(c, "top")
    /\ queue' = [queue EXCEPT ![c] = Tail(@)]
    /\ last' = [last EXCEPT ![c] = Head(queue[c]).id]
    /\ UNCHANGED <<regVars, lines, sent, asked, mySubs, drops, permit, drained,
                   noticed>>

\* The notified branch: the permit is consumed and the loop goes around.
Wake(c) ==
    /\ pc[c] = "wait"
    /\ permit[c]
    /\ Goto(c, "top")
    /\ permit' = [permit EXCEPT ![c] = FALSE]
    /\ UNCHANGED <<regVars, lines, sent, asked, mySubs, queue, drops, drained,
                   histVars>>

-----------------------------------------------------------------------------
(* Commands.  Each takes a line; those that use the registry wait for its  *)
(* lock, which a fan-out holds from first to last send.                    *)

\* Mutant: the lock is released before the fan-out.
LockNeverHeld == TRUE

LockFree == \A p \in Task : fan[p] = NoFan

TakeLine(c) ==
    /\ pc[c] = "poll"
    /\ lines[c] > 0
    /\ lines' = [lines EXCEPT ![c] = @ - 1]

\* CAPABILITIES, HELP, LIST TYPES and lines that do not parse.
Inert(c) ==
    /\ TakeLine(c)
    /\ Goto(c, "top")
    /\ UNCHANGED <<regVars, sent, asked, mySubs, outVars, histVars>>

\* QUIT, and a command line that is too long: the serve loop ends.
Quit(c) ==
    /\ TakeLine(c)
    /\ Goto(c, "end")
    /\ UNCHANGED <<regVars, sent, asked, mySubs, outVars, histVars>>

\* REGISTER: first registrant wins (register_local); the daemon propagates it.
Register(c, t, k) ==
    /\ TakeLine(c)
    /\ LockFree
    /\ owner' = IF owner[t] = NoKey THEN [owner EXCEPT ![t] = k] ELSE owner
    /\ Goto(c, "top")
    /\ UNCHANGED <<subs, fan, seq, overrides, sent, asked, mySubs, outVars, histVars>>

Subscribe(c, t) ==
    /\ TakeLine(c)
    /\ LockFree
    /\ subs' = [subs EXCEPT ![t] = @ \union {c}]
    /\ mySubs' = [mySubs EXCEPT ![c] = @ \union {t}]
    /\ Goto(c, "top")
    /\ UNCHANGED <<owner, fan, seq, overrides, sent, asked, outVars, histVars>>

\* Mutant: UNSUBSCRIBE forgets the registry's side.
RemainSubscribed(c, t) == subs

\* Registry::unsubscribe.
Unsubscribed(c, t) == [subs EXCEPT ![t] = @ \ {c}]

Unsubscribe(c, t) ==
    /\ TakeLine(c)
    /\ LockFree
    /\ subs' = Unsubscribed(c, t)
    /\ mySubs' = [mySubs EXCEPT ![c] = @ \ {t}]
    /\ Goto(c, "top")
    /\ UNCHANGED <<owner, fan, seq, overrides, sent, asked, outVars, histVars>>

\* The verdict of publish_precheck, which publish_local takes again.
Verdict(t, k) == CASE owner[t] = NoKey -> "430"
                   [] owner[t] \notin {NoKey, k} -> "441"
                   [] OTHER -> "354"

\* PUBLISH: the pre-flight check, and 354 if it succeeds.
Publish(c, t, k) ==
    /\ TakeLine(c)
    /\ LockFree
    /\ IF Verdict(t, k) = "354"
       THEN /\ asked' = [asked EXCEPT ![c] = [type |-> t, key |-> k]]
            /\ Goto(c, "body")
       ELSE Goto(c, "top") /\ UNCHANGED asked
    /\ UNCHANGED <<regVars, sent, mySubs, outVars, histVars>>

\* Mutant: publish_local trusts the pre-flight check.
PrecheckTrusted(c) == TRUE

\* publish_local authorizes against the owner of the moment.
Authorized(c) == Verdict(asked[c].type, asked[c].key) = "354"

\* What a fan-out by task p of the next message, of type t, starts from.
StartFan(p, t) ==
    /\ seq < MaxMsgs
    /\ seq' = seq + 1
    /\ fan' = [fan EXCEPT ![p] = [msg  |-> [id |-> seq + 1, type |-> t],
                                  left |-> subs[t],
                                  ring |-> {}]]

\* read_body ends; of the lines already in the buffer it took the first ones.
BodyRead(c) ==
    /\ pc[c] = "body"
    /\ \E n \in 0 .. lines[c] : lines' = [lines EXCEPT ![c] = n]

\* The whole body is read and publish_local accepts it: an id is assigned.
PublishLocal(c) ==
    /\ BodyRead(c)
    /\ LockFree
    /\ Authorized(c)
    /\ StartFan(c, asked[c].type)
    /\ Goto(c, "fan")
    /\ UNCHANGED <<owner, subs, overrides, sent, asked, mySubs, outVars, histVars>>

\* The whole body is read and publish_local refuses it.
PublishRefused(c) ==
    /\ BodyRead(c)
    /\ LockFree
    /\ ~ Authorized(c)
    /\ Goto(c, "top")
    /\ UNCHANGED <<regVars, sent, asked, mySubs, outVars, histVars>>

\* read_body finds the message too large.
PublishTooLarge(c) ==
    /\ BodyRead(c)
    /\ Goto(c, "top")
    /\ UNCHANGED <<regVars, sent, asked, mySubs, outVars, histVars>>

-----------------------------------------------------------------------------
(* Fan-out.                                                                *)

\* Mutant: the channel holds one message more than limits.queue_depth.
OverFull(c) == Len(queue[c]) > QueueDepth

\* Whether try_send on a connection's channel fails.
Full(c) == Len(queue[c]) >= QueueDepth

\* Mutant: a full channel makes room by dropping its oldest message.
OldestDropped(c, m) ==
    IF Full(c) THEN Append(Tail(queue[c]), m) ELSE Append(queue[c], m)

\* The channel after try_send: the message that finds it full is dropped.
Offered(c, m) == IF Full(c) THEN queue[c] ELSE Append(queue[c], m)

\* fanout_locked, one subscriber: try_send, or record_drop's increment, after
\* which the wake-up is owed.
FanSend(p, c) ==
    /\ fan[p] # NoFan
    /\ fan[p].ring = {}
    /\ c \in fan[p].left
    /\ LET m == fan[p].msg
       IN  /\ fan' = [fan EXCEPT ![p].left = @ \ {c},
                                 ![p].ring = IF Full(c) THEN {c} ELSE {}]
           /\ queue' = [queue EXCEPT ![c] = Offered(c, m)]
           /\ drops' = IF Full(c) THEN [drops EXCEPT ![c][m.type] = @ + 1] ELSE drops
    /\ UNCHANGED <<owner, subs, seq, overrides, taskVars, permit, drained,
                   histVars>>

\* Mutant: only a task already waiting is woken (notify_waiters).
WakeWaiting(c) == permit[c] \/ pc[c] = "wait"

\* notify_one: a permit is stored if nobody waits.
Notified(c) == TRUE

\* record_drop's wake-up, after the drop counters' lock is released.
Notify(p, c) ==
    /\ fan[p] # NoFan
    /\ c \in fan[p].ring
    /\ fan' = [fan EXCEPT ![p].ring = @ \ {c}]
    /\ permit' = [permit EXCEPT ![c] = Notified(c)]
    /\ UNCHANGED <<owner, subs, seq, overrides, taskVars, queue, drops, drained, histVars>>

FanDone(p) == fan[p] # NoFan /\ fan[p].left = {} /\ fan[p].ring = {}

\* publish_local returns, the message goes to the peers, and 250 is sent.
Accept(c) ==
    /\ FanDone(c)
    /\ fan' = [fan EXCEPT ![c] = NoFan]
    /\ Goto(c, "top")
    /\ UNCHANGED <<owner, subs, seq, overrides, lines, sent, asked, mySubs, outVars, histVars>>

\* ingest_remote: a peer's message that was not seen before.
IngestRemote(t) ==
    /\ LockFree
    /\ StartFan(Peer, t)
    /\ UNCHANGED <<owner, subs, overrides, taskVars, outVars, histVars>>

IngestDone ==
    /\ FanDone(Peer)
    /\ fan' = [fan EXCEPT ![Peer] = NoFan]
    /\ UNCHANGED <<owner, subs, seq, overrides, taskVars, outVars, histVars>>

\* apply_remote_registration: a peer's record with a lower tuple replaces the
\* owner of a type.
Override(t, k) ==
    /\ LockFree
    /\ overrides < MaxOverrides
    /\ overrides' = overrides + 1
    /\ owner' = [owner EXCEPT ![t] = k]
    /\ UNCHANGED <<subs, fan, seq, taskVars, outVars, histVars>>

-----------------------------------------------------------------------------
(* The end of a connection.                                                *)

\* EOF, or a read or write that fails, wherever the task awaits one.
Disconnect(c) ==
    /\ pc[c] \in {"top", "flush", "wait", "body"}
    /\ Goto(c, "end")
    /\ UNCHANGED <<regVars, lines, sent, asked, mySubs, outVars, histVars>>

\* Mutant: a connection that ends stays in the registry.
LeaveConn(c) == subs

\* Registry::remove_conn.
RemoveConn(c) == [t \in Type |-> IF t \in mySubs[c] THEN subs[t] \ {c} ELSE subs[t]]

\* run, after serve: remove_conn, and then the task's half of the queue drops.
Cleanup(c) ==
    /\ pc[c] = "end"
    /\ LockFree
    /\ subs' = RemoveConn(c)
    /\ mySubs' = [mySubs EXCEPT ![c] = {}]
    /\ queue' = [queue EXCEPT ![c] = <<>>]
    /\ Goto(c, "gone")
    /\ UNCHANGED <<owner, fan, seq, overrides, lines, sent, asked, drops, permit,
                   drained, histVars>>

-----------------------------------------------------------------------------
Command(c) ==
    \/ Inert(c) \/ Quit(c)
    \/ \E t \in Type : \/ Subscribe(c, t) \/ Unsubscribe(c, t)
                       \/ \E k \in Key : Register(c, t, k) \/ Publish(c, t, k)

EndBody(c) == PublishLocal(c) \/ PublishRefused(c) \/ PublishTooLarge(c)

FanStep(p) == \E c \in Conn : FanSend(p, c) \/ Notify(p, c)

\* What the task does without anything new from its client.
Run(c) ==
    \/ FlushDrops(c) \/ WriteNotices(c) \/ Need(c) \/ Recv(c) \/ Wake(c)
    \/ Command(c) \/ FanStep(c) \/ Accept(c) \/ Cleanup(c)

RunPeer == FanStep(Peer) \/ IngestDone

Next ==
    \/ \E c \in Conn : Run(c) \/ EndBody(c) \/ Disconnect(c)
                         \/ \E n \in 0 .. MaxBatch : Read(c, n)
    \/ RunPeer
    \/ \E t \in Type : IngestRemote(t) \/ \E k \in Key : Override(t, k)

Spec == Init /\ [][Next]_vars

\* The runtime polls ready tasks, a client reads what it is sent, and one that
\* was sent 354 ends its body.  The select! polls its branches in a random
\* order, so no ready branch loses to the others for ever: strong fairness.
Fairness ==
    /\ WF_vars(RunPeer)
    /\ \A c \in Conn : /\ WF_vars(Run(c)) /\ WF_vars(EndBody(c))
                       /\ SF_vars(Recv(c)) /\ SF_vars(Wake(c))

FairSpec == Spec /\ Fairness

-----------------------------------------------------------------------------
(* Properties.                                                             *)

Counters == [Conn -> [Type -> Nat]]

\* Every variable keeps its shape.
TypeOK ==
    /\ owner \in [Type -> Key \union {NoKey}]
    /\ subs \in [Type -> SUBSET Conn]
    /\ fan \in [Task -> Fan \union {NoFan}]
    /\ {seq, overrides} \subseteq Nat
    /\ pc \in [Conn -> Point]
    /\ lines \in [Conn -> Nat] /\ sent \in [Conn -> Nat]
    /\ asked \in [Conn -> [type : Type, key : Key \union {NoKey}]]
    /\ mySubs \in [Conn -> SUBSET Type]
    /\ queue \in [Conn -> Seq(Message)]
    /\ \A c \in Conn : Len(queue[c]) <= QueueDepth
    /\ permit \in [Conn -> BOOLEAN]
    /\ {drops, drained, noticed} \subseteq Counters
    /\ last \in [Conn -> Nat]

\* The registry and a live connection agree on what the connection subscribes
\* to, and the registry holds no connection whose task is gone: remove_conn,
\* which trusts my_subs, misses nothing.
SubscriptionsAgree ==
    \A c \in Conn, t \in Type : c \in subs[t] <=> t \in mySubs[c]

\* A fan-out never meets a queue whose receiving half is dropped: the Closed
\* arm of fanout_locked cannot be taken.
NoSendToClosed == \A p \in Task : fan[p] # NoFan => \A c \in fan[p].left : pc[c] # "gone"

\* A message enters the bus only with the key that owns its type at that
\* moment, although the check before 354 was made at another one.
AuthorizedAtPublish ==
    [][\A c \in Conn : fan[c] = NoFan /\ fan'[c] # NoFan
            => owner[fan'[c].msg.type] = asked[c].key]_vars

\* A task never sits in its select! with drops to report and no wake-up stored
\* or still owed to it, however the fan-out's two steps (count, then notify)
\* fall between the task's flush and its wait.
NoLostWakeup ==
    \A c \in Conn : pc[c] = "wait" /\ drops[c] # Zero =>
        permit[c] \/ \E p \in Task : fan[p] # NoFan /\ c \in fan[p].ring

\* The n-th drop of a type is reported to the client, subscribed still or not,
\* unless the connection ends first.
DropsReported ==
    \A c \in Conn, t \in Type : \A n \in 1 .. MaxMsgs :
        (drops[c][t] + drained[c][t] + noticed[c][t] >= n)
            ~> noticed[c][t] >= n \/ pc[c] = "gone"

\* A queued message is written to its client unless the connection ends first.
QueueDrained ==
    \A c \in Conn : \A n \in 1 .. MaxMsgs :
        (\E i \in DOMAIN queue[c] : queue[c][i].id = n) ~> last[c] >= n \/ pc[c] = "gone"

\* What the fan-outs in progress still have to send to c.
Coming(c) ==
    LET fans == {p \in Task : fan[p] # NoFan /\ c \in fan[p].left}
    IN  IF fans = {} THEN <<>> ELSE <<fan[CHOOSE p \in fans : TRUE].msg>>

Plus(x, y) == [t \in Type |-> x[t] + y[t]]

\* The bus as its subscribers see it: a fan-out is one instant, a queue and
\* the fan-out under way are what is due, every counter is a miss.
Promise == INSTANCE Bus WITH
    listeners <- subs,
    accepted  <- seq,
    due       <- [c \in Conn |-> queue[c] \o Coming(c)],
    got       <- last,
    missed    <- [c \in Conn |-> Plus(Plus(drops[c], drained[c]), noticed[c])],
    told      <- noticed

\* The tasks, their queues, counters and the registry's lock implement the
\* abstract bus: a message goes to the subscribers of one instant though the
\* sends to them are many steps, in one order for all of them, and a full
\* queue costs its connection the newest message, counted once.  So every
\* message a connection was due was written, is queued, was reported dropped
\* or is counted as a drop still to report.
ImplementsBus == Promise!Spec
=============================================================================
