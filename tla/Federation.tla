----------------------------- MODULE Federation -----------------------------
(***************************************************************************)
(* How the registration table spreads over the cluster (macro-busd/src/    *)
(* federation.rs with registry.rs).  A daemon dials its configured peers;  *)
(* a dialed link carries RREG frames one way, from the dialer to the       *)
(* daemon that accepted it:                                                *)
(*                                                                         *)
(*   table --(registry lock)--> todo --(peers lock)--> queue of each peer  *)
(*         --(write_loop)--> wire --(the acceptor's read_loop)--> table    *)
(*                                                                         *)
(* A fresh link is entered in `peers' and then given a snapshot of the     *)
(* whole table.  Links break, and daemons crash and restart empty.         *)
(***************************************************************************)
EXTENDS TypeTable, Sequences, Functions

CONSTANTS Link,        \* <<d, p>>: daemon d has peer p in its configuration
          QueueDepth,  \* PEER_QUEUE_DEPTH
          WireDepth,   \* frames the TLS and TCP buffers of a link hold
          RestartGap,  \* least advance of the wall clock over a restart
          MaxTs,       \* bound: clock readings
          MaxBreaks,   \* bound: links that break while both ends run
          MaxCrashes   \* bound: restarts of daemons

ASSUME LinkAssumption ==
    /\ Link \subseteq Daemon \X Daemon
    /\ \A l \in Link : l[1] # l[2]
ASSUME DepthAssumption == QueueDepth \in Nat \ {0} /\ WireDepth \in Nat \ {0}
ASSUME GapAssumption == RestartGap \in Nat
ASSUME BoundAssumption == {MaxTs, MaxBreaks, MaxCrashes} \subseteq Nat

VARIABLES
    types,    \* Inner.types of each daemon
    clock,    \* the wall clock of each daemon when it started
    todo,     \* broadcasts whose table change is made and whose sends are not
    link,     \* where each link's dial_once stands
    snap,     \* snapshot records dial_once has still to push
    queue,    \* the link's OutFrame channel
    wire,     \* frames written to the link and not yet read
    stale,    \* frames of the link's previous stream, not yet read
    orphan,   \* history: the writer of the stale stream has since crashed
    lost,     \* history: links a needed record was withheld from
    issued,   \* history: every record a REGISTER ever created
    breaks, crashes

vars == <<types, clock, todo, link, snap, queue, wire, stale, orphan, lost,
          issued, breaks, crashes>>

From(l) == l[1]
To(l)   == l[2]

\* A link is absent from `peers' exactly while it is "down".  "dialed": in
\* `peers', snapshot not taken.  "push": snapshot taken, records being queued.
\* "up": read and write loops run.  "broken": no frame can be read any more
\* and dial_once has yet to notice.
Phase == {"down", "dialed", "push", "up", "broken"}

\* `exclude' is the daemon itself when broadcast is called with None: no peer
\* of a daemon has the daemon's own id.
Broadcasts == [frame : Rreg, exclude : Daemon]

Init ==
    /\ types  = [d \in Daemon |-> EmptyTable]
    /\ clock  = [d \in Daemon |-> 0]
    /\ todo   = [d \in Daemon |-> {}]
    /\ link   = [l \in Link |-> "down"]
    /\ snap   = [l \in Link |-> {}]
    /\ queue  = [l \in Link |-> <<>>]
    /\ wire   = [l \in Link |-> <<>>]
    /\ stale  = [l \in Link |-> <<>>]
    /\ orphan = [l \in Link |-> FALSE]
    /\ lost   = [l \in Link |-> FALSE]
    /\ issued = {}
    /\ breaks = 0
    /\ crashes = 0

-----------------------------------------------------------------------------
(* Registrations.                                                          *)

\* A client's REGISTER of a type the table lacks: register_local inserts the
\* record, and propagate_registration is about to broadcast it.  A REGISTER
\* of a type the table holds changes nothing, whatever its key.  now_ms is read
\* before the registry is locked: of two REGISTERs the one with the later
\* reading may come first, so a reading is only later than the daemon's start.
Register(d, t, k, ts) ==
    LET r == [key |-> k, origin |-> d, ts |-> ts]
        f == [type |-> t, reg |-> r]
    IN  /\ Claimable(types[d], t)
        /\ ts \in clock[d] .. MaxTs
        /\ types' = [types EXCEPT ![d][t] = r]
        /\ todo' = [todo EXCEPT ![d] = @ \union {[frame |-> f, exclude |-> d]}]
        /\ issued' = issued \union {f}
        /\ UNCHANGED <<clock, link, snap, queue, wire, stale, orphan, lost, breaks, crashes>>

\* Mutant: a link is entered in `peers' only after its snapshot is queued.
AddressedOnceUp(b, l) == link[l] \in {"up", "broken"} /\ To(l) # b.exclude

\* Mutant: records learned from a peer are not passed on.
AddressedLocally(b, l) == link[l] # "down" /\ b.exclude = From(l)

\* Whether broadcast b of daemon From(l) tries to send on link l.
Addressed(b, l) == link[l] # "down" /\ To(l) # b.exclude

\* Cluster::broadcast: try_send to every peer in the map but one; a full queue
\* drops the frame.
Broadcast(d) ==
    \E b \in todo[d] :
        LET sends == {l \in Link : From(l) = d /\ Addressed(b, l)}
            full  == {l \in sends : Len(queue[l]) >= QueueDepth}
        IN  /\ todo' = [todo EXCEPT ![d] = @ \ {b}]
            /\ queue' = [l \in Link |-> IF l \in sends \ full
                                        THEN Append(queue[l], b.frame)
                                        ELSE queue[l]]
            /\ lost' = [l \in Link |-> lost[l] \/ l \in full]
            /\ UNCHANGED <<types, clock, link, snap, wire, stale, orphan, issued,
                           breaks, crashes>>

-----------------------------------------------------------------------------
(* The dialing side.                                                       *)

\* dial_once up to peers.insert: connect, TLS, greetings, a fresh channel.
Connect(l) ==
    /\ link[l] = "down"
    /\ link' = [link EXCEPT ![l] = "dialed"]
    /\ queue' = [queue EXCEPT ![l] = <<>>]
    /\ UNCHANGED <<types, clock, todo, snap, wire, stale, orphan, lost, issued,
                   breaks, crashes>>

\* Registry::all_registrations: the table, read under the registry lock.
TakeSnapshot(l) ==
    /\ link[l] = "dialed"
    /\ link' = [link EXCEPT ![l] = "push"]
    /\ snap' = [snap EXCEPT ![l] = Registrations(types[From(l)])]
    /\ lost' = [lost EXCEPT ![l] = FALSE]
    /\ UNCHANGED <<types, clock, todo, queue, wire, stale, orphan, issued, breaks,
                   crashes>>

\* One record of the snapshot is queued, in the order the hash map lists them;
\* the result of try_send is ignored.
Push(l) ==
    /\ link[l] = "push"
    /\ \E f \in snap[l] :
        /\ snap' = [snap EXCEPT ![l] = @ \ {f}]
        /\ IF Len(queue[l]) < QueueDepth
           THEN queue' = [queue EXCEPT ![l] = Append(@, f)] /\ UNCHANGED lost
           ELSE lost' = [lost EXCEPT ![l] = TRUE] /\ UNCHANGED queue
    /\ UNCHANGED <<types, clock, todo, link, wire, stale, orphan, issued, breaks, crashes>>

\* The snapshot is queued: read_loop and write_loop start.
StartLoops(l) ==
    /\ link[l] = "push"
    /\ snap[l] = {}
    /\ link' = [link EXCEPT ![l] = "up"]
    /\ UNCHANGED <<types, clock, todo, snap, queue, wire, stale, orphan, lost, issued,
                   breaks, crashes>>

\* write_loop: the next frame of the channel is written to the stream.
WriteLoop(l) ==
    /\ link[l] = "up"
    /\ queue[l] # <<>>
    /\ Len(wire[l]) < WireDepth
    /\ wire' = [wire EXCEPT ![l] = Append(@, Head(queue[l]))]
    /\ queue' = [queue EXCEPT ![l] = Tail(@)]
    /\ UNCHANGED <<types, clock, todo, link, snap, stale, orphan, lost, issued, breaks,
                   crashes>>

\* The end of dial_once: the send side is deregistered and its channel dropped.
Close(l) ==
    /\ link[l] = "broken"
    /\ link' = [link EXCEPT ![l] = "down"]
    /\ queue' = [queue EXCEPT ![l] = <<>>]
    /\ snap' = [snap EXCEPT ![l] = {}]
    /\ UNCHANGED <<types, clock, todo, wire, stale, orphan, lost, issued, breaks, crashes>>

-----------------------------------------------------------------------------
(* The accepting side.                                                     *)

\* handle_rreg at To(l): apply_remote_registration and, when the table
\* changed, a broadcast of the record to every peer but the sender.
HandleRreg(l, f) ==
    LET d == To(l)
    IN  IF Wins(f.reg, types[d][f.type])
        THEN /\ types' = [types EXCEPT ![d][f.type] = f.reg]
             /\ todo' = [todo EXCEPT ![d] =
                            @ \union {[frame |-> f, exclude |-> From(l)]}]
        ELSE UNCHANGED <<types, todo>>

\* read_loop takes the next frame of a live link.
ReadWire(l) ==
    /\ wire[l] # <<>>
    /\ HandleRreg(l, Head(wire[l]))
    /\ wire' = [wire EXCEPT ![l] = Tail(@)]
    /\ UNCHANGED <<clock, link, snap, queue, stale, orphan, lost, issued, breaks, crashes>>

\* The read_loop of a stream whose writing end is gone takes a frame it still
\* finds buffered.  The sender is excluded from the broadcast by its name: if
\* it has restarted since, it no longer knows the record.
ReadStale(l) ==
    LET f == Head(stale[l])
        misled == {m \in Link : /\ m = <<To(l), From(l)>>
                                /\ orphan[l]
                                /\ Wins(f.reg, types[To(l)][f.type])}
    IN  /\ stale[l] # <<>>
        /\ HandleRreg(l, f)
        /\ stale' = [stale EXCEPT ![l] = Tail(@)]
        /\ lost' = [m \in Link |-> lost[m] \/ m \in misled]
        /\ UNCHANGED <<clock, link, snap, queue, wire, orphan, issued, breaks, crashes>>

-----------------------------------------------------------------------------
(* Failures.                                                               *)

\* The stream of l breaks: its reader still finds some of what was written.
\* One dead stream a link is kept at a time (a bound of the model).
Break(l) ==
    /\ link[l] \in {"dialed", "push", "up"}
    /\ breaks < MaxBreaks
    /\ stale[l] = <<>>
    /\ \E n \in 0 .. Len(wire[l]) :
          stale' = [stale EXCEPT ![l] = SubSeq(wire[l], 1, n)]
    /\ orphan' = [orphan EXCEPT ![l] = FALSE]
    /\ link' = [link EXCEPT ![l] = "broken"]
    /\ wire' = [wire EXCEPT ![l] = <<>>]
    /\ breaks' = breaks + 1
    /\ UNCHANGED <<types, clock, todo, snap, queue, lost, issued, crashes>>

\* The wall clock of d at its next start, later than its start and than every
\* reading it has taken.
NextStart(d) ==
    {n \in clock[d] + RestartGap .. clock[d] + RestartGap + MaxTs :
        \A f \in issued : f.reg.origin = d => f.reg.ts + RestartGap <= n}

\* Daemon d crashes and starts again.  Its table, its channels and its read
\* tasks are gone; what it had written to a peer may still be read there, and
\* the daemons that had dialed it hold broken links.
Crash(d) ==
    /\ crashes < MaxCrashes
    /\ \A l \in Link : From(l) = d => stale[l] = <<>> \/ wire[l] = <<>>
    /\ types' = [types EXCEPT ![d] = EmptyTable]
    /\ \E n \in NextStart(d) : clock' = [clock EXCEPT ![d] = n]
    /\ todo' = [todo EXCEPT ![d] = {}]
    /\ link' = [l \in Link |-> IF From(l) = d THEN "down"
                               ELSE IF To(l) = d /\ link[l] # "down" THEN "broken"
                               ELSE link[l]]
    /\ snap' = [l \in Link |-> IF From(l) = d THEN {} ELSE snap[l]]
    /\ queue' = [l \in Link |-> IF From(l) = d THEN <<>> ELSE queue[l]]
    /\ wire' = [l \in Link |-> IF d \in {From(l), To(l)} THEN <<>> ELSE wire[l]]
    /\ stale' = [l \in Link |-> IF From(l) = d THEN stale[l] \o wire[l]
                                ELSE IF To(l) = d THEN <<>> ELSE stale[l]]
    /\ orphan' = [l \in Link |-> orphan[l] \/ From(l) = d]
    /\ crashes' = crashes + 1
    /\ UNCHANGED <<lost, issued, breaks>>

-----------------------------------------------------------------------------
Next ==
    \/ \E d \in Daemon, t \in Type, k \in Key, ts \in 0 .. MaxTs : Register(d, t, k, ts)
    \/ \E d \in Daemon : Broadcast(d) \/ Crash(d)
    \/ \E l \in Link : \/ Connect(l) \/ TakeSnapshot(l) \/ Push(l) \/ StartLoops(l)
                       \/ WriteLoop(l) \/ Close(l) \/ ReadWire(l) \/ ReadStale(l)
                       \/ Break(l)

Spec == Init /\ [][Next]_vars

\* Every task of a running daemon is scheduled: the runtime polls a ready task,
\* the dialer retries for ever, a broken link is noticed (EOF or reset).
Fairness ==
    /\ \A d \in Daemon : WF_vars(Broadcast(d))
    /\ \A l \in Link : /\ WF_vars(Connect(l))
                       /\ WF_vars(TakeSnapshot(l))
                       /\ WF_vars(Push(l))
                       /\ WF_vars(StartLoops(l))
                       /\ WF_vars(WriteLoop(l))
                       /\ WF_vars(Close(l))
                       /\ WF_vars(ReadWire(l))
                       /\ WF_vars(ReadStale(l))

FairSpec == Spec /\ Fairness

-----------------------------------------------------------------------------
(* Properties.                                                             *)

\* Every variable keeps its shape: tables map types to records or nothing,
\* channels and streams are sequences of RREG frames.
TypeOK ==
    /\ types \in [Daemon -> Table]
    /\ clock \in [Daemon -> Nat]
    /\ todo \in [Daemon -> SUBSET Broadcasts]
    /\ link \in [Link -> Phase]
    /\ snap \in [Link -> SUBSET Rreg]
    /\ queue \in [Link -> Seq(Rreg)]
    /\ wire \in [Link -> Seq(Rreg)]
    /\ stale \in [Link -> Seq(Rreg)]
    /\ orphan \in [Link -> BOOLEAN]
    /\ lost \in [Link -> BOOLEAN]
    /\ issued \in SUBSET Rreg
    /\ breaks \in Nat
    /\ crashes \in Nat

\* Two daemons that hold a claim of the same daemon and instant for a type
\* hold the same key: what makes the (ts, daemon-id) order total on claims.
OneKeyPerClaim ==
    \A d, e \in Daemon, t \in Type :
        LET r == types[d][t]
            s == types[e][t]
        IN  r # NoReg /\ s # NoReg /\ r.ts = s.ts /\ r.origin = s.origin => r.key = s.key

\* The RREG frames on their way from From(l) to To(l).
InFlight(l) ==
    snap[l] \union Range(queue[l]) \union Range(wire[l])
        \union {b.frame : b \in {c \in todo[From(l)] : c.exclude # To(l)}}

\* To(l) holds a record for type t that no record of From(l) would replace.
Reached(l, t) ==
    /\ types[To(l)][t] # NoReg
    /\ ~ Lower(types[From(l)][t], types[To(l)][t])

\* No record falls between snapshot and broadcast: while a link stands and
\* nothing was dropped on it, each record of the dialer has reached the peer
\* or is on its way (dial_once enters the link in `peers' before it snapshots,
\* and the source of a record needs no copy of it).
NothingWithheld ==
    \A l \in Link, t \in Type :
        /\ link[l] \in {"push", "up"}
        /\ ~ lost[l]
        /\ types[From(l)][t] # NoReg
        => Reached(l, t) \/ [type |-> t, reg |-> types[From(l)][t]] \in InFlight(l)

Idle(l) == link[l] = "up" /\ InFlight(l) = {}

StronglyConnected ==
    \A S \in SUBSET Daemon :
        S \notin {{}, Daemon} => \E l \in Link : From(l) \in S /\ To(l) \notin S

AllAgree == \A d, e \in Daemon : types[d] = types[e]

\* When every link is up with nothing left to send and nothing was dropped on
\* it, all daemons hold the same table, whatever the order of registrations,
\* deliveries, breaks and restarts before (PROTOCOL.md 9.4), provided records
\* can travel from any daemon to any other.
Agreement ==
    StronglyConnected /\ (\A l \in Link : Idle(l) /\ ~ lost[l]) => AllAgree

\* The documentation's version of Agreement, which has no proviso on drops:
\* all daemons converge to the same owner key.
UnconditionalAgreement ==
    StronglyConnected /\ (\A l \in Link : Idle(l) /\ stale[l] = <<>>) => AllAgree

\* If from some time on no link has a record withheld from it, the daemons
\* agree for good.
Converges ==
    (StronglyConnected /\ <>[](\A l \in Link : ~ lost[l])) => <>[]AllAgree

\* Each daemon's table behaves as the view of the abstract registration.
Promise == INSTANCE Ownership WITH view <- types, claims <- issued, Time <- 0 .. MaxTs

\* The federation of tables implements the abstract registration: records are
\* never invented, and a running daemon's record is replaced by older claims
\* alone, whatever stale or reordered frames its peers send.
ImplementsOwnership == Promise!Spec
=============================================================================
