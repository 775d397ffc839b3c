------------------------------- MODULE Dialer --------------------------------
(***************************************************************************)
(* One daemon's dialers (macro-busd/src/federation.rs): a task for every   *)
(* configured peer that dials, enters its sender in the shared `peers'     *)
(* map, pushes the snapshot, runs the link until it ends, removes the map  *)
(* entry and sleeps with a growing delay.  The map is keyed by the peer's  *)
(* id, and nothing keeps two configured peers from having the same id:     *)
(* such twins overwrite and remove each other's entry.                     *)
(*                                                                         *)
(* Phases of a dialer:                                                     *)
(*   dial   -> dial_once up to the peer's greeting; nothing has a timeout  *)
(*   push   -> in `peers', the snapshot is being queued                    *)
(*   run    -> read_loop and write_loop run in the select!                 *)
(*   closed -> the loops ended with Ok; the entry is still to be removed   *)
(*   failed -> the loops ended with an error; likewise                     *)
(*   sleep  -> run_dialer waits out the delay                              *)
(***************************************************************************)
EXTENDS Naturals

CONSTANTS
    Entry,       \* the entries of cluster.peers
    Id,          \* peer ids
    IdOf,        \* the id of each entry
    NoEntry,     \* an id that `peers' does not hold
    Base,        \* reconnect_base_ms, at least 1
    Ceiling,     \* reconnect_max_ms, at least 1
    MaxChanges   \* bound: hosts that stop, vanish or start

ASSUME EntryAssumption == IdOf \in [Entry -> Id] /\ NoEntry \notin Entry
ASSUME DelayAssumption == {Base, Ceiling} \subseteq Nat \ {0}
ASSUME BoundAssumption == MaxChanges \in Nat

VARIABLES
    phase,    \* where each dialer stands
    backoff,  \* run_dialer's delay
    peers,    \* Cluster.peers: whose sender each id has
    pending,  \* the dialer's channel holds frames
    host,     \* whether each entry's address is served
    conn,     \* the dialer's TCP connection
    changes

vars == <<phase, backoff, peers, pending, host, conn, changes>>

Phase == {"dial", "push", "run", "closed", "failed", "sleep"}

\* "cut": the other end is closed, and the next read finds out.  "lost": the
\* other end is gone without a word, and only a write can find out.
Conn == {"none", "live", "cut", "lost"}

Init ==
    /\ phase = [e \in Entry |-> "dial"]
    /\ backoff = [e \in Entry |-> Base]
    /\ peers = [i \in Id |-> NoEntry]
    /\ pending = [e \in Entry |-> FALSE]
    /\ host \in [Entry -> {"up", "down"}]
    /\ conn = [e \in Entry |-> "none"]
    /\ changes = 0

Goto(e, p) == phase' = [phase EXCEPT ![e] = p]

\* Whether the receiving half of e's channel exists.
Receiving(e) == phase[e] \in {"push", "run"}

\* Whether the sending half does: `peers' holds the only one.
Registered(e) == peers[IdOf[e]] = e

-----------------------------------------------------------------------------
(* dial_once.                                                              *)

\* TcpStream::connect.
Connect(e) ==
    /\ phase[e] = "dial"
    /\ conn[e] = "none"
    /\ host[e] = "up"
    /\ conn' = [conn EXCEPT ![e] = "live"]
    /\ UNCHANGED <<phase, backoff, peers, pending, host, changes>>

\* connect is refused or times out.
Refused(e) ==
    /\ phase[e] = "dial"
    /\ conn[e] = "none"
    /\ host[e] = "down"
    /\ Goto(e, "sleep")
    /\ UNCHANGED <<backoff, peers, pending, host, conn, changes>>

\* The TLS handshake or the exchange of greetings fails.  On a connection that
\* is lost it does so only if something is still unacknowledged.
GreetingFails(e) ==
    /\ phase[e] = "dial"
    /\ conn[e] \in {"cut", "lost"}
    /\ conn' = [conn EXCEPT ![e] = "none"]
    /\ Goto(e, "sleep")
    /\ UNCHANGED <<backoff, peers, pending, host, changes>>

\* The peer's greeting is read and peers.insert enters the sender: one that was
\* there under this id is dropped.
Insert(e) ==
    /\ phase[e] = "dial"
    /\ conn[e] = "live"
    /\ Goto(e, "push")
    /\ peers' = [peers EXCEPT ![IdOf[e]] = e]
    /\ pending' = [pending EXCEPT ![e] = FALSE]
    /\ UNCHANGED <<backoff, host, conn, changes>>

\* try_send to the channel that `peers' holds under an id, whosever it is.
SendTo(i) ==
    pending' = [e \in Entry |-> pending[e] \/ (peers[i] = e /\ Receiving(e))]

\* A record of the snapshot: the sender is looked up in `peers' again.
PushRecord(e) ==
    /\ phase[e] = "push"
    /\ SendTo(IdOf[e])
    /\ UNCHANGED <<phase, backoff, peers, host, conn, changes>>

StartLoops(e) ==
    /\ phase[e] = "push"
    /\ Goto(e, "run")
    /\ UNCHANGED <<backoff, peers, pending, host, conn, changes>>

\* write_loop writes what its channel holds.
Write(e) ==
    /\ phase[e] = "run"
    /\ pending[e]
    /\ conn[e] = "live"
    /\ pending' = [pending EXCEPT ![e] = FALSE]
    /\ UNCHANGED <<phase, backoff, peers, host, conn, changes>>

\* Mutant: write_loop goes on after an error.
GoesOn == "run"

\* What a failed write makes of the link.
AfterWriteError == "failed"

\* A write to a connection that does not exist any more fails, at once or when
\* TCP gives up.
WriteFails(e) ==
    /\ phase[e] = "run"
    /\ pending[e]
    /\ conn[e] \in {"cut", "lost"}
    /\ pending' = [pending EXCEPT ![e] = FALSE]
    /\ Goto(e, AfterWriteError)
    /\ UNCHANGED <<backoff, peers, host, conn, changes>>

\* Mutant: the end of the peer's stream is no error.
CleanEnd == "closed"

\* What read_loop returns at the end of the peer's stream: an error, for no
\* daemon ever sends TLS's close_notify.
AfterEof == "failed"

\* read_loop meets the end of the stream.
ReadEnds(e) ==
    /\ phase[e] = "run"
    /\ conn[e] = "cut"
    /\ Goto(e, AfterEof)
    /\ UNCHANGED <<backoff, peers, pending, host, conn, changes>>

\* Mutant: write_loop does not end with its channel.
NeverDone(e) == FALSE

\* recv returns None: the channel is empty and its sender was dropped.
Done(e) == ~ pending[e] /\ ~ Registered(e)

\* write_loop returns Ok.
WriteEnds(e) ==
    /\ phase[e] = "run"
    /\ Done(e)
    /\ Goto(e, "closed")
    /\ UNCHANGED <<backoff, peers, pending, host, conn, changes>>

\* Mutant: the entry stays in `peers'.
Kept(e) == peers

\* Mutant: every entry of `peers' goes.
Cleared(e) == [i \in Id |-> NoEntry]

\* peers.remove: whatever the map holds under the id of the entry.
Removed(e) == [peers EXCEPT ![IdOf[e]] = NoEntry]

\* dial_once removes its id from `peers' and returns to run_dialer.
Deregister(e) ==
    /\ phase[e] \in {"closed", "failed"}
    /\ peers' = Removed(e)
    /\ backoff' = [backoff EXCEPT ![e] = IF phase[e] = "closed" THEN Base ELSE @]
    /\ conn' = [conn EXCEPT ![e] = "none"]
    /\ pending' = [pending EXCEPT ![e] = FALSE]
    /\ Goto(e, "sleep")
    /\ UNCHANGED <<host, changes>>

\* Mutant: the ceiling is forgotten.
Uncapped(n) == 2 * n

\* (backoff * 2).min(max)
Doubled(n) == IF 2 * n < Ceiling THEN 2 * n ELSE Ceiling

\* The sleep ends, the delay grows, and dial_once is called again.
WakeUp(e) ==
    /\ phase[e] = "sleep"
    /\ Goto(e, "dial")
    /\ backoff' = [backoff EXCEPT ![e] = Doubled(@)]
    /\ UNCHANGED <<peers, pending, host, conn, changes>>

-----------------------------------------------------------------------------
(* The rest of the daemon, and the other hosts.                            *)

\* broadcast sends a frame to the channel under id i.
Traffic(i) ==
    /\ SendTo(i)
    /\ UNCHANGED <<phase, backoff, peers, host, conn, changes>>

Change(e) == changes < MaxChanges /\ changes' = changes + 1

HostStarts(e) ==
    /\ Change(e)
    /\ host[e] = "down"
    /\ host' = [host EXCEPT ![e] = "up"]
    /\ UNCHANGED <<phase, backoff, peers, pending, conn>>

\* The peer's process ends, and its system closes its connections.
HostStops(e) ==
    /\ Change(e)
    /\ host[e] = "up"
    /\ host' = [host EXCEPT ![e] = "down"]
    /\ conn' = [conn EXCEPT ![e] = IF @ = "live" THEN "cut" ELSE @]
    /\ UNCHANGED <<phase, backoff, peers, pending>>

\* The peer's machine or the network path to it goes without closing anything.
HostVanishes(e) ==
    /\ Change(e)
    /\ host[e] = "up"
    /\ host' = [host EXCEPT ![e] = "down"]
    /\ conn' = [conn EXCEPT ![e] = IF @ = "live" THEN "lost" ELSE @]
    /\ UNCHANGED <<phase, backoff, peers, pending>>

-----------------------------------------------------------------------------
\* The dialer's own steps but the failure of a greeting.
Dial(e) ==
    \/ Connect(e) \/ Refused(e) \/ Insert(e) \/ PushRecord(e) \/ StartLoops(e)
    \/ Write(e) \/ WriteFails(e) \/ ReadEnds(e) \/ WriteEnds(e)
    \/ Deregister(e) \/ WakeUp(e)

Next ==
    \/ \E e \in Entry : \/ Dial(e) \/ GreetingFails(e)
                        \/ HostStarts(e) \/ HostStops(e) \/ HostVanishes(e)
    \/ \E i \in Id : Traffic(i)

Spec == Init /\ [][Next]_vars

\* The runtime polls ready tasks, sleeps end, and an error the system reports
\* is returned.  Messages keep being published, so broadcasts keep coming.
\* Nothing makes a greeting on a lost connection fail.
Fairness ==
    /\ \A e \in Entry : /\ WF_vars(Dial(e))
                        /\ WF_vars(conn[e] = "cut" /\ GreetingFails(e))
                        /\ WF_vars(WriteEnds(e))
                        /\ WF_vars(WriteFails(e))
    /\ \A i \in Id : WF_vars(Traffic(i))

FairSpec == Spec /\ Fairness

-----------------------------------------------------------------------------
(* Properties.                                                             *)

\* Every variable keeps its shape, and no delay but the first is over the
\* ceiling, should the base be.
TypeOK ==
    /\ phase \in [Entry -> Phase]
    /\ backoff \in [Entry -> (1 .. Ceiling) \union {Base}]
    /\ peers \in [Id -> Entry \union {NoEntry}]
    /\ \A i \in Id : peers[i] # NoEntry => IdOf[peers[i]] = i
    /\ pending \in [Entry -> BOOLEAN]
    /\ host \in [Entry -> {"up", "down"}]
    /\ conn \in [Entry -> Conn]
    /\ changes \in 0 .. MaxChanges

Unique(e) == \A f \in Entry \ {e} : IdOf[f] # IdOf[e]

\* A sender outlives its link by no more than the step that removes it, so a
\* frame for a peer is not thrown at a dead channel while a dialer sleeps or
\* dials, although twins remove each other's senders.
SenderHasLink == \A e \in Entry : Registered(e) => phase[e] \notin {"dial", "sleep"}

\* The link of a peer whose id is configured once has its sender in the map as
\* long as it stands: nothing that the other dialers do can silence it.
LinkHasSender ==
    \A e \in Entry : Unique(e) /\ phase[e] \in {"push", "run"} => Registered(e)

\* With ids configured once the delay never shrinks again: however long a link
\* worked, its end is an error, and the reset on Ok is reached by twins alone.
OnlyTwinsReset ==
    [][\A e \in Entry : backoff'[e] < backoff[e] => ~ Unique(e) \/ Base > Ceiling]_vars

\* A link whose sender a twin took away ends: it does not linger, connected
\* and silent.
DisplacedEnds ==
    \A e \in Entry : (phase[e] = "run" /\ ~ Registered(e)) ~> phase[e] # "run"

\* A connection lost during the handshake, where nothing is written any more.
Hung(e) == phase[e] = "dial" /\ conn[e] = "lost"

\* A peer whose id is configured once and whose host is back for good is linked
\* again for good, through refused connects, closes and silent losses, as long
\* as there is traffic and the loss did not hit the handshake.
Settles ==
    \A e \in Entry :
        Unique(e) /\ <>[](host[e] = "up" /\ ~ Hung(e))
            => <>[](phase[e] = "run" /\ Registered(e) /\ conn[e] = "live")
=============================================================================
