# macro-bus in TLA+

macro-bus is a message bus. Local clients publish and subscribe over a Unix
socket to a daemon (`macro-busd`), and daemons federate over mutually
authenticated TLS links: each dials the peers in its configuration, registers
message types for the whole cluster, and floods published messages to it. This
directory models the daemon from start-up to shutdown, its federation, its
framing and the client library, checks small instances with TLC, and proves with
TLAPS, for every value of the constants, the safety properties of each component
and that the two detailed modules implement their abstract ones.

Paths below are relative to `src/`; `federation.rs`, `registry.rs`,
`conn.rs` and `server.rs` are those of `crates/macro-busd/src/`.

## 1. The system

| part | state | operations | where |
| --- | --- | --- | --- |
| registry | `Inner` behind one mutex: `types` (owner record per type), `subs` (subscribers per type); the atomic `seq`; `SeenSet` behind a mutex of its own | `register_local`, `apply_remote_registration`, `all_registrations`, `subscribe`, `unsubscribe`, `remove_conn`, `publish_precheck`, `publish_local`, `ingest_remote`, `fanout_locked` | `registry.rs` |
| connection task | read buffer, `my_subs`, outbound queue, drop counters and their `Notify` | `flush_drops`, `take_line`, the `select!` of read, queue and wake-up, one handler per command, `read_body` | `conn.rs` |
| cluster | `peers`: a bounded channel per dialed link | `broadcast`, `forward_local`, `propagate_registration` | `federation.rs` |
| dialed link | a dialer task per configured peer, its delay, its channel: `run_dialer`, `dial_once`, `write_loop`, `read_loop` | connect, enter `peers`, push the snapshot, run, leave `peers`, back off | `federation.rs` |
| accepted link | a reader task per accepted stream | `read_loop`, `handle_rreg`, `handle_feed` | `federation.rs` |
| client library | `pending` events, the stream | one call at a time, `read_response`, `next_event` | `macro-bus-client/src/lib.rs` |
| framing | `rbuf` of a connection | `take_line` and its limits; dot-stuffing, terminator, `encode_body`, the size of a body | `conn.rs`, `macro-bus-proto/src/frame.rs` |
| process | the federation listener, the local listener, the socket's file | `run`, `Cluster::start`, `LocalServer::bind`, `serve`, `Drop` | `main.rs`, `lib.rs`, `server.rs` |
| configuration, TLS, CLI | none once running | | not modelled |

**How they interact.** A connection task calls the registry under its lock and
hands messages to other connections through their bounded queues; a full queue
drops the message, counts it, and wakes the subscriber's task, which writes
`102 DROP`. After the lock is released the task asks the cluster to forward
the message or the registration; the cluster tries to send to each dialed
peer's bounded channel and drops what does not fit. A reader task of the peer
looks the frame up (seen-set or owner tuple), hands it to local subscribers
and forwards it again to every peer but the sender. Dialed links carry RREG and
FEED one way only, from the dialer to the daemon that accepted. All dialers of
a daemon share the map `peers`, keyed by the peer's id. Processes share the
machine's ports and the file system: a daemon that starts takes its federation
port and replaces the socket at its path.

**What is hard about it.** Registrations of one type race on several daemons
and cross in flight. A table change, the snapshot for a new link and the
broadcast of the change are three steps under two locks. Links break with
frames queued, written or buffered, and daemons restart empty, with the
sequence at 1 and with clocks that may not have moved. A publisher is checked
twice, with the whole body read in between. Drops are counted by one task and
reported by another. Messages go around cycles and arrive on several links at
once, and only a bounded set of ids stops them. The client library and the
daemon both write without reading, and a caller may drop `next_event` where it
waits. Octets arrive in any pieces. Peers stop, or vanish without a word. A
second process may start on the same path while the first one stops. PROJECT.json lists each of these as a hazard
at the line where it bites.

**What makes each part correct.**
- registry and federation of types: all daemons settle on one owner, the same
  one whatever the order of deliveries; nothing is withheld from a link
- local bus: a message enters only with the owner's key; each live subscriber
  gets the bus's messages in order, each once, or is told how many it missed;
  `remove_conn` leaves nothing behind
- flood: everyone gets a message whose frames were not dropped, once, and the
  flood ends
- client and framing: a reply goes to the call that asked, events are kept in
  order, bodies arrive unchanged, calls return; lines are those that were sent,
  however they arrive
- dialers: a standing link has its sender in `peers`, a sender has a link, and
  a peer that is back is linked again
- process: the path of a serving daemon leads to it, and nothing an earlier
  life left keeps a daemon from starting

## 2. The modules

| module | models | composed of |
| --- | --- | --- |
| `TypeTable` | the owner record, its order, claim and override rules | |
| `Federation` | the table on every daemon, links, snapshot, broadcast, failures | extends `TypeTable`; instantiates `Ownership` |
| `Ownership` | abstract: claims made once, views that only move to older claims | |
| `LocalBus` | one daemon: connection tasks and the registry they share | instantiates `Bus` |
| `Bus` | abstract: what is due to each subscriber, delivered in order or missed and counted | |
| `Flood` | FEED frames and the seen-set on every daemon | |
| `Exchange` | one client library, its stream, and the daemon's end of it | |
| `LineReader` | octets into lines: `rbuf`, `take_line` and its two callers | |
| `Dialer` | the dialers of one daemon, the `peers` map, the hosts they dial | |
| `Server` | processes on one machine, their ports and sockets, and clients | |
| `MC...` | small instances for TLC | extend the module they name |
| `FederationProofs`, `LocalBusProofs`, `FloodProofs`, `ExchangeProofs`, `LineReaderProofs`, `DialerProofs`, `ServerProofs` | theorems | each extends the module it names |
| `SequenceLemmas` | what the channel operations do to the set of what is in a channel; least numbers | used by the proofs |

**TypeTable, Federation.** A daemon is its rank in the order of daemon-id
strings. `types[d]` is `Inner.types`; `todo[d]` holds changes whose broadcast
has not run yet, since the registry lock is released before the peers lock is
taken. A link is a configured pair: `link[l]` is where its `dial_once` stands,
`snap[l]` what it has still to push, `queue[l]` its channel, `wire[l]` what was
written and not read, `stale[l]` what a reader still finds in the stream before.
`Register`, `Broadcast`, `Connect`, `TakeSnapshot`, `Push`, `StartLoops`,
`WriteLoop`, `Close`, `ReadWire`, `ReadStale` are the steps of the code between
two locks or awaits; `Break` and `Crash` are failures. `lost[l]` is history: it
records that a frame was dropped at l's full queue, or that a restarted sender
was spared a record it no longer has, since l last took a snapshot. A restart
empties the daemon and advances its clock by at least `RestartGap`.

**LocalBus.** `pc[c]` is where a task stands in `serve`; each point is an await
or a lock. `fan[p]` is the fan-out that task p performs under the registry's
lock: one subscriber a step, counting a drop and waking its task being two
steps (`FanSend`, `Notify`), since the counters have their own lock and the
subscriber's task runs meanwhile. `Peer` stands for the readers of federated
links, which hold the lock one at a time. `BodyRead` leaves any number of
buffered lines behind, for the body is read from the same buffer. Commands are
chosen by the client when the daemon takes the line.

**Bus.** The abstract bus has no task, lock or wake-up: a message it accepts is
at once due to whoever is subscribed at that instant; what is due is delivered
from the front, or missed, the latest alone, and counted; connections are told
of misses. `LocalBus` implements it with `due` the queue and what the fan-out
under way still has to send, and `missed` all drop counts, drained and reported
ones included. The refinement says at once that fan-outs are atomic to
subscribers, that all see one order, and that no message is unaccounted for.

**Flood.** `flow[s]` is the channel and the stream of a link together; as
`write_loop` empties the channel at its own pace, `Send` may drop a frame when
there are at least `QueueDepth` and must at `QueueDepth + WireDepth`. A reader
looks up and records the id (`ReadFeed`), fans out (`Ingest`), and broadcasts
(`PassOn`) in three steps, and the reader of a broken stream (`Dying`) runs
beside that of the new one. A message's id is its origin and number; `life`
tells messages with one id apart and is no part of what the code compares.
Daemons have a `Limit` each: a FEED over it is read to its end and dropped
(`ReadOversize`), with no trace in the seen-set and without being passed on.

**Exchange.** `toSend`, `up`, `down`, `out` are the library's write, the two
directions of the stream, and the daemon's write. Neither side reads before its
write is done. Lines are sequences of characters so that stuffing, the
terminator, and both limits mean what they mean in the code; a command is one
word, and commands answered alike are one. Every line carries the call it
belongs to, for the properties alone. `Deliver` stands for whatever `LocalBus`
puts in the queue. `DropNextEvent` drops a `next_event` where it waits, as the
timeouts around it in `tests/cluster.rs` and `examples/ping_pong.rs` do; when
part of a push has been read, `astray` says that the stream is torn.

**LineReader.** `wire` is what has not arrived, `rbuf` the daemon's buffer; a
read brings any number of octets up to `MaxRead`. What a line says, and with it
whether a command or a body line comes next, is free. The client's `read_line`
is the same reader with one limit and single octets, the federation's has no
limit; both only lose behaviours.

**Dialer.** `phase[e]` is where the dialer of entry e stands in `run_dialer` and
`dial_once`, `peers[i]` whose sender the map holds under id i, `pending[e]`
whether its channel holds frames, `conn[e]` its connection: cut, when the other
end closed, or lost, when it went without a word. Entries with one id are twins.
What the frames are is `Federation`'s and `Flood`'s affair.

**Server.** `pc[p]` is where a process stands in `run`, `bind` and `serve`,
`file[x]` whose socket is at path x. The three steps of `bind` that touch the
path are apart, for another process may come between. `Kill` stands for any end
without `Drop`, ctrl-c before `serve` listens for it included.

Data is abstracted where no property tells it apart: names, keys and payloads
are model values or short sequences; reply texts are their codes.

## 3. The runs

| run | instance | shows |
| --- | --- | --- |
| `FedPair` | two daemons dialing each other, one type, one key, clocks 0..1, one break, one restart | `TypeOK`, `NothingWithheld`, `Agreement`, that `Federation` implements `Ownership`, and that redialing and the snapshot repair every loss (`Converges`) |
| `FedRing` | three daemons in a one-way ring, two keys, one timestamp | `OneKeyPerClaim`, `Agreement`, `Converges` where every record must be passed on twice |
| `FedRestart` | two daemons, a restart, queues that drop nothing | violation: a record read late from the old life of a daemon is not sent back to it |
| `BusSafety` | two connections, one type, two keys, queues of two messages, three messages, two lines each, one ownership change | subscriptions, wake-ups and authorization; `LocalBus` implements `Bus` |
| `BusLive` | one connection, two types, three lines, three messages | every drop is reported and every queued message written |
| `Flood` | three daemons, a cycle and a shortcut, one with a smaller limit, seen-sets of one id, two messages, one failure | duplicates come from eviction only, a message reaches whom daemons that take it lead to, the flood ends |
| `FloodRestart` | a ring, a restart | violation: an id is given twice |
| `Exchange` | three calls, two pushes, streams of one line | replies, events, bodies and sizes are right, dropped futures included; calls return |
| `ExchangeLong` | two calls | violation: one command, two final responses |
| `Dialer` | two twins and a peer of its own, delays 1..3, two hosts that stop, vanish or start | who owns an entry of `peers`, who resets the delay, that links come back |
| `LineReader` | inputs of up to seven octets, reads of up to three, limits 2 and 3 | lines, limits, the buffer's size, pipelining |
| `Server` | two processes of one federated configuration, two standalone ones on one path, two clients, four starts | the port guards the socket; stale sockets do no harm |

**Why the bounds are enough.** Clock readings 0 and 1 give ties and both orders;
two daemons give tuples that cross, three in a ring give a record that must pass
through a daemon that is neither end. Two keys matter where equal tuples could
carry both, which one reading already makes as likely as can be. Queues of one
frame make the full case the common one. One break and one restart together
reach the stale stream beside the live one, the record from a former life, and
the second snapshot. In `LocalBus` two connections are needed for two fan-outs
that compete for the lock and for a task that drops another's message; a third
would be one more target of the same loop. Queues of two messages have an order,
and a third message finds them full. `MaxOverrides = 1` suffices for a check
that is out of date when used. In `Flood` seen-sets of one id are evicted by the
second message, so the run holds floods inside and beyond the horizon; daemon 3
gets copies on two links at once, and has room only for some of what daemon 2
publishes. In `Exchange` streams of one line make every write wait, and the
bodies are: none, an empty line, the terminator as text, a line to be stuffed, a
body one octet over `MaxMessage`, and a line that only stuffing makes too long.
In `LineReader` seven octets hold three lines and, with limits 2 and 3, a line
over either limit beside another, cut at every place. In `Dialer` two changes of
hosts make a peer stop or vanish and return. In `Server` four starts let both
processes of a pair run, end and overlap.

`MaxTs`, `MaxBreaks`, `MaxCrashes`, `MaxLines`, `MaxBatch`, `MaxMsgs`,
`MaxOverrides`, `MaxFailures`, `MaxCalls`, `MaxPushes`, `MaxInput`, `MaxChanges`,
`MaxStarts` are bounds of the model; `QueueDepth`, `SeenCap`, `RestartGap`,
`Base`, `Ceiling`, `MaxRead` and the limits are the code's parameters made small.
At most one dead stream a link is kept, and a client that has torn a push makes
no further calls. Deadlock is not checked: every bound is a place where the model
stops, and a bus without clients has nothing to do.

**Fairness.**
- `Federation`: weak, on each daemon's broadcast and on each step of a link's
  tasks. The runtime polls ready tasks; `run_dialer` retries for ever; a dead
  stream is noticed (what that takes is in `Dialer`). Registrations and failures are never forced.
- `LocalBus`: weak on a task's own steps and on the end of a body, that is, a
  client that was sent 354 ends its body and reads what it is sent (a client
  that does neither holds up its own connection alone). Strong on the two
  branches of the `select!` that bring messages and wake-ups: tokio polls the
  branches in random order, so a ready one does not lose for ever to a client
  that keeps sending. The number of lines buffered is finite at any time, so
  pipelining delays deliveries and does not stop them.
- `Flood`: weak on forwarding and on each reader. No link need come up.
- `Exchange`: weak on the client's reads, its writes and the daemon's steps. No
  call and no push is forced.
- `Dialer`: weak on each dialer's steps, on the two ways `write_loop` ends, and
  on traffic: messages keep being published, without which a lost connection is
  never noticed. Nothing makes a greeting fail that is awaited on a lost
  connection, for `dial_once` has no timeout; `Settles` says so (`Hung`).
- `LineReader`: weak on the whole: what was sent arrives and the task runs.
- `Server`: none; its properties are safety.

## 4. What is proved

Every invariant and every action property that a passing run checks is also a
theorem, for every value of the constants: every topology and set of
daemons, tasks, types, keys, bodies and processes, every depth, limit, capacity
and delay, every bound on clocks, failures, calls and messages. So is each
refinement. The theorems assume what the modules' ASSUMEs say of the constants
(depths and limits are numbers, marks such as `NoReg`, `NoFan`, `NoMsg`, `NoEntry`
are not among the values they stand beside, links are pairs of two daemons, a
publisher sends what is within its own limit); three assume more, as the table
says. TLC evaluates each ASSUME on the instances.

| module | theorem | states |
| --- | --- | --- |
| `FederationProofs` | `TypeCorrect` | `TypeOK` always |
| | `OneKey` | one key per (ts, daemon-id) tuple; needs `RestartGap > 0` |
| | `Coverage` | nothing is withheld from a link on which nothing was dropped |
| | `ClusterAgrees` | strongly connected, idle, nothing dropped: all tables are equal; needs `RestartGap > 0` |
| | `Refinement` | every step is a claim, a lesson, a restart or a stutter of `Ownership`; needs `RestartGap > 0` |
| `LocalBusProofs` | `TypeCorrect` | `TypeOK`: in particular no queue exceeds its depth |
| | `SubscriptionsKept` | the registry and `my_subs` agree; who is gone has left nothing |
| | `TargetsAlive` | a fan-out never meets a closed queue |
| | `WakeupsKept` | no wake-up is lost between a flush and the wait after it |
| | `Authorization` | a message enters the bus only with its owner's key at that instant |
| | `BusRefinement` | the tasks, queues and counters implement `Bus` |
| `FloodProofs` | `TypeCorrect` | `TypeOK`: a seen-set holds `SeenCap` ids at most, each once |
| | `FannedOutOnce` | nothing is fanned out twice by one run of a daemon whose id was not evicted |
| | `Delivery` | what was not dropped reaches exactly the daemons that paths with room lead to |
| `ExchangeProofs` | `TypeCorrect` | `TypeOK` |
| | `PushesInOrder` | the caller has the daemon's pushes, whole, once and in order |
| | `RepliesMatch` | a call returns the reply to that call |
| | `BodiesIntact` | what is published is what the caller gave |
| | `SizesJudged` | 452 and 250 are true of the size of what the caller gave |
| `LineReaderProofs` | `TypeCorrect` | `TypeOK`: the buffer holds the longest line and one read at most |
| | `RefusedNotBefore` | no command is refused that is below the limit |
| | `LinesKept` | the lines taken are the lines sent, however they arrive |
| `DialerProofs` | `TypeCorrect` | `TypeOK` |
| | `SendersLive` | a sender in `peers` has a link |
| | `LinksReached` | a standing link has its sender in `peers`, unless it has a twin |
| | `ResetNeedsTwin` | only a dialer with a twin resets its delay |
| `ServerProofs` | `TypeCorrect` | `TypeOK` |
| | `PathLeadsHome` | the path of a guarded serving daemon leads to it |
| | `ClientsMeet` | clients of one guarded path are on one bus |
| | `StaleHarmless` | no socket left behind keeps a guarded daemon from starting |

Few of the properties are inductive as they stand. TLC was given the
strengthenings as invariants of the small instances of section 3 and finds none
of them violated (`EventsKept` apart, whose functions it cannot enumerate).

**Federation.**
- *One key.* `OneKeyPerClaim` is not inductive: a record in flight could bring
  the second key. `ClaimInv` adds that every record in a table, a queue, a
  stream or a pending broadcast was issued by a `REGISTER` (`RecordsIssued`),
  that no issued record is later than its daemon's clock, and earlier wherever
  the daemon no longer holds it (`ClaimsPast`), and that issued records with one
  tuple and type are the same (`ClaimsDistinct`). `RestartGap > 0` enters at the
  restart, which alone makes a daemon forget what it issued. Without it the
  code does admit two keys for one tuple: a daemon that restarts within the
  clock's resolution, or whose clock steps back.
- *Coverage.* `CoverInv` adds `SenderKnows`: a daemon that is spared a record
  holds one at least as old, as long as it has not restarted. Each action then
  keeps `NothingWithheld`: a change of the dialer's table puts the record in
  `todo`; a broadcast moves it to the queue or sets `lost`; the queue, stream and
  reader move it on; and a read makes it reached.
- *Agreement.* On idle links `Reached` holds of every type, so tables only grow
  older along links. Around a strongly connected cluster they are then equally
  old (the set of daemons whose record is at least as old as a given one is
  closed under links), and `OneKeyPerClaim` makes equally old records the same.
- *Refinement.* `types` and `issued` are the abstract `view` and `claims`;
  `ClaimInv` is what makes a registration a claim later than any its daemon made.

**LocalBus.** One invariant, `BusInv`, carries all four safety theorems and the
refinement. `LockInv` is the mutex: one task has a fan-out, it stands inside
`publish_local`, and its targets are subscribers, for nobody can leave while the
lock is held; this is why a fan-out never meets a closed queue. `SubsInv` is
`SubscriptionsAgree` and the emptiness of what is gone. `NothingDrained` says where
`flush_drops` may have counters in its hands. `WakeOwed` strengthens
`NoLostWakeup` to the whole way from the flush to the wait: whoever has unreported
drops has a permit, or a fan-out that has still to wake it. The refinement maps
each step to an abstract one: the step that opens a fan-out makes the message
due to all subscribers; a send or a drop inside the fan-out moves what is due for
one of them alone; the flush stutters, for `missed` counts what was drained.

**Flood.** *Once*: the lookup and the fan-out are two steps of a reader, so
`AtMostOnce` needs `FirstRecorded` (an id fanned out or about to be was entered
first, and is in the seen-set or was evicted) and `NewIsNew` (of the readers that
found an id new, one alone, unless it was evicted in between). *Everyone*:
`Forwarded` says that a message a daemon has fanned out is, for each of its
links, taken by the peer, waiting to be passed on, in the live or the dying
stream, or in the hands of a reader. What makes it inductive is the spared
sender, who has the message (`SendersHave`), and the duplicate, whose id is in the
seen-set because a message with that id was fanned out or is about to be
(`SeenMeansTaken`). With nothing under way, what was fanned out is closed under
links with room, and `StaysWithin` is the other direction.

**Exchange.**
- *Pushes.* What the library has and what is still on the stream are related by a
  reader's progress: `Yields(Now, Coming, pushed)` says that who goes on reading
  `Coming` from where the library is ends with the events that were pushed, and
  has a prefix of them at any time. Each read takes one line off the front and
  makes one step of the progress; each delivery appends a block whose progress is
  one event; `BlocksWhole` keeps a status from being taken for text.
- *Replies, bodies.* `Agree` says how client and daemon stand to each other: one
  reply at most on its way, and of the current call (`RepliesOwn`); the lines the
  daemon will read are of that call (`LinesOwn`); and where each is when the other is
  somewhere (`Stages`), which in a body is that the first k lines have been read and
  unstuffed and the stuffed rest is on the stream (`BodyRead`). All of it until
  `astray`, which the over-long body line and the torn push set.
- *Sizes.* `BodyRead` also says that `total` is the size of the k lines read, and
  `VerdictInv` that a verdict on its way, or returned, is true of the body of the call.
  That the size of a body is that of its first lines and the next is proved from
  the function of partial sums (`Sums`), which is unique.

**LineReader.** `ShapeInv` bounds the buffer and ties `state` to what the buffer
holds; the reader asks for more only when there is no line feed in it and room is
left. `FrontInv` says that what was not taken is the rest of the input behind the
last line taken, which ends at a line feed with as many before it as lines were
taken; `LinesInv` that these are the lines of the input, but for body lines over the
limit, which are skipped.

**Dialer.** `DialerInv` adds to the two properties `NeverClosed`: a dialer whose id
is configured once never sees its channel close, for only another dialer under
the same id replaces its sender. **Server.** `ServerInv`: two processes never
hold one port (`PortInv`), so what `bind` has established at a guarded path stands
until the process removes it (`FileInv`), nothing at a path a process has looked at
is other than a socket (`SocketInv`), and who has a client has its port (`ClientInv`).

The provers have no induction over data. Where a proof runs along a sequence (the
progress of a reader, partial sums, the position of a line) it takes the least
position at which two functions differ, or a property first holds; `LeastNumber`
in `SequenceLemmas` proves that there is one, from the library's fact that < is
well-founded on the numbers.

**Only model-checked**: the liveness properties (`Converges`, `DropsReported`,
`QueueDrained`, `FloodEnds`, `CallsReturn`, `DisplacedEnds`, `Settles`,
`EveryLineTaken`), for the provers know neither fairness nor ENABLED; and the
properties that the violation runs refute.

## 5. Where code and documents differ

Three violation runs reproduce differences (PROJECT.json "findings"):
unconditional convergence fails after a restart with a late record
(`FedRestart`); ids are not unique over restarts (`FloodRestart`); an over-long
body line makes the daemon take the rest of the body for commands
(`ExchangeLong`). The last spoils more than the count of replies: a later reply
is taken for the next call's, a later body may be published with a command line
in it, and client and daemon may end up both writing. That needs the line to have
arrived whole; of one that has not, the start stays in `rbuf` and is refused as a
command that is too long, and the connection ends (`LineReader` has both). The
properties of `Exchange` that this would break say so with `astray`.

Met while modelling, without a run of their own:

- a dropped RREG is not sent again while its link stands (`federation.rs:146`,
  `210`), so `PROTOCOL.md:301-302` on convergence needs "unless a queue was full":
  `UnconditionalAgreement` fails with two types, `QueueDepth = 1` and no restart too
- an ownership change between the check before 354 and `publish_local` makes the
  daemon answer 441 after it invited the body (`conn.rs:258`), while
  `PROTOCOL.md:160` lists it as sent instead of 354; `AuthorizedAtPublish` shows
  that the second check is needed
- `config.rs:52` and `config.rs:55` say limits exclude CRLF; a line of just the limit is
  refused if its carriage return arrives before its line feed, and by the client's
  `read_line` always
- `server.rs:31-32` calls the socket it removes stale; it does not look whether a
  daemon still listens on it. Two standalone processes on one path take the
  socket from each other, and the first to stop removes the other's. `Reachable`
  and `OneBus` hold for processes that share a federation port
- `federation.rs:164` resets the delay on `Ok`; as a peer's end of stream is an
  error for TLS (no daemon sends `close_notify`), only a dialer that lost its
  sender to a twin gets there, so a link that worked for days starts over with the
  delay it had. `reconnect_base_ms` over `reconnect_max_ms` makes the first delay
  the longest
- `PROTOCOL.md:302-304` describes the snapshot as received by the dialer while
  `dial_once` pushes it; with a link configured on one side only the accepting
  daemon never sends its table
- the wake-up after a drop is not what makes drops be reported in the end (a full
  queue implies a later delivery, which goes around the loop as well) but what
  makes them be reported promptly: `NoLostWakeup` is about that

## 6. What is not modelled, and why

- configuration: parsing, and three checks of values; what they are enters the
  modules as CONSTANTS
- TLS: building rustls configurations from files; a link that authenticates is
  what `Connect` stands for
- the command-line tool: calls of the client library in a row
- the command grammar and validation: pure string parsing; the modules tell
  commands that parse from those that do not
- the order of messages across daemons: two publishers may leave the lock in one
  order and forward in the other, and nothing is promised
- what a client sees after a push was torn: it depends on how much the rest of the
  push looks like a reply
- a second dead stream of one link
- a peer whose greeting names another id than the configuration: the sender is
  then not spared its own frames, which its seen-set and the tuple order absorb

## 7. Plan

Done: every module of section 2 with its runs, and the theorems of section 4,
which cover every invariant, action property and refinement the passing runs
check. What is left:

1. Lemmas that say in general what the modules' operators promise: the order
   of `TypeTable` (`Lower`, `Wins`) is total on records with different tuples.
2. A refinement for the flood: an abstract broadcast that hands each message to
   each daemon once, implemented by `Flood` while nothing is evicted.
3. `LinesFaithful` for the whole stream: at the end of the input, with every line
   within its limit, what was taken is all of it.
