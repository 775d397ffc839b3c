----------------------------- MODULE Exchange ------------------------------
(***************************************************************************)
(* One client and its connection: the client library (macro-bus-client/    *)
(* src/lib.rs), the daemon's side of the stream (macro-busd/src/conn.rs)   *)
(* and the framing both use (macro-bus-proto/src/frame.rs).  The library   *)
(* makes one call at a time and sorts the lines it reads into the call's   *)
(* reply and the pushes that come before it; a caller may drop a           *)
(* next_event that waits.                                                  *)
(*                                                                         *)
(*   client: toSend --> up --> daemon: serve or body                       *)
(*   client: reads  <-- down <-- daemon: out (the write in progress)       *)
(*                                                                         *)
(* Both directions of the stream hold few lines, and a side that writes    *)
(* does not read.  A line is a sequence of characters: the dot, any other, *)
(* or a word that stands for a whole command line.                         *)
(***************************************************************************)
EXTENDS Naturals, SequencesExt

CONSTANTS Body,        \* the bodies the client publishes: sequences of lines
          PushBody,    \* the bodies it is sent
          MaxCommand,  \* limits.max_command_line_bytes
          MaxBodyLine, \* limits.max_body_line_bytes
          MaxMessage,  \* limits.max_message_bytes
          UpDepth,     \* lines the stream and rbuf hold
          DownDepth,   \* lines the stream and the client's reader hold
          MaxCalls,    \* bound: calls of the library
          MaxPushes    \* bound: pushes of the daemon

Dot == "."

\* Lines: a character is the dot, any other, or a word.
Line == Seq({Dot, "x", "name", "SUBSCRIBE", "LIST", "QUIT", "PUBLISH", "BAD", "rest"})

ASSUME ExchangeDepths == {UpDepth, DownDepth} \subseteq Nat \ {0}
ASSUME ExchangeLimits == {MaxCommand, MaxBodyLine, MaxMessage} \subseteq Nat
ASSUME ExchangeBodies == Body \union PushBody \subseteq Seq(Line)

VARIABLES
    phase,   \* what the library is doing
    call,    \* the number of the current call
    body,    \* the body of the current PUBLISH
    toSend,  \* lines the library has still to write
    block,   \* the multi-line block being read: its head, and its lines so far
    pending, \* Client.pending
    up, down,
    mode,    \* the daemon: serving commands, reading a body, or done
    lines,   \* read_body's lines
    total,   \* read_body's total
    out,     \* lines the daemon has still to write
    result,  \* history: what the last call returned, and for which it was
    events,  \* history: events the library returned
    pushed,  \* history: events the daemon wrote
    posted,  \* history: the last message published, and by which call
    answered,\* history: calls with a final response written
    astray   \* history: why the sides may be out of step: an over-long body line, a torn push

clientVars == <<phase, call, body, toSend, block, pending>>
daemonVars == <<mode, lines, total, out>>
histVars == <<result, events, pushed, posted, answered, astray>>
vars == <<clientVars, up, down, daemonVars, histVars>>

Terminator == <<Dot>>

\* A command line stands for the commands answered alike; a garbled one does
\* not parse, or is longer than MaxCommand (the caller gave such a type name).
Command == {<<"SUBSCRIBE">>, <<"LIST">>, <<"QUIT">>, <<"PUBLISH">>}
Garbled == {<<"BAD">>, [i \in 1 .. MaxCommand + 1 |-> "BAD"]}

NoBlock == [code |-> "none", text |-> <<>>, call |-> 0]
NoResult == [call |-> 0, for |-> 0, code |-> "none"]

\* A line on its way up, with the call it belongs to; one on its way down is a
\* status line, with the call it answers, or a line of a block.
Up(text) == [text |-> text, call |-> call]
Status(code, n) == [code |-> code, text |-> <<>>, call |-> n]
Text(text) == [code |-> "text", text |-> text, call |-> 0]

\* Mutant: 102 is taken for a reply.
DeliveriesOnly == {"101"}

\* status::is_async
Async == {"101", "102"}

\* Mutant: 211 is expected to have a block.
BlockAfterSubscribe == {"215", "211"}

\* The replies that a block follows.
BlockCodes == {"215"}

-----------------------------------------------------------------------------
(* Framing.                                                                *)

\* Mutant: lines are sent as they are.
Unstuffed(line) == line

\* stuff_line
Stuff(line) == IF line # <<>> /\ line[1] = Dot THEN <<Dot>> \o line ELSE line

\* unstuff_line
Unstuff(line) == IF line # <<>> /\ line[1] = Dot THEN Tail(line) ELSE line

\* Mutant: an empty body is not terminated.
TerminatedIfAny(b) == [i \in DOMAIN b |-> Stuff(b[i])] \o
                      (IF b = <<>> THEN <<>> ELSE <<Terminator>>)

\* encode_body, as lines.
Encode(b) == [i \in DOMAIN b |-> Stuff(b[i])] \o <<Terminator>>

\* What a line counts for in the size of a message.
Octets(line) == Len(line) + 1

Size(b) ==
    LET upTo[i \in 0 .. Len(b)] == IF i = 0 THEN 0 ELSE upTo[i - 1] + Octets(b[i])
    IN  upTo[Len(b)]

-----------------------------------------------------------------------------
Init ==
    /\ phase = "idle" /\ call = 0 /\ body = <<>> /\ toSend = <<>>
    /\ block = NoBlock /\ pending = <<>>
    /\ up = <<>> /\ down = <<>>
    /\ mode = "serve" /\ lines = <<>> /\ total = 0 /\ out = <<>>
    /\ result = NoResult /\ events = <<>> /\ pushed = <<>>
    /\ posted = [call |-> 0, body |-> <<>>] /\ answered = {} /\ astray = {}

-----------------------------------------------------------------------------
(* The library.                                                            *)

\* Bound: a client that has torn a push is followed no further than its daemon
\* goes on without it.
Followed == "torn" \notin astray

\* A method that sends the command line v and then reads its response; b is the
\* body if it is PUBLISH.
Call(v, b) ==
    /\ phase = "idle" /\ Followed
    /\ call < MaxCalls
    /\ call' = call + 1
    /\ body' = b
    /\ toSend' = <<v>>
    /\ phase' = IF v = <<"PUBLISH">> THEN "invite" ELSE "reply"
    /\ UNCHANGED <<block, pending, up, down, daemonVars, histVars>>

\* next_event: a buffered push is returned, or the stream is read.
NextEvent ==
    /\ phase = "idle" /\ Followed
    /\ IF pending # <<>>
       THEN /\ events' = Append(events, Head(pending))
            /\ pending' = Tail(pending)
            /\ UNCHANGED phase
       ELSE /\ phase' = "event"
            /\ UNCHANGED <<events, pending>>
    /\ UNCHANGED <<call, body, toSend, block, up, down, daemonVars, result, pushed,
                   posted, answered, astray>>

\* write_all: a line goes out when the stream takes it.
Send ==
    /\ toSend # <<>>
    /\ Len(up) < UpDepth
    /\ up' = Append(up, Up(Head(toSend)))
    /\ toSend' = Tail(toSend)
    /\ UNCHANGED <<phase, call, body, block, pending, down, daemonVars, histVars>>

\* Mutant: a push that comes while a reply is awaited is thrown away.
Discard(ev) == UNCHANGED pending

\* read_response buffers a push.
Buffer(ev) == pending' = Append(pending, ev)

\* A push is complete: next_event returns it, read_response buffers it.
Push(ev) ==
    IF phase = "event"
    THEN /\ events' = Append(events, ev)
         /\ phase' = "idle"
         /\ UNCHANGED pending
    ELSE Buffer(ev) /\ UNCHANGED <<events, phase>>

\* The call returns, with the reply to command n.
Return(code, n) ==
    /\ result' = [call |-> call, for |-> n, code |-> code]
    /\ phase' = "idle"

\* One line is read: in a block, by read_block; otherwise by read_response or
\* next_event, which look at its code.
ReadBlock(item) ==
    LET whole == [code |-> block.code, text |-> block.text]
    IN  /\ block # NoBlock
        /\ UNCHANGED <<body, toSend>>
        /\ IF item.text # Terminator
           THEN /\ block' = [block EXCEPT !.text = Append(@, Unstuff(item.text))]
                /\ UNCHANGED <<phase, pending, result, events>>
           ELSE /\ block' = NoBlock
                /\ IF block.code = "101"
                   THEN Push(whole) /\ UNCHANGED result
                   ELSE Return(block.code, block.call) /\ UNCHANGED <<pending, events>>

ReadPush(item) ==
    /\ block = NoBlock
    /\ item.code \in Async
    /\ IF item.code = "101"
       THEN /\ block' = item
            /\ UNCHANGED <<phase, pending, events>>
       ELSE /\ Push([code |-> item.code, text |-> <<>>])
            /\ UNCHANGED block
    /\ UNCHANGED <<body, toSend, result>>

ReadStatus(item) ==
    /\ block = NoBlock
    /\ item.code \notin Async
    /\ UNCHANGED <<body, pending, events>>
    /\ CASE item.code = "text" \/ phase = "event" ->   \* ClientError::Protocol
              Return("protocol", item.call) /\ UNCHANGED <<block, toSend>>
         [] phase = "invite" /\ item.code = "354" ->
              /\ toSend' = Encode(body)
              /\ phase' = "accept"
              /\ UNCHANGED <<block, result>>
         [] item.code \in BlockCodes /\ phase # "event" ->
              /\ block' = item
              /\ UNCHANGED <<phase, toSend, result>>
         [] OTHER -> Return(item.code, item.call) /\ UNCHANGED <<block, toSend>>

ReadLine ==
    /\ phase # "idle"
    /\ toSend = <<>>
    /\ down # <<>>
    /\ down' = Tail(down)
    /\ ReadBlock(Head(down)) \/ ReadPush(Head(down)) \/ ReadStatus(Head(down))
    /\ UNCHANGED <<call, up, daemonVars, pushed, posted, answered, astray>>

\* The daemon has closed the stream: ClientError::Closed, or an error of write.
ReadClosed ==
    /\ phase # "idle"
    /\ mode = "done"
    /\ toSend # <<>> \/ (out = <<>> /\ down = <<>>)
    /\ toSend' = <<>>
    /\ block' = NoBlock
    /\ Return("closed", call)
    /\ UNCHANGED <<call, body, pending, up, down, daemonVars, events, pushed, posted,
                   answered, astray>>

\* What is left of the line the library was reading: it is unread, or its rest
\* is a line that means nothing.
Leftover ==
    \/ UNCHANGED down
    \/ down # <<>> /\ down' = [down EXCEPT ![1] = Text(<<"rest">>)]

\* The caller drops a next_event that waits, as a timeout or a select! around it
\* does.  What it had read of a push goes with it.
DropNextEvent ==
    /\ phase = "event"
    /\ phase' = "idle"
    /\ block' = NoBlock
    /\ Leftover
    /\ astray' = IF block # NoBlock \/ down' # down THEN astray \union {"torn"} ELSE astray
    /\ UNCHANGED <<call, body, toSend, pending, up, daemonVars, result, events, pushed,
                   posted, answered>>

-----------------------------------------------------------------------------
(* The daemon.  A write that the stream does not take holds everything up. *)

Flush ==
    /\ out # <<>>
    /\ Len(down) < DownDepth
    /\ down' = Append(down, Head(out))
    /\ out' = Tail(out)
    /\ UNCHANGED <<clientVars, up, mode, lines, total, histVars>>

\* The final response to a line of the client's: the line's call is answered.
Reply(n, answer) ==
    /\ out' = answer
    /\ answered' = answered \union {n}

\* A queued message, or a drop notice, is written: between commands alone, for
\* the select! is not reached while one is at work.
Deliver ==
    /\ out = <<>> /\ mode = "serve"
    /\ Len(pushed) < MaxPushes
    /\ \/ \E b \in PushBody :
            /\ out' = <<Status("101", 0)>> \o
                      [i \in DOMAIN Encode(b) |-> Text(Encode(b)[i])]
            /\ pushed' = Append(pushed, [code |-> "101", text |-> b])
       \/ /\ out' = <<Status("102", 0)>>
          /\ pushed' = Append(pushed, [code |-> "102", text |-> <<>>])
    /\ UNCHANGED <<clientVars, up, down, mode, lines, total, result, events, posted,
                   answered, astray>>

\* take_line in serve finds the command v.
TakeCommand(v) ==
    /\ out = <<>> /\ mode = "serve"
    /\ up # <<>>
    /\ Head(up).text = <<v>>
    /\ up' = Tail(up)
    /\ UNCHANGED <<clientVars, down, lines, result, events, pushed, posted, astray>>

\* REGISTER, SUBSCRIBE and UNSUBSCRIBE are answered with one line.
Simple ==
    /\ TakeCommand("SUBSCRIBE")
    /\ Reply(Head(up).call, <<Status("211", Head(up).call)>>)
    /\ UNCHANGED <<mode, total>>

\* LIST TYPES, CAPABILITIES and HELP are answered with a line and a block.
List ==
    /\ TakeCommand("LIST")
    /\ Reply(Head(up).call, <<Status("215", Head(up).call), Text(<<"name">>), Text(Terminator)>>)
    /\ UNCHANGED <<mode, total>>

Quit ==
    /\ TakeCommand("QUIT")
    /\ Reply(Head(up).call, <<Status("221", Head(up).call)>>)
    /\ mode' = "done"
    /\ UNCHANGED total

\* handle_publish up to the body: refused, or invited.
PublishRefused ==
    /\ TakeCommand("PUBLISH")
    /\ Reply(Head(up).call, <<Status("441", Head(up).call)>>)
    /\ UNCHANGED <<mode, total>>

PublishInvited ==
    /\ TakeCommand("PUBLISH")
    /\ out' = <<Status("354", Head(up).call)>>
    /\ mode' = "body"
    /\ total' = 0
    /\ UNCHANGED answered

\* A line that is no command, and one that is too long: the daemon closes.
BadCommand ==
    /\ out = <<>> /\ mode = "serve"
    /\ up # <<>>
    /\ Head(up).text \notin Command
    /\ up' = Tail(up)
    /\ Reply(Head(up).call, <<Status("500", Head(up).call)>>)
    /\ mode' = IF Len(Head(up).text) > MaxCommand THEN "done" ELSE mode
    /\ UNCHANGED <<clientVars, down, lines, total, result, events, pushed, posted,
                   astray>>

\* read_body is about to look at the next line.
TakeBodyLine ==
    /\ out = <<>> /\ mode = "body"
    /\ up # <<>>
    /\ UNCHANGED <<clientVars, down, result, events, pushed>>

\* Mutant: a message of exactly max_message_bytes is refused.
FitsStrictly(n) == n < MaxMessage

\* Whether a body of n octets is within limits.max_message_bytes.
Fits(n) == n <= MaxMessage

\* A line within max_body_line_bytes; once the body is too large, lines are
\* read and thrown away.
BodyLine ==
    /\ TakeBodyLine
    /\ Head(up).text # Terminator
    /\ Len(Head(up).text) <= MaxBodyLine
    /\ up' = Tail(up)
    /\ total' = total + Octets(Unstuff(Head(up).text))
    /\ lines' = IF Fits(total') THEN Append(lines, Unstuff(Head(up).text)) ELSE lines
    /\ UNCHANGED <<mode, out, posted, answered, astray>>

\* The terminator: 452 if the body was too large, and otherwise publish_local's
\* verdict, which may by now be a refusal.
BodyEnd ==
    /\ TakeBodyLine
    /\ Head(up).text = Terminator
    /\ up' = Tail(up)
    /\ mode' = "serve"
    /\ \/ /\ ~ Fits(total)
          /\ Reply(Head(up).call, <<Status("452", Head(up).call)>>)
          /\ UNCHANGED posted
       \/ /\ Fits(total)
          /\ Reply(Head(up).call, <<Status("250", Head(up).call)>>)
          /\ posted' = [call |-> Head(up).call, body |-> lines]
       \/ /\ Fits(total)
          /\ Reply(Head(up).call, <<Status("441", Head(up).call)>>)
          /\ UNCHANGED posted
    /\ lines' = <<>>
    /\ UNCHANGED <<total, astray>>

\* A line over max_body_line_bytes ends the body at once.  take_line removes
\* the line from rbuf if its end has arrived and leaves it there if not.
BodyLineTooLong ==
    /\ TakeBodyLine
    /\ Len(Head(up).text) > MaxBodyLine
    /\ up' \in {up, Tail(up)}
    /\ mode' = "serve"
    /\ Reply(Head(up).call, <<Status("452", Head(up).call)>>)
    /\ lines' = <<>>
    /\ astray' = astray \union {"overlong"}
    /\ UNCHANGED <<total, posted>>

-----------------------------------------------------------------------------
Daemon == \/ Flush \/ Simple \/ List \/ Quit \/ PublishRefused \/ PublishInvited
          \/ BadCommand \/ BodyLine \/ BodyEnd \/ BodyLineTooLong

Next ==
    \/ NextEvent \/ DropNextEvent \/ ReadLine \/ ReadClosed \/ Send \/ Deliver \/ Daemon
    \/ \E v \in (Command \ {<<"PUBLISH">>}) \union Garbled : Call(v, <<>>)
    \/ \E b \in Body : Call(<<"PUBLISH">>, b)

Spec == Init /\ [][Next]_vars

\* Both sides run when they can; no call need be made and nothing delivered.
Fairness == WF_vars(ReadLine \/ ReadClosed) /\ WF_vars(Send) /\ WF_vars(Daemon)

FairSpec == Spec /\ Fairness

-----------------------------------------------------------------------------
(* Properties.                                                             *)

Code == {"none", "text", "protocol", "closed", "101", "102", "211", "215", "221", "250",
         "354", "441", "452", "500"}
Item == [code : Code, text : Line, call : Nat]
Event == [code : Async, text : Seq(Line)]

\* Every variable keeps its shape.
TypeOK ==
    /\ phase \in {"idle", "reply", "invite", "accept", "event"}
    /\ {call, total} \subseteq Nat
    /\ body \in Seq(Line)
    /\ toSend \in Seq(Line) /\ lines \in Seq(Line)
    /\ up \in Seq([text : Line, call : Nat]) /\ Len(up) <= UpDepth
    /\ down \in Seq(Item) /\ Len(down) <= DownDepth /\ out \in Seq(Item)
    /\ block.code \in {"none", "101", "215"} /\ block.text \in Seq(Line)
    /\ {pending, events, pushed} \subseteq Seq(Event)
    /\ mode \in {"serve", "body", "done"}
    /\ result \in [call : Nat, for : Nat, code : Code]
    /\ posted \in [call : Nat, body : Seq(Line)]
    /\ answered \in SUBSET Nat /\ astray \subseteq {"overlong", "torn"}

\* A call that returns returns the reply to its own command, whatever pushes
\* came before it, whatever became of earlier calls, and though a next_event that
\* waited was dropped.  An over-long body line is the exception, and a next_event
\* dropped within a push, whose rest the next call would take for its reply.
ReplyMatches == astray # {} \/ result.for = result.call

\* The library gives its caller the pushes the daemon wrote, whole, each once
\* and in order, those first that came while a call was under way, until a
\* next_event is dropped when it has read part of one.
EventsInOrder == "torn" \in astray \/ IsPrefix(events \o pending, pushed)

\* What is published is what the caller gave: stuffing and unstuffing, and the
\* search for the terminator, lose no line and no dot.  After an over-long body
\* line the two sides may be out of step, and a body hold a later command.
BodyIntact == astray = {} /\ posted.call = call => posted.body = body

\* The daemon judges the size of the body as the caller gave it.
SizeJudged ==
    result.call = call /\ phase = "idle" /\ astray = {} =>
        /\ result.code = "452" => Size(body) > MaxMessage
        /\ result.code = "250" => Size(body) <= MaxMessage

\* A call that is made returns, although neither side reads while it writes and
\* the daemon may have pushes to write, as long as the two sides are in step.
CallsReturn == \A n \in 1 .. MaxCalls : call = n ~> result.call = n \/ astray # {}

\* The documentation: every command yields exactly one final response line.
OneReplyEach ==
    [][\A n \in answered : out = <<>> /\ out' # <<>> => \A i \in DOMAIN out' :
            out'[i].call # n]_vars
=============================================================================
