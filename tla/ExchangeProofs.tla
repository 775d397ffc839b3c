--------------------------- MODULE ExchangeProofs ---------------------------
(***************************************************************************)
(* What the client and its daemon keep in step, for every set of bodies,   *)
(* every limit and every depth of the stream: proofs about Exchange.       *)
(***************************************************************************)
EXTENDS Exchange, SequenceLemmas, TLAPS

-----------------------------------------------------------------------------
(* The inductive invariants.                                               *)

\* What the daemon writes: only the line of a block says more than its code.
Frame == {item \in Item : item.code # "text" => item.text = <<>>}

\* What the library has still to read.
Coming == down \o out

\* The texts of the lines the daemon has still to read.
Unread == [i \in 1 .. Len(up) + Len(toSend) |->
             IF i <= Len(up) THEN up[i].text ELSE toSend[i - Len(up)]]

TypeInv ==
    /\ TypeOK
    /\ down \in Seq(Frame) /\ out \in Seq(Frame)
    /\ block \in [code : {"none", "101", "215"}, text : Seq(Line), call : Nat]
    /\ block.code = "none" => block = NoBlock

\* A line of a block follows.
Opens(item) == item.code \in {"101", "215"} \/ (item.code = "text" /\ item.text # Terminator)

\* The i-th line of s leaves a block open; b says whether one is before s.
OpenAfter(b, s, i) == IF i = 0 THEN b ELSE Opens(s[i])

\* No block is cut short.
Whole(b, s) == \A i \in 0 .. Len(s) : OpenAfter(b, s, i) => i < Len(s) /\ s[i + 1].code = "text"

\* No line of a block is on its own.
Proper(b, s) == \A i \in 1 .. Len(s) : s[i].code = "text" => OpenAfter(b, s, i - 1)

\* The library at work on a block is the library that reads the lines of it.
BlocksWhole == "torn" \in astray \/ Whole(block # NoBlock, Coming)

\* What a reader of a push has found so far, and the events it has read.
Progress == [open : BOOLEAN, text : Seq(Line), got : Seq(Event)]
Done(ev) == [open |-> FALSE, text |-> <<>>, got |-> ev]

\* The progress that one more line makes.
After(st, item) ==
    IF st.open
    THEN IF item.text # Terminator
         THEN [st EXCEPT !.text = Append(@, Unstuff(item.text))]
         ELSE Done(Append(st.got, [code |-> "101", text |-> st.text]))
    ELSE IF item.code = "101" THEN [open |-> TRUE, text |-> <<>>, got |-> st.got]
    ELSE IF item.code = "102" THEN Done(Append(st.got, [code |-> "102", text |-> <<>>]))
    ELSE st

Parses(p, st, s) ==
    /\ p \in [0 .. Len(s) -> Progress]
    /\ p[0] = st
    /\ \A i \in 1 .. Len(s) : p[i] = After(p[i - 1], s[i])

\* Who reads s to its end has the events ev, and at no time any other.
Yields(st, s, ev) ==
    \E p \in [0 .. Len(s) -> Progress] :
        /\ Parses(p, st, s)
        /\ p[Len(s)] = Done(ev)
        /\ \A i \in 0 .. Len(s) : IsPrefix(p[i].got, ev)

\* The progress of the library.
Now == [open |-> block.code = "101",
        text |-> IF block.code = "101" THEN block.text ELSE <<>>,
        got |-> events \o pending]

\* What the library has, is at work on and is sent is what the daemon wrote.
EventsKept == "torn" \in astray \/ Yields(Now, Coming, pushed)

\* A next_event reads the stream only when no push is buffered, and a method
\* has left no block when it returns or writes.
LibraryInv ==
    /\ phase = "event" => pending = <<>>
    /\ phase = "idle" \/ toSend # <<>> => block = NoBlock
    /\ phase \in {"idle", "event"} => toSend = <<>>

EventInv == TypeInv /\ LibraryInv /\ BlocksWhole /\ EventsKept

-----------------------------------------------------------------------------
\* The lines of s that answer a command.
Replies(s) == {i \in 1 .. Len(s) : s[i].code \notin Async \union {"text"}}

\* The reply to the current call is on its way, or being read.
Answering == Replies(Coming) # {} \/ block.code = "215"

\* There is one reply at most, it is the current call's, and it is an invitation
\* if the daemon waits for a body.
RepliesOwn ==
    /\ \A i \in Replies(Coming) :
          /\ Coming[i].call = call
          /\ Coming[i].code = "354" <=> mode = "body"
          /\ block.code # "215"
          /\ \A j \in Replies(Coming) : i = j
    /\ block.code = "215" => block.call = call /\ mode # "body"

\* The lines the daemon will look at are of the current call.
LinesOwn == mode # "done" => \A i \in DOMAIN up : up[i].call = call

\* The daemon has read the first k lines of the body.
BodyRead(k) ==
    /\ Unread = SubSeq(Encode(body), k + 1, Len(body) + 1)
    /\ total = Size(SubSeq(body, 1, k))
    /\ Fits(total) => lines = SubSeq(body, 1, k)

\* Where the two sides are.
Stages ==
    /\ Answering => phase \in {"reply", "invite", "accept"} /\ Unread = <<>>
    /\ mode = "serve" /\ ~ Answering =>
          \/ phase \in {"idle", "event"} /\ Unread = <<>>
          \/ phase \in {"reply", "invite"} /\ Len(Unread) = 1 /\
               (phase = "reply" => Unread[1] # <<"PUBLISH">>)
    /\ mode = "body" =>
          \/ phase = "invite" /\ Answering /\ lines = <<>> /\ total = 0
          \/ phase = "accept" /\ ~ Answering /\ \E k \in 0 .. Len(body) : BodyRead(k)

\* Client and daemon are in step, as long as nothing has led them astray.
Agree ==
    /\ Proper(block # NoBlock, Coming)
    /\ RepliesOwn
    /\ LinesOwn
    /\ Stages

InStep == astray = {} => Agree

\* What lies behind: no line is of a later call, no body has lines before it is
\* read.
PastCalls ==
    /\ \A i \in DOMAIN up : up[i].call <= call
    /\ posted.call <= call
    /\ mode # "body" => lines = <<>>

StepInv == EventInv /\ InStep /\ PastCalls /\ ReplyMatches /\ BodyIntact

\* What a reply says of the size of body b.
Verdict(code, b) ==
    /\ code = "452" => Size(b) > MaxMessage
    /\ code = "250" => Size(b) <= MaxMessage

\* It is true of the reply on its way and of the one that was returned.
Verdicts ==
    /\ result.call <= call
    /\ astray = {} =>
          /\ \A i \in Replies(Coming) : Verdict(Coming[i].code, body)
          /\ result.call = call => Verdict(result.code, body)

VerdictInv == StepInv /\ Verdicts

-----------------------------------------------------------------------------
(* The framing.                                                            *)

\* stuff_line never makes a terminator, and unstuff_line undoes it.
LEMMA StuffLine ==
    ASSUME NEW line \in Line
    PROVE  /\ Stuff(line) \in Line
           /\ Stuff(line) # Terminator
           /\ Unstuff(Stuff(line)) = line
<1> DEFINE stuffed == <<Dot>> \o line
           C == {Dot, "x", "name", "SUBSCRIBE", "LIST", "QUIT", "PUBLISH", "BAD", "rest"}
<1>1. line \in Seq(C) /\ <<Dot>> \in Seq(C) /\ Len(<<Dot>>) = 1 /\ <<Dot>>[1] = Dot
  BY DEF Line
<1>2. Len(line) \in Nat /\ (line # <<>> => Len(line) > 0)
  BY <1>1, EmptySeq, LenProperties
<1> HIDE DEF C
<1>3. /\ stuffed \in Seq(C)
      /\ Len(stuffed) = 1 + Len(line)
      /\ \A i \in 1 .. 1 + Len(line) : stuffed[i] = IF i <= 1 THEN <<Dot>>[i] ELSE line[i - 1]
  BY <1>1, ConcatProperties
<1>4. Tail(stuffed) = line
  <2>1. stuffed # <<>>
    BY <1>2, <1>3, EmptySeq
  <2>2. /\ Tail(stuffed) \in Seq(C)
        /\ Len(Tail(stuffed)) = Len(stuffed) - 1
        /\ \A i \in 1 .. Len(Tail(stuffed)) : Tail(stuffed)[i] = stuffed[i + 1]
    BY <1>3, <2>1, HeadTailProperties
  <2>3. ASSUME NEW i \in 1 .. Len(line) PROVE stuffed[i + 1] = line[i]
    BY <1>2, <1>3, <2>3
  <2>4. Len(Tail(stuffed)) = Len(line)
    BY <1>2, <1>3, <2>2
  <2> HIDE DEF stuffed
  <2> QED
    BY <1>1, <2>2, <2>3, <2>4, SeqEqual
<1>5. CASE line = <<>>
  BY <1>5 DEF Stuff, Unstuff, Terminator, Line
<1>6. CASE line # <<>> /\ line[1] = Dot
  <2>1. Stuff(line) = stuffed
    BY <1>6 DEF Stuff
  <2>2. stuffed[1] = Dot /\ stuffed # <<>> /\ stuffed # Terminator
    BY <1>1, <1>2, <1>3, <1>6, EmptySeq DEF Terminator
  <2> QED
    BY <1>3, <1>4, <2>1, <2>2 DEF Unstuff, Line, C
<1>7. CASE line # <<>> /\ line[1] # Dot
  BY <1>7 DEF Stuff, Unstuff, Terminator
<1> QED
  BY <1>5, <1>6, <1>7

\* What unstuff_line leaves is a line.
LEMMA UnstuffLine == ASSUME NEW line \in Line PROVE Unstuff(line) \in Line
  BY HeadTailProperties DEF Unstuff, Line

LEMMA TerminatorLine == Terminator \in Line /\ Terminator # <<>>
  BY DEF Terminator, Line

\* encode_body.
LEMMA EncodeBody ==
    ASSUME NEW b \in Seq(Line)
    PROVE  /\ Encode(b) \in Seq(Line)
           /\ Len(Encode(b)) = Len(b) + 1
           /\ \A i \in 1 .. Len(b) : Encode(b)[i] = Stuff(b[i])
           /\ Encode(b)[Len(b) + 1] = Terminator
<1> DEFINE stuffed == [i \in DOMAIN b |-> Stuff(b[i])]
<1>1. Len(b) \in Nat /\ DOMAIN b = 1 .. Len(b) /\ \A i \in 1 .. Len(b) : b[i] \in Line
  BY LenProperties
<1>2. \A i \in 1 .. Len(b) : Stuff(b[i]) \in Line
  BY <1>1, StuffLine
<1>3. stuffed \in [1 .. Len(b) -> Line]
  BY <1>1, <1>2
<1>4. stuffed \in Seq(Line) /\ Len(stuffed) = Len(b)
  BY <1>1, <1>3
<1>5. /\ <<Terminator>> \in Seq(Line) /\ Len(<<Terminator>>) = 1
      /\ <<Terminator>>[1] = Terminator
  BY TerminatorLine
<1>6. Encode(b) = stuffed \o <<Terminator>>
  BY DEF Encode
<1>7. \A i \in 1 .. Len(b) : stuffed[i] = Stuff(b[i])
  BY <1>1
<1> HIDE DEF stuffed
<1>8. /\ Encode(b) \in Seq(Line)
      /\ Len(Encode(b)) = Len(b) + 1
      /\ \A i \in 1 .. Len(b) + 1 :
            Encode(b)[i] = IF i <= Len(b) THEN stuffed[i] ELSE <<Terminator>>[i - Len(b)]
  BY <1>4, <1>5, <1>6, ConcatProperties
<1> QED
  BY <1>1, <1>5, <1>7, <1>8

-----------------------------------------------------------------------------
(* The size of a body.                                                     *)

\* f[i] is the size of the first i lines of b.
Sums(b, f) == f = [i \in 0 .. Len(b) |-> IF i = 0 THEN 0 ELSE f[i - 1] + Octets(b[i])]

\* There is but one such f.
LEMMA SumsUnique ==
    ASSUME NEW b, Len(b) \in Nat, NEW f, NEW g, Sums(b, f), Sums(b, g)
    PROVE  f = g
<1> DEFINE T == {i \in 0 .. Len(b) : f[i] # g[i]}
<1>1. /\ DOMAIN f = 0 .. Len(b) /\ DOMAIN g = 0 .. Len(b)
      /\ f = [i \in 0 .. Len(b) |-> f[i]] /\ g = [i \in 0 .. Len(b) |-> g[i]]
      /\ \A i \in 0 .. Len(b) : /\ f[i] = IF i = 0 THEN 0 ELSE f[i - 1] + Octets(b[i])
                                /\ g[i] = IF i = 0 THEN 0 ELSE g[i - 1] + Octets(b[i])
  BY DEF Sums
<1>2. ASSUME NEW n \in T, \A m \in T : n <= m PROVE FALSE
  <2>1. n \in 0 .. Len(b) /\ n \in Nat /\ f[n] # g[n]
    OBVIOUS
  <2>2. n # 0
    BY <1>1, <2>1
  <2>3. n - 1 \in 0 .. Len(b) /\ ~ (n <= n - 1)
    BY <2>1, <2>2
  <2>4. f[n - 1] = g[n - 1]
    BY <1>2, <2>3
  <2> QED
    BY <1>1, <2>1, <2>2, <2>4
<1>3. T = {}
  <2>1. T \subseteq Nat
    OBVIOUS
  <2> HIDE DEF T
  <2> QED
    BY <1>2, <2>1, LeastNumber
<1>4. \A i \in 0 .. Len(b) : f[i] = g[i]
  BY <1>3
<1> QED
  BY <1>1, <1>4

LEMMA SizeOfSums ==
    ASSUME NEW b, Len(b) \in Nat, NEW f, Sums(b, f)
    PROVE  Size(b) = f[Len(b)]
<1>1. Sums(b, CHOOSE g : Sums(b, g))
  OBVIOUS
<1>2. (CHOOSE g : Sums(b, g)) = f
  BY <1>1, SumsUnique
<1>3. Size(b) = (CHOOSE g : Sums(b, g))[Len(b)]
  BY DEF Size, Sums
<1> QED
  BY <1>2, <1>3

\* One more line.
LEMMA SumsMore ==
    ASSUME NEW b \in Seq(Line), NEW line \in Line, NEW f, Sums(b, f)
    PROVE  \E g : Sums(Append(b, line), g) /\ g[Len(b) + 1] = f[Len(b)] + Octets(line)
<1> DEFINE n == Len(b)
           c == Append(b, line)
           g == [i \in 0 .. n + 1 |-> IF i = n + 1 THEN f[n] + Octets(line) ELSE f[i]]
<1>1. n \in Nat
  BY LenProperties
<1>2. Len(c) = n + 1 /\ c[n + 1] = line /\ \A i \in 1 .. n : c[i] = b[i]
  BY AppendProperties
<1>3. \A i \in 0 .. n : f[i] = IF i = 0 THEN 0 ELSE f[i - 1] + Octets(b[i])
  BY DEF Sums
<1>4. /\ g = [i \in 0 .. n + 1 |-> g[i]] /\ g[n + 1] = f[n] + Octets(line)
      /\ \A i \in 0 .. n : g[i] = f[i]
  BY <1>1
<1> HIDE DEF g, c, n
<1>5. ASSUME NEW i \in 0 .. n + 1 PROVE g[i] = IF i = 0 THEN 0 ELSE g[i - 1] + Octets(c[i])
  <2>1. CASE i = n + 1
    <3>1. i # 0 /\ i - 1 = n /\ n \in 0 .. n
      BY <1>1, <2>1
    <3> QED
      BY <1>2, <1>4, <2>1, <3>1
  <2>2. CASE i # n + 1
    <3>1. i \in 0 .. n /\ (i # 0 => i - 1 \in 0 .. n /\ i \in 1 .. n)
      BY <1>1, <2>2
    <3> QED
      BY <1>2, <1>3, <1>4, <3>1
  <2> QED
    BY <2>1, <2>2
<1>6. Sums(c, g)
  BY <1>2, <1>4, <1>5 DEF Sums
<1> QED
  BY <1>4, <1>6 DEF c, n

LEMMA SumsExist == ASSUME NEW b \in Seq(Line) PROVE \E f : Sums(b, f)
<1> DEFINE T == {n \in Nat : \E c \in Seq(Line) : Len(c) = n /\ ~ \E f : Sums(c, f)}
<1>1. ASSUME NEW n \in T, \A m \in T : n <= m PROVE FALSE
  <2>1. PICK c \in Seq(Line) : Len(c) = n /\ ~ \E f : Sums(c, f)
    OBVIOUS
  <2>2. CASE c = <<>>
    <3>1. Len(c) = 0
      BY <2>2
    <3>2. Sums(c, [i \in 0 .. 0 |-> 0])
      BY <3>1 DEF Sums
    <3> QED
      BY <2>1, <3>2
  <2>3. CASE c # <<>>
    <3>1. PICK d \in Seq(Line), line \in Line : c = Append(d, line)
      BY <2>3, SequenceEmptyOrAppend
    <3>2. Len(d) \in Nat /\ Len(c) = Len(d) + 1 /\ ~ (n <= Len(d))
      BY <2>1, <3>1, AppendProperties, LenProperties
    <3>3. Len(d) \notin T
      BY <1>1, <3>2
    <3>4. \E f : Sums(d, f)
      BY <3>2, <3>3
    <3> QED
      BY <2>1, <3>1, <3>4, SumsMore
  <2> QED
    BY <2>2, <2>3
<1>2. T = {}
  <2>1. T \subseteq Nat
    OBVIOUS
  <2> HIDE DEF T
  <2> QED
    BY <1>1, <2>1, LeastNumber
<1>3. Len(b) \in Nat
  BY LenProperties
<1> QED
  BY <1>2, <1>3

\* read_body counts a line at a time.
LEMMA SizeOfMore ==
    /\ Size(<<>>) = 0
    /\ \A b \in Seq(Line), line \in Line : Size(Append(b, line)) = Size(b) + Octets(line)
<1>1. Size(<<>>) = 0
  <2>1. Sums(<<>>, [i \in 0 .. 0 |-> 0]) /\ Len(<<>>) = 0 /\ [i \in 0 .. 0 |-> 0][0] = 0
    BY DEF Sums
  <2> QED
    BY <2>1, SizeOfSums
<1>2. ASSUME NEW b \in Seq(Line), NEW line \in Line
      PROVE  Size(Append(b, line)) = Size(b) + Octets(line)
  <2>1. PICK f : Sums(b, f)
    BY SumsExist
  <2>2. PICK g : Sums(Append(b, line), g) /\ g[Len(b) + 1] = f[Len(b)] + Octets(line)
    BY <2>1, SumsMore
  <2>3. Len(b) \in Nat /\ Len(Append(b, line)) = Len(b) + 1 /\ Len(Append(b, line)) \in Nat
    BY AppendProperties, LenProperties
  <2>4. Size(b) = f[Len(b)] /\ Size(Append(b, line)) = g[Len(b) + 1]
    BY <2>1, <2>2, <2>3, SizeOfSums
  <2> QED
    BY <2>2, <2>4
<1> QED
  BY <1>1, <1>2

-----------------------------------------------------------------------------
(* Type correctness.                                                       *)

UpLine == [text : Line, call : Nat]
Block == [code : {"none", "101", "215"}, text : Seq(Line), call : Nat]

LEMMA EmptyLine == <<>> \in Line /\ <<>> \in Seq(Line)
  BY DEF Line

LEMMA StatusFrame == ASSUME NEW code \in Code \ {"text"}, NEW n \in Nat PROVE Status(code, n) \in Frame
  BY EmptyLine DEF Status, Frame, Item

LEMMA TextFrame == ASSUME NEW line \in Line PROVE Text(line) \in Frame
  BY DEF Text, Frame, Item, Code

\* A stream of the daemon's lines is a stream of items.
LEMMA FramesAreItems == ASSUME NEW s \in Seq(Frame) PROVE s \in Seq(Item)
<1>1. Frame \subseteq Item
  BY DEF Frame
<1> QED
  BY <1>1, SeqMonotonic

\* An answer of one line.
LEMMA StatusLine ==
    ASSUME NEW code \in Code \ {"text"}, NEW n \in Nat
    PROVE  /\ <<Status(code, n)>> \in Seq(Frame)
           /\ Len(<<Status(code, n)>>) = 1
           /\ <<Status(code, n)>>[1] = Status(code, n)
<1>1. Status(code, n) \in Frame
  BY StatusFrame
<1> HIDE DEF Status
<1> QED
  BY <1>1

\* A delivery: its status line and its body.
LEMMA DeliveryFrames ==
    ASSUME NEW b \in Seq(Line)
    PROVE  LET frames == <<Status("101", 0)>> \o [i \in DOMAIN Encode(b) |-> Text(Encode(b)[i])]
           IN  /\ frames \in Seq(Frame)
               /\ Len(frames) = Len(b) + 2
               /\ frames[1] = Status("101", 0)
               /\ \A i \in 1 .. Len(b) : frames[i + 1] = Text(Stuff(b[i]))
               /\ frames[Len(b) + 2] = Text(Terminator)
<1> DEFINE texts == [i \in DOMAIN Encode(b) |-> Text(Encode(b)[i])]
           head == <<Status("101", 0)>>
<1>1. /\ Encode(b) \in Seq(Line) /\ Len(Encode(b)) = Len(b) + 1 /\ Len(b) \in Nat
      /\ DOMAIN Encode(b) = 1 .. Len(b) + 1
      /\ \A i \in 1 .. Len(b) + 1 : Encode(b)[i] \in Line
  BY EncodeBody, LenProperties
<1>2. texts \in [1 .. Len(b) + 1 -> Frame]
  BY <1>1, TextFrame
<1>3. texts \in Seq(Frame) /\ Len(texts) = Len(b) + 1
  BY <1>1, <1>2
<1>4. \A i \in 1 .. Len(b) + 1 : texts[i] = Text(Encode(b)[i])
  BY <1>1
<1>5. head \in Seq(Frame) /\ Len(head) = 1 /\ head[1] = Status("101", 0)
  BY StatusLine DEF Code
<1> HIDE DEF texts, head
<1>6. /\ head \o texts \in Seq(Frame)
      /\ Len(head \o texts) = 1 + (Len(b) + 1)
      /\ \A i \in 1 .. 1 + (Len(b) + 1) :
            (head \o texts)[i] = IF i <= 1 THEN head[i] ELSE texts[i - 1]
  <2>1. /\ head \o texts \in Seq(Frame)
        /\ Len(head \o texts) = Len(head) + Len(texts)
        /\ \A i \in 1 .. Len(head) + Len(texts) :
              (head \o texts)[i] = IF i <= Len(head) THEN head[i] ELSE texts[i - Len(head)]
    BY <1>3, <1>5, ConcatProperties
  <2> QED
    BY <1>3, <1>5, <2>1
<1>7. ASSUME NEW i \in 1 .. Len(b) + 1 PROVE (head \o texts)[i + 1] = Text(Encode(b)[i])
  <2>1. (head \o texts)[i + 1] = texts[i + 1 - 1] /\ i + 1 - 1 = i
    BY <1>1, <1>6
  <2> QED
    BY <1>4, <2>1
<1>8. (head \o texts)[1] = Status("101", 0) /\ Len(head \o texts) = Len(b) + 2
  BY <1>1, <1>5, <1>6
<1>9. (head \o texts)[Len(b) + 2] = Text(Terminator)
  <2>1. Len(b) + 1 \in 1 .. Len(b) + 1 /\ Len(b) + 2 = (Len(b) + 1) + 1
    BY <1>1
  <2> QED
    BY <1>7, <2>1, EncodeBody
<1>10. \A i \in 1 .. Len(b) : (head \o texts)[i + 1] = Text(Stuff(b[i]))
  <2>1. \A i \in 1 .. Len(b) : i \in 1 .. Len(b) + 1 /\ Encode(b)[i] = Stuff(b[i])
    BY <1>1, EncodeBody
  <2> QED
    BY <1>7, <2>1
<1> QED
  BY <1>6, <1>8, <1>9, <1>10 DEF head, texts

\* The variables by the side that has them.
ClientOK ==
    /\ phase \in {"idle", "reply", "invite", "accept", "event"} /\ call \in Nat
    /\ body \in Seq(Line) /\ toSend \in Seq(Line)
    /\ block \in Block /\ (block.code = "none" => block = NoBlock)
    /\ pending \in Seq(Event)

StreamOK ==
    /\ up \in Seq(UpLine) /\ Len(up) <= UpDepth
    /\ down \in Seq(Frame) /\ Len(down) <= DownDepth

DaemonOK ==
    /\ mode \in {"serve", "body", "done"} /\ total \in Nat
    /\ lines \in Seq(Line) /\ out \in Seq(Frame)

HistoryOK ==
    /\ result \in [call : Nat, for : Nat, code : Code]
    /\ events \in Seq(Event) /\ pushed \in Seq(Event)
    /\ posted \in [call : Nat, body : Seq(Line)]
    /\ answered \in SUBSET Nat /\ astray \subseteq {"overlong", "torn"}

LEMMA TypeParts == TypeInv <=> ClientOK /\ StreamOK /\ DaemonOK /\ HistoryOK
<1>1. TypeInv => ClientOK /\ StreamOK /\ DaemonOK /\ HistoryOK
  BY DEF TypeInv, TypeOK, ClientOK, StreamOK, DaemonOK, HistoryOK, Block, UpLine
<1>2. ASSUME ClientOK, StreamOK, DaemonOK, HistoryOK PROVE TypeInv
  <2>1. down \in Seq(Item) /\ out \in Seq(Item)
    BY <1>2, FramesAreItems DEF StreamOK, DaemonOK
  <2> QED
    BY <1>2, <2>1
    DEF TypeInv, TypeOK, ClientOK, StreamOK, DaemonOK, HistoryOK, Block, UpLine
<1> QED
  BY <1>1, <1>2

LEMMA NextTypeParts == ClientOK' /\ StreamOK' /\ DaemonOK' /\ HistoryOK' => TypeInv'
  BY TypeParts, PTL

LEMMA TypeInit == Init => TypeInv
<1> SUFFICES ASSUME Init PROVE TypeInv
  OBVIOUS
<1>1. ClientOK
  BY EmptyLine DEF Init, ClientOK, Block, NoBlock
<1>2. StreamOK
  BY ExchangeDepths DEF Init, StreamOK
<1>3. DaemonOK
  BY DEF Init, DaemonOK
<1>4. HistoryOK
  BY EmptyLine DEF Init, HistoryOK, NoResult, Code
<1> QED
  BY <1>1, <1>2, <1>3, <1>4, TypeParts

\* The first line of a stream, and the rest of it.
LEMMA FirstLine ==
    ASSUME NEW S, NEW s \in Seq(S), s # <<>>
    PROVE  /\ Head(s) \in S /\ Head(s) = s[1] /\ Tail(s) \in Seq(S)
           /\ Len(s) \in Nat \ {0} /\ Len(Tail(s)) = Len(s) - 1
           /\ \A i \in 1 .. Len(s) - 1 : Tail(s)[i] = s[i + 1]
  BY HeadTailProperties, EmptySeq

\* A line the daemon takes.
LEMMA TakenLine ==
    ASSUME StreamOK, up # <<>>
    PROVE  /\ Head(up) \in UpLine /\ Head(up).text \in Line /\ Head(up).call \in Nat
           /\ Tail(up) \in Seq(UpLine) /\ Len(Tail(up)) <= UpDepth
<1>1. /\ Head(up) \in UpLine /\ Tail(up) \in Seq(UpLine)
      /\ Len(up) \in Nat \ {0} /\ Len(Tail(up)) = Len(up) - 1 /\ Len(up) <= UpDepth
  BY FirstLine DEF StreamOK
<1> QED
  BY <1>1, ExchangeDepths DEF UpLine

\* A line the library reads.
LEMMA ReadFrame ==
    ASSUME StreamOK, down # <<>>
    PROVE  /\ Head(down) \in Frame /\ Head(down).text \in Line /\ Head(down).call \in Nat
           /\ Head(down).code \in Code /\ (Head(down).code # "text" => Head(down).text = <<>>)
           /\ Tail(down) \in Seq(Frame) /\ Len(Tail(down)) <= DownDepth
<1>1. /\ Head(down) \in Frame /\ Tail(down) \in Seq(Frame)
      /\ Len(down) \in Nat \ {0} /\ Len(Tail(down)) = Len(down) - 1 /\ Len(down) <= DownDepth
  BY FirstLine DEF StreamOK
<1> QED
  BY <1>1, ExchangeDepths DEF Frame, Item

\* A push that is complete keeps the library's variables what they are.
LEMMA PushTypes ==
    ASSUME ClientOK, HistoryOK, NEW ev \in Event, Push(ev)
    PROVE  /\ phase' \in {phase, "idle"}
           /\ pending' \in Seq(Event) /\ events' \in Seq(Event)
<1>1. Append(events, ev) \in Seq(Event) /\ Append(pending, ev) \in Seq(Event)
  BY DEF ClientOK, HistoryOK
<1> QED
  BY <1>1 DEF Push, Buffer, ClientOK, HistoryOK

LEMMA NumbersOfLines == ASSUME NEW line \in Line PROVE Octets(line) \in Nat
  BY LenProperties DEF Octets, Line

\* The library's actions keep the shapes.
LEMMA ClientTypes ==
    ASSUME TypeInv,
           \/ \E v \in (Command \ {<<"PUBLISH">>}) \union Garbled : Call(v, <<>>)
           \/ \E b \in Body : Call(<<"PUBLISH">>, b)
           \/ NextEvent \/ Send \/ ReadClosed \/ DropNextEvent
    PROVE  TypeInv'
<1>1. ClientOK /\ StreamOK /\ DaemonOK /\ HistoryOK
  BY TypeParts
<1>2. ASSUME NEW v \in Line, NEW b \in Seq(Line), Call(v, b) PROVE TypeInv'
  <2>1. <<v>> \in Seq(Line)
    OBVIOUS
  <2>2. ClientOK'
    BY <1>1, <1>2, <2>1 DEF Call, ClientOK
  <2>3. StreamOK' /\ DaemonOK' /\ HistoryOK'
    BY <1>1, <1>2 DEF Call, StreamOK, DaemonOK, HistoryOK, daemonVars, histVars
  <2> QED
    BY <2>2, <2>3, NextTypeParts
<1>3. /\ (Command \ {<<"PUBLISH">>}) \union Garbled \subseteq Line
      /\ <<"PUBLISH">> \in Line /\ <<>> \in Seq(Line) /\ Body \subseteq Seq(Line)
  <2>1. Command \subseteq Line /\ <<"BAD">>[1] = "BAD" /\ <<"BAD">> \in Line
    BY DEF Command, Line
  <2>2. [i \in 1 .. MaxCommand + 1 |-> "BAD"] \in Line
    BY ExchangeLimits DEF Line
  <2>3. <<"PUBLISH">> \in Line /\ <<>> \in Seq(Line)
    BY DEF Line
  <2>4. Garbled \subseteq Line
    BY <2>1, <2>2 DEF Garbled
  <2> QED
    BY <2>1, <2>3, <2>4, ExchangeBodies
<1>4. ASSUME NextEvent PROVE TypeInv'
  <2>1. pending # <<>> => Append(events, Head(pending)) \in Seq(Event) /\ Tail(pending) \in Seq(Event)
    BY <1>1, FirstLine DEF ClientOK, HistoryOK
  <2>2. ClientOK' /\ HistoryOK'
    BY <1>1, <1>4, <2>1 DEF NextEvent, ClientOK, HistoryOK
  <2>3. StreamOK' /\ DaemonOK'
    BY <1>1, <1>4 DEF NextEvent, StreamOK, DaemonOK, daemonVars
  <2> QED
    BY <2>2, <2>3, NextTypeParts
<1>5. ASSUME Send PROVE TypeInv'
  <2>1. /\ Head(toSend) \in Line /\ Tail(toSend) \in Seq(Line)
        /\ Up(Head(toSend)) \in UpLine
    BY <1>1, <1>5, FirstLine DEF Send, ClientOK, Up, UpLine
  <2>2. /\ Append(up, Up(Head(toSend))) \in Seq(UpLine)
        /\ Len(Append(up, Up(Head(toSend)))) = Len(up) + 1
    BY <1>1, <2>1, AppendProperties DEF StreamOK
  <2>3. Len(up) \in Nat
    BY <1>1, LenProperties DEF StreamOK
  <2>4. StreamOK'
    BY <1>1, <1>5, <2>2, <2>3, ExchangeDepths DEF Send, StreamOK
  <2>5. ClientOK' /\ DaemonOK' /\ HistoryOK'
    BY <1>1, <1>5, <2>1 DEF Send, ClientOK, DaemonOK, HistoryOK, daemonVars, histVars
  <2> QED
    BY <2>4, <2>5, NextTypeParts
<1>6. ASSUME ReadClosed PROVE TypeInv'
  <2>1. ClientOK' /\ HistoryOK'
    BY <1>1, <1>6, EmptyLine DEF ReadClosed, Return, ClientOK, HistoryOK, Code, Block, NoBlock
  <2>2. StreamOK' /\ DaemonOK'
    BY <1>1, <1>6 DEF ReadClosed, StreamOK, DaemonOK, daemonVars
  <2> QED
    BY <2>1, <2>2, NextTypeParts
<1>7. ASSUME DropNextEvent PROVE TypeInv'
  <2>1. StreamOK'
    <3>1. CASE UNCHANGED down
      BY <1>1, <1>7, <3>1 DEF DropNextEvent, StreamOK
    <3>2. CASE down # <<>> /\ down' = [down EXCEPT ![1] = Text(<<"rest">>)]
      <4>1. <<"rest">> \in Line
        BY DEF Line
      <4>2. Text(<<"rest">>) \in Frame /\ 1 \in 1 .. Len(down)
        BY <1>1, <3>2, <4>1, TextFrame, FirstLine DEF StreamOK
      <4> HIDE DEF Text
      <4>3. down' \in Seq(Frame) /\ Len(down') = Len(down)
        BY <1>1, <3>2, <4>2, ExceptSeq DEF StreamOK
      <4> QED
        BY <1>1, <1>7, <4>3 DEF DropNextEvent, StreamOK
    <3> QED
      BY <1>7, <3>1, <3>2 DEF DropNextEvent, Leftover
  <2>2. ClientOK'
    BY <1>1, <1>7, EmptyLine DEF DropNextEvent, ClientOK, Block, NoBlock
  <2>3. DaemonOK' /\ HistoryOK'
    BY <1>1, <1>7 DEF DropNextEvent, DaemonOK, HistoryOK, daemonVars
  <2> QED
    BY <2>1, <2>2, <2>3, NextTypeParts
<1> QED
  BY <1>2, <1>3, <1>4, <1>5, <1>6, <1>7

\* So does the library's reading of a line.
LEMMA ReadTypes == ASSUME TypeInv, ReadLine PROVE TypeInv'
<1>1. ClientOK /\ StreamOK /\ DaemonOK /\ HistoryOK
  BY TypeParts
<1> DEFINE item == Head(down)
<1>2. /\ item.text \in Line /\ item.call \in Nat /\ item.code \in Code
      /\ item.code # "text" => item.text = <<>>
  BY <1>1, ReadFrame DEF ReadLine
<1>3. StreamOK'
  BY <1>1, ReadFrame DEF ReadLine, StreamOK
<1>4. DaemonOK'
  BY <1>1 DEF ReadLine, DaemonOK, daemonVars
<1>5. /\ block.code \in {"none", "101", "215"} /\ block.text \in Seq(Line) /\ block.call \in Nat
      /\ block.code = "none" => block = NoBlock
  BY <1>1 DEF ClientOK, Block
<1> HIDE DEF item
<1>6. /\ item.code \in {"101", "215"} => item.text \in Seq(Line)
      /\ UNCHANGED <<call, up, daemonVars, pushed, posted, answered, astray>>
  BY <1>2, EmptyLine DEF ReadLine
<1>7. ASSUME item.code \in {"101", "215"}, block' = item PROVE block' \in Block /\ block'.code # "none"
  <2>1. item \in Frame
    BY <1>1, ReadFrame DEF ReadLine, item
  <2> QED
    BY <1>2, <1>6, <1>7, <2>1 DEF Block, Frame, Item
<1>8. ASSUME ReadBlock(item) PROVE ClientOK' /\ HistoryOK'
  <2>1. CASE item.text # Terminator
    <3>1. Append(block.text, Unstuff(item.text)) \in Seq(Line)
      BY <1>2, <1>5, UnstuffLine
    <3>2. block' \in Block /\ block'.code # "none"
      BY <1>1, <1>5, <1>8, <2>1, <3>1 DEF ReadBlock, ClientOK, Block
    <3> QED
      BY <1>1, <1>6, <1>8, <2>1, <3>2 DEF ReadBlock, ClientOK, HistoryOK
  <2>2. CASE item.text = Terminator /\ block.code = "101"
    <3>1. [code |-> block.code, text |-> block.text] \in Event
      BY <1>5, <2>2 DEF Event, Async
    <3>2. /\ Push([code |-> block.code, text |-> block.text])
          /\ block' = NoBlock /\ UNCHANGED <<body, toSend, result>>
      BY <1>8, <2>2 DEF ReadBlock
    <3>3. phase' \in {phase, "idle"} /\ pending' \in Seq(Event) /\ events' \in Seq(Event)
      BY <1>1, <3>1, <3>2, PushTypes
    <3> QED
      BY <1>1, <1>6, <3>2, <3>3, EmptyLine DEF ClientOK, HistoryOK, Block, NoBlock
  <2>3. CASE item.text = Terminator /\ block.code # "101"
    <3>1. block.code \in Code
      BY <1>5 DEF Code
    <3>2. /\ Return(block.code, block.call) /\ block' = NoBlock
          /\ UNCHANGED <<body, toSend, pending, events>>
      BY <1>8, <2>3 DEF ReadBlock
    <3>3. result' \in [call : Nat, for : Nat, code : Code] /\ phase' = "idle"
      BY <1>1, <1>5, <3>1, <3>2 DEF Return, ClientOK
    <3> QED
      BY <1>1, <1>6, <3>2, <3>3, EmptyLine DEF ClientOK, HistoryOK, Block, NoBlock
  <2> QED
    BY <2>1, <2>2, <2>3
<1>9. ASSUME ReadPush(item) PROVE ClientOK' /\ HistoryOK'
  <2>1. CASE item.code = "101"
    BY <1>1, <1>6, <1>7, <1>9, <2>1 DEF ReadPush, ClientOK, HistoryOK
  <2>2. CASE item.code # "101"
    <3>1. [code |-> item.code, text |-> <<>>] \in Event
      BY <1>9, EmptyLine DEF ReadPush, Event
    <3>2. Push([code |-> item.code, text |-> <<>>]) /\ UNCHANGED <<block, body, toSend, result>>
      BY <1>9, <2>2 DEF ReadPush
    <3>3. phase' \in {phase, "idle"} /\ pending' \in Seq(Event) /\ events' \in Seq(Event)
      BY <1>1, <3>1, <3>2, PushTypes
    <3> QED
      BY <1>1, <1>6, <3>2, <3>3 DEF ClientOK, HistoryOK
  <2> QED
    BY <2>1, <2>2
<1>10. ASSUME ReadStatus(item) PROVE ClientOK' /\ HistoryOK'
  <2>1. UNCHANGED <<body, pending, events>> /\ Encode(body) \in Seq(Line) /\ "protocol" \in Code
    BY <1>1, <1>10, EncodeBody DEF ReadStatus, ClientOK, Code
  <2>2. \/ \E code \in Code : Return(code, item.call) /\ UNCHANGED <<block, toSend>>
        \/ toSend' = Encode(body) /\ phase' = "accept" /\ UNCHANGED <<block, result>>
        \/ item.code = "215" /\ block' = item /\ UNCHANGED <<phase, toSend, result>>
    BY <1>2, <1>10, <2>1 DEF ReadStatus, BlockCodes
  <2>3. CASE \E code \in Code : Return(code, item.call) /\ UNCHANGED <<block, toSend>>
    BY <1>1, <1>2, <1>6, <2>1, <2>3 DEF Return, ClientOK, HistoryOK
  <2>4. CASE toSend' = Encode(body) /\ phase' = "accept" /\ UNCHANGED <<block, result>>
    BY <1>1, <1>6, <2>1, <2>4 DEF ClientOK, HistoryOK
  <2>5. CASE item.code = "215" /\ block' = item /\ UNCHANGED <<phase, toSend, result>>
    BY <1>1, <1>6, <1>7, <2>1, <2>5 DEF ClientOK, HistoryOK
  <2> QED
    BY <2>2, <2>3, <2>4, <2>5
<1>11. ClientOK' /\ HistoryOK'
  BY <1>8, <1>9, <1>10 DEF ReadLine, item
<1> QED
  BY <1>3, <1>4, <1>11, NextTypeParts

\* And so do the daemon's actions.
LEMMA DaemonTypes == ASSUME TypeInv, Daemon \/ Deliver PROVE TypeInv'
<1>1. ClientOK /\ StreamOK /\ DaemonOK /\ HistoryOK
  BY TypeParts
<1>2. ASSUME UNCHANGED <<clientVars>> PROVE ClientOK'
  BY <1>1, <1>2 DEF ClientOK, clientVars
<1>3. ASSUME up # <<>>, up' \in {up, Tail(up)}, UNCHANGED down PROVE StreamOK'
  BY <1>1, <1>3, TakenLine DEF StreamOK
<1>4. ASSUME up # <<>>
      PROVE  /\ Head(up).text \in Line /\ Head(up).call \in Nat
             /\ answered \union {Head(up).call} \in SUBSET Nat
             /\ \A code \in Code \ {"text"} : <<Status(code, Head(up).call)>> \in Seq(Frame)
  BY <1>1, <1>4, TakenLine, StatusLine DEF HistoryOK
<1>5. ASSUME Flush PROVE TypeInv'
  <2>1. /\ Head(out) \in Frame /\ Tail(out) \in Seq(Frame)
        /\ Append(down, Head(out)) \in Seq(Frame)
        /\ Len(Append(down, Head(out))) = Len(down) + 1 /\ Len(down) \in Nat
    BY <1>1, <1>5, FirstLine, AppendProperties, LenProperties DEF Flush, StreamOK, DaemonOK
  <2>2. StreamOK'
    BY <1>1, <1>5, <2>1, ExchangeDepths DEF Flush, StreamOK
  <2>3. DaemonOK' /\ HistoryOK'
    BY <1>1, <1>5, <2>1 DEF Flush, DaemonOK, HistoryOK, histVars
  <2> QED
    BY <1>2, <1>5, <2>2, <2>3, NextTypeParts DEF Flush
<1>6. ASSUME Deliver PROVE TypeInv'
  <2>1. out' \in Seq(Frame) /\ pushed' \in Seq(Event)
    <3>1. ASSUME NEW b \in PushBody,
                 out' = <<Status("101", 0)>> \o [i \in DOMAIN Encode(b) |-> Text(Encode(b)[i])],
                 pushed' = Append(pushed, [code |-> "101", text |-> b])
          PROVE  out' \in Seq(Frame) /\ pushed' \in Seq(Event)
      <4>1. b \in Seq(Line) /\ [code |-> "101", text |-> b] \in Event
        BY ExchangeBodies DEF Event, Async
      <4> QED
        BY <1>1, <3>1, <4>1, DeliveryFrames DEF HistoryOK
    <3>2. ASSUME out' = <<Status("102", 0)>>,
                 pushed' = Append(pushed, [code |-> "102", text |-> <<>>])
          PROVE  out' \in Seq(Frame) /\ pushed' \in Seq(Event)
      <4>1. [code |-> "102", text |-> <<>>] \in Event /\ <<Status("102", 0)>> \in Seq(Frame)
        BY EmptyLine, StatusLine DEF Event, Async, Code
      <4> QED
        BY <1>1, <3>2, <4>1 DEF HistoryOK
    <3> QED
      BY <1>6, <3>1, <3>2 DEF Deliver
  <2>2. StreamOK' /\ DaemonOK' /\ HistoryOK'
    BY <1>1, <1>6, <2>1 DEF Deliver, StreamOK, DaemonOK, HistoryOK
  <2> QED
    BY <1>2, <1>6, <2>2, NextTypeParts DEF Deliver
<1>7. ASSUME NEW v, TakeCommand(v), out' \in Seq(Frame), answered' \in SUBSET Nat,
             mode' \in {mode, "body", "done"}, total' \in {total, 0}
      PROVE  TypeInv'
  <2>1. StreamOK'
    BY <1>3, <1>7 DEF TakeCommand
  <2>2. DaemonOK' /\ HistoryOK'
    BY <1>1, <1>7 DEF TakeCommand, DaemonOK, HistoryOK
  <2> QED
    BY <1>2, <1>7, <2>1, <2>2, NextTypeParts DEF TakeCommand
<1>8. ASSUME Simple \/ List \/ Quit \/ PublishRefused \/ PublishInvited PROVE TypeInv'
  <2>1. up # <<>>
    BY <1>8 DEF Simple, List, Quit, PublishRefused, PublishInvited, TakeCommand
  <2>2. <<Status("215", Head(up).call), Text(<<"name">>), Text(Terminator)>> \in Seq(Frame)
    <3>1. <<"name">> \in Line
      BY DEF Line
    <3>2. /\ Status("215", Head(up).call) \in Frame
          /\ Text(<<"name">>) \in Frame /\ Text(Terminator) \in Frame
      BY <1>4, <2>1, <3>1, StatusFrame, TextFrame, TerminatorLine DEF Code
    <3> HIDE DEF Status, Text
    <3> QED
      BY <3>2
  <2>3. out' \in Seq(Frame) /\ answered' \in SUBSET Nat
    BY <1>1, <1>4, <1>8, <2>1, <2>2
    DEF Simple, List, Quit, PublishRefused, PublishInvited, Reply, Code, HistoryOK
  <2> QED
    BY <1>7, <1>8, <2>3 DEF Simple, List, Quit, PublishRefused, PublishInvited
<1>9. ASSUME BadCommand PROVE TypeInv'
  <2>1. /\ up # <<>> /\ out' = <<Status("500", Head(up).call)>>
        /\ answered' = answered \union {Head(up).call}
    BY <1>9 DEF BadCommand, Reply
  <2>2. out' \in Seq(Frame) /\ answered' \in SUBSET Nat
    BY <1>4, <2>1 DEF Code
  <2>3. StreamOK'
    BY <1>3, <1>9, <2>1 DEF BadCommand
  <2>4. DaemonOK' /\ HistoryOK'
    BY <1>1, <1>9, <2>2 DEF BadCommand, DaemonOK, HistoryOK
  <2> QED
    BY <1>2, <1>9, <2>3, <2>4, NextTypeParts DEF BadCommand
<1>10. ASSUME BodyLine PROVE TypeInv'
  <2>1. up # <<>>
    BY <1>10 DEF BodyLine, TakeBodyLine
  <2>2. Unstuff(Head(up).text) \in Line /\ Octets(Unstuff(Head(up).text)) \in Nat
    BY <1>4, <2>1, UnstuffLine, NumbersOfLines
  <2>3. DaemonOK'
    <3>1. total' \in Nat
      BY <1>1, <1>10, <2>2 DEF BodyLine, DaemonOK
    <3>2. lines' \in Seq(Line)
      BY <1>1, <1>10, <2>2 DEF BodyLine, DaemonOK
    <3> QED
      BY <1>1, <1>10, <3>1, <3>2 DEF BodyLine, DaemonOK
  <2>4. StreamOK' /\ HistoryOK'
    BY <1>1, <1>3, <1>10, <2>1 DEF BodyLine, TakeBodyLine, HistoryOK
  <2> QED
    BY <1>2, <1>10, <2>3, <2>4, NextTypeParts DEF BodyLine, TakeBodyLine
<1>11. ASSUME BodyEnd \/ BodyLineTooLong PROVE TypeInv'
  <2>1. up # <<>> /\ up' \in {up, Tail(up)} /\ UNCHANGED <<clientVars, down, result, events, pushed>>
    BY <1>11 DEF BodyEnd, BodyLineTooLong, TakeBodyLine
  <2>2. \E code \in {"250", "441", "452"} : Reply(Head(up).call, <<Status(code, Head(up).call)>>)
    BY <1>11 DEF BodyEnd, BodyLineTooLong
  <2>3. out' \in Seq(Frame) /\ answered' \in SUBSET Nat
    BY <1>4, <2>1, <2>2 DEF Reply, Code
  <2>4. posted' \in [call : Nat, body : Seq(Line)]
    BY <1>1, <1>4, <1>11, <2>1 DEF BodyEnd, BodyLineTooLong, HistoryOK, DaemonOK
  <2>5. /\ mode' = "serve" /\ lines' = <<>> /\ UNCHANGED total
        /\ astray' \in {astray, astray \union {"overlong"}}
    BY <1>11 DEF BodyEnd, BodyLineTooLong
  <2>6. DaemonOK' /\ HistoryOK'
    BY <1>1, <2>1, <2>3, <2>4, <2>5, EmptyLine DEF DaemonOK, HistoryOK
  <2> QED
    BY <1>2, <1>3, <2>1, <2>6, NextTypeParts
<1> QED
  BY <1>5, <1>6, <1>8, <1>9, <1>10, <1>11 DEF Daemon

LEMMA TypeStep == TypeInv /\ [Next]_vars => TypeInv'
<1>1. ASSUME TypeInv, UNCHANGED vars PROVE TypeInv'
  <2>1. ClientOK /\ StreamOK /\ DaemonOK /\ HistoryOK
    BY <1>1, TypeParts
  <2>2. ClientOK' /\ StreamOK' /\ DaemonOK' /\ HistoryOK'
    BY <1>1, <2>1
    DEF vars, clientVars, daemonVars, histVars, ClientOK, StreamOK, DaemonOK, HistoryOK
  <2> QED
    BY <2>2, NextTypeParts
<1> QED
  BY <1>1, ClientTypes, ReadTypes, DaemonTypes DEF Next

\* Whatever the client sends and whenever it gives up, the buffers of both sides
\* hold what they may: the stream no more than its depth, a block its lines.
THEOREM TypeCorrect == Spec => []TypeOK
<1>1. TypeInv => TypeOK
  BY DEF TypeInv
<1> QED
  BY <1>1, TypeInit, TypeStep, PTL DEF Spec

-----------------------------------------------------------------------------
(* What comes down the stream.                                             *)

LEMMA ComingFrames ==
    ASSUME TypeInv
    PROVE  /\ Coming \in Seq(Frame) /\ Len(Coming) \in Nat
           /\ out = <<>> => Coming = down
  BY ConcatProperties, ConcatEmptySeq, LenProperties DEF TypeInv, Coming

\* The library takes a line.
LEMMA ReadComing ==
    ASSUME TypeInv, down # <<>>, down' = Tail(down), UNCHANGED out
    PROVE  /\ Coming # <<>> /\ Head(Coming) = Head(down) /\ Coming[1] = Head(down)
           /\ Coming' = Tail(Coming)
<1>1. down \in Seq(Frame) /\ out \in Seq(Frame)
  BY DEF TypeInv
<1>2. Tail(down) \o out = Tail(down \o out) /\ down \o out # <<>>
      /\ (down \o out)[1] = down[1]
  <2>1. /\ Tail(down) \in Seq(Frame) /\ Len(down) \in Nat \ {0}
        /\ Len(Tail(down)) = Len(down) - 1
        /\ \A i \in 1 .. Len(down) - 1 : Tail(down)[i] = down[i + 1]
    BY <1>1, FirstLine
  <2>2. /\ down \o out \in Seq(Frame) /\ Len(down \o out) = Len(down) + Len(out)
        /\ \A i \in 1 .. Len(down) + Len(out) :
              (down \o out)[i] = IF i <= Len(down) THEN down[i] ELSE out[i - Len(down)]
        /\ Len(out) \in Nat
    BY <1>1, ConcatProperties, LenProperties
  <2>3. down \o out # <<>>
    BY <2>1, <2>2, EmptySeq
  <2>4. /\ Tail(down \o out) \in Seq(Frame) /\ Len(Tail(down \o out)) = Len(down \o out) - 1
        /\ \A i \in 1 .. Len(down \o out) - 1 : Tail(down \o out)[i] = (down \o out)[i + 1]
    BY <2>2, <2>3, FirstLine
  <2>5. /\ Tail(down) \o out \in Seq(Frame)
        /\ Len(Tail(down) \o out) = Len(Tail(down)) + Len(out)
        /\ \A i \in 1 .. Len(Tail(down)) + Len(out) :
              (Tail(down) \o out)[i] = IF i <= Len(Tail(down)) THEN Tail(down)[i]
                                       ELSE out[i - Len(Tail(down))]
    BY <1>1, <2>1, ConcatProperties
  <2>6. ASSUME NEW i \in 1 .. Len(down) - 1 + Len(out)
        PROVE  (Tail(down) \o out)[i] = Tail(down \o out)[i]
    <3>1. i + 1 \in 1 .. Len(down) + Len(out) /\ i \in 1 .. Len(down \o out) - 1
      BY <2>1, <2>2
    <3>2. CASE i <= Len(down) - 1
      BY <2>1, <2>2, <2>4, <2>5, <3>1, <3>2
    <3>3. CASE i > Len(down) - 1
      <4>1. i + 1 - Len(down) = i - (Len(down) - 1)
        BY <2>1, <2>2
      <4> QED
        BY <2>1, <2>2, <2>4, <2>5, <3>1, <3>3, <4>1
    <3> QED
      BY <2>1, <2>2, <3>2, <3>3
  <2>7. Len(Tail(down) \o out) = Len(Tail(down \o out))
    BY <2>1, <2>2, <2>4, <2>5
  <2>8. Tail(down) \o out = Tail(down \o out)
    BY <2>1, <2>4, <2>5, <2>6, <2>7, SeqEqual
  <2> QED
    BY <2>1, <2>2, <2>3, <2>8
<1>3. Head(down \o out) = Head(down)
  BY <1>1, <1>2, FirstLine, ConcatProperties
<1> QED
  BY <1>1, <1>2, <1>3, FirstLine DEF Coming

LEMMA HeadThenTail ==
    ASSUME NEW S, NEW u \in Seq(S), u # <<>>
    PROVE  <<Head(u)>> \o Tail(u) = u
<1>1. /\ Len(u) \in Nat \ {0} /\ Len(Tail(u)) = Len(u) - 1 /\ Head(u) = u[1] /\ Head(u) \in S
      /\ \A i \in 1 .. Len(u) - 1 : Tail(u)[i] = u[i + 1]
      /\ Tail(u) \in Seq(S) /\ <<Head(u)>> \in Seq(S)
  BY FirstLine
<1>2. /\ <<Head(u)>> \o Tail(u) \in Seq(S)
      /\ Len(<<Head(u)>> \o Tail(u)) = 1 + Len(Tail(u))
      /\ \A i \in 1 .. 1 + Len(Tail(u)) :
           (<<Head(u)>> \o Tail(u))[i] = IF i <= 1 THEN <<Head(u)>>[i] ELSE Tail(u)[i - 1]
  BY <1>1, ConcatProperties
<1>3. ASSUME NEW i \in 1 .. Len(u) PROVE (<<Head(u)>> \o Tail(u))[i] = u[i]
  <2>1. CASE i = 1
    BY <1>1, <1>2, <2>1
  <2>2. CASE i # 1
    <3>1. i - 1 \in 1 .. Len(u) - 1 /\ (i - 1) + 1 = i /\ i \in 1 .. 1 + Len(Tail(u))
      BY <1>1, <2>2
    <3> QED
      BY <1>1, <1>2, <2>2, <3>1
  <2> QED
    BY <2>1, <2>2
<1>4. Len(<<Head(u)>> \o Tail(u)) = Len(u)
  BY <1>1, <1>2
<1> QED
  BY <1>2, <1>3, <1>4, SeqEqual

\* What next_event takes from the front of the buffer is returned.
LEMMA AppendHead ==
    ASSUME NEW S, NEW s \in Seq(S), NEW u \in Seq(S), u # <<>>
    PROVE  Append(s, Head(u)) \o Tail(u) = s \o u
<1>1. Head(u) \in S /\ Tail(u) \in Seq(S) /\ <<Head(u)>> \in Seq(S)
  BY FirstLine
<1>2. Append(s, Head(u)) = s \o <<Head(u)>>
  BY <1>1, AppendIsConcat
<1>3. <<Head(u)>> \o Tail(u) = u
  BY HeadThenTail
<1>4. (s \o <<Head(u)>>) \o Tail(u) = s \o (<<Head(u)>> \o Tail(u))
  BY <1>1, ConcatAssociative
<1> QED
  BY <1>2, <1>3, <1>4

\* The stream takes a line.
LEMMA FlushComing ==
    ASSUME TypeInv, out # <<>>, down' = Append(down, Head(out)), out' = Tail(out)
    PROVE  Coming' = Coming
  BY AppendHead DEF TypeInv, Coming

\* The daemon writes.
LEMMA WriteComing ==
    ASSUME TypeInv, out = <<>>, UNCHANGED down
    PROVE  Coming' = Coming \o out'
  BY ComingFrames DEF Coming

-----------------------------------------------------------------------------
(* The parts of blocks.                                                    *)

\* Reading a line leaves the rest as whole as it was.
LEMMA RestOfBlocks ==
    ASSUME NEW s \in Seq(Frame), s # <<>>, NEW b \in BOOLEAN
    PROVE  /\ Whole(b, s) => Whole(Opens(s[1]), Tail(s)) /\ (b => s[1].code = "text")
           /\ Proper(b, s) => Proper(Opens(s[1]), Tail(s)) /\ (s[1].code = "text" => b)
<1>1. /\ Len(s) \in Nat \ {0} /\ Len(Tail(s)) = Len(s) - 1
      /\ \A i \in 1 .. Len(s) - 1 : Tail(s)[i] = s[i + 1]
  BY FirstLine
<1>2. ASSUME NEW i \in 0 .. Len(s) - 1
      PROVE  OpenAfter(Opens(s[1]), Tail(s), i) <=> OpenAfter(b, s, i + 1)
  <2>1. CASE i = 0
    BY <2>1 DEF OpenAfter
  <2>2. CASE i # 0
    BY <1>1, <2>2 DEF OpenAfter
  <2> QED
    BY <2>1, <2>2
<1>3. ASSUME Whole(b, s) PROVE Whole(Opens(s[1]), Tail(s)) /\ (b => s[1].code = "text")
  <2>1. ASSUME NEW i \in 0 .. Len(Tail(s)), OpenAfter(Opens(s[1]), Tail(s), i)
        PROVE  i < Len(Tail(s)) /\ Tail(s)[i + 1].code = "text"
    <3>1. i + 1 \in 0 .. Len(s) /\ OpenAfter(b, s, i + 1)
      BY <1>1, <1>2, <2>1
    <3>2. i + 1 < Len(s) /\ s[(i + 1) + 1].code = "text"
      BY <1>3, <3>1 DEF Whole
    <3>3. i + 1 \in 1 .. Len(s) - 1
      BY <1>1, <2>1, <3>2
    <3> QED
      BY <1>1, <3>2, <3>3
  <2>2. b => s[1].code = "text"
    BY <1>1, <1>3 DEF Whole, OpenAfter
  <2> QED
    BY <2>1, <2>2 DEF Whole
<1>4. ASSUME Proper(b, s) PROVE Proper(Opens(s[1]), Tail(s)) /\ (s[1].code = "text" => b)
  <2>1. ASSUME NEW i \in 1 .. Len(Tail(s)), Tail(s)[i].code = "text"
        PROVE  OpenAfter(Opens(s[1]), Tail(s), i - 1)
    <3>1. i \in 1 .. Len(s) - 1 /\ i + 1 \in 1 .. Len(s) /\ s[i + 1].code = "text"
      BY <1>1, <2>1
    <3>2. OpenAfter(b, s, (i + 1) - 1)
      BY <1>4, <3>1 DEF Proper
    <3>3. i - 1 \in 0 .. Len(s) - 1 /\ (i + 1) - 1 = (i - 1) + 1
      BY <1>1, <3>1
    <3> QED
      BY <1>2, <3>2, <3>3
  <2>2. s[1].code = "text" => b
    BY <1>1, <1>4 DEF Proper, OpenAfter
  <2> QED
    BY <2>1, <2>2 DEF Proper
<1> QED
  BY <1>3, <1>4

\* Who drops a block midway sees no blocks cut short in what follows.
LEMMA WholeWithout == ASSUME NEW s, NEW b, Whole(b, s) PROVE Whole(FALSE, s)
  BY DEF Whole, OpenAfter

\* Blocks that follow whole blocks are whole.
LEMMA BlocksConcat ==
    ASSUME NEW s \in Seq(Frame), NEW u \in Seq(Frame), NEW b \in BOOLEAN, Whole(b, s)
    PROVE  /\ Whole(FALSE, u) => Whole(b, s \o u)
           /\ Proper(b, s) /\ Proper(FALSE, u) => Proper(b, s \o u)
<1>1. /\ s \o u \in Seq(Frame) /\ Len(s \o u) = Len(s) + Len(u)
      /\ \A i \in 1 .. Len(s) + Len(u) : (s \o u)[i] = IF i <= Len(s) THEN s[i] ELSE u[i - Len(s)]
      /\ Len(s) \in Nat /\ Len(u) \in Nat
  BY ConcatProperties, LenProperties
<1>2. ASSUME NEW i \in 0 .. Len(s) PROVE OpenAfter(b, s \o u, i) <=> OpenAfter(b, s, i)
  BY <1>1 DEF OpenAfter
<1>3. ASSUME NEW i \in 1 .. Len(u)
      PROVE  /\ OpenAfter(b, s \o u, Len(s) + i) <=> OpenAfter(FALSE, u, i)
             /\ (s \o u)[Len(s) + i] = u[i]
  <2>1. Len(s) + i \in 1 .. Len(s) + Len(u) /\ ~ (Len(s) + i <= Len(s)) /\ (Len(s) + i) - Len(s) = i
        /\ Len(s) + i # 0 /\ i # 0
    BY <1>1
  <2>2. (s \o u)[Len(s) + i] = u[i]
    BY <1>1, <2>1
  <2> QED
    BY <2>1, <2>2 DEF OpenAfter
<1>4. ~ OpenAfter(b, s, Len(s))
  BY <1>1 DEF Whole
<1>5. ASSUME Whole(FALSE, u) PROVE Whole(b, s \o u)
  <2>1. ASSUME NEW i \in 0 .. Len(s \o u), OpenAfter(b, s \o u, i)
        PROVE  i < Len(s \o u) /\ (s \o u)[i + 1].code = "text"
    <3>1. CASE i <= Len(s)
      <4>1. i < Len(s) /\ s[i + 1].code = "text"
        BY <1>1, <1>2, <2>1, <3>1 DEF Whole
      <4> QED
        BY <1>1, <4>1
    <3>2. CASE i > Len(s)
      <4>1. PICK j \in 1 .. Len(u) : i = Len(s) + j
        <5>1. i - Len(s) \in 1 .. Len(u) /\ i = Len(s) + (i - Len(s))
          BY <1>1, <3>2
        <5> QED
          BY <5>1
      <4>2. j < Len(u) /\ u[j + 1].code = "text"
        <5>1. OpenAfter(b, s \o u, Len(s) + j)
          BY <2>1, <4>1, Zenon
        <5>2. OpenAfter(FALSE, u, j)
          BY <1>3, <5>1
        <5>3. j \in 0 .. Len(u)
          BY <1>1, <4>1
        <5> QED
          BY <1>5, <5>2, <5>3 DEF Whole
      <4>3. j + 1 \in 1 .. Len(u) /\ Len(s) + (j + 1) = i + 1
        BY <1>1, <4>1, <4>2
      <4>4. (s \o u)[Len(s) + (j + 1)] = u[j + 1]
        BY <1>3, <4>3
      <4> QED
        BY <1>1, <4>1, <4>2, <4>3, <4>4
    <3> QED
      BY <1>1, <3>1, <3>2
  <2> QED
    BY <2>1 DEF Whole
<1>6. ASSUME Proper(b, s), Proper(FALSE, u) PROVE Proper(b, s \o u)
  <2>1. ASSUME NEW i \in 1 .. Len(s \o u), (s \o u)[i].code = "text"
        PROVE  OpenAfter(b, s \o u, i - 1)
    <3>1. CASE i <= Len(s)
      <4>1. s[i].code = "text" /\ i \in 1 .. Len(s) /\ i - 1 \in 0 .. Len(s)
        BY <1>1, <2>1, <3>1
      <4> QED
        BY <1>2, <1>6, <4>1 DEF Proper
    <3>2. CASE i > Len(s)
      <4>1. PICK j \in 1 .. Len(u) : i = Len(s) + j
        <5>1. i - Len(s) \in 1 .. Len(u) /\ i = Len(s) + (i - Len(s))
          BY <1>1, <3>2
        <5> QED
          BY <5>1
      <4>2. u[j].code = "text"
        BY <1>3, <2>1, <4>1
      <4>3. OpenAfter(FALSE, u, j - 1)
        BY <1>6, <4>2 DEF Proper
      <4>4. j # 1
        BY <4>3 DEF OpenAfter
      <4>5. j - 1 \in 1 .. Len(u) /\ Len(s) + (j - 1) = i - 1
        BY <1>1, <4>1, <4>4
      <4> QED
        BY <1>3, <4>3, <4>5
    <3> QED
      BY <1>1, <3>1, <3>2
  <2> QED
    BY <2>1 DEF Proper
<1> QED
  BY <1>5, <1>6

\* What the daemon writes at once is a status line, or one with a whole block.
LEMMA AnswerBlocks ==
    ASSUME NEW u \in Seq(Frame),
           \/ Len(u) = 1 /\ u[1].code \notin {"101", "215", "text"}
           \/ /\ Len(u) >= 2 /\ u[1].code \in {"101", "215"}
              /\ \A i \in 2 .. Len(u) : u[i].code = "text" /\ (u[i].text = Terminator <=> i = Len(u))
    PROVE  Whole(FALSE, u) /\ Proper(FALSE, u)
<1>1. Len(u) \in Nat
  BY LenProperties
<1>2. CASE Len(u) = 1 /\ u[1].code \notin {"101", "215", "text"}
  BY <1>2 DEF Whole, Proper, OpenAfter, Opens
<1>3. CASE /\ Len(u) >= 2 /\ u[1].code \in {"101", "215"}
           /\ \A i \in 2 .. Len(u) : u[i].code = "text" /\ (u[i].text = Terminator <=> i = Len(u))
  <2>1. ASSUME NEW i \in 0 .. Len(u) PROVE OpenAfter(FALSE, u, i) <=> i \in 1 .. Len(u) - 1
    <3>1. CASE i = 0 \/ i = 1
      BY <1>1, <1>3, <3>1 DEF OpenAfter, Opens
    <3>2. CASE i \in 2 .. Len(u)
      BY <1>1, <1>3, <3>2 DEF OpenAfter, Opens
    <3>3. i = 0 \/ i = 1 \/ i \in 2 .. Len(u)
      BY <1>1
    <3> QED
      BY <3>1, <3>2, <3>3
  <2>2. ASSUME NEW i \in 0 .. Len(u), OpenAfter(FALSE, u, i)
        PROVE  i < Len(u) /\ u[i + 1].code = "text"
    <3>1. i \in 1 .. Len(u) - 1
      BY <2>1, <2>2
    <3>2. i < Len(u) /\ i + 1 \in 2 .. Len(u)
      BY <1>1, <3>1
    <3> QED
      BY <1>3, <3>2
  <2>3. ASSUME NEW i \in 1 .. Len(u), u[i].code = "text" PROVE OpenAfter(FALSE, u, i - 1)
    <3>1. i # 1
      BY <1>3, <2>3
    <3>2. i - 1 \in 0 .. Len(u) /\ i - 1 \in 1 .. Len(u) - 1
      BY <1>1, <3>1
    <3> QED
      BY <2>1, <3>2
  <2> QED
    BY <2>2, <2>3 DEF Whole, Proper
<1> QED
  BY <1>2, <1>3

-----------------------------------------------------------------------------
(* What is read.                                                           *)

LEMMA DoneProgress == ASSUME NEW ev \in Seq(Event) PROVE Done(ev) \in Progress
  BY EmptyLine DEF Done, Progress

LEMMA AfterProgress ==
    ASSUME NEW st \in Progress, NEW item \in Frame
    PROVE  After(st, item) \in Progress
<1>1. /\ st.open \in BOOLEAN /\ st.text \in Seq(Line) /\ st.got \in Seq(Event)
      /\ item.text \in Line
  BY DEF Progress, Frame, Item
<1>2. Append(st.text, Unstuff(item.text)) \in Seq(Line)
  BY <1>1, UnstuffLine
<1>3. [code |-> "101", text |-> st.text] \in Event /\ [code |-> "102", text |-> <<>>] \in Event
  BY <1>1, EmptyLine DEF Event, Async
<1>4. /\ Done(Append(st.got, [code |-> "101", text |-> st.text])) \in Progress
      /\ Done(Append(st.got, [code |-> "102", text |-> <<>>])) \in Progress
  <2>1. ASSUME NEW e \in Event PROVE Append(st.got, e) \in Seq(Event)
    BY <1>1
  <2> QED
    BY <1>3, <2>1, DoneProgress
<1> HIDE DEF Done
<1>5. [st EXCEPT !.text = Append(@, Unstuff(item.text))] \in Progress
  BY <1>2 DEF Progress
<1>6. [open |-> TRUE, text |-> <<>>, got |-> st.got] \in Progress
  BY <1>1, EmptyLine DEF Progress
<1> QED
  BY <1>4, <1>5, <1>6 DEF After

LEMMA PrefixOfItself == ASSUME NEW s \in Seq(Event) PROVE IsPrefix(s, s)
  BY LenProperties DEF IsPrefix

\* A prefix stays one when more is written.
LEMMA PrefixOfMore ==
    ASSUME NEW s \in Seq(Event), NEW t \in Seq(Event), NEW e \in Event, IsPrefix(s, t)
    PROVE  IsPrefix(s, Append(t, e))
<1>1. /\ Len(s) \in Nat /\ Len(t) \in Nat /\ Len(s) <= Len(t)
      /\ SubSeq(s, 1, Len(s)) = SubSeq(t, 1, Len(s))
  BY LenProperties DEF IsPrefix
<1>2. /\ Append(t, e) \in Seq(Event) /\ Len(Append(t, e)) = Len(t) + 1
      /\ \A i \in 1 .. Len(t) : Append(t, e)[i] = t[i]
  BY AppendProperties
<1>3. /\ SubSeq(t, 1, Len(s)) \in Seq(Event) /\ Len(SubSeq(t, 1, Len(s))) = Len(s)
      /\ \A i \in 1 .. Len(s) : SubSeq(t, 1, Len(s))[i] = t[i]
  <2>1. \A i \in 1 .. Len(s) : t[i] \in Event
    BY <1>1, ElementOfSeq
  <2> QED
    BY <1>1, <2>1, SubSeqProperties
<1>4. /\ SubSeq(Append(t, e), 1, Len(s)) \in Seq(Event)
      /\ Len(SubSeq(Append(t, e), 1, Len(s))) = Len(s)
      /\ \A i \in 1 .. Len(s) : SubSeq(Append(t, e), 1, Len(s))[i] = Append(t, e)[i]
  <2>1. \A i \in 1 .. Len(s) : Append(t, e)[i] \in Event
    BY <1>1, <1>2, ElementOfSeq
  <2> QED
    BY <1>1, <2>1, SubSeqProperties
<1>5. \A i \in 1 .. Len(s) : SubSeq(t, 1, Len(s))[i] = SubSeq(Append(t, e), 1, Len(s))[i]
  BY <1>1, <1>2, <1>3, <1>4
<1> HIDE DEF Event
<1>6. SubSeq(t, 1, Len(s)) = SubSeq(Append(t, e), 1, Len(s))
  BY <1>3, <1>4, <1>5, SeqEqual
<1> QED
  BY <1>1, <1>2, <1>6 DEF IsPrefix

\* Nothing more is read from nothing.
LEMMA YieldsNothing == ASSUME NEW ev \in Seq(Event) PROVE Yields(Done(ev), <<>>, ev)
<1> DEFINE p == [i \in 0 .. 0 |-> Done(ev)]
<1>1. p \in [0 .. 0 -> Progress] /\ p[0] = Done(ev)
  BY DoneProgress
<1>2. Parses(p, Done(ev), <<>>)
  BY <1>1 DEF Parses
<1>3. \A i \in 0 .. 0 : IsPrefix(p[i].got, ev)
  BY PrefixOfItself DEF Done
<1> HIDE DEF p
<1> QED
  BY <1>1, <1>2, <1>3 DEF Yields

\* What is read has been read.
LEMMA YieldsPrefix ==
    ASSUME NEW st, NEW s \in Seq(Frame), NEW ev, Yields(st, s, ev)
    PROVE  st \in Progress /\ IsPrefix(st.got, ev)
  BY LenProperties DEF Yields, Parses

LEMMA YieldsEnd ==
    ASSUME NEW st, NEW ev, Yields(st, <<>>, ev)
    PROVE  st = Done(ev)
  BY DEF Yields, Parses

\* One line is read.
LEMMA YieldsTail ==
    ASSUME NEW st, NEW s \in Seq(Frame), s # <<>>, NEW ev, Yields(st, s, ev)
    PROVE  Yields(After(st, s[1]), Tail(s), ev)
<1>1. /\ Len(s) \in Nat \ {0} /\ Len(Tail(s)) = Len(s) - 1
      /\ \A i \in 1 .. Len(s) - 1 : Tail(s)[i] = s[i + 1]
  BY FirstLine
<1>2. PICK p \in [0 .. Len(s) -> Progress] :
        /\ Parses(p, st, s) /\ p[Len(s)] = Done(ev)
        /\ \A i \in 0 .. Len(s) : IsPrefix(p[i].got, ev)
  BY DEF Yields
<1> DEFINE q == [i \in 0 .. Len(s) - 1 |-> p[i + 1]]
<1>3. q \in [0 .. Len(Tail(s)) -> Progress]
  BY <1>1
<1>4. \A i \in 0 .. Len(s) - 1 : q[i] = p[i + 1]
  OBVIOUS
<1> HIDE DEF q
<1>5. q[0] = After(st, s[1])
  BY <1>1, <1>2, <1>4 DEF Parses
<1>6. ASSUME NEW i \in 1 .. Len(Tail(s)) PROVE q[i] = After(q[i - 1], Tail(s)[i])
  <2>1. /\ i + 1 \in 1 .. Len(s) /\ (i + 1) - 1 = i /\ (i - 1) + 1 = i
        /\ i \in 1 .. Len(s) - 1 /\ i - 1 \in 0 .. Len(s) - 1 /\ i \in 0 .. Len(s) - 1
    BY <1>1, <1>6
  <2>2. p[i + 1] = After(p[i], s[i + 1])
    BY <1>2, <2>1 DEF Parses
  <2>3. q[i] = p[i + 1] /\ q[i - 1] = p[i] /\ Tail(s)[i] = s[i + 1]
    BY <1>1, <1>4, <2>1
  <2> QED
    BY <2>2, <2>3
<1>7. q[Len(Tail(s))] = Done(ev)
  <2>1. Len(s) - 1 \in 0 .. Len(s) - 1 /\ (Len(s) - 1) + 1 = Len(s)
    BY <1>1
  <2> QED
    BY <1>1, <1>2, <1>4, <2>1
<1>8. \A i \in 0 .. Len(Tail(s)) : IsPrefix(q[i].got, ev)
  <2>1. \A i \in 0 .. Len(s) - 1 : i + 1 \in 0 .. Len(s)
    BY <1>1
  <2> QED
    BY <1>1, <1>2, <1>4, <2>1
<1> QED
  BY <1>3, <1>5, <1>6, <1>7, <1>8 DEF Yields, Parses

\* What is written later is read later.
LEMMA YieldsConcat ==
    ASSUME NEW st, NEW s \in Seq(Frame), NEW u \in Seq(Frame), NEW ev, NEW more,
           Yields(st, s, ev), Yields(Done(ev), u, more),
           \A g \in Seq(Event) : IsPrefix(g, ev) => IsPrefix(g, more)
    PROVE  Yields(st, s \o u, more)
<1>1. /\ s \o u \in Seq(Frame) /\ Len(s \o u) = Len(s) + Len(u)
      /\ \A i \in 1 .. Len(s) + Len(u) : (s \o u)[i] = IF i <= Len(s) THEN s[i] ELSE u[i - Len(s)]
      /\ Len(s) \in Nat /\ Len(u) \in Nat
  BY ConcatProperties, LenProperties
<1>2. PICK p \in [0 .. Len(s) -> Progress] :
        /\ Parses(p, st, s) /\ p[Len(s)] = Done(ev)
        /\ \A i \in 0 .. Len(s) : IsPrefix(p[i].got, ev)
  BY DEF Yields
<1>3. PICK r \in [0 .. Len(u) -> Progress] :
        /\ Parses(r, Done(ev), u) /\ r[Len(u)] = Done(more)
        /\ \A i \in 0 .. Len(u) : IsPrefix(r[i].got, more)
  BY DEF Yields
<1> DEFINE q == [i \in 0 .. Len(s) + Len(u) |-> IF i <= Len(s) THEN p[i] ELSE r[i - Len(s)]]
<1>4. \A i \in 0 .. Len(s) + Len(u) :
         i \in 0 .. Len(s) \/ (~ (i <= Len(s)) /\ i - Len(s) \in 1 .. Len(u))
  BY <1>1
<1>5. q \in [0 .. Len(s \o u) -> Progress]
  <2>1. 1 .. Len(u) \subseteq 0 .. Len(u)
    BY <1>1
  <2> QED
    BY <1>1, <1>2, <1>3, <1>4, <2>1
<1>6. \A i \in 0 .. Len(s) + Len(u) : q[i] = IF i <= Len(s) THEN p[i] ELSE r[i - Len(s)]
  OBVIOUS
<1> HIDE DEF q
<1>7. \A i \in 0 .. Len(s) : q[i] = p[i]
  BY <1>1, <1>6
<1>8. \A i \in 0 .. Len(u) : q[Len(s) + i] = r[i]
  <2>1. ASSUME NEW i \in 0 .. Len(u) PROVE q[Len(s) + i] = r[i]
    <3>1. CASE i = 0
      BY <1>1, <1>2, <1>3, <1>7, <3>1 DEF Parses
    <3>2. CASE i # 0
      <4>1. Len(s) + i \in 0 .. Len(s) + Len(u) /\ ~ (Len(s) + i <= Len(s)) /\ (Len(s) + i) - Len(s) = i
        BY <1>1, <3>2
      <4> QED
        BY <1>6, <4>1
    <3> QED
      BY <3>1, <3>2
  <2> QED
    BY <2>1
<1>9. Parses(q, st, s \o u)
  <2>1. q[0] = st
    BY <1>1, <1>2, <1>7 DEF Parses
  <2>2. ASSUME NEW i \in 1 .. Len(s \o u) PROVE q[i] = After(q[i - 1], (s \o u)[i])
    <3>1. CASE i <= Len(s)
      <4>1. i \in 1 .. Len(s) /\ i \in 0 .. Len(s) /\ i - 1 \in 0 .. Len(s) /\ i \in 1 .. Len(s) + Len(u)
        BY <1>1, <3>1
      <4>2. p[i] = After(p[i - 1], s[i]) /\ (s \o u)[i] = s[i]
        BY <1>1, <1>2, <3>1, <4>1 DEF Parses
      <4> QED
        BY <1>7, <4>1, <4>2
    <3>2. CASE ~ (i <= Len(s))
      <4>1. PICK j \in 1 .. Len(u) : i = Len(s) + j
        <5>1. i - Len(s) \in 1 .. Len(u) /\ i = Len(s) + (i - Len(s))
          BY <1>1, <3>2
        <5> QED
          BY <5>1
      <4>2. /\ j \in 0 .. Len(u) /\ j - 1 \in 0 .. Len(u) /\ i - 1 = Len(s) + (j - 1)
            /\ i - Len(s) = j /\ i \in 1 .. Len(s) + Len(u)
        BY <1>1, <4>1
      <4>3. r[j] = After(r[j - 1], u[j]) /\ (s \o u)[i] = u[j]
        BY <1>1, <1>3, <3>2, <4>2 DEF Parses
      <4>4. q[i] = r[j] /\ q[i - 1] = r[j - 1]
        BY <1>8, <4>1, <4>2
      <4> QED
        BY <4>3, <4>4
    <3> QED
      BY <3>1, <3>2
  <2> QED
    BY <1>5, <2>1, <2>2 DEF Parses
<1>10. q[Len(s \o u)] = Done(more)
  BY <1>1, <1>3, <1>8
<1>11. ASSUME NEW i \in 0 .. Len(s \o u) PROVE IsPrefix(q[i].got, more)
  <2>1. CASE i <= Len(s)
    <3>1. i \in 0 .. Len(s) /\ p[i].got \in Seq(Event)
      BY <1>1, <2>1 DEF Progress
    <3> QED
      BY <1>2, <1>7, <3>1
  <2>2. CASE ~ (i <= Len(s))
    <3>1. i - Len(s) \in 0 .. Len(u) /\ i = Len(s) + (i - Len(s))
      BY <1>1, <2>2
    <3> QED
      BY <1>3, <1>8, <3>1
  <2> QED
    BY <2>1, <2>2
<1> QED
  BY <1>5, <1>9, <1>10, <1>11 DEF Yields

\* A reply is no push, nor is a block that follows it.
LEMMA YieldsReply ==
    ASSUME NEW u \in Seq(Frame), \A i \in 1 .. Len(u) : u[i].code \notin Async,
           NEW ev \in Seq(Event)
    PROVE  Yields(Done(ev), u, ev)
<1> DEFINE p == [i \in 0 .. Len(u) |-> Done(ev)]
<1>1. Len(u) \in Nat
  BY LenProperties
<1>2. Done(ev) \in Progress /\ ~ Done(ev).open /\ Done(ev).got = ev
  BY DoneProgress DEF Done
<1>3. \A i \in 1 .. Len(u) : After(Done(ev), u[i]) = Done(ev)
  BY <1>2 DEF After, Async
<1> HIDE DEF Done
<1>4. p \in [0 .. Len(u) -> Progress] /\ \A i \in 0 .. Len(u) : p[i] = Done(ev)
  BY <1>2
<1> HIDE DEF p
<1>5. Parses(p, Done(ev), u)
  <2>1. \A i \in 1 .. Len(u) : i \in 0 .. Len(u) /\ i - 1 \in 0 .. Len(u)
    BY <1>1
  <2> QED
    BY <1>1, <1>3, <1>4, <2>1 DEF Parses
<1>6. p[Len(u)] = Done(ev) /\ \A i \in 0 .. Len(u) : IsPrefix(p[i].got, ev)
  BY <1>1, <1>2, <1>4, PrefixOfItself
<1> QED
  BY <1>4, <1>5, <1>6 DEF Yields

\* A drop notice is one line.
LEMMA YieldsNotice ==
    ASSUME NEW ev \in Seq(Event)
    PROVE  Yields(Done(ev), <<Status("102", 0)>>, Append(ev, [code |-> "102", text |-> <<>>]))
<1> DEFINE notice == [code |-> "102", text |-> <<>>]
           u == <<Status("102", 0)>>
           p == [i \in 0 .. 1 |-> IF i = 0 THEN Done(ev) ELSE Done(Append(ev, notice))]
<1>1. notice \in Event
  BY EmptyLine DEF Event, Async
<1>2. Append(ev, notice) \in Seq(Event)
  BY <1>1
<1>3. /\ Done(ev) \in Progress /\ Done(Append(ev, notice)) \in Progress
      /\ Done(ev).got = ev /\ Done(Append(ev, notice)).got = Append(ev, notice)
  BY <1>2, DoneProgress DEF Done
<1>4. u[1] = Status("102", 0) /\ Len(u) = 1
  OBVIOUS
<1>5. After(Done(ev), Status("102", 0)) = Done(Append(ev, notice))
  BY DEF After, Done, Status
<1>6. IsPrefix(ev, Append(ev, notice)) /\ IsPrefix(Append(ev, notice), Append(ev, notice))
  BY <1>1, <1>2, PrefixOfItself, PrefixOfMore
<1> HIDE DEF notice, u
<1>7. /\ p \in [0 .. 1 -> Progress] /\ p[0] = Done(ev) /\ p[1] = Done(Append(ev, notice))
  BY <1>3
<1> HIDE DEF p
<1>8. Parses(p, Done(ev), u)
  <2>1. \A i \in 1 .. 1 : p[i] = After(p[i - 1], u[i])
    BY <1>4, <1>5, <1>7
  <2> QED
    BY <1>4, <1>7, <2>1 DEF Parses
<1>9. ASSUME NEW i \in 0 .. 1 PROVE IsPrefix(p[i].got, Append(ev, notice))
  <2>1. CASE i = 0
    BY <1>3, <1>6, <1>7, <2>1, Zenon
  <2>2. CASE i = 1
    BY <1>3, <1>6, <1>7, <2>2, Zenon
  <2> QED
    BY <2>1, <2>2
<1> QED
  BY <1>4, <1>7, <1>8, <1>9 DEF Yields, notice, u

\* A longer part of a body.
LEMMA OneMoreLine ==
    ASSUME NEW b \in Seq(Line), NEW i \in 1 .. Len(b)
    PROVE  /\ SubSeq(b, 1, i - 1) \in Seq(Line) /\ SubSeq(b, 1, i) \in Seq(Line)
           /\ Append(SubSeq(b, 1, i - 1), b[i]) = SubSeq(b, 1, i)
<1>1. Len(b) \in Nat /\ \A j \in 1 .. Len(b) : b[j] \in Line
  BY LenProperties, ElementOfSeq
<1>2. 1 \in 1 .. Len(b) /\ i \in 1 .. Len(b)
  BY <1>1
<1>3. SubSeq(b, 1, i) = SubSeq(b, 1, i - 1) \o <<b[i]>>
  BY <1>2, SubSeqRecursiveSecond
<1>4. SubSeq(b, 1, i - 1) \in Seq(Line) /\ SubSeq(b, 1, i) \in Seq(Line)
  <2>1. /\ \A j \in 1 .. i - 1 : b[j] \in Line
        /\ \A j \in 1 .. i : b[j] \in Line
    BY <1>1
  <2> QED
    BY <1>1, <2>1, SubSeqProperties
<1> QED
  BY <1>1, <1>3, <1>4, AppendIsConcat

\* A delivery is read as what was delivered: unstuffed, and to its end.
LEMMA YieldsPush ==
    ASSUME NEW b \in Seq(Line), NEW ev \in Seq(Event)
    PROVE  Yields(Done(ev),
                  <<Status("101", 0)>> \o [i \in DOMAIN Encode(b) |-> Text(Encode(b)[i])],
                  Append(ev, [code |-> "101", text |-> b]))
<1> DEFINE push == [code |-> "101", text |-> b]
           frames == <<Status("101", 0)>> \o [i \in DOMAIN Encode(b) |-> Text(Encode(b)[i])]
           At(i) == [open |-> TRUE, text |-> SubSeq(b, 1, i - 1), got |-> ev]
           p == [i \in 0 .. Len(b) + 2 |-> IF i = 0 THEN Done(ev)
                                           ELSE IF i = Len(b) + 2 THEN Done(Append(ev, push))
                                           ELSE At(i)]
<1>1. /\ frames \in Seq(Frame) /\ Len(frames) = Len(b) + 2
      /\ frames[1] = Status("101", 0)
      /\ \A i \in 1 .. Len(b) : frames[i + 1] = Text(Stuff(b[i]))
      /\ frames[Len(b) + 2] = Text(Terminator)
  BY DeliveryFrames
<1>2. Len(b) \in Nat /\ \A i \in 1 .. Len(b) : b[i] \in Line
  BY LenProperties, ElementOfSeq
<1>3. push \in Event
  BY DEF Event, Async
<1>4. Append(ev, push) \in Seq(Event) /\ IsPrefix(ev, ev)
      /\ IsPrefix(ev, Append(ev, push)) /\ IsPrefix(Append(ev, push), Append(ev, push))
  <2>1. Append(ev, push) \in Seq(Event)
    BY <1>3
  <2> QED
    BY <1>3, <2>1, PrefixOfItself, PrefixOfMore
<1>5. Done(ev) \in Progress /\ Done(Append(ev, push)) \in Progress
  BY <1>4, DoneProgress
<1>6. ASSUME NEW i \in 1 .. Len(b) + 1 PROVE At(i) \in Progress
  <2>1. SubSeq(b, 1, i - 1) \in Seq(Line)
    <3>1. \A j \in 1 .. i - 1 : b[j] \in Line
      BY <1>2
    <3> QED
      BY <3>1, SubSeqProperties
  <2> QED
    BY <2>1 DEF Progress
\* The status line opens the block.
<1>7. After(Done(ev), frames[1]) = At(1)
  <2>1. SubSeq(b, 1, 1 - 1) = <<>>
    BY SubSeqEmpty
  <2>2. After(Done(ev), Status("101", 0)) = [open |-> TRUE, text |-> <<>>, got |-> ev]
    BY DEF After, Done, Status
  <2> QED
    BY <1>1, <2>1, <2>2 DEF Done
\* A line adds what was stuffed.
<1>8. ASSUME NEW i \in 1 .. Len(b) PROVE After(At(i), frames[i + 1]) = At(i + 1)
  <2>1. Stuff(b[i]) # Terminator /\ Unstuff(Stuff(b[i])) = b[i]
    BY <1>2, StuffLine
  <2>2. Append(SubSeq(b, 1, i - 1), b[i]) = SubSeq(b, 1, i) /\ (i + 1) - 1 = i
    BY <1>2, OneMoreLine
  <2>3. After(At(i), Text(Stuff(b[i]))) =
          [open |-> TRUE, text |-> Append(SubSeq(b, 1, i - 1), b[i]), got |-> ev]
    BY <2>1 DEF After, Text
  <2>4. frames[i + 1] = Text(Stuff(b[i]))
    BY <1>1
  <2> QED
    BY <2>2, <2>3, <2>4
\* The terminator closes it.
<1>9. After(At(Len(b) + 1), frames[Len(b) + 2]) = Done(Append(ev, push))
  <2>1. SubSeq(b, 1, (Len(b) + 1) - 1) = b
    BY <1>2, SubSeqFull
  <2>2. After(At(Len(b) + 1), Text(Terminator)) =
          Done(Append(ev, [code |-> "101", text |-> SubSeq(b, 1, (Len(b) + 1) - 1)]))
    BY DEF After, Text
  <2> QED
    BY <1>1, <2>1, <2>2
<1>10. At(1).got = ev /\ Done(ev).got = ev /\ Done(Append(ev, push)).got = Append(ev, push)
       /\ \A i \in 1 .. Len(b) + 1 : At(i).got = ev
  BY DEF Done
<1> HIDE DEF At, frames, push
<1>11. /\ p[0] = Done(ev) /\ p[Len(b) + 2] = Done(Append(ev, push))
       /\ \A i \in 1 .. Len(b) + 1 : p[i] = At(i)
  BY <1>2
<1>12. p \in [0 .. Len(b) + 2 -> Progress]
  <2>1. ASSUME NEW i \in 0 .. Len(b) + 2, i # 0, i # Len(b) + 2 PROVE i \in 1 .. Len(b) + 1
    BY <1>2, <2>1
  <2> QED
    BY <1>5, <1>6, <2>1
<1> HIDE DEF p
<1>13. ASSUME NEW i \in 1 .. Len(b) + 2 PROVE p[i] = After(p[i - 1], frames[i])
  <2>1. CASE i = 1
    BY <1>2, <1>7, <1>11, <2>1
  <2>2. CASE i = Len(b) + 2
    <3>1. i - 1 = Len(b) + 1 /\ Len(b) + 1 \in 1 .. Len(b) + 1
      BY <1>2, <2>2
    <3> QED
      BY <1>9, <1>11, <2>2, <3>1
  <2>3. CASE i # 1 /\ i # Len(b) + 2
    <3>1. PICK j \in 1 .. Len(b) : i = j + 1
      <4>1. i - 1 \in 1 .. Len(b) /\ i = (i - 1) + 1
        BY <1>2, <2>3
      <4> QED
        BY <4>1
    <3>2. j \in 1 .. Len(b) + 1 /\ j + 1 \in 1 .. Len(b) + 1 /\ i - 1 = j
      BY <1>2, <3>1
    <3>3. p[j + 1] = At(j + 1) /\ p[j] = At(j)
      BY <1>11, <3>2
    <3> QED
      BY <1>8, <3>1, <3>2, <3>3
  <2> QED
    BY <2>1, <2>2, <2>3
<1>14. Parses(p, Done(ev), frames)
  BY <1>1, <1>11, <1>12, <1>13 DEF Parses
<1>15. ASSUME NEW i \in 0 .. Len(b) + 2 PROVE IsPrefix(p[i].got, Append(ev, push))
  <2>1. CASE i = 0
    BY <1>4, <1>10, <1>11, <2>1, Zenon
  <2>2. CASE i = Len(b) + 2
    BY <1>4, <1>10, <1>11, <2>2, Zenon
  <2>3. CASE i \in 1 .. Len(b) + 1
    BY <1>4, <1>10, <1>11, <2>3, Zenon
  <2> QED
    BY <1>2, <2>1, <2>2, <2>3
<1> QED
  BY <1>1, <1>11, <1>12, <1>14, <1>15 DEF Yields, frames, push

-----------------------------------------------------------------------------
(* The pushes arrive whole and in order.                                   *)

LEMMA TypeFacts ==
    ASSUME TypeInv
    PROVE  /\ block \in Block /\ (block.code = "none" => block = NoBlock)
           /\ events \in Seq(Event) /\ pending \in Seq(Event) /\ pushed \in Seq(Event)
           /\ phase \in {"idle", "reply", "invite", "accept", "event"}
           /\ mode \in {"serve", "body", "done"}
           /\ toSend \in Seq(Line) /\ body \in Seq(Line) /\ lines \in Seq(Line)
           /\ up \in Seq(UpLine) /\ down \in Seq(Frame) /\ out \in Seq(Frame)
           /\ call \in Nat /\ total \in Nat
           /\ posted \in [call : Nat, body : Seq(Line)]
           /\ result \in [call : Nat, for : Nat, code : Code]
  BY TypeParts DEF ClientOK, StreamOK, DaemonOK, HistoryOK

LEMMA NoBlockCode == NoBlock.code = "none" /\ NoBlock.text = <<>>
  BY DEF NoBlock

LEMMA EncodeNotEmpty == ASSUME NEW b \in Seq(Line) PROVE Encode(b) # <<>>
  BY EncodeBody, EmptySeq, LenProperties

LEMMA LibraryStep == ASSUME TypeInv, LibraryInv, [Next]_vars PROVE LibraryInv'
<1>1. /\ phase = "event" => pending = <<>>
      /\ phase = "idle" \/ toSend # <<>> => block = NoBlock
      /\ phase \in {"idle", "event"} => toSend = <<>>
  BY DEF LibraryInv
<1>2. ASSUME UNCHANGED clientVars PROVE LibraryInv'
  BY <1>1, <1>2 DEF LibraryInv, clientVars
<1>3. ASSUME NEW v, NEW b, Call(v, b) PROVE LibraryInv'
  BY <1>1, <1>3 DEF Call, LibraryInv
<1>4. ASSUME NextEvent PROVE LibraryInv'
  BY <1>1, <1>4 DEF NextEvent, LibraryInv
<1>5. ASSUME Send PROVE LibraryInv'
  BY <1>1, <1>5 DEF Send, LibraryInv
<1>6. ASSUME ReadClosed \/ DropNextEvent PROVE LibraryInv'
  BY <1>1, <1>6 DEF ReadClosed, DropNextEvent, Return, LibraryInv
<1>7. ASSUME ReadLine PROVE LibraryInv'
  <2>1. phase # "idle" /\ toSend = <<>>
    BY <1>7 DEF ReadLine
  <2>2. ASSUME NEW ev, Push(ev) PROVE phase' \in {phase, "idle"} /\ (phase' = "event" => pending' = <<>>)
    BY <1>1, <2>2 DEF Push, Buffer
  <2>3. CASE ReadBlock(Head(down))
    <3>1. CASE Head(down).text # Terminator
      BY <1>1, <2>1, <2>3, <3>1 DEF ReadBlock, LibraryInv
    <3>2. CASE Head(down).text = Terminator
      BY <1>1, <2>1, <2>2, <2>3, <3>2 DEF ReadBlock, Return, LibraryInv
    <3> QED
      BY <3>1, <3>2
  <2>4. CASE ReadPush(Head(down))
    <3>1. CASE Head(down).code = "101"
      BY <1>1, <2>1, <2>4, <3>1 DEF ReadPush, LibraryInv
    <3>2. CASE Head(down).code # "101"
      BY <1>1, <2>1, <2>2, <2>4, <3>2 DEF ReadPush, LibraryInv
    <3> QED
      BY <3>1, <3>2
  <2>5. CASE ReadStatus(Head(down))
    BY <1>1, <2>1, <2>5 DEF ReadStatus, Return, LibraryInv
  <2> QED
    BY <1>7, <2>3, <2>4, <2>5 DEF ReadLine
<1>8. ASSUME Deliver \/ Daemon PROVE UNCHANGED clientVars
  BY <1>8 DEF Deliver, Daemon, Flush, Simple, List, Quit, PublishRefused, PublishInvited,
              BadCommand, BodyLine, BodyEnd, BodyLineTooLong, TakeCommand, TakeBodyLine
<1>9. ASSUME UNCHANGED vars PROVE UNCHANGED clientVars
  BY <1>9 DEF vars
<1> QED
  BY <1>2, <1>3, <1>4, <1>5, <1>6, <1>7, <1>8, <1>9 DEF Next

\* A push is the next event, buffered or returned.
LEMMA PushAppends ==
    ASSUME TypeInv, LibraryInv, NEW ev \in Event, Push(ev)
    PROVE  events' \o pending' = Append(events \o pending, ev)
<1>1. events \in Seq(Event) /\ pending \in Seq(Event)
  BY TypeFacts
<1>2. CASE phase = "event"
  <2>1. pending = <<>> /\ pending' = <<>> /\ events' = Append(events, ev)
    BY <1>2 DEF Push, LibraryInv
  <2>2. Append(events, ev) \in Seq(Event)
    BY <1>1
  <2>3. Append(events, ev) \o <<>> = Append(events, ev) /\ events \o <<>> = events
    BY <1>1, <2>2, ConcatEmptySeq
  <2> QED
    BY <2>1, <2>3
<1>3. CASE phase # "event"
  <2>1. UNCHANGED events /\ pending' = Append(pending, ev)
    BY <1>3 DEF Push, Buffer
  <2>2. <<ev>> \in Seq(Event) /\ events \o pending \in Seq(Event)
    BY <1>1
  <2>3. Append(pending, ev) = pending \o <<ev>>
    BY <1>1, AppendIsConcat
  <2>4. Append(events \o pending, ev) = (events \o pending) \o <<ev>>
    BY <2>2, AppendIsConcat
  <2> QED
    BY <1>1, <2>1, <2>2, <2>3, <2>4, ConcatAssociative
<1> QED
  BY <1>2, <1>3

LEMMA NowProgress == ASSUME TypeInv PROVE Now \in Progress
<1>1. events \o pending \in Seq(Event) /\ block.text \in Seq(Line)
  BY TypeFacts DEF Block
<1> QED
  BY <1>1, EmptyLine DEF Now, Progress

\* The library reads a line as a reader of pushes does.
LEMMA ReadAdvances ==
    ASSUME TypeInv, LibraryInv, ReadLine, Whole(block # NoBlock, Coming)
    PROVE  /\ Now' = After(Now, Head(down))
           /\ block' # NoBlock => Opens(Head(down))
<1> DEFINE item == Head(down)
<1>1. /\ item.text \in Line /\ item.code \in Code
      /\ item.code # "text" => item.text = <<>>
  BY TypeParts, ReadFrame DEF ReadLine
<1>2. block # NoBlock => item.code = "text"
  <2>1. Coming # <<>> /\ Coming[1] = item /\ Coming \in Seq(Frame)
    BY ReadComing, ComingFrames DEF ReadLine, daemonVars
  <2> QED
    BY <2>1, RestOfBlocks
<1>3. /\ block \in Block /\ (block.code = "none" => block = NoBlock)
      /\ NoBlock.code = "none" /\ NoBlock.text = <<>>
  BY TypeFacts, NoBlockCode
<1>4. phase # "idle" /\ (ReadBlock(item) \/ ReadPush(item) \/ ReadStatus(item))
  BY DEF ReadLine
<1> HIDE DEF item
\* A line of a block, or its end.
<1>5. CASE block # NoBlock /\ item.text # Terminator
  <2>1. /\ block' = [block EXCEPT !.text = Append(@, Unstuff(item.text))]
        /\ UNCHANGED <<pending, events>>
    BY <1>4, <1>5 DEF ReadBlock, ReadPush, ReadStatus
  <2>2. block'.code = block.code /\ block'.text = Append(block.text, Unstuff(item.text))
    BY <1>3, <2>1 DEF Block
  <2>3. Now' = After(Now, item)
    BY <1>2, <1>5, <2>1, <2>2 DEF Now, After
  <2> QED
    BY <1>2, <1>5, <2>3 DEF Opens, item
<1>6. CASE block # NoBlock /\ item.text = Terminator
  <2>1. /\ block' = NoBlock
        /\ IF block.code = "101" THEN Push([code |-> block.code, text |-> block.text])
                                 ELSE UNCHANGED <<pending, events>>
    BY <1>4, <1>6 DEF ReadBlock, ReadPush, ReadStatus
  <2>2. CASE block.code = "101"
    <3>1. [code |-> "101", text |-> block.text] \in Event
      BY <1>3 DEF Block, Event, Async
    <3>2. Push([code |-> "101", text |-> block.text])
      BY <2>1, <2>2
    <3>3. events' \o pending' = Append(events \o pending, [code |-> "101", text |-> block.text])
      BY <3>1, <3>2, PushAppends
    <3>4. After(Now, item) = Done(Append(events \o pending, [code |-> "101", text |-> block.text]))
      BY <1>6, <2>2 DEF After, Now
    <3>5. Now' = Done(events' \o pending')
      BY <1>3, <2>1 DEF Now, Done
    <3> QED
      BY <2>1, <3>3, <3>4, <3>5 DEF item
  <2>3. CASE block.code # "101"
    <3>1. Now' = Now
      BY <1>3, <2>1, <2>3 DEF Now
    <3>2. After(Now, item) = Now
      BY <1>2, <1>6, <2>3 DEF After, Now
    <3> QED
      BY <2>1, <3>1, <3>2 DEF item
  <2> QED
    BY <2>2, <2>3
\* A status line.
<1>7. CASE block = NoBlock /\ item.code = "101"
  <2>1. block' = item /\ UNCHANGED <<pending, events>>
    BY <1>4, <1>7 DEF ReadBlock, ReadPush, ReadStatus, Async
  <2>2. Now' = [open |-> TRUE, text |-> <<>>, got |-> events \o pending]
    BY <1>1, <1>7, <2>1 DEF Now
  <2>3. After(Now, item) = [open |-> TRUE, text |-> <<>>, got |-> events \o pending]
    BY <1>3, <1>7 DEF After, Now
  <2> QED
    BY <1>7, <2>2, <2>3 DEF Opens, item
<1>8. CASE block = NoBlock /\ item.code = "102"
  <2>1. Push([code |-> "102", text |-> <<>>]) /\ UNCHANGED block
    BY <1>4, <1>8 DEF ReadBlock, ReadPush, ReadStatus, Async
  <2>2. [code |-> "102", text |-> <<>>] \in Event
    BY EmptyLine DEF Event, Async
  <2>3. events' \o pending' = Append(events \o pending, [code |-> "102", text |-> <<>>])
    BY <2>1, <2>2, PushAppends
  <2>4. After(Now, item) = Done(Append(events \o pending, [code |-> "102", text |-> <<>>]))
    BY <1>3, <1>8 DEF After, Now
  <2>5. Now' = Done(events' \o pending')
    BY <1>3, <1>8, <2>1 DEF Now, Done
  <2> QED
    BY <1>8, <2>1, <2>3, <2>4, <2>5 DEF item
<1>9. CASE block = NoBlock /\ item.code \notin {"101", "102"}
  <2>1. UNCHANGED <<pending, events>> /\ (UNCHANGED block \/ (block' = item /\ item.code = "215"))
    BY <1>4, <1>9 DEF ReadBlock, ReadPush, ReadStatus, Return, Async, BlockCodes
  <2>2. block'.code # "101"
    BY <1>3, <1>9, <2>1
  <2>3. Now' = Now
    BY <1>3, <1>9, <2>1, <2>2 DEF Now
  <2>4. After(Now, item) = Now
    BY <1>3, <1>9 DEF After, Now
  <2> QED
    BY <1>9, <2>1, <2>3, <2>4 DEF Opens, item
<1> QED
  BY <1>5, <1>6, <1>7, <1>8, <1>9

\* The actions that answer, by what they answer.
Answer(code, n) ==
    /\ out = <<>> /\ UNCHANGED <<clientVars, down, events, pushed>>
    /\ out' = IF code = "215" THEN <<Status("215", n), Text(<<"name">>), Text(Terminator)>>
                              ELSE <<Status(code, n)>>

\* An answer is one reply and, if it is a listing, the listing's block.
LEMMA Answers ==
    ASSUME TypeInv, NEW code \in {"211", "215", "221", "250", "354", "441", "452", "500"},
           NEW n \in Nat, Answer(code, n)
    PROVE  /\ out' \in Seq(Frame)
           /\ Len(out') \in {1, 3} /\ out'[1].code = code /\ out'[1].call = n
           /\ \A i \in 1 .. Len(out') : (i = 1 /\ out'[i].code = code) \/ out'[i].code = "text"
           /\ Whole(FALSE, out') /\ Proper(FALSE, out')
<1>1. code \in Code \ {"text"}
  BY DEF Code
<1>2. CASE code = "215"
  <2>1. /\ Status("215", n) \in Frame /\ Text(<<"name">>) \in Frame /\ Text(Terminator) \in Frame
        /\ Status("215", n).code = "215" /\ Status("215", n).call = n
        /\ Text(<<"name">>).code = "text" /\ Text(Terminator).code = "text"
        /\ Text(<<"name">>).text # Terminator /\ Text(Terminator).text = Terminator
    <3>1. <<"name">> \in Line /\ <<"name">>[1] = "name" /\ <<Dot>>[1] = "."
      BY DEF Line, Dot
    <3>2. <<"name">> # Terminator
      BY <3>1 DEF Terminator
    <3> QED
      BY <1>1, <1>2, <3>1, <3>2, StatusFrame, TextFrame, TerminatorLine DEF Status, Text
  <2> HIDE DEF Status, Text
  <2>2. /\ out' \in Seq(Frame) /\ Len(out') = 3 /\ out'[1] = Status("215", n)
        /\ out'[2] = Text(<<"name">>) /\ out'[3] = Text(Terminator)
    BY <1>2, <2>1 DEF Answer
  <2>3. \A i \in 2 .. Len(out') : i = 2 \/ i = 3
    BY <2>2
  <2>4. \A i \in 1 .. Len(out') : i = 1 \/ i = 2 \/ i = 3
    BY <2>2
  <2>5. \A i \in 2 .. Len(out') : out'[i].code = "text" /\ (out'[i].text = Terminator <=> i = Len(out'))
    BY <2>1, <2>2, <2>3
  <2>6. Whole(FALSE, out') /\ Proper(FALSE, out')
    <3>1. Len(out') >= 2 /\ out'[1].code \in {"101", "215"}
      BY <2>1, <2>2
    <3> QED
      BY <2>2, <2>5, <3>1, AnswerBlocks
  <2> QED
    BY <1>2, <2>1, <2>2, <2>4, <2>6
<1>3. CASE code # "215"
  <2>1. /\ Status(code, n) \in Frame /\ Status(code, n).code = code /\ Status(code, n).call = n
    BY <1>1, StatusFrame DEF Status
  <2> HIDE DEF Status
  <2>2. out' \in Seq(Frame) /\ Len(out') = 1 /\ out'[1] = Status(code, n)
    BY <1>3, <2>1 DEF Answer
  <2>3. Whole(FALSE, out') /\ Proper(FALSE, out')
    BY <1>3, <2>1, <2>2, AnswerBlocks
  <2>4. \A i \in 1 .. Len(out') : i = 1
    BY <2>2
  <2>5. out'[1].code = code /\ out'[1].call = n
    BY <2>1, <2>2
  <2> QED
    BY <2>2, <2>3, <2>4, <2>5
<1> QED
  BY <1>2, <1>3

LEMMA AnsweringSteps ==
    ASSUME TypeInv, Simple \/ List \/ Quit \/ PublishRefused \/ PublishInvited \/ BadCommand
                      \/ BodyEnd \/ BodyLineTooLong
    PROVE  /\ up # <<>> /\ Head(up).call \in Nat
           /\ \E code \in {"211", "215", "221", "250", "354", "441", "452", "500"} :
                Answer(code, Head(up).call)
<1>1. up # <<>>
  BY DEF Simple, List, Quit, PublishRefused, PublishInvited, BadCommand, BodyEnd, BodyLineTooLong,
         TakeCommand, TakeBodyLine
<1>2. Head(up).call \in Nat
  BY <1>1, TypeParts, TakenLine
<1>3. CASE Simple
  <2>1. Answer("211", Head(up).call)
    BY <1>3 DEF Simple, TakeCommand, Reply, Answer
  <2> QED
    BY <1>1, <1>2, <2>1
<1>4. CASE List
  <2>1. Answer("215", Head(up).call)
    BY <1>4 DEF List, TakeCommand, Reply, Answer
  <2> QED
    BY <1>1, <1>2, <2>1
<1>5. CASE Quit
  <2>1. Answer("221", Head(up).call)
    BY <1>5 DEF Quit, TakeCommand, Reply, Answer
  <2> QED
    BY <1>1, <1>2, <2>1
<1>6. CASE PublishRefused
  <2>1. Answer("441", Head(up).call)
    BY <1>6 DEF PublishRefused, TakeCommand, Reply, Answer
  <2> QED
    BY <1>1, <1>2, <2>1
<1>7. CASE PublishInvited
  <2>1. Answer("354", Head(up).call)
    BY <1>7 DEF PublishInvited, TakeCommand, Answer
  <2> QED
    BY <1>1, <1>2, <2>1
<1>8. CASE BadCommand
  <2>1. Answer("500", Head(up).call)
    BY <1>8 DEF BadCommand, Reply, Answer
  <2> QED
    BY <1>1, <1>2, <2>1
<1>9. CASE BodyEnd
  <2>1. \/ Answer("452", Head(up).call) \/ Answer("250", Head(up).call)
        \/ Answer("441", Head(up).call)
    BY <1>9 DEF BodyEnd, TakeBodyLine, Reply, Answer
  <2> QED
    BY <1>1, <1>2, <2>1
<1>10. CASE BodyLineTooLong
  <2>1. Answer("452", Head(up).call)
    BY <1>10 DEF BodyLineTooLong, TakeBodyLine, Reply, Answer
  <2> QED
    BY <1>1, <1>2, <2>1
<1> QED
  BY <1>1, <1>2, <1>3, <1>4, <1>5, <1>6, <1>7, <1>8, <1>9, <1>10

\* What a delivery adds.
LEMMA DeliverSteps ==
    ASSUME TypeInv, Deliver
    PROVE  /\ out = <<>> /\ UNCHANGED <<clientVars, down, events>>
           /\ out' \in Seq(Frame)
           /\ Whole(FALSE, out') /\ Proper(FALSE, out') /\ Replies(out') = {}
           /\ Yields(Done(pushed), out', pushed')
           /\ \A g \in Seq(Event) : IsPrefix(g, pushed) => IsPrefix(g, pushed')
<1>1. out = <<>> /\ UNCHANGED <<clientVars, down, events>>
  BY DEF Deliver
<1>2. pushed \in Seq(Event)
  BY TypeFacts
<1>3. ASSUME NEW b \in PushBody,
             out' = <<Status("101", 0)>> \o [i \in DOMAIN Encode(b) |-> Text(Encode(b)[i])],
             pushed' = Append(pushed, [code |-> "101", text |-> b])
      PROVE  /\ out' \in Seq(Frame)
             /\ Whole(FALSE, out') /\ Proper(FALSE, out') /\ Replies(out') = {}
             /\ Yields(Done(pushed), out', pushed')
             /\ \A g \in Seq(Event) : IsPrefix(g, pushed) => IsPrefix(g, pushed')
  <2>1. b \in Seq(Line) /\ [code |-> "101", text |-> b] \in Event
    BY ExchangeBodies DEF Event, Async
  <2>2. /\ out' \in Seq(Frame) /\ Len(out') = Len(b) + 2 /\ Len(b) \in Nat
        /\ out'[1] = Status("101", 0)
        /\ \A i \in 1 .. Len(b) : out'[i + 1] = Text(Stuff(b[i]))
        /\ out'[Len(b) + 2] = Text(Terminator)
    BY <1>3, <2>1, DeliveryFrames, LenProperties
  <2>3. ASSUME NEW i \in 2 .. Len(out')
        PROVE  out'[i].code = "text" /\ (out'[i].text = Terminator <=> i = Len(out'))
    <3>1. CASE i = Len(b) + 2
      BY <2>2, <3>1 DEF Text
    <3>2. CASE i # Len(b) + 2
      <4>1. PICK j \in 1 .. Len(b) : i = j + 1
        <5>1. i - 1 \in 1 .. Len(b) /\ i = (i - 1) + 1
          BY <2>2, <3>2
        <5> QED
          BY <5>1
      <4>2. out'[i] = Text(Stuff(b[j])) /\ Stuff(b[j]) # Terminator
        BY <2>1, <2>2, <4>1, StuffLine, ElementOfSeq
      <4> QED
        BY <2>2, <3>2, <4>2 DEF Text
    <3> QED
      BY <3>1, <3>2
  <2>4. out'[1].code = "101"
    BY <2>2 DEF Status
  <2>5. Whole(FALSE, out') /\ Proper(FALSE, out')
    <3>1. Len(out') >= 2 /\ out'[1].code \in {"101", "215"}
      BY <2>2, <2>4
    <3> QED
      BY <2>2, <2>3, <3>1, AnswerBlocks
  <2>6. \A i \in 1 .. Len(out') : i = 1 \/ i \in 2 .. Len(out')
    BY <2>2
  <2>7. Replies(out') = {}
    BY <2>3, <2>4, <2>6 DEF Replies, Async
  <2>8. Yields(Done(pushed), out', pushed')
    BY <1>2, <1>3, <2>1, YieldsPush
  <2>9. \A g \in Seq(Event) : IsPrefix(g, pushed) => IsPrefix(g, pushed')
    BY <1>2, <1>3, <2>1, PrefixOfMore
  <2> QED
    BY <2>2, <2>5, <2>7, <2>8, <2>9
<1>4. ASSUME out' = <<Status("102", 0)>>,
             pushed' = Append(pushed, [code |-> "102", text |-> <<>>])
      PROVE  /\ out' \in Seq(Frame)
             /\ Whole(FALSE, out') /\ Proper(FALSE, out') /\ Replies(out') = {}
             /\ Yields(Done(pushed), out', pushed')
             /\ \A g \in Seq(Event) : IsPrefix(g, pushed) => IsPrefix(g, pushed')
  <2>1. [code |-> "102", text |-> <<>>] \in Event
    BY EmptyLine DEF Event, Async
  <2>2. out' \in Seq(Frame) /\ Len(out') = 1 /\ out'[1].code = "102"
    <3>1. <<Status("102", 0)>> \in Seq(Frame) /\ Len(<<Status("102", 0)>>) = 1
      BY StatusLine DEF Code
    <3> QED
      BY <1>4, <3>1 DEF Status
  <2>3. Whole(FALSE, out') /\ Proper(FALSE, out')
    BY <2>2, AnswerBlocks
  <2>4. Replies(out') = {}
    BY <2>2 DEF Replies, Async
  <2>5. Yields(Done(pushed), out', pushed')
    BY <1>2, <1>4, YieldsNotice
  <2>6. \A g \in Seq(Event) : IsPrefix(g, pushed) => IsPrefix(g, pushed')
    BY <1>2, <1>4, <2>1, PrefixOfMore
  <2> QED
    BY <2>2, <2>3, <2>4, <2>5, <2>6
<1> QED
  BY <1>1, <1>3, <1>4 DEF Deliver

LEMMA BlocksStep == ASSUME EventInv, [Next]_vars PROVE BlocksWhole'
<1>1. TypeInv /\ LibraryInv /\ BlocksWhole
  BY DEF EventInv
<1>2. (block # NoBlock) \in BOOLEAN /\ Coming \in Seq(Frame)
  BY <1>1, ComingFrames
<1>3. ASSUME UNCHANGED <<block, down, out>>, astray \subseteq astray' PROVE BlocksWhole'
  BY <1>1, <1>3 DEF BlocksWhole, Coming
<1>4. ASSUME out = <<>>, UNCHANGED <<block, down>>, astray \subseteq astray',
             out' \in Seq(Frame), Whole(FALSE, out')
      PROVE  BlocksWhole'
  <2>1. Coming' = Coming \o out'
    BY <1>1, <1>4, WriteComing
  <2>2. Whole(block # NoBlock, Coming) => Whole(block # NoBlock, Coming \o out')
    BY <1>2, <1>4, BlocksConcat
  <2>3. (block # NoBlock) <=> (block' # NoBlock)
    BY <1>4
  <2> QED
    BY <1>1, <1>4, <2>1, <2>2, <2>3 DEF BlocksWhole
<1>5. ASSUME Flush PROVE BlocksWhole'
  <2>1. Coming' = Coming
    BY <1>1, <1>5, FlushComing DEF Flush
  <2> QED
    BY <1>1, <1>5, <2>1 DEF Flush, clientVars, histVars, BlocksWhole
<1>6. ASSUME Simple \/ List \/ Quit \/ PublishRefused \/ PublishInvited \/ BadCommand
               \/ BodyEnd \/ BodyLineTooLong
      PROVE  BlocksWhole'
  <2>1. PICK code \in {"211", "215", "221", "250", "354", "441", "452", "500"} :
          Answer(code, Head(up).call) /\ Head(up).call \in Nat
    BY <1>1, <1>6, AnsweringSteps
  <2>2. out' \in Seq(Frame) /\ Whole(FALSE, out')
    BY <1>1, <2>1, Answers
  <2>3. astray \subseteq astray'
    BY <1>6 DEF Simple, List, Quit, PublishRefused, PublishInvited, BadCommand, BodyEnd,
                BodyLineTooLong, TakeCommand
  <2> QED
    BY <1>4, <2>1, <2>2, <2>3 DEF Answer, clientVars
<1>7. ASSUME Deliver PROVE BlocksWhole'
  <2>1. out = <<>> /\ UNCHANGED <<block, down, astray>> /\ out' \in Seq(Frame) /\ Whole(FALSE, out')
    BY <1>1, <1>7, DeliverSteps DEF clientVars, Deliver
  <2> QED
    BY <1>4, <2>1
<1>8. ASSUME ReadLine PROVE BlocksWhole'
  <2>1. /\ Coming # <<>> /\ Coming[1] = Head(down) /\ Coming' = Tail(Coming) /\ UNCHANGED astray
    BY <1>1, <1>8, ReadComing DEF ReadLine, daemonVars
  <2>2. ASSUME Whole(block # NoBlock, Coming) PROVE Whole(block' # NoBlock, Tail(Coming))
    <3>1. Whole(Opens(Head(down)), Tail(Coming))
      BY <1>2, <2>1, <2>2, RestOfBlocks
    <3>2. Whole(FALSE, Tail(Coming))
      BY <3>1, WholeWithout
    <3>3. block' # NoBlock => Opens(Head(down))
      BY <1>1, <1>8, <2>2, ReadAdvances
    <3> QED
      BY <3>1, <3>2, <3>3 DEF Whole, OpenAfter
  <2> QED
    BY <1>1, <2>1, <2>2 DEF BlocksWhole
<1>9. ASSUME ReadClosed PROVE BlocksWhole'
  <2>1. UNCHANGED <<down, out, astray>> /\ block' = NoBlock
    BY <1>9 DEF ReadClosed, daemonVars
  <2>2. Coming' = Coming
    BY <2>1 DEF Coming
  <2>3. Whole(block # NoBlock, Coming) => Whole(FALSE, Coming)
    BY WholeWithout
  <2>4. (block' # NoBlock) <=> FALSE
    BY <2>1
  <2> QED
    BY <1>1, <2>1, <2>2, <2>3, <2>4 DEF BlocksWhole
<1>10. ASSUME DropNextEvent PROVE BlocksWhole'
  <2>1. "torn" \in astray' \/ UNCHANGED <<block, down, out, astray>>
    BY <1>10 DEF DropNextEvent, daemonVars
  <2> QED
    BY <1>3, <2>1 DEF BlocksWhole
<1>11. ASSUME NextEvent PROVE BlocksWhole'
  BY <1>3, <1>11 DEF NextEvent, daemonVars
<1>12. ASSUME NEW v, NEW b, Call(v, b) PROVE BlocksWhole'
  BY <1>3, <1>12 DEF Call, daemonVars, histVars
<1>13. ASSUME Send PROVE BlocksWhole'
  BY <1>3, <1>13 DEF Send, daemonVars, histVars
<1>14. ASSUME BodyLine PROVE BlocksWhole'
  BY <1>3, <1>14 DEF BodyLine, TakeBodyLine, clientVars
<1>15. ASSUME UNCHANGED vars PROVE BlocksWhole'
  BY <1>3, <1>15 DEF vars, clientVars, daemonVars, histVars
<1> QED
  BY <1>5, <1>6, <1>7, <1>8, <1>9, <1>10, <1>11, <1>12, <1>13, <1>14, <1>15 DEF Next, Daemon

LEMMA EventsStep == ASSUME EventInv, [Next]_vars PROVE EventsKept'
<1>1. TypeInv /\ LibraryInv /\ BlocksWhole /\ EventsKept
  BY DEF EventInv
<1>2. Coming \in Seq(Frame) /\ Now \in Progress /\ pushed \in Seq(Event)
  BY <1>1, ComingFrames, NowProgress, TypeFacts
<1>3. ASSUME UNCHANGED <<down, out, pushed>>, Now' = Now, astray \subseteq astray' PROVE EventsKept'
  BY <1>1, <1>3 DEF EventsKept, Coming
<1>4. ASSUME UNCHANGED <<block, pending, events>> PROVE Now' = Now
  BY <1>4 DEF Now
<1>5. ASSUME out = <<>>, UNCHANGED <<block, down, pending, events>>, astray \subseteq astray',
             out' \in Seq(Frame), Yields(Done(pushed), out', pushed'),
             \A g \in Seq(Event) : IsPrefix(g, pushed) => IsPrefix(g, pushed')
      PROVE  EventsKept'
  <2>1. Coming' = Coming \o out' /\ Now' = Now
    BY <1>1, <1>4, <1>5, WriteComing
  <2>2. Yields(Now, Coming, pushed) => Yields(Now, Coming \o out', pushed')
    BY <1>2, <1>5, YieldsConcat
  <2> QED
    BY <1>1, <1>5, <2>1, <2>2 DEF EventsKept
<1>6. ASSUME Flush PROVE EventsKept'
  <2>1. Coming' = Coming
    BY <1>1, <1>6, FlushComing DEF Flush
  <2>2. Now' = Now /\ UNCHANGED <<pushed, astray>>
    BY <1>4, <1>6 DEF Flush, clientVars, histVars
  <2> QED
    BY <1>1, <2>1, <2>2 DEF EventsKept
<1>7. ASSUME Simple \/ List \/ Quit \/ PublishRefused \/ PublishInvited \/ BadCommand
               \/ BodyEnd \/ BodyLineTooLong
      PROVE  EventsKept'
  <2>1. PICK code \in {"211", "215", "221", "250", "354", "441", "452", "500"} :
          Answer(code, Head(up).call) /\ Head(up).call \in Nat
    BY <1>1, <1>7, AnsweringSteps
  <2>2. /\ out' \in Seq(Frame)
        /\ \A i \in 1 .. Len(out') : (i = 1 /\ out'[i].code = code) \/ out'[i].code = "text"
    BY <1>1, <2>1, Answers
  <2>3. \A i \in 1 .. Len(out') : out'[i].code \notin Async
    BY <2>2 DEF Async
  <2>4. Yields(Done(pushed), out', pushed)
    BY <1>2, <2>2, <2>3, YieldsReply
  <2>5. astray \subseteq astray'
    BY <1>7 DEF Simple, List, Quit, PublishRefused, PublishInvited, BadCommand, BodyEnd,
                BodyLineTooLong, TakeCommand
  <2>6. out = <<>> /\ UNCHANGED <<block, down, pending, events, pushed>>
    BY <2>1 DEF Answer, clientVars
  <2> QED
    BY <1>5, <2>2, <2>4, <2>5, <2>6
<1>8. ASSUME Deliver PROVE EventsKept'
  <2>1. /\ out = <<>> /\ UNCHANGED <<clientVars, down, events>>
        /\ out' \in Seq(Frame) /\ Yields(Done(pushed), out', pushed')
        /\ \A g \in Seq(Event) : IsPrefix(g, pushed) => IsPrefix(g, pushed')
    BY <1>1, <1>8, DeliverSteps
  <2>2. UNCHANGED <<block, pending, astray>>
    BY <1>8 DEF Deliver, clientVars
  <2> QED
    BY <1>5, <2>1, <2>2
<1>9. ASSUME ReadLine PROVE EventsKept'
  <2>1. /\ Coming # <<>> /\ Coming[1] = Head(down) /\ Coming' = Tail(Coming)
        /\ UNCHANGED <<astray, pushed>>
    BY <1>1, <1>9, ReadComing DEF ReadLine, daemonVars
  <2>2. ASSUME "torn" \notin astray PROVE Yields(Now', Tail(Coming), pushed)
    <3>1. Now' = After(Now, Coming[1])
      BY <1>1, <1>9, <2>1, <2>2, ReadAdvances DEF BlocksWhole
    <3>2. Yields(After(Now, Coming[1]), Tail(Coming), pushed)
      BY <1>1, <1>2, <2>1, <2>2, YieldsTail DEF EventsKept
    <3> QED
      BY <3>1, <3>2
  <2> QED
    BY <2>1, <2>2 DEF EventsKept
<1>10. ASSUME ReadClosed PROVE EventsKept'
  <2>1. UNCHANGED <<down, out, astray, pending, events, pushed>> /\ block' = NoBlock
    BY <1>10 DEF ReadClosed, daemonVars
  <2>2. ASSUME "torn" \notin astray PROVE block.code # "101"
    <3>1. CASE toSend # <<>>
      BY <1>1, <3>1, NoBlockCode DEF LibraryInv
    <3>2. CASE out = <<>> /\ down = <<>>
      <4>1. Coming = <<>> /\ Yields(Now, Coming, pushed)
        BY <1>1, <2>2, <3>2, ComingFrames DEF EventsKept
      <4>2. Now = Done(pushed)
        BY <4>1, YieldsEnd
      <4> QED
        BY <4>2 DEF Now, Done
    <3> QED
      BY <1>10, <3>1, <3>2 DEF ReadClosed
  <2>3. "torn" \notin astray => Now' = Now
    BY <2>1, <2>2, NoBlockCode DEF Now
  <2> QED
    BY <1>3, <2>1, <2>3 DEF EventsKept
<1>11. ASSUME DropNextEvent PROVE EventsKept'
  <2>1. "torn" \in astray' \/ UNCHANGED <<block, down, out, pending, events, pushed, astray>>
    BY <1>11 DEF DropNextEvent, daemonVars
  <2> QED
    BY <1>3, <1>4, <2>1 DEF EventsKept
<1>12. ASSUME NextEvent PROVE EventsKept'
  <2>1. UNCHANGED <<down, out, pushed, astray, block>>
    BY <1>12 DEF NextEvent, daemonVars
  <2>2. events' \o pending' = events \o pending
    <3>1. CASE pending = <<>>
      BY <1>12, <3>1 DEF NextEvent
    <3>2. CASE pending # <<>>
      <4>1. events' = Append(events, Head(pending)) /\ pending' = Tail(pending)
        BY <1>12, <3>2 DEF NextEvent
      <4>2. /\ events \in Seq(Event) /\ pending \in Seq(Event)
            /\ Head(pending) \in Event /\ Tail(pending) \in Seq(Event)
        BY <1>1, <3>2, TypeFacts, FirstLine
      <4>3. Append(events, Head(pending)) \o Tail(pending) = events \o pending
        BY <4>2, <3>2, AppendHead
      <4> QED
        BY <4>1, <4>3
    <3> QED
      BY <3>1, <3>2
  <2>3. Now' = Now
    BY <2>1, <2>2 DEF Now
  <2> QED
    BY <1>3, <2>1, <2>3
<1>13. ASSUME NEW v, NEW b, Call(v, b) PROVE EventsKept'
  BY <1>3, <1>4, <1>13 DEF Call, daemonVars, histVars
<1>14. ASSUME Send PROVE EventsKept'
  BY <1>3, <1>4, <1>14 DEF Send, daemonVars, histVars
<1>15. ASSUME BodyLine PROVE EventsKept'
  BY <1>3, <1>4, <1>15 DEF BodyLine, TakeBodyLine, clientVars
<1>16. ASSUME UNCHANGED vars PROVE EventsKept'
  BY <1>3, <1>4, <1>16 DEF vars, clientVars, daemonVars, histVars
<1> QED
  BY <1>6, <1>7, <1>8, <1>9, <1>10, <1>11, <1>12, <1>13, <1>14, <1>15, <1>16 DEF Next, Daemon

LEMMA EventInvInit == Init => EventInv
<1> SUFFICES ASSUME Init PROVE EventInv
  OBVIOUS
<1>1. Coming = <<>> /\ Now = Done(<<>>) /\ pushed = <<>> /\ block = NoBlock
  <2>1. <<>> \o <<>> = <<>>
    BY ConcatEmptySeq, EmptySeq
  <2> QED
    BY <2>1, NoBlockCode DEF Init, Coming, Now, Done
<1>2. BlocksWhole
  BY <1>1 DEF BlocksWhole, Whole, OpenAfter
<1>3. EventsKept
  <2>1. Yields(Done(<<>>), <<>>, <<>>)
    BY YieldsNothing, EmptySeq
  <2> QED
    BY <1>1, <2>1 DEF EventsKept
<1>4. LibraryInv
  BY DEF Init, LibraryInv
<1> QED
  BY <1>2, <1>3, <1>4, TypeInit DEF EventInv

LEMMA EventInvariant == Spec => []EventInv
<1>1. EventInv /\ [Next]_vars => EventInv'
  BY TypeStep, LibraryStep, BlocksStep, EventsStep DEF EventInv
<1> QED
  BY EventInvInit, <1>1, PTL DEF Spec

\* Replies that come between pushes, pushes that come while a call waits, a
\* connection that closes in the middle, a body line that is too long: until a
\* next_event is dropped inside a push, its caller has the daemon's pushes from
\* the first on, whole and in order (read_response, read_block, next_event).
THEOREM PushesInOrder == Spec => []EventsInOrder
<1>1. ASSUME EventInv PROVE EventsInOrder
  <2>1. Coming \in Seq(Frame)
    BY <1>1, ComingFrames DEF EventInv
  <2>2. "torn" \notin astray => IsPrefix(Now.got, pushed)
    BY <1>1, <2>1, YieldsPrefix DEF EventInv, EventsKept
  <2> QED
    BY <2>2 DEF EventsInOrder, Now
<1> QED
  BY <1>1, EventInvariant, PTL

-----------------------------------------------------------------------------
(* Client and daemon are in step.                                          *)

LEMMA UnreadLines ==
    ASSUME TypeInv
    PROVE  /\ Unread \in Seq(Line) /\ Len(Unread) = Len(up) + Len(toSend)
           /\ Len(up) \in Nat /\ Len(toSend) \in Nat
           /\ \A i \in 1 .. Len(up) + Len(toSend) :
                Unread[i] = IF i <= Len(up) THEN up[i].text ELSE toSend[i - Len(up)]
           /\ Unread = <<>> <=> up = <<>> /\ toSend = <<>>
           /\ up # <<>> => Unread # <<>> /\ Unread[1] = Head(up).text
<1>1. /\ up \in Seq(UpLine) /\ toSend \in Seq(Line)
      /\ Len(up) \in Nat /\ Len(toSend) \in Nat
  BY TypeFacts, LenProperties
<1>2. ASSUME NEW i \in 1 .. Len(up) + Len(toSend)
      PROVE  (IF i <= Len(up) THEN up[i].text ELSE toSend[i - Len(up)]) \in Line
  <2>1. CASE i <= Len(up)
    <3>1. i \in 1 .. Len(up)
      BY <1>1, <2>1
    <3>2. up[i] \in UpLine
      BY <1>1, <3>1, ElementOfSeq
    <3> QED
      BY <2>1, <3>2 DEF UpLine
  <2>2. CASE ~ (i <= Len(up))
    <3>1. i - Len(up) \in 1 .. Len(toSend)
      BY <1>1, <2>2
    <3> QED
      BY <1>1, <2>2, <3>1, ElementOfSeq
  <2> QED
    BY <2>1, <2>2
<1>3. Unread \in [1 .. Len(up) + Len(toSend) -> Line]
  BY <1>2 DEF Unread
<1>4. Unread \in Seq(Line) /\ Len(Unread) = Len(up) + Len(toSend)
  BY <1>1, <1>3
<1>5. \A i \in 1 .. Len(up) + Len(toSend) :
        Unread[i] = IF i <= Len(up) THEN up[i].text ELSE toSend[i - Len(up)]
  BY DEF Unread
<1>6. Unread = <<>> <=> up = <<>> /\ toSend = <<>>
  <2>1. /\ up = <<>> <=> Len(up) = 0
        /\ toSend = <<>> <=> Len(toSend) = 0
        /\ Unread = <<>> <=> Len(Unread) = 0
    BY <1>1, <1>4, EmptySeq
  <2> QED
    BY <1>1, <1>4, <2>1
<1>7. ASSUME up # <<>> PROVE Unread # <<>> /\ Unread[1] = Head(up).text
  <2>1. Len(up) \in Nat \ {0} /\ Head(up) = up[1]
    BY <1>1, <1>7, FirstLine
  <2> QED
    BY <1>1, <1>5, <1>6, <1>7, <2>1
<1> QED
  BY <1>1, <1>4, <1>5, <1>6, <1>7

UnreadOK ==
    /\ Unread \in Seq(Line) /\ Len(Unread) = Len(up) + Len(toSend)
    /\ \A i \in 1 .. Len(up) + Len(toSend) :
         Unread[i] = IF i <= Len(up) THEN up[i].text ELSE toSend[i - Len(up)]
    /\ Unread = <<>> <=> up = <<>> /\ toSend = <<>>

LEMMA NextUnreadLines ==
    TypeInv' => /\ Unread' \in Seq(Line) /\ Len(Unread') = Len(up') + Len(toSend')
                /\ \A i \in 1 .. Len(up') + Len(toSend') :
                     Unread'[i] = IF i <= Len(up') THEN up'[i].text ELSE toSend'[i - Len(up')]
                /\ Unread' = <<>> <=> up' = <<>> /\ toSend' = <<>>
<1>1. TypeInv => UnreadOK
  BY UnreadLines DEF UnreadOK
<1>2. TypeInv' => UnreadOK'
  BY <1>1, PTL
<1> QED
  BY <1>2 DEF UnreadOK

\* A line goes from the library to the stream: the daemon has it still to read.
LEMMA SendUnread ==
    ASSUME TypeInv, TypeInv', Send
    PROVE  Unread' = Unread
<1>1. /\ toSend # <<>> /\ up' = Append(up, Up(Head(toSend))) /\ toSend' = Tail(toSend)
      /\ up \in Seq(UpLine) /\ toSend \in Seq(Line)
  BY TypeFacts DEF Send
<1>2. /\ Head(toSend) = toSend[1] /\ Len(toSend) \in Nat \ {0} /\ Len(toSend') = Len(toSend) - 1
      /\ \A i \in 1 .. Len(toSend) - 1 : toSend'[i] = toSend[i + 1]
  BY <1>1, FirstLine
<1>3. Up(Head(toSend)) \in UpLine /\ Up(Head(toSend)).text = Head(toSend)
  BY <1>1, TypeFacts, FirstLine DEF Up, UpLine
<1>4. /\ Len(up') = Len(up) + 1 /\ Len(up) \in Nat
      /\ \A i \in 1 .. Len(up) : up'[i] = up[i]
      /\ up'[Len(up) + 1].text = toSend[1]
  BY <1>1, <1>2, <1>3, AppendProperties, LenProperties
<1>5. Len(Unread') = Len(Unread) /\ Len(Unread) = Len(up) + Len(toSend)
  BY <1>2, <1>4, UnreadLines, NextUnreadLines
<1>6. ASSUME NEW i \in 1 .. Len(up) + Len(toSend) PROVE Unread'[i] = Unread[i]
  <2>1. i \in 1 .. Len(up') + Len(toSend')
    BY <1>2, <1>4
  <2>2. /\ Unread'[i] = IF i <= Len(up') THEN up'[i].text ELSE toSend'[i - Len(up')]
        /\ Unread[i] = IF i <= Len(up) THEN up[i].text ELSE toSend[i - Len(up)]
    BY <2>1, UnreadLines, NextUnreadLines
  <2>3. CASE i <= Len(up)
    BY <1>4, <2>2, <2>3
  <2>4. CASE i = Len(up) + 1
    BY <1>4, <2>2, <2>4
  <2>5. CASE i > Len(up) + 1
    <3>1. /\ i - Len(up') \in 1 .. Len(toSend) - 1
          /\ (i - Len(up')) + 1 = i - Len(up)
      BY <1>2, <1>4, <2>5
    <3> QED
      BY <1>2, <1>4, <2>2, <2>5, <3>1
  <2> QED
    BY <1>4, <2>3, <2>4, <2>5
<1> QED
  BY <1>5, <1>6, UnreadLines, NextUnreadLines, SeqEqual

\* The daemon reads a line.
LEMMA TakeUnread ==
    ASSUME TypeInv, TypeInv', up # <<>>, up' = Tail(up), UNCHANGED toSend
    PROVE  Unread' = Tail(Unread) /\ Len(Unread') = Len(Unread) - 1
<1>1. /\ Len(up) \in Nat \ {0} /\ Len(up') = Len(up) - 1 /\ Len(toSend) \in Nat
      /\ \A i \in 1 .. Len(up) - 1 : up'[i] = up[i + 1]
  BY TypeFacts, FirstLine, LenProperties
<1>2. /\ Unread \in Seq(Line) /\ Unread # <<>> /\ Len(Unread) = Len(up) + Len(toSend)
      /\ Unread' \in Seq(Line) /\ Len(Unread') = Len(up') + Len(toSend')
  BY UnreadLines, NextUnreadLines
<1>3. /\ Tail(Unread) \in Seq(Line) /\ Len(Tail(Unread)) = Len(Unread) - 1
      /\ \A i \in 1 .. Len(Unread) - 1 : Tail(Unread)[i] = Unread[i + 1]
  BY <1>2, FirstLine
<1>4. ASSUME NEW i \in 1 .. Len(Unread') PROVE Unread'[i] = Tail(Unread)[i]
  <2>1. i \in 1 .. Len(up') + Len(toSend') /\ i + 1 \in 1 .. Len(up) + Len(toSend)
        /\ i \in 1 .. Len(Unread) - 1
    BY <1>1, <1>2
  <2>2. /\ Unread'[i] = IF i <= Len(up') THEN up'[i].text ELSE toSend'[i - Len(up')]
        /\ Unread[i + 1] = IF i + 1 <= Len(up) THEN up[i + 1].text ELSE toSend[i + 1 - Len(up)]
    BY <2>1, UnreadLines, NextUnreadLines
  <2>3. CASE i <= Len(up')
    BY <1>1, <1>3, <2>1, <2>2, <2>3
  <2>4. CASE ~ (i <= Len(up'))
    <3>1. i - Len(up') = i + 1 - Len(up)
      BY <1>1, <2>1
    <3> QED
      BY <1>1, <1>3, <2>1, <2>2, <2>4, <3>1
  <2> QED
    BY <2>3, <2>4
<1>5. Len(Unread') = Len(Tail(Unread))
  BY <1>1, <1>2, <1>3
<1> QED
  BY <1>2, <1>3, <1>4, <1>5, SeqEqual

\* The replies in what is left, and in what is added.
LEMMA RestOfReplies ==
    ASSUME NEW s \in Seq(Frame), s # <<>>
    PROVE  /\ \A i \in Replies(Tail(s)) : i + 1 \in Replies(s) /\ Tail(s)[i] = s[i + 1]
           /\ \A i \in Replies(s) : i = 1 \/ i - 1 \in Replies(Tail(s))
<1>1. /\ Len(s) \in Nat \ {0} /\ Len(Tail(s)) = Len(s) - 1
      /\ \A i \in 1 .. Len(s) - 1 : Tail(s)[i] = s[i + 1]
  BY FirstLine
<1>2. ASSUME NEW i \in Replies(Tail(s)) PROVE i + 1 \in Replies(s) /\ Tail(s)[i] = s[i + 1]
  <2>1. i \in 1 .. Len(s) - 1 /\ i + 1 \in 1 .. Len(s)
    BY <1>1 DEF Replies
  <2> QED
    BY <1>1, <2>1 DEF Replies
<1>3. ASSUME NEW i \in Replies(s), i # 1 PROVE i - 1 \in Replies(Tail(s))
  <2>1. i \in 1 .. Len(s) /\ i - 1 \in 1 .. Len(s) - 1 /\ (i - 1) + 1 = i
    BY <1>1, <1>3 DEF Replies
  <2>2. Tail(s)[i - 1] = s[i]
    BY <1>1, <2>1
  <2> QED
    BY <1>1, <2>1, <2>2 DEF Replies
<1> QED
  BY <1>2, <1>3

LEMMA RepliesConcat ==
    ASSUME NEW s \in Seq(Frame), NEW u \in Seq(Frame)
    PROVE  /\ \A i \in Replies(s) : i \in Replies(s \o u) /\ (s \o u)[i] = s[i]
           /\ \A i \in Replies(u) : Len(s) + i \in Replies(s \o u) /\ (s \o u)[Len(s) + i] = u[i]
           /\ \A i \in Replies(s \o u) : i \in Replies(s) \/ i - Len(s) \in Replies(u)
<1>1. /\ s \o u \in Seq(Frame) /\ Len(s \o u) = Len(s) + Len(u)
      /\ \A i \in 1 .. Len(s) + Len(u) : (s \o u)[i] = IF i <= Len(s) THEN s[i] ELSE u[i - Len(s)]
      /\ Len(s) \in Nat /\ Len(u) \in Nat
  BY ConcatProperties, LenProperties
<1>2. ASSUME NEW i \in Replies(s) PROVE i \in Replies(s \o u) /\ (s \o u)[i] = s[i]
  <2>1. i \in 1 .. Len(s) /\ i \in 1 .. Len(s) + Len(u)
    BY <1>1 DEF Replies
  <2>2. (s \o u)[i] = s[i]
    BY <1>1, <2>1
  <2> QED
    BY <1>1, <2>1, <2>2 DEF Replies
<1>3. ASSUME NEW i \in Replies(u)
      PROVE  Len(s) + i \in Replies(s \o u) /\ (s \o u)[Len(s) + i] = u[i]
  <2>1. /\ Len(s) + i \in 1 .. Len(s) + Len(u) /\ ~ (Len(s) + i <= Len(s))
        /\ (Len(s) + i) - Len(s) = i
    BY <1>1 DEF Replies
  <2>2. (s \o u)[Len(s) + i] = u[i]
    BY <1>1, <2>1
  <2> QED
    BY <1>1, <2>1, <2>2 DEF Replies
<1>4. ASSUME NEW i \in Replies(s \o u) PROVE i \in Replies(s) \/ i - Len(s) \in Replies(u)
  <2>1. i \in 1 .. Len(s) + Len(u)
    BY <1>1 DEF Replies
  <2>2. CASE i <= Len(s)
    <3>1. (s \o u)[i] = s[i] /\ i \in 1 .. Len(s)
      BY <1>1, <2>1, <2>2
    <3> QED
      BY <1>1, <3>1 DEF Replies
  <2>3. CASE ~ (i <= Len(s))
    <3>1. (s \o u)[i] = u[i - Len(s)] /\ i - Len(s) \in 1 .. Len(u)
      BY <1>1, <2>1, <2>3
    <3> QED
      BY <1>1, <3>1 DEF Replies
  <2> QED
    BY <2>2, <2>3
<1> QED
  BY <1>2, <1>3, <1>4

\* Who is led astray stays so.
LEMMA AstrayGrows == ASSUME [Next]_vars PROVE astray \subseteq astray'
<1>1. CASE Send \/ Deliver \/ NextEvent \/ DropNextEvent \/ ReadLine \/ ReadClosed
  BY <1>1 DEF Send, Deliver, NextEvent, DropNextEvent, ReadLine, ReadClosed, histVars
<1>2. CASE Daemon
  BY <1>2 DEF Daemon, Flush, Simple, List, Quit, PublishRefused, PublishInvited, BadCommand,
              BodyLine, BodyEnd, BodyLineTooLong, TakeCommand, histVars
<1>3. ASSUME NEW v, NEW b, Call(v, b) PROVE UNCHANGED astray
  BY <1>3 DEF Call, histVars
<1>4. CASE UNCHANGED vars
  BY <1>4 DEF vars, histVars
<1> QED
  BY <1>1, <1>2, <1>3, <1>4 DEF Next

\* What the daemon does with the lines sent to it.
LEMMA PastCallsStep ==
    ASSUME TypeInv, TypeInv', PastCalls, [Next]_vars
    PROVE  PastCalls'
<1>1. /\ up \in Seq(UpLine) /\ up' \in Seq(UpLine) /\ call \in Nat /\ call' \in Nat
      /\ posted.call \in Nat /\ posted'.call \in Nat
  <2>1. /\ up \in Seq(UpLine) /\ call \in Nat /\ posted.call \in Nat
    BY TypeFacts
  <2>2. TypeInv' => ClientOK' /\ StreamOK' /\ HistoryOK'
    BY TypeParts, PTL
  <2> QED
    BY <2>1, <2>2 DEF ClientOK, StreamOK, HistoryOK
<1>2. /\ DOMAIN up = 1 .. Len(up) /\ DOMAIN up' = 1 .. Len(up')
      /\ Len(up) \in Nat /\ Len(up') \in Nat
  BY <1>1, LenProperties
<1>3. /\ \A i \in 1 .. Len(up) : up[i].call <= call
      /\ posted.call <= call
      /\ mode # "body" => lines = <<>>
  BY <1>2 DEF PastCalls
<1>4. ASSUME NEW i \in 1 .. Len(up) PROVE up[i].call \in Nat
  <2>1. up[i] \in UpLine
    BY <1>1, ElementOfSeq
  <2> QED
    BY <2>1 DEF UpLine
<1>5. ASSUME call' \in {call, call + 1}, up' = up \/ (up # <<>> /\ up' = Tail(up)),
             posted'.call <= call, mode' # "body" => lines' = <<>>
      PROVE  PastCalls'
  <2>1. ASSUME NEW i \in 1 .. Len(up') PROVE up'[i].call <= call'
    <3>1. CASE up' = up
      BY <1>1, <1>3, <1>4, <1>5, <3>1
    <3>2. CASE up # <<>> /\ up' = Tail(up)
      <4>1. i \in 1 .. Len(up) - 1 /\ up'[i] = up[i + 1] /\ i + 1 \in 1 .. Len(up)
        BY <1>1, <1>2, <3>2, FirstLine
      <4> QED
        BY <1>1, <1>3, <1>4, <1>5, <4>1
    <3> QED
      BY <1>5, <3>1, <3>2
  <2>2. posted'.call <= call'
    BY <1>1, <1>5
  <2> QED
    BY <1>2, <1>5, <2>1, <2>2 DEF PastCalls
<1>6. CASE Send
  <2>1. /\ toSend # <<>> /\ up' = Append(up, Up(Head(toSend)))
        /\ UNCHANGED <<call, posted, mode, lines>>
    BY <1>6 DEF Send, daemonVars, histVars
  <2>2. Up(Head(toSend)) \in UpLine /\ Up(Head(toSend)).call = call
    BY <2>1, TypeFacts, FirstLine DEF Up, UpLine
  <2>3. /\ Len(up') = Len(up) + 1 /\ up'[Len(up) + 1] = Up(Head(toSend))
        /\ \A i \in 1 .. Len(up) : up'[i] = up[i]
    BY <1>1, <2>1, <2>2, AppendProperties
  <2>4. \A i \in 1 .. Len(up') : i \in 1 .. Len(up) \/ i = Len(up) + 1
    BY <1>2, <2>3
  <2>5. \A i \in 1 .. Len(up') : up'[i].call <= call'
    BY <1>1, <1>3, <2>1, <2>2, <2>3, <2>4
  <2> QED
    BY <1>2, <1>3, <2>1, <2>5 DEF PastCalls
<1>7. CASE NextEvent \/ DropNextEvent \/ ReadLine \/ ReadClosed \/ Deliver \/ Flush \/ UNCHANGED vars
  <2>1. UNCHANGED <<call, up, posted, mode, lines>>
    BY <1>7 DEF NextEvent, DropNextEvent, ReadLine, ReadClosed, Deliver, Flush, vars, clientVars,
                daemonVars, histVars
  <2> QED
    BY <1>3, <1>5, <2>1
<1>8. ASSUME NEW v, NEW b, Call(v, b) PROVE PastCalls'
  <2>1. call' = call + 1 /\ UNCHANGED <<up, posted, mode, lines>>
    BY <1>8 DEF Call, daemonVars, histVars
  <2> QED
    BY <1>3, <1>5, <2>1
<1>9. CASE Simple \/ List \/ Quit \/ PublishRefused \/ PublishInvited \/ BadCommand
  <2>1. /\ up # <<>> /\ up' = Tail(up) /\ mode = "serve" /\ UNCHANGED <<call, posted, lines>>
    BY <1>9 DEF Simple, List, Quit, PublishRefused, PublishInvited, BadCommand, TakeCommand, clientVars
  <2> QED
    BY <1>3, <1>5, <2>1
<1>10. CASE BodyLine
  <2>1. /\ up # <<>> /\ up' = Tail(up) /\ mode' = "body" /\ UNCHANGED <<call, posted>>
    BY <1>10 DEF BodyLine, TakeBodyLine, clientVars
  <2> QED
    BY <1>3, <1>5, <2>1
<1>11. CASE BodyEnd \/ BodyLineTooLong
  <2>1. /\ up # <<>> /\ (up' = Tail(up) \/ up' = up) /\ lines' = <<>> /\ UNCHANGED call
        /\ posted'.call \in {posted.call, Head(up).call}
    BY <1>11 DEF BodyEnd, BodyLineTooLong, TakeBodyLine, clientVars
  <2>2. Head(up).call <= call
    <3>1. Head(up) = up[1] /\ Len(up) \in Nat \ {0}
      BY <1>1, <2>1, FirstLine
    <3>2. 1 \in 1 .. Len(up)
      BY <3>1
    <3> QED
      BY <1>3, <3>1, <3>2
  <2> QED
    BY <1>3, <1>5, <2>1, <2>2
<1> QED
  BY <1>6, <1>7, <1>8, <1>9, <1>10, <1>11 DEF Next, Daemon

\* What agreement says when no reply is on its way.
LEMMA Quiet ==
    ASSUME TypeInv, Agree, Unread # <<>> \/ phase \in {"idle", "event"}
    PROVE  /\ ~ Answering /\ Replies(Coming) = {} /\ block.code # "215"
           /\ phase \in {"idle", "event"} => mode # "body" /\ (mode = "serve" => Unread = <<>>)
           /\ mode = "serve" /\ Unread # <<>> =>
                /\ phase \in {"reply", "invite"} /\ Len(Unread) = 1
                /\ phase = "reply" => Unread[1] # <<"PUBLISH">>
           /\ mode = "body" => phase = "accept" /\ \E k \in 0 .. Len(body) : BodyRead(k)
<1>1. ~ Answering
  BY DEF Agree, Stages
<1>2. Replies(Coming) = {} /\ block.code # "215"
  BY <1>1 DEF Answering
<1> QED
  BY <1>1, <1>2 DEF Agree, Stages

\* The parts of agreement that speak of replies, when there are none.
LEMMA NoReplies ==
    ASSUME Replies(Coming') = {}, block'.code # "215"
    PROVE  ~ Answering' /\ RepliesOwn'
  BY DEF Answering, RepliesOwn

\* A step that leaves what is under way as it is: a line moves along, or the
\* caller turns to or from next_event.
LEMMA SameAgree ==
    ASSUME TypeInv, Agree, Coming' = Coming, Unread' = Unread,
           UNCHANGED <<block, mode, call, body, lines, total>>,
           phase' = phase \/ (phase \in {"idle", "event"} /\ phase' \in {"idle", "event"}),
           mode # "done" => \A i \in DOMAIN up' : up'[i].call = call
    PROVE  Agree'
<1>1. (Answering' <=> Answering) /\ RepliesOwn'
  BY DEF Agree, Answering, RepliesOwn
<1>2. Proper(block # NoBlock, Coming)' /\ LinesOwn'
  BY DEF Agree, LinesOwn, Proper, OpenAfter
<1>3. \A k \in 0 .. Len(body) : BodyRead(k) => BodyRead(k)'
  BY DEF BodyRead
<1>4. Stages'
  <2>1. CASE phase' = phase
    <3>1. Answering' => phase' \in {"reply", "invite", "accept"} /\ Unread' = <<>>
      BY <1>1, <2>1 DEF Agree, Stages
    <3>2. mode' = "serve" /\ ~ Answering' =>
          \/ phase' \in {"idle", "event"} /\ Unread' = <<>>
          \/ phase' \in {"reply", "invite"} /\ Len(Unread') = 1 /\
               (phase' = "reply" => Unread'[1] # <<"PUBLISH">>)
      BY <1>1, <2>1 DEF Agree, Stages
    <3>3. mode' = "body" =>
          \/ phase' = "invite" /\ Answering' /\ lines' = <<>> /\ total' = 0
          \/ phase' = "accept" /\ ~ Answering' /\ \E k \in 0 .. Len(body') : BodyRead(k)'
      BY <1>1, <1>3, <2>1 DEF Agree, Stages
    <3> QED
      BY <3>1, <3>2, <3>3 DEF Stages
  <2>2. CASE phase \in {"idle", "event"} /\ phase' \in {"idle", "event"}
    <3>1. ~ Answering /\ mode # "body" /\ (mode = "serve" => Unread = <<>>)
      BY <2>2, Quiet
    <3> QED
      BY <1>1, <2>2, <3>1 DEF Stages
  <2> QED
    BY <2>1, <2>2
<1> QED
  BY <1>1, <1>2, <1>4 DEF Agree

\* No line of the library's is touched.
LEMMA SameUnread == ASSUME UNCHANGED <<up, toSend>> PROVE Unread' = Unread
  BY DEF Unread

\* The steps of this kind.
LEMMA QuietSteps ==
    ASSUME TypeInv, TypeInv', Agree, astray' = {},
           Flush \/ NextEvent \/ DropNextEvent \/ Send \/ UNCHANGED vars
    PROVE  Agree'
<1>1. mode # "done" => \A i \in DOMAIN up : up[i].call = call
  BY DEF Agree, LinesOwn
<1>2. CASE Flush
  <2>1. /\ Coming' = Coming
        /\ UNCHANGED <<block, mode, phase, call, body, toSend, up, lines, total>>
    BY <1>2, FlushComing DEF Flush, clientVars
  <2> QED
    BY <1>1, <2>1, SameUnread, SameAgree
<1>3. CASE NextEvent \/ UNCHANGED vars
  <2>1. /\ UNCHANGED <<block, mode, call, body, toSend, up, down, out, lines, total>>
        /\ phase' = phase \/ (phase \in {"idle", "event"} /\ phase' \in {"idle", "event"})
    BY <1>3 DEF NextEvent, daemonVars, vars, clientVars
  <2>2. Coming' = Coming
    BY <2>1 DEF Coming
  <2> QED
    BY <1>1, <2>1, <2>2, SameUnread, SameAgree
<1>4. CASE DropNextEvent
  <2>1. block = NoBlock /\ down' = down
    BY <1>4 DEF DropNextEvent
  <2>2. /\ UNCHANGED <<block, mode, call, body, toSend, up, down, out, lines, total>>
        /\ phase \in {"idle", "event"} /\ phase' \in {"idle", "event"}
    BY <1>4, <2>1 DEF DropNextEvent, daemonVars
  <2>3. Coming' = Coming
    BY <2>2 DEF Coming
  <2> QED
    BY <1>1, <2>2, <2>3, SameUnread, SameAgree
<1>5. CASE Send
  <2>1. /\ toSend # <<>> /\ up' = Append(up, Up(Head(toSend)))
        /\ UNCHANGED <<block, mode, phase, call, body, down, out, lines, total>>
    BY <1>5 DEF Send, daemonVars
  <2>2. Coming' = Coming
    BY <2>1 DEF Coming
  <2>3. mode # "done" => \A i \in DOMAIN up' : up'[i].call = call
    <3>1. up \in Seq(UpLine) /\ Up(Head(toSend)) \in UpLine /\ Up(Head(toSend)).call = call
      BY <2>1, TypeFacts, FirstLine DEF Up, UpLine
    <3>2. /\ Len(up') = Len(up) + 1 /\ up'[Len(up) + 1] = Up(Head(toSend))
          /\ up' \in Seq(UpLine) /\ Len(up) \in Nat
          /\ \A i \in 1 .. Len(up) : up'[i] = up[i]
      BY <2>1, <3>1, AppendProperties, LenProperties
    <3>3. DOMAIN up = 1 .. Len(up) /\ DOMAIN up' = 1 .. Len(up) + 1
      BY <3>1, <3>2, LenProperties
    <3>4. \A i \in DOMAIN up' : i \in DOMAIN up \/ i = Len(up) + 1
      BY <3>2, <3>3
    <3> QED
      BY <1>1, <3>1, <3>2, <3>3, <3>4
  <2>4. Unread' = Unread
    BY <1>5, SendUnread
  <2> QED
    BY <2>1, <2>2, <2>3, <2>4, SameAgree
<1> QED
  BY <1>2, <1>3, <1>4, <1>5

\* A call begins when nothing is under way.
LEMMA CallAgree ==
    ASSUME TypeInv, TypeInv', LibraryInv, Agree, NEW v, NEW b, Call(v, b)
    PROVE  Agree'
<1>1. /\ phase = "idle" /\ toSend = <<>> /\ toSend' = <<v>>
      /\ phase' = IF v = <<"PUBLISH">> THEN "invite" ELSE "reply"
      /\ UNCHANGED <<block, up, down, out, mode, lines, total>>
  BY DEF Call, daemonVars, LibraryInv
<1>2. /\ ~ Answering /\ Replies(Coming) = {} /\ block.code # "215" /\ mode # "body"
      /\ mode = "serve" => Unread = <<>>
  BY <1>1, Quiet
<1>3. Coming' = Coming
  BY <1>1 DEF Coming
<1>4. ~ Answering' /\ RepliesOwn'
  BY <1>1, <1>2, <1>3, NoReplies
<1>5. Proper(block # NoBlock, Coming)'
  BY <1>1, <1>3 DEF Agree, Proper, OpenAfter
<1>6. mode = "serve" => up = <<>>
  BY <1>2, UnreadLines
<1>7. LinesOwn'
  <2>1. mode' # "done" => DOMAIN up' = {}
    BY <1>1, <1>2, <1>6, TypeFacts
  <2> QED
    BY <2>1 DEF LinesOwn
<1>8. mode = "serve" => Len(Unread') = 1 /\ Unread'[1] = v
  <2>1. ASSUME mode = "serve" PROVE Len(Unread') = 1 /\ Unread'[1] = v
    <3>1. Len(up') = 0 /\ Len(toSend') = 1 /\ toSend'[1] = v
      BY <1>1, <1>6, <2>1
    <3>2. /\ Len(Unread') = 0 + 1 /\ 1 \in 1 .. Len(up') + Len(toSend')
          /\ 1 - Len(up') = 1
      BY <3>1, NextUnreadLines
    <3> QED
      BY <3>1, <3>2, NextUnreadLines
  <2> QED
    BY <2>1
<1>9. Stages'
  BY <1>1, <1>2, <1>4, <1>8 DEF Stages
<1> QED
  BY <1>4, <1>5, <1>7, <1>9 DEF Agree

\* A delivery does not disturb a call.
LEMMA DeliverAgree ==
    ASSUME TypeInv, BlocksWhole, astray = {}, Agree, Deliver
    PROVE  Agree'
<1>1. /\ out = <<>> /\ UNCHANGED <<clientVars, down, up, mode, lines, total>>
      /\ mode = "serve" /\ out' \in Seq(Frame)
      /\ Whole(FALSE, out') /\ Proper(FALSE, out') /\ Replies(out') = {}
  BY DeliverSteps DEF Deliver
<1>2. UNCHANGED <<phase, call, body, toSend, block>>
  BY <1>1 DEF clientVars
<1>3. Coming' = Coming \o out' /\ Coming \in Seq(Frame) /\ Len(Coming) \in Nat
  BY <1>1, WriteComing, ComingFrames
<1>4. /\ \A i \in Replies(Coming) : i \in Replies(Coming') /\ Coming'[i] = Coming[i]
      /\ \A i \in Replies(Coming') : i \in Replies(Coming) /\ Coming'[i] = Coming[i]
  <2>1. /\ \A i \in Replies(Coming) :
              i \in Replies(Coming \o out') /\ (Coming \o out')[i] = Coming[i]
        /\ \A i \in Replies(Coming \o out') :
              i \in Replies(Coming) \/ i - Len(Coming) \in Replies(out')
    BY <1>1, <1>3, RepliesConcat
  <2>2. \A i \in Replies(Coming \o out') : i \in Replies(Coming)
    BY <1>1, <2>1
  <2> QED
    BY <1>3, <2>1, <2>2
<1>5. Answering' <=> Answering
  BY <1>2, <1>4 DEF Answering
<1>6. RepliesOwn'
  BY <1>1, <1>2, <1>4 DEF Agree, RepliesOwn
<1>7. Proper(block # NoBlock, Coming)'
  <2>1. Whole(block # NoBlock, Coming) /\ Proper(block # NoBlock, Coming)
    BY DEF BlocksWhole, Agree
  <2>2. Proper(block # NoBlock, Coming \o out')
    BY <1>1, <1>3, <2>1, BlocksConcat
  <2> QED
    BY <1>2, <1>3, <2>2
<1>8. LinesOwn'
  BY <1>1, <1>2 DEF Agree, LinesOwn
<1>9. Unread' = Unread
  BY <1>1, <1>2, SameUnread
<1>10. Stages'
  BY <1>1, <1>2, <1>5, <1>9 DEF Agree, Stages
<1> QED
  BY <1>6, <1>7, <1>8, <1>10 DEF Agree

-----------------------------------------------------------------------------
(* The daemon answers.                                                     *)

\* An answer is one reply.
LEMMA AnswerReplies ==
    ASSUME TypeInv, Replies(Coming) = {},
           NEW code \in {"211", "215", "221", "250", "354", "441", "452", "500"},
           NEW n \in Nat,
           Answer(code, n)
    PROVE  /\ out' \in Seq(Frame) /\ Whole(FALSE, out') /\ Proper(FALSE, out')
           /\ Coming' = Coming \o out' /\ Coming \in Seq(Frame)
           /\ Replies(Coming') = {Len(Coming) + 1}
           /\ Coming'[Len(Coming) + 1].code = code /\ Coming'[Len(Coming) + 1].call = n
<1>1. out = <<>> /\ UNCHANGED down
  BY DEF Answer
<1>2. /\ out' \in Seq(Frame)
      /\ Len(out') \in {1, 3} /\ out'[1].code = code /\ out'[1].call = n
      /\ \A i \in 1 .. Len(out') : (i = 1 /\ out'[i].code = code) \/ out'[i].code = "text"
      /\ Whole(FALSE, out') /\ Proper(FALSE, out')
  BY Answers
<1>3. Coming' = Coming \o out' /\ Coming \in Seq(Frame) /\ Len(Coming) \in Nat
  BY <1>1, WriteComing, ComingFrames
<1>4. 1 \in Replies(out') /\ \A i \in Replies(out') : i = 1
  <2>1. 1 \in 1 .. Len(out')
    BY <1>2
  <2>2. code \notin Async \union {"text"}
    BY DEF Async
  <2> QED
    BY <1>2, <2>1, <2>2 DEF Replies
<1>5. /\ Len(Coming) + 1 \in Replies(Coming')
      /\ \A i \in Replies(Coming') : i = Len(Coming) + 1
      /\ Coming'[Len(Coming) + 1] = out'[1]
  <2>1. /\ Len(Coming) + 1 \in Replies(Coming \o out')
        /\ (Coming \o out')[Len(Coming) + 1] = out'[1]
        /\ \A i \in Replies(Coming \o out') :
              i \in Replies(Coming) \/ i - Len(Coming) \in Replies(out')
    BY <1>2, <1>3, <1>4, RepliesConcat
  <2>2. ASSUME NEW i \in Replies(Coming \o out') PROVE i = Len(Coming) + 1
    <3>1. i - Len(Coming) = 1
      BY <1>4, <2>1, <2>2
    <3>2. i \in Nat
      BY <2>2 DEF Replies
    <3> QED
      BY <1>3, <3>1, <3>2
  <2> QED
    BY <1>3, <2>1, <2>2
<1> QED
  BY <1>2, <1>3, <1>5

\* The answer to the current call is the only one on its way.
LEMMA AnswerAgree ==
    ASSUME TypeInv, TypeInv', BlocksWhole, astray = {}, Agree, Unread # <<>>,
           NEW code \in {"211", "215", "221", "250", "354", "441", "452", "500"},
           Answer(code, call), Unread' = <<>>,
           phase \in {"reply", "invite", "accept"},
           code = "354" <=> mode' = "body",
           mode' = "body" => phase = "invite" /\ lines' = <<>> /\ total' = 0
    PROVE  Agree'
<1>1. ~ Answering /\ Replies(Coming) = {} /\ block.code # "215"
  BY Quiet
<1>2. /\ out = <<>> /\ UNCHANGED <<phase, call, body, toSend, block, down>> /\ call \in Nat
  BY TypeFacts DEF Answer, clientVars
<1>3. /\ out' \in Seq(Frame) /\ Whole(FALSE, out') /\ Proper(FALSE, out')
      /\ Coming' = Coming \o out' /\ Coming \in Seq(Frame)
  BY <1>1, <1>2, AnswerReplies
<1>4. /\ Replies(Coming') = {Len(Coming) + 1}
      /\ Coming'[Len(Coming) + 1].code = code /\ Coming'[Len(Coming) + 1].call = call
  BY <1>1, <1>2, AnswerReplies
<1>5. Answering'
  BY <1>4 DEF Answering
<1>6. RepliesOwn'
  BY <1>1, <1>2, <1>4 DEF RepliesOwn
<1>7. Proper(block # NoBlock, Coming)'
  <2>1. Whole(block # NoBlock, Coming) /\ Proper(block # NoBlock, Coming)
    BY DEF BlocksWhole, Agree
  <2>2. Proper(block # NoBlock, Coming \o out')
    BY <1>3, <2>1, BlocksConcat
  <2> QED
    BY <1>2, <1>3, <2>2
<1>8. LinesOwn'
  <2>1. up' = <<>>
    BY NextUnreadLines
  <2>2. DOMAIN up' = {}
    BY <2>1
  <2> QED
    BY <2>2 DEF LinesOwn
<1>9. Stages'
  BY <1>2, <1>5 DEF Stages
<1> QED
  BY <1>6, <1>7, <1>8, <1>9 DEF Agree

\* The line the daemon is about to look at is the current call's.
LEMMA OwnLine ==
    ASSUME TypeInv, Agree, up # <<>>, mode # "done"
    PROVE  Head(up).call = call
<1>1. /\ Head(up) = up[1] /\ Len(up) \in Nat \ {0} /\ DOMAIN up = 1 .. Len(up)
  BY TypeFacts, FirstLine, LenProperties
<1>2. 1 \in DOMAIN up
  BY <1>1
<1> QED
  BY <1>1, <1>2 DEF Agree, LinesOwn

\* Commands are answered one by one.
LEMMA CommandsAgree ==
    ASSUME TypeInv, TypeInv', BlocksWhole, PastCalls, astray = {}, Agree,
           Simple \/ List \/ Quit \/ PublishRefused \/ PublishInvited \/ BadCommand
    PROVE  Agree'
<1>1. /\ up # <<>> /\ up' = Tail(up) /\ mode = "serve" /\ out = <<>>
      /\ UNCHANGED <<clientVars, down, lines, events, pushed>>
  BY DEF Simple, List, Quit, PublishRefused, PublishInvited, BadCommand, TakeCommand
<1>2. UNCHANGED <<phase, call, body, toSend>>
  BY <1>1 DEF clientVars
<1>3. /\ Unread # <<>> /\ Unread[1] = Head(up).text
  BY <1>1, UnreadLines
<1>4. /\ phase \in {"reply", "invite"} /\ Len(Unread) = 1
      /\ phase = "reply" => Unread[1] # <<"PUBLISH">>
  BY <1>1, <1>3, Quiet
<1>5. Unread' = <<>>
  <2>1. Len(Unread') = 0 /\ Unread' \in Seq(Line)
    BY <1>1, <1>2, <1>4, TakeUnread, NextUnreadLines
  <2> QED
    BY <2>1, EmptySeq
<1>6. Head(up).call = call
  BY <1>1, OwnLine
<1>7. lines = <<>>
  BY <1>1 DEF PastCalls
<1>8. CASE PublishInvited
  <2>1. /\ Answer("354", call) /\ mode' = "body" /\ Head(up).text = <<"PUBLISH">>
        /\ total' = 0
    BY <1>1, <1>6, <1>8 DEF PublishInvited, TakeCommand, Answer
  <2>2. phase = "invite"
    BY <1>3, <1>4, <2>1
  <2> QED
    BY <1>1, <1>3, <1>5, <1>7, <2>1, <2>2, AnswerAgree
<1>9. CASE Simple \/ List \/ Quit \/ PublishRefused \/ BadCommand
  <2>1. mode' # "body"
    BY <1>1, <1>9 DEF Simple, List, Quit, PublishRefused, BadCommand
  <2>2. \E code \in {"211", "215", "221", "441", "500"} : Answer(code, call)
    <3>1. CASE Simple
      BY <1>1, <1>6, <3>1 DEF Simple, Reply, Answer
    <3>2. CASE List
      BY <1>1, <1>6, <3>2 DEF List, Reply, Answer
    <3>3. CASE Quit
      BY <1>1, <1>6, <3>3 DEF Quit, Reply, Answer
    <3>4. CASE PublishRefused
      BY <1>1, <1>6, <3>4 DEF PublishRefused, Reply, Answer
    <3>5. CASE BadCommand
      BY <1>1, <1>6, <3>5 DEF BadCommand, Reply, Answer
    <3> QED
      BY <1>9, <3>1, <3>2, <3>3, <3>4, <3>5
  <2>3. PICK code \in {"211", "215", "221", "441", "500"} : Answer(code, call)
    BY <2>2
  <2>4. code \in {"211", "215", "221", "250", "354", "441", "452", "500"} /\ code # "354"
    OBVIOUS
  <2> QED
    BY <1>3, <1>4, <1>5, <2>1, <2>3, <2>4, AnswerAgree
<1> QED
  BY <1>8, <1>9

-----------------------------------------------------------------------------
(* The body of a PUBLISH is read.                                          *)

\* The end of a sequence, without its first element.
LEMMA RestOfRest ==
    ASSUME NEW S, NEW s \in Seq(S), NEW m \in 1 .. Len(s)
    PROVE  /\ SubSeq(s, m, Len(s)) \in Seq(S) /\ SubSeq(s, m, Len(s)) # <<>>
           /\ SubSeq(s, m, Len(s))[1] = s[m]
           /\ Tail(SubSeq(s, m, Len(s))) = SubSeq(s, m + 1, Len(s))
           /\ SubSeq(s, m + 1, Len(s)) = <<>> <=> m = Len(s)
<1>1. Len(s) \in Nat /\ (\A i \in m .. Len(s) : s[i] \in S) /\ \A i \in m + 1 .. Len(s) : s[i] \in S
  BY LenProperties, ElementOfSeq
<1> DEFINE u == SubSeq(s, m, Len(s))
           t == SubSeq(s, m + 1, Len(s))
<1>2. /\ u \in Seq(S) /\ Len(u) = Len(s) - m + 1
      /\ \A i \in 1 .. Len(s) - m + 1 : u[i] = s[m + i - 1]
  <2>1. m \in Int /\ Len(s) \in Int /\ m <= Len(s)
    BY <1>1
  <2>2. /\ u \in Seq(S) /\ Len(u) = IF m <= Len(s) THEN Len(s) - m + 1 ELSE 0
        /\ \A i \in 1 .. Len(s) - m + 1 : u[i] = s[m + i - 1]
    BY <1>1, <2>1, SubSeqProperties
  <2> QED
    BY <2>1, <2>2
<1>3. /\ t \in Seq(S) /\ Len(t) = Len(s) - m
      /\ \A i \in 1 .. Len(s) - m : t[i] = s[m + i]
  <2>1. m + 1 \in Int /\ Len(s) \in Int
    BY <1>1
  <2>2. /\ t \in Seq(S) /\ Len(t) = IF m + 1 <= Len(s) THEN Len(s) - (m + 1) + 1 ELSE 0
        /\ \A i \in 1 .. Len(s) - (m + 1) + 1 : t[i] = s[m + 1 + i - 1]
    BY <1>1, <2>1, SubSeqProperties
  <2> HIDE DEF t
  <2>3. Len(t) = Len(s) - m
    BY <1>1, <2>2
  <2>4. \A i \in 1 .. Len(s) - m : i \in 1 .. Len(s) - (m + 1) + 1 /\ m + 1 + i - 1 = m + i
    BY <1>1
  <2> QED
    BY <2>2, <2>3, <2>4
<1> HIDE DEF u, t
<1>4. u # <<>> /\ u[1] = s[m]
  <2>1. 1 \in 1 .. Len(s) - m + 1 /\ m + 1 - 1 = m /\ Len(u) # 0
    BY <1>1, <1>2
  <2> QED
    BY <1>2, <2>1, EmptySeq
<1>5. Tail(u) = t
  <2>1. /\ Tail(u) \in Seq(S) /\ Len(Tail(u)) = Len(u) - 1
        /\ \A i \in 1 .. Len(u) - 1 : Tail(u)[i] = u[i + 1]
    BY <1>2, <1>4, FirstLine
  <2>2. Len(Tail(u)) = Len(t)
    <3>1. Len(s) \in Nat /\ m \in Nat
      BY <1>1
    <3>2. (Len(s) - m + 1) - 1 = Len(s) - m
      BY <3>1
    <3> QED
      BY <1>2, <1>3, <2>1, <3>2, Zenon
  <2>3. ASSUME NEW i \in 1 .. Len(t) PROVE Tail(u)[i] = t[i]
    <3>1. /\ i \in 1 .. Len(u) - 1 /\ i + 1 \in 1 .. Len(s) - m + 1 /\ m + (i + 1) - 1 = m + i
          /\ i \in 1 .. Len(s) - m
      BY <1>1, <1>2, <1>3
    <3>2. Tail(u)[i] = u[i + 1] /\ u[i + 1] = s[m + (i + 1) - 1] /\ t[i] = s[m + i]
      BY <1>2, <1>3, <2>1, <3>1
    <3> QED
      BY <3>1, <3>2
  <2> QED
    BY <1>3, <2>1, <2>2, <2>3, SeqEqual
<1>6. t = <<>> <=> m = Len(s)
  <2>1. t = <<>> <=> Len(t) = 0
    BY <1>3, EmptySeq
  <2> QED
    BY <1>1, <1>3, <2>1
<1> QED
  BY <1>2, <1>4, <1>5, <1>6 DEF u, t

\* What the next line of the body is: the terminator after the last one.
LEMMA BodyNext ==
    ASSUME TypeInv, NEW k \in 0 .. Len(body), BodyRead(k), up # <<>>
    PROVE  /\ k \in Nat /\ Len(body) \in Nat
           /\ Head(up).text = Terminator <=> k = Len(body)
           /\ k # Len(body) =>
                /\ k + 1 \in 1 .. Len(body) /\ body[k + 1] \in Line
                /\ Unstuff(Head(up).text) = body[k + 1]
           /\ Tail(Unread) = SubSeq(Encode(body), k + 2, Len(body) + 1)
           /\ k = Len(body) => Tail(Unread) = <<>>
<1>1. body \in Seq(Line) /\ Len(body) \in Nat /\ k \in Nat
  BY TypeFacts, LenProperties
<1>2. /\ Encode(body) \in Seq(Line) /\ Len(Encode(body)) = Len(body) + 1
      /\ \A i \in 1 .. Len(body) : Encode(body)[i] = Stuff(body[i])
      /\ Encode(body)[Len(body) + 1] = Terminator
  BY <1>1, EncodeBody
<1>3. k + 1 \in 1 .. Len(Encode(body))
  BY <1>1, <1>2
<1>4. Unread = SubSeq(Encode(body), k + 1, Len(Encode(body)))
  BY <1>2 DEF BodyRead
<1>5. /\ SubSeq(Encode(body), k + 1, Len(Encode(body)))[1] = Encode(body)[k + 1]
      /\ Tail(SubSeq(Encode(body), k + 1, Len(Encode(body))))
            = SubSeq(Encode(body), k + 1 + 1, Len(Encode(body)))
      /\ SubSeq(Encode(body), k + 1 + 1, Len(Encode(body))) = <<>> <=> k + 1 = Len(Encode(body))
  BY <1>2, <1>3, RestOfRest
<1>6. /\ Unread[1] = Encode(body)[k + 1]
      /\ Tail(Unread) = SubSeq(Encode(body), k + 1 + 1, Len(Encode(body)))
      /\ Tail(Unread) = <<>> <=> k + 1 = Len(Encode(body))
  BY <1>4, <1>5
<1>7. Head(up).text = Encode(body)[k + 1]
  BY <1>6, UnreadLines
<1>8. k + 1 + 1 = k + 2 /\ (k + 1 = Len(Encode(body)) <=> k = Len(body))
  BY <1>1, <1>2
<1>9. CASE k = Len(body)
  BY <1>1, <1>2, <1>6, <1>7, <1>8, <1>9
<1>10. CASE k # Len(body)
  <2>1. k + 1 \in 1 .. Len(body)
    BY <1>1, <1>10
  <2>2. body[k + 1] \in Line
    BY <1>1, <2>1, ElementOfSeq
  <2>3. Head(up).text = Stuff(body[k + 1])
    BY <1>2, <1>7, <2>1
  <2>4. Head(up).text # Terminator /\ Unstuff(Head(up).text) = body[k + 1]
    BY <2>2, <2>3, StuffLine
  <2> QED
    BY <1>1, <1>2, <1>6, <1>8, <1>10, <2>1, <2>2, <2>4
<1> QED
  BY <1>9, <1>10

\* The body has not been read to its end.
LEMMA ReadingBody ==
    ASSUME TypeInv, Agree, mode = "body", up # <<>>
    PROVE  /\ Unread # <<>> /\ ~ Answering /\ Replies(Coming) = {} /\ block.code # "215"
           /\ phase = "accept" /\ \E k \in 0 .. Len(body) : BodyRead(k)
<1>1. Unread # <<>>
  BY UnreadLines
<1> QED
  BY <1>1, Quiet

LEMMA BodyLineAgree ==
    ASSUME TypeInv, TypeInv', Agree, BodyLine
    PROVE  Agree'
<1>1. /\ mode = "body" /\ up # <<>> /\ up' = Tail(up) /\ Head(up).text # Terminator
      /\ UNCHANGED <<phase, call, body, toSend, block, down, out, mode>>
      /\ total' = total + Octets(Unstuff(Head(up).text))
      /\ lines' = IF Fits(total') THEN Append(lines, Unstuff(Head(up).text)) ELSE lines
  BY DEF BodyLine, TakeBodyLine, clientVars
<1>2. /\ ~ Answering /\ Replies(Coming) = {} /\ block.code # "215" /\ phase = "accept"
      /\ \E k \in 0 .. Len(body) : BodyRead(k)
  BY <1>1, ReadingBody
<1>3. PICK k \in 0 .. Len(body) : BodyRead(k)
  BY <1>2
<1>4. /\ k \in Nat /\ Len(body) \in Nat /\ k # Len(body)
      /\ k + 1 \in 1 .. Len(body) /\ body[k + 1] \in Line
      /\ Unstuff(Head(up).text) = body[k + 1]
      /\ Tail(Unread) = SubSeq(Encode(body), k + 2, Len(body) + 1)
  BY <1>1, <1>3, BodyNext
<1>5. Coming' = Coming
  BY <1>1 DEF Coming
<1>6. ~ Answering' /\ RepliesOwn'
  BY <1>1, <1>2, <1>5, NoReplies
<1>7. Proper(block # NoBlock, Coming)'
  BY <1>1, <1>5 DEF Agree, Proper, OpenAfter
<1>8. LinesOwn'
  <2>1. /\ up \in Seq(UpLine) /\ Len(up) \in Nat /\ up' \in Seq(UpLine) /\ Len(up') = Len(up) - 1
        /\ \A i \in 1 .. Len(up) - 1 : up'[i] = up[i + 1]
        /\ DOMAIN up = 1 .. Len(up) /\ DOMAIN up' = 1 .. Len(up')
    BY <1>1, TypeFacts, FirstLine, LenProperties
  <2>2. \A i \in DOMAIN up' : up'[i] = up[i + 1] /\ i + 1 \in DOMAIN up
    BY <2>1
  <2>3. \A i \in DOMAIN up : up[i].call = call
    BY <1>1 DEF Agree, LinesOwn
  <2> QED
    BY <1>1, <2>2, <2>3 DEF LinesOwn
<1>9. BodyRead(k + 1)'
  <2>1. Unread' = SubSeq(Encode(body), k + 1 + 1, Len(body) + 1)
    <3>1. k + 1 + 1 = k + 2
      BY <1>4
    <3> QED
      BY <1>1, <1>4, <3>1, TakeUnread
  <2>2. /\ Octets(body[k + 1]) \in Nat /\ total \in Nat /\ total' = total + Octets(body[k + 1])
        /\ Append(SubSeq(body, 1, k), body[k + 1]) = SubSeq(body, 1, k + 1)
        /\ SubSeq(body, 1, k) \in Seq(Line)
    <3>1. k + 1 - 1 = k /\ body \in Seq(Line) /\ k <= Len(body)
      BY <1>4, TypeFacts
    <3>2. SubSeq(body, 1, k) \in Seq(Line)
      <4>1. \A i \in 1 .. k : body[i] \in Line
        BY <1>4, <3>1, ElementOfSeq
      <4> QED
        BY <1>4, <4>1, SubSeqProperties
    <3>3. Append(SubSeq(body, 1, k), body[k + 1]) = SubSeq(body, 1, k + 1)
      BY <1>4, <3>1, OneMoreLine
    <3>4. Octets(body[k + 1]) \in Nat /\ total \in Nat /\ total' = total + Octets(body[k + 1])
      BY <1>1, <1>4, NumbersOfLines, TypeFacts
    <3> QED
      BY <3>2, <3>3, <3>4
  <2>3. total' = Size(SubSeq(body, 1, k + 1))
    <3>1. total = Size(SubSeq(body, 1, k))
      BY <1>3 DEF BodyRead
    <3>2. Size(Append(SubSeq(body, 1, k), body[k + 1]))
             = Size(SubSeq(body, 1, k)) + Octets(body[k + 1])
      BY <1>4, <2>2, SizeOfMore
    <3> QED
      BY <2>2, <3>1, <3>2
  <2>4. ASSUME Fits(total') PROVE lines' = SubSeq(body, 1, k + 1)
    <3>1. Fits(total)
      BY <2>2, <2>4, ExchangeLimits DEF Fits
    <3>2. lines = SubSeq(body, 1, k)
      BY <1>3, <3>1 DEF BodyRead
    <3> QED
      BY <1>1, <1>4, <2>2, <2>4, <3>2
  <2> QED
    BY <1>1, <2>1, <2>3, <2>4 DEF BodyRead
<1>10. Stages'
  <2>1. k + 1 \in 0 .. Len(body')
    BY <1>1, <1>4
  <2>2. \E j \in 0 .. Len(body') : BodyRead(j)'
    BY <1>9, <2>1
  <2> QED
    BY <1>1, <1>2, <1>6, <2>2 DEF Stages
<1> QED
  BY <1>6, <1>7, <1>8, <1>10 DEF Agree

\* The body ends where the library ended it, and what was read is what it was.
LEMMA BodyEndAgree ==
    ASSUME TypeInv, TypeInv', BlocksWhole, astray = {}, Agree, BodyEnd
    PROVE  /\ Agree' /\ (posted' = posted \/ posted'.body = body)
           /\ total = Size(body)
<1>1. /\ mode = "body" /\ up # <<>> /\ up' = Tail(up) /\ Head(up).text = Terminator
      /\ UNCHANGED <<phase, call, body, toSend, block, down, events, pushed>>
      /\ out = <<>> /\ mode' = "serve"
  BY DEF BodyEnd, TakeBodyLine, clientVars
<1>2. /\ Unread # <<>> /\ phase = "accept" /\ \E k \in 0 .. Len(body) : BodyRead(k)
  BY <1>1, ReadingBody
<1>3. PICK k \in 0 .. Len(body) : BodyRead(k)
  BY <1>2
<1>4. k = Len(body) /\ Tail(Unread) = <<>>
  BY <1>1, <1>3, BodyNext
<1>5. Unread' = <<>>
  BY <1>1, <1>4, TakeUnread
<1>6. Head(up).call = call
  BY <1>1, OwnLine
<1>7. \E code \in {"452", "250", "441"} : Answer(code, call)
  BY <1>1, <1>6 DEF BodyEnd, TakeBodyLine, Reply, Answer
<1>8. Agree'
  <2>1. PICK code \in {"452", "250", "441"} : Answer(code, call)
    BY <1>7
  <2>2. code \in {"211", "215", "221", "250", "354", "441", "452", "500"} /\ code # "354"
    OBVIOUS
  <2> QED
    BY <1>1, <1>2, <1>5, <2>1, <2>2, AnswerAgree
<1>9. posted' = posted \/ posted'.body = body
  <2>1. posted' = posted \/ (Fits(total) /\ posted' = [call |-> Head(up).call, body |-> lines])
    BY DEF BodyEnd
  <2>2. Fits(total) => lines = body
    BY <1>3, <1>4, TypeFacts, SubSeqFull DEF BodyRead
  <2> QED
    BY <2>1, <2>2
<1>10. total = Size(body)
  BY <1>3, <1>4, TypeFacts, SubSeqFull DEF BodyRead
<1> QED
  BY <1>8, <1>9, <1>10

-----------------------------------------------------------------------------
(* The library reads.                                                      *)

\* A line that is no reply is read.
LEMMA ReadAside ==
    ASSUME TypeInv, Agree, Coming # <<>>, Coming' = Tail(Coming), 1 \notin Replies(Coming),
           block'.code = "215" <=> block.code = "215",
           block.code = "215" => block'.call = block.call,
           UNCHANGED <<mode, call, body, lines, total>>, Unread' = Unread,
           phase' = phase \/ (phase = "event" /\ phase' = "idle")
    PROVE  RepliesOwn' /\ Stages'
<1>1. Coming \in Seq(Frame)
  BY ComingFrames
<1>2. /\ \A i \in Replies(Coming') : i + 1 \in Replies(Coming) /\ Coming'[i] = Coming[i + 1]
      /\ \A i \in Replies(Coming) : i - 1 \in Replies(Coming')
  BY <1>1, RestOfReplies
<1>3. Answering' <=> Answering
  BY <1>2 DEF Answering
<1>4. RepliesOwn'
  <2>1. ASSUME NEW i \in Replies(Coming')
        PROVE  /\ Coming'[i].call = call' /\ (Coming'[i].code = "354" <=> mode' = "body")
               /\ block'.code # "215" /\ \A j \in Replies(Coming') : i = j
    <3>1. i + 1 \in Replies(Coming) /\ Coming'[i] = Coming[i + 1]
      BY <1>2
    <3>2. \A j \in Replies(Coming) : i + 1 = j
      BY <3>1 DEF Agree, RepliesOwn
    <3>3. ASSUME NEW j \in Replies(Coming') PROVE i = j
      <4>1. i + 1 = j + 1
        BY <1>2, <3>2
      <4>2. i \in Nat /\ j \in Nat
        BY DEF Replies
      <4> QED
        BY <4>1, <4>2
    <3> QED
      BY <3>1, <3>3 DEF Agree, RepliesOwn
  <2>2. block'.code = "215" => block'.call = call' /\ mode' # "body"
    BY DEF Agree, RepliesOwn
  <2> QED
    BY <2>1, <2>2 DEF RepliesOwn
<1>5. Stages'
  <2>1. CASE phase' = phase
    <3>1. Answering' => phase' \in {"reply", "invite", "accept"} /\ Unread' = <<>>
      BY <1>3, <2>1 DEF Agree, Stages
    <3>2. mode' = "serve" /\ ~ Answering' =>
          \/ phase' \in {"idle", "event"} /\ Unread' = <<>>
          \/ phase' \in {"reply", "invite"} /\ Len(Unread') = 1 /\
               (phase' = "reply" => Unread'[1] # <<"PUBLISH">>)
      BY <1>3, <2>1 DEF Agree, Stages
    <3>3. \A k \in 0 .. Len(body) : BodyRead(k) => BodyRead(k)'
      BY DEF BodyRead
    <3>4. mode' = "body" =>
          \/ phase' = "invite" /\ Answering' /\ lines' = <<>> /\ total' = 0
          \/ phase' = "accept" /\ ~ Answering' /\ \E k \in 0 .. Len(body') : BodyRead(k)'
      BY <1>3, <2>1, <3>3 DEF Agree, Stages
    <3> QED
      BY <3>1, <3>2, <3>4 DEF Stages
  <2>2. CASE phase = "event" /\ phase' = "idle"
    <3>1. ~ Answering /\ mode # "body" /\ (mode = "serve" => Unread = <<>>)
      BY <2>2, Quiet
    <3> QED
      BY <1>3, <2>2, <3>1 DEF Stages
  <2> QED
    BY <2>1, <2>2
<1> QED
  BY <1>4, <1>5

\* A reply is read: it is the one there is.
LEMMA ReadReply ==
    ASSUME TypeInv, PastCalls, Agree, Coming # <<>>, 1 \in Replies(Coming)
    PROVE  /\ Replies(Tail(Coming)) = {} /\ Coming[1].call = call
           /\ Coming[1].code = "354" <=> mode = "body"
           /\ block.code # "215" /\ phase \in {"reply", "invite", "accept"} /\ Unread = <<>>
           /\ mode = "body" => phase = "invite" /\ lines = <<>> /\ total = 0
<1>1. Answering
  BY DEF Answering
<1>2. /\ Coming[1].call = call /\ (Coming[1].code = "354" <=> mode = "body")
      /\ block.code # "215" /\ \A j \in Replies(Coming) : 1 = j
  BY DEF Agree, RepliesOwn
<1>3. ASSUME NEW i \in Replies(Tail(Coming)) PROVE FALSE
  <2>1. Coming \in Seq(Frame)
    BY ComingFrames
  <2>2. i + 1 \in Replies(Coming)
    BY <2>1, RestOfReplies
  <2>3. i \in 1 .. Len(Tail(Coming)) /\ i + 1 = 1
    BY <1>2, <2>2 DEF Replies
  <2> QED
    BY <2>3
<1> QED
  BY <1>1, <1>2, <1>3 DEF Agree, Stages

LEMMA ReadAgree ==
    ASSUME TypeInv, TypeInv', LibraryInv, BlocksWhole, PastCalls, astray = {}, Agree, ReadLine
    PROVE  Agree' /\ (result' = result \/ result'.for = result'.call)
<1> DEFINE item == Head(down)
<1>1. /\ Coming # <<>> /\ Coming[1] = item /\ Coming' = Tail(Coming)
      /\ Coming \in Seq(Frame) /\ Len(Coming) \in Nat \ {0}
      /\ item.code # "text" => item.text = <<>>
  BY ReadComing, ComingFrames, FirstLine, TypeParts, ReadFrame DEF ReadLine, daemonVars
<1>2. /\ phase # "idle" /\ toSend = <<>>
      /\ UNCHANGED <<call, up, mode, lines, total, out>>
      /\ ReadBlock(item) \/ ReadPush(item) \/ ReadStatus(item)
      /\ UNCHANGED body
  BY DEF ReadLine, daemonVars, ReadBlock, ReadPush, ReadStatus
<1>3. /\ block \in Block /\ (block.code = "none" => block = NoBlock)
      /\ NoBlock.code = "none"
  BY TypeFacts, NoBlockCode
<1>4. /\ item.code = "text" <=> block # NoBlock
      /\ Proper(Opens(item), Tail(Coming))
  <2>1. Whole(block # NoBlock, Coming) /\ Proper(block # NoBlock, Coming)
    BY DEF BlocksWhole, Agree
  <2> QED
    BY <1>1, <2>1, RestOfBlocks
<1>5. 1 \in Replies(Coming) <=> item.code \notin Async \union {"text"}
  <2>1. 1 \in 1 .. Len(Coming)
    BY <1>1
  <2> QED
    BY <1>1, <2>1 DEF Replies
<1> HIDE DEF item
<1>6. LinesOwn'
  BY <1>2 DEF Agree, LinesOwn
<1>7. ASSUME Opens(item) => block' # NoBlock PROVE Proper(block # NoBlock, Coming)'
  BY <1>1, <1>4, <1>7 DEF Proper, OpenAfter
<1>8. ASSUME item.code \in Async \union {"text"}, UNCHANGED toSend,
             Opens(item) => block' # NoBlock,
             block'.code = "215" <=> block.code = "215",
             block.code = "215" => block'.call = block.call,
             phase' = phase \/ (phase = "event" /\ phase' = "idle")
      PROVE  Agree'
  <2>1. Unread' = Unread
    BY <1>2, <1>8, SameUnread
  <2>2. RepliesOwn' /\ Stages'
    BY <1>1, <1>2, <1>5, <1>8, <2>1, ReadAside
  <2> QED
    BY <1>6, <1>7, <1>8, <2>2 DEF Agree
<1>9. CASE block # NoBlock /\ item.text # Terminator
  <2>1. /\ block' = [block EXCEPT !.text = Append(@, Unstuff(item.text))]
        /\ UNCHANGED <<toSend, phase, result>>
    BY <1>2, <1>9 DEF ReadBlock, ReadPush, ReadStatus
  <2>2. block'.code = block.code /\ block'.call = block.call /\ block' # NoBlock
    BY <1>3, <1>9, <2>1 DEF Block
  <2> QED
    BY <1>4, <1>8, <1>9, <2>1, <2>2
<1>10. CASE block # NoBlock /\ item.text = Terminator
  <2>1. ~ Opens(item) /\ item.code = "text"
    BY <1>4, <1>10 DEF Opens
  <2>2. CASE block.code = "101"
    <3>1. /\ block' = NoBlock /\ UNCHANGED <<toSend, result>>
          /\ Push([code |-> block.code, text |-> block.text])
      BY <1>2, <1>10, <2>2 DEF ReadBlock, ReadPush, ReadStatus
    <3>2. phase' = phase \/ (phase = "event" /\ phase' = "idle")
      BY <3>1 DEF Push
    <3> QED
      BY <1>3, <1>8, <2>1, <2>2, <3>1, <3>2
  <2>3. CASE block.code = "215"
    <3>1. /\ block' = NoBlock /\ UNCHANGED toSend
          /\ Return(block.code, block.call)
      BY <1>2, <1>10, <2>3 DEF ReadBlock, ReadPush, ReadStatus
    <3>2. /\ Answering /\ Unread = <<>> /\ block.call = call /\ mode # "body"
          /\ \A i \in Replies(Coming) : FALSE
      BY <2>3 DEF Answering, Agree, Stages, RepliesOwn
    <3>3. Replies(Coming') = {}
      BY <1>1, <3>2, RestOfReplies
    <3>4. ~ Answering' /\ RepliesOwn'
      BY <1>3, <3>1, <3>3, NoReplies
    <3>5. Unread' = <<>>
      BY <1>2, <3>1, <3>2, SameUnread
    <3>6. Stages'
      BY <1>2, <3>1, <3>2, <3>4, <3>5 DEF Stages, Return
    <3>7. result'.for = result'.call
      BY <3>1, <3>2 DEF Return
    <3> QED
      BY <1>6, <1>7, <2>1, <3>4, <3>6, <3>7 DEF Agree
  <2> QED
    BY <1>3, <1>10, <2>2, <2>3 DEF Block
<1>11. CASE block = NoBlock /\ item.code = "101"
  <2>1. block' = item /\ UNCHANGED <<toSend, phase, result>>
    BY <1>2, <1>11 DEF ReadBlock, ReadPush, ReadStatus, Async
  <2> QED
    BY <1>3, <1>8, <1>11, <2>1 DEF Async
<1>12. CASE block = NoBlock /\ item.code = "102"
  <2>1. /\ UNCHANGED <<block, toSend, result>>
        /\ Push([code |-> item.code, text |-> <<>>])
    BY <1>2, <1>12 DEF ReadBlock, ReadPush, ReadStatus, Async
  <2>2. phase' = phase \/ (phase = "event" /\ phase' = "idle")
    BY <2>1 DEF Push
  <2> QED
    BY <1>3, <1>8, <1>12, <2>1, <2>2 DEF Async, Opens
<1>13. CASE block = NoBlock /\ item.code \notin Async
  <2>1. /\ Replies(Coming') = {} /\ item.call = call
        /\ item.code = "354" <=> mode = "body"
        /\ block.code # "215" /\ phase \in {"reply", "invite", "accept"} /\ Unread = <<>>
        /\ mode = "body" => phase = "invite" /\ lines = <<>> /\ total = 0
    <3>1. 1 \in Replies(Coming)
      BY <1>4, <1>5, <1>13
    <3> QED
      BY <1>1, <3>1, ReadReply
  <2>2. item.code # "text" /\ ReadStatus(item)
    BY <1>2, <1>4, <1>13 DEF ReadBlock, ReadPush
  <2>3. CASE item.code = "354"
    <3>1. toSend' = Encode(body) /\ phase' = "accept" /\ UNCHANGED <<block, result>>
      <4>1. phase = "invite"
        BY <2>1, <2>3
      <4> QED
        BY <2>2, <2>3, <4>1 DEF ReadStatus, BlockCodes
    <3>2. ~ Answering' /\ RepliesOwn'
      BY <2>1, <3>1, NoReplies
    <3>3. ~ Opens(item)
      BY <2>3 DEF Opens
    <3>4. up = <<>>
      BY <2>1, UnreadLines
    <3>5. body \in Seq(Line) /\ Len(Encode(body)) = Len(body) + 1 /\ Encode(body) \in Seq(Line)
          /\ Len(body) \in Nat
      BY TypeFacts, EncodeBody, LenProperties
    <3>6. Unread' = Encode(body)
      <4>1. Len(up') = 0
        BY <1>2, <3>4
      <4>2. /\ Unread' \in Seq(Line) /\ Len(Unread') = Len(Encode(body))
            /\ \A i \in 1 .. Len(body) + 1 : Unread'[i] = Encode(body)[i]
        <5>1. /\ Unread' \in Seq(Line) /\ Len(Unread') = Len(up') + Len(toSend')
              /\ \A i \in 1 .. Len(up') + Len(toSend') :
                   Unread'[i] = IF i <= Len(up') THEN up'[i].text ELSE toSend'[i - Len(up')]
          BY NextUnreadLines
        <5>2. Len(up') + Len(toSend') = Len(body) + 1
          BY <3>1, <3>5, <4>1
        <5>3. \A i \in 1 .. Len(body) + 1 : ~ (i <= Len(up')) /\ i - Len(up') = i
          BY <4>1
        <5> QED
          BY <3>1, <3>5, <5>1, <5>2, <5>3
      <4> QED
        BY <3>5, <4>2, SeqEqual
    <3>7. BodyRead(0)'
      <4>1. Unread' = SubSeq(Encode(body), 1, Len(body) + 1)
        BY <3>5, <3>6, SubSeqFull
      <4>2. SubSeq(body, 1, 0) = <<>>
        BY SubSeqEmpty
      <4>3. 0 + 1 = 1
        OBVIOUS
      <4> QED
        BY <1>2, <2>1, <2>3, <4>1, <4>2, <4>3, SizeOfMore DEF BodyRead
    <3>8. Stages'
      <4>1. \E k \in 0 .. Len(body') : BodyRead(k)'
        <5>1. 0 \in 0 .. Len(body')
          BY <1>2, <3>5
        <5> QED
          BY <3>7, <5>1
      <4> QED
        BY <1>2, <2>1, <2>3, <3>1, <3>2, <4>1 DEF Stages
    <3> QED
      BY <1>6, <1>7, <3>1, <3>2, <3>3, <3>8 DEF Agree
  <2>4. CASE item.code = "215"
    <3>1. block' = item /\ UNCHANGED <<phase, toSend, result>>
      BY <2>1, <2>2, <2>4 DEF ReadStatus, BlockCodes
    <3>2. block' # NoBlock
      BY <1>3, <2>4, <3>1
    <3>3. Answering'
      BY <2>4, <3>1 DEF Answering
    <3>4. mode # "body" /\ Unread' = <<>>
      BY <1>2, <2>1, <2>4, <3>1, SameUnread
    <3>5. RepliesOwn'
      BY <1>2, <2>1, <3>1, <3>4 DEF RepliesOwn
    <3>6. Stages'
      BY <1>2, <2>1, <3>1, <3>3, <3>4 DEF Stages
    <3> QED
      BY <1>6, <1>7, <3>1, <3>2, <3>5, <3>6 DEF Agree
  <2>5. CASE item.code \notin {"354", "215"}
    <3>1. Return(item.code, item.call) /\ UNCHANGED <<block, toSend>>
      BY <2>1, <2>2, <2>5 DEF ReadStatus, BlockCodes
    <3>2. ~ Answering' /\ RepliesOwn'
      BY <2>1, <3>1, NoReplies
    <3>3. ~ Opens(item)
      BY <1>13, <2>2, <2>5 DEF Opens, Async
    <3>4. mode # "body" /\ Unread' = <<>>
      BY <1>2, <2>1, <2>5, <3>1, SameUnread
    <3>5. Stages'
      BY <1>2, <3>1, <3>2, <3>4 DEF Stages, Return
    <3>6. result'.for = result'.call
      BY <1>2, <2>1, <3>1 DEF Return
    <3> QED
      BY <1>6, <1>7, <3>2, <3>3, <3>5, <3>6 DEF Agree
  <2> QED
    BY <2>3, <2>4, <2>5
<1> QED
  BY <1>9, <1>10, <1>11, <1>12, <1>13 DEF Async

\* The daemon is gone: nothing is under way any more.
LEMMA ClosedAgree ==
    ASSUME TypeInv, LibraryInv, Agree, ReadClosed
    PROVE  Agree' /\ result'.for = result'.call
<1>1. /\ mode = "done" /\ toSend' = <<>> /\ block' = NoBlock /\ Return("closed", call)
      /\ toSend # <<>> \/ (out = <<>> /\ down = <<>>)
      /\ UNCHANGED <<call, up, down, mode, out>>
  BY DEF ReadClosed, daemonVars
<1>2. Coming' = Coming
  BY <1>1 DEF Coming
<1>3. CASE toSend # <<>>
  <2>1. Replies(Coming) = {} /\ block = NoBlock
    BY <1>3, Quiet, UnreadLines DEF LibraryInv
  <2>2. ~ Answering' /\ RepliesOwn'
    BY <1>1, <1>2, <2>1, NoReplies, NoBlockCode
  <2>3. Proper(block # NoBlock, Coming)'
    BY <1>1, <1>2, <2>1 DEF Agree, Proper, OpenAfter
  <2> QED
    BY <1>1, <2>2, <2>3 DEF Agree, LinesOwn, Stages, Return
<1>4. CASE out = <<>> /\ down = <<>>
  <2>1. Len(Coming) = 0
    BY <1>4, ComingFrames
  <2>2. Replies(Coming) = {}
    BY <2>1 DEF Replies
  <2>3. ~ Answering' /\ RepliesOwn'
    BY <1>1, <1>2, <2>2, NoReplies, NoBlockCode
  <2>4. Proper(block # NoBlock, Coming)'
    BY <1>2, <2>1 DEF Proper
  <2> QED
    BY <1>1, <2>3, <2>4 DEF Agree, LinesOwn, Stages, Return
<1> QED
  BY <1>1, <1>3, <1>4

-----------------------------------------------------------------------------
(* Every step.                                                             *)

LEMMA AgreeStep ==
    ASSUME StepInv, [Next]_vars, TypeInv', astray' = {}
    PROVE  Agree' /\ (result' = result \/ result'.for = result'.call)
<1>1. /\ TypeInv /\ LibraryInv /\ BlocksWhole /\ PastCalls /\ astray = {} /\ Agree
  <2>1. astray = {}
    BY AstrayGrows
  <2> QED
    BY <2>1 DEF StepInv, EventInv, InStep
<1>2. CASE Flush \/ NextEvent \/ DropNextEvent \/ Send \/ UNCHANGED vars
  <2>1. Agree'
    BY <1>1, <1>2, QuietSteps
  <2>2. result' = result
    BY <1>2 DEF Flush, NextEvent, DropNextEvent, Send, vars, histVars
  <2> QED
    BY <2>1, <2>2
<1>3. ASSUME NEW v, NEW b, Call(v, b) PROVE Agree' /\ result' = result
  BY <1>1, <1>3, CallAgree DEF Call, histVars
<1>4. CASE Deliver
  BY <1>1, <1>4, DeliverAgree DEF Deliver
<1>5. CASE Simple \/ List \/ Quit \/ PublishRefused \/ PublishInvited \/ BadCommand
  <2>1. Agree'
    BY <1>1, <1>5, CommandsAgree
  <2>2. result' = result
    BY <1>5 DEF Simple, List, Quit, PublishRefused, PublishInvited, BadCommand, TakeCommand
  <2> QED
    BY <2>1, <2>2
<1>6. CASE BodyLine
  BY <1>1, <1>6, BodyLineAgree DEF BodyLine, TakeBodyLine
<1>7. CASE BodyEnd
  BY <1>1, <1>7, BodyEndAgree DEF BodyEnd, TakeBodyLine
<1>8. CASE BodyLineTooLong
  BY <1>8 DEF BodyLineTooLong
<1>9. CASE ReadLine
  BY <1>1, <1>9, ReadAgree
<1>10. CASE ReadClosed
  BY <1>1, <1>10, ClosedAgree
<1> QED
  BY <1>2, <1>3, <1>4, <1>5, <1>6, <1>7, <1>8, <1>9, <1>10 DEF Next, Daemon

\* What has been published stays what it was, until the next PUBLISH.
LEMMA BodyIntactStep ==
    ASSUME StepInv, [Next]_vars, TypeInv', astray' = {}
    PROVE  BodyIntact'
<1>1. /\ TypeInv /\ LibraryInv /\ BlocksWhole /\ PastCalls /\ astray = {} /\ Agree
      /\ posted.call = call => posted.body = body
  <2>1. astray = {}
    BY AstrayGrows
  <2> QED
    BY <2>1 DEF StepInv, EventInv, InStep, BodyIntact
<1>2. ASSUME UNCHANGED <<call, body, posted>> PROVE BodyIntact'
  BY <1>1, <1>2 DEF BodyIntact
<1>3. CASE BodyEnd
  <2>1. posted' = posted \/ posted'.body = body
    BY <1>1, <1>3, BodyEndAgree
  <2>2. UNCHANGED <<call, body>>
    BY <1>3 DEF BodyEnd, TakeBodyLine, clientVars
  <2> QED
    BY <1>1, <2>1, <2>2 DEF BodyIntact
<1>4. ASSUME NEW v, NEW b, Call(v, b) PROVE BodyIntact'
  <2>1. call' = call + 1 /\ posted' = posted
    BY <1>4 DEF Call, histVars
  <2>2. posted.call <= call /\ posted.call \in Nat /\ call \in Nat
    BY <1>1, TypeFacts DEF PastCalls
  <2>3. posted'.call # call'
    BY <2>1, <2>2
  <2> QED
    BY <2>3 DEF BodyIntact
<1>5. CASE NextEvent \/ DropNextEvent \/ Send \/ ReadClosed \/ Deliver \/ UNCHANGED vars
  BY <1>2, <1>5 DEF NextEvent, DropNextEvent, Send, ReadClosed, Deliver, clientVars, histVars, vars
<1>6. CASE ReadLine
  BY <1>2, <1>6 DEF ReadLine, ReadBlock, ReadPush, ReadStatus
<1>7. CASE Flush \/ Simple \/ List \/ Quit \/ PublishRefused \/ PublishInvited \/ BadCommand
             \/ BodyLine \/ BodyLineTooLong
  BY <1>2, <1>7 DEF Flush, Simple, List, Quit, PublishRefused, PublishInvited, BadCommand, BodyLine,
                    BodyLineTooLong, TakeCommand, TakeBodyLine, clientVars, histVars
<1> QED
  BY <1>3, <1>4, <1>5, <1>6, <1>7 DEF Next, Daemon

\* What the library returns is the reply it reads, or none of the daemon's two
\* verdicts on a body.
LEMMA ReadVerdict ==
    ASSUME TypeInv, LibraryInv, BlocksWhole, astray = {}, Agree, ReadLine
    PROVE  /\ \A i \in Replies(Coming') : \E j \in Replies(Coming) : Coming'[i] = Coming[j]
           /\ \/ result' = result
              \/ /\ result'.call = call
                 /\ \/ result'.code \notin {"452", "250"}
                    \/ \E j \in Replies(Coming) : result'.code = Coming[j].code
<1> DEFINE item == Head(down)
<1>1. /\ Coming # <<>> /\ Coming[1] = item /\ Coming' = Tail(Coming)
      /\ Coming \in Seq(Frame) /\ Len(Coming) \in Nat \ {0}
  BY ReadComing, ComingFrames, FirstLine DEF ReadLine, daemonVars
<1>2. ReadBlock(item) \/ ReadPush(item) \/ ReadStatus(item)
  BY DEF ReadLine
<1>3. block \in Block
  BY TypeFacts
<1> HIDE DEF item
<1>4. \A i \in Replies(Coming') : \E j \in Replies(Coming) : Coming'[i] = Coming[j]
  BY <1>1, RestOfReplies
<1>5. CASE ReadBlock(item)
  <2>1. result' = result \/ (Return(block.code, block.call) /\ block.code # "101")
    BY <1>5 DEF ReadBlock
  <2>2. block.code \notin {"452", "250"}
    BY <1>3 DEF Block
  <2> QED
    BY <1>4, <2>1, <2>2 DEF Return
<1>6. CASE ReadPush(item)
  BY <1>4, <1>6 DEF ReadPush
<1>7. CASE ReadStatus(item)
  <2>1. item.code \notin Async
    BY <1>7 DEF ReadStatus
  <2>2. CASE item.code = "text"
    BY <1>4, <1>7, <2>2 DEF ReadStatus, Return
  <2>3. CASE item.code # "text"
    <3>1. 1 \in Replies(Coming)
      <4>1. 1 \in 1 .. Len(Coming)
        BY <1>1
      <4> QED
        BY <1>1, <2>1, <2>3, <4>1 DEF Replies
    <3>2. result' = result \/ Return("protocol", item.call) \/ Return(item.code, item.call)
      BY <1>7 DEF ReadStatus
    <3>3. ASSUME Return("protocol", item.call) \/ Return(item.code, item.call)
          PROVE  result'.call = call
      BY <3>3 DEF Return
    <3>4. CASE Return("protocol", item.call)
      <4>1. result'.code = "protocol"
        BY <3>4 DEF Return
      <4> QED
        BY <1>4, <3>3, <3>4, <4>1
    <3>5. CASE Return(item.code, item.call)
      <4>1. result'.code = Coming[1].code
        BY <1>1, <3>5 DEF Return
      <4> QED
        BY <1>4, <3>1, <3>3, <3>5, <4>1
    <3> QED
      BY <1>4, <3>2, <3>4, <3>5
  <2> QED
    BY <2>2, <2>3
<1> QED
  BY <1>2, <1>5, <1>6, <1>7

\* A delivery is no reply.
LEMMA DeliverReplies ==
    ASSUME TypeInv, Deliver
    PROVE  \A i \in Replies(Coming') : i \in Replies(Coming) /\ Coming'[i] = Coming[i]
<1>1. out = <<>> /\ UNCHANGED down /\ out' \in Seq(Frame) /\ Replies(out') = {}
  BY DeliverSteps
<1>2. Coming' = Coming \o out' /\ Coming \in Seq(Frame)
  BY <1>1, WriteComing, ComingFrames
<1>3. /\ \A i \in Replies(Coming) : (Coming \o out')[i] = Coming[i]
      /\ \A i \in Replies(Coming \o out') : i \in Replies(Coming) \/ i - Len(Coming) \in Replies(out')
  <2>1. out' \in Seq(Frame) /\ Coming \in Seq(Frame)
    BY <1>1, <1>2
  <2> QED
    BY <2>1, RepliesConcat
<1>4. \A i \in Replies(Coming \o out') : i \in Replies(Coming)
  BY <1>1, <1>3
<1> QED
  BY <1>2, <1>3, <1>4

\* Calls return in the order they are made.
LEMMA ResultsPast ==
    ASSUME TypeInv, result.call <= call, [Next]_vars
    PROVE  result'.call <= call'
<1>1. call \in Nat /\ result.call \in Nat
  BY TypeFacts
<1>2. ASSUME call' \in {call, call + 1}, result' = result \/ result'.call = call
      PROVE  result'.call <= call'
  BY <1>1, <1>2
<1>3. CASE ReadLine
  BY <1>2, <1>3 DEF ReadLine, ReadBlock, ReadPush, ReadStatus, Return
<1>4. CASE ReadClosed
  BY <1>2, <1>4 DEF ReadClosed, Return
<1>5. ASSUME NEW v, NEW b, Call(v, b) PROVE result'.call <= call'
  BY <1>2, <1>5 DEF Call, histVars
<1>6. CASE NextEvent \/ DropNextEvent \/ Send \/ Deliver \/ Daemon \/ UNCHANGED vars
  BY <1>2, <1>6 DEF NextEvent, DropNextEvent, Send, Deliver, Daemon, Flush, Simple, List, Quit,
                    PublishRefused, PublishInvited, BadCommand, BodyLine, BodyEnd,
                    BodyLineTooLong, TakeCommand, TakeBodyLine, clientVars, histVars, vars
<1> QED
  BY <1>3, <1>4, <1>5, <1>6 DEF Next

\* A verdict is given on the whole body, and it is the body's until it is read.
LEMMA VerdictsStep ==
    ASSUME StepInv, Verdicts, [Next]_vars, TypeInv'
    PROVE  Verdicts'
<1>1. TypeInv /\ LibraryInv /\ BlocksWhole /\ result.call <= call
  BY DEF StepInv, EventInv, Verdicts
<1>2. result'.call <= call'
  BY <1>1, ResultsPast
<1> SUFFICES ASSUME astray' = {}
             PROVE  /\ \A i \in Replies(Coming)' : Verdict(Coming'[i].code, body')
                    /\ result'.call = call' => Verdict(result'.code, body')
  BY <1>2 DEF Verdicts
<1>3. /\ astray = {} /\ Agree
      /\ \A i \in Replies(Coming) : Verdict(Coming[i].code, body)
      /\ result.call = call => Verdict(result.code, body)
  <2>1. astray = {}
    BY AstrayGrows
  <2> QED
    BY <2>1 DEF StepInv, InStep, Verdicts
<1> DEFINE Kept == /\ \A i \in Replies(Coming)' : Verdict(Coming'[i].code, body')
                   /\ result'.call = call' => Verdict(result'.code, body')
\* No reply is added.
<1>5. ASSUME UNCHANGED <<body, call>>,
             \A i \in Replies(Coming') : \E j \in Replies(Coming) : Coming'[i] = Coming[j],
             \/ result' = result
             \/ result'.code \notin {"452", "250"}
             \/ \E j \in Replies(Coming) : result'.code = Coming[j].code
      PROVE  Kept
  <2>1. \A i \in Replies(Coming)' : Verdict(Coming'[i].code, body')
    BY <1>3, <1>5
  <2>2. ASSUME result'.call = call' PROVE Verdict(result'.code, body')
    <3>1. CASE result' = result
      BY <1>3, <1>5, <2>2, <3>1
    <3>2. CASE result'.code \notin {"452", "250"}
      BY <3>2 DEF Verdict
    <3>3. CASE \E j \in Replies(Coming) : result'.code = Coming[j].code
      BY <1>3, <1>5, <3>3
    <3> QED
      BY <1>5, <3>1, <3>2, <3>3
  <2> QED
    BY <2>1, <2>2
\* The one reply is added.
<1>6. ASSUME NEW code \in {"211", "215", "221", "250", "354", "441", "452", "500"},
             NEW n \in Nat, Answer(code, n), Replies(Coming) = {}, Verdict(code, body),
             UNCHANGED result
      PROVE  Kept
  <2>1. UNCHANGED <<body, call>>
    BY <1>6 DEF Answer, clientVars
  <2>2. /\ Replies(Coming') = {Len(Coming) + 1}
        /\ Coming'[Len(Coming) + 1].code = code
    BY <1>1, <1>6, AnswerReplies
  <2>3. Verdict(Coming'[Len(Coming) + 1].code, body')
    BY <1>6, <2>1, <2>2
  <2>4. result'.call = call' => Verdict(result'.code, body')
    BY <1>3, <1>6, <2>1
  <2> QED
    BY <2>2, <2>3, <2>4
<1>7. CASE Flush \/ Send \/ NextEvent \/ DropNextEvent \/ BodyLine \/ UNCHANGED vars
  <2>1. UNCHANGED <<body, call, result>>
    BY <1>7 DEF Flush, Send, NextEvent, DropNextEvent, BodyLine, TakeBodyLine, clientVars, histVars, vars
  <2>2. Coming' = Coming
    <3>1. CASE Flush
      BY <1>1, <3>1, FlushComing DEF Flush
    <3>2. CASE DropNextEvent
      <4>1. UNCHANGED <<down, out>>
        BY <3>2 DEF DropNextEvent, daemonVars
      <4> QED
        BY <4>1 DEF Coming
    <3>3. CASE Send \/ NextEvent \/ BodyLine \/ UNCHANGED vars
      <4>1. UNCHANGED <<down, out>>
        BY <3>3 DEF Send, NextEvent, BodyLine, TakeBodyLine, daemonVars, vars
      <4> QED
        BY <4>1 DEF Coming
    <3> QED
      BY <1>7, <3>1, <3>2, <3>3
  <2> QED
    BY <1>5, <2>1, <2>2
<1>8. ASSUME NEW v, NEW b, Call(v, b) PROVE Kept
  <2>1. /\ phase = "idle" /\ call' = call + 1 /\ UNCHANGED <<result, down, out>>
        /\ result.call \in Nat /\ call \in Nat
    BY <1>1, <1>8, TypeFacts DEF Call, daemonVars, histVars
  <2>2. Replies(Coming) = {} /\ Coming' = Coming
    BY <1>1, <1>3, <2>1, Quiet DEF Coming
  <2>3. result'.call # call'
    BY <1>1, <2>1
  <2> QED
    BY <2>2, <2>3
<1>9. CASE Deliver
  <2>1. UNCHANGED <<body, call, result>>
    BY <1>9 DEF Deliver, clientVars
  <2>2. \A i \in Replies(Coming') : i \in Replies(Coming) /\ Coming'[i] = Coming[i]
    BY <1>1, <1>9, DeliverReplies
  <2> QED
    BY <1>5, <2>1, <2>2
<1>10. CASE ReadLine
  <2>1. UNCHANGED <<body, call>>
    BY <1>10 DEF ReadLine, ReadBlock, ReadPush, ReadStatus
  <2> QED
    BY <1>1, <1>3, <1>5, <1>10, <2>1, ReadVerdict
<1>11. CASE ReadClosed
  <2>1. UNCHANGED <<body, call, down, out>> /\ result'.code = "closed"
    BY <1>11 DEF ReadClosed, Return, daemonVars
  <2>2. Coming' = Coming
    BY <2>1 DEF Coming
  <2> QED
    BY <1>5, <2>1, <2>2
<1>12. CASE Simple \/ List \/ Quit \/ PublishRefused \/ PublishInvited \/ BadCommand
  <2>1. /\ up # <<>> /\ Head(up).call \in Nat /\ UNCHANGED result /\ mode = "serve"
    BY <1>1, <1>12, AnsweringSteps DEF Simple, List, Quit, PublishRefused, PublishInvited,
       BadCommand, TakeCommand
  <2>2. Replies(Coming) = {}
    BY <1>1, <1>3, <2>1, Quiet, UnreadLines
  <2>3. \E code \in {"211", "215", "221", "354", "441", "500"} : Answer(code, Head(up).call)
    <3>1. out = <<>> /\ UNCHANGED <<clientVars, down, events, pushed>>
      BY <1>12 DEF Simple, List, Quit, PublishRefused, PublishInvited, BadCommand, TakeCommand
    <3>2. CASE Simple
      BY <3>1, <3>2 DEF Simple, Reply, Answer
    <3>3. CASE List
      BY <3>1, <3>3 DEF List, Reply, Answer
    <3>4. CASE Quit
      BY <3>1, <3>4 DEF Quit, Reply, Answer
    <3>5. CASE PublishRefused
      BY <3>1, <3>5 DEF PublishRefused, Reply, Answer
    <3>6. CASE PublishInvited
      BY <3>1, <3>6 DEF PublishInvited, Answer
    <3>7. CASE BadCommand
      BY <3>1, <3>7 DEF BadCommand, Reply, Answer
    <3> QED
      BY <1>12, <3>2, <3>3, <3>4, <3>5, <3>6, <3>7
  <2>4. PICK code \in {"211", "215", "221", "354", "441", "500"} : Answer(code, Head(up).call)
    BY <2>3
  <2>5. Verdict(code, body)
    BY DEF Verdict
  <2> QED
    BY <1>6, <2>1, <2>2, <2>4, <2>5
<1>13. CASE BodyEnd
  <2>1. /\ up # <<>> /\ Head(up).call \in Nat /\ UNCHANGED result /\ mode = "body"
    BY <1>1, <1>13, AnsweringSteps DEF BodyEnd, TakeBodyLine
  <2>2. Replies(Coming) = {}
    BY <1>1, <1>3, <2>1, ReadingBody
  <2>3. total = Size(body) /\ total \in Nat /\ MaxMessage \in Nat
    BY <1>1, <1>3, <1>13, BodyEndAgree, TypeFacts, ExchangeLimits
  <2>4. \/ ~ Fits(total) /\ Answer("452", Head(up).call)
        \/ Fits(total) /\ Answer("250", Head(up).call)
        \/ Answer("441", Head(up).call)
    BY <1>13 DEF BodyEnd, TakeBodyLine, Reply, Answer
  <2>5. \E code \in {"452", "250", "441"} : Answer(code, Head(up).call) /\ Verdict(code, body)
    BY <2>3, <2>4 DEF Verdict, Fits
  <2> QED
    BY <1>6, <2>1, <2>2, <2>5
<1>14. CASE BodyLineTooLong
  BY <1>14 DEF BodyLineTooLong
<1> QED
  BY <1>7, <1>8, <1>9, <1>10, <1>11, <1>12, <1>13, <1>14 DEF Next, Daemon

LEMMA StepInvInit == Init => StepInv
<1> SUFFICES ASSUME Init PROVE StepInv
  OBVIOUS
<1>1. EventInv
  BY EventInvInit
<1>2. /\ up = <<>> /\ toSend = <<>> /\ down = <<>> /\ out = <<>> /\ block = NoBlock /\ call = 0
      /\ phase = "idle" /\ mode = "serve" /\ lines = <<>> /\ astray = {}
      /\ posted = [call |-> 0, body |-> <<>>] /\ body = <<>> /\ result = NoResult
  BY DEF Init
<1>3. Coming = <<>> /\ Len(Coming) = 0
  BY <1>1, <1>2, ComingFrames DEF EventInv
<1>4. Replies(Coming) = {} /\ block.code # "215" /\ ~ Answering
  BY <1>2, <1>3, NoBlockCode DEF Replies, Answering
<1>5. Proper(block # NoBlock, Coming) /\ RepliesOwn
  BY <1>3, <1>4 DEF Proper, RepliesOwn
<1>6. DOMAIN up = {}
  BY <1>2
<1>7. Unread = <<>>
  BY <1>1, <1>2, UnreadLines DEF EventInv
<1>8. InStep
  BY <1>2, <1>4, <1>5, <1>6, <1>7 DEF InStep, Agree, LinesOwn, Stages
<1>9. PastCalls
  BY <1>2, <1>6 DEF PastCalls
<1>10. ReplyMatches /\ BodyIntact
  BY <1>2 DEF ReplyMatches, BodyIntact, NoResult
<1> QED
  BY <1>1, <1>8, <1>9, <1>10 DEF StepInv

LEMMA StepInvStep == StepInv /\ [Next]_vars => StepInv'
<1> SUFFICES ASSUME StepInv, [Next]_vars PROVE StepInv'
  OBVIOUS
<1>1. EventInv /\ TypeInv /\ LibraryInv /\ PastCalls /\ ReplyMatches
  BY DEF StepInv, EventInv
<1>2. TypeInv' /\ LibraryInv' /\ BlocksWhole' /\ EventsKept'
  BY <1>1, TypeStep, LibraryStep, BlocksStep, EventsStep
<1>3. InStep'
  BY <1>2, AgreeStep DEF InStep
<1>4. PastCalls'
  BY <1>1, <1>2, PastCallsStep
<1>5. ReplyMatches'
  <2>1. CASE astray' = {}
    <3>1. astray = {}
      BY <2>1, AstrayGrows
    <3>2. result' = result \/ result'.for = result'.call
      BY <1>2, <2>1, AgreeStep
    <3> QED
      BY <1>1, <3>1, <3>2 DEF ReplyMatches
  <2>2. CASE astray' # {}
    BY <2>2 DEF ReplyMatches
  <2> QED
    BY <2>1, <2>2
<1>6. BodyIntact'
  <2>1. CASE astray' = {}
    BY <1>2, <2>1, BodyIntactStep
  <2>2. CASE astray' # {}
    BY <2>2 DEF BodyIntact
  <2> QED
    BY <2>1, <2>2
<1> QED
  BY <1>2, <1>3, <1>4, <1>5, <1>6 DEF StepInv, EventInv

LEMMA StepInvariant == Spec => []StepInv
<1>1. StepInv /\ [Next]_vars => StepInv'
  BY StepInvStep
<1> QED
  BY StepInvInit, <1>1, PTL DEF Spec

\* A caller has the reply to its own command (send_command, read_response),
\* whatever the daemon pushed in between and whatever was dropped before, but
\* for an over-long body line or a push that is torn.
THEOREM RepliesMatch == Spec => []ReplyMatches
<1>1. StepInv => ReplyMatches
  BY DEF StepInv
<1> QED
  BY <1>1, StepInvariant, PTL

\* What read_body hands to publish_local is what the caller gave to publish,
\* line for line and dot for dot.
THEOREM BodiesIntact == Spec => []BodyIntact
<1>1. StepInv => BodyIntact
  BY DEF StepInv
<1> QED
  BY <1>1, StepInvariant, PTL

\* A body is refused as too large only if it is, and published only if it is
\* not: the limit is applied to what the caller gave, stuffing and terminator
\* aside (read_body's total, octet for octet with message_size).
THEOREM SizesJudged == Spec => []SizeJudged
<1>1. Init => VerdictInv
  <2>1. Init => Verdicts
    <3> SUFFICES ASSUME Init PROVE Verdicts
      OBVIOUS
    <3>1. /\ down = <<>> /\ out = <<>> /\ call = 0 /\ result = NoResult
      BY DEF Init
    <3>2. Len(Coming) = 0
      BY <3>1, StepInvInit, ComingFrames DEF StepInv, EventInv
    <3>3. Replies(Coming) = {}
      BY <3>2 DEF Replies
    <3> QED
      BY <3>1, <3>3 DEF Verdicts, Verdict, NoResult
  <2> QED
    BY <2>1, StepInvInit DEF VerdictInv
<1>2. VerdictInv /\ [Next]_vars => VerdictInv'
  <2> SUFFICES ASSUME VerdictInv, [Next]_vars PROVE VerdictInv'
    OBVIOUS
  <2>1. StepInv /\ StepInv'
    BY StepInvStep DEF VerdictInv
  <2>2. TypeInv'
    BY <2>1 DEF StepInv, EventInv
  <2> QED
    BY <2>1, <2>2, VerdictsStep DEF VerdictInv
<1>3. VerdictInv => SizeJudged
  BY DEF VerdictInv, Verdicts, Verdict, SizeJudged
<1> QED
  BY <1>1, <1>2, <1>3, PTL DEF Spec
=============================================================================
