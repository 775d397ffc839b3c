---------------------------- MODULE DialerProofs ----------------------------
(***************************************************************************)
(* What holds of a daemon's dialers for every list of configured peers,    *)
(* with or without twins, and every pair of delays.                        *)
(***************************************************************************)
EXTENDS Dialer, TLAPS

-----------------------------------------------------------------------------
(* Type correctness.                                                       *)

\* The delay stays below its ceiling once it has been doubled.
LEMMA DoubledBounds ==
    ASSUME NEW n \in (1 .. Ceiling) \union {Base}
    PROVE  /\ Doubled(n) \in 1 .. Ceiling
           /\ Base <= Ceiling => n <= Doubled(n)
<1>1. /\ n \in Nat \ {0} /\ Ceiling \in Nat \ {0} /\ Base \in Nat \ {0}
      /\ Base <= Ceiling => n <= Ceiling
  BY DelayAssumption
<1> QED
  BY <1>1 DEF Doubled

LEMMA TypeInit == Init => TypeOK
  BY BoundAssumption DEF Init, TypeOK, Phase, Conn

LEMMA TypeStep == ASSUME TypeOK, [Next]_vars PROVE TypeOK'
<1> USE DEF TypeOK, Phase, Conn, Goto
<1>1. ASSUME NEW e \in Entry, Connect(e) \/ Refused(e) \/ GreetingFails(e) \/ StartLoops(e)
      PROVE  TypeOK'
  BY <1>1 DEF Connect, Refused, GreetingFails, StartLoops
<1>2. ASSUME NEW i \in Id, SendTo(i) PROVE pending' \in [Entry -> BOOLEAN]
  BY <1>2 DEF SendTo, Receiving
<1>3. ASSUME NEW e \in Entry, PushRecord(e) PROVE TypeOK'
  BY <1>2, <1>3, EntryAssumption DEF PushRecord
<1>4. ASSUME NEW i \in Id, Traffic(i) PROVE TypeOK'
  BY <1>2, <1>4 DEF Traffic
<1>5. ASSUME NEW e \in Entry, Insert(e) PROVE TypeOK'
  <2>1. IdOf[e] \in Id /\ peers' = [peers EXCEPT ![IdOf[e]] = e]
    BY <1>5, EntryAssumption DEF Insert
  <2>2. /\ peers' \in [Id -> Entry \union {NoEntry}]
        /\ \A i \in Id : peers'[i] # NoEntry => IdOf[peers'[i]] = i
    BY <2>1
  <2> QED
    BY <1>5, <2>2 DEF Insert
<1>6. ASSUME NEW e \in Entry, Write(e) \/ WriteFails(e) \/ ReadEnds(e) \/ WriteEnds(e)
      PROVE  TypeOK'
  BY <1>6 DEF Write, WriteFails, AfterWriteError, ReadEnds, AfterEof, WriteEnds
<1>7. ASSUME NEW e \in Entry, Deregister(e) PROVE TypeOK'
  <2>1. /\ IdOf[e] \in Id /\ peers' = [peers EXCEPT ![IdOf[e]] = NoEntry]
    BY <1>7, EntryAssumption DEF Deregister, Removed
  <2>2. /\ peers' \in [Id -> Entry \union {NoEntry}]
        /\ \A i \in Id : peers'[i] # NoEntry => IdOf[peers'[i]] = i
    BY <2>1
  <2>3. backoff' \in [Entry -> (1 .. Ceiling) \union {Base}]
    BY <1>7 DEF Deregister
  <2> QED
    BY <1>7, <2>2, <2>3 DEF Deregister
<1>8. ASSUME NEW e \in Entry, WakeUp(e) PROVE TypeOK'
  <2>1. Doubled(backoff[e]) \in 1 .. Ceiling
    BY DoubledBounds
  <2>2. backoff' \in [Entry -> (1 .. Ceiling) \union {Base}]
    BY <1>8, <2>1 DEF WakeUp
  <2> QED
    BY <1>8, <2>2 DEF WakeUp
<1>9. ASSUME NEW e \in Entry, HostStarts(e) \/ HostStops(e) \/ HostVanishes(e) PROVE TypeOK'
  BY <1>9, BoundAssumption DEF HostStarts, HostStops, HostVanishes, Change
<1>10. CASE UNCHANGED vars
  BY <1>10 DEF vars
<1> QED
  BY <1>1, <1>3, <1>4, <1>5, <1>6, <1>7, <1>8, <1>9, <1>10 DEF Next, Dial

\* Every variable keeps its shape, peers names entries under their own ids
\* only, and the delay never exceeds the larger of its base and its ceiling.
THEOREM TypeCorrect == Spec => []TypeOK
  BY TypeInit, TypeStep, PTL DEF Spec

-----------------------------------------------------------------------------
(* Who owns an entry of peers.                                             *)

\* A dialer whose id is configured once never sees its write_loop end with Ok.
NeverClosed == \A e \in Entry : Unique(e) => phase[e] # "closed"

DialerInv == TypeOK /\ SenderHasLink /\ LinkHasSender /\ NeverClosed

LEMMA DialerInvInit == Init => DialerInv
<1> SUFFICES ASSUME Init PROVE DialerInv
  OBVIOUS
<1>1. \A e \in Entry : ~ Registered(e)
  BY EntryAssumption DEF Init, Registered
<1> QED
  BY <1>1, TypeInit DEF Init, DialerInv, SenderHasLink, LinkHasSender, NeverClosed

\* A step moves one dialer along, and only its entry of peers changes: by
\* Insert to itself, by Deregister to nobody.
LEMMA PhaseSteps ==
    ASSUME TypeOK, [Next]_vars
    PROVE  \/ UNCHANGED <<phase, peers>>
           \/ \E e \in Entry :
                 /\ \A f \in Entry \ {e} : phase'[f] = phase[f]
                 /\ \/ /\ phase[e] = "dial" /\ phase'[e] = "push"
                       /\ peers' = [peers EXCEPT ![IdOf[e]] = e]
                    \/ /\ phase[e] \in {"closed", "failed"} /\ phase'[e] = "sleep"
                       /\ peers' = [peers EXCEPT ![IdOf[e]] = NoEntry]
                    \/ /\ UNCHANGED peers
                       /\ \/ phase[e] = "dial" /\ phase'[e] = "sleep"
                          \/ phase[e] = "push" /\ phase'[e] = "run"
                          \/ phase[e] = "run" /\ phase'[e] = "failed"
                          \/ phase[e] = "run" /\ phase'[e] = "closed" /\ ~ Registered(e)
                          \/ phase[e] = "sleep" /\ phase'[e] = "dial"
<1> USE DEF Goto
<1>0. phase \in [Entry -> Phase]
  BY DEF TypeOK
<1>1. ASSUME NEW e \in Entry, Insert(e) \/ Deregister(e)
      PROVE  /\ \A f \in Entry \ {e} : phase'[f] = phase[f]
             /\ \/ /\ phase[e] = "dial" /\ phase'[e] = "push"
                   /\ peers' = [peers EXCEPT ![IdOf[e]] = e]
                \/ /\ phase[e] \in {"closed", "failed"} /\ phase'[e] = "sleep"
                   /\ peers' = [peers EXCEPT ![IdOf[e]] = NoEntry]
  BY <1>0, <1>1 DEF Insert, Deregister, Removed
<1>2. ASSUME NEW e \in Entry,
             \/ Refused(e) \/ GreetingFails(e) \/ StartLoops(e) \/ WriteFails(e)
             \/ ReadEnds(e) \/ WriteEnds(e) \/ WakeUp(e)
      PROVE  /\ \A f \in Entry \ {e} : phase'[f] = phase[f]
             /\ UNCHANGED peers
             /\ \/ phase[e] = "dial" /\ phase'[e] = "sleep"
                \/ phase[e] = "push" /\ phase'[e] = "run"
                \/ phase[e] = "run" /\ phase'[e] = "failed"
                \/ phase[e] = "run" /\ phase'[e] = "closed" /\ ~ Registered(e)
                \/ phase[e] = "sleep" /\ phase'[e] = "dial"
  BY <1>0, <1>2 DEF Refused, GreetingFails, StartLoops, WriteFails, AfterWriteError,
                    ReadEnds, AfterEof, WriteEnds, Done, WakeUp
<1>3. CASE \/ \E e \in Entry : \/ Connect(e) \/ PushRecord(e) \/ Write(e)
                               \/ HostStarts(e) \/ HostStops(e) \/ HostVanishes(e)
           \/ \E i \in Id : Traffic(i)
           \/ UNCHANGED vars
  BY <1>3 DEF Connect, PushRecord, Write, HostStarts, HostStops, HostVanishes, Traffic, vars
<1> QED
  BY <1>1, <1>2, <1>3 DEF Next, Dial

LEMMA DialerInvStep == DialerInv /\ [Next]_vars => DialerInv'
<1> SUFFICES ASSUME DialerInv, [Next]_vars PROVE DialerInv'
  OBVIOUS
<1>1. TypeOK /\ TypeOK' /\ SenderHasLink /\ LinkHasSender /\ NeverClosed
  BY TypeStep DEF DialerInv
<1>2. /\ \A e \in Entry : IdOf[e] \in Id /\ e # NoEntry
      /\ peers \in [Id -> Entry \union {NoEntry}]
  BY <1>1, EntryAssumption DEF TypeOK
<1>3. CASE UNCHANGED <<phase, peers>>
  BY <1>1, <1>3 DEF DialerInv, SenderHasLink, LinkHasSender, NeverClosed, Registered
<1>4. ASSUME NEW e \in Entry, \A f \in Entry \ {e} : phase'[f] = phase[f],
             phase[e] = "dial", phase'[e] = "push", peers' = [peers EXCEPT ![IdOf[e]] = e]
      PROVE  DialerInv'
  <2>1. SenderHasLink'
    BY <1>1, <1>2, <1>4 DEF SenderHasLink, Registered
  <2>2. LinkHasSender'
    BY <1>1, <1>2, <1>4 DEF LinkHasSender, Registered, Unique
  <2>3. NeverClosed'
    BY <1>1, <1>4 DEF NeverClosed, Unique
  <2> QED
    BY <1>1, <2>1, <2>2, <2>3 DEF DialerInv
<1>5. ASSUME NEW e \in Entry, \A f \in Entry \ {e} : phase'[f] = phase[f],
             phase'[e] = "sleep", peers' = [peers EXCEPT ![IdOf[e]] = NoEntry]
      PROVE  DialerInv'
  <2>1. SenderHasLink'
    BY <1>1, <1>2, <1>5 DEF SenderHasLink, Registered
  <2>2. LinkHasSender'
    BY <1>1, <1>2, <1>5 DEF LinkHasSender, Registered, Unique
  <2>3. NeverClosed'
    BY <1>1, <1>5 DEF NeverClosed, Unique
  <2> QED
    BY <1>1, <2>1, <2>2, <2>3 DEF DialerInv
<1>6. ASSUME NEW e \in Entry, \A f \in Entry \ {e} : phase'[f] = phase[f], UNCHANGED peers,
             \/ phase[e] = "dial" /\ phase'[e] = "sleep"
             \/ phase[e] = "push" /\ phase'[e] = "run"
             \/ phase[e] = "run" /\ phase'[e] = "failed"
             \/ phase[e] = "run" /\ phase'[e] = "closed" /\ ~ Registered(e)
             \/ phase[e] = "sleep" /\ phase'[e] = "dial"
      PROVE  DialerInv'
  <2>1. \A f \in Entry : Registered(f)' = Registered(f) /\ Unique(f)' = Unique(f)
    BY <1>6 DEF Registered, Unique
  <2>2. SenderHasLink'
    BY <1>1, <1>6, <2>1 DEF SenderHasLink
  <2>3. LinkHasSender'
    BY <1>1, <1>6, <2>1 DEF LinkHasSender
  <2>4. NeverClosed'
    BY <1>1, <1>6, <2>1 DEF NeverClosed, LinkHasSender
  <2> QED
    BY <1>1, <2>2, <2>3, <2>4 DEF DialerInv
<1> QED
  BY <1>1, <1>3, <1>4, <1>5, <1>6, PhaseSteps

LEMMA DialerInvariant == Spec => []DialerInv
  BY DialerInvInit, DialerInvStep, PTL DEF Spec

\* No sender stays in peers while its dialer sleeps or dials, twins included.
THEOREM SendersLive == Spec => []SenderHasLink
<1>1. DialerInv => SenderHasLink
  BY DEF DialerInv
<1> QED
  BY <1>1, DialerInvariant, PTL

\* A standing link whose peer is configured once can be sent to.
THEOREM LinksReached == Spec => []LinkHasSender
<1>1. DialerInv => LinkHasSender
  BY DEF DialerInv
<1> QED
  BY <1>1, DialerInvariant, PTL

\* Without twins the reset of the delay is never reached: a link that worked
\* for days is redialed with the delay of the failures before it.
THEOREM ResetNeedsTwin == Spec => OnlyTwinsReset
<1>1. ASSUME DialerInv, [Next]_vars, NEW e \in Entry, backoff'[e] < backoff[e], Unique(e)
      PROVE  Base > Ceiling
  <2>1. /\ backoff \in [Entry -> (1 .. Ceiling) \union {Base}]
        /\ \A f \in Entry : backoff[f] \in Nat
        /\ Base \in Nat /\ Ceiling \in Nat
    BY <1>1, DelayAssumption DEF DialerInv, TypeOK
  <2>2. backoff'[e] # backoff[e]
    BY <1>1, <2>1
  <2>3. PICK f \in Entry : WakeUp(f) \/ Deregister(f)
    BY <1>1, <2>2 DEF Next, Dial, Connect, Refused, Insert, PushRecord, StartLoops, Write,
       WriteFails, ReadEnds, WriteEnds, GreetingFails, HostStarts, HostStops, HostVanishes,
       Traffic, vars
  <2>4. CASE Deregister(f)
    <3>1. f = e /\ phase[f] = "closed"
      BY <2>1, <2>2, <2>4 DEF Deregister
    <3> QED
      BY <1>1, <3>1 DEF DialerInv, NeverClosed
  <2>5. CASE WakeUp(f)
    <3>1. f = e /\ backoff'[e] = Doubled(backoff[e])
      BY <2>1, <2>2, <2>5 DEF WakeUp
    <3>2. Base <= Ceiling => backoff[e] <= Doubled(backoff[e]) /\ Doubled(backoff[e]) \in 1 .. Ceiling
      BY <2>1, DoubledBounds
    <3> QED
      BY <1>1, <2>1, <3>1, <3>2
  <2> QED
    BY <2>3, <2>4, <2>5
<1>2. ASSUME DialerInv, [Next]_vars
      PROVE  [\A e \in Entry : backoff'[e] < backoff[e] => ~ Unique(e) \/ Base > Ceiling]_vars
  BY <1>1, <1>2
<1> QED
  BY <1>2, DialerInvariant, PTL DEF Spec, OnlyTwinsReset
=============================================================================
