------------------------------ MODULE Ownership ------------------------------
(***************************************************************************)
(* What registration promises, with no daemon's table, queue or link in    *)
(* sight: a claim is made once by the daemon it originates on, every       *)
(* daemon's view holds claims that were really made, and a view moves to   *)
(* another claim only if that claim is older, or as old and made by a      *)
(* lower daemon.  A daemon that restarts starts from an empty view.        *)
(***************************************************************************)
EXTENDS Naturals

CONSTANTS Daemon, Type, Key, NoReg,
          Time  \* clock readings

VARIABLES view,   \* the claim each daemon holds for each type
          claims  \* every claim ever made

vars == <<view, claims>>

Older(a, b) == a.ts < b.ts \/ (a.ts = b.ts /\ a.origin < b.origin)

Init == /\ view = [d \in Daemon |-> [t \in Type |-> NoReg]]
        /\ claims = {}

\* Daemon d claims type t: the claim is new and later than any d made before.
Claim(d, t, k, n) ==
    /\ view[d][t] = NoReg
    /\ \A c \in claims : c.type = t /\ c.reg.origin = d => c.reg.ts < n
    /\ view' = [view EXCEPT ![d][t] = [key |-> k, origin |-> d, ts |-> n]]
    /\ claims' = claims \union
                    {[type |-> t, reg |-> [key |-> k, origin |-> d, ts |-> n]]}

\* Daemon d takes over an older claim that somebody made.
Learn(d) ==
    /\ \E c \in claims :
          /\ view[d][c.type] = NoReg \/ Older(c.reg, view[d][c.type])
          /\ view' = [view EXCEPT ![d][c.type] = c.reg]
    /\ UNCHANGED claims

Forget(d) ==
    /\ view' = [view EXCEPT ![d] = [t \in Type |-> NoReg]]
    /\ UNCHANGED claims

Next == \E d \in Daemon :
            \/ \E t \in Type, k \in Key, n \in Time : Claim(d, t, k, n)
            \/ Learn(d)
            \/ Forget(d)

Spec == Init /\ [][Next]_vars
=============================================================================
