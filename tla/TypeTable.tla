------------------------------ MODULE TypeTable ------------------------------
(***************************************************************************)
(* The ownership record of a message type and the two rules that change it *)
(* (macro-busd/src/registry.rs): a local REGISTER claims an unknown type,  *)
(* and a record learned from a peer replaces the held one when its         *)
(* (ts, daemon-id) tuple is lower.                                         *)
(*                                                                         *)
(* A daemon is its rank in the lexicographic order of the daemon-id        *)
(* strings, which is all the code's comparison of tuples can tell apart.   *)
(***************************************************************************)
EXTENDS Naturals

CONSTANTS Daemon,  \* the daemons of the cluster, by the rank of their id
          Type,    \* message types
          Key,     \* authorization keys
          NoReg    \* a type a daemon's table does not hold

ASSUME DaemonAssumption == Daemon \subseteq Nat

\* struct TypeReg
TypeReg == [key : Key, origin : Daemon, ts : Nat]

ASSUME NoRegAssumption == NoReg \notin TypeReg

\* An RREG frame, and an entry of the table's snapshot.
Rreg == [type : Type, reg : TypeReg]

Table == [Type -> TypeReg \union {NoReg}]

EmptyTable == [t \in Type |-> NoReg]

\* Mutant: register_local overwrites a record the table holds.
AlwaysClaimable(table, t) == TRUE

\* register_local: an unknown type is claimed; a known one is left as it is,
\* whether the key matches (210) or not (433).
Claimable(table, t) == table[t] = NoReg

\* Mutant: daemon ids do not break the tie of equal timestamps.
LowerByTimeOnly(a, b) == a.ts < b.ts

\* TypeReg::tuple, compared with <.
Lower(a, b) == \/ a.ts < b.ts
               \/ a.ts = b.ts /\ a.origin < b.origin

\* Mutant: the first record a daemon hears of is kept for good.
FirstHeardWins(incoming, existing) == existing = NoReg

\* Mutant: the last record a daemon hears of is kept.
LastHeardWins(incoming, existing) == incoming # existing

\* apply_remote_registration: whether the incoming record enters the table.
\* The code's test for the very same record is the irreflexivity of Lower.
Wins(incoming, existing) == existing = NoReg \/ Lower(incoming, existing)

\* Mutant: a fresh link gets no snapshot.
NoRegistrations(table) == {}

\* Mutant: the snapshot lists types that nobody registered.
EveryType(table) == {[type |-> t, reg |-> table[t]] : t \in Type}

\* The records of a table, as all_registrations lists them.
Registrations(table) ==
    {[type |-> t, reg |-> table[t]] : t \in {u \in Type : table[u] # NoReg}}
=============================================================================
