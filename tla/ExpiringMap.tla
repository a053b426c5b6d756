----------------------------- MODULE ExpiringMap ----------------------------
(***************************************************************************)
(* What an in-memory store with expiry promises: a key maps to what was    *)
(* put last; an entry leaves when it is removed, is replaced, or is found  *)
(* expired by a sweep; and a sweep, which reads the clock once, leaves no  *)
(* entry that had expired by then.  The store (DBMS) implements it.        *)
(***************************************************************************)
EXTENDS Naturals

CONSTANTS
  Key,      \* the keys
  Entry,    \* what a key may map to: records with a field m_qwTime
  Absent,   \* not an entry: the key is not in the map
  Instant,  \* the readings of the clock
  Idle      \* not an instant: no sweep is going on

VARIABLES
  store,    \* what each key maps to
  now,      \* the clock
  asOf      \* the clock's reading a sweep works with, Idle between sweeps

vars == <<store, now, asOf>>

Init ==
  /\ store = [k \in Key |-> Absent]
  /\ now \in Instant
  /\ asOf = Idle

Expired(k) == store[k] # Absent /\ store[k].m_qwTime < asOf

\* A wall clock: it may be set to any time.
Clock == now' \in Instant /\ UNCHANGED <<store, asOf>>

Put(k) ==
  /\ asOf = Idle
  /\ \E e \in Entry :
       /\ e.m_qwTime >= now
       /\ store' = [store EXCEPT ![k] = e]
  /\ UNCHANGED <<now, asOf>>

Remove(k) ==
  /\ asOf = Idle
  /\ store' = [store EXCEPT ![k] = Absent]
  /\ UNCHANGED <<now, asOf>>

SweepBegin == asOf = Idle /\ asOf' = now /\ UNCHANGED <<store, now>>

SweepOne(k) ==
  /\ asOf # Idle
  /\ Expired(k)
  /\ store' = [store EXCEPT ![k] = Absent]
  /\ UNCHANGED <<now, asOf>>

SweepEnd ==
  /\ asOf # Idle
  /\ \A k \in Key : ~Expired(k)
  /\ asOf' = Idle
  /\ UNCHANGED <<store, now>>

Next ==
  \/ Clock
  \/ \E k \in Key : Put(k) \/ Remove(k) \/ SweepOne(k)
  \/ SweepBegin \/ SweepEnd

Spec == Init /\ [][Next]_vars
=============================================================================
