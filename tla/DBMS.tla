-------------------------------- MODULE DBMS --------------------------------
(***************************************************************************)
(* The in-memory store of logged-in accounts (DPDB/dbms.h, dbms.cpp): a    *)
(* map from keys to values with an expiry time, and a multimap from expiry *)
(* times to keys that UpdateData walks from its first entry on.  The two   *)
(* are kept in step by hand in Insert, Del and UpdateData.                 *)
(*                                                                         *)
(* All calls come from one thread, so Insert and Del are one step each.    *)
(* UpdateData is one step per turn of its loop, because the clock it read  *)
(* before the loop may be out of date by the end of it.  Times are seconds *)
(* far below 2^63 (the only caller passes a lifetime of 10000), so the     *)
(* sum in Insert and the signed comparison in UpdateData are exact.        *)
(***************************************************************************)
EXTENDS Naturals, SequencesExt

CONSTANTS
  Key,        \* account names
  Value,      \* values stored under them
  Lifetime,   \* the values of Insert's iLastTime
  MaxNow,     \* bound on time(0)
  MaxLifetime,\* bound on Lifetime
  Absent,     \* not a MemData: the key is not in the map
  Idle        \* not a time: UpdateData is not running

VARIABLES
  m_mapAllData,     \* for each key its MemData, or Absent
  m_mapAllDataTime, \* for each time the keys filed under it, oldest first
  now,              \* time(0)
  iCurTime          \* UpdateData's local clock reading, Idle outside of it

vars == <<m_mapAllData, m_mapAllDataTime, now, iCurTime>>

Instant == 0 .. MaxNow
Time    == 0 .. MaxNow + MaxLifetime
MemData == [m_strValue : Value, m_qwTime : Time]

ASSUME StoreAssumption ==
  /\ MaxNow \in Nat
  /\ MaxLifetime \in Nat
  /\ Lifetime \subseteq 0 .. MaxLifetime
  /\ Absent \notin MemData
  /\ Idle \notin Instant

Init ==
  /\ m_mapAllData = [k \in Key |-> Absent]
  /\ m_mapAllDataTime = [t \in Time |-> <<>>]
  /\ now \in Instant
  /\ iCurTime = Idle

\* The wall clock, which may also be set back.
Tick == now' \in Instant /\ UNCHANGED <<m_mapAllData, m_mapAllDataTime, iCurTime>>

-----------------------------------------------------------------------------
\* Mutant of Unfile: the first entry of the time goes, whosever it is.
UnfileHead(index, key) ==
  IF m_mapAllData[key] = Absent THEN index
  ELSE [index EXCEPT ![m_mapAllData[key].m_qwTime] = Tail(@)]

\* Del's scan of the entries with key's time, erasing the first that is key's.
Scan(bucket, key) ==
  CHOOSE i \in DOMAIN bucket : bucket[i] = key /\ \A j \in 1 .. i - 1 : bucket[j] # key

Unfile(index, key) ==
  IF m_mapAllData[key] = Absent THEN index
  ELSE [index EXCEPT ![m_mapAllData[key].m_qwTime] =
          IF key \in ToSet(@) THEN RemoveAt(@, Scan(@, key)) ELSE @]

\* Mutant of ExpiryOf: an off-by-one.
ExpiryLate(lifetime) == now + lifetime + 1

ExpiryOf(lifetime) == now + lifetime

Insert(key, value, lifetime) ==
  /\ iCurTime = Idle
  /\ m_mapAllDataTime' =
       [Unfile(m_mapAllDataTime, key) EXCEPT ![ExpiryOf(lifetime)] = Append(@, key)]
  /\ m_mapAllData' =
       [m_mapAllData EXCEPT ![key] = [m_strValue |-> value, m_qwTime |-> ExpiryOf(lifetime)]]
  /\ UNCHANGED <<now, iCurTime>>

Del(key) ==
  /\ iCurTime = Idle
  /\ m_mapAllDataTime' = Unfile(m_mapAllDataTime, key)
  /\ m_mapAllData' = [m_mapAllData EXCEPT ![key] = Absent]
  /\ UNCHANGED <<now, iCurTime>>

-----------------------------------------------------------------------------
(***************************************************************************)
(* UpdateData.                                                             *)
(***************************************************************************)
\* The times of m_mapAllDataTime.begin(), of which there is at most one.
First == { t \in Time : /\ m_mapAllDataTime[t] # <<>>
                        /\ \A u \in Time : u < t => m_mapAllDataTime[u] = <<>> }

UpdateDataEnter ==
  /\ iCurTime = Idle
  /\ iCurTime' = now
  /\ UNCHANGED <<m_mapAllData, m_mapAllDataTime, now>>

Due(t) == iCurTime > t

\* Mutant of UpdateDataPop: everything filed under the time is dropped.
UpdateDataPopBucket ==
  /\ iCurTime # Idle
  /\ \E t \in First :
       /\ Due(t)
       /\ m_mapAllData' = [m_mapAllData EXCEPT ![Head(m_mapAllDataTime[t])] = Absent]
       /\ m_mapAllDataTime' = [m_mapAllDataTime EXCEPT ![t] = <<>>]
  /\ UNCHANGED <<now, iCurTime>>

UpdateDataPop ==
  /\ iCurTime # Idle
  /\ \E t \in First :
       /\ Due(t)
       /\ m_mapAllData' = [m_mapAllData EXCEPT ![Head(m_mapAllDataTime[t])] = Absent]
       /\ m_mapAllDataTime' = [m_mapAllDataTime EXCEPT ![t] = Tail(@)]
  /\ UNCHANGED <<now, iCurTime>>

\* The index is empty, or its first entry is not due.
UpdateDataReturn ==
  /\ iCurTime # Idle
  /\ \A t \in First : ~Due(t)
  /\ iCurTime' = Idle
  /\ UNCHANGED <<m_mapAllData, m_mapAllDataTime, now>>

Next ==
  \/ Tick
  \/ \E key \in Key : Del(key) \/ \E value \in Value, lifetime \in Lifetime :
                                    Insert(key, value, lifetime)
  \/ UpdateDataEnter \/ UpdateDataPop \/ UpdateDataReturn

Spec == Init /\ [][Next]_vars

-----------------------------------------------------------------------------
(***************************************************************************)
(* Type invariant of the store.                                            *)
(***************************************************************************)
StoreTypeOK ==
  /\ m_mapAllData \in [Key -> MemData \cup {Absent}]
  /\ m_mapAllDataTime \in [Time -> Seq(Key)]
  /\ now \in Instant
  /\ iCurTime \in Instant \cup {Idle}

(***************************************************************************)
(* The map and its time index agree: each key of the map is filed exactly  *)
(* once, under its own expiry time, and nothing else is filed.  An entry   *)
(* left behind by Del or Insert would later take a fresh value with it.    *)
(***************************************************************************)
FiledUnder(key, t) == m_mapAllData[key] # Absent /\ m_mapAllData[key].m_qwTime = t

IndexMatchesMap ==
  \A t \in Time :
    /\ \A i \in DOMAIN m_mapAllDataTime[t] : FiledUnder(m_mapAllDataTime[t][i], t)
    /\ \A i, j \in DOMAIN m_mapAllDataTime[t] :
         m_mapAllDataTime[t][i] = m_mapAllDataTime[t][j] => i = j
    /\ \A key \in Key :
         FiledUnder(key, t) => \E i \in DOMAIN m_mapAllDataTime[t] : m_mapAllDataTime[t][i] = key

(***************************************************************************)
(* The store is an expiring map: whatever the sequence of Insert, Del and  *)
(* UpdateData and however the clock moves meanwhile, a value leaves early  *)
(* only by Del or Insert, and UpdateData leaves nothing that had expired   *)
(* when it began.                                                          *)
(***************************************************************************)
Abstract == INSTANCE ExpiringMap WITH
              Entry <- MemData, store <- m_mapAllData, asOf <- iCurTime

StoreIsExpiringMap == Abstract!Spec
=============================================================================
