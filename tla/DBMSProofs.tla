----------------------------- MODULE DBMSProofs -----------------------------
(***************************************************************************)
(* Proofs about the in-memory store, for every set of keys, values and     *)
(* lifetimes: the map and its time index always agree, and the two         *)
(* together implement the expiring map.  Agreement is what makes the sweep *)
(* complete: when no filed time is due, no key's time is.                  *)
(***************************************************************************)
EXTENDS DBMS, WellFoundedInduction, SequenceTheorems, TLAPS

StoreInv == StoreTypeOK /\ IndexMatchesMap

-----------------------------------------------------------------------------
(***************************************************************************)
(* One bucket of the index.                                                *)
(***************************************************************************)

\* No key is filed twice in a bucket.
NoRepeats(bucket) ==
  \A i, j \in 1 .. Len(bucket) : bucket[i] = bucket[j] => i = j

Holds(bucket, key) == \E i \in 1 .. Len(bucket) : bucket[i] = key

\* Removing the element at i keeps every other one, and only those.
LEMMA RemoveAtProperties ==
  ASSUME NEW S, NEW s \in Seq(S), NEW i \in 1 .. Len(s)
  PROVE  /\ RemoveAt(s, i) \in Seq(S)
         /\ Len(RemoveAt(s, i)) = Len(s) - 1
         /\ \A j \in 1 .. Len(s) - 1 :
              RemoveAt(s, i)[j] = IF j < i THEN s[j] ELSE s[j + 1]
<1>0. Len(s) \in Nat /\ i \in Nat /\ i <= Len(s) /\ 1 <= i
  BY LenProperties
<1> DEFINE a == SubSeq(s, 1, i - 1)
           b == SubSeq(s, i + 1, Len(s))
<1>1. /\ a \in Seq(S) /\ Len(a) = i - 1
      /\ \A j \in 1 .. i - 1 : a[j] = s[j]
  <2>1. \A j \in 1 .. i - 1 : s[j] \in S
    BY <1>0, ElementOfSeq
  <2> QED BY <1>0, <2>1, SubSeqProperties
<1>2. /\ b \in Seq(S) /\ Len(b) = Len(s) - i
      /\ \A j \in 1 .. Len(s) - i : b[j] = s[i + j]
  <2>1. \A j \in i + 1 .. Len(s) : s[j] \in S
    BY <1>0, ElementOfSeq
  <2> QED BY <1>0, <2>1, SubSeqProperties
<1>3. RemoveAt(s, i) = a \o b
  BY DEF RemoveAt
<1> HIDE DEF a, b
<1>4. /\ a \o b \in Seq(S)
      /\ Len(a \o b) = Len(a) + Len(b)
      /\ \A j \in 1 .. Len(a) + Len(b) :
           (a \o b)[j] = IF j <= Len(a) THEN a[j] ELSE b[j - Len(a)]
  BY <1>1, <1>2, ConcatProperties
<1>5. ASSUME NEW j \in 1 .. Len(s) - 1
      PROVE  (a \o b)[j] = IF j < i THEN s[j] ELSE s[j + 1]
  <2>1. /\ j \in Nat /\ 1 <= j /\ j <= Len(s) - 1
        /\ j \in 1 .. Len(a) + Len(b)
    BY <1>0, <1>1, <1>2
  <2>2. (a \o b)[j] = IF j <= Len(a) THEN a[j] ELSE b[j - Len(a)]
    BY <1>4, <2>1
  <2>3. CASE j < i
    BY <1>0, <1>1, <2>1, <2>2, <2>3
  <2>4. CASE j >= i
    <3>1. j - Len(a) \in 1 .. Len(s) - i /\ i + (j - Len(a)) = j + 1 /\ ~(j <= Len(a))
      BY <1>0, <1>1, <2>1, <2>4
    <3>2. b[j - Len(a)] = s[j + 1]
      BY <1>2, <3>1
    <3> QED BY <1>0, <2>1, <2>2, <2>4, <3>1, <3>2
  <2> QED BY <1>0, <2>1, <2>3, <2>4
<1> QED BY <1>0, <1>1, <1>2, <1>3, <1>4, <1>5

\* Del's scan takes key out of a bucket that files it once, and nothing else.
LEMMA ScanProperties ==
  ASSUME NEW S, NEW s \in Seq(S), NoRepeats(s), NEW i \in 1 .. Len(s)
  PROVE  /\ Scan(s, s[i]) = i
         /\ RemoveAt(s, i) \in Seq(S)
         /\ NoRepeats(RemoveAt(s, i))
         /\ \A k : Holds(RemoveAt(s, i), k) <=> Holds(s, k) /\ k # s[i]
<1>0. Len(s) \in Nat /\ DOMAIN s = 1 .. Len(s)
  BY LenProperties
<1> DEFINE first(n) == n \in 1 .. Len(s) /\ s[n] = s[i] /\ \A j \in 1 .. n - 1 : s[j] # s[i]
<1>1. first(i) /\ \A n : first(n) => n = i
  BY <1>0 DEF NoRepeats
<1>2. Scan(s, s[i]) = i
  BY <1>0, <1>1 DEF Scan
<1>3. /\ RemoveAt(s, i) \in Seq(S)
      /\ Len(RemoveAt(s, i)) = Len(s) - 1
      /\ \A j \in 1 .. Len(s) - 1 :
           RemoveAt(s, i)[j] = IF j < i THEN s[j] ELSE s[j + 1]
  BY RemoveAtProperties
<1> DEFINE r == RemoveAt(s, i)
<1> HIDE DEF r
<1>4. NoRepeats(r)
  BY <1>0, <1>3 DEF NoRepeats, r
<1>5. ASSUME NEW k PROVE Holds(r, k) <=> Holds(s, k) /\ k # s[i]
  <2>1. ASSUME Holds(r, k) PROVE Holds(s, k) /\ k # s[i]
    BY <1>0, <1>3, <2>1 DEF Holds, NoRepeats, r
  <2>2. ASSUME Holds(s, k), k # s[i] PROVE Holds(r, k)
    <3>1. PICK j \in 1 .. Len(s) : s[j] = k
      BY <2>2 DEF Holds
    <3>2. j # i
      BY <2>2, <3>1
    <3>3. CASE j < i
      BY <1>0, <1>3, <3>1, <3>3 DEF Holds, r
    <3>4. CASE j > i
      <4>1. j - 1 \in 1 .. Len(s) - 1 /\ r[j - 1] = s[j]
        BY <1>0, <1>3, <3>4 DEF r
      <4> QED BY <1>3, <3>1, <4>1 DEF Holds, r
    <3> QED BY <1>0, <3>2, <3>3, <3>4
  <2> QED BY <2>1, <2>2
<1> QED BY <1>2, <1>3, <1>4, <1>5 DEF r

\* Filing a key in a bucket that does not hold it.
LEMMA FileProperties ==
  ASSUME NEW S, NEW s \in Seq(S), NoRepeats(s), NEW key \in S, ~Holds(s, key)
  PROVE  /\ Append(s, key) \in Seq(S)
         /\ NoRepeats(Append(s, key))
         /\ \A k : Holds(Append(s, key), k) <=> Holds(s, k) \/ k = key
<1>1. /\ Len(s) \in Nat
      /\ Append(s, key) \in Seq(S)
      /\ Len(Append(s, key)) = Len(s) + 1
      /\ \A i \in 1 .. Len(s) : Append(s, key)[i] = s[i]
      /\ Append(s, key)[Len(s) + 1] = key
  BY AppendProperties, LenProperties
<1> DEFINE a == Append(s, key)
<1> HIDE DEF a
<1>2. NoRepeats(a)
  BY <1>1 DEF NoRepeats, Holds, a
<1>3. ASSUME NEW k PROVE Holds(a, k) <=> Holds(s, k) \/ k = key
  <2>1. ASSUME Holds(a, k) PROVE Holds(s, k) \/ k = key
    BY <1>1, <2>1 DEF Holds, a
  <2>2. ASSUME Holds(s, k) PROVE Holds(a, k)
    BY <1>1, <2>2 DEF Holds, a
  <2>3. Holds(a, key)
    BY <1>1 DEF Holds, a
  <2> QED BY <2>1, <2>2, <2>3
<1> QED BY <1>1, <1>2, <1>3 DEF a

\* Erasing the first element of a bucket.
LEMMA PopProperties ==
  ASSUME NEW S, NEW s \in Seq(S), NoRepeats(s), s # <<>>
  PROVE  /\ Head(s) \in S /\ Holds(s, Head(s))
         /\ Tail(s) \in Seq(S)
         /\ NoRepeats(Tail(s))
         /\ \A k : Holds(Tail(s), k) <=> Holds(s, k) /\ k # Head(s)
<1>1. /\ Len(s) \in Nat /\ Len(s) >= 1
      /\ Head(s) \in S /\ Head(s) = s[1]
      /\ Tail(s) \in Seq(S) /\ Len(Tail(s)) = Len(s) - 1
      /\ \A i \in 1 .. Len(s) - 1 : Tail(s)[i] = s[i + 1]
  BY HeadTailProperties, LenProperties, EmptySeq
<1> DEFINE r == Tail(s)
<1> HIDE DEF r
<1>2. NoRepeats(r)
  BY <1>1 DEF NoRepeats, r
<1>3. ASSUME NEW k PROVE Holds(r, k) <=> Holds(s, k) /\ k # Head(s)
  <2>1. ASSUME Holds(r, k) PROVE Holds(s, k) /\ k # Head(s)
    BY <1>1, <2>1 DEF Holds, NoRepeats, r
  <2>2. ASSUME Holds(s, k), k # Head(s) PROVE Holds(r, k)
    <3>1. PICK j \in 1 .. Len(s) : s[j] = k
      BY <2>2 DEF Holds
    <3>2. j - 1 \in 1 .. Len(s) - 1 /\ r[j - 1] = s[j]
      BY <1>1, <2>2, <3>1 DEF r
    <3> QED BY <1>1, <3>1, <3>2 DEF Holds, r
  <2> QED BY <2>1, <2>2
<1> QED BY <1>1, <1>2, <1>3 DEF Holds, r

-----------------------------------------------------------------------------
(***************************************************************************)
(* The index, bucket by bucket.                                            *)
(***************************************************************************)
BucketsMatchMap ==
  \A t \in Time : /\ NoRepeats(m_mapAllDataTime[t])
                  /\ \A k \in Key : Holds(m_mapAllDataTime[t], k) <=> FiledUnder(k, t)

LEMMA MatchIsBuckets ==
  ASSUME StoreTypeOK
  PROVE  IndexMatchesMap <=> BucketsMatchMap
<1>1. \A t \in Time : /\ DOMAIN m_mapAllDataTime[t] = 1 .. Len(m_mapAllDataTime[t])
                      /\ \A i \in 1 .. Len(m_mapAllDataTime[t]) : m_mapAllDataTime[t][i] \in Key
  BY ElementOfSeq, LenProperties DEF StoreTypeOK
<1> QED BY <1>1 DEF IndexMatchesMap, BucketsMatchMap, NoRepeats, Holds

LEMMA TimeFacts ==
  /\ \A k \in Key : \A t : FiledUnder(k, t) /\ StoreTypeOK => t \in Time
  /\ Instant \subseteq Nat /\ Time \subseteq Nat
  /\ StoreTypeOK => \A lifetime \in Lifetime : ExpiryOf(lifetime) \in Time /\ ExpiryOf(lifetime) >= now
BY StoreAssumption DEF FiledUnder, StoreTypeOK, MemData, Instant, Time, ExpiryOf

\* After Del's scan the index files every key as before, but not this one.
LEMMA UnfileProperties ==
  ASSUME StoreInv, NEW key \in Key
  PROVE  LET index == Unfile(m_mapAllDataTime, key)
         IN  /\ index \in [Time -> Seq(Key)]
             /\ \A t \in Time : NoRepeats(index[t])
             /\ \A t \in Time, k \in Key : Holds(index[t], k) <=> FiledUnder(k, t) /\ k # key
<1> DEFINE index == Unfile(m_mapAllDataTime, key)
           time  == m_mapAllData[key].m_qwTime
           bucket == m_mapAllDataTime[time]
<1>0. BucketsMatchMap /\ m_mapAllDataTime \in [Time -> Seq(Key)]
  BY MatchIsBuckets DEF StoreInv, StoreTypeOK
<1>1. CASE m_mapAllData[key] = Absent
  <2>1. index = m_mapAllDataTime
    BY <1>1 DEF Unfile
  <2> QED BY <1>0, <1>1, <2>1 DEF BucketsMatchMap, FiledUnder
<1>2. CASE m_mapAllData[key] # Absent
  <2>1. FiledUnder(key, time) /\ time \in Time
    BY <1>2, TimeFacts DEF FiledUnder, StoreInv
  <2>2. /\ bucket \in Seq(Key) /\ NoRepeats(bucket) /\ Holds(bucket, key)
    BY <1>0, <2>1 DEF BucketsMatchMap
  <2>3. PICK i \in 1 .. Len(bucket) : bucket[i] = key
    BY <2>2 DEF Holds
  <2>4. key \in ToSet(bucket)
    BY <2>2, <2>3, LenProperties DEF ToSet
  <2> DEFINE rest == RemoveAt(bucket, i)
  <2>5. index = [m_mapAllDataTime EXCEPT ![time] = rest]
    <3>1. Scan(bucket, key) = i
      BY <2>2, <2>3, ScanProperties
    <3> QED BY <1>0, <1>2, <2>1, <2>4, <3>1 DEF Unfile
  <2>6. /\ rest \in Seq(Key) /\ NoRepeats(rest)
        /\ \A k : Holds(rest, k) <=> Holds(bucket, k) /\ k # key
    BY <2>2, <2>3, ScanProperties
  <2> HIDE DEF rest
  <2>7. \A t \in Time : index[t] = IF t = time THEN rest ELSE m_mapAllDataTime[t]
    BY <1>0, <2>1, <2>5
  <2>8. index \in [Time -> Seq(Key)]
    BY <1>0, <2>5, <2>6
  <2>9. ASSUME NEW t \in Time
        PROVE  /\ NoRepeats(index[t])
               /\ \A k \in Key : Holds(index[t], k) <=> FiledUnder(k, t) /\ k # key
    <3>1. CASE t = time
      BY <1>0, <2>1, <2>6, <2>7, <3>1 DEF BucketsMatchMap
    <3>2. CASE t # time
      <4>1. ~FiledUnder(key, t)
        BY <3>2 DEF FiledUnder
      <4> QED BY <1>0, <2>7, <3>2, <4>1 DEF BucketsMatchMap
    <3> QED BY <3>1, <3>2
  <2> QED BY <2>8, <2>9
<1> QED BY <1>1, <1>2

-----------------------------------------------------------------------------
(***************************************************************************)
(* The invariant.                                                          *)
(***************************************************************************)
LEMMA StoreInit == Init => StoreInv
<1> SUFFICES ASSUME Init PROVE StoreInv
  OBVIOUS
<1>1. StoreTypeOK
  BY EmptySeq DEF Init, StoreTypeOK
<1>2. BucketsMatchMap
  <2>1. Len(<<>>) = 0
    BY EmptySeq
  <2> QED BY <2>1 DEF Init, BucketsMatchMap, NoRepeats, Holds, FiledUnder
<1> QED BY <1>1, <1>2, MatchIsBuckets DEF StoreInv

\* A step that leaves the map and the index alone.
LEMMA MatchKept ==
  ASSUME StoreInv, StoreTypeOK', UNCHANGED <<m_mapAllData, m_mapAllDataTime>>
  PROVE  StoreInv'
<1>1. BucketsMatchMap
  BY MatchIsBuckets DEF StoreInv
<1> QED BY <1>1 DEF StoreInv, IndexMatchesMap, FiledUnder

\* What is left to show after a step that changes them.
LEMMA MatchFromBuckets ==
  ASSUME StoreTypeOK', BucketsMatchMap'
  PROVE  StoreInv'
<1>1. \A t \in Time :
        /\ DOMAIN m_mapAllDataTime'[t] = 1 .. Len(m_mapAllDataTime'[t])
        /\ \A i \in 1 .. Len(m_mapAllDataTime'[t]) : m_mapAllDataTime'[t][i] \in Key
  BY ElementOfSeq, LenProperties DEF StoreTypeOK
<1> QED BY <1>1 DEF StoreInv, IndexMatchesMap, BucketsMatchMap, NoRepeats, Holds

LEMMA InsertStep ==
  ASSUME StoreInv, NEW key \in Key, NEW value \in Value, NEW lifetime \in Lifetime,
         Insert(key, value, lifetime)
  PROVE  StoreInv'
<1> DEFINE index == Unfile(m_mapAllDataTime, key)
           time  == ExpiryOf(lifetime)
           data  == [m_strValue |-> value, m_qwTime |-> time]
<1>1. time \in Time
  BY TimeFacts DEF StoreInv
<1>2. /\ index \in [Time -> Seq(Key)]
      /\ \A t \in Time : NoRepeats(index[t])
      /\ \A t \in Time, k \in Key : Holds(index[t], k) <=> FiledUnder(k, t) /\ k # key
  BY UnfileProperties
<1>3. data \in MemData /\ data # Absent
  BY <1>1, StoreAssumption DEF MemData
<1>4. /\ m_mapAllDataTime' = [index EXCEPT ![time] = Append(index[time], key)]
      /\ m_mapAllData' = [m_mapAllData EXCEPT ![key] = data]
      /\ UNCHANGED <<now, iCurTime>>
  BY DEF Insert
<1> HIDE DEF index, time
<1>5. /\ Append(index[time], key) \in Seq(Key)
      /\ NoRepeats(Append(index[time], key))
      /\ \A k : Holds(Append(index[time], key), k) <=> Holds(index[time], k) \/ k = key
  BY <1>1, <1>2, FileProperties
<1> DEFINE filed == Append(index[time], key)
<1> HIDE DEF filed
<1>6. \A t \in Time : m_mapAllDataTime'[t] = IF t = time THEN filed ELSE index[t]
  BY <1>1, <1>2, <1>4 DEF filed
<1>7. StoreTypeOK'
  <2>1. m_mapAllDataTime' \in [Time -> Seq(Key)]
    BY <1>1, <1>2, <1>4, <1>5
  <2>2. m_mapAllData' \in [Key -> MemData \cup {Absent}]
    BY <1>3, <1>4 DEF StoreInv, StoreTypeOK
  <2> QED BY <1>4, <2>1, <2>2 DEF StoreInv, StoreTypeOK
<1>8. \A k \in Key : m_mapAllData'[k] = IF k = key THEN data ELSE m_mapAllData[k]
  BY <1>4 DEF StoreInv, StoreTypeOK
<1>9. \A t \in Time, k \in Key :
        FiledUnder(k, t)' <=> IF k = key THEN t = time ELSE FiledUnder(k, t)
  BY <1>3, <1>8 DEF FiledUnder
<1>10. BucketsMatchMap'
  <2>1. ASSUME NEW t \in Time PROVE NoRepeats(m_mapAllDataTime'[t])
    BY <1>2, <1>5, <1>6 DEF filed
  <2>2. ASSUME NEW t \in Time, NEW k \in Key
        PROVE  Holds(m_mapAllDataTime'[t], k) <=> FiledUnder(k, t)'
    <3>1. CASE t = time
      BY <1>1, <1>2, <1>5, <1>6, <1>9, <3>1 DEF filed
    <3>2. CASE t # time
      BY <1>2, <1>6, <1>9, <3>2
    <3> QED BY <3>1, <3>2
  <2> QED BY <2>1, <2>2 DEF BucketsMatchMap
<1> QED BY <1>7, <1>10, MatchFromBuckets

LEMMA DelStep ==
  ASSUME StoreInv, NEW key \in Key, Del(key)
  PROVE  StoreInv'
<1> DEFINE index == Unfile(m_mapAllDataTime, key)
<1>1. /\ index \in [Time -> Seq(Key)]
      /\ \A t \in Time : NoRepeats(index[t])
      /\ \A t \in Time, k \in Key : Holds(index[t], k) <=> FiledUnder(k, t) /\ k # key
  BY UnfileProperties
<1>2. /\ m_mapAllDataTime' = index
      /\ m_mapAllData' = [m_mapAllData EXCEPT ![key] = Absent]
      /\ UNCHANGED <<now, iCurTime>>
  BY DEF Del
<1> HIDE DEF index
<1>3. StoreTypeOK'
  BY <1>1, <1>2 DEF StoreInv, StoreTypeOK
<1>4. \A t \in Time, k \in Key : FiledUnder(k, t)' <=> FiledUnder(k, t) /\ k # key
  BY <1>2 DEF StoreInv, StoreTypeOK, FiledUnder
<1>5. BucketsMatchMap'
  BY <1>1, <1>2, <1>4 DEF BucketsMatchMap
<1> QED BY <1>3, <1>5, MatchFromBuckets

\* What one turn of UpdateData's loop does, in terms of the bucket it meets.
LEMMA PopFacts ==
  ASSUME StoreInv, UpdateDataPop
  PROVE  \E t \in Time : \E key \in Key :
           /\ Due(t)
           /\ FiledUnder(key, t)
           /\ m_mapAllData' = [m_mapAllData EXCEPT ![key] = Absent]
           /\ m_mapAllDataTime' = [m_mapAllDataTime EXCEPT ![t] = Tail(m_mapAllDataTime[t])]
           /\ Tail(m_mapAllDataTime[t]) \in Seq(Key)
           /\ NoRepeats(Tail(m_mapAllDataTime[t]))
           /\ \A k : Holds(Tail(m_mapAllDataTime[t]), k)
                       <=> Holds(m_mapAllDataTime[t], k) /\ k # key
<1>1. PICK t \in First :
        /\ Due(t)
        /\ m_mapAllData' = [m_mapAllData EXCEPT ![Head(m_mapAllDataTime[t])] = Absent]
        /\ m_mapAllDataTime' = [m_mapAllDataTime EXCEPT ![t] = Tail(m_mapAllDataTime[t])]
  BY DEF UpdateDataPop
<1>2. t \in Time /\ m_mapAllDataTime[t] # <<>> /\ m_mapAllDataTime[t] \in Seq(Key)
  BY DEF First, StoreInv, StoreTypeOK
<1>3. BucketsMatchMap
  BY MatchIsBuckets DEF StoreInv
<1>4. NoRepeats(m_mapAllDataTime[t])
  BY <1>2, <1>3 DEF BucketsMatchMap
<1> DEFINE key == Head(m_mapAllDataTime[t])
<1>5. /\ key \in Key /\ Holds(m_mapAllDataTime[t], key)
      /\ Tail(m_mapAllDataTime[t]) \in Seq(Key)
      /\ NoRepeats(Tail(m_mapAllDataTime[t]))
      /\ \A k : Holds(Tail(m_mapAllDataTime[t]), k)
                  <=> Holds(m_mapAllDataTime[t], k) /\ k # key
  BY <1>2, <1>4, PopProperties
<1>6. FiledUnder(key, t)
  BY <1>2, <1>3, <1>5 DEF BucketsMatchMap
<1> QED BY <1>1, <1>2, <1>5, <1>6

LEMMA PopStep ==
  ASSUME StoreInv, UpdateDataPop
  PROVE  StoreInv'
<1>1. PICK t \in Time, key \in Key :
        /\ FiledUnder(key, t)
        /\ m_mapAllData' = [m_mapAllData EXCEPT ![key] = Absent]
        /\ m_mapAllDataTime' = [m_mapAllDataTime EXCEPT ![t] = Tail(m_mapAllDataTime[t])]
        /\ Tail(m_mapAllDataTime[t]) \in Seq(Key)
        /\ NoRepeats(Tail(m_mapAllDataTime[t]))
        /\ \A k : Holds(Tail(m_mapAllDataTime[t]), k)
                    <=> Holds(m_mapAllDataTime[t], k) /\ k # key
  BY PopFacts
<1> DEFINE rest == Tail(m_mapAllDataTime[t])
<1> HIDE DEF rest
<1>2. BucketsMatchMap
  BY MatchIsBuckets DEF StoreInv
<1>3. \A u \in Time : m_mapAllDataTime'[u] = IF u = t THEN rest ELSE m_mapAllDataTime[u]
  BY <1>1 DEF StoreInv, StoreTypeOK, rest
<1>4. StoreTypeOK'
  <2>1. UNCHANGED <<now, iCurTime>>
    BY DEF UpdateDataPop
  <2> QED BY <1>1, <2>1 DEF StoreInv, StoreTypeOK
<1>5. \A u \in Time, k \in Key : FiledUnder(k, u)' <=> FiledUnder(k, u) /\ k # key
  BY <1>1 DEF StoreInv, StoreTypeOK, FiledUnder
<1>6. BucketsMatchMap'
  <2>1. ASSUME NEW u \in Time PROVE NoRepeats(m_mapAllDataTime'[u])
    BY <1>1, <1>2, <1>3 DEF BucketsMatchMap, rest
  <2>2. ASSUME NEW u \in Time, NEW k \in Key
        PROVE  Holds(m_mapAllDataTime'[u], k) <=> FiledUnder(k, u)'
    <3>1. CASE u = t
      BY <1>1, <1>2, <1>3, <1>5, <3>1 DEF BucketsMatchMap, rest
    <3>2. CASE u # t
      <4>1. ~FiledUnder(key, u)
        BY <1>1, <3>2 DEF FiledUnder
      <4> QED BY <1>2, <1>3, <1>5, <3>2, <4>1 DEF BucketsMatchMap
    <3> QED BY <3>1, <3>2
  <2> QED BY <2>1, <2>2 DEF BucketsMatchMap
<1> QED BY <1>4, <1>6, MatchFromBuckets

LEMMA StoreStep ==
  ASSUME StoreInv, [Next]_vars
  PROVE  StoreInv'
<1>1. CASE Tick
  BY <1>1, MatchKept DEF Tick, StoreInv, StoreTypeOK
<1>2. ASSUME NEW key \in Key, Del(key) PROVE StoreInv'
  BY <1>2, DelStep
<1>3. ASSUME NEW key \in Key, NEW value \in Value, NEW lifetime \in Lifetime,
             Insert(key, value, lifetime)
      PROVE  StoreInv'
  BY <1>3, InsertStep
<1>4. CASE UpdateDataEnter
  BY <1>4, MatchKept DEF UpdateDataEnter, StoreInv, StoreTypeOK
<1>5. CASE UpdateDataPop
  BY <1>5, PopStep
<1>6. CASE UpdateDataReturn
  BY <1>6, MatchKept DEF UpdateDataReturn, StoreInv, StoreTypeOK
<1>7. CASE UNCHANGED vars
  BY <1>7, MatchKept DEF vars, StoreInv, StoreTypeOK
<1> QED BY <1>1, <1>2, <1>3, <1>4, <1>5, <1>6, <1>7 DEF Next

(***************************************************************************)
(* The store's types and the agreement of m_mapAllData with                *)
(* m_mapAllDataTime are invariant under Insert, Del, UpdateData and any    *)
(* behaviour of the clock.                                                 *)
(***************************************************************************)
THEOREM IndexCorrect == Spec => [](StoreTypeOK /\ IndexMatchesMap)
<1>1. Init => StoreInv
  BY StoreInit
<1>2. StoreInv /\ [Next]_vars => StoreInv'
  BY StoreStep
<1>3. StoreInv => StoreTypeOK /\ IndexMatchesMap
  BY DEF StoreInv
<1> QED BY <1>1, <1>2, <1>3, PTL DEF Spec

\* The store and its time index keep their types, whatever the clock does.
THEOREM StoreTypeCorrect == Spec => []StoreTypeOK
<1>1. StoreTypeOK /\ IndexMatchesMap => StoreTypeOK
  OBVIOUS
<1> QED BY <1>1, IndexCorrect, PTL

-----------------------------------------------------------------------------
(***************************************************************************)
(* Refinement.                                                             *)
(***************************************************************************)

\* A non-empty set of numbers has a least one.
LEMMA LeastOf ==
  ASSUME NEW S, S \subseteq Nat, S # {}
  PROVE  \E m \in S : \A n \in S : m <= n
<1> DEFINE R == OpToRel(<, Nat)
<1>1. IsWellFoundedOn(R, Nat)
  BY NatLessThanWellFounded
<1>2. \A m, n \in Nat : <<m, n>> \in R <=> m < n
  BY DEF OpToRel
<1> HIDE DEF R
<1>3. PICK m \in S : \A n \in S : ~ (<<n, m>> \in R)
  BY <1>1, WFMin
<1>4. ASSUME NEW n \in S PROVE m <= n
  <2>1. m \in Nat /\ n \in Nat
    OBVIOUS
  <2>2. ~ (n < m)
    BY <1>2, <1>3, <2>1
  <2> QED BY <2>1, <2>2
<1> QED BY <1>4

\* When the loop stops, no key is left that had expired: its bucket would not
\* be empty, and the first non-empty bucket is no later and not due.
LEMMA ReturnLeavesNothingDue ==
  ASSUME StoreInv, UpdateDataReturn
  PROVE  \A key \in Key : ~Abstract!Expired(key)
<1> SUFFICES ASSUME NEW key \in Key, Abstract!Expired(key) PROVE FALSE
  OBVIOUS
<1> DEFINE time == m_mapAllData[key].m_qwTime
           Used == { t \in Time : m_mapAllDataTime[t] # <<>> }
<1>1. /\ time \in Time /\ FiledUnder(key, time) /\ time < iCurTime
      /\ iCurTime \in Instant
  BY TimeFacts DEF Abstract!Expired, FiledUnder, StoreInv, StoreTypeOK, UpdateDataReturn
<1>2. m_mapAllDataTime[time] # <<>>
  <2>1. Holds(m_mapAllDataTime[time], key)
    BY <1>1, MatchIsBuckets DEF StoreInv, BucketsMatchMap
  <2>2. Len(<<>>) = 0
    BY EmptySeq
  <2> QED BY <2>1, <2>2 DEF Holds
<1>3. PICK t \in Used : \A u \in Used : t <= u
  <2>1. Used \subseteq Nat /\ Used # {}
    BY <1>1, <1>2, TimeFacts
  <2> HIDE DEF Used
  <2> QED BY <2>1, LeastOf
<1>4. t \in First
  BY <1>3, TimeFacts DEF First
<1>5. t <= time /\ t \in Nat /\ time \in Nat /\ iCurTime \in Nat
  BY <1>1, <1>2, <1>3, TimeFacts
<1>6. Due(t)
  BY <1>1, <1>5 DEF Due
<1> QED BY <1>4, <1>6 DEF UpdateDataReturn

LEMMA StoreRefinesStep ==
  ASSUME StoreInv, StoreInv', [Next]_vars
  PROVE  [Abstract!Next]_(Abstract!vars)
<1>1. CASE Tick
  BY <1>1 DEF Tick, Abstract!Next, Abstract!Clock
<1>2. ASSUME NEW key \in Key, Del(key) PROVE Abstract!Next
  BY <1>2 DEF Del, Abstract!Next, Abstract!Remove
<1>3. ASSUME NEW key \in Key, NEW value \in Value, NEW lifetime \in Lifetime,
             Insert(key, value, lifetime)
      PROVE  Abstract!Next
  <2> DEFINE data == [m_strValue |-> value, m_qwTime |-> ExpiryOf(lifetime)]
  <2>1. data \in MemData /\ data.m_qwTime >= now
    BY TimeFacts DEF MemData, StoreInv
  <2>2. Abstract!Put(key)
    BY <1>3, <2>1 DEF Insert, Abstract!Put
  <2> QED BY <2>2 DEF Abstract!Next
<1>4. CASE UpdateDataEnter
  BY <1>4 DEF UpdateDataEnter, Abstract!Next, Abstract!SweepBegin
<1>5. CASE UpdateDataPop
  <2>1. PICK t \in Time, key \in Key :
          /\ Due(t) /\ FiledUnder(key, t)
          /\ m_mapAllData' = [m_mapAllData EXCEPT ![key] = Absent]
    BY <1>5, PopFacts
  <2>2. t \in Nat /\ iCurTime \in Nat
    BY <1>5, <2>1, TimeFacts DEF UpdateDataPop, StoreInv, StoreTypeOK
  <2>3. Abstract!Expired(key)
    BY <2>1, <2>2 DEF Due, FiledUnder, Abstract!Expired
  <2>4. Abstract!SweepOne(key)
    BY <1>5, <2>1, <2>3 DEF UpdateDataPop, Abstract!SweepOne
  <2> QED BY <2>4 DEF Abstract!Next
<1>6. CASE UpdateDataReturn
  <2>1. Abstract!SweepEnd
    BY <1>6, ReturnLeavesNothingDue DEF UpdateDataReturn, Abstract!SweepEnd
  <2> QED BY <2>1 DEF Abstract!Next
<1>7. CASE UNCHANGED vars
  BY <1>7 DEF vars, Abstract!vars
<1> QED BY <1>1, <1>2, <1>3, <1>4, <1>5, <1>6, <1>7 DEF Next

(***************************************************************************)
(* The two containers of the store together implement the expiring map:    *)
(* UpdateData removes nothing too early and leaves nothing it should have  *)
(* removed.                                                                *)
(***************************************************************************)
THEOREM StoreRefines == Spec => StoreIsExpiringMap
<1>1. Init => Abstract!Init
  BY DEF Init, Abstract!Init
<1>2. StoreInv /\ StoreInv' /\ [Next]_vars => [Abstract!Next]_(Abstract!vars)
  BY StoreRefinesStep
<1>3. Spec => []StoreInv
  <2>1. StoreInv /\ [Next]_vars => StoreInv'
    BY StoreStep
  <2> QED BY <2>1, StoreInit, PTL DEF Spec
<1> QED BY <1>1, <1>2, <1>3, PTL DEF Spec, StoreIsExpiringMap, Abstract!Spec
=============================================================================
