----------------------- MODULE MyZServerNetworkProofs -----------------------
(***************************************************************************)
(* Proofs about the network half of the account server.  NetInv is the     *)
(* inductive invariant: the type invariant, the registry properties, and   *)
(* what they need to know of session ids and of sessions that are not yet  *)
(* connected.                                                              *)
(***************************************************************************)
EXTENDS MyZServerNetwork, SequenceTheorems, TLAPS

(***************************************************************************)
(* Ids: the pending session carries the counter, and the first MaxID       *)
(* sessions are numbered in the order of their creation.                   *)
(***************************************************************************)
IDsInv ==
  /\ nSessions = 0 => g_iCurrentID = 0
  /\ nSessions > 0 => g_iCurrentID \in ID
  /\ nSessions <= MaxID => g_iCurrentID = nSessions
  /\ \A s \in Session : s <= nSessions => m_iID[s] \in ID
  /\ \A s \in Session : s <= nSessions /\ s <= MaxID => m_iID[s] = s

\* Only an accepted session has a connection, bytes on the wire, or a failed read.
SocketsInv ==
  \A s \in Session : s \notin Accepted =>
    sock[s] \notin {"open", "ended"} /\ wire[s] = <<>> /\ errorReads[s] = 0

\* An accepted session's id has an entry unless a session with that id failed a read.
EntryUnlessEnded ==
  \A s \in Accepted :
    m_mapAllClientSock[m_iID[s]] = NULL =>
      \E t \in Accepted : m_iID[t] = m_iID[s] /\ errorReads[t] > 0

NetInv ==
  /\ NetTypeOK
  /\ IDsInv
  /\ SocketsInv
  /\ KeysAreIDs
  /\ RegistryExact
  /\ EntryUnlessEnded

USE NetworkAssumption, PeerRequestAssumption DEF ID, Session, NULL

-----------------------------------------------------------------------------
\* The invariant holds initially.
LEMMA NetInitInv == NetInit => NetInv
<1> SUFFICES ASSUME NetInit PROVE NetInv
  OBVIOUS
<1> USE DEF NetInit
<1>1. NetTypeOK
  <2>1. (CHOOSE c \in Code : TRUE) \in Code
    OBVIOUS
  <2> QED BY <2>1 DEF NetTypeOK
<1>2. Accepted = {}
  BY DEF Accepted
<1>3. IDsInv /\ SocketsInv
  BY DEF IDsInv, SocketsInv
<1>4. KeysAreIDs /\ RegistryExact /\ EntryUnlessEnded
  BY <1>2 DEF KeysAreIDs, RegistryExact, EntryUnlessEnded
<1> QED BY <1>1, <1>3, <1>4 DEF NetInv

\* The next id is an id, and the counter of sessions until the wrap.
LEMMA NextIDProperties ==
  ASSUME g_iCurrentID \in 0 .. MaxID
  PROVE  NextID \in ID /\ (g_iCurrentID < MaxID => NextID = g_iCurrentID + 1)
BY DEF NextID

\* What StartAccept leaves alone and adds.
LEMMA StartAcceptProperties ==
  ASSUME NetInv, StartAccept
  PROVE  /\ nSessions' = nSessions + 1
         /\ nSessions' \in Session
         /\ g_iCurrentID' = NextID
         /\ m_iID' \in [Session -> 0 .. MaxID]
         /\ m_DynmicCode' \in [Session -> Code]
         /\ m_iID'[nSessions'] = NextID
         /\ \A s \in Session : s # nSessions' => m_iID'[s] = m_iID[s]
         /\ IDsInv'
<1>1. /\ nSessions \in Nat /\ nSessions < MaxSessions
      /\ nSessions' = nSessions + 1
      /\ g_iCurrentID' = NextID
      /\ m_iID' = [m_iID EXCEPT ![nSessions + 1] = NextID]
      /\ m_iID \in [Session -> 0 .. MaxID]
      /\ g_iCurrentID \in 0 .. MaxID
  <2>1. nSessions \in Nat /\ m_iID \in [Session -> 0 .. MaxID] /\ g_iCurrentID \in 0 .. MaxID
    BY DEF NetInv, NetTypeOK
  <2>2. /\ nSessions < MaxSessions
        /\ nSessions' = nSessions + 1
        /\ g_iCurrentID' = NextID
        /\ m_iID' = [m_iID EXCEPT ![nSessions + 1] = NextID]
    BY DEF StartAccept
  <2> QED BY <2>1, <2>2
<1>2. NextID \in ID /\ (g_iCurrentID < MaxID => NextID = g_iCurrentID + 1)
  BY <1>1, NextIDProperties
<1>3. m_DynmicCode' \in [Session -> Code]
  BY DEF NetInv, NetTypeOK, StartAccept
<1>4. nSessions' \in Session
  BY <1>1
<1>5. /\ m_iID' \in [Session -> 0 .. MaxID]
      /\ m_iID'[nSessions'] = NextID
      /\ \A s \in Session : s # nSessions' => m_iID'[s] = m_iID[s]
  BY <1>1, <1>2, <1>4
<1>6. IDsInv'
  BY <1>1, <1>2, <1>4, <1>5 DEF NetInv, IDsInv
<1> QED BY <1>1, <1>3, <1>4, <1>5, <1>6

-----------------------------------------------------------------------------
\* AcceptConnect preserves the invariant.
LEMMA AcceptConnectInv == NetInv /\ AcceptConnect => NetInv'
<1> SUFFICES ASSUME NetInv, AcceptConnect PROVE NetInv'
  OBVIOUS
<1>1. /\ nSessions = 0 /\ nSessions' = 1 /\ 1 \in Session
      /\ g_iCurrentID' = NextID
      /\ m_iID' \in [Session -> 0 .. MaxID]
      /\ m_DynmicCode' \in [Session -> Code]
      /\ m_iID'[1] = NextID
      /\ IDsInv'
  <2>1. StartAccept /\ nSessions = 0
    BY DEF AcceptConnect
  <2> QED BY <2>1, StartAcceptProperties
<1>2. /\ sock' = [sock EXCEPT ![1] = "pending"]
      /\ UNCHANGED <<wire, asked, errorReads, m_mapAllClientSock, m_vecAllClientMsg, replies>>
  BY DEF AcceptConnect
<1>3. Accepted = {} /\ Accepted' = {}
  BY <1>1 DEF Accepted
<1>4. NextID \in ID
  BY NextIDProperties DEF NetInv, NetTypeOK
<1>5. NetTypeOK'
  <2>1. g_iCurrentID' \in 0 .. MaxID /\ nSessions' \in 0 .. MaxSessions
    BY <1>1, <1>4
  <2>2. sock' \in [Session -> {"none", "pending", "open", "ended"}]
    BY <1>2 DEF NetInv, NetTypeOK
  <2>3. m_vecAllClientMsg' \in Seq(Message)
    BY <1>2 DEF NetInv, NetTypeOK
  <2>4. /\ wire' \in [Session -> Seq(Fragment)]
        /\ asked' \in [Session -> Seq(Request)]
        /\ errorReads' \in [Session -> Nat]
        /\ m_mapAllClientSock' \in [ID -> Session \cup {NULL}]
        /\ replies' \in [Session -> Seq([src : Session, n : Nat, ans : Answer])]
    BY <1>2 DEF NetInv, NetTypeOK
  <2> QED BY <1>1, <2>1, <2>2, <2>3, <2>4 DEF NetTypeOK
<1>6. SocketsInv'
  BY <1>1, <1>2, <1>3 DEF NetInv, NetTypeOK, SocketsInv
<1>7. KeysAreIDs'
  BY <1>1, <1>2, <1>3 DEF NetInv, KeysAreIDs
<1>8. RegistryExact' /\ EntryUnlessEnded'
  BY <1>3 DEF RegistryExact, EntryUnlessEnded
<1> QED BY <1>1, <1>5, <1>6, <1>7, <1>8 DEF NetInv

\* Handle_accept preserves the invariant.
LEMMA Handle_acceptInv ==
  ASSUME NetInv, NEW error \in BOOLEAN, Handle_accept(error)
  PROVE  NetInv'
<1> DEFINE new == nSessions
<1>a. StartAccept /\ new > 0
  BY DEF Handle_accept
<1>b. /\ nSessions' = new + 1 /\ new + 1 \in Session
      /\ g_iCurrentID' = NextID
      /\ m_iID' \in [Session -> 0 .. MaxID] /\ m_iID'[new + 1] = NextID
      /\ \A s \in Session : s # new + 1 => m_iID'[s] = m_iID[s]
      /\ IDsInv'
      /\ m_DynmicCode' \in [Session -> Code]
  BY <1>a, StartAcceptProperties
<1>c. /\ new \in Session
      /\ g_iCurrentID \in ID
      /\ m_iID[new] = g_iCurrentID
  BY <1>a, <1>b DEF NetInv, NetTypeOK, IDsInv, KeysAreIDs
<1>d. NextID \in ID
  BY NextIDProperties DEF NetInv, NetTypeOK
<1>e. /\ m_mapAllClientSock' = [m_mapAllClientSock EXCEPT ![g_iCurrentID] = new]
      /\ sock' = [sock EXCEPT ![new] = IF error THEN "ended" ELSE "open",
                              ![new + 1] = "pending"]
      /\ UNCHANGED <<wire, asked, errorReads, m_vecAllClientMsg, replies>>
  BY DEF Handle_accept
<1>f. Accepted' = Accepted \cup {new} /\ new \notin Accepted
  BY <1>b, <1>c DEF Accepted
<1>g. m_mapAllClientSock \in [ID -> Session \cup {NULL}]
  BY DEF NetInv, NetTypeOK
<1> HIDE DEF new
<1>1. m_mapAllClientSock' \in [ID -> Session \cup {NULL}]
  BY <1>c, <1>e DEF NetInv, NetTypeOK
<1>2. sock' \in [Session -> {"none", "pending", "open", "ended"}]
  BY <1>c, <1>e DEF NetInv, NetTypeOK
<1>3. NetTypeOK'
  <2>1. g_iCurrentID' \in 0 .. MaxID /\ nSessions' \in 0 .. MaxSessions
    BY <1>b, <1>d
  <2>2. m_vecAllClientMsg' \in Seq(Message)
    BY <1>e DEF NetInv, NetTypeOK
  <2>3. /\ wire' \in [Session -> Seq(Fragment)]
        /\ asked' \in [Session -> Seq(Request)]
        /\ errorReads' \in [Session -> Nat]
        /\ replies' \in [Session -> Seq([src : Session, n : Nat, ans : Answer])]
    BY <1>e DEF NetInv, NetTypeOK
  <2> QED BY <1>1, <1>2, <1>b, <2>1, <2>2, <2>3 DEF NetTypeOK
<1>4. SocketsInv'
  BY <1>b, <1>c, <1>e, <1>f DEF NetInv, NetTypeOK, SocketsInv
<1>5. KeysAreIDs'
  <2>1. nSessions' > 0 => m_iID'[nSessions'] = g_iCurrentID'
    BY <1>b
  <2> SUFFICES ASSUME NEW k \in ID, m_mapAllClientSock'[k] # NULL
               PROVE  /\ m_mapAllClientSock'[k] \in Accepted'
                      /\ m_iID'[m_mapAllClientSock'[k]] = k
    BY <2>1 DEF KeysAreIDs
  <2>2. CASE k = g_iCurrentID
    <3>1. m_mapAllClientSock'[k] = new
      BY <1>e, <2>2 DEF NetInv, NetTypeOK
    <3>2. m_iID'[new] = m_iID[new]
      BY <1>b, <1>c
    <3> QED BY <1>c, <1>f, <2>2, <3>1, <3>2
  <2>3. CASE k # g_iCurrentID
    <3> DEFINE s == m_mapAllClientSock[k]
    <3>1. m_mapAllClientSock'[k] = s
      BY <1>e, <2>3 DEF NetInv, NetTypeOK
    <3>2. s \in Accepted /\ m_iID[s] = k
      BY <3>1 DEF NetInv, KeysAreIDs
    <3>3. s \in Session /\ s < nSessions
      BY <3>2 DEF Accepted
    <3>4. m_iID'[s] = m_iID[s]
      BY <1>b, <1>c, <3>3 DEF new
    <3> QED BY <1>f, <3>1, <3>2, <3>4
  <2> QED BY <2>2, <2>3
<1>6. RegistryExact'
  <2> SUFFICES ASSUME NoIDReuse', NEW s \in Accepted'
               PROVE  (m_mapAllClientSock'[m_iID'[s]] = s) <=> (errorReads'[s] = 0)
    BY DEF RegistryExact
  <2>1. NoIDReuse /\ new <= MaxID
    BY <1>b, <1>c DEF NoIDReuse, new
  <2>2. g_iCurrentID = new
    BY <2>1 DEF NetInv, IDsInv, new
  <2>3. CASE s = new
    <3>1. m_iID'[s] = g_iCurrentID
      BY <1>b, <1>c, <2>3
    <3>2. errorReads'[s] = 0
      BY <1>c, <1>e, <1>f, <2>3 DEF NetInv, SocketsInv
    <3> QED BY <1>c, <1>e, <2>3, <3>1, <3>2 DEF NetInv, NetTypeOK
  <2>4. CASE s \in Accepted
    <3>1. s \in Session /\ s < new
      BY <2>4 DEF Accepted, new
    <3>2. m_iID'[s] = m_iID[s] /\ m_iID[s] = s
      BY <1>b, <1>c, <2>1, <3>1 DEF NetInv, IDsInv, new
    <3>3. m_mapAllClientSock'[m_iID[s]] = m_mapAllClientSock[m_iID[s]]
      BY <1>c, <1>e, <2>1, <2>2, <3>1, <3>2 DEF NetInv, NetTypeOK
    <3> QED BY <1>e, <2>1, <2>4, <3>2, <3>3 DEF NetInv, RegistryExact
  <2> QED BY <1>f, <2>3, <2>4
<1>7. EntryUnlessEnded'
  <2> SUFFICES ASSUME NEW s \in Accepted', m_mapAllClientSock'[m_iID'[s]] = NULL
               PROVE  \E t \in Accepted' : m_iID'[t] = m_iID'[s] /\ errorReads'[t] > 0
    BY DEF EntryUnlessEnded
  <2>1. \A t \in Accepted' : t \in Session /\ t <= new /\ m_iID'[t] = m_iID[t]
    BY <1>b, <1>c DEF Accepted
  <2>2. m_iID[s] \in ID
    BY <2>1 DEF NetInv, IDsInv, new
  <2>3. m_iID[s] # g_iCurrentID /\ m_mapAllClientSock[m_iID[s]] = NULL
    BY <1>c, <1>e, <1>g, <2>1, <2>2
  <2>4. s \in Accepted
    BY <1>c, <1>f, <2>3
  <2>5. PICK t \in Accepted : m_iID[t] = m_iID[s] /\ errorReads[t] > 0
    BY <2>3, <2>4 DEF NetInv, EntryUnlessEnded
  <2> QED BY <1>e, <1>f, <2>1, <2>5
<1> QED BY <1>b, <1>3, <1>4, <1>5, <1>6, <1>7 DEF NetInv

-----------------------------------------------------------------------------
\* An accepted session has an id.
LEMMA AcceptedHasID ==
  ASSUME NetInv, NEW s \in Accepted
  PROVE  s \in Session /\ s <= nSessions /\ m_iID[s] \in ID
<1>1. s \in Session /\ s < nSessions /\ nSessions \in Nat
  BY DEF Accepted, NetInv, NetTypeOK
<1> QED BY <1>1 DEF NetInv, IDsInv

\* A step that touches neither ids, registry nor read errors keeps what they say.
LEMMA RegistryUnchanged ==
  ASSUME NetInv, UNCHANGED <<idVars, errorReads, m_mapAllClientSock>>
  PROVE  /\ Accepted' = Accepted
         /\ IDsInv' /\ KeysAreIDs' /\ RegistryExact' /\ EntryUnlessEnded'
         /\ g_iCurrentID' \in 0 .. MaxID
         /\ nSessions' \in 0 .. MaxSessions
         /\ m_iID' \in [Session -> 0 .. MaxID]
         /\ m_DynmicCode' \in [Session -> Code]
         /\ errorReads' \in [Session -> Nat]
         /\ m_mapAllClientSock' \in [ID -> Session \cup {NULL}]
<1>1. /\ UNCHANGED <<g_iCurrentID, nSessions, m_iID, m_DynmicCode, errorReads, m_mapAllClientSock>>
      /\ Accepted' = Accepted
  BY DEF idVars, Accepted
<1>2. IDsInv'
  BY <1>1 DEF NetInv, IDsInv
<1>3. KeysAreIDs'
  BY <1>1 DEF NetInv, KeysAreIDs
<1>4. RegistryExact'
  BY <1>1 DEF NetInv, RegistryExact, NoIDReuse
<1>5. EntryUnlessEnded'
  BY <1>1 DEF NetInv, EntryUnlessEnded
<1> QED BY <1>1, <1>2, <1>3, <1>4, <1>5 DEF NetInv, NetTypeOK

\* What a read pushes into the inbox is a message.
LEMMA PushType ==
  ASSUME NetInv, NEW s \in Accepted, NEW chunk \in Seq(Fragment), Push(s, chunk)
  PROVE  m_vecAllClientMsg' \in Seq(Message)
<1>1. s \in Session /\ m_iID[s] \in ID
  BY AcceptedHasID
<1>2. [src |-> s, m_iSessionID |-> m_iID[s], chunk |-> chunk] \in Message
  BY <1>1 DEF Message
<1>3. m_vecAllClientMsg \in Seq(Message)
  BY DEF NetInv, NetTypeOK
<1> QED BY <1>2, <1>3, AppendProperties DEF Push

\* A successful read preserves the invariant.
LEMMA Handle_ReadDataInv ==
  ASSUME NetInv, NEW s \in Session, Handle_ReadData(s)
  PROVE  NetInv'
<1>1. PICK len \in 1 .. Len(wire[s]) :
        /\ Push(s, SubSeq(wire[s], 1, len))
        /\ wire' = [wire EXCEPT ![s] = SubSeq(@, len + 1, Len(@))]
        /\ UNCHANGED <<idVars, sock, asked, errorReads, m_mapAllClientSock, replies>>
  BY DEF Handle_ReadData
<1>2. wire \in [Session -> Seq(Fragment)]
  BY DEF NetInv, NetTypeOK
<1>3. wire[s] \in Seq(Fragment) /\ Len(wire[s]) \in Nat
  BY <1>2, LenProperties
<1>4. wire[s] # <<>>
  BY <1>1, <1>3
<1>5. s \in Accepted
  BY <1>4 DEF NetInv, SocketsInv
<1>6. SubSeq(wire[s], 1, len) \in Seq(Fragment)
  <2>1. \A i \in 1 .. len : wire[s][i] \in Fragment
    BY <1>3, ElementOfSeq
  <2> QED BY <1>3, <2>1, SubSeqProperties
<1>7. SubSeq(wire[s], len + 1, Len(wire[s])) \in Seq(Fragment)
  <2>1. \A i \in len + 1 .. Len(wire[s]) : wire[s][i] \in Fragment
    BY <1>3, ElementOfSeq
  <2> QED BY <1>3, <2>1, SubSeqProperties
<1>8. m_vecAllClientMsg' \in Seq(Message)
  BY <1>1, <1>5, <1>6, PushType
<1>9. wire' \in [Session -> Seq(Fragment)] /\ \A t \in Session : t # s => wire'[t] = wire[t]
  BY <1>1, <1>2, <1>7
<1>10. UNCHANGED <<idVars, errorReads, m_mapAllClientSock>> /\ UNCHANGED <<sock, asked, replies, errorReads>>
  BY <1>1
<1>11. SocketsInv'
  <2>1. Accepted' = Accepted /\ sock' = sock /\ errorReads' = errorReads
    BY <1>10, RegistryUnchanged
  <2> QED BY <1>5, <1>9, <2>1 DEF NetInv, SocketsInv
<1>12. NetTypeOK'
  <2>1. /\ sock' \in [Session -> {"none", "pending", "open", "ended"}]
        /\ asked' \in [Session -> Seq(Request)]
        /\ replies' \in [Session -> Seq([src : Session, n : Nat, ans : Answer])]
    BY <1>10 DEF NetInv, NetTypeOK
  <2> QED BY <1>8, <1>9, <1>10, <2>1, RegistryUnchanged DEF NetTypeOK
<1> QED BY <1>10, <1>11, <1>12, RegistryUnchanged DEF NetInv

\* A failed read preserves the invariant: the entry it erases is the session's own.
LEMMA Handle_ReadErrorInv ==
  ASSUME NetInv, NEW s \in Session, Handle_ReadError(s)
  PROVE  NetInv'
<1>1. /\ sock[s] = "ended"
      /\ m_mapAllClientSock' = [m_mapAllClientSock EXCEPT ![m_iID[s]] = NULL]
      /\ Push(s, <<>>)
      /\ errorReads' = [errorReads EXCEPT ![s] = @ + 1]
      /\ wire' = [wire EXCEPT ![s] = <<>>]
      /\ UNCHANGED <<g_iCurrentID, nSessions, m_iID, m_DynmicCode, sock, asked, replies>>
  BY DEF Handle_ReadError, idVars
<1>2. s \in Accepted /\ Accepted' = Accepted
  BY <1>1 DEF NetInv, SocketsInv, Accepted
<1>3. s <= nSessions /\ m_iID[s] \in ID
  BY <1>2, AcceptedHasID
<1>4. /\ m_mapAllClientSock \in [ID -> Session \cup {NULL}]
      /\ errorReads \in [Session -> Nat]
      /\ wire \in [Session -> Seq(Fragment)]
  BY DEF NetInv, NetTypeOK
<1>5. m_vecAllClientMsg' \in Seq(Message)
  BY <1>1, <1>2, PushType, EmptySeq
<1>6. /\ m_mapAllClientSock' \in [ID -> Session \cup {NULL}]
      /\ errorReads' \in [Session -> Nat]
      /\ wire' \in [Session -> Seq(Fragment)]
  BY <1>1, <1>3, <1>4, EmptySeq, SMTT(20)
<1>7. NetTypeOK'
  <2>1. /\ g_iCurrentID' \in 0 .. MaxID
        /\ nSessions' \in 0 .. MaxSessions
        /\ m_iID' \in [Session -> 0 .. MaxID]
        /\ m_DynmicCode' \in [Session -> Code]
        /\ sock' \in [Session -> {"none", "pending", "open", "ended"}]
        /\ asked' \in [Session -> Seq(Request)]
        /\ replies' \in [Session -> Seq([src : Session, n : Nat, ans : Answer])]
    BY <1>1 DEF NetInv, NetTypeOK
  <2> QED BY <1>5, <1>6, <2>1 DEF NetTypeOK
<1>8. IDsInv'
  BY <1>1 DEF NetInv, IDsInv
<1>9. SocketsInv'
  BY <1>1, <1>2, <1>4 DEF NetInv, SocketsInv
<1>10. KeysAreIDs'
  BY <1>1, <1>2, <1>3, <1>4 DEF NetInv, KeysAreIDs
<1>11. RegistryExact'
  <2> SUFFICES ASSUME NoIDReuse', NEW t \in Accepted
               PROVE  (m_mapAllClientSock'[m_iID[t]] = t) <=> (errorReads'[t] = 0)
    BY <1>1, <1>2 DEF RegistryExact
  <2>1. NoIDReuse
    BY <1>1 DEF NoIDReuse
  <2>2. \A u \in Accepted : u \in Session /\ u <= MaxID /\ u <= nSessions /\ m_iID[u] = u
    BY <2>1 DEF Accepted, NoIDReuse, NetInv, NetTypeOK, IDsInv
  <2>3. CASE t = s
    BY <1>1, <1>2, <1>3, <1>4, <2>2, <2>3
  <2>4. CASE t # s
    <3>1. m_mapAllClientSock'[m_iID[t]] = m_mapAllClientSock[m_iID[t]]
      BY <1>1, <1>2, <1>3, <1>4, <2>2, <2>4, SMTT(20)
    <3>2. errorReads'[t] = errorReads[t]
      BY <1>1, <1>4, <2>2, <2>4
    <3> QED BY <2>1, <3>1, <3>2 DEF NetInv, RegistryExact
  <2> QED BY <2>3, <2>4
<1>12. EntryUnlessEnded'
  <2> SUFFICES ASSUME NEW t \in Accepted, m_mapAllClientSock'[m_iID[t]] = NULL
               PROVE  \E u \in Accepted : m_iID[u] = m_iID[t] /\ errorReads'[u] > 0
    BY <1>1, <1>2 DEF EntryUnlessEnded
  <2>1. \A u \in Accepted : u \in Session /\ m_iID[u] \in ID
    BY AcceptedHasID
  <2>2. \A u \in Session : errorReads'[u] >= errorReads[u] /\ errorReads'[s] > 0
    BY <1>1, <1>4
  <2>3. CASE m_iID[t] = m_iID[s]
    BY <1>2, <2>2, <2>3
  <2>4. CASE m_iID[t] # m_iID[s]
    <3>1. m_mapAllClientSock[m_iID[t]] = NULL
      BY <1>1, <1>3, <1>4, <2>1, <2>4
    <3>2. PICK u \in Accepted : m_iID[u] = m_iID[t] /\ errorReads[u] > 0
      BY <3>1 DEF NetInv, EntryUnlessEnded
    <3>3. errorReads'[u] > 0
      <4>1. u \in Session /\ errorReads[u] \in Nat /\ errorReads'[u] \in Nat
        BY <1>4, <1>6, <2>1
      <4> QED BY <2>2, <3>2, <4>1
    <3> QED BY <3>2, <3>3
  <2> QED BY <2>3, <2>4
<1> QED BY <1>7, <1>8, <1>9, <1>10, <1>11, <1>12 DEF NetInv

\* The operations the main thread calls, and the peers, preserve the invariant.
LEMMA GetAllMsgInv ==
  ASSUME NetInv, GetAllMsg
  PROVE  NetInv'
<1>1. /\ m_vecAllClientMsg' = <<>>
      /\ UNCHANGED <<idVars, errorReads, m_mapAllClientSock>>
      /\ UNCHANGED <<sock, wire, asked, errorReads, replies>>
  BY DEF GetAllMsg, peerVars
<1>2. m_vecAllClientMsg' \in Seq(Message)
  BY <1>1, EmptySeq
<1>3. SocketsInv'
  <2>1. Accepted' = Accepted
    BY <1>1, RegistryUnchanged
  <2> QED BY <1>1, <2>1 DEF NetInv, SocketsInv
<1>4. /\ sock' \in [Session -> {"none", "pending", "open", "ended"}]
      /\ wire' \in [Session -> Seq(Fragment)]
      /\ asked' \in [Session -> Seq(Request)]
      /\ replies' \in [Session -> Seq([src : Session, n : Nat, ans : Answer])]
  BY <1>1 DEF NetInv, NetTypeOK
<1>5. NetTypeOK'
  BY <1>1, <1>2, <1>4, RegistryUnchanged DEF NetTypeOK
<1> QED BY <1>1, <1>3, <1>5, RegistryUnchanged DEF NetInv

LEMMA WriteInv ==
  ASSUME NetInv, NEW to \in Accepted, NEW src \in Session, NEW n \in Nat, NEW a \in Answer,
         Write(to, src, n, a)
  PROVE  NetInv'
<1> DEFINE Reply == [src : Session, n : Nat, ans : Answer]
<1>1. /\ replies' = [replies EXCEPT ![to] = Append(@, [src |-> src, n |-> n, ans |-> a])]
      /\ UNCHANGED <<idVars, errorReads, m_mapAllClientSock>>
      /\ UNCHANGED <<sock, wire, asked, errorReads, m_vecAllClientMsg>>
  BY DEF Write, peerVars
<1>2. to \in Session
  BY DEF Accepted
<1>3. replies \in [Session -> Seq(Reply)]
  BY DEF NetInv, NetTypeOK
<1>4. Append(replies[to], [src |-> src, n |-> n, ans |-> a]) \in Seq(Reply)
  <2>1. [src |-> src, n |-> n, ans |-> a] \in Reply
    OBVIOUS
  <2>2. replies[to] \in Seq(Reply)
    BY <1>2, <1>3
  <2> HIDE DEF Reply
  <2> QED BY <2>1, <2>2, AppendProperties
<1>5. replies' \in [Session -> Seq(Reply)]
  BY <1>1, <1>2, <1>3, <1>4
<1>6. SocketsInv'
  <2>1. Accepted' = Accepted
    BY <1>1, RegistryUnchanged
  <2> QED BY <1>1, <2>1 DEF NetInv, SocketsInv
<1>7. /\ sock' \in [Session -> {"none", "pending", "open", "ended"}]
      /\ wire' \in [Session -> Seq(Fragment)]
      /\ asked' \in [Session -> Seq(Request)]
      /\ m_vecAllClientMsg' \in Seq(Message)
  BY <1>1 DEF NetInv, NetTypeOK
<1>8. NetTypeOK'
  BY <1>1, <1>5, <1>7, RegistryUnchanged DEF NetTypeOK
<1> QED BY <1>1, <1>6, <1>8, RegistryUnchanged DEF NetInv

LEMMA PeerSendInv ==
  ASSUME NetInv, NEW s \in Session, NEW r \in PeerRequest, PeerSend(s, r)
  PROVE  NetInv'
<1> DEFINE k   == Len(asked[s]) + 1
           req == <<[n |-> k, part |-> "head"], [n |-> k, part |-> "body"]>>
<1>1. /\ sock[s] = "open"
      /\ asked' = [asked EXCEPT ![s] = Append(@, r)]
      /\ wire' = [wire EXCEPT ![s] = @ \o req]
      /\ UNCHANGED <<idVars, errorReads, m_mapAllClientSock>>
      /\ UNCHANGED <<sock, errorReads, m_vecAllClientMsg, replies>>
  BY DEF PeerSend
<1>2. s \in Accepted
  BY <1>1 DEF NetInv, SocketsInv
<1>3. wire \in [Session -> Seq(Fragment)] /\ asked \in [Session -> Seq(Request)]
  BY DEF NetInv, NetTypeOK
<1>4. k \in Nat \ {0}
  BY <1>3, LenProperties
<1>5. req \in Seq(Fragment)
  BY <1>4 DEF Fragment
<1> HIDE DEF req
<1>6. wire[s] \o req \in Seq(Fragment)
  BY <1>3, <1>5, ConcatProperties
<1>7. Append(asked[s], r) \in Seq(Request)
  BY <1>3, AppendProperties
<1>8. /\ wire' \in [Session -> Seq(Fragment)]
      /\ asked' \in [Session -> Seq(Request)]
      /\ \A t \in Session : t # s => wire'[t] = wire[t]
  BY <1>1, <1>3, <1>6, <1>7
<1>9. SocketsInv'
  <2>1. Accepted' = Accepted
    BY <1>1, RegistryUnchanged
  <2> QED BY <1>1, <1>2, <1>8, <2>1 DEF NetInv, SocketsInv
<1>10. /\ sock' \in [Session -> {"none", "pending", "open", "ended"}]
       /\ m_vecAllClientMsg' \in Seq(Message)
       /\ replies' \in [Session -> Seq([src : Session, n : Nat, ans : Answer])]
  BY <1>1 DEF NetInv, NetTypeOK
<1>11. NetTypeOK'
  BY <1>1, <1>8, <1>10, RegistryUnchanged DEF NetTypeOK
<1> QED BY <1>1, <1>9, <1>11, RegistryUnchanged DEF NetInv

LEMMA PeerCloseInv ==
  ASSUME NetInv, NEW s \in Session, PeerClose(s)
  PROVE  NetInv'
<1>1. /\ sock[s] = "open"
      /\ sock' = [sock EXCEPT ![s] = "ended"]
      /\ UNCHANGED <<idVars, errorReads, m_mapAllClientSock>>
      /\ UNCHANGED <<wire, asked, errorReads, m_vecAllClientMsg, replies>>
  BY DEF PeerClose
<1>2. s \in Accepted
  BY <1>1 DEF NetInv, SocketsInv
<1>3. sock \in [Session -> {"none", "pending", "open", "ended"}]
  BY DEF NetInv, NetTypeOK
<1>4. SocketsInv'
  <2>1. Accepted' = Accepted
    BY <1>1, RegistryUnchanged
  <2> QED BY <1>1, <1>2, <1>3, <2>1 DEF NetInv, SocketsInv
<1>5. /\ sock' \in [Session -> {"none", "pending", "open", "ended"}]
      /\ wire' \in [Session -> Seq(Fragment)]
      /\ asked' \in [Session -> Seq(Request)]
      /\ m_vecAllClientMsg' \in Seq(Message)
      /\ replies' \in [Session -> Seq([src : Session, n : Nat, ans : Answer])]
  BY <1>1, <1>3 DEF NetInv, NetTypeOK
<1>6. NetTypeOK'
  BY <1>1, <1>5, RegistryUnchanged DEF NetTypeOK
<1> QED BY <1>1, <1>4, <1>6, RegistryUnchanged DEF NetInv

-----------------------------------------------------------------------------
\* Every step of the network, or one that leaves it alone, preserves the invariant.
LEMMA NetStepInv == NetInv /\ [NetNext]_netVars => NetInv'
<1> SUFFICES ASSUME NetInv, [NetNext]_netVars PROVE NetInv'
  OBVIOUS
<1>1. CASE AcceptConnect
  BY <1>1, AcceptConnectInv
<1>2. CASE \E error \in BOOLEAN : Handle_accept(error)
  BY <1>2, Handle_acceptInv
<1>3. CASE \E s \in Session : Handle_Read(s)
  BY <1>3, Handle_ReadDataInv, Handle_ReadErrorInv DEF Handle_Read
<1>4. CASE GetAllMsg
  BY <1>4, GetAllMsgInv
<1>5. CASE \E s \in Accepted, src \in Session, n \in Nat, a \in Answer : Write(s, src, n, a)
  BY <1>5, WriteInv
<1>6. CASE \E s \in Session, r \in PeerRequest : PeerSend(s, r)
  BY <1>6, PeerSendInv
<1>7. CASE \E s \in Session : PeerClose(s)
  BY <1>7, PeerCloseInv
<1>8. CASE UNCHANGED netVars
  <2>1. /\ UNCHANGED <<idVars, errorReads, m_mapAllClientSock>>
        /\ UNCHANGED <<sock, wire, asked, errorReads, m_vecAllClientMsg, replies>>
    BY <1>8 DEF netVars, peerVars
  <2>2. SocketsInv'
    <3>1. Accepted' = Accepted
      BY <2>1, RegistryUnchanged
    <3> QED BY <2>1, <3>1 DEF NetInv, SocketsInv
  <2>3. /\ sock' \in [Session -> {"none", "pending", "open", "ended"}]
        /\ wire' \in [Session -> Seq(Fragment)]
        /\ asked' \in [Session -> Seq(Request)]
        /\ m_vecAllClientMsg' \in Seq(Message)
        /\ replies' \in [Session -> Seq([src : Session, n : Nat, ans : Answer])]
    BY <2>1 DEF NetInv, NetTypeOK
  <2>4. NetTypeOK'
    BY <2>1, <2>3, RegistryUnchanged DEF NetTypeOK
  <2> QED BY <2>1, <2>2, <2>4, RegistryUnchanged DEF NetInv
<1> QED BY <1>1, <1>2, <1>3, <1>4, <1>5, <1>6, <1>7, <1>8 DEF NetNext

-----------------------------------------------------------------------------
(***************************************************************************)
(* Messages.  Every cut of a stream, on the wire or in a message, belongs  *)
(* to a request its session has sent; every message carries the id of an   *)
(* accepted session.                                                       *)
(***************************************************************************)
Known(s, chunk) == \A i \in 1 .. Len(chunk) : chunk[i].n \in 1 .. Len(asked[s])

Tagged(msg) ==
  /\ msg.src \in Accepted
  /\ msg.m_iSessionID = m_iID[msg.src]
  /\ Known(msg.src, msg.chunk)

WireInv  == \A s \in Session : Known(s, wire[s])
InboxInv == \A i \in 1 .. Len(m_vecAllClientMsg) : Tagged(m_vecAllClientMsg[i])
EndedInv == \A s \in Session : errorReads[s] > 0 => sock[s] = "ended"
MsgInv   == WireInv /\ InboxInv /\ EndedInv

LEMMA MsgInitInv == NetInit => MsgInv
BY EmptySeq DEF NetInit, MsgInv, WireInv, InboxInv, EndedInv, Known

\* Sessions stay accepted and keep their ids; what a peer has sent only grows.
LEMMA NetGrows ==
  ASSUME NetInv, [NetNext]_netVars
  PROVE  /\ \A s \in Accepted : s \in Accepted' /\ m_iID'[s] = m_iID[s]
         /\ \A s \in Session : Len(asked[s]) \in Nat /\ Len(asked'[s]) \in Nat
                                 /\ Len(asked'[s]) >= Len(asked[s])
         /\ nSessions \in Nat /\ nSessions' \in {nSessions, nSessions + 1}
<1>1. /\ asked \in [Session -> Seq(Request)] /\ \A s \in Session : Len(asked[s]) \in Nat
      /\ nSessions \in Nat
  BY LenProperties DEF NetInv, NetTypeOK
<1>2. CASE StartAccept /\ UNCHANGED asked
  <2>1. /\ nSessions' = nSessions + 1
        /\ nSessions' \in Session
        /\ \A s \in Session : s # nSessions' => m_iID'[s] = m_iID[s]
    BY <1>2, StartAcceptProperties
  <2> QED BY <1>1, <1>2, <2>1 DEF Accepted
<1>3. CASE UNCHANGED <<nSessions, m_iID>> /\ UNCHANGED asked
  BY <1>1, <1>3 DEF Accepted
<1>4. CASE \E s \in Session, r \in PeerRequest : PeerSend(s, r)
  <2>1. PICK s \in Session, r \in PeerRequest : PeerSend(s, r)
    BY <1>4
  <2>2. asked' = [asked EXCEPT ![s] = Append(@, r)] /\ UNCHANGED <<nSessions, m_iID>>
    BY <2>1 DEF PeerSend, idVars
  <2>3. Len(Append(asked[s], r)) = Len(asked[s]) + 1
    BY <1>1, AppendProperties
  <2> QED BY <1>1, <2>2, <2>3 DEF Accepted
<1>5. [NetNext]_netVars =>
        \/ StartAccept /\ UNCHANGED asked
        \/ UNCHANGED <<nSessions, m_iID>> /\ UNCHANGED asked
        \/ \E s \in Session, r \in PeerRequest : PeerSend(s, r)
  BY DEF NetNext, netVars, idVars, peerVars, AcceptConnect, Handle_accept, Handle_Read,
         Handle_ReadData, Handle_ReadError, GetAllMsg, Write, PeerSend, PeerClose
<1> QED BY <1>2, <1>3, <1>4, <1>5

\* So a message once tagged stays so.
LEMMA TaggedStays ==
  ASSUME NetInv, [NetNext]_netVars
  PROVE  \A msg \in Message : Tagged(msg) => Tagged(msg)'
<1> SUFFICES ASSUME NEW msg \in Message, Tagged(msg) PROVE Tagged(msg)'
  OBVIOUS
<1>1. msg.src \in Session /\ msg.src \in Accepted /\ msg.chunk \in Seq(Fragment)
  BY DEF Message, Tagged
<1>2. Known(msg.src, msg.chunk)'
  <2>1. Len(asked[msg.src]) \in Nat /\ Len(asked'[msg.src]) >= Len(asked[msg.src])
    BY <1>1, NetGrows
  <2>2. Known(msg.src, msg.chunk)
    BY DEF Tagged
  <2> QED BY <1>1, <2>1, <2>2, NetGrows, SMTT(20) DEF Known
<1>3. msg.src \in Accepted' /\ m_iID'[msg.src] = m_iID[msg.src]
  BY <1>1, NetGrows
<1> QED BY <1>1, <1>2, <1>3 DEF Tagged

LEMMA WireStep ==
  ASSUME NetInv, MsgInv, [NetNext]_netVars
  PROVE  WireInv'
<1> SUFFICES ASSUME NEW s \in Session PROVE Known(s, wire[s])'
  BY DEF WireInv
<1>1. /\ wire \in [Session -> Seq(Fragment)] /\ wire' \in [Session -> Seq(Fragment)]
      /\ asked \in [Session -> Seq(Request)]
  BY NetStepInv DEF NetInv, NetTypeOK
<1>2. wire[s] \in Seq(Fragment) /\ Len(wire[s]) \in Nat /\ Known(s, wire[s])
  BY <1>1, LenProperties DEF MsgInv, WireInv
<1>3. CASE wire'[s] = wire[s]
  BY <1>2, <1>3, NetGrows DEF Known
<1>4. CASE wire'[s] = <<>>
  BY <1>4, EmptySeq DEF Known
<1>5. CASE Handle_ReadData(s)
  <2>1. PICK len \in 1 .. Len(wire[s]) : wire'[s] = SubSeq(wire[s], len + 1, Len(wire[s]))
    BY <1>1, <1>5 DEF Handle_ReadData
  <2>2. asked' = asked
    BY <1>5 DEF Handle_ReadData
  <2>3. /\ Len(wire'[s]) = IF len + 1 <= Len(wire[s]) THEN Len(wire[s]) - len ELSE 0
        /\ \A i \in 1 .. Len(wire[s]) - len : wire'[s][i] = wire[s][len + i]
    <3>1. \A i \in len + 1 .. Len(wire[s]) : wire[s][i] \in Fragment
      BY <1>2, ElementOfSeq
    <3> DEFINE a == len + 1
               z == Len(wire[s])
               w == wire[s]
    <3>2. a \in Int /\ z \in Int
      BY <1>2
    <3>3. /\ Len(SubSeq(w, a, z)) = IF a <= z THEN z - a + 1 ELSE 0
          /\ \A i \in 1 .. z - a + 1 : SubSeq(w, a, z)[i] = w[a + i - 1]
      <4> HIDE DEF a, z
      <4>1. \A i \in a .. z : w[i] \in Fragment
        BY <3>1 DEF a, z
      <4> HIDE DEF w
      <4> QED BY <3>2, <4>1, SubSeqProperties
    <3>4. z - a + 1 = Len(wire[s]) - len /\ \A i \in 1 .. z - a + 1 : a + i - 1 = len + i
      BY <1>2
    <3> QED BY <1>2, <2>1, <3>3, <3>4
  <2>4. ASSUME NEW i \in 1 .. Len(wire'[s])
        PROVE  wire'[s][i].n \in 1 .. Len(asked'[s])
    <3>1. i \in 1 .. Len(wire[s]) - len /\ len + i \in 1 .. Len(wire[s])
      BY <1>2, <2>3
    <3>2. wire[s][len + i].n \in 1 .. Len(asked[s])
      BY <1>2, <3>1 DEF Known
    <3> QED BY <2>2, <2>3, <3>1, <3>2
  <2> QED BY <2>4 DEF Known
<1>6. CASE \E r \in PeerRequest : PeerSend(s, r)
  <2> DEFINE k   == Len(asked[s]) + 1
             req == <<[n |-> k, part |-> "head"], [n |-> k, part |-> "body"]>>
  <2>1. PICK r \in PeerRequest : PeerSend(s, r)
    BY <1>6
  <2>2. wire'[s] = wire[s] \o req /\ asked'[s] = Append(asked[s], r)
    BY <1>1, <2>1 DEF PeerSend
  <2>3. k \in Nat \ {0} /\ Len(asked'[s]) = k
    BY <1>1, <2>2, LenProperties, AppendProperties
  <2>4. req \in Seq(Fragment) /\ Len(req) = 2 /\ req[1].n = k /\ req[2].n = k
    BY <2>3 DEF Fragment
  <2> HIDE DEF req
  <2>5. /\ Len(wire'[s]) = Len(wire[s]) + 2
        /\ \A i \in 1 .. Len(wire[s]) + 2 :
             wire'[s][i] = IF i <= Len(wire[s]) THEN wire[s][i] ELSE req[i - Len(wire[s])]
    <3>1. /\ Len(wire[s] \o req) = Len(wire[s]) + Len(req)
          /\ \A i \in 1 .. Len(wire[s]) + Len(req) :
               (wire[s] \o req)[i] = IF i <= Len(wire[s]) THEN wire[s][i]
                                     ELSE req[i - Len(wire[s])]
      <4>1. wire[s] \in Seq(Fragment) /\ req \in Seq(Fragment)
        BY <1>2, <2>4
      <4> QED BY <4>1, ConcatProperties
    <3> QED BY <2>2, <2>4, <3>1
  <2>6. ASSUME NEW i \in 1 .. Len(wire[s]) + 2
        PROVE  wire'[s][i].n \in 1 .. k
    <3>1. CASE i <= Len(wire[s])
      <4>1. i \in 1 .. Len(wire[s])
        BY <1>2, <3>1
      <4>2. wire'[s][i] = wire[s][i]
        BY <2>5, <3>1
      <4>3. wire[s][i].n \in 1 .. Len(asked[s])
        BY <1>2, <4>1 DEF Known
      <4>4. Len(asked[s]) \in Nat
        BY <1>1, LenProperties
      <4> QED BY <4>2, <4>3, <4>4
    <3>2. CASE i > Len(wire[s])
      <4>1. i - Len(wire[s]) \in {1, 2}
        BY <1>2, <3>2
      <4>2. wire'[s][i] = req[i - Len(wire[s])]
        BY <1>2, <2>5, <3>2
      <4>3. req[i - Len(wire[s])].n = k
        BY <2>4, <4>1
      <4> QED BY <2>3, <4>2, <4>3
    <3> QED BY <1>2, <3>1, <3>2
  <2> QED BY <2>3, <2>5, <2>6 DEF Known
<1>7. \/ wire'[s] = wire[s] \/ wire'[s] = <<>> \/ Handle_ReadData(s)
      \/ \E r \in PeerRequest : PeerSend(s, r)
  <2>1. CASE UNCHANGED wire
    BY <2>1
  <2>2. CASE \E t \in Session : Handle_ReadData(t)
    BY <1>1, <2>2 DEF Handle_ReadData
  <2>3. CASE \E t \in Session : Handle_ReadError(t)
    BY <1>1, <2>3 DEF Handle_ReadError
  <2>4. CASE \E t \in Session, r \in PeerRequest : PeerSend(t, r)
    BY <1>1, <2>4 DEF PeerSend
  <2> QED BY <2>1, <2>2, <2>3, <2>4
          DEF NetNext, netVars, peerVars, AcceptConnect, Handle_accept, Handle_Read,
              GetAllMsg, Write, PeerClose
<1> QED BY <1>3, <1>4, <1>5, <1>6, <1>7

LEMMA InboxStep ==
  ASSUME NetInv, MsgInv, [NetNext]_netVars
  PROVE  InboxInv'
<1> SUFFICES ASSUME NEW i \in 1 .. Len(m_vecAllClientMsg') PROVE Tagged(m_vecAllClientMsg[i])'
  BY DEF InboxInv
<1> DEFINE inbox == m_vecAllClientMsg
<1>1. inbox \in Seq(Message) /\ Len(inbox) \in Nat
  BY LenProperties DEF NetInv, NetTypeOK
<1>2. ASSUME i \in 1 .. Len(inbox), inbox'[i] = inbox[i]
      PROVE  Tagged(inbox[i])'
  <2> DEFINE msg == inbox[i]
  <2>1. msg \in Message /\ Tagged(msg)
    BY <1>1, <1>2, ElementOfSeq DEF MsgInv, InboxInv
  <2>2. PICK m \in Message : m = msg
    BY <2>1
  <2>3. Tagged(m)'
    BY <2>1, <2>2, TaggedStays
  <2> QED BY <1>2, <2>2, <2>3
<1>3. CASE \E s \in Session : \E chunk \in Seq(Fragment) :
             Push(s, chunk) /\ s \in Accepted /\ Known(s, chunk)
  <2>1. PICK s \in Session, chunk \in Seq(Fragment) :
          Push(s, chunk) /\ s \in Accepted /\ Known(s, chunk)
    BY <1>3
  <2> DEFINE new == [src |-> s, m_iSessionID |-> m_iID[s], chunk |-> chunk]
  <2>2. new \in Message
    BY <2>1, AcceptedHasID DEF Message
  <2>3. /\ Len(inbox') = Len(inbox) + 1
        /\ \A j \in 1 .. Len(inbox) : inbox'[j] = inbox[j]
        /\ inbox'[Len(inbox) + 1] = new
    BY <1>1, <2>1, <2>2, AppendProperties DEF Push
  <2>4. CASE i \in 1 .. Len(inbox)
    BY <1>2, <2>3, <2>4
  <2>5. CASE i = Len(inbox) + 1
    <3>1. Tagged(new)
      BY <2>1 DEF Tagged
    <3>2. PICK m \in Message : m = new
      BY <2>2
    <3>3. Tagged(m)'
      BY <3>1, <3>2, TaggedStays
    <3> QED BY <2>3, <2>5, <3>2, <3>3
  <2> QED BY <1>1, <2>3, <2>4, <2>5
<1>4. CASE UNCHANGED m_vecAllClientMsg
  BY <1>2, <1>4
<1>5. CASE m_vecAllClientMsg' = <<>>
  BY <1>5, EmptySeq
<1>6. CASE \E s \in Session : Handle_ReadData(s)
  <2>1. PICK s \in Session : Handle_ReadData(s)
    BY <1>6
  <2>2. PICK len \in 1 .. Len(wire[s]) : Push(s, SubSeq(wire[s], 1, len))
    BY <2>1 DEF Handle_ReadData
  <2>3. wire[s] \in Seq(Fragment) /\ Len(wire[s]) \in Nat /\ Known(s, wire[s])
    BY LenProperties DEF NetInv, NetTypeOK, MsgInv, WireInv
  <2>4. /\ SubSeq(wire[s], 1, len) \in Seq(Fragment)
        /\ Len(SubSeq(wire[s], 1, len)) = len
        /\ \A j \in 1 .. len : SubSeq(wire[s], 1, len)[j] = wire[s][j]
    <3>1. \A j \in 1 .. len : wire[s][j] \in Fragment
      BY <2>3, ElementOfSeq
    <3> QED BY <2>3, <3>1, SubSeqProperties
  <2>5. Known(s, SubSeq(wire[s], 1, len))
    BY <2>3, <2>4 DEF Known
  <2>6. s \in Accepted
    BY <2>3, EmptySeq DEF NetInv, SocketsInv
  <2> QED BY <1>3, <2>2, <2>4, <2>5, <2>6
<1>7. CASE \E s \in Session : Handle_ReadError(s)
  <2>1. PICK s \in Session : Handle_ReadError(s)
    BY <1>7
  <2>2. Push(s, <<>>) /\ s \in Accepted
    BY <2>1 DEF Handle_ReadError, NetInv, SocketsInv
  <2>3. <<>> \in Seq(Fragment) /\ Known(s, <<>>)
    BY EmptySeq DEF Known
  <2> QED BY <1>3, <2>2, <2>3
<1> QED BY <1>4, <1>5, <1>6, <1>7
        DEF NetNext, netVars, AcceptConnect, Handle_accept, Handle_Read,
            GetAllMsg, Write, PeerSend, PeerClose

LEMMA EndedStep ==
  ASSUME NetInv, MsgInv, [NetNext]_netVars
  PROVE  EndedInv'
<1>1. /\ sock \in [Session -> {"none", "pending", "open", "ended"}]
      /\ errorReads \in [Session -> Nat]
      /\ nSessions \in Nat
  BY DEF NetInv, NetTypeOK
<1>2. CASE \E s \in Session : Handle_ReadError(s)
  BY <1>1, <1>2 DEF Handle_ReadError, MsgInv, EndedInv
<1>3. CASE \E s \in Session : PeerClose(s)
  BY <1>1, <1>3 DEF PeerClose, MsgInv, EndedInv
<1>4. CASE AcceptConnect
  <2>1. \A s \in Session : errorReads[s] = 0
    BY <1>4 DEF AcceptConnect, NetInv, SocketsInv, Accepted
  <2> QED BY <1>4, <2>1 DEF AcceptConnect, EndedInv
<1>5. CASE \E error \in BOOLEAN : Handle_accept(error)
  <2>1. \A s \in Session : s >= nSessions => errorReads[s] = 0
    BY <1>1 DEF NetInv, SocketsInv, Accepted
  <2>2. \A s \in Session : s < nSessions => sock'[s] = sock[s]
    BY <1>1, <1>5 DEF Handle_accept
  <2>3. errorReads' = errorReads
    BY <1>5 DEF Handle_accept
  <2> QED BY <1>1, <2>1, <2>2, <2>3 DEF MsgInv, EndedInv
<1>6. CASE UNCHANGED <<sock, errorReads>>
  BY <1>6 DEF MsgInv, EndedInv
<1> QED BY <1>2, <1>3, <1>4, <1>5, <1>6
        DEF NetNext, netVars, peerVars, Handle_Read, Handle_ReadData, GetAllMsg,
            Write, PeerSend

\* Every step of the network keeps its messages tagged.
LEMMA MsgStepInv == NetInv /\ MsgInv /\ [NetNext]_netVars => MsgInv'
BY WireStep, InboxStep, EndedStep DEF MsgInv

-----------------------------------------------------------------------------
\* The network keeps its types and its registry, whatever the main thread calls.
THEOREM NetworkCorrect ==
  NetSpec => [](NetTypeOK /\ KeysAreIDs /\ RegistryExact)
<1>1. NetInv => NetTypeOK /\ KeysAreIDs /\ RegistryExact
  BY DEF NetInv
<1> QED BY <1>1, NetInitInv, NetStepInv, PTL DEF NetSpec
=============================================================================
