--------------------------- MODULE ZServerProofs ----------------------------
(***************************************************************************)
(* Proofs about the account server process.  ZInv is the inductive         *)
(* invariant; from it follow that no lookup misses before a failed read,   *)
(* that answers go to the asker, what it takes to end the process, and     *)
(* that the hand-over between the threads is a FIFO mailbox.  OrderInv     *)
(* follows a request from the wire to its answer: answers come in the      *)
(* order of the requests, and the whole process is a service that answers  *)
(* what arrives one by one.                                                *)
(***************************************************************************)
EXTENDS ZServer, MyZServerNetworkProofs

USE NetworkAssumption, PeerRequestAssumption, BufferAssumption DEF ID, Session, NULL

\* Type correctness of the main thread's own state.
MainTypeOK ==
  /\ main \in {"start", "poll", "deal", "send", "write", "dead"}
  /\ batch \in Seq(Message)
  /\ cur \in Message \cup {NoMessage}
  /\ dealt \in Request
  /\ target \in Session \cup {NULL}
  /\ unread \in [Session -> 0 .. SendBuffer]
  /\ raced \in BOOLEAN
  /\ death \in {"none", "garbled", "miss", "write", "race"}
  /\ main = "deal" => batch # <<>>
  /\ main \in {"send", "write"} => cur \in Message /\ AnswerTo(dealt) # {}
  /\ main = "write" => target \in Accepted

\* GetAllMsg is called only when the last batch has been dealt with.
BatchInv == main \in {"start", "poll"} => batch = <<>>

\* Messages the main thread holds are tagged like those in the inbox.
HeldInv ==
  /\ \A i \in 1 .. Len(batch) : Tagged(batch[i])
  /\ cur # NoMessage => Tagged(cur)

\* Where ids are not reused, the lookup has found the session that asked.
TargetInv == main = "write" /\ NoIDReuse => target = cur.src

\* A race with the lookup is another session's accept or somebody's failed read.
RaceCause == \E t \in Accepted : t # cur.src \/ errorReads[t] > 0

RaceInv == raced => main \in {"send", "dead"} /\ RaceCause

\* A process that has died while sending had a message.
DeadInv == death \in {"miss", "write"} => cur \in Message

\* A living process has no cause of death.
AliveInv == main # "dead" => death = "none"

ZInv ==
  /\ NetInv /\ MsgInv
  /\ AliveInv
  /\ MainTypeOK
  /\ BatchInv
  /\ HeldInv
  /\ TargetInv
  /\ RaceInv
  /\ DeadInv
  /\ AnswersOwnPeer
  /\ DeathHasCause

-----------------------------------------------------------------------------
\* Parsing yields requests, and answers are answers.
LEMMA AnswerType == \A r \in Request : AnswerTo(r) \subseteq Answer
BY DEF AnswerTo, Answer

LEMMA ParseType ==
  ASSUME NetInv, NEW msg \in Message, Tagged(msg)
  PROVE  Parse(msg) \subseteq Request
<1>1. CASE ~HasHeader(msg)
  BY <1>1 DEF Parse
<1>2. CASE HasHeader(msg)
  <2>1. msg.src \in Session /\ msg.chunk \in Seq(Fragment) /\ Known(msg.src, msg.chunk)
    BY DEF Message, Tagged
  <2>2. msg.chunk # <<>> /\ Len(msg.chunk) \in Nat \ {0}
    BY <1>2, <2>1, EmptySeq DEF HasHeader
  <2>3. msg.chunk[1].n \in 1 .. Len(asked[msg.src])
    BY <2>1, <2>2 DEF Known
  <2>4. asked[msg.src] \in Seq(Request)
    BY <2>1 DEF NetInv, NetTypeOK
  <2>5. asked[msg.src][msg.chunk[1].n] \in Request
    BY <2>3, <2>4, ElementOfSeq
  <2> QED BY <1>2, <2>5 DEF Parse
<1> QED BY <1>1, <1>2

LEMMA IndexType == \A msg \in Message : Index(msg) \in Nat
<1> SUFFICES ASSUME NEW msg \in Message PROVE Index(msg) \in Nat
  OBVIOUS
<1>1. msg.chunk \in Seq(Fragment)
  BY DEF Message
<1>2. CASE IsWhole(msg)
  <2>1. Len(msg.chunk) \in Nat /\ 1 \in 1 .. Len(msg.chunk)
    BY <1>1, <1>2, LenProperties DEF IsWhole
  <2>2. msg.chunk[1] \in Fragment
    BY <1>1, <2>1, ElementOfSeq
  <2> QED BY <1>2, <2>2 DEF Index, Fragment
<1> QED BY <1>2 DEF Index

\* No message is the one the main thread starts with.
LEMMA NoMessageIsNone == NoMessage \notin Message
BY DEF NoMessage, Message

\* The initial state.
LEMMA ZInitInv == Init => ZInv
<1> SUFFICES ASSUME Init PROVE ZInv
  OBVIOUS
<1>1. NetInv /\ MsgInv
  BY NetInitInv, MsgInitInv DEF Init
<1>2. batch = <<>> /\ batch \in Seq(Message) /\ Len(batch) = 0
  BY EmptySeq DEF Init
<1>3. MainTypeOK
  <2>1. unread \in [Session -> 0 .. SendBuffer]
    BY DEF Init
  <2> QED BY <1>2, <2>1 DEF Init, MainTypeOK, NoRequest, Request
<1>4. BatchInv /\ HeldInv /\ TargetInv /\ DeadInv /\ DeathHasCause /\ AliveInv
  BY <1>2 DEF Init, BatchInv, HeldInv, TargetInv, DeadInv, DeathHasCause, AliveInv
<1>5. AnswersOwnPeer
  BY DEF Init, NetInit, AnswersOwnPeer
<1>6. RaceInv
  BY DEF Init, RaceInv
<1> QED BY <1>1, <1>3, <1>4, <1>5, <1>6 DEF ZInv

-----------------------------------------------------------------------------
(***************************************************************************)
(* The composition does nothing to the network that is not one of its      *)
(* operations.                                                             *)
(***************************************************************************)
LEMMA StepIsNetwork == ZInv /\ [Next]_vars => [NetNext]_netVars
<1> SUFFICES ASSUME ZInv, [Next]_vars PROVE [NetNext]_netVars
  OBVIOUS
<1>1. CASE Start
  BY <1>1 DEF Start, NetNext
<1>2. CASE Poll
  BY <1>2 DEF Poll, NetNext
<1>3. CASE \/ DealMsg \/ DealFault \/ SendLookup \/ SendMiss \/ SendThrow \/ SendRace
           \/ \E s \in Session : PeerReads(s)
  BY <1>3 DEF DealMsg, DealFault, SendLookup, SendMiss, SendThrow, SendRace, PeerReads, Die
<1>4. CASE SendDone
  <2>1. cur \in Message /\ dealt \in Request /\ target \in Accepted
    BY <1>4 DEF SendDone, ZInv, MainTypeOK
  <2>2. PICK a \in AnswerTo(dealt) : Write(target, cur.src, Index(cur), a)
    BY <1>4 DEF SendDone
  <2>3. cur.src \in Session /\ Index(cur) \in Nat /\ a \in Answer
    BY <2>1, <2>2, IndexType, AnswerType DEF Message
  <2> QED BY <2>1, <2>2, <2>3 DEF NetNext
<1>5. CASE \E s \in Session : IoRead(s)
  BY <1>5 DEF IoRead, Beside, NetNext
<1>6. CASE IoAccept
  BY <1>6 DEF IoAccept, Beside, NetNext
<1>7. CASE Peers
  BY <1>7 DEF Peers, Beside, NetNext
<1>8. CASE Halted \/ UNCHANGED vars
  BY <1>8 DEF Halted, vars
<1> QED BY <1>1, <1>2, <1>3, <1>4, <1>5, <1>6, <1>7, <1>8 DEF Next, MainThread

\* What every step gives: the network's invariants, and messages that stay tagged.
LEMMA NetworkPart ==
  ASSUME ZInv, [Next]_vars
  PROVE  /\ NetInv' /\ MsgInv' /\ [NetNext]_netVars
         /\ \A msg \in Message : Tagged(msg) => Tagged(msg)'
         /\ NoIDReuse' => NoIDReuse
         /\ Accepted \subseteq Accepted'
<1>1. [NetNext]_netVars
  BY StepIsNetwork
<1>2. NetInv' /\ MsgInv'
  BY <1>1, NetStepInv, MsgStepInv DEF ZInv
<1>3. \A msg \in Message : Tagged(msg) => Tagged(msg)'
  BY <1>1, TaggedStays DEF ZInv
<1>4. (NoIDReuse' => NoIDReuse) /\ Accepted \subseteq Accepted'
  <2>1. nSessions \in Nat /\ nSessions' \in {nSessions, nSessions + 1}
    BY <1>1, NetGrows DEF ZInv
  <2> QED BY <2>1 DEF NoIDReuse, Accepted
<1> QED BY <1>1, <1>2, <1>3, <1>4

\* Where ids are not reused, a registered id leads back to the tagged session.
LEMMA LookupIsOwner ==
  ASSUME NetInv, NoIDReuse, NEW msg \in Message, Tagged(msg)
  PROVE  m_mapAllClientSock[msg.m_iSessionID] \in {NULL, msg.src}
<1> DEFINE id == msg.m_iSessionID
           s  == m_mapAllClientSock[id]
<1>1. id \in ID /\ msg.src \in Accepted /\ id = m_iID[msg.src]
  BY DEF Message, Tagged
<1>2. ASSUME NEW t \in Accepted PROVE m_iID[t] = t
  BY DEF Accepted, NoIDReuse, NetInv, NetTypeOK, IDsInv
<1>3. s # NULL => s \in Accepted /\ m_iID[s] = id
  BY <1>1 DEF NetInv, KeysAreIDs
<1> QED BY <1>1, <1>2, <1>3

-----------------------------------------------------------------------------
\* The main thread's own state keeps its types, and its batch ends before a poll.
LEMMA MainTypeStep ==
  ASSUME ZInv, [Next]_vars
  PROVE  MainTypeOK' /\ BatchInv'
<1>1. MainTypeOK /\ BatchInv /\ NetInv /\ HeldInv /\ Accepted \subseteq Accepted'
  BY NetworkPart DEF ZInv
<1>2. m_vecAllClientMsg \in Seq(Message)
  BY <1>1 DEF NetInv, NetTypeOK
<1>3. CASE Start
  BY <1>1, <1>3 DEF Start, MainTypeOK, BatchInv
<1>4. CASE Poll
  BY <1>1, <1>2, <1>4 DEF Poll, Resume, MainTypeOK, BatchInv
<1>5. CASE DealMsg
  <2> DEFINE msg == Head(batch)
  <2>1. /\ main = "deal" /\ cur' = msg /\ batch' = Tail(batch)
        /\ UNCHANGED <<target, unread, raced, death>>
    BY <1>5 DEF DealMsg
  <2>2. batch # <<>> /\ batch \in Seq(Message)
    BY <1>1, <2>1 DEF MainTypeOK
  <2>3. msg \in Message /\ Tail(batch) \in Seq(Message)
    BY <2>2, HeadTailProperties
  <2>4. Tagged(msg)
    <3>1. 1 \in 1 .. Len(batch) /\ msg = batch[1]
      BY <2>2, EmptySeq
    <3> QED BY <1>1, <3>1 DEF HeldInv
  <2>5. PICK r \in Request :
          IF AnswerTo(r) = {} THEN main' = Resume(Tail(batch)) /\ UNCHANGED dealt
                              ELSE main' = "send" /\ dealt' = r
    BY <1>1, <1>5, <2>3, <2>4, ParseType DEF DealMsg
  <2> HIDE DEF msg
  <2>6. CASE AnswerTo(r) = {}
    BY <1>1, <2>1, <2>3, <2>5, <2>6 DEF Resume, MainTypeOK, BatchInv
  <2>7. CASE AnswerTo(r) # {}
    <3>1. main' = "send" /\ dealt' = r /\ AnswerTo(dealt)' # {}
      <4>1. main' = "send" /\ dealt' = r
        BY <2>5, <2>7
      <4>2. AnswerTo(dealt)' = AnswerTo(r)
        BY <4>1 DEF AnswerTo, CheckDynmicCode, m_mapAllClient
      <4> QED BY <2>7, <4>1, <4>2
    <3> QED BY <1>1, <2>1, <2>3, <3>1 DEF MainTypeOK, BatchInv
  <2> QED BY <2>6, <2>7
<1>6. CASE DealFault \/ SendMiss \/ SendThrow \/ SendRace
  BY <1>1, <1>6 DEF DealFault, SendMiss, SendThrow, SendRace, Die, MainTypeOK, BatchInv
<1>7. CASE SendLookup
  <2>1. /\ main = "send" /\ main' = "write" /\ target' = m_mapAllClientSock[cur.m_iSessionID]
        /\ target' # NULL /\ raced' = FALSE
        /\ UNCHANGED <<batch, cur, dealt, unread, death>>
    BY <1>7 DEF SendLookup
  <2>2. target' \in Session /\ target' \in Accepted
    <3>1. cur.m_iSessionID \in ID
      BY <1>1, <2>1 DEF MainTypeOK, Message
    <3> QED BY <1>1, <2>1, <3>1 DEF NetInv, KeysAreIDs, Accepted
  <2>3. AnswerTo(dealt)' = AnswerTo(dealt)
    BY <2>1 DEF AnswerTo, CheckDynmicCode, m_mapAllClient
  <2> QED BY <1>1, <2>1, <2>2, <2>3 DEF MainTypeOK, BatchInv
<1>8. CASE SendDone
  <2>1. /\ main = "write" /\ main' = Resume(batch) /\ dealt' = NoRequest /\ target' = NULL
        /\ unread' = [unread EXCEPT ![target] = IF Fits(@) THEN @ + AnswerSize ELSE SendBuffer]
        /\ UNCHANGED <<batch, cur, raced, death>>
    BY <1>8 DEF SendDone
  <2>2. target \in Session /\ unread[target] \in 0 .. SendBuffer
    BY <1>1, <2>1 DEF MainTypeOK, Accepted
  <2>3. unread' \in [Session -> 0 .. SendBuffer]
    BY <1>1, <2>1, <2>2 DEF MainTypeOK, Fits, AnswerSize
  <2> QED BY <1>1, <2>1, <2>3 DEF Resume, MainTypeOK, BatchInv, NoRequest, Request
<1>9. CASE \E s \in Session : PeerReads(s)
  <2>1. PICK s \in Session : PeerReads(s)
    BY <1>9
  <2>2. PICK held \in 0 .. unread[s] - 1 : unread' = [unread EXCEPT ![s] = held]
    BY <2>1 DEF PeerReads
  <2>3. unread' \in [Session -> 0 .. SendBuffer]
    BY <1>1, <2>2 DEF MainTypeOK
  <2>4. UNCHANGED <<main, batch, cur, dealt, target, raced, death>>
    BY <2>1 DEF PeerReads
  <2>5. AnswerTo(dealt)' = AnswerTo(dealt)
    BY <2>4 DEF AnswerTo, CheckDynmicCode, m_mapAllClient
  <2> QED BY <1>1, <2>3, <2>4, <2>5 DEF MainTypeOK, BatchInv
<1>10. CASE (\E s \in Session : IoRead(s)) \/ IoAccept \/ Peers \/ Halted \/ UNCHANGED vars
  <2>1. UNCHANGED <<main, batch, cur, dealt, target, unread, death>> /\ raced' \in BOOLEAN
    BY <1>1, <1>10 DEF IoRead, IoAccept, Peers, Beside, Halted, vars, mainVars, MainTypeOK, Racing
  <2>2. AnswerTo(dealt)' = AnswerTo(dealt)
    BY <2>1 DEF AnswerTo, CheckDynmicCode, m_mapAllClient
  <2> QED BY <1>1, <2>1, <2>2 DEF MainTypeOK, BatchInv
<1> QED BY <1>3, <1>4, <1>5, <1>6, <1>7, <1>8, <1>9, <1>10 DEF Next, MainThread

\* Messages move from the inbox to the batch to cur, and stay tagged.
LEMMA HeldStep ==
  ASSUME ZInv, [Next]_vars
  PROVE  HeldInv'
<1>1. HeldInv /\ MainTypeOK /\ batch \in Seq(Message) /\ \A m \in Message : Tagged(m) => Tagged(m)'
  BY NetworkPart DEF ZInv, MainTypeOK
<1>2. ASSUME NEW q \in Seq(Message), \A i \in 1 .. Len(q) : Tagged(q[i]), batch' = q
      PROVE  \A i \in 1 .. Len(batch') : Tagged(batch[i])'
  <2> SUFFICES ASSUME NEW i \in 1 .. Len(q) PROVE Tagged(batch[i])'
    BY <1>2
  <2>1. PICK m \in Message : m = q[i]
    BY ElementOfSeq
  <2>2. Tagged(m)'
    BY <1>1, <1>2, <2>1
  <2> QED BY <1>2, <2>1, <2>2
<1>3. ASSUME NEW m, m \in Message => Tagged(m), cur' = m, m \in Message \cup {NoMessage}
      PROVE  cur' # NoMessage => Tagged(cur)'
  <2> SUFFICES ASSUME m # NoMessage PROVE Tagged(cur)'
    BY <1>3
  <2>1. PICK c \in Message : c = m
    BY <1>3
  <2>2. Tagged(c)'
    BY <1>1, <1>3, <2>1
  <2> QED BY <1>3, <2>1, <2>2
<1>4. cur \in Message \cup {NoMessage} /\ (cur \in Message => Tagged(cur))
  BY <1>1, NoMessageIsNone DEF HeldInv, MainTypeOK
<1>5. UNCHANGED batch => \A i \in 1 .. Len(batch') : Tagged(batch[i])'
  BY <1>1, <1>2 DEF HeldInv
<1>6. UNCHANGED cur => (cur' # NoMessage => Tagged(cur)')
  BY <1>3, <1>4
<1>7. CASE Poll
  <2>1. batch' = m_vecAllClientMsg /\ UNCHANGED cur
    BY <1>7 DEF Poll
  <2>2. m_vecAllClientMsg \in Seq(Message) /\ \A i \in 1 .. Len(m_vecAllClientMsg) : Tagged(m_vecAllClientMsg[i])
    BY DEF ZInv, NetInv, NetTypeOK, MsgInv, InboxInv
  <2>3. \A i \in 1 .. Len(batch') : Tagged(batch[i])'
    BY <1>2, <2>1, <2>2
  <2> QED BY <1>6, <2>1, <2>3 DEF HeldInv
<1>8. CASE DealMsg
  <2>1. main = "deal" /\ cur' = Head(batch) /\ batch' = Tail(batch) /\ batch # <<>>
    BY <1>1, <1>8 DEF DealMsg, MainTypeOK
  <2>2. /\ Head(batch) \in Message /\ Tail(batch) \in Seq(Message)
        /\ Len(Tail(batch)) = Len(batch) - 1
        /\ \A i \in 1 .. Len(Tail(batch)) : Tail(batch)[i] = batch[i + 1]
        /\ Len(batch) \in Nat /\ Len(batch) > 0 /\ Head(batch) = batch[1]
    BY <1>1, <2>1, HeadTailProperties, EmptySeq
  <2>3. Tagged(Head(batch)) /\ \A i \in 1 .. Len(Tail(batch)) : Tagged(Tail(batch)[i])
    BY <1>1, <2>2 DEF HeldInv
  <2>4. \A i \in 1 .. Len(batch') : Tagged(batch[i])'
    BY <1>2, <2>1, <2>2, <2>3
  <2>5. cur' # NoMessage => Tagged(cur)'
    BY <1>3, <2>1, <2>2, <2>3
  <2> QED BY <2>4, <2>5 DEF HeldInv
<1>9. CASE UNCHANGED <<batch, cur>>
  BY <1>5, <1>6, <1>9 DEF HeldInv
<1>10. Next \/ UNCHANGED vars => Poll \/ DealMsg \/ UNCHANGED <<batch, cur>>
  BY DEF Next, MainThread, Start, DealFault, SendLookup, SendDone, SendMiss, SendThrow, SendRace,
         Die, IoRead, IoAccept, Peers, PeerReads, Beside, Halted, vars, mainVars
<1> QED BY <1>7, <1>8, <1>9, <1>10

\* An answer written goes to the session whose request is being answered.
LEMMA AnswersStep ==
  ASSUME ZInv, [Next]_vars
  PROVE  AnswersOwnPeer'
<1> SUFFICES ASSUME NoIDReuse', NEW s \in Session, NEW j \in DOMAIN replies'[s]
             PROVE  replies'[s][j].src = s
  BY DEF AnswersOwnPeer
<1>1. NoIDReuse
  BY NetworkPart
<1>2. replies \in [Session -> Seq([src : Session, n : Nat, ans : Answer])]
  BY DEF ZInv, NetInv, NetTypeOK
<1>3. CASE UNCHANGED replies
  BY <1>1, <1>3 DEF ZInv, AnswersOwnPeer
<1>4. CASE SendDone
  <2> DEFINE to == target
  <2>1. cur \in Message /\ to \in Session
    BY <1>4 DEF SendDone, ZInv, MainTypeOK, Accepted
  <2>2. PICK a \in AnswerTo(dealt) :
          replies' = [replies EXCEPT ![to] =
                        Append(@, [src |-> cur.src, n |-> Index(cur), ans |-> a])]
    BY <1>4 DEF SendDone, Write
  <2>3. to = cur.src /\ to \in Session
    BY <1>1, <1>4, <2>1 DEF SendDone, ZInv, TargetInv
  <2>4. CASE s # to
    BY <1>1, <1>2, <2>2, <2>4 DEF ZInv, AnswersOwnPeer
  <2>5. CASE s = to
    <3> DEFINE Reply == [src : Session, n : Nat, ans : Answer]
               new   == [src |-> cur.src, n |-> Index(cur), ans |-> a]
    <3>1. replies'[s] = Append(replies[s], new)
      BY <1>2, <2>2, <2>5
    <3>2. new \in Reply
      BY <2>1, <2>2, IndexType, AnswerType, <1>4 DEF Message, SendDone, ZInv, MainTypeOK
    <3>3. replies[s] \in Seq(Reply)
      BY <1>2
    <3> HIDE DEF Reply, new
    <3>4. /\ Len(replies'[s]) = Len(replies[s]) + 1
          /\ DOMAIN replies'[s] = 1 .. Len(replies'[s])
          /\ DOMAIN replies[s] = 1 .. Len(replies[s])
          /\ Len(replies[s]) \in Nat
          /\ \A i \in 1 .. Len(replies[s]) : replies'[s][i] = replies[s][i]
          /\ replies'[s][Len(replies[s]) + 1] = new
      BY <3>1, <3>2, <3>3, AppendProperties, LenProperties
    <3>5. CASE j \in DOMAIN replies[s]
      BY <1>1, <3>4, <3>5 DEF ZInv, AnswersOwnPeer
    <3>6. CASE j = Len(replies[s]) + 1
      BY <2>3, <2>5, <3>4, <3>6 DEF new
    <3> QED BY <3>4, <3>5, <3>6
  <2> QED BY <2>4, <2>5
<1>5. [Next]_vars => SendDone \/ UNCHANGED replies
  BY DEF Next, MainThread, Start, AcceptConnect, Poll, GetAllMsg, DealMsg, DealFault, SendLookup,
         SendMiss, SendThrow, SendRace, Die, IoRead, IoAccept, Peers, PeerReads, Beside,
         Handle_Read, Handle_ReadData, Handle_ReadError, Handle_accept, PeerSend, PeerClose, Halted, vars, netVars
<1> QED BY <1>3, <1>4, <1>5

\* A missing entry, where ids are not reused, means the session's own end.
LEMMA MissIsOwnEnd ==
  ASSUME NetInv, MsgInv, NoIDReuse, NEW msg \in Message, Tagged(msg),
         m_mapAllClientSock[msg.m_iSessionID] = NULL
  PROVE  sock[msg.src] = "ended"
<1>1. msg.src \in Accepted /\ msg.src \in Session /\ msg.m_iSessionID = m_iID[msg.src]
  BY DEF Tagged, Message
<1>2. msg.src # NULL
  BY <1>1
<1>3. errorReads[msg.src] # 0
  BY <1>1, <1>2 DEF NetInv, RegistryExact
<1>4. errorReads[msg.src] > 0
  <2>1. errorReads \in [Session -> Nat]
    BY DEF NetInv, NetTypeOK
  <2>2. errorReads[msg.src] \in Nat
    BY <1>1, <2>1
  <2> QED BY <1>3, <2>2
<1> QED BY <1>1, <1>4 DEF MsgInv, EndedInv

\* The process ends for a cause.
LEMMA DeathStep ==
  ASSUME ZInv, [Next]_vars
  PROVE  DeathHasCause' /\ DeadInv'
<1>1. /\ DeathHasCause /\ DeadInv /\ MainTypeOK /\ NetInv /\ MsgInv /\ RaceInv
      /\ main \in {"send", "write"} => cur \in Message /\ Tagged(cur)
  BY NoMessageIsNone DEF ZInv, MainTypeOK, HeldInv
<1>2. NoIDReuse' => NoIDReuse
  BY NetworkPart
<1>3. CASE SendMiss
  <2>1. /\ main = "send" /\ m_mapAllClientSock[cur.m_iSessionID] = NULL
        /\ death' = "miss" /\ UNCHANGED <<sock, cur>>
    BY <1>3 DEF SendMiss, Die, netVars, peerVars
  <2>2. NoIDReuse' => sock'[cur'.src] = "ended"
    BY <1>1, <1>2, <2>1, MissIsOwnEnd
  <2> QED BY <1>1, <2>1, <2>2 DEF DeathHasCause, DeadInv
<1>4. CASE SendThrow
  <2>1. main = "write" /\ sock[target] = "ended" /\ death' = "write" /\ UNCHANGED <<sock, cur>>
    BY <1>4 DEF SendThrow, Die, netVars, peerVars
  <2>2. NoIDReuse => target = cur.src
    BY <2>1 DEF ZInv, TargetInv
  <2>3. NoIDReuse' => sock'[cur'.src] = "ended"
    BY <1>2, <2>1, <2>2
  <2> QED BY <1>1, <2>1, <2>3 DEF DeathHasCause, DeadInv
<1>5. CASE DealFault
  BY <1>5 DEF DealFault, Die, DeathHasCause, DeadInv, IsWhole, HasHeader
<1>8. CASE SendRace
  <2>1. raced /\ death' = "race" /\ UNCHANGED <<cur, nSessions, errorReads>>
    BY <1>8 DEF SendRace, Die, netVars, idVars
  <2> QED BY <1>1, <2>1 DEF DeathHasCause, DeadInv, RaceInv, RaceCause, Accepted
<1>6. CASE Start \/ Poll \/ DealMsg \/ SendLookup \/ SendDone
           \/ (\E s \in Session : IoRead(s) \/ PeerReads(s)) \/ IoAccept \/ Peers
  <2>1. death = "none" /\ UNCHANGED death
    <3>1. main \notin {"dead"} /\ UNCHANGED death
      BY <1>6 DEF Start, Poll, DealMsg, SendLookup, SendDone, IoRead, IoAccept, Peers, PeerReads,
                    Beside
    <3> QED BY <3>1 DEF ZInv, AliveInv
  <2> QED BY <2>1 DEF DeathHasCause, DeadInv
<1>7. CASE Halted \/ UNCHANGED vars
  <2>1. UNCHANGED <<death, sock, cur, nSessions, errorReads, batch>>
    BY <1>7 DEF Halted, vars, netVars, peerVars, idVars, mainVars
  <2> QED BY <1>1, <1>2, <2>1 DEF DeathHasCause, DeadInv, Accepted, NoIDReuse, IsWhole, HasHeader
<1> QED BY <1>3, <1>4, <1>5, <1>6, <1>7, <1>8 DEF Next, MainThread

\* A cause of death is recorded only when the process dies.
LEMMA AliveStep ==
  ASSUME ZInv, [Next]_vars
  PROVE  AliveInv'
<1>1. AliveInv
  BY DEF ZInv
<1>2. CASE DealFault \/ SendMiss \/ SendThrow \/ SendRace
  BY <1>2 DEF DealFault, SendMiss, SendThrow, SendRace, Die, AliveInv
<1>3. CASE main # "dead" /\ UNCHANGED death
  BY <1>1, <1>3 DEF AliveInv
<1>4. CASE UNCHANGED <<main, death>>
  BY <1>1, <1>4 DEF AliveInv
<1>5. [Next]_vars => \/ DealFault \/ SendMiss \/ SendThrow \/ SendRace
                     \/ main # "dead" /\ UNCHANGED death
                     \/ UNCHANGED <<main, death>>
  BY DEF Next, MainThread, Start, Poll, DealMsg, SendLookup, SendDone, IoRead, IoAccept, Peers,
         PeerReads, Beside, Halted, vars, mainVars
<1> QED BY <1>2, <1>3, <1>4, <1>5

\* A lookup leads to the asker, and the write uses what the lookup found.
LEMMA TargetStep ==
  ASSUME ZInv, [Next]_vars
  PROVE  TargetInv'
<1>1. TargetInv /\ MainTypeOK /\ NetInv /\ (NoIDReuse' => NoIDReuse)
  BY NetworkPart DEF ZInv
<1>2. CASE SendLookup
  <2>1. /\ main = "send" /\ target' = m_mapAllClientSock[cur.m_iSessionID] /\ target' # NULL
        /\ UNCHANGED cur
    BY <1>2 DEF SendLookup
  <2>2. cur \in Message /\ Tagged(cur)
    BY <2>1, NoMessageIsNone DEF ZInv, MainTypeOK, HeldInv
  <2>3. NoIDReuse => target' = cur.src
    BY <1>1, <2>1, <2>2, LookupIsOwner
  <2> QED BY <1>1, <2>1, <2>3 DEF TargetInv
<1>3. CASE UNCHANGED <<main, cur, target>>
  BY <1>1, <1>3 DEF TargetInv
<1>4. CASE main' # "write"
  BY <1>4 DEF TargetInv
<1>5. [Next]_vars => SendLookup \/ UNCHANGED <<main, cur, target>> \/ main' # "write"
  BY DEF Next, MainThread, Start, Poll, DealMsg, DealFault, SendDone, SendMiss, SendThrow, SendRace,
         Die, Resume, IoRead, IoAccept, Peers, PeerReads, Beside, Halted, vars, mainVars
<1> QED BY <1>2, <1>3, <1>4, <1>5

\* What the io thread does beside a lookup (Handle_accept, Handle_Read).
LEMMA RaceBeside ==
  ASSUME ZInv, main = "send",
         \/ \E error \in BOOLEAN : Handle_accept(error)
         \/ \E s \in Session : Handle_Read(s)
         \/ \E s \in Session : PeerClose(s) \/ \E r \in PeerRequest : PeerSend(s, r),
         UNCHANGED <<main, cur>>, raced' = (raced \/ Racing)
  PROVE  RaceInv'
<1>1. /\ NetInv /\ RaceInv /\ cur \in Message /\ Tagged(cur)
      /\ errorReads \in [Session -> Nat] /\ nSessions \in 0 .. MaxSessions
  BY NoMessageIsNone DEF ZInv, MainTypeOK, HeldInv, NetInv, NetTypeOK
<1>2. cur.src \in Session /\ cur.src < nSessions
  BY <1>1 DEF Tagged, Message, Accepted
<1>3. CASE \E error \in BOOLEAN : Handle_accept(error)
  <2>1. nSessions > 0 /\ nSessions' = nSessions + 1
    BY <1>3 DEF Handle_accept, StartAccept
  <2>2. nSessions \in Accepted' /\ nSessions # cur.src
    BY <1>1, <1>2, <2>1 DEF Accepted
  <2> QED BY <2>2 DEF RaceInv, RaceCause
<1>4. ASSUME NEW s \in Session, Handle_ReadError(s) PROVE RaceInv'
  <2>1. errorReads' = [errorReads EXCEPT ![s] = @ + 1] /\ nSessions' = nSessions /\ sock[s] = "ended"
    BY <1>4 DEF Handle_ReadError, idVars
  <2>2. errorReads'[s] > 0 /\ s \in Accepted'
    BY <1>1, <2>1 DEF NetInv, SocketsInv, Accepted
  <2> QED BY <2>2 DEF RaceInv, RaceCause
<1>5. ASSUME UNCHANGED <<m_mapAllClientSock, nSessions, errorReads>> PROVE RaceInv'
  <2>1. ~Racing
    BY <1>5 DEF Racing, Entries
  <2> QED BY <1>1, <1>5, <2>1 DEF RaceInv, RaceCause, Accepted
<1>6. CASE \E s \in Session : Handle_Read(s)
  BY <1>4, <1>5, <1>6 DEF Handle_Read, Handle_ReadData, idVars
<1>7. CASE \E s \in Session : PeerClose(s) \/ \E r \in PeerRequest : PeerSend(s, r)
  BY <1>5, <1>7 DEF PeerClose, PeerSend, idVars
<1> QED BY <1>3, <1>6, <1>7

\* Only the io thread's steps beside a lookup race with it; the lookup's end forgets them.
LEMMA RaceStep ==
  ASSUME ZInv, [Next]_vars
  PROVE  RaceInv'
<1>1. RaceInv
  BY DEF ZInv
<1>2. CASE SendMiss \/ SendRace
  <2>1. main' = "dead" /\ UNCHANGED <<raced, cur, nSessions, errorReads>>
    BY <1>2 DEF SendMiss, SendRace, Die, netVars, idVars
  <2> QED BY <1>1, <2>1 DEF RaceInv, RaceCause, Accepted
<1>3. CASE Start \/ Poll \/ DealMsg \/ DealFault \/ SendLookup \/ SendDone \/ SendThrow
  <2>1. ~raced'
    BY <1>1, <1>3 DEF Start, Poll, DealMsg, DealFault, SendLookup, SendDone, SendThrow, Die, RaceInv
  <2> QED BY <2>1 DEF RaceInv
<1>4. CASE (\E s \in Session : IoRead(s)) \/ IoAccept \/ Peers
  <2>1. UNCHANGED <<main, cur>> /\ raced' = (raced \/ Racing) /\ main # "dead"
    BY <1>4 DEF IoRead, IoAccept, Peers, Beside
  <2>2. CASE main = "send"
    BY <1>4, <2>1, <2>2, RaceBeside DEF IoRead, IoAccept, Peers, Beside
  <2>3. CASE main # "send"
    BY <1>1, <2>1, <2>3 DEF RaceInv, Racing
  <2> QED BY <2>2, <2>3
<1>5. CASE (\E s \in Session : PeerReads(s)) \/ Halted \/ UNCHANGED vars
  <2>1. UNCHANGED <<raced, main, cur, nSessions, errorReads>>
    BY <1>5 DEF PeerReads, Halted, vars, mainVars, netVars, idVars
  <2> QED BY <1>1, <2>1 DEF RaceInv, RaceCause, Accepted
<1> QED BY <1>2, <1>3, <1>4, <1>5 DEF Next, MainThread

-----------------------------------------------------------------------------
LEMMA ZStepInv == ZInv /\ [Next]_vars => ZInv'
BY NetworkPart, MainTypeStep, HeldStep, TargetStep, RaceStep, AnswersStep, DeathStep, AliveStep
   DEF ZInv

LEMMA Invariance == Spec => []ZInv
BY ZInitInv, ZStepInv, PTL DEF Spec

\* Type correctness of the server, for every size of the instance.
THEOREM TypeCorrect == Spec => []TypeOK
<1>1. ZInv => TypeOK
  BY DEF ZInv, NetInv, MainTypeOK, TypeOK
<1> QED BY <1>1, Invariance, PTL

\* The registry keys, the ids and the live connections agree (Handle_accept,
\* Handle_Read), also inside the whole server.
THEOREM RegistryCorrect == Spec => [](KeysAreIDs /\ RegistryExact)
<1>1. ZInv => KeysAreIDs /\ RegistryExact
  BY DEF ZInv, NetInv
<1> QED BY <1>1, Invariance, PTL

\* Whatever SendMsgBySessionID writes to a session answers that session.
THEOREM AnswersReachAsker == Spec => []AnswersOwnPeer
<1>1. ZInv => AnswersOwnPeer
  BY DEF ZInv
<1> QED BY <1>1, Invariance, PTL

\* The unlocked lookup of SendMsgBySessionID misses only after a failed read.
THEOREM MissesOnlyAfterEnd == Spec => []MissOnlyAfterEnd
<1>1. ZInv => MissOnlyAfterEnd
  <2> SUFFICES ASSUME ZInv, main = "send", m_mapAllClientSock[cur.m_iSessionID] = NULL
               PROVE  \E t \in Accepted : m_iID[t] = cur.m_iSessionID /\ errorReads[t] > 0
    BY DEF MissOnlyAfterEnd
  <2>1. cur \in Message /\ Tagged(cur)
    BY NoMessageIsNone DEF ZInv, MainTypeOK, HeldInv
  <2> QED BY <2>1 DEF ZInv, Tagged, NetInv, EntryUnlessEnded
<1> QED BY <1>1, Invariance, PTL

\* What it takes to end the process: for a lookup that misses or a write that throws
\* the end of the session being answered, for a race another session's accept or a
\* failed read, for a fault in unpacking a badly framed message (SendMsgBySessionID,
\* Handle_accept, Handle_Read, DealMsg).
THEOREM DeathHasCauseCorrect == Spec => []DeathHasCause
<1>1. ZInv => DeathHasCause
  BY DEF ZInv
<1> QED BY <1>1, Invariance, PTL

\* The server uses the network only through its operations.
THEOREM ServerIsNetwork == Spec => NetSpec
<1>1. Init => NetInit
  BY DEF Init
<1> QED BY <1>1, Invariance, StepIsNetwork, PTL DEF Spec, NetSpec

-----------------------------------------------------------------------------
\* Appending to the right part of a concatenation appends to the whole.
LEMMA AppendToConcat ==
  ASSUME NEW S, NEW b \in Seq(S), NEW q \in Seq(S), NEW e \in S
  PROVE  b \o Append(q, e) = Append(b \o q, e)
<1> DEFINE l == b \o q
<1>1. l \in Seq(S) /\ Append(q, e) \in Seq(S) /\ <<e>> \in Seq(S)
  BY ConcatProperties, AppendProperties
<1>2. Append(q, e) = q \o <<e>> /\ Append(l, e) = l \o <<e>>
  BY <1>1, AppendIsConcat
<1>3. (b \o q) \o <<e>> = b \o (q \o <<e>>)
  BY <1>1, ConcatAssociative
<1> QED BY <1>2, <1>3

\* So it puts one item at its end.
LEMMA ConcatAppend ==
  ASSUME NEW S, NEW b \in Seq(S), NEW q \in Seq(S), NEW e \in S
  PROVE  /\ Len(b \o Append(q, e)) = Len(b \o q) + 1
         /\ SubSeq(b \o Append(q, e), 1, Len(b \o q)) = b \o q
         /\ (b \o Append(q, e))[Len(b \o Append(q, e))] = e
<1> DEFINE l == b \o q
<1>1. l \in Seq(S)
  BY ConcatProperties
<1>2. b \o Append(q, e) = Append(l, e)
  BY AppendToConcat
<1> HIDE DEF l
<1>3. /\ Len(Append(l, e)) = Len(l) + 1 /\ Len(l) \in Nat
      /\ Append(l, e)[Len(l) + 1] = e
      /\ \A i \in 1 .. Len(l) : Append(l, e)[i] = l[i] /\ l[i] \in S
      /\ Append(l, e) \in Seq(S)
  BY <1>1, AppendProperties, LenProperties, ElementOfSeq
<1>4. SubSeq(Append(l, e), 1, Len(l)) = l
  <2> DEFINE t == SubSeq(Append(l, e), 1, Len(l))
  <2>1. \A i \in 1 .. Len(l) : Append(l, e)[i] \in S
    BY <1>3
  <2>2. /\ t \in Seq(S)
        /\ Len(t) = IF 1 <= Len(l) THEN Len(l) - 1 + 1 ELSE 0
        /\ \A i \in 1 .. Len(l) - 1 + 1 : t[i] = Append(l, e)[1 + i - 1]
    BY <1>3, <2>1, SubSeqProperties
  <2> HIDE DEF t
  <2>3. Len(t) = Len(l) /\ \A i \in 1 .. Len(l) : t[i] = l[i]
    BY <1>3, <2>2
  <2>4. t = l
    BY <1>1, <2>2, <2>3, SeqEqual
  <2> QED BY <2>4 DEF t
<1> QED BY <1>2, <1>3, <1>4 DEF l

\* Taking the head of the left part of a concatenation takes the head of the whole.
LEMMA ConcatTail ==
  ASSUME NEW S, NEW b \in Seq(S), NEW q \in Seq(S), b # <<>>
  PROVE  b \o q # <<>> /\ Head(b \o q) = Head(b) /\ Tail(b \o q) = Tail(b) \o q
<1> DEFINE l == b \o q
           r == Tail(b) \o q
<1>1. /\ l \in Seq(S) /\ Len(l) = Len(b) + Len(q)
      /\ \A i \in 1 .. Len(b) + Len(q) : l[i] = IF i <= Len(b) THEN b[i] ELSE q[i - Len(b)]
  BY ConcatProperties
<1>2. /\ Tail(b) \in Seq(S) /\ Len(Tail(b)) = Len(b) - 1
      /\ \A i \in 1 .. Len(Tail(b)) : Tail(b)[i] = b[i + 1]
      /\ Len(b) \in Nat \ {0} /\ Len(q) \in Nat /\ Head(b) = b[1]
  BY HeadTailProperties, EmptySeq, LenProperties
<1>3. /\ r \in Seq(S) /\ Len(r) = Len(Tail(b)) + Len(q)
      /\ \A i \in 1 .. Len(Tail(b)) + Len(q) :
           r[i] = IF i <= Len(Tail(b)) THEN Tail(b)[i] ELSE q[i - Len(Tail(b))]
  BY <1>2, ConcatProperties
<1> HIDE DEF l, r
<1>4. l # <<>>
  BY <1>1, <1>2, EmptySeq
<1>5. /\ Tail(l) \in Seq(S) /\ Len(Tail(l)) = Len(l) - 1 /\ Head(l) = l[1]
      /\ \A i \in 1 .. Len(Tail(l)) : Tail(l)[i] = l[i + 1]
  BY <1>1, <1>4, HeadTailProperties
<1>6. Head(l) = Head(b)
  BY <1>1, <1>2, <1>5
<1>7. Len(Tail(l)) = Len(r)
  BY <1>1, <1>2, <1>3, <1>5
<1>8. ASSUME NEW i \in 1 .. Len(r) PROVE Tail(l)[i] = r[i]
  <2>1. i + 1 \in 1 .. Len(l) /\ Tail(l)[i] = l[i + 1]
    BY <1>1, <1>2, <1>3, <1>5, <1>7
  <2>2. CASE i <= Len(Tail(b))
    BY <1>1, <1>2, <1>3, <2>1, <2>2
  <2>3. CASE i > Len(Tail(b))
    <3>1. l[i + 1] = q[i + 1 - Len(b)] /\ r[i] = q[i - Len(Tail(b))]
      <4>1. i + 1 \in 1 .. Len(b) + Len(q) /\ i + 1 > Len(b)
        BY <1>1, <1>2, <2>1, <2>3
      <4>2. i \in 1 .. Len(Tail(b)) + Len(q) /\ ~(i <= Len(Tail(b)))
        BY <1>2, <1>3, <2>3
      <4>3. ~(i + 1 <= Len(b))
        BY <1>2, <4>1
      <4> QED BY <1>1, <1>3, <4>1, <4>2, <4>3
    <3>2. i + 1 - Len(b) = i - Len(Tail(b))
      BY <1>2
    <3> QED BY <2>1, <3>1, <3>2
  <2>4. i \in Nat /\ Len(Tail(b)) \in Nat
    BY <1>2, <1>3
  <2>5. i <= Len(Tail(b)) \/ i > Len(Tail(b))
    BY <2>4
  <2> QED BY <2>2, <2>3, <2>5
<1>9. Tail(l) = r
  BY <1>3, <1>5, <1>7, <1>8, SeqEqual
<1> QED BY <1>4, <1>6, <1>9 DEF l, r

\* Each step of the server puts one message, takes the oldest, or leaves the hand-over alone.
LEMMA HandoverStep ==
  ZInv /\ [Next]_vars => [Handover!Next]_<<Queue, cur>>
<1> SUFFICES ASSUME ZInv, [Next]_vars PROVE [Handover!Next]_<<Queue, cur>>
  OBVIOUS
<1> DEFINE inbox == m_vecAllClientMsg
<1>1. /\ batch \in Seq(Message) /\ inbox \in Seq(Message)
      /\ inbox' \in Seq(Message)
  BY NetworkPart DEF ZInv, NetInv, NetTypeOK, MainTypeOK
<1>2. CASE UNCHANGED <<batch, cur, inbox>>
  BY <1>2 DEF Queue
<1>3. CASE Poll
  <2>1. batch = <<>> /\ batch' = inbox /\ inbox' = <<>> /\ UNCHANGED cur
    BY <1>3 DEF Poll, GetAllMsg, ZInv, BatchInv
  <2>2. Queue' = inbox /\ Queue = inbox
    BY <1>1, <2>1, ConcatEmptySeq DEF Queue
  <2> QED BY <2>1, <2>2
<1>4. CASE DealMsg
  <2>1. batch # <<>> /\ cur' = Head(batch) /\ batch' = Tail(batch) /\ UNCHANGED inbox
    BY <1>4 DEF DealMsg, ZInv, MainTypeOK, netVars
  <2>2. Queue # <<>> /\ cur' = Head(Queue) /\ Queue' = Tail(Queue)
    BY <1>1, <2>1, ConcatTail DEF Queue
  <2> QED BY <2>2 DEF Handover!Next, Handover!Take
<1>5. CASE \E s \in Session : IoRead(s)
  <2>1. PICK s \in Session : Handle_Read(s) /\ UNCHANGED <<batch, cur>>
    BY <1>5 DEF IoRead, Beside
  <2>2. PICK chunk : inbox' = Append(inbox, [src |-> s, m_iSessionID |-> m_iID[s], chunk |-> chunk])
    BY <2>1 DEF Handle_Read, Handle_ReadData, Handle_ReadError, Push
  <2> DEFINE msg == [src |-> s, m_iSessionID |-> m_iID[s], chunk |-> chunk]
  <2>3. msg \in Message
    <3> HIDE DEF msg
    <3>1. Len(inbox) \in Nat /\ Len(inbox') = Len(inbox) + 1 /\ inbox'[Len(inbox) + 1] = msg
      BY <1>1, <2>2, LenProperties DEF msg
    <3> QED BY <1>1, <3>1, ElementOfSeq
  <2> HIDE DEF msg
  <2>4. Queue' = batch \o Append(inbox, msg)
    BY <2>1, <2>2 DEF Queue, msg
  <2>5. /\ Len(Queue') = Len(Queue) + 1
        /\ SubSeq(Queue', 1, Len(Queue)) = Queue
        /\ Queue'[Len(Queue')] = msg
    BY <1>1, <2>3, <2>4, ConcatAppend, SMTT(20) DEF Queue
  <2> QED BY <2>1, <2>3, <2>5 DEF Handover!Next, Handover!Put
<1>6. [Next]_vars => \/ UNCHANGED <<batch, cur, inbox>> \/ Poll \/ DealMsg
                     \/ \E s \in Session : IoRead(s)
  BY DEF Next, MainThread, Start, AcceptConnect, DealFault, SendLookup, SendDone, Write,
         SendMiss, SendThrow, SendRace, Die, IoAccept, Peers, PeerReads, Beside, Handle_accept, PeerSend,
         PeerClose, Halted, vars, netVars, mainVars
<1> QED BY <1>2, <1>3, <1>4, <1>5, <1>6

\* The hand-over from Handle_Read through GetAllMsg to DealMsg is a mailbox:
\* no message is lost, repeated or overtaken.
THEOREM HandoverRefines == Spec => HandoverIsMailbox
<1>1. Init => Handover!Init
  <2> SUFFICES ASSUME Init PROVE Queue = <<>> /\ cur = NoMessage
    BY DEF Handover!Init
  <2> QED BY ConcatEmptySeq, EmptySeq DEF Init, NetInit, Queue
<1> QED BY <1>1, Invariance, HandoverStep, PTL DEF Spec, HandoverIsMailbox, Handover!Spec

-----------------------------------------------------------------------------
(***************************************************************************)
(* Answers come in the order of the requests.  A request is first on the   *)
(* wire, then in the queue, then dealt with, then answered; each of these  *)
(* places is in order and comes before the ones that follow.               *)
(***************************************************************************)

\* Of a stream of cuts: the heads come in the order of their requests.
Ordered(w) == \A i, j \in 1 .. Len(w) : i < j /\ w[j].part = "head" => w[i].n < w[j].n

\* Every request that begins in the stream w comes after the request n.
Beyond(w, n) == \A i \in 1 .. Len(w) : w[i].part = "head" => n < w[i].n

\* Every request of session s not yet dealt with comes after the request n.
Later(s, n) ==
  /\ Beyond(wire[s], n)
  /\ \A i \in 1 .. Len(Queue) :
       Queue[i].src = s /\ Index(Queue[i]) # 0 => n < Index(Queue[i])

\* Requests wait in the order they were sent, first in the queue, then on the wire.
StreamInv ==
  /\ \A s \in Session : Ordered(wire[s])
  /\ \A i \in 1 .. Len(Queue) : Beyond(wire[Queue[i].src], Index(Queue[i]))
  /\ \A i, j \in 1 .. Len(Queue) :
       i < j /\ Queue[i].src = Queue[j].src /\ Index(Queue[j]) # 0
         => Index(Queue[i]) < Index(Queue[j])

\* What has been taken or answered comes before what waits.
TakenInv ==
  /\ cur # NoMessage => Later(cur.src, Index(cur))
  /\ \A s \in Session : \A j \in 1 .. Len(replies[s]) :
       replies[s][j].src = s => Later(s, replies[s][j].n)

\* The request being answered is the one that was asked, and no later one has an answer.
DealtInv ==
  main \in {"send", "write"} /\ Index(cur) # 0 =>
    /\ Index(cur) \in 1 .. Len(asked[cur.src])
    /\ dealt = asked[cur.src][Index(cur)]
    /\ \A j \in 1 .. Len(replies[cur.src]) :
         replies[cur.src][j].src = cur.src => replies[cur.src][j].n < Index(cur)

OrderInv == StreamInv /\ TakenInv /\ DealtInv /\ AnswersInOrder

\* What waits in the queue are tagged messages.
LEMMA QueueType ==
  ASSUME ZInv
  PROVE  Queue \in Seq(Message) /\ \A i \in 1 .. Len(Queue) : Tagged(Queue[i])
<1> DEFINE inbox == m_vecAllClientMsg
<1>1. batch \in Seq(Message) /\ inbox \in Seq(Message)
  BY DEF ZInv, NetInv, NetTypeOK, MainTypeOK
<1>2. /\ \A i \in 1 .. Len(batch) : Tagged(batch[i])
      /\ \A i \in 1 .. Len(inbox) : Tagged(inbox[i])
  BY DEF ZInv, HeldInv, MsgInv, InboxInv
<1>3. /\ Queue \in Seq(Message) /\ Len(Queue) = Len(batch) + Len(inbox)
      /\ \A i \in 1 .. Len(batch) + Len(inbox) :
           Queue[i] = IF i <= Len(batch) THEN batch[i] ELSE inbox[i - Len(batch)]
      /\ Len(batch) \in Nat /\ Len(inbox) \in Nat
  BY <1>1, ConcatProperties, LenProperties DEF Queue
<1> HIDE DEF inbox
<1>4. ASSUME NEW i \in 1 .. Len(Queue) PROVE Tagged(Queue[i])
  <2>1. CASE i <= Len(batch)
    <3>1. i \in 1 .. Len(batch) /\ Queue[i] = batch[i]
      BY <1>3, <2>1
    <3> QED BY <1>2, <3>1
  <2>2. CASE ~(i <= Len(batch))
    <3>1. i - Len(batch) \in 1 .. Len(inbox) /\ Queue[i] = inbox[i - Len(batch)]
      BY <1>3, <2>2
    <3> QED BY <1>2, <3>1
  <2> QED BY <2>1, <2>2
<1> QED BY <1>3, <1>4

\* A well-framed message starts with a request that was asked, and is parsed as it.
LEMMA IndexKnown ==
  ASSUME NetInv, NEW msg \in Message, Tagged(msg)
  PROVE  /\ Index(msg) \in 0 .. Len(asked[msg.src])
         /\ Index(msg) # 0 => Parse(msg) = {asked[msg.src][Index(msg)]}
<1>1. msg.src \in Session /\ msg.chunk \in Seq(Fragment) /\ Known(msg.src, msg.chunk)
  BY DEF Message, Tagged
<1>2. Len(asked[msg.src]) \in Nat
  BY <1>1, LenProperties DEF NetInv, NetTypeOK
<1>3. CASE IsWhole(msg)
  <2>1. Len(msg.chunk) \in Nat /\ Len(msg.chunk) > 1
    BY <1>1, <1>3, LenProperties DEF IsWhole
  <2>2. msg.chunk[1].n \in 1 .. Len(asked[msg.src])
    BY <1>1, <2>1 DEF Known
  <2> QED BY <1>2, <1>3, <2>2 DEF Index, Parse, IsWhole
<1>4. CASE ~IsWhole(msg)
  BY <1>2, <1>4 DEF Index
<1> QED BY <1>3, <1>4

\* A request written behind the stream keeps its order.
LEMMA OrderedSent ==
  ASSUME NEW w \in Seq(Fragment), NEW k \in Nat, \A i \in 1 .. Len(w) : w[i].n \in 1 .. k,
         NEW two, two = <<[n |-> k + 1, part |-> "head"], [n |-> k + 1, part |-> "body"]>>
  PROVE  /\ Ordered(w) => Ordered(w \o two)
         /\ \A n \in 0 .. k : Beyond(w, n) => Beyond(w \o two, n)
<1>1. [n |-> k + 1, part |-> "head"] \in Fragment /\ [n |-> k + 1, part |-> "body"] \in Fragment
  BY DEF Fragment
<1>2. /\ two \in Seq(Fragment) /\ Len(two) = 2
      /\ two[1] = [n |-> k + 1, part |-> "head"] /\ two[2] = [n |-> k + 1, part |-> "body"]
  BY <1>1
<1>3. /\ Len(w \o two) = Len(w) + 2 /\ Len(w) \in Nat
      /\ \A i \in 1 .. Len(w) : (w \o two)[i] = w[i]
      /\ (w \o two)[Len(w) + 1] = two[1] /\ (w \o two)[Len(w) + 2] = two[2]
  <2>1. /\ Len(w \o two) = Len(w) + Len(two) /\ Len(w) \in Nat
        /\ \A i \in 1 .. Len(w) + Len(two) :
             (w \o two)[i] = IF i <= Len(w) THEN w[i] ELSE two[i - Len(w)]
    BY <1>2, ConcatProperties, LenProperties
  <2> QED BY <1>2, <2>1
<1> DEFINE z == w \o two
<1>4. /\ \A i \in 1 .. Len(w) : z[i] = w[i] /\ z[i].n \in 1 .. k
      /\ z[Len(w) + 1].n = k + 1 /\ z[Len(w) + 2].part = "body"
  BY <1>2, <1>3
<1>5. Len(z) = Len(w) + 2 /\ Len(w) \in Nat
  BY <1>3
<1> HIDE DEF z
<1>6. Ordered(w) => Ordered(z)
  <2> SUFFICES ASSUME Ordered(w), NEW i \in 1 .. Len(z), NEW j \in 1 .. Len(z),
                      i < j, z[j].part = "head"
               PROVE  z[i].n < z[j].n
    BY DEF Ordered
  <2>1. j # Len(w) + 2 /\ i \in 1 .. Len(w) /\ z[i].n = w[i].n /\ w[i].n \in 1 .. k
    BY <1>4, <1>5
  <2>2. CASE j = Len(w) + 1
    BY <1>4, <2>1, <2>2
  <2>3. CASE j \in 1 .. Len(w)
    BY <1>4, <2>1, <2>3 DEF Ordered
  <2>4. j = Len(w) + 1 \/ j \in 1 .. Len(w)
    BY <1>5, <2>1
  <2> QED BY <2>2, <2>3, <2>4
<1>7. ASSUME NEW n \in 0 .. k, Beyond(w, n) PROVE Beyond(z, n)
  <2> SUFFICES ASSUME NEW i \in 1 .. Len(z), z[i].part = "head" PROVE n < z[i].n
    BY DEF Beyond
  <2>1. i # Len(w) + 2
    BY <1>4
  <2>2. CASE i = Len(w) + 1
    BY <1>4, <2>2
  <2>3. CASE i \in 1 .. Len(w)
    BY <1>4, <1>7, <2>3 DEF Beyond
  <2>4. i = Len(w) + 1 \/ i \in 1 .. Len(w)
    BY <1>5, <2>1
  <2> QED BY <2>2, <2>3, <2>4
<1> QED BY <1>6, <1>7 DEF z

\* A read takes a prefix of the stream; what it starts with comes before the rest.
LEMMA OrderedRead ==
  ASSUME NEW w \in Seq(Fragment), NEW len \in 1 .. Len(w),
         NEW rest, rest = SubSeq(w, len + 1, Len(w)),
         NEW msg, msg.chunk = SubSeq(w, 1, len)
  PROVE  /\ \A n \in Nat : Beyond(w, n) => Beyond(rest, n)
         /\ Ordered(w) => Ordered(rest) /\ Beyond(rest, Index(msg))
         /\ \A n \in Nat : Beyond(w, n) /\ Index(msg) # 0 => n < Index(msg)
<1>1. Len(w) \in Nat /\ \A i \in 1 .. Len(w) : w[i] \in Fragment
  BY LenProperties, ElementOfSeq
<1>2. /\ Len(rest) = Len(w) - len
      /\ \A i \in 1 .. Len(rest) : rest[i] = w[len + i]
  <2>1. \A i \in len + 1 .. Len(w) : w[i] \in Fragment
    BY <1>1
  <2>2. /\ Len(rest) = IF len + 1 <= Len(w) THEN Len(w) - (len + 1) + 1 ELSE 0
        /\ \A i \in 1 .. Len(w) - (len + 1) + 1 : rest[i] = w[len + 1 + i - 1]
    BY <1>1, <2>1, SubSeqProperties
  <2> QED BY <1>1, <2>2
<1>3. msg.chunk # <<>> /\ msg.chunk[1] = w[1]
  <2>1. \A i \in 1 .. len : w[i] \in Fragment
    BY <1>1
  <2>2. /\ Len(msg.chunk) = IF 1 <= len THEN len - 1 + 1 ELSE 0
        /\ \A i \in 1 .. len - 1 + 1 : msg.chunk[i] = w[1 + i - 1]
    BY <1>1, <2>1, SubSeqProperties
  <2>3. Len(msg.chunk) = len /\ msg.chunk[1] = w[1]
    BY <1>1, <2>2
  <2> QED BY <2>3, EmptySeq
<1>4. /\ 1 \in 1 .. Len(w) /\ \A i \in 1 .. Len(w) : w[i].n \in Nat \ {0}
      /\ Index(msg) = 0 \/ (w[1].part = "head" /\ Index(msg) = w[1].n)
  <2>1. \A f \in Fragment : f.n \in Nat \ {0}
    BY DEF Fragment
  <2>2. 1 \in 1 .. Len(w) /\ \A i \in 1 .. Len(w) : w[i].n \in Nat \ {0}
    BY <1>1, <2>1
  <2>3. Index(msg) = 0 \/ (w[1].part = "head" /\ Index(msg) = w[1].n)
    BY <1>3 DEF Index, IsWhole, HasHeader
  <2> QED BY <2>2, <2>3
<1>5. \A n \in Nat : Beyond(w, n) => Beyond(rest, n)
  BY <1>1, <1>2 DEF Beyond
<1>6. Ordered(w) => Ordered(rest)
  BY <1>1, <1>2 DEF Ordered
<1>7. Ordered(w) => Beyond(rest, Index(msg))
  BY <1>1, <1>2, <1>4 DEF Ordered, Beyond
<1>8. \A n \in Nat : Beyond(w, n) /\ Index(msg) # 0 => n < Index(msg)
  BY <1>4 DEF Beyond
<1> QED BY <1>5, <1>6, <1>7, <1>8

-----------------------------------------------------------------------------
(***************************************************************************)
(* The kinds of steps, as far as order is concerned.                       *)
(***************************************************************************)

\* A peer sends its next request.
AskStep(s, r) ==
  /\ asked' = [asked EXCEPT ![s] = Append(@, r)]
  /\ wire' = [wire EXCEPT ![s] = @ \o <<[n |-> Len(asked[s]) + 1, part |-> "head"],
                                        [n |-> Len(asked[s]) + 1, part |-> "body"]>>]
  /\ UNCHANGED <<Queue, cur, replies, main, dealt>>

\* A read of session s puts msg into the queue and leaves the rest on the wire.
ReadStep(s, msg, rest) ==
  /\ msg.src = s
  /\ Queue' = Append(Queue, msg)
  /\ wire' = [wire EXCEPT ![s] = rest]
  /\ Ordered(wire[s]) => Ordered(rest) /\ Beyond(rest, Index(msg))
  /\ \A n \in Nat : Beyond(wire[s], n) =>
       Beyond(rest, n) /\ (Index(msg) # 0 => n < Index(msg))
  /\ UNCHANGED <<asked, cur, replies, main, dealt>>

\* The main thread takes the oldest message and reads it as a request.
TakeStep ==
  /\ Queue # <<>> /\ cur' = Head(Queue) /\ Queue' = Tail(Queue)
  /\ \E r \in Parse(Head(Queue)) : main' \in {"send", "write"} => dealt' = r
  /\ UNCHANGED <<wire, asked, replies>>

\* Nothing moves.
StillStep ==
  /\ main' \in {"send", "write"} => main \in {"send", "write"} /\ UNCHANGED dealt
  /\ UNCHANGED <<Queue, wire, asked, cur, replies>>

\* What a read does to the queue and the wire.
LEMMA ReadKind ==
  ASSUME ZInv, NEW s \in Session, Handle_Read(s),
         UNCHANGED <<batch, cur, main, dealt>>
  PROVE  \E msg \in Message, rest \in Seq(Fragment) : ReadStep(s, msg, rest)
<1> DEFINE inbox == m_vecAllClientMsg
           m(chunk) == [src |-> s, m_iSessionID |-> m_iID[s], chunk |-> chunk]
<1>1. /\ inbox \in Seq(Message) /\ batch \in Seq(Message) /\ inbox' \in Seq(Message)
      /\ wire \in [Session -> Seq(Fragment)]
  <2>1. [NetNext]_netVars
    BY DEF NetNext
  <2>2. NetInv'
    BY <2>1, NetStepInv DEF ZInv
  <2> QED BY <2>2 DEF ZInv, NetInv, NetTypeOK, MainTypeOK
<1>2. ASSUME NEW chunk, Push(s, chunk)
      PROVE  m(chunk) \in Message /\ Queue' = Append(Queue, m(chunk))
  <2>1. inbox' = Append(inbox, m(chunk))
    BY <1>2 DEF Push
  <2> HIDE DEF m
  <2>2. m(chunk) \in Message
    <3>1. Len(inbox) \in Nat /\ Len(inbox') = Len(inbox) + 1 /\ inbox'[Len(inbox) + 1] = m(chunk)
      BY <1>1, <2>1, LenProperties
    <3> QED BY <1>1, <3>1, ElementOfSeq
  <2>3. batch \o Append(inbox, m(chunk)) = Append(batch \o inbox, m(chunk))
    BY <1>1, <2>2, AppendToConcat
  <2> QED BY <2>1, <2>2, <2>3 DEF Queue
<1>3. CASE Handle_ReadData(s)
  <2>1. PICK len \in 1 .. Len(wire[s]) :
          /\ Push(s, SubSeq(wire[s], 1, len))
          /\ wire' = [wire EXCEPT ![s] = SubSeq(@, len + 1, Len(@))]
          /\ UNCHANGED <<asked, replies>>
    BY <1>3 DEF Handle_ReadData
  <2> DEFINE w    == wire[s]
             msg  == m(SubSeq(w, 1, len))
             rest == SubSeq(w, len + 1, Len(w))
  <2>2. w \in Seq(Fragment) /\ len \in 1 .. Len(w) /\ Len(w) \in Nat
    BY <1>1, LenProperties
  <2>3. rest \in Seq(Fragment)
    <3>1. \A i \in len + 1 .. Len(w) : w[i] \in Fragment
      BY <2>2, ElementOfSeq
    <3> QED BY <2>2, <3>1, SubSeqProperties
  <2>4. msg \in Message /\ Queue' = Append(Queue, msg) /\ msg.src = s
        /\ msg.chunk = SubSeq(w, 1, len)
    BY <1>2, <2>1
  <2>5. wire' = [wire EXCEPT ![s] = rest]
    BY <1>1, <2>1
  <2> HIDE DEF w, msg, rest
  <2>6. /\ \A n \in Nat : Beyond(w, n) => Beyond(rest, n)
        /\ Ordered(w) => Ordered(rest) /\ Beyond(rest, Index(msg))
        /\ \A n \in Nat : Beyond(w, n) /\ Index(msg) # 0 => n < Index(msg)
    BY <2>2, <2>4, OrderedRead DEF rest
  <2>7. ReadStep(s, msg, rest)
    BY <2>1, <2>4, <2>5, <2>6 DEF ReadStep, w
  <2> QED BY <2>3, <2>4, <2>7
<1>4. CASE Handle_ReadError(s)
  <2>1. Push(s, <<>>) /\ wire' = [wire EXCEPT ![s] = <<>>] /\ UNCHANGED <<asked, replies>>
    BY <1>4 DEF Handle_ReadError
  <2> DEFINE msg == m(<<>>)
  <2>2. msg \in Message /\ Queue' = Append(Queue, msg) /\ msg.src = s /\ Index(msg) = 0
    BY <1>2, <2>1 DEF Index, IsWhole, HasHeader
  <2>3. <<>> \in Seq(Fragment) /\ Len(<<>>) = 0
    BY EmptySeq
  <2>4. Ordered(<<>>) /\ \A n \in Nat : Beyond(<<>>, n)
    BY <2>3 DEF Ordered, Beyond
  <2> HIDE DEF msg
  <2>5. ReadStep(s, msg, <<>>)
    BY <2>1, <2>2, <2>4 DEF ReadStep
  <2> QED BY <2>2, <2>3, <2>5
<1> QED BY <1>3, <1>4 DEF Handle_Read

\* Every step of the server is of one of these kinds.
LEMMA Kinds ==
  ASSUME ZInv, [Next]_vars
  PROVE  \/ \E s \in Session, r \in Request : AskStep(s, r)
         \/ \E s \in Session, msg \in Message, rest \in Seq(Fragment) : ReadStep(s, msg, rest)
         \/ TakeStep
         \/ SendDone
         \/ StillStep
<1> DEFINE inbox == m_vecAllClientMsg
<1>1. batch \in Seq(Message) /\ inbox \in Seq(Message) /\ inbox' \in Seq(Message)
  BY NetworkPart DEF ZInv, NetInv, NetTypeOK, MainTypeOK
<1>2. CASE Poll
  <2>1. batch = <<>> /\ batch' = inbox /\ inbox' = <<>>
        /\ UNCHANGED <<cur, wire, asked, replies>> /\ main' \in {"poll", "deal"}
    BY <1>2 DEF Poll, Resume, GetAllMsg, ZInv, BatchInv, peerVars
  <2>2. Queue' = Queue
    BY <1>1, <2>1, ConcatEmptySeq DEF Queue
  <2> QED BY <2>1, <2>2 DEF StillStep
<1>3. CASE DealMsg
  <2>1. batch # <<>> /\ cur' = Head(batch) /\ batch' = Tail(batch)
        /\ UNCHANGED <<inbox, wire, asked, replies>>
    BY <1>3 DEF DealMsg, ZInv, MainTypeOK, netVars, peerVars
  <2>2. Queue # <<>> /\ Head(Queue) = Head(batch) /\ Queue' = Tail(Queue)
    BY <1>1, <2>1, ConcatTail DEF Queue
  <2>3. \E r \in Parse(Head(batch)) : main' \in {"send", "write"} => dealt' = r
    BY <1>3 DEF DealMsg, Resume
  <2> QED BY <2>1, <2>2, <2>3 DEF TakeStep
<1>4. CASE \E s \in Session : IoRead(s)
  <2>1. PICK s \in Session : Handle_Read(s) /\ UNCHANGED <<batch, cur, main, dealt>>
    BY <1>4 DEF IoRead, Beside
  <2> QED BY <2>1, ReadKind
<1>5. CASE Peers
  <2>1. CASE \E s \in Session : Beside(PeerClose(s))
    <3>1. UNCHANGED <<batch, inbox, wire, asked, cur, replies, main, dealt>>
      BY <2>1 DEF Beside, PeerClose
    <3> QED BY <3>1 DEF StillStep, Queue
  <2>2. CASE \E s \in Session, r \in PeerRequest : Beside(PeerSend(s, r))
    <3>1. PICK s \in Session, r \in Request : Beside(PeerSend(s, r))
      BY <2>2
    <3>2. UNCHANGED <<batch, inbox, cur, replies, main, dealt>>
      BY <3>1 DEF Beside, PeerSend
    <3>3. AskStep(s, r)
      BY <3>1, <3>2 DEF Beside, PeerSend, AskStep, Queue
    <3> QED BY <3>3
  <2> QED BY <1>5, <2>1, <2>2 DEF Peers, Beside
<1>6. CASE \/ Start \/ DealFault \/ SendLookup \/ SendMiss \/ SendThrow \/ SendRace
           \/ (\E s \in Session : PeerReads(s)) \/ IoAccept \/ Halted \/ UNCHANGED vars
  <2>1. UNCHANGED <<batch, inbox, wire, asked, cur, replies>>
    BY <1>6 DEF Start, AcceptConnect, DealFault, SendLookup, SendMiss, SendThrow, SendRace, Die,
                PeerReads, IoAccept, Beside, Handle_accept, Halted, vars, netVars, peerVars, mainVars
  <2>2. main' \in {"send", "write"} => main \in {"send", "write"} /\ UNCHANGED dealt
    BY <1>6 DEF Start, DealFault, SendLookup, SendMiss, SendThrow, SendRace, Die,
                PeerReads, IoAccept, Beside, Halted, vars, mainVars
  <2> QED BY <2>1, <2>2 DEF StillStep, Queue
<1> QED BY <1>2, <1>3, <1>4, <1>5, <1>6 DEF Next, MainThread

-----------------------------------------------------------------------------
\* Types the proofs about the order need.
LEMMA OrderTypes ==
  ASSUME ZInv
  PROVE  /\ Queue \in Seq(Message) /\ Len(Queue) \in Nat
         /\ \A i \in 1 .. Len(Queue) : /\ Queue[i] \in Message /\ Queue[i].src \in Session
                                       /\ Index(Queue[i]) \in 0 .. Len(asked[Queue[i].src])
         /\ \A s \in Session : /\ wire[s] \in Seq(Fragment) /\ Len(asked[s]) \in Nat
                               /\ \A i \in 1 .. Len(wire[s]) : wire[s][i].n \in 1 .. Len(asked[s])
         /\ wire \in [Session -> Seq(Fragment)] /\ asked \in [Session -> Seq(Request)]
         /\ replies \in [Session -> Seq([src : Session, n : Nat, ans : Answer])]
<1>1. Queue \in Seq(Message) /\ Len(Queue) \in Nat /\ \A i \in 1 .. Len(Queue) : Tagged(Queue[i])
  BY QueueType, LenProperties
<1>2. \A i \in 1 .. Len(Queue) : Queue[i] \in Message
  BY <1>1, ElementOfSeq
<1>3. \A i \in 1 .. Len(Queue) : /\ Queue[i].src \in Session
                                 /\ Index(Queue[i]) \in 0 .. Len(asked[Queue[i].src])
  BY <1>1, <1>2, IndexKnown DEF ZInv, Message
<1>4. /\ wire \in [Session -> Seq(Fragment)] /\ asked \in [Session -> Seq(Request)]
      /\ replies \in [Session -> Seq([src : Session, n : Nat, ans : Answer])]
  BY DEF ZInv, NetInv, NetTypeOK
<1>5. \A s \in Session : \A i \in 1 .. Len(wire[s]) : wire[s][i].n \in 1 .. Len(asked[s])
  BY DEF ZInv, MsgInv, WireInv, Known
<1>6. \A s \in Session : Len(asked[s]) \in Nat
  BY <1>4, LenProperties
<1> QED BY <1>1, <1>2, <1>3, <1>4, <1>5, <1>6

\* What a request number comes before, it comes before after any step.
LEMMA LaterStays ==
  ASSUME ZInv, [Next]_vars, NEW s \in Session, NEW n \in 0 .. Len(asked[s]), Later(s, n)
  PROVE  Later(s, n)'
<1>1. /\ Queue \in Seq(Message) /\ Len(Queue) \in Nat
      /\ wire \in [Session -> Seq(Fragment)] /\ Len(asked[s]) \in Nat /\ n \in Nat
      /\ \A i \in 1 .. Len(wire[s]) : wire[s][i].n \in 1 .. Len(asked[s])
  <2>1. Len(asked[s]) \in Nat
    BY OrderTypes
  <2>2. n \in Nat
    BY <2>1
  <2> QED BY <2>1, <2>2, OrderTypes
<1>2. /\ Beyond(wire[s], n)
      /\ \A i \in 1 .. Len(Queue) :
           Queue[i].src = s /\ Index(Queue[i]) # 0 => n < Index(Queue[i])
  BY DEF Later
<1>3. ASSUME Beyond(wire'[s], n),
             \A i \in 1 .. Len(Queue') :
               Queue'[i].src = s /\ Index(Queue'[i]) # 0 => n < Index(Queue'[i])
      PROVE  Later(s, n)'
  BY <1>3 DEF Later
<1>4. CASE UNCHANGED <<Queue, wire>>
  BY <1>2, <1>3, <1>4
<1>5. CASE \E t \in Session, r \in Request : AskStep(t, r)
  <2>1. PICK t \in Session, r \in Request : AskStep(t, r)
    BY <1>5
  <2>2. CASE t # s
    <3>1. wire'[s] = wire[s] /\ UNCHANGED Queue
      BY <1>1, <2>1, <2>2 DEF AskStep
    <3> QED BY <1>2, <1>3, <3>1
  <2>3. CASE t = s
    <3> DEFINE k   == Len(asked[s])
               two == <<[n |-> k + 1, part |-> "head"], [n |-> k + 1, part |-> "body"]>>
    <3>1. wire'[s] = wire[s] \o two /\ UNCHANGED Queue
      BY <1>1, <2>1, <2>3 DEF AskStep
    <3>2. wire[s] \in Seq(Fragment) /\ k \in Nat /\ n \in 0 .. k
      BY <1>1
    <3>3. PICK q : q = two
      OBVIOUS
    <3>4. Beyond(wire[s] \o q, n)
      BY <1>1, <1>2, <3>2, <3>3, OrderedSent
    <3> HIDE DEF two
    <3> QED BY <1>2, <1>3, <3>1, <3>3, <3>4
  <2> QED BY <2>2, <2>3
<1>6. CASE \E t \in Session, msg \in Message, rest \in Seq(Fragment) : ReadStep(t, msg, rest)
  <2>1. PICK t \in Session, msg \in Message, rest \in Seq(Fragment) : ReadStep(t, msg, rest)
    BY <1>6
  <2>2. /\ msg.src = t /\ Queue' = Append(Queue, msg) /\ wire' = [wire EXCEPT ![t] = rest]
        /\ Beyond(wire[t], n) => Beyond(rest, n) /\ (Index(msg) # 0 => n < Index(msg))
    BY <1>1, <2>1 DEF ReadStep
  <2>3. Beyond(wire'[s], n)
    BY <1>1, <1>2, <2>2
  <2>4. /\ Len(Queue') = Len(Queue) + 1 /\ Queue'[Len(Queue) + 1] = msg
        /\ \A i \in 1 .. Len(Queue) : Queue'[i] = Queue[i]
    BY <1>1, <2>2, AppendProperties
  <2>5. ASSUME NEW i \in 1 .. Len(Queue'), Queue'[i].src = s, Index(Queue'[i]) # 0
        PROVE  n < Index(Queue'[i])
    <3>1. CASE i \in 1 .. Len(Queue)
      BY <1>2, <2>4, <2>5, <3>1
    <3>2. CASE i = Len(Queue) + 1
      BY <1>2, <2>2, <2>4, <2>5, <3>2
    <3> QED BY <1>1, <2>4, <3>1, <3>2
  <2> QED BY <1>3, <2>3, <2>5
<1>7. CASE TakeStep
  <2>1. Queue # <<>> /\ Queue' = Tail(Queue) /\ wire' = wire
    BY <1>7 DEF TakeStep
  <2>2. Len(Queue') = Len(Queue) - 1 /\ \A i \in 1 .. Len(Queue') : Queue'[i] = Queue[i + 1]
    BY <1>1, <2>1, HeadTailProperties
  <2>3. \A i \in 1 .. Len(Queue') : i + 1 \in 1 .. Len(Queue)
    BY <1>1, <2>2
  <2> QED BY <1>2, <1>3, <2>1, <2>2, <2>3
<1>8. SendDone \/ StillStep => UNCHANGED <<Queue, wire>>
  BY DEF SendDone, Write, peerVars, StillStep, Queue
<1> QED BY <1>4, <1>5, <1>6, <1>7, <1>8, Kinds

\* Requests wait in order.
LEMMA StreamStep ==
  ASSUME ZInv, StreamInv, [Next]_vars
  PROVE  StreamInv'
<1>1. /\ Queue \in Seq(Message) /\ Len(Queue) \in Nat
      /\ \A i \in 1 .. Len(Queue) : /\ Queue[i] \in Message /\ Queue[i].src \in Session
                                    /\ Index(Queue[i]) \in 0 .. Len(asked[Queue[i].src])
      /\ \A s \in Session : /\ wire[s] \in Seq(Fragment) /\ Len(asked[s]) \in Nat
                            /\ \A i \in 1 .. Len(wire[s]) : wire[s][i].n \in 1 .. Len(asked[s])
      /\ wire \in [Session -> Seq(Fragment)]
  BY OrderTypes
<1>2. /\ \A s \in Session : Ordered(wire[s])
      /\ \A i \in 1 .. Len(Queue) : Beyond(wire[Queue[i].src], Index(Queue[i]))
      /\ \A i, j \in 1 .. Len(Queue) :
           i < j /\ Queue[i].src = Queue[j].src /\ Index(Queue[j]) # 0
             => Index(Queue[i]) < Index(Queue[j])
  BY DEF StreamInv
<1>3. ASSUME \A s \in Session : Ordered(wire'[s]),
             \A i \in 1 .. Len(Queue') : Beyond(wire'[Queue'[i].src], Index(Queue'[i])),
             \A i, j \in 1 .. Len(Queue') :
               i < j /\ Queue'[i].src = Queue'[j].src /\ Index(Queue'[j]) # 0
                 => Index(Queue'[i]) < Index(Queue'[j])
      PROVE  StreamInv'
  BY <1>3 DEF StreamInv
<1>4. CASE UNCHANGED <<Queue, wire>>
  BY <1>2, <1>3, <1>4
<1>5. CASE \E t \in Session, r \in Request : AskStep(t, r)
  <2>1. PICK t \in Session, r \in Request : AskStep(t, r)
    BY <1>5
  <2> DEFINE k   == Len(asked[t])
             two == <<[n |-> k + 1, part |-> "head"], [n |-> k + 1, part |-> "body"]>>
  <2>2. PICK q : q = two
    OBVIOUS
  <2>3. wire' = [wire EXCEPT ![t] = @ \o q] /\ UNCHANGED Queue
    BY <2>1, <2>2 DEF AskStep
  <2>4. Ordered(wire[t]) => Ordered(wire[t] \o q)
    BY <1>1, <2>2, OrderedSent
  <2>5. \A n \in 0 .. k : Beyond(wire[t], n) => Beyond(wire[t] \o q, n)
    BY <1>1, <2>2, OrderedSent
  <2> HIDE DEF two
  <2>6. \A s \in Session : Ordered(wire'[s])
    BY <1>1, <1>2, <2>3, <2>4
  <2>7. \A i \in 1 .. Len(Queue) : Beyond(wire'[Queue[i].src], Index(Queue[i]))
    BY <1>1, <1>2, <2>3, <2>5
  <2> QED BY <1>2, <1>3, <2>3, <2>6, <2>7
<1>6. CASE \E t \in Session, msg \in Message, rest \in Seq(Fragment) : ReadStep(t, msg, rest)
  <2>1. PICK t \in Session, msg \in Message, rest \in Seq(Fragment) : ReadStep(t, msg, rest)
    BY <1>6
  <2>2. /\ msg.src = t /\ Queue' = Append(Queue, msg) /\ wire' = [wire EXCEPT ![t] = rest]
        /\ Ordered(wire[t]) => Ordered(rest) /\ Beyond(rest, Index(msg))
        /\ \A n \in Nat : Beyond(wire[t], n) => Beyond(rest, n) /\ (Index(msg) # 0 => n < Index(msg))
    BY <2>1 DEF ReadStep
  <2>3. /\ Len(Queue') = Len(Queue) + 1 /\ Queue'[Len(Queue) + 1] = msg
        /\ \A i \in 1 .. Len(Queue) : Queue'[i] = Queue[i]
    BY <1>1, <2>2, AppendProperties
  <2>4. \A i \in 1 .. Len(Queue) : Index(Queue[i]) \in Nat
    BY <1>1
  <2>5. \A s \in Session : Ordered(wire'[s])
    BY <1>1, <1>2, <2>2
  <2>6. ASSUME NEW i \in 1 .. Len(Queue') PROVE Beyond(wire'[Queue'[i].src], Index(Queue'[i]))
    <3>1. CASE i \in 1 .. Len(Queue)
      BY <1>1, <1>2, <2>2, <2>3, <2>4, <3>1
    <3>2. CASE i = Len(Queue) + 1
      BY <1>1, <1>2, <2>2, <2>3, <3>2
    <3> QED BY <1>1, <2>3, <3>1, <3>2
  <2>7. ASSUME NEW i \in 1 .. Len(Queue'), NEW j \in 1 .. Len(Queue'),
               i < j, Queue'[i].src = Queue'[j].src, Index(Queue'[j]) # 0
        PROVE  Index(Queue'[i]) < Index(Queue'[j])
    <3>1. CASE j \in 1 .. Len(Queue)
      <4>1. i \in 1 .. Len(Queue)
        BY <1>1, <2>3, <2>7, <3>1
      <4> QED BY <1>2, <2>3, <2>7, <3>1, <4>1
    <3>2. CASE j = Len(Queue) + 1
      <4>1. i \in 1 .. Len(Queue) /\ Queue'[i] = Queue[i] /\ Queue[i].src = t
        BY <1>1, <2>2, <2>3, <2>7, <3>2
      <4>2. Beyond(wire[t], Index(Queue[i])) /\ Index(Queue[i]) \in Nat
        BY <1>2, <2>4, <4>1
      <4> QED BY <2>2, <2>3, <2>7, <3>2, <4>1, <4>2
    <3> QED BY <1>1, <2>3, <3>1, <3>2
  <2> QED BY <1>3, <2>5, <2>6, <2>7
<1>7. CASE TakeStep
  <2>1. Queue # <<>> /\ Queue' = Tail(Queue) /\ wire' = wire
    BY <1>7 DEF TakeStep
  <2>2. Len(Queue') = Len(Queue) - 1 /\ \A i \in 1 .. Len(Queue') : Queue'[i] = Queue[i + 1]
    BY <1>1, <2>1, HeadTailProperties
  <2>3. \A i \in 1 .. Len(Queue') : i + 1 \in 1 .. Len(Queue)
    BY <1>1, <2>2
  <2>4. \A i \in 1 .. Len(Queue') : Beyond(wire'[Queue'[i].src], Index(Queue'[i]))
    BY <1>2, <2>1, <2>2, <2>3
  <2>5. ASSUME NEW i \in 1 .. Len(Queue'), NEW j \in 1 .. Len(Queue'),
               i < j, Queue'[i].src = Queue'[j].src, Index(Queue'[j]) # 0
        PROVE  Index(Queue'[i]) < Index(Queue'[j])
    <3>1. i + 1 < j + 1
      BY <2>5
    <3>2. Queue'[i] = Queue[i + 1] /\ Queue'[j] = Queue[j + 1]
          /\ i + 1 \in 1 .. Len(Queue) /\ j + 1 \in 1 .. Len(Queue)
      BY <2>2, <2>3
    <3> QED BY <1>2, <2>5, <3>1, <3>2
  <2> QED BY <1>2, <1>3, <2>1, <2>4, <2>5
<1>8. SendDone \/ StillStep => UNCHANGED <<Queue, wire>>
  BY DEF SendDone, Write, peerVars, StillStep, Queue
<1> QED BY <1>4, <1>5, <1>6, <1>7, <1>8, Kinds

\* What a completed write adds to the answers.
LEMMA SendDoneReplies ==
  ASSUME ZInv, SendDone
  PROVE  /\ target \in Session /\ cur \in Message /\ main = "write"
         /\ main' \notin {"send", "write"} /\ UNCHANGED <<Queue, wire, asked, cur>>
         /\ \A s \in Session : s # target => replies'[s] = replies[s]
         /\ Len(replies'[target]) = Len(replies[target]) + 1
         /\ \A i \in 1 .. Len(replies[target]) : replies'[target][i] = replies[target][i]
         /\ \E a \in AnswerTo(dealt) :
              replies'[target][Len(replies[target]) + 1] =
                [src |-> cur.src, n |-> Index(cur), ans |-> a]
<1>1. target \in Session /\ cur \in Message /\ dealt \in Request /\ main = "write"
  BY DEF SendDone, ZInv, MainTypeOK, Accepted
<1>2. main' \notin {"send", "write"} /\ UNCHANGED <<Queue, wire, asked, cur>>
  BY DEF SendDone, Write, Resume, peerVars, Queue
<1>3. PICK a \in AnswerTo(dealt) : Write(target, cur.src, Index(cur), a)
  BY DEF SendDone
<1> DEFINE Reply == [src : Session, n : Nat, ans : Answer]
           new   == [src |-> cur.src, n |-> Index(cur), ans |-> a]
<1>4. new \in Reply
  BY <1>1, <1>3, IndexType, AnswerType DEF Message
<1>5. replies \in [Session -> Seq(Reply)] /\ replies' = [replies EXCEPT ![target] = Append(@, new)]
  BY <1>3, OrderTypes DEF Write
<1> HIDE DEF Reply, new
<1>6. replies[target] \in Seq(Reply) /\ replies'[target] = Append(replies[target], new)
  BY <1>1, <1>5
<1>7. /\ Len(replies'[target]) = Len(replies[target]) + 1
      /\ \A i \in 1 .. Len(replies[target]) : replies'[target][i] = replies[target][i]
      /\ replies'[target][Len(replies[target]) + 1] = new
  BY <1>4, <1>6, AppendProperties
<1>8. \A s \in Session : s # target => replies'[s] = replies[s]
  BY <1>1, <1>5
<1> QED BY <1>1, <1>2, <1>3, <1>7, <1>8 DEF new

\* The numbers of the answers are numbers of requests.
LEMMA AnswerKnown ==
  ASSUME ZInv, AnswersInOrder, NEW s \in Session, NEW j \in 1 .. Len(replies[s]),
         replies[s][j].src = s
  PROVE  replies[s][j].n \in 0 .. Len(asked[s])
<1>1. /\ replies[s] \in Seq([src : Session, n : Nat, ans : Answer])
      /\ asked[s] \in Seq(Request)
  BY OrderTypes
<1>2. /\ DOMAIN replies[s] = 1 .. Len(replies[s]) /\ DOMAIN asked[s] = 1 .. Len(asked[s])
      /\ Len(asked[s]) \in Nat
  BY <1>1, LenProperties
<1>3. replies[s][j].n # 0 => replies[s][j].n \in 1 .. Len(asked[s])
  BY <1>2 DEF AnswersInOrder
<1> QED BY <1>2, <1>3

\* What has been taken or answered stays before what waits.
LEMMA TakenStep ==
  ASSUME ZInv, OrderInv, [Next]_vars
  PROVE  TakenInv'
<1>1. StreamInv /\ TakenInv /\ AnswersInOrder
  BY DEF OrderInv
<1>2. ASSUME NEW s \in Session, NEW n \in 0 .. Len(asked[s]), Later(s, n)
      PROVE  Later(s, n)'
  BY <1>2, LaterStays
<1>3. CASE TakeStep
  <2>1. Queue # <<>> /\ cur' = Head(Queue) /\ Queue' = Tail(Queue) /\ UNCHANGED <<wire, asked, replies>>
    BY <1>3 DEF TakeStep
  <2>2. Queue \in Seq(Message) /\ Len(Queue) \in Nat
    BY OrderTypes
  <2>3. /\ Len(Queue') = Len(Queue) - 1 /\ \A i \in 1 .. Len(Queue') : Queue'[i] = Queue[i + 1]
        /\ cur' = Queue[1] /\ 1 \in 1 .. Len(Queue)
    BY <2>1, <2>2, HeadTailProperties, EmptySeq
  <2>4. \A i \in 1 .. Len(Queue') : i + 1 \in 1 .. Len(Queue) /\ 1 < i + 1
    BY <2>2, <2>3
  <2>5. Beyond(wire'[cur'.src], Index(cur'))
    BY <1>1, <2>1, <2>3 DEF StreamInv
  <2>6. \A i \in 1 .. Len(Queue') :
          Queue'[i].src = cur'.src /\ Index(Queue'[i]) # 0 => Index(cur') < Index(Queue'[i])
    BY <1>1, <2>3, <2>4 DEF StreamInv
  <2>7. Later(cur.src, Index(cur))'
    BY <2>5, <2>6 DEF Later
  <2>8. ASSUME NEW s \in Session, NEW j \in 1 .. Len(replies'[s]), replies'[s][j].src = s
        PROVE  Later(s, replies[s][j].n)'
    <3>1. j \in 1 .. Len(replies[s]) /\ replies[s][j].src = s /\ replies'[s][j].n = replies[s][j].n
      BY <2>1, <2>8
    <3>2. PICK n : n = replies[s][j].n
      OBVIOUS
    <3>3. n \in 0 .. Len(asked[s]) /\ Later(s, n)
      BY <1>1, <3>1, <3>2, AnswerKnown DEF TakenInv
    <3>4. Later(s, n)'
      BY <1>2, <3>3
    <3> QED BY <3>1, <3>2, <3>4 DEF Later
  <2> QED BY <2>7, <2>8 DEF TakenInv
<1>4. ASSUME UNCHANGED cur, cur # NoMessage
      PROVE  Later(cur.src, Index(cur))'
  <2>1. cur \in Message /\ Tagged(cur)
    BY <1>4 DEF ZInv, MainTypeOK, HeldInv
  <2>2. PICK s, n : s = cur.src /\ n = Index(cur)
    OBVIOUS
  <2>3. s \in Session /\ n \in 0 .. Len(asked[s]) /\ Later(s, n)
    BY <1>1, <1>4, <2>1, <2>2, IndexKnown DEF TakenInv, ZInv, Message
  <2>4. Later(s, n)'
    BY <1>2, <2>3
  <2> QED BY <1>4, <2>2, <2>4 DEF Later
<1>5. CASE UNCHANGED <<cur, replies>>
  <2>1. ASSUME NEW s \in Session, NEW j \in 1 .. Len(replies'[s]), replies'[s][j].src = s
        PROVE  Later(s, replies[s][j].n)'
    <3>1. j \in 1 .. Len(replies[s]) /\ replies[s][j].src = s /\ replies'[s][j].n = replies[s][j].n
      BY <1>5, <2>1
    <3>2. PICK n : n = replies[s][j].n
      OBVIOUS
    <3>3. n \in 0 .. Len(asked[s]) /\ Later(s, n)
      BY <1>1, <3>1, <3>2, AnswerKnown DEF TakenInv
    <3>4. Later(s, n)'
      BY <1>2, <3>3
    <3> QED BY <3>1, <3>2, <3>4 DEF Later
  <2> QED BY <1>4, <1>5, <2>1 DEF TakenInv
<1>6. CASE SendDone
  <2>1. /\ target \in Session /\ cur \in Message /\ UNCHANGED cur
        /\ \A s \in Session : s # target => replies'[s] = replies[s]
        /\ Len(replies'[target]) = Len(replies[target]) + 1
        /\ \A i \in 1 .. Len(replies[target]) : replies'[target][i] = replies[target][i]
        /\ replies'[target][Len(replies[target]) + 1].src = cur.src
        /\ replies'[target][Len(replies[target]) + 1].n = Index(cur)
    <3>1. PICK a : replies'[target][Len(replies[target]) + 1] =
                     [src |-> cur.src, n |-> Index(cur), ans |-> a]
      BY <1>6, SendDoneReplies
    <3>2. /\ replies'[target][Len(replies[target]) + 1].src = cur.src
          /\ replies'[target][Len(replies[target]) + 1].n = Index(cur)
      BY <3>1
    <3> QED BY <1>6, <3>2, SendDoneReplies
  <2>2. Len(replies[target]) \in Nat
    BY <2>1, OrderTypes, LenProperties
  <2>3. cur # NoMessage
    BY <2>1, NoMessageIsNone
  <2>4. ASSUME NEW s \in Session, NEW j \in 1 .. Len(replies'[s]), replies'[s][j].src = s
        PROVE  Later(s, replies[s][j].n)'
    <3>1. CASE j \in 1 .. Len(replies[s]) /\ replies'[s][j] = replies[s][j]
      <4>1. PICK n : n = replies[s][j].n
        OBVIOUS
      <4>2. n \in 0 .. Len(asked[s]) /\ Later(s, n)
        BY <1>1, <2>4, <3>1, <4>1, AnswerKnown DEF TakenInv
      <4>3. Later(s, n)'
        BY <1>2, <4>2
      <4> QED BY <3>1, <4>1, <4>3 DEF Later
    <3>2. CASE s = target /\ j = Len(replies[s]) + 1
      <4>1. s = cur.src /\ replies'[s][j].n = Index(cur)
        BY <2>1, <2>4, <3>2
      <4>2. Later(cur.src, Index(cur))'
        BY <1>4, <2>1, <2>3
      <4> QED BY <2>1, <4>1, <4>2 DEF Later
    <3> QED BY <2>1, <2>2, <2>4, <3>1, <3>2
  <2> QED BY <1>4, <2>1, <2>3, <2>4 DEF TakenInv
<1>7. (\E s \in Session, r \in Request : AskStep(s, r)) => UNCHANGED <<cur, replies>>
  BY DEF AskStep
<1>8. (\E s \in Session, msg \in Message, rest \in Seq(Fragment) : ReadStep(s, msg, rest))
        => UNCHANGED <<cur, replies>>
  BY DEF ReadStep
<1>9. StillStep => UNCHANGED <<cur, replies>>
  BY DEF StillStep
<1> QED BY <1>3, <1>5, <1>6, <1>7, <1>8, <1>9, Kinds

\* The request dealt with is the one asked, and comes after all that were answered.
LEMMA DealtStep ==
  ASSUME ZInv, OrderInv, [Next]_vars
  PROVE  DealtInv'
<1>1. StreamInv /\ TakenInv /\ DealtInv
  BY DEF OrderInv
<1>2. CASE main' \notin {"send", "write"}
  BY <1>2 DEF DealtInv
<1>3. CASE TakeStep /\ main' \in {"send", "write"}
  <2>1. Queue # <<>> /\ cur' = Head(Queue) /\ UNCHANGED <<asked, replies>>
    BY <1>3 DEF TakeStep
  <2>2. cur' = Queue[1] /\ 1 \in 1 .. Len(Queue) /\ Head(Queue) = Queue[1]
    BY <2>1, QueueType, HeadTailProperties, EmptySeq, LenProperties
  <2>3. PICK m \in Message : m = Queue[1] /\ Tagged(m)
    BY <2>2, QueueType, ElementOfSeq
  <2>4. m.src \in Session /\ Index(m) \in 0 .. Len(asked[m.src]) /\ Len(asked[m.src]) \in Nat
    <3>1. m.src \in Session
      BY DEF Message
    <3> QED BY <2>3, <3>1, IndexKnown, OrderTypes DEF ZInv
  <2>5. Index(m) # 0 => Parse(m) = {asked[m.src][Index(m)]}
    BY <2>3, IndexKnown DEF ZInv
  <2>6. PICK r \in Parse(m) : dealt' = r
    BY <1>3, <2>2, <2>3 DEF TakeStep
  <2>7. \A j \in 1 .. Len(replies[m.src]) :
          replies[m.src][j].src = m.src /\ Index(m) # 0 => replies[m.src][j].n < Index(m)
    BY <1>1, <2>2, <2>3, <2>4 DEF TakenInv, Later
  <2>8. cur' = m
    BY <2>2, <2>3
  <2> QED BY <2>1, <2>4, <2>5, <2>6, <2>7, <2>8 DEF DealtInv
<1>4. CASE StillStep /\ main' \in {"send", "write"}
  BY <1>1, <1>4 DEF StillStep, DealtInv
<1>5. CASE (\E s \in Session, msg \in Message, rest \in Seq(Fragment) : ReadStep(s, msg, rest))
  <2>1. UNCHANGED <<asked, cur, replies, main, dealt>>
    BY <1>5 DEF ReadStep
  <2> QED BY <1>1, <2>1 DEF DealtInv
<1>6. CASE (\E s \in Session, r \in Request : AskStep(s, r)) /\ main' \in {"send", "write"}
  <2>1. PICK s \in Session, r \in Request : AskStep(s, r)
    BY <1>6
  <2>2. UNCHANGED <<cur, replies, main, dealt>> /\ asked' = [asked EXCEPT ![s] = Append(@, r)]
    BY <2>1 DEF AskStep
  <2>3. cur \in Message /\ cur.src \in Session
    BY <1>6, <2>2 DEF ZInv, MainTypeOK, Message
  <2>4. asked \in [Session -> Seq(Request)] /\ Len(asked[s]) \in Nat
    BY OrderTypes
  <2>5. /\ Len(Append(asked[s], r)) = Len(asked[s]) + 1
        /\ \A i \in 1 .. Len(asked[s]) : Append(asked[s], r)[i] = asked[s][i]
    BY <2>4, AppendProperties
  <2>6. \A i \in 1 .. Len(asked[cur.src]) :
          i \in 1 .. Len(asked'[cur.src]) /\ asked'[cur.src][i] = asked[cur.src][i]
    BY <2>2, <2>3, <2>4, <2>5
  <2> QED BY <1>1, <2>2, <2>6 DEF DealtInv
<1>7. SendDone => main' \notin {"send", "write"}
  BY SendDoneReplies
<1> QED BY <1>2, <1>3, <1>4, <1>5, <1>6, <1>7, Kinds

\* Requests that were asked stay as they were.
LEMMA AskedStays ==
  ASSUME ZInv, [Next]_vars, NEW s \in Session
  PROVE  \A i \in 1 .. Len(asked[s]) : i \in 1 .. Len(asked'[s]) /\ asked'[s][i] = asked[s][i]
<1>1. asked \in [Session -> Seq(Request)] /\ \A t \in Session : Len(asked[t]) \in Nat
  BY OrderTypes
<1>2. CASE \E t \in Session, r \in Request : AskStep(t, r)
  <2>1. PICK t \in Session, r \in Request : asked' = [asked EXCEPT ![t] = Append(@, r)]
    BY <1>2 DEF AskStep
  <2>2. /\ Len(Append(asked[t], r)) = Len(asked[t]) + 1
        /\ \A i \in 1 .. Len(asked[t]) : Append(asked[t], r)[i] = asked[t][i]
    BY <1>1, AppendProperties
  <2> QED BY <1>1, <2>1, <2>2
<1>3. CASE UNCHANGED asked
  BY <1>3
<1>4. (\E t \in Session, m \in Message, rest \in Seq(Fragment) : ReadStep(t, m, rest))
        \/ TakeStep \/ StillStep \/ SendDone => UNCHANGED asked
  BY DEF ReadStep, TakeStep, StillStep, SendDone, Write, peerVars
<1> QED BY <1>2, <1>3, <1>4, Kinds

\* The answers stay in order.
LEMMA InOrderStep ==
  ASSUME ZInv, OrderInv, [Next]_vars
  PROVE  AnswersInOrder'
<1>1. AnswersInOrder /\ DealtInv
  BY DEF OrderInv
<1>2. \A s \in Session : /\ DOMAIN replies[s] = 1 .. Len(replies[s]) /\ Len(replies[s]) \in Nat
                         /\ DOMAIN asked[s] = 1 .. Len(asked[s])
                         /\ DOMAIN replies'[s] = 1 .. Len(replies'[s])
                         /\ DOMAIN asked'[s] = 1 .. Len(asked'[s])
  <2>1. NetTypeOK /\ NetTypeOK'
    BY NetworkPart DEF ZInv, NetInv
  <2> QED BY <2>1, LenProperties DEF NetTypeOK
<1> SUFFICES ASSUME NEW s \in Session, NEW j \in DOMAIN replies'[s],
                    replies'[s][j].src = s, replies'[s][j].n # 0
             PROVE  /\ replies'[s][j].n \in DOMAIN asked'[s]
                    /\ replies'[s][j].ans \in AnswerTo(asked[s][replies[s][j].n])'
                    /\ \A i \in 1 .. j - 1 : replies'[s][i].src = s =>
                         replies'[s][i].n < replies'[s][j].n
  BY DEF AnswersInOrder
<1> DEFINE n == replies'[s][j].n
<1>3. ASSUME n \in 1 .. Len(asked[s]), replies'[s][j].ans \in AnswerTo(asked[s][n])
      PROVE  /\ n \in DOMAIN asked'[s]
             /\ replies'[s][j].ans \in AnswerTo(asked[s][replies[s][j].n])'
  <2>1. n \in 1 .. Len(asked'[s]) /\ asked'[s][n] = asked[s][n]
    BY <1>3, AskedStays
  <2>2. AnswerTo(asked[s][replies[s][j].n])' = AnswerTo(asked[s][n])
    BY <2>1 DEF AnswerTo, CheckDynmicCode, m_mapAllClient
  <2> QED BY <1>2, <1>3, <2>1, <2>2
<1>4. CASE j \in DOMAIN replies[s] /\ \A i \in 1 .. j : replies'[s][i] = replies[s][i]
  <2>1. j \in 1 .. j /\ replies'[s][j] = replies[s][j]
    BY <1>2, <1>4
  <2>2. /\ n \in 1 .. Len(asked[s]) /\ replies'[s][j].ans \in AnswerTo(asked[s][n])
        /\ \A i \in 1 .. j - 1 : replies[s][i].src = s => replies[s][i].n < n
    BY <1>1, <1>2, <1>4, <2>1 DEF AnswersInOrder
  <2>3. \A i \in 1 .. j - 1 : replies'[s][i] = replies[s][i]
    BY <1>2, <1>4
  <2> QED BY <1>3, <2>2, <2>3
<1>5. CASE SendDone
  <2>1. /\ target \in Session /\ cur \in Message /\ main = "write"
        /\ \A p \in Session : p # target => replies'[p] = replies[p]
        /\ Len(replies'[target]) = Len(replies[target]) + 1
        /\ \A i \in 1 .. Len(replies[target]) : replies'[target][i] = replies[target][i]
    BY <1>5, SendDoneReplies
  <2>2. CASE j \in 1 .. Len(replies[s])
    <3>1. \A i \in 1 .. Len(replies[s]) : replies'[s][i] = replies[s][i]
      BY <2>1
    <3> QED BY <1>2, <1>4, <2>2, <3>1
  <2>3. CASE s = target /\ j = Len(replies[s]) + 1
    <3>1. PICK a \in AnswerTo(dealt) :
            replies'[s][j] = [src |-> cur.src, n |-> Index(cur), ans |-> a]
      BY <1>5, <2>3, SendDoneReplies
    <3>2. s = cur.src /\ n = Index(cur) /\ Index(cur) # 0 /\ replies'[s][j].ans = a
      BY <3>1
    <3>3. /\ n \in 1 .. Len(asked[s]) /\ dealt = asked[s][n]
          /\ \A i \in 1 .. Len(replies[s]) : replies[s][i].src = s => replies[s][i].n < n
      BY <1>1, <2>1, <3>2 DEF DealtInv
    <3>4. \A i \in 1 .. j - 1 : i \in 1 .. Len(replies[s]) /\ replies'[s][i] = replies[s][i]
      BY <1>2, <2>1, <2>3
    <3> HIDE DEF n
    <3> QED BY <1>3, <3>1, <3>2, <3>3, <3>4 DEF n
  <2> QED BY <1>2, <2>1, <2>2, <2>3
<1>6. CASE UNCHANGED replies
  BY <1>2, <1>4, <1>6
<1>7. (\E t \in Session, r \in Request : AskStep(t, r)) \/ TakeStep \/ StillStep
        \/ (\E t \in Session, m \in Message, rest \in Seq(Fragment) : ReadStep(t, m, rest))
        => UNCHANGED replies
  BY DEF AskStep, ReadStep, TakeStep, StillStep
<1> QED BY <1>5, <1>6, <1>7, Kinds

LEMMA OrderInitInv == Init => OrderInv
<1> SUFFICES ASSUME Init PROVE OrderInv
  OBVIOUS
<1>1. Queue = <<>> /\ Len(Queue) = 0
  BY ConcatEmptySeq, EmptySeq DEF Init, NetInit, Queue
<1>2. /\ main = "start" /\ cur = NoMessage
      /\ \A s \in Session : wire[s] = <<>> /\ replies[s] = <<>>
  BY DEF Init, NetInit
<1>3. Len(<<>>) = 0 /\ DOMAIN <<>> = {}
  BY EmptySeq
<1>4. StreamInv
  BY <1>1, <1>2, <1>3 DEF StreamInv, Ordered
<1>5. TakenInv /\ DealtInv /\ AnswersInOrder
  BY <1>2, <1>3 DEF TakenInv, DealtInv, AnswersInOrder
<1> QED BY <1>4, <1>5 DEF OrderInv

\* Requests stay in order on their way to their answers (Handle_Read, DealMsg).
LEMMA OrderInvariance == Spec => []OrderInv
<1>1. ZInv /\ OrderInv /\ [Next]_vars => OrderInv'
  BY StreamStep, TakenStep, DealtStep, InOrderStep DEF OrderInv
<1> QED BY <1>1, OrderInitInv, Invariance, PTL DEF Spec

\* Each well-framed request is answered at most once, in the order the peer
\* asked, and by an answer of its own kind, however the io thread and the main
\* thread interleave and the bytes are cut into reads.
THEOREM AnswersInOrderCorrect == Spec => []AnswersInOrder
<1>1. OrderInv => AnswersInOrder
  BY DEF OrderInv
<1> QED BY <1>1, OrderInvariance, PTL

-----------------------------------------------------------------------------
(***************************************************************************)
(* The server is a service: each step asks, receives, serves, replies,     *)
(* lets ids be shared, or shows in nothing the peers can see.              *)
(***************************************************************************)

\* Appending puts one item at the end (Push).
LEMMA AppendPuts ==
  ASSUME NEW S, NEW q \in Seq(S), NEW e \in S
  PROVE  /\ Len(Append(q, e)) = Len(q) + 1
         /\ SubSeq(Append(q, e), 1, Len(q)) = q
         /\ Append(q, e)[Len(Append(q, e))] = e
<1>1. <<>> \in Seq(S) /\ Append(q, e) \in Seq(S)
  BY EmptySeq, AppendProperties
<1>2. <<>> \o q = q /\ <<>> \o Append(q, e) = Append(q, e)
  BY <1>1, ConcatEmptySeq
<1>3. /\ Len(<<>> \o Append(q, e)) = Len(<<>> \o q) + 1
      /\ SubSeq(<<>> \o Append(q, e), 1, Len(<<>> \o q)) = <<>> \o q
      /\ (<<>> \o Append(q, e))[Len(<<>> \o Append(q, e))] = e
  BY <1>1, ConcatAppend
<1> QED BY <1>2, <1>3

\* DealMsg answers the requests the protocol answers, with an answer of the protocol.
LEMMA AnswersProtocol ==
  ASSUME NEW r \in Request
  PROVE  /\ AnswerTo(r) \subseteq Service!AnswersTo(r)
         /\ AnswerTo(r) # {} <=> Service!AnswersTo(r) # {}
<1>1. r.kind \in {"C2ZS_R_REGISTER", "C2ZS_R_LOGIN", "UNKNOWN", "DS2ZS_R_CHECKDYNMICCODE"}
  BY DEF Request
<1>2. CASE r.kind = "C2ZS_R_LOGIN"
  <2>1. AnswerTo(r) = {"ZS2C_A_LOGIN"} /\ Service!AnswersTo(r) = {"ZS2C_A_LOGIN"}
    BY <1>2, Zenon DEF AnswerTo, Service!AnswersTo
  <2> QED BY <2>1
<1>3. CASE r.kind = "DS2ZS_R_CHECKDYNMICCODE"
  <2>1. AnswerTo(r) = {"CHECK_DYNMIC_CODE_FAIL"}
    BY <1>3 DEF AnswerTo, CheckDynmicCode, m_mapAllClient
  <2>2. Service!AnswersTo(r) = {"CHECK_DYNMIC_CODE_OK", "CHECK_DYNMIC_CODE_FAIL"}
    BY <1>3 DEF Service!AnswersTo
  <2> QED BY <2>1, <2>2
<1>4. CASE r.kind \in {"C2ZS_R_REGISTER", "UNKNOWN"}
  <2>1. AnswerTo(r) = {} /\ Service!AnswersTo(r) = {}
    BY <1>4 DEF AnswerTo, Service!AnswersTo
  <2> QED BY <2>1
<1> QED BY <1>1, <1>2, <1>3, <1>4

\* DealMsg takes the oldest message when no answer is due.
LEMMA ServeStep ==
  ASSUME ZInv, DealMsg
  PROVE  Service!Serve
<1>1. /\ main = "deal" /\ death = "none" /\ batch # <<>> /\ cur' = Head(batch) /\ batch' = Tail(batch)
      /\ UNCHANGED <<netVars, death>>
  BY DEF DealMsg, ZInv, MainTypeOK, AliveInv
<1>2. /\ batch \in Seq(Message) /\ m_vecAllClientMsg \in Seq(Message)
      /\ UNCHANGED <<m_vecAllClientMsg, asked, replies, nSessions>>
  BY <1>1 DEF ZInv, NetInv, NetTypeOK, MainTypeOK, netVars, peerVars, idVars
<1>3. Queue # <<>> /\ Head(Queue) = Head(batch) /\ Queue' = Tail(Queue)
  BY <1>1, <1>2, ConcatTail DEF Queue
<1> DEFINE m == Head(batch)
<1>4. m \in Message /\ Tagged(m)
  <2>1. m \in Message /\ m = batch[1] /\ 1 \in 1 .. Len(batch)
    BY <1>1, <1>2, HeadTailProperties, EmptySeq, LenProperties
  <2> QED BY <2>1 DEF ZInv, HeldInv
<1>5. Service!Take
  BY <1>1, <1>3 DEF Service!Take
<1>6. ~Due /\ Due' \in BOOLEAN /\ UNCHANGED NoIDReuse
  BY <1>1, <1>2 DEF Due, NoIDReuse
<1>7. ASSUME Index(m) # 0
      PROVE  /\ Index(m) \in DOMAIN asked[SenderOf(m)]
             /\ Due' <=> Service!AnswersTo(asked[SenderOf(m)][Index(m)]) # {}
  <2> DEFINE q == asked[m.src][Index(m)]
  <2>1. m.src \in Session /\ Index(m) \in 1 .. Len(asked[m.src]) /\ Parse(m) = {q}
    <3>1. m.src \in Session
      BY <1>4 DEF Message
    <3>2. Len(asked[m.src]) \in Nat
      BY <3>1, OrderTypes
    <3>3. Index(m) \in 0 .. Len(asked[m.src]) /\ Parse(m) = {asked[m.src][Index(m)]}
      BY <1>4, <1>7, IndexKnown DEF ZInv
    <3> HIDE DEF m
    <3> QED BY <1>7, <3>1, <3>2, <3>3
  <2>2. asked[m.src] \in Seq(Request)
    BY <2>1 DEF ZInv, NetInv, NetTypeOK
  <2>3. Index(m) \in DOMAIN asked[m.src] /\ q \in Request
    BY <2>1, <2>2, LenProperties, ElementOfSeq
  <2>4. IF AnswerTo(q) = {} THEN main' = Resume(Tail(batch)) ELSE main' = "send"
    BY <2>1 DEF DealMsg
  <2> HIDE DEF q
  <2>5. Due' <=> AnswerTo(q) # {}
    BY <1>1, <2>4 DEF Due, Resume
  <2>6. Due' <=> Service!AnswersTo(q) # {}
    BY <2>3, <2>5, AnswersProtocol
  <2> QED BY <2>3, <2>6 DEF SenderOf, q
<1>8. /\ Index(cur') # 0 =>
           /\ Index(cur') \in DOMAIN asked[SenderOf(cur')]
           /\ Due' <=> Service!AnswersTo(asked[SenderOf(cur')][Index(cur')]) # {}
  BY <1>1, <1>7
<1> QED BY <1>2, <1>5, <1>6, <1>8 DEF Service!Serve, Service!RequestOf

\* SendMsgBySessionID answers the request taken last, until ids are reused its asker.
LEMMA ReplyStep ==
  ASSUME ZInv, OrderInv, SendDone
  PROVE  Service!Reply
<1>1. /\ main = "write" /\ target \in Session /\ cur \in Message /\ dealt \in Request
      /\ main' \in {"poll", "deal"} /\ death = "none" /\ UNCHANGED <<cur, death>>
  BY DEF SendDone, Resume, ZInv, MainTypeOK, AliveInv, Accepted
<1>2. PICK a \in AnswerTo(dealt) : Write(target, cur.src, Index(cur), a)
  BY DEF SendDone
<1>3. /\ replies' = [replies EXCEPT ![target] = Append(@, [src |-> cur.src, n |-> Index(cur), ans |-> a])]
      /\ UNCHANGED <<asked, nSessions, m_vecAllClientMsg>>
  BY <1>2 DEF Write, peerVars, idVars
<1>4. UNCHANGED <<Queue, NoIDReuse>>
  BY <1>3 DEF SendDone, Queue, NoIDReuse
<1>5. Due /\ Due' = FALSE
  BY <1>1 DEF Due
<1>6. target = cur.src \/ ~NoIDReuse
  BY <1>1 DEF ZInv, TargetInv
<1>7. a \in Answer
  BY <1>1, <1>2, AnswerType
<1>8. Index(cur) # 0 => a \in Service!AnswersTo(asked[cur.src][Index(cur)])
  <2>1. Index(cur) # 0 => dealt = asked[cur.src][Index(cur)]
    BY <1>1 DEF OrderInv, DealtInv
  <2> QED BY <1>1, <1>2, <2>1, AnswersProtocol
<1>9. \E p \in Session, b \in Answer :
        /\ p = SenderOf(cur) \/ ~NoIDReuse
        /\ Index(cur) # 0 => b \in Service!AnswersTo(asked[SenderOf(cur)][Index(cur)])
        /\ replies' = [replies EXCEPT ![p] =
                         Append(@, [src |-> SenderOf(cur), n |-> Index(cur), ans |-> b])]
  BY <1>1, <1>3, <1>6, <1>7, <1>8 DEF SenderOf
<1> QED BY <1>1, <1>3, <1>4, <1>5, <1>9 DEF Service!Reply, Service!RequestOf

LEMMA ServiceStep ==
  ASSUME ZInv, OrderInv, [Next]_vars
  PROVE  [Service!ServiceNext]_<<Queue, cur, asked, Due, replies, ~NoIDReuse>>
<1> DEFINE inbox == m_vecAllClientMsg
           Same  == UNCHANGED <<Queue, cur, asked, Due, replies, NoIDReuse>>
<1> USE DEF Service!ServiceNext
<1>1. CASE Poll
  <2>1. /\ batch = <<>> /\ batch' = inbox /\ inbox' = <<>> /\ main = "poll" /\ main' \in {"poll", "deal"}
        /\ UNCHANGED <<cur, asked, replies, nSessions, death>>
    BY <1>1 DEF Poll, Resume, GetAllMsg, ZInv, BatchInv, peerVars, idVars
  <2>2. Queue' = Queue
    <3>1. inbox \in Seq(Message)
      BY DEF ZInv, NetInv, NetTypeOK
    <3> QED BY <2>1, <3>1, ConcatEmptySeq DEF Queue
  <2>3. Same
    BY <2>1, <2>2 DEF Due, NoIDReuse
  <2> QED BY <2>3
<1>2. CASE DealMsg
  BY <1>2, ServeStep
<1>3. CASE SendDone
  BY <1>3, ReplyStep
<1>4. CASE \E s \in Session : IoRead(s)
  <2>1. PICK s \in Session : /\ Handle_Read(s)
                             /\ UNCHANGED <<batch, cur, main, dealt, death>>
    BY <1>4 DEF IoRead, Beside
  <2>2. PICK msg \in Message, rest \in Seq(Fragment) : ReadStep(s, msg, rest)
    BY <2>1, ReadKind
  <2>3. Queue' = Append(Queue, msg) /\ UNCHANGED <<asked, cur, replies>> /\ Queue \in Seq(Message)
    BY <2>2, OrderTypes DEF ReadStep
  <2>4. Service!Put
    BY <2>3, AppendPuts DEF Service!Put
  <2>5. UNCHANGED <<Due, NoIDReuse>>
    BY <2>1 DEF Due, NoIDReuse, Handle_Read, Handle_ReadData, Handle_ReadError, idVars
  <2> QED BY <2>3, <2>4, <2>5 DEF Service!Receive
<1>5. CASE Peers
  <2>1. PICK s \in Session : Beside(PeerClose(s)) \/ \E r \in PeerRequest : Beside(PeerSend(s, r))
    BY <1>5 DEF Peers, Beside
  <2>2. UNCHANGED <<Queue, cur, Due, replies, NoIDReuse>>
    BY <2>1 DEF Beside, PeerClose, PeerSend, Queue, Due, NoIDReuse, idVars
  <2>3. CASE UNCHANGED asked
    BY <2>2, <2>3
  <2>4. CASE \E r \in PeerRequest : PeerSend(s, r)
    <3>1. \E r \in Request : asked' = [asked EXCEPT ![s] = Append(@, r)]
      BY <2>4 DEF PeerSend
    <3> QED BY <2>2, <3>1 DEF Service!Ask
  <2> QED BY <2>1, <2>3, <2>4 DEF Beside, PeerClose
<1>6. CASE Start \/ IoAccept
  <2>1. /\ UNCHANGED <<batch, inbox, cur, asked, replies, death>>
        /\ main \notin {"send", "write"} => main' \notin {"send", "write"}
        /\ main \in {"send", "write"} => main' \in {"send", "write"}
    BY <1>6 DEF Start, IoAccept, Beside, AcceptConnect, Handle_accept
  <2>2. UNCHANGED <<Queue, Due>>
    BY <2>1 DEF Queue, Due
  <2>3. NoIDReuse' => NoIDReuse
    BY NetworkPart
  <2>4. NoIDReuse \in BOOLEAN /\ NoIDReuse' \in BOOLEAN
    BY DEF NoIDReuse
  <2>5. CASE UNCHANGED NoIDReuse
    BY <2>1, <2>2, <2>5
  <2>6. CASE (~NoIDReuse)' = TRUE
    BY <2>1, <2>2, <2>6 DEF Service!Share
  <2> QED BY <2>3, <2>4, <2>5, <2>6
<1>7. CASE \/ DealFault \/ SendLookup \/ SendMiss \/ SendThrow \/ SendRace
           \/ (\E s \in Session : PeerReads(s)) \/ Halted \/ UNCHANGED vars
  <2>1. UNCHANGED <<batch, inbox, cur, asked, replies, nSessions>>
    BY <1>7 DEF DealFault, SendLookup, SendMiss, SendThrow, SendRace, Die, PeerReads, Halted,
                vars, netVars, peerVars, idVars, mainVars
  <2>2. main # "dead" => death = "none"
    BY DEF ZInv, AliveInv
  <2>3. Due' = Due
    BY <1>7, <2>2 DEF DealFault, SendLookup, SendMiss, SendThrow, SendRace, Die, PeerReads, Halted,
                      vars, mainVars, Due
  <2>4. Same
    BY <2>1, <2>3 DEF Queue, NoIDReuse
  <2> QED BY <2>4
<1> QED BY <1>1, <1>2, <1>3, <1>4, <1>5, <1>6, <1>7 DEF Next, MainThread

(***************************************************************************)
(* For any number of sessions, ids, requests and reads: the server is a    *)
(* service that answers what arrives one by one, in order of arrival and   *)
(* at most once, until it stops (DealMsg, SendMsgBySessionID, Handle_Read).*)
(***************************************************************************)
THEOREM ServiceRefines == Spec => ServerIsService
<1>1. Init => Service!ServiceInit
  <2> SUFFICES ASSUME Init PROVE Service!ServiceInit
    OBVIOUS
  <2>1. Queue = <<>> /\ cur = NoMessage
    BY ConcatEmptySeq, EmptySeq DEF Init, NetInit, Queue
  <2>2. Due = FALSE /\ (~NoIDReuse) = FALSE
    BY DEF Init, NetInit, Due, NoIDReuse
  <2> QED BY <2>1, <2>2 DEF Init, NetInit, Service!ServiceInit, Service!Init
<1>2. ZInv /\ OrderInv /\ [Next]_vars => [Service!ServiceNext]_(Service!serviceVars)
  BY ServiceStep DEF Service!serviceVars
<1> QED BY <1>1, <1>2, Invariance, OrderInvariance, PTL
        DEF Spec, ServerIsService, Service!ServiceSpec
=============================================================================
