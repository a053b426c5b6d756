------------------------------ MODULE ZServer -------------------------------
(***************************************************************************)
(* The account server as a process: the main thread (main2.cpp, MsgLogic)  *)
(* composed with the io thread and the peers (MyZServerNetwork).           *)
(*                                                                         *)
(* The main thread swaps out the inbox, dispatches each message and writes *)
(* the answer.  It looks the session up in m_mapAllClientSock with         *)
(* operator[] and no lock, so a lookup can overlap an insertion or erasure *)
(* by the io thread (a data race on a std::map), can miss (operator[] then *)
(* inserts a null shared_ptr, which is dereferenced at once), and          *)
(* write_some throws when the peer is gone; nothing catches it.  Each of   *)
(* these ends the process.  Between lookup and write the session may go;   *)
(* its object stays, since the read armed on it refers to it.              *)
(*                                                                         *)
(* write_some waits while the peer leaves no room in the connection's      *)
(* buffers, and writes what fits of an answer: nobody looks at the number  *)
(* of bytes it returns.                                                    *)
(***************************************************************************)
EXTENDS MyZServerNetwork

CONSTANT SendBuffer  \* what a connection holds unread, in halves of an answer

ASSUME BufferAssumption == SendBuffer \in Nat \ {0}

AnswerSize == 2  \* so that an answer can fit by half

VARIABLES
  main,     \* main thread: "start", "poll", "deal", "send", "write" or "dead"
  batch,    \* m_vecAllClientMsg of MsgLogic from index i on
  cur,      \* the message being dealt with, or dealt with last
  dealt,    \* during "send" and "write", the request cur was read as
  target,   \* during "write", the session the lookup found
  unread,   \* of each session, what was written and its peer has not read
  raced,    \* the io thread changed the registry under the running lookup
  death     \* why the process ended

mainVars == <<main, batch, cur, dealt, target, unread, raced, death>>
vars     == <<netVars, mainVars>>

NoMessage == [src |-> NULL, m_iSessionID |-> NULL, chunk |-> <<>>]
NoRequest == [kind |-> "UNKNOWN"]

-----------------------------------------------------------------------------
(***************************************************************************)
(* Parsing.  Only the first request of an HMessage is looked at.  Bytes    *)
(* the read did not deliver are uninitialised memory: a message that does  *)
(* not start with a header reads as any request; with a header but without *)
(* its body, as a request of that kind with any fields.                    *)
(***************************************************************************)
HasHeader(msg) == msg.chunk # <<>> /\ msg.chunk[1].part = "head"
IsWhole(msg)   == HasHeader(msg) /\ Len(msg.chunk) > 1

\* Index, in asked[msg.src], of the request msg starts with; 0 when garbled.
Index(msg) == IF IsWhole(msg) THEN msg.chunk[1].n ELSE 0

Parse(msg) ==
  IF ~HasHeader(msg) THEN Request
  ELSE LET sent == asked[msg.src][msg.chunk[1].n]
       IN  IF IsWhole(msg) THEN {sent} ELSE { r \in Request : r.kind = sent.kind }

\* MsgLogic::m_mapAllClient: GetmapAllClient is never called, so it stays empty.
m_mapAllClient == {}

CheckDynmicCode(id, dc) ==
  \E s \in m_mapAllClient : m_iID[s] = id /\ m_DynmicCode[s] = dc

\* The answers DealMsg sends to r; registering has lost its code, so none.
AnswerTo(r) ==
  CASE r.kind = "C2ZS_R_LOGIN" -> {"ZS2C_A_LOGIN"}
    [] r.kind = "DS2ZS_R_CHECKDYNMICCODE" ->
         {IF CheckDynmicCode(r.id, r.code) THEN "CHECK_DYNMIC_CODE_OK"
                                           ELSE "CHECK_DYNMIC_CODE_FAIL"}
    [] OTHER -> {}

\* Kinds whose body holds strings: getString copies as many bytes as a length
\* field says, which in a garbled message is uninitialised memory as well.
HasStrings(r) == r.kind \in {"C2ZS_R_LOGIN", "C2ZS_R_REGISTER"}

-----------------------------------------------------------------------------
(***************************************************************************)
(* Main thread.                                                            *)
(***************************************************************************)
Start ==
  /\ main = "start"
  /\ AcceptConnect
  /\ main' = "poll"
  /\ UNCHANGED <<batch, cur, dealt, target, unread, raced, death>>

\* Mutants of Resume: the empty() check is missing; the last message is skipped.
ResumeUnchecked(rest) == "deal"
ResumeEarly(rest) == IF Len(rest) < 2 THEN "poll" ELSE "deal"

Resume(rest) == IF rest = <<>> THEN "poll" ELSE "deal"

\* GetvecMsg(GetAllMsg()), and DealMsg's return when nothing came.
Poll ==
  /\ main = "poll"
  /\ GetAllMsg
  /\ batch' = m_vecAllClientMsg
  /\ main' = Resume(m_vecAllClientMsg)
  /\ UNCHANGED <<cur, dealt, target, unread, raced, death>>

\* One turn of DealMsg's loop, up to the call of SendMsgBySessionID if any.
DealMsg ==
  /\ main = "deal"
  /\ cur' = Head(batch)
  /\ batch' = Tail(batch)
  /\ \E r \in Parse(Head(batch)) :
       IF AnswerTo(r) = {} THEN main' = Resume(Tail(batch)) /\ UNCHANGED dealt
                           ELSE main' = "send" /\ dealt' = r
  /\ UNCHANGED <<netVars, target, unread, raced, death>>

Die(cause) ==
  /\ main' = "dead"
  /\ death' = cause
  /\ UNCHANGED <<netVars, batch, cur, dealt, target, unread, raced>>

\* Unpacking a garbled message runs off the HMessage buffer and faults.
DealFault ==
  /\ main = "deal"
  /\ ~IsWhole(Head(batch))
  /\ \E r \in Parse(Head(batch)) : HasStrings(r)
  /\ Die("garbled")

\* The lookup of SendMsgBySessionID finds a session.
SendLookup ==
  /\ main = "send"
  /\ m_mapAllClientSock[cur.m_iSessionID] # NULL
  /\ target' = m_mapAllClientSock[cur.m_iSessionID]
  /\ main' = "write"
  /\ raced' = FALSE
  /\ UNCHANGED <<netVars, batch, cur, dealt, unread, death>>

\* It misses: a null shared_ptr is dereferenced.
SendMiss ==
  /\ main = "send"
  /\ m_mapAllClientSock[cur.m_iSessionID] = NULL
  /\ Die("miss")

\* It raced with a change of the registry.
SendRace ==
  /\ main = "send"
  /\ raced
  /\ Die("race")

\* A connection that holds as much unread takes one more answer whole.
Fits(held) == held + AnswerSize <= SendBuffer

\* Mutant of SendDone: what does not fit is sent again, from its start.
SendDoneRetry ==
  /\ main = "write"
  /\ unread[target] < SendBuffer
  /\ \E a \in AnswerTo(dealt) : Write(target, cur.src, Index(cur), a)
  /\ IF Fits(unread[target])
     THEN /\ main' = Resume(batch) /\ dealt' = NoRequest /\ target' = NULL
          /\ unread' = [unread EXCEPT ![target] = @ + AnswerSize]
     ELSE UNCHANGED <<main, dealt, target>> /\ unread' = [unread EXCEPT ![target] = SendBuffer]
  /\ UNCHANGED <<batch, cur, raced, death>>

\* write_some returns: there was room for some of the answer.  When it was not
\* enough the rest of the answer is lost, and the next one follows in its middle.
SendDone ==
  /\ main = "write"
  /\ unread[target] < SendBuffer
  /\ \E a \in AnswerTo(dealt) : Write(target, cur.src, Index(cur), a)
  /\ unread' = [unread EXCEPT ![target] = IF Fits(@) THEN @ + AnswerSize ELSE SendBuffer]
  /\ main' = Resume(batch)
  /\ dealt' = NoRequest
  /\ target' = NULL
  /\ UNCHANGED <<batch, cur, raced, death>>

\* write_some throws system_error, which leaves main() uncaught.
SendThrow ==
  /\ main = "write"
  /\ sock[target] = "ended"
  /\ Die("write")

MainThread ==
  Poll \/ DealMsg \/ DealFault \/ SendLookup \/ SendMiss \/ SendRace \/ SendDone \/ SendThrow

-----------------------------------------------------------------------------
(***************************************************************************)
(* Io thread and peers, while the process lives.  A lookup races with a    *)
(* step that adds or removes an entry, or assigns the one looked up.       *)
(***************************************************************************)
Entries(registry) == { k \in ID : registry[k] # NULL }

Racing ==
  /\ main = "send"
  /\ \/ Entries(m_mapAllClientSock) # Entries(m_mapAllClientSock')
     \/ m_mapAllClientSock[cur.m_iSessionID] # m_mapAllClientSock'[cur.m_iSessionID]

Beside(step) ==
  /\ main \notin {"start", "dead"}
  /\ step
  /\ raced' = (raced \/ Racing)
  /\ UNCHANGED <<main, batch, cur, dealt, target, unread, death>>

IoRead(s)   == Beside(Handle_Read(s))
IoAccept    == Beside(\E error \in BOOLEAN : Handle_accept(error))
Peers       == Beside(\E s \in Session : PeerClose(s) \/ \E r \in PeerRequest : PeerSend(s, r))

\* A peer reads some of what was written to it.
PeerReads(s) ==
  /\ main # "dead" /\ sock[s] = "open"
  /\ \E held \in 0 .. unread[s] - 1 : unread' = [unread EXCEPT ![s] = held]
  /\ UNCHANGED <<netVars, main, batch, cur, dealt, target, raced, death>>

\* The process is gone; nothing restarts it.
Halted == main = "dead" /\ UNCHANGED vars

Init ==
  /\ NetInit
  /\ main = "start"
  /\ batch = <<>>
  /\ cur = NoMessage
  /\ dealt = NoRequest
  /\ target = NULL
  /\ unread = [s \in Session |-> 0]
  /\ raced = FALSE
  /\ death = "none"

Next ==
  \/ Start \/ MainThread
  \/ \E s \in Session : IoRead(s) \/ PeerReads(s)
  \/ IoAccept \/ Peers
  \/ Halted

Spec == Init /\ [][Next]_vars

(***************************************************************************)
(* Fairness: the main loop goes on when write_some does not wait, and the  *)
(* io_service serves every completed read.  That a peer connects, sends,   *)
(* reads or leaves is never forced.                                        *)
(***************************************************************************)
FairSpec ==
  /\ Spec
  /\ WF_vars(Start) /\ WF_vars(MainThread)
  /\ \A s \in Session : WF_vars(IoRead(s))

-----------------------------------------------------------------------------
(***************************************************************************)
(* Type invariant of the main thread's state.                              *)
(***************************************************************************)
TypeOK ==
  /\ NetTypeOK
  /\ main \in {"start", "poll", "deal", "send", "write", "dead"}
  /\ batch \in Seq(Message)
  /\ cur \in Message \cup {NoMessage}
  /\ dealt \in Request
  /\ target \in Session \cup {NULL}
  /\ unread \in [Session -> 0 .. SendBuffer]
  /\ raced \in BOOLEAN
  /\ death \in {"none", "garbled", "miss", "write", "race"}
  /\ main = "deal" => batch # <<>>
  /\ main \in {"send", "write"} => cur \in Message /\ AnswerTo(dealt) # {}
  /\ main = "write" => target \in Accepted

\* Messages read and not yet dealt with, oldest first.
Queue == batch \o m_vecAllClientMsg

(***************************************************************************)
(* The hand-over from Handle_Read to DealMsg is a mailbox: the copy, the   *)
(* clear and the index loop together neither lose, repeat nor reorder a    *)
(* message, whatever the io thread pushes meanwhile.                       *)
(***************************************************************************)
Handover == INSTANCE Mailbox WITH Item <- Message, NoItem <- NoMessage,
                                  queue <- Queue, taken <- cur

HandoverIsMailbox == Handover!Spec

\* An answer is due from DealMsg's decision to write_some's return; the end of
\* the process in between leaves it due for ever.
Due == main \in {"send", "write"} \/ death \in {"miss", "race", "write"}

SenderOf(msg) == msg.src

(***************************************************************************)
(* Seen from the peers, the server is a service: requests are taken in the *)
(* order their bytes arrived, each well-framed one that has an answer gets *)
(* exactly one, of its kind, before the next is taken, and until ids are   *)
(* reused at its asker.  The threads, the lookup per answer and the        *)
(* connections that end meanwhile show in no other way than that the       *)
(* service stops.                                                          *)
(***************************************************************************)
Service == INSTANCE AnswerService
  WITH Item <- Message, NoItem <- NoMessage, Peer <- Session,
       Sender <- SenderOf, Number <- Index,
       queue <- Queue, taken <- cur, due <- Due, shared <- ~NoIDReuse

ServerIsService == Service!ServiceSpec

(***************************************************************************)
(* Until ids are reused, whatever is written to a session answers that     *)
(* session: the id a message was tagged with on the io thread still leads  *)
(* the main thread back to the asker, or to nobody.                        *)
(***************************************************************************)
AnswersOwnPeer ==
  NoIDReuse => \A s \in Session : \A j \in DOMAIN replies[s] : replies[s][j].src = s

(***************************************************************************)
(* Each well-framed request is answered at most once, in the order the     *)
(* peer asked, and with an answer of its own kind.                         *)
(***************************************************************************)
AnswersInOrder ==
  \A s \in Session : \A j \in DOMAIN replies[s] :
    LET r == replies[s][j]
    IN  r.src = s /\ r.n # 0 =>
          /\ r.n \in DOMAIN asked[s]
          /\ r.ans \in AnswerTo(asked[s][r.n])
          /\ \A i \in 1 .. j - 1 : replies[s][i].src = s => replies[s][i].n < r.n

(***************************************************************************)
(* A lookup in SendMsgBySessionID misses only when a session with the id   *)
(* looked up has had a failed read: registering after arming the first     *)
(* read never lets an answer overtake the registration.                    *)
(***************************************************************************)
MissOnlyAfterEnd ==
  main = "send" /\ m_mapAllClientSock[cur.m_iSessionID] = NULL =>
    \E t \in Accepted : m_iID[t] = cur.m_iSessionID /\ errorReads[t] > 0

(***************************************************************************)
(* What it takes to end the process.  Until ids are reused, a lookup that  *)
(* misses and a write that throws mean that the very session being         *)
(* answered has ended.  The one way in which another session ends it is    *)
(* the race: one was accepted, or a read failed, beside the lookup.  What  *)
(* faults in unpacking is a badly framed message, the present one.         *)
(***************************************************************************)
DeathHasCause ==
  /\ NoIDReuse /\ death \in {"miss", "write"} => sock[cur.src] = "ended"
  /\ death = "race" => \E t \in Accepted : t # cur.src \/ errorReads[t] > 0
  /\ death = "garbled" => ~IsWhole(Head(batch))

\* The request number n of session s waits in the queue, well framed.
Waiting(s, n, kind) ==
  /\ \E i \in DOMAIN Queue : Queue[i].src = s /\ Index(Queue[i]) = n
  /\ asked[s][n].kind = kind

Answered(s, n) == \E j \in DOMAIN replies[s] : replies[s][j].n = n

\* Every peer that stays makes room for answers again and again.
PeersRead == \A s \in Session : []<>(unread[s] < SendBuffer \/ sock[s] = "ended")

(***************************************************************************)
(* If peers read what they are sent, a login that arrived well framed is   *)
(* answered, unless the process dies first: no interleaving of pushes,     *)
(* swaps and other sessions' traffic leaves it behind.  The answer counts  *)
(* also when its peer left room for a part of it only.  One peer that does *)
(* not read is enough to keep everybody waiting.                           *)
(***************************************************************************)
QueuedLoginAnswered ==
  PeersRead => \A s \in Session, n \in 1 .. MaxSends :
    Waiting(s, n, "C2ZS_R_LOGIN") ~> (Answered(s, n) \/ main = "dead")

-----------------------------------------------------------------------------
(***************************************************************************)
(* Statements of the source's comments that the code does not live up to.  *)
(***************************************************************************)

\* MyZServerNetwork.cpp:60,80: a client that leaves is handled; here, that
\* answering a request it sent before does not end the server.
SurvivesDisconnect == death \in {"miss", "write"} => ~IsWhole(cur)

\* MyZServerNetwork.cpp:60: a client that leaves is disconnected gracefully;
\* here, that its end is handled once.
DisconnectHandledOnce == \A s \in Session : errorReads[s] <= 1

\* MyMsg.h:59-60: every login request a client sends has an answer.
SentLoginAnswered ==
  \A s \in Session, n \in 1 .. MaxSends :
    (n \in DOMAIN asked[s] /\ \A i \in 1 .. n : asked[s][i].kind = "C2ZS_R_LOGIN")
      ~> (Len(replies[s]) >= n \/ main = "dead" \/ sock[s] = "ended")
=============================================================================
