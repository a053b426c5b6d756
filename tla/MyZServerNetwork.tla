-------------------------- MODULE MyZServerNetwork --------------------------
(***************************************************************************)
(* The network half of the account server (ZServer/MyZServerNetwork.cpp):  *)
(* the acceptor, the SessionClient objects, the registry of connected      *)
(* clients m_mapAllClientSock, the inbox m_vecAllClientMsg that the io     *)
(* thread fills and the main thread empties, and the write path            *)
(* of SendMsgBySessionID.  Peers are external: they connect, send requests *)
(* and go away.                                                            *)
(*                                                                         *)
(* Every handler of the io thread is one action: the io_service is run by  *)
(* a single thread, so handlers do not interleave with each other, and     *)
(* what the main thread can see of them is the inbox (always under         *)
(* m_vecAllClientMsgLock) and the registry.  The main thread reads the     *)
(* registry WITHOUT m_mapAllClientSockLock; module ZServer, which composes *)
(* this module with the main thread, models the consequences.              *)
(***************************************************************************)
EXTENDS Naturals, Sequences

CONSTANTS
  MaxID,          \* largest session id; 999999999 in the code
  Code,           \* values of a dynamic code (uint32_t)
  PeerRequest,    \* the requests a peer may send
  MaxSessions,    \* bound: SessionClient objects ever created
  MaxSends,       \* bound: requests a peer sends on one connection
  MaxErrorReads   \* bound: failed reads delivered for one session

ASSUME NetworkAssumption ==
  /\ MaxID \in Nat \ {0}
  /\ Code # {}
  /\ MaxSessions \in Nat \ {0}
  /\ MaxSends \in Nat
  /\ MaxErrorReads \in Nat

ID      == 1 .. MaxID
Session == 1 .. MaxSessions     \* SessionClient objects, in order of creation
NULL    == 0                    \* no entry in the registry

(***************************************************************************)
(* What the server tells apart about a request: its protocol numbers and,  *)
(* for a dynamic-code check, the id and the code to be checked.            *)
(***************************************************************************)
Request == [kind : {"C2ZS_R_REGISTER", "C2ZS_R_LOGIN", "UNKNOWN"}]
             \cup [kind : {"DS2ZS_R_CHECKDYNMICCODE"}, id : ID, code : Code]

Answer == {"ZS2C_A_REGISTER", "ZS2C_A_LOGIN",
           "CHECK_DYNMIC_CODE_OK", "CHECK_DYNMIC_CODE_FAIL"}

ASSUME PeerRequestAssumption == PeerRequest \subseteq Request

(***************************************************************************)
(* A request travels as a byte stream; the cuts that matter are between    *)
(* requests and between the 6-byte BaseMessage header and the rest.        *)
(***************************************************************************)
Fragment == [n : Nat \ {0}, part : {"head", "body"}]

(***************************************************************************)
(* An HMessage in the inbox: the bytes of one successful read, tagged with *)
(* the session id.  src (the session object itself) is known to the model  *)
(* only.                                                                   *)
(***************************************************************************)
Message == [src : Session, m_iSessionID : ID, chunk : Seq(Fragment)]

VARIABLES
  g_iCurrentID,        \* last session id handed out
  nSessions,           \* SessionClient objects created; the last one is in async_accept
  m_iID,               \* SessionClient::m_iID of each object
  m_DynmicCode,        \* SessionClient::m_DynmicCode
  sock,                \* state of the object's socket
  wire,                \* bytes sent by the peer and not yet read
  asked,               \* history: the requests the peer has sent
  errorReads,          \* failed reads delivered so far
  m_mapAllClientSock,  \* registry: session id -> session object, or NULL
  m_vecAllClientMsg,   \* inbox
  replies              \* answers written to the session's socket

idVars   == <<g_iCurrentID, nSessions, m_iID, m_DynmicCode>>
peerVars == <<sock, wire, asked>>
netVars  == <<idVars, peerVars, errorReads, m_mapAllClientSock, m_vecAllClientMsg, replies>>

-----------------------------------------------------------------------------
\* Sessions whose connection has been accepted (all but the pending one).
Accepted == { s \in Session : s < nSessions }

NetInit ==
  /\ g_iCurrentID = 0
  /\ nSessions = 0
  /\ m_iID = [s \in Session |-> NULL]
  /\ m_DynmicCode = [s \in Session |-> CHOOSE c \in Code : TRUE]
  /\ sock = [s \in Session |-> "none"]
  /\ wire = [s \in Session |-> <<>>]
  /\ asked = [s \in Session |-> <<>>]
  /\ errorReads = [s \in Session |-> 0]
  /\ m_mapAllClientSock = [k \in ID |-> NULL]
  /\ m_vecAllClientMsg = <<>>
  /\ replies = [s \in Session |-> <<>>]

\* Mutant of NextID: the wrap comes one id too late.
NextIDLate == IF g_iCurrentID > MaxID THEN 1 ELSE g_iCurrentID + 1

\* g_iCurrentID++ with the wrap to 1 above MaxID.
NextID == IF g_iCurrentID + 1 > MaxID THEN 1 ELSE g_iCurrentID + 1

(***************************************************************************)
(* Allocate the next SessionClient and hand it to async_accept.  Its       *)
(* dynamic code is rand() for the first object and whatever the memory     *)
(* holds for the later ones (Handle_accept never assigns it): any Code.    *)
(***************************************************************************)
StartAccept ==
  /\ nSessions < MaxSessions
  /\ nSessions' = nSessions + 1
  /\ g_iCurrentID' = NextID
  /\ m_iID' = [m_iID EXCEPT ![nSessions + 1] = NextID]
  /\ \E c \in Code : m_DynmicCode' = [m_DynmicCode EXCEPT ![nSessions + 1] = c]

\* The main thread opens the first accept before the io thread starts.
AcceptConnect ==
  /\ nSessions = 0
  /\ StartAccept
  /\ sock' = [sock EXCEPT ![1] = "pending"]
  /\ UNCHANGED <<wire, asked, errorReads, m_mapAllClientSock, m_vecAllClientMsg, replies>>

\* Mutant of Handle_accept: the next id is drawn before the session is stored.
AcceptKeyedByNextID(error) ==
  /\ nSessions > 0
  /\ m_mapAllClientSock' = [m_mapAllClientSock EXCEPT ![NextID] = nSessions]
  /\ StartAccept
  /\ sock' = [sock EXCEPT ![nSessions] = IF error THEN "ended" ELSE "open",
                          ![nSessions + 1] = "pending"]
  /\ UNCHANGED <<wire, asked, errorReads, m_vecAllClientMsg, replies>>

(***************************************************************************)
(* The pending accept completes.  The error code is not looked at: after a *)
(* failed accept the session is registered all the same, and its first     *)
(* read will fail.  The registry key is g_iCurrentID, not the m_iID of the *)
(* session.                                                                *)
(***************************************************************************)
Handle_accept(error) ==
  /\ nSessions > 0
  /\ m_mapAllClientSock' = [m_mapAllClientSock EXCEPT ![g_iCurrentID] = nSessions]
  /\ StartAccept
  /\ sock' = [sock EXCEPT ![nSessions] = IF error THEN "ended" ELSE "open",
                          ![nSessions + 1] = "pending"]
  /\ UNCHANGED <<wire, asked, errorReads, m_vecAllClientMsg, replies>>

\* Mutant of Push: the newest message goes first.
PushFront(s, chunk) ==
  m_vecAllClientMsg' = <<[src |-> s, m_iSessionID |-> m_iID[s], chunk |-> chunk]>>
                         \o m_vecAllClientMsg

Push(s, chunk) ==
  m_vecAllClientMsg' = Append(m_vecAllClientMsg,
                              [src |-> s, m_iSessionID |-> m_iID[s], chunk |-> chunk])

\* Mutant of Handle_ReadData: the erasure is not confined to the error case.
ReadDataErases(s) ==
  \E len \in 1 .. Len(wire[s]) :
    /\ Push(s, SubSeq(wire[s], 1, len))
    /\ wire' = [wire EXCEPT ![s] = SubSeq(@, len + 1, Len(@))]
    /\ m_mapAllClientSock' = [m_mapAllClientSock EXCEPT ![m_iID[s]] = NULL]
    /\ UNCHANGED <<idVars, sock, asked, errorReads, replies>>

(***************************************************************************)
(* A read completes with data: any non-empty prefix of the stream becomes  *)
(* one HMessage, and the read is armed again.                              *)
(***************************************************************************)
Handle_ReadData(s) ==
  \E len \in 1 .. Len(wire[s]) :
    /\ Push(s, SubSeq(wire[s], 1, len))
    /\ wire' = [wire EXCEPT ![s] = SubSeq(@, len + 1, Len(@))]
    /\ UNCHANGED <<idVars, sock, asked, errorReads, m_mapAllClientSock, replies>>

\* Mutant of Handle_ReadError: the entry of the pending id is erased.
ReadErrorErasesCurrent(s) ==
  /\ sock[s] = "ended"
  /\ errorReads[s] < MaxErrorReads
  /\ m_mapAllClientSock' = [m_mapAllClientSock EXCEPT ![g_iCurrentID] = NULL]
  /\ Push(s, <<>>)
  /\ errorReads' = [errorReads EXCEPT ![s] = @ + 1]
  /\ wire' = [wire EXCEPT ![s] = <<>>]
  /\ UNCHANGED <<idVars, sock, asked, replies>>

(***************************************************************************)
(* A read completes with an error: the entry under this session's id, if   *)
(* there is one, is erased.  The handler does not return: it pushes an     *)
(* HMessage of length zero and arms the read again, which fails again.     *)
(***************************************************************************)
Handle_ReadError(s) ==
  /\ sock[s] = "ended"
  /\ errorReads[s] < MaxErrorReads
  /\ m_mapAllClientSock' = [m_mapAllClientSock EXCEPT ![m_iID[s]] = NULL]
  /\ Push(s, <<>>)
  /\ errorReads' = [errorReads EXCEPT ![s] = @ + 1]
  /\ wire' = [wire EXCEPT ![s] = <<>>]
  /\ UNCHANGED <<idVars, sock, asked, replies>>

Handle_Read(s) == Handle_ReadData(s) \/ Handle_ReadError(s)

-----------------------------------------------------------------------------
(***************************************************************************)
(* Operations the main thread calls.                                       *)
(***************************************************************************)

\* Mutant of GetAllMsg: the inbox is not cleared.
GetAllMsgKeeping == UNCHANGED netVars

\* Copy the inbox and clear it, in one critical section.
GetAllMsg ==
  /\ m_vecAllClientMsg' = <<>>
  /\ UNCHANGED <<idVars, peerVars, errorReads, m_mapAllClientSock, replies>>

(***************************************************************************)
(* The write_some of SendMsgBySessionID to the session s its lookup found: *)
(* answer a to the request number n of the session src (n = 0: to a        *)
(* garbled one).                                                           *)
(***************************************************************************)
Write(s, src, n, a) ==
  /\ replies' = [replies EXCEPT ![s] = Append(@, [src |-> src, n |-> n, ans |-> a])]
  /\ UNCHANGED <<idVars, peerVars, errorReads, m_mapAllClientSock, m_vecAllClientMsg>>

-----------------------------------------------------------------------------
(***************************************************************************)
(* Peers.                                                                  *)
(***************************************************************************)
PeerSend(s, r) ==
  /\ sock[s] = "open"
  /\ Len(asked[s]) < MaxSends
  /\ asked' = [asked EXCEPT ![s] = Append(@, r)]
  /\ wire' = [wire EXCEPT ![s] = @ \o <<[n |-> Len(asked[s]) + 1, part |-> "head"],
                                        [n |-> Len(asked[s]) + 1, part |-> "body"]>>]
  /\ UNCHANGED <<idVars, sock, errorReads, m_mapAllClientSock, m_vecAllClientMsg, replies>>

\* The connection ends: the peer closes it, resets it, or disappears.
PeerClose(s) ==
  /\ sock[s] = "open"
  /\ sock' = [sock EXCEPT ![s] = "ended"]
  /\ UNCHANGED <<idVars, wire, asked, errorReads, m_mapAllClientSock, m_vecAllClientMsg, replies>>

-----------------------------------------------------------------------------
NetNext ==
  \/ AcceptConnect
  \/ \E error \in BOOLEAN : Handle_accept(error)
  \/ \E s \in Session : Handle_Read(s)
  \/ GetAllMsg
  \/ \E s \in Accepted, src \in Session, n \in Nat, a \in Answer : Write(s, src, n, a)
  \/ \E s \in Session, r \in PeerRequest : PeerSend(s, r)
  \/ \E s \in Session : PeerClose(s)

NetSpec == NetInit /\ [][NetNext]_netVars

-----------------------------------------------------------------------------
(***************************************************************************)
(* Type invariant of the network's state.                                  *)
(***************************************************************************)
NetTypeOK ==
  /\ g_iCurrentID \in 0 .. MaxID
  /\ nSessions \in 0 .. MaxSessions
  /\ m_iID \in [Session -> 0 .. MaxID]
  /\ m_DynmicCode \in [Session -> Code]
  /\ sock \in [Session -> {"none", "pending", "open", "ended"}]
  /\ wire \in [Session -> Seq(Fragment)]
  /\ asked \in [Session -> Seq(Request)]
  /\ errorReads \in [Session -> Nat]
  /\ m_mapAllClientSock \in [ID -> Session \cup {NULL}]
  /\ m_vecAllClientMsg \in Seq(Message)
  /\ replies \in [Session -> Seq([src : Session, n : Nat, ans : Answer])]

(***************************************************************************)
(* Registry keys are the ids their sessions carry.  Handle_accept stores   *)
(* under g_iCurrentID, Handle_Read erases under pSessionClient->m_iID and  *)
(* tags messages with it: the three agree only because one accept is       *)
(* outstanding at a time and the id is drawn after the previous session    *)
(* was stored.                                                             *)
(***************************************************************************)
KeysAreIDs ==
  /\ nSessions > 0 => m_iID[nSessions] = g_iCurrentID
  /\ \A k \in ID : m_mapAllClientSock[k] # NULL =>
       /\ m_mapAllClientSock[k] \in Accepted
       /\ m_iID[m_mapAllClientSock[k]] = k

\* No id has been handed out twice to an accepted connection yet.
NoIDReuse == nSessions <= MaxID + 1

(***************************************************************************)
(* Until ids are reused, exactly the accepted sessions without a failed    *)
(* read are registered, each under its own id: no disconnection takes      *)
(* another session out of the registry, no session stays after its own.    *)
(***************************************************************************)
RegistryExact ==
  NoIDReuse =>
    \A s \in Accepted : (m_mapAllClientSock[m_iID[s]] = s) <=> (errorReads[s] = 0)
=============================================================================
