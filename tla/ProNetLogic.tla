----------------------------- MODULE ProNetLogic ----------------------------
(***************************************************************************)
(* The client's network logic: UProNetLogic, an object made on demand by   *)
(* GetInstance (Private/pronetlogic.cpp), between the game and the network *)
(* library ProNetWork.                                                     *)
(*                                                                         *)
(* Everything runs on the game thread, but not one call after the other:   *)
(* DealMsg calls the game's delegates in the middle of its loop, and the   *)
(* game may call any operation from there, DealMsg included.  Between      *)
(* frames the engine's garbage collector may destroy the object: the       *)
(* static pointer m_pNetLogic does not keep it alive, only the game's own  *)
(* reference does, and the level that holds it is left after a login.      *)
(*                                                                         *)
(* External are the library (a binary), the server, the engine's collector *)
(* and the game, which is a level blueprint (TestMap.umap).                *)
(***************************************************************************)
EXTENDS Integers, Sequences

CONSTANTS
  MaxLinks,      \* bound: connections ever made
  MaxRequests,   \* bound: requests ever sent
  MaxAnswers,    \* bound: messages ever received
  MaxDepth,      \* bound: DealMsg calls inside each other
  MaxCalls       \* bound: calls a delegate makes before it returns

ASSUME ClientAssumption ==
  /\ MaxLinks \in Nat /\ MaxRequests \in Nat
  /\ MaxAnswers \in Nat /\ MaxDepth \in Nat \ {0} /\ MaxCalls \in Nat

Kind == {"login", "register"}   \* of requests, answers and delegates
Code == {"REGSTER_OK", "REGSTER_FAIL", "LOGIN_OK", "LOGIN_FAIL"}

\* What the server answers, in m_iErrorCode.
CodesFor(kind) == IF kind = "login" THEN {"LOGIN_OK", "LOGIN_FAIL"}
                                    ELSE {"REGSTER_OK", "REGSTER_FAIL"}

\* A request sent, and the connection it went over.
Request == [kind : Kind, link : 1 .. MaxLinks]

\* A received message: the n-th, the answer to request req (of kind "other"
\* when it is none of the two answers).
Answer == [n : 1 .. MaxAnswers, kind : Kind \cup {"other"}, req : 0 .. MaxRequests, code : Code]

\* A running DealMsg: what its loop has left, whether it is inside a
\* delegate, and the calls that delegate made.
Frame == [rest : Seq(Answer), busy : BOOLEAN, calls : 0 .. MaxCalls]

VARIABLES
  m_pNetLogic,  \* there is an object: the pointer is not nullptr
  held,         \* the game holds a reference to it
  m_isConneted, \* of the object, as the delegates
  bound,        \* delegates bound: m_OnLoginDelegate, m_OnRegistDelegate
  frames,       \* running DealMsg calls, the innermost last
  dead,         \* an unbound delegate was executed: a fatal error
  handled,      \* history: messages dispatched, and where to
  fetched,      \* history: numbers of the messages DealMsg has fetched
  links,        \* library: connections made; the last is the current one
  open,         \* library: connections open
  orphans,      \* history: connections whose object was destroyed
  requests,     \* history: requests sent
  answered,     \* requests the server has answered
  received,     \* messages received
  arrived       \* library: messages RecvMsgFromServer will return

objVars  == <<m_pNetLogic, held, m_isConneted, bound>>
dealVars == <<frames, dead, handled, fetched>>
linkVars == <<links, open, orphans>>
mailVars == <<requests, answered, received, arrived>>
vars     == <<objVars, dealVars, linkVars, mailVars>>

-----------------------------------------------------------------------------
Init ==
  /\ m_pNetLogic = FALSE /\ held = FALSE /\ m_isConneted = FALSE /\ bound = {}
  /\ frames = <<>> /\ dead = FALSE /\ handled = <<>> /\ fetched = {}
  /\ links = 0 /\ open = {} /\ orphans = {}
  /\ requests = <<>> /\ answered = {} /\ received = 0 /\ arrived = <<>>

Top == Len(frames)

\* The game has the control: no DealMsg runs, or the innermost is in a delegate.
GameCalls ==
  /\ ~dead
  /\ frames # <<>> => frames[Top].busy /\ frames[Top].calls < MaxCalls

\* A call from a delegate is one of the calls it makes.
Counted == IF frames = <<>> THEN <<>> ELSE [frames EXCEPT ![Top].calls = @ + 1]

-----------------------------------------------------------------------------
(***************************************************************************)
(* Operations of UProNetLogic, called by the game.                         *)
(***************************************************************************)

\* Mutant of GetInstance: the pointer is not assigned.
GetInstanceForgets ==
  /\ GameCalls
  /\ held' = TRUE
  /\ m_isConneted' = FALSE /\ bound' = {}
  /\ frames' = Counted
  /\ UNCHANGED <<m_pNetLogic, dead, handled, fetched, linkVars, mailVars>>

\* The new object is not connected and its delegates are not bound.
GetInstance ==
  /\ GameCalls
  /\ IF m_pNetLogic THEN UNCHANGED <<m_isConneted, bound>>
                    ELSE m_isConneted' = FALSE /\ bound' = {}
  /\ m_pNetLogic' = TRUE
  /\ held' = TRUE
  /\ frames' = Counted
  /\ UNCHANGED <<dead, handled, fetched, linkVars, mailVars>>

\* Mutant of Connect: the old connection is not closed.
ConnectAgain(ok) ==
  /\ GameCalls /\ held /\ links < MaxLinks
  /\ m_isConneted' = ok
  /\ links' = links + 1
  /\ open' = IF ok THEN open \cup {links + 1} ELSE open
  /\ arrived' \in {arrived, <<>>}
  /\ frames' = Counted
  /\ UNCHANGED <<m_pNetLogic, held, bound, dead, handled, fetched, orphans,
                 requests, answered, received>>

\* What the library has received by then it may keep or drop.
Connect(ok) ==
  /\ GameCalls /\ held /\ links < MaxLinks
  /\ m_isConneted' = ok
  /\ links' = links + 1
  /\ LET kept == IF m_isConneted THEN open \ {links} ELSE open
     IN  open' = IF ok THEN kept \cup {links + 1} ELSE kept
  /\ arrived' \in {arrived, <<>>}
  /\ frames' = Counted
  /\ UNCHANGED <<m_pNetLogic, held, bound, dead, handled, fetched, orphans,
                 requests, answered, received>>

\* GameLogicLogin, GameLogicRegister: sent if connected, which nobody checks.
GameLogicSend(kind) ==
  /\ GameCalls /\ held /\ Len(requests) < MaxRequests
  /\ requests' = IF links \in open
                 THEN Append(requests, [kind |-> kind, link |-> links]) ELSE requests
  /\ frames' = Counted
  /\ UNCHANGED <<objVars, dead, handled, fetched, linkVars, answered, received, arrived>>

\* OnLogin, OnRegister.
Bind(kind) ==
  /\ GameCalls /\ held
  /\ bound' = bound \cup {kind}
  /\ frames' = Counted
  /\ UNCHANGED <<m_pNetLogic, held, m_isConneted, dead, handled, fetched, linkVars, mailVars>>

\* Mutant of DealMsg: the loop starts with the newest message.
DealMsgReversed ==
  /\ GameCalls /\ held /\ Top < MaxDepth
  /\ frames' = Append(Counted, [rest |-> [i \in DOMAIN arrived |-> arrived[Len(arrived) + 1 - i]],
                                busy |-> FALSE, calls |-> 0])
  /\ fetched' = fetched \cup { arrived[i].n : i \in DOMAIN arrived }
  /\ arrived' = <<>>
  /\ UNCHANGED <<objVars, dead, handled, linkVars, requests, answered, received>>

\* RecvMsgFromServer returns what arrived, and forgets it.
DealMsg ==
  /\ GameCalls /\ held /\ Top < MaxDepth
  /\ frames' = Append(Counted, [rest |-> arrived, busy |-> FALSE, calls |-> 0])
  /\ fetched' = fetched \cup { arrived[i].n : i \in DOMAIN arrived }
  /\ arrived' = <<>>
  /\ UNCHANGED <<objVars, dead, handled, linkVars, requests, answered, received>>

\* Mutant of Argument: the login case compares with the other case's code.
ArgumentCopied(msg) == msg.code = "REGSTER_OK"

\* The bool a delegate is called with.
Argument(msg) == IF msg.kind = "login" THEN msg.code = "LOGIN_OK" ELSE msg.code = "REGSTER_OK"

\* One turn of the loop, up to the delegate's Execute; other messages are logged.
Dispatch ==
  /\ ~dead /\ frames # <<>>
  /\ ~frames[Top].busy /\ frames[Top].rest # <<>>
  /\ LET msg == Head(frames[Top].rest)
         to  == IF msg.kind \in Kind THEN msg.kind ELSE "log"
     IN  /\ dead' = (to # "log" /\ to \notin bound)
         /\ frames' = [frames EXCEPT ![Top].rest = Tail(@), ![Top].busy = (to # "log"),
                                     ![Top].calls = 0]
         /\ handled' = Append(handled, [msg |-> msg, to |-> to, value |-> Argument(msg),
                                        depth |-> Top])
  /\ UNCHANGED <<objVars, fetched, linkVars, mailVars>>

\* Mutant of DealMsgEnd: return where the code says break.
DealMsgEndEarly ==
  /\ ~dead /\ frames # <<>>
  /\ ~frames[Top].busy
  /\ frames' = SubSeq(frames, 1, Top - 1)
  /\ UNCHANGED <<objVars, dead, handled, fetched, linkVars, mailVars>>

\* Mutant of DealMsgEnd: the library is asked again, and DealMsg does not return.
DealMsgEndAgain ==
  /\ ~dead /\ frames # <<>>
  /\ ~frames[Top].busy /\ frames[Top].rest = <<>>
  /\ frames' = [frames EXCEPT ![Top].rest = arrived]
  /\ fetched' = fetched \cup { arrived[i].n : i \in DOMAIN arrived }
  /\ arrived' = <<>>
  /\ UNCHANGED <<objVars, dead, handled, linkVars, requests, answered, received>>

\* The loop is over and DealMsg returns.
DealMsgEnd ==
  /\ ~dead /\ frames # <<>>
  /\ ~frames[Top].busy /\ frames[Top].rest = <<>>
  /\ frames' = SubSeq(frames, 1, Top - 1)
  /\ UNCHANGED <<objVars, dead, handled, fetched, linkVars, mailVars>>

-----------------------------------------------------------------------------
(***************************************************************************)
(* The game's delegates return; the level that holds the object is left,   *)
(* its delegates going with it, and the collector may run, between frames. *)
(***************************************************************************)
DelegateReturns ==
  /\ ~dead /\ frames # <<>>
  /\ frames[Top].busy
  /\ frames' = [frames EXCEPT ![Top].busy = FALSE]
  /\ UNCHANGED <<objVars, dead, handled, fetched, linkVars, mailVars>>

LeaveLevel ==
  /\ ~dead /\ frames = <<>> /\ held
  /\ held' = FALSE
  /\ bound' = {}
  /\ UNCHANGED <<m_pNetLogic, m_isConneted, dealVars, linkVars, mailVars>>

\* ~UProNetLogic forgets the object, and does not disconnect.
CollectGarbage ==
  /\ ~dead /\ frames = <<>> /\ ~held /\ m_pNetLogic
  /\ m_pNetLogic' = FALSE
  /\ orphans' = IF m_isConneted THEN orphans \cup {links} ELSE orphans
  /\ UNCHANGED <<held, m_isConneted, bound, dealVars, links, open, mailVars>>

-----------------------------------------------------------------------------
(***************************************************************************)
(* The server, through the library: it answers a request at most once,     *)
(* over the connection it came by, and may close it.                       *)
(***************************************************************************)
Receive(msg) ==
  /\ received' = received + 1
  /\ arrived' = Append(arrived, msg)
  /\ UNCHANGED <<objVars, dealVars, linkVars, requests>>

ServerAnswers(req, code) ==
  /\ ~dead /\ received < MaxAnswers
  /\ req \notin answered /\ requests[req].link \in open
  /\ code \in CodesFor(requests[req].kind)
  /\ answered' = answered \cup {req}
  /\ Receive([n |-> received + 1, kind |-> requests[req].kind, req |-> req, code |-> code])

\* Any other message, as ZS2C_A_ErrorMessage.
ServerSendsOther ==
  /\ ~dead /\ received < MaxAnswers /\ open # {}
  /\ Receive([n |-> received + 1, kind |-> "other", req |-> 0, code |-> "LOGIN_FAIL"])
  /\ UNCHANGED answered

LinkEnds(link) ==
  /\ ~dead
  /\ open' = open \ {link}
  /\ UNCHANGED <<objVars, dealVars, links, orphans, mailVars>>

\* The error was fatal.
Halted == dead /\ UNCHANGED vars

Next ==
  \/ GetInstance
  \/ \E ok \in BOOLEAN : Connect(ok)
  \/ \E kind \in Kind : GameLogicSend(kind) \/ Bind(kind)
  \/ DealMsg \/ Dispatch \/ DealMsgEnd \/ DelegateReturns
  \/ LeaveLevel \/ CollectGarbage
  \/ \E req \in DOMAIN requests, code \in Code : ServerAnswers(req, code)
  \/ ServerSendsOther
  \/ \E link \in open : LinkEnds(link)
  \/ Halted

Spec == Init /\ [][Next]_vars

(***************************************************************************)
(* Fairness: the level's Tick calls DealMsg in every frame of the game, a  *)
(* loop that can go on does, and a delegate's calls come to an end.        *)
(***************************************************************************)
FairSpec ==
  /\ Spec
  /\ WF_vars(frames = <<>> /\ DealMsg)
  /\ WF_vars(Dispatch) /\ WF_vars(DealMsgEnd) /\ WF_vars(DelegateReturns)

-----------------------------------------------------------------------------
(***************************************************************************)
(* Type invariant of the client.                                           *)
(***************************************************************************)
ClientTypeOK ==
  /\ m_pNetLogic \in BOOLEAN /\ held \in BOOLEAN /\ (held => m_pNetLogic)
  /\ m_isConneted \in BOOLEAN /\ bound \subseteq Kind
  /\ frames \in Seq(Frame) /\ Len(frames) <= MaxDepth
  /\ dead \in BOOLEAN
  /\ handled \in Seq([msg : Answer, to : Kind \cup {"log"}, value : BOOLEAN, depth : 1 .. MaxDepth])
  /\ links \in 0 .. MaxLinks /\ open \subseteq 1 .. links /\ orphans \subseteq 0 .. links
  /\ requests \in Seq(Request) /\ Len(requests) <= MaxRequests
  /\ answered \subseteq DOMAIN requests
  /\ received \in 0 .. MaxAnswers /\ fetched \subseteq 1 .. MaxAnswers
  /\ arrived \in Seq(Answer)

\* The numbers of the messages dispatched.
Dispatched == { handled[i].msg.n : i \in DOMAIN handled }

(***************************************************************************)
(* DealMsg calls inside each other dispatch what the library returned to   *)
(* any of them exactly once: nothing twice, and nothing is left when the   *)
(* outermost call has returned.                                            *)
(***************************************************************************)
DispatchedOnce ==
  /\ \A i, j \in DOMAIN handled : handled[i].msg.n = handled[j].msg.n => i = j
  /\ Dispatched \subseteq fetched
  /\ frames = <<>> => Dispatched = fetched

(***************************************************************************)
(* Messages are dispatched in the order they were received, unless a       *)
(* delegate calls DealMsg: then the inner call's messages overtake what    *)
(* the outer one has left.                                                 *)
(***************************************************************************)
InOrderUnlessNested ==
  \A i, j \in DOMAIN handled :
    i < j /\ handled[i].msg.n > handled[j].msg.n => handled[i].depth > handled[j].depth

(***************************************************************************)
(* A delegate is only told what the server answered to a request of its    *)
(* own kind, and once per request.                                         *)
(***************************************************************************)
AnswersReported ==
  \A i \in DOMAIN handled : handled[i].to # "log" =>
    LET msg == handled[i].msg
    IN  /\ msg.req \in answered
        /\ requests[msg.req].kind = handled[i].to
        /\ handled[i].value = (msg.code \in {"LOGIN_OK", "REGSTER_OK"})
        /\ \A j \in 1 .. i - 1 : handled[j].msg.req # msg.req

(***************************************************************************)
(* The flag m_isConneted knows of every open connection, so that the next  *)
(* Connect closes it, except of those whose object was destroyed while it  *)
(* was connected: ~UProNetLogic leaves them open for good.                 *)
(***************************************************************************)
FlagKnowsConnection ==
  \A link \in open :
    link \in orphans \/ (m_pNetLogic /\ m_isConneted /\ link = links)

(***************************************************************************)
(* DealMsg returns, having dispatched what it and the calls inside it have *)
(* fetched (DispatchedOnce), whatever the delegates call, if they return.  *)
(***************************************************************************)
DealMsgReturns == frames # <<>> ~> (frames = <<>> \/ dead)
=============================================================================
