-------------------------- MODULE ProNetLogicProofs -------------------------
(***************************************************************************)
(* Proofs about the client's network logic ProNetLogic: whatever the       *)
(* delegates call, how deep DealMsg is nested, and how many requests,      *)
(* connections and messages there are.                                     *)
(***************************************************************************)
EXTENDS ProNetLogic, SequenceTheorems, TLAPS

-----------------------------------------------------------------------------
\* The type of an entry of handled (Dispatch).
Entry == [msg : Answer, to : Kind \cup {"log"}, value : BOOLEAN, depth : 1 .. MaxDepth]

\* Counting a delegate's call changes nothing else of the frames (Counted).
LEMMA CountedFacts ==
  ASSUME frames \in Seq(Frame), GameCalls
  PROVE  /\ Counted \in Seq(Frame) /\ Len(Counted) = Len(frames)
         /\ \A f \in 1 .. Len(frames) : Counted[f].rest = frames[f].rest
<1>0. Len(frames) \in Nat /\ frames \in [1 .. Len(frames) -> Frame]
  BY LenProperties
<1>1. CASE frames = <<>>
  BY <1>1 DEF Counted
<1>2. CASE frames # <<>>
  <2>1. Top \in 1 .. Len(frames)
    BY <1>0, <1>2, EmptySeq DEF Top
  <2>2. frames[Top] \in Frame /\ frames[Top].calls \in 0 .. MaxCalls /\ frames[Top].calls < MaxCalls
    BY <1>0, <1>2, <2>1 DEF GameCalls, Frame
  <2> DEFINE g == [frames[Top] EXCEPT !.calls = @ + 1]
  <2>3. g \in Frame /\ g.rest = frames[Top].rest
    <3>1. frames[Top].calls + 1 \in 0 .. MaxCalls
      BY <2>2, ClientAssumption
    <3> QED BY <2>2, <3>1 DEF Frame
  <2>4. Counted = [frames EXCEPT ![Top] = g]
    BY <1>2 DEF Counted
  <2> HIDE DEF g
  <2>5. Counted \in [1 .. Len(frames) -> Frame]
    BY <1>0, <2>3, <2>4
  <2>6. Counted \in Seq(Frame) /\ Len(Counted) = Len(frames)
    BY <1>0, <2>5
  <2>7. \A f \in 1 .. Len(frames) : Counted[f] = IF f = Top THEN g ELSE frames[f]
    BY <1>0, <2>1, <2>4
  <2> QED BY <2>3, <2>6, <2>7
<1> QED BY <1>1, <1>2

\* Steps that leave every loop where it is.
Quiet ==
  \/ GetInstance \/ (\E ok \in BOOLEAN : Connect(ok))
  \/ (\E kind \in Kind : GameLogicSend(kind) \/ Bind(kind))
  \/ DelegateReturns \/ LeaveLevel \/ CollectGarbage
  \/ (\E req \in DOMAIN requests, code \in Code : ServerAnswers(req, code))
  \/ ServerSendsOther \/ (\E link \in open : LinkEnds(link))

\* The frames after such a step (Counted, DelegateReturns).
LEMMA QuietFrames ==
  ASSUME ClientTypeOK, Quiet
  PROVE  /\ frames' \in Seq(Frame) /\ Len(frames') = Len(frames)
         /\ \A f \in 1 .. Len(frames) : frames'[f].rest = frames[f].rest
<1>0. frames \in Seq(Frame) /\ Len(frames) \in Nat /\ frames \in [1 .. Len(frames) -> Frame]
  BY LenProperties DEF ClientTypeOK
<1>1. CASE DelegateReturns
  <2>1. Top \in 1 .. Len(frames)
    BY <1>0, <1>1, EmptySeq DEF Top, DelegateReturns
  <2> DEFINE g == [frames[Top] EXCEPT !.busy = FALSE]
  <2>2. g \in Frame /\ g.rest = frames[Top].rest
    BY <1>0, <2>1 DEF Frame
  <2>3. frames' = [frames EXCEPT ![Top] = g]
    BY <1>1 DEF DelegateReturns
  <2> HIDE DEF g
  <2>4. frames' \in [1 .. Len(frames) -> Frame]
    BY <1>0, <2>2, <2>3
  <2>5. frames' \in Seq(Frame) /\ Len(frames') = Len(frames)
    BY <1>0, <2>4
  <2>6. \A f \in 1 .. Len(frames) : frames'[f] = IF f = Top THEN g ELSE frames[f]
    BY <1>0, <2>1, <2>3
  <2> QED BY <2>2, <2>5, <2>6
<1>2. CASE UNCHANGED frames
  BY <1>0, <1>2
<1>3. CASE GameCalls /\ frames' = Counted
  BY <1>0, <1>3, CountedFacts
<1>4. DelegateReturns \/ UNCHANGED frames \/ (GameCalls /\ frames' = Counted)
  BY DEF Quiet, GetInstance, Connect, GameLogicSend, Bind, LeaveLevel, CollectGarbage,
         ServerAnswers, ServerSendsOther, Receive, LinkEnds, dealVars
<1> QED BY <1>1, <1>2, <1>3, <1>4

\* The frames after DealMsg was called: one more, with what arrived.
LEMMA DealMsgFrames ==
  ASSUME ClientTypeOK, DealMsg
  PROVE  /\ frames' \in Seq(Frame) /\ Len(frames') = Len(frames) + 1
         /\ \A f \in 1 .. Len(frames) : frames'[f].rest = frames[f].rest
         /\ \A f \in 1 .. Len(frames') : f = Len(frames) + 1 => frames'[f].rest = arrived
<1> DEFINE g == [rest |-> arrived, busy |-> FALSE, calls |-> 0]
<1>1. frames \in Seq(Frame) /\ GameCalls /\ frames' = Append(Counted, g) /\ Len(frames) \in Nat
  BY LenProperties DEF ClientTypeOK, DealMsg
<1>2. g \in Frame /\ g.rest = arrived
  BY ClientAssumption DEF ClientTypeOK, Frame
<1> HIDE DEF g
<1>3. /\ Counted \in Seq(Frame) /\ Len(Counted) = Len(frames)
      /\ \A f \in 1 .. Len(frames) : Counted[f].rest = frames[f].rest
  BY <1>1, CountedFacts
<1>4. /\ frames' \in Seq(Frame) /\ Len(frames') = Len(Counted) + 1
      /\ \A f \in 1 .. Len(Counted) : frames'[f] = Counted[f]
      /\ frames'[Len(Counted) + 1] = g
  BY <1>1, <1>2, <1>3, AppendProperties
<1> QED BY <1>1, <1>2, <1>3, <1>4

\* The frames and the history after one turn of the innermost loop.
LEMMA DispatchFrames ==
  ASSUME ClientTypeOK, Dispatch
  PROVE  /\ Top \in 1 .. Len(frames) /\ Top = Len(frames) /\ Top \in 1 .. MaxDepth
         /\ frames[Top].rest \in Seq(Answer) /\ frames[Top].rest # <<>>
         /\ frames' \in Seq(Frame) /\ Len(frames') = Len(frames)
         /\ \A f \in 1 .. Len(frames) :
              frames'[f].rest = IF f = Top THEN Tail(frames[Top].rest) ELSE frames[f].rest
         /\ \E e \in Entry :
              /\ e.msg = Head(frames[Top].rest) /\ e.depth = Top /\ e.value = Argument(e.msg)
              /\ e.to = IF e.msg.kind \in Kind THEN e.msg.kind ELSE "log"
              /\ dead' = (e.to # "log" /\ e.to \notin bound)
              /\ handled' = Append(handled, e)
<1>0. frames \in Seq(Frame) /\ Len(frames) \in Nat /\ frames \in [1 .. Len(frames) -> Frame]
      /\ Len(frames) <= MaxDepth /\ MaxDepth \in Nat
  BY LenProperties, ClientAssumption DEF ClientTypeOK
<1>1. Top \in 1 .. Len(frames) /\ Top = Len(frames) /\ Top \in 1 .. MaxDepth
  BY <1>0, EmptySeq DEF Top, Dispatch
<1>2. frames[Top] \in Frame /\ frames[Top].rest \in Seq(Answer) /\ frames[Top].rest # <<>>
  BY <1>0, <1>1 DEF Frame, Dispatch
<1> DEFINE r == frames[Top].rest  msg == Head(r)
           to == IF msg.kind \in Kind THEN msg.kind ELSE "log"
           g == [frames[Top] EXCEPT !.rest = Tail(r), !.busy = (to # "log"), !.calls = 0]
           e == [msg |-> msg, to |-> to, value |-> Argument(msg), depth |-> Top]
<1>3. msg \in Answer /\ Tail(r) \in Seq(Answer)
  BY <1>2, HeadTailProperties
<1>4. /\ dead' = (to # "log" /\ to \notin bound)
      /\ handled' = Append(handled, e) /\ frames' = [frames EXCEPT ![Top] = g]
  BY DEF Dispatch
<1>5. e \in Entry /\ e.msg = msg /\ e.to = to /\ e.value = Argument(msg) /\ e.depth = Top
  <2>1. Argument(msg) \in BOOLEAN /\ to \in Kind \cup {"log"}
    BY DEF Argument
  <2> QED BY <1>1, <1>3, <2>1 DEF Entry
<1>6. g \in Frame /\ g.rest = Tail(r)
  <2>1. (to # "log") \in BOOLEAN /\ 0 \in 0 .. MaxCalls
    BY ClientAssumption
  <2> QED BY <1>2, <1>3, <2>1 DEF Frame
<1> HIDE DEF g, e
<1>7. frames' \in [1 .. Len(frames) -> Frame]
  BY <1>0, <1>4, <1>6
<1>8. frames' \in Seq(Frame) /\ Len(frames') = Len(frames)
  BY <1>0, <1>7
<1>9. \A f \in 1 .. Len(frames) : frames'[f] = IF f = Top THEN g ELSE frames[f]
  BY <1>0, <1>1, <1>4
<1>10. \A f \in 1 .. Len(frames) :
         frames'[f].rest = IF f = Top THEN Tail(frames[Top].rest) ELSE frames[f].rest
  BY <1>1, <1>6, <1>9
<1>11. \E x \in Entry :
         /\ x.msg = Head(frames[Top].rest) /\ x.depth = Top /\ x.value = Argument(x.msg)
         /\ x.to = IF x.msg.kind \in Kind THEN x.msg.kind ELSE "log"
         /\ dead' = (x.to # "log" /\ x.to \notin bound)
         /\ handled' = Append(handled, x)
  BY <1>4, <1>5
<1> QED BY <1>1, <1>2, <1>8, <1>10, <1>11

\* The frames after DealMsg returned: the innermost is gone, and had nothing left.
LEMMA EndFrames ==
  ASSUME ClientTypeOK, DealMsgEnd
  PROVE  /\ Len(frames) \in Nat \ {0} /\ frames[Len(frames)].rest = <<>>
         /\ frames' \in Seq(Frame) /\ Len(frames') = Len(frames) - 1
         /\ \A f \in 1 .. Len(frames) - 1 : frames'[f] = frames[f]
<1>0. frames \in Seq(Frame) /\ Len(frames) \in Nat /\ frames \in [1 .. Len(frames) -> Frame]
  BY LenProperties DEF ClientTypeOK
<1> DEFINE m == Len(frames) - 1
<1>1. m \in Nat /\ frames[Len(frames)].rest = <<>> /\ frames' = SubSeq(frames, 1, m)
  BY <1>0, EmptySeq DEF DealMsgEnd, Top
<1>2. \A i \in 1 .. m : frames[i] \in Frame
  BY <1>0, <1>1
<1>3. Len(frames) = m + 1
  BY <1>0
<1> HIDE DEF m
<1> DEFINE t == SubSeq(frames, 1, m)
<1>4. /\ t \in Seq(Frame) /\ Len(t) = IF 1 <= m THEN m - 1 + 1 ELSE 0
      /\ \A i \in 1 .. m - 1 + 1 : t[i] = frames[1 + i - 1]
  BY <1>1, <1>2, SubSeqProperties
<1>5. frames' = t
  BY <1>1
<1> HIDE DEF t
<1>6. Len(t) = m /\ \A i \in 1 .. m : t[i] = frames[i]
  BY <1>1, <1>4
<1> QED BY <1>1, <1>3, <1>4, <1>5, <1>6

-----------------------------------------------------------------------------
(***************************************************************************)
(* Types.                                                                  *)
(***************************************************************************)

\* The messages the server may send are of the message type.
LEMMA AnswerType ==
  ASSUME ClientTypeOK, NEW req \in DOMAIN requests, NEW code \in Code, ServerAnswers(req, code)
  PROVE  /\ [n |-> received + 1, kind |-> requests[req].kind, req |-> req, code |-> code] \in Answer
         /\ requests[req].kind \in Kind
<1>1. /\ requests \in [1 .. Len(requests) -> Request] /\ DOMAIN requests = 1 .. Len(requests)
      /\ Len(requests) \in Nat /\ Len(requests) <= MaxRequests /\ MaxRequests \in Nat
      /\ received \in 0 .. MaxAnswers /\ MaxAnswers \in Nat
  BY LenProperties, ClientAssumption DEF ClientTypeOK
<1>2. received + 1 \in 1 .. MaxAnswers /\ req \in 0 .. MaxRequests
  BY <1>1 DEF ServerAnswers
<1>3. requests[req].kind \in Kind
  BY <1>1 DEF Request
<1> QED BY <1>2, <1>3 DEF Answer

LEMMA OtherType ==
  ASSUME ClientTypeOK, ServerSendsOther
  PROVE  [n |-> received + 1, kind |-> "other", req |-> 0, code |-> "LOGIN_FAIL"] \in Answer
<1>1. received + 1 \in 1 .. MaxAnswers /\ 0 \in 0 .. MaxRequests
  BY ClientAssumption DEF ClientTypeOK, ServerSendsOther
<1> QED BY <1>1 DEF Answer, Code

\* The types of the other variables after a step that leaves the loops alone.
LEMMA QuietType ==
  ASSUME ClientTypeOK, Quiet
  PROVE  ClientTypeOK'
<1>1. frames' \in Seq(Frame) /\ Len(frames') = Len(frames)
  BY QuietFrames
<1>2. links \in 0 .. MaxLinks /\ MaxLinks \in Nat /\ requests \in Seq(Request)
      /\ Len(requests) \in Nat /\ Len(requests) <= MaxRequests /\ MaxRequests \in Nat
      /\ DOMAIN requests = 1 .. Len(requests) /\ requests \in [1 .. Len(requests) -> Request]
      /\ received \in 0 .. MaxAnswers /\ MaxAnswers \in Nat
  BY LenProperties, ClientAssumption DEF ClientTypeOK
<1> USE DEF ClientTypeOK
<1>3. CASE GetInstance
  BY <1>1, <1>3 DEF GetInstance, linkVars, mailVars
<1>4. ASSUME NEW ok \in BOOLEAN, Connect(ok) PROVE ClientTypeOK'
  <2>1. links' \in 0 .. MaxLinks /\ open' \subseteq 1 .. links' /\ orphans' \subseteq 0 .. links'
    BY <1>2, <1>4 DEF Connect
  <2>2. arrived' \in Seq(Answer)
    <3>1. arrived' = arrived \/ arrived' = <<>>
      BY <1>4 DEF Connect
    <3>2. arrived \in Seq(Answer) /\ <<>> \in Seq(Answer)
      OBVIOUS
    <3> HIDE DEF ClientTypeOK
    <3> QED BY <3>1, <3>2
  <2> QED BY <1>1, <1>4, <2>1, <2>2 DEF Connect
<1>5. ASSUME NEW kind \in Kind, GameLogicSend(kind) PROVE ClientTypeOK'
  <2> DEFINE r == [kind |-> kind, link |-> links]
  <2>1. CASE links \in open
    <3>1. r \in Request
      BY <1>2, <2>1 DEF Request
    <3>2. requests' = Append(requests, r) /\ Len(requests) < MaxRequests
      BY <1>5, <2>1 DEF GameLogicSend
    <3> HIDE DEF r
    <3>3. requests' \in Seq(Request) /\ Len(requests') = Len(requests) + 1
      BY <1>2, <3>1, <3>2, AppendProperties
    <3>4. DOMAIN requests' = 1 .. Len(requests) + 1
      BY <3>3, LenProperties
    <3>5. Len(requests') <= MaxRequests /\ answered \subseteq DOMAIN requests'
      BY <1>2, <3>2, <3>3, <3>4
    <3> QED BY <1>1, <1>5, <3>3, <3>5 DEF GameLogicSend, objVars, linkVars
  <2>2. CASE links \notin open
    BY <1>1, <1>5, <2>2 DEF GameLogicSend, objVars, linkVars
  <2> QED BY <2>1, <2>2
<1>6. ASSUME NEW kind \in Kind, Bind(kind) PROVE ClientTypeOK'
  BY <1>1, <1>6 DEF Bind, linkVars, mailVars
<1>7. CASE DelegateReturns
  BY <1>1, <1>7 DEF DelegateReturns, objVars, linkVars, mailVars
<1>8. CASE LeaveLevel
  BY <1>1, <1>8 DEF LeaveLevel, dealVars, linkVars, mailVars
<1>9. CASE CollectGarbage
  <2>1. orphans' \subseteq 0 .. links
    BY <1>2, <1>9 DEF CollectGarbage
  <2> QED BY <1>1, <1>9, <2>1 DEF CollectGarbage, dealVars, mailVars
<1>10. ASSUME NEW msg \in Answer, Receive(msg), received < MaxAnswers,
              answered' \subseteq DOMAIN requests
       PROVE  ClientTypeOK'
  <2>1. arrived' \in Seq(Answer)
    BY <1>10, AppendProperties DEF Receive
  <2>2. received' \in 0 .. MaxAnswers
    BY <1>2, <1>10 DEF Receive
  <2> QED BY <1>1, <1>10, <2>1, <2>2 DEF Receive, objVars, dealVars, linkVars
<1>11. ASSUME NEW req \in DOMAIN requests, NEW code \in Code, ServerAnswers(req, code)
       PROVE  ClientTypeOK'
  <2> DEFINE a == [n |-> received + 1, kind |-> requests[req].kind, req |-> req, code |-> code]
  <2>1. a \in Answer
    BY <1>11, AnswerType
  <2>2. Receive(a) /\ received < MaxAnswers /\ answered' \subseteq DOMAIN requests
    BY <1>11 DEF ServerAnswers
  <2> QED BY <1>10, <2>1, <2>2
<1>12. CASE ServerSendsOther
  <2> DEFINE a == [n |-> received + 1, kind |-> "other", req |-> 0, code |-> "LOGIN_FAIL"]
  <2>2. a \in Answer
    BY <1>12, OtherType
  <2>3. Receive(a) /\ received < MaxAnswers /\ answered' \subseteq DOMAIN requests
    BY <1>12 DEF ServerSendsOther
  <2> QED BY <1>10, <2>2, <2>3
<1>13. ASSUME NEW link \in open, LinkEnds(link) PROVE ClientTypeOK'
  BY <1>1, <1>13 DEF LinkEnds, objVars, dealVars, mailVars
<1> QED BY <1>3, <1>4, <1>5, <1>6, <1>7, <1>8, <1>9, <1>11, <1>12, <1>13 DEF Quiet

\* Every step keeps the types (Next).
LEMMA TypeStep ==
  ASSUME ClientTypeOK, [Next]_vars
  PROVE  ClientTypeOK'
<1>1. CASE Quiet
  BY <1>1, QuietType
<1>2. CASE DealMsg
  <2>1. frames' \in Seq(Frame) /\ Len(frames') = Len(frames) + 1
    BY <1>2, DealMsgFrames
  <2>2. Len(frames') <= MaxDepth
    BY <1>2, <2>1, LenProperties, ClientAssumption DEF ClientTypeOK, DealMsg, Top
  <2>3. fetched' \subseteq 1 .. MaxAnswers
    <3>0. arrived \in Seq(Answer)
      BY DEF ClientTypeOK
    <3>1. \A i \in DOMAIN arrived : arrived[i].n \in 1 .. MaxAnswers
      <4>1. arrived \in [1 .. Len(arrived) -> Answer]
        BY <3>0, LenProperties
      <4>2. \A i \in DOMAIN arrived : arrived[i] \in Answer
        BY <4>1
      <4> QED BY <4>2 DEF Answer
    <3> QED BY <1>2, <3>1 DEF ClientTypeOK, DealMsg
  <2> QED BY <1>2, <2>1, <2>2, <2>3 DEF ClientTypeOK, DealMsg, objVars, linkVars
<1>3. CASE Dispatch
  <2>1. frames' \in Seq(Frame) /\ Len(frames') = Len(frames) /\ dead' \in BOOLEAN
    BY <1>3, DispatchFrames
  <2>2. handled \in Seq(Entry)
    BY DEF ClientTypeOK, Entry
  <2>3. handled' \in Seq(Entry)
    BY <1>3, <2>2, DispatchFrames, AppendProperties
  <2> QED BY <1>3, <2>1, <2>3 DEF ClientTypeOK, Dispatch, Entry, objVars, linkVars, mailVars
<1>4. CASE DealMsgEnd
  <2>1. frames' \in Seq(Frame) /\ Len(frames') <= MaxDepth
    BY <1>4, EndFrames, ClientAssumption DEF ClientTypeOK
  <2> QED BY <1>4, <2>1 DEF ClientTypeOK, DealMsgEnd, objVars, linkVars, mailVars
<1>5. CASE UNCHANGED vars
  BY <1>5 DEF ClientTypeOK, vars, objVars, dealVars, linkVars, mailVars
<1> QED BY <1>1, <1>2, <1>3, <1>4, <1>5 DEF Next, Quiet, Halted

-----------------------------------------------------------------------------
(***************************************************************************)
(* Connections and delegates.                                              *)
(***************************************************************************)

\* Every step keeps FlagKnowsConnection (Connect, GetInstance, ~UProNetLogic).
LEMMA FlagStep ==
  ASSUME ClientTypeOK, FlagKnowsConnection, [Next]_vars
  PROVE  FlagKnowsConnection'
<1> USE DEF FlagKnowsConnection
<1>0. links \in Nat /\ open \subseteq 1 .. links /\ (held => m_pNetLogic)
  BY ClientAssumption DEF ClientTypeOK
<1>1. CASE GetInstance
  BY <1>1 DEF GetInstance, linkVars
<1>2. ASSUME NEW ok \in BOOLEAN, Connect(ok) PROVE FlagKnowsConnection'
  <2> SUFFICES ASSUME NEW link \in open'
               PROVE  link \in orphans \/ (m_pNetLogic' /\ m_isConneted' /\ link = links')
    BY <1>2 DEF Connect
  <2>1. CASE ok /\ link = links + 1
    BY <1>0, <1>2, <2>1 DEF Connect
  <2>2. CASE link \in open /\ (m_isConneted => link # links)
    BY <2>2
  <2> QED BY <1>2, <2>1, <2>2 DEF Connect
<1>3. CASE CollectGarbage
  BY <1>3 DEF CollectGarbage
<1>4. ASSUME NEW link \in open, LinkEnds(link) PROVE FlagKnowsConnection'
  BY <1>4 DEF LinkEnds, objVars
<1>5. CASE UNCHANGED <<m_pNetLogic, m_isConneted, linkVars>>
  BY <1>5 DEF linkVars
<1>6. \/ GetInstance \/ (\E ok \in BOOLEAN : Connect(ok)) \/ CollectGarbage
      \/ (\E link \in open : LinkEnds(link))
      \/ UNCHANGED <<m_pNetLogic, m_isConneted, linkVars>>
  BY DEF Next, GameLogicSend, Bind, DealMsg, Dispatch, DealMsgEnd, DelegateReturns, LeaveLevel,
         ServerAnswers, ServerSendsOther, Receive, Halted, vars, objVars, linkVars
<1> QED BY <1>1, <1>2, <1>3, <1>4, <1>5, <1>6

\* Init has no object, no loop and no connection.
LEMMA ClientInit ==
  ASSUME Init
  PROVE  ClientTypeOK /\ FlagKnowsConnection
<1> USE DEF Init
<1>1. /\ <<>> \in Seq(Frame) /\ <<>> \in Seq(Answer) /\ <<>> \in Seq(Entry)
      /\ <<>> \in Seq(Request) /\ Len(<<>>) = 0
  OBVIOUS
<1>2. ClientTypeOK
  <2>1. /\ frames \in Seq(Frame) /\ Len(frames) <= MaxDepth
        /\ handled \in Seq(Entry) /\ arrived \in Seq(Answer)
        /\ requests \in Seq(Request) /\ Len(requests) <= MaxRequests
    BY <1>1, ClientAssumption
  <2>2. /\ links \in 0 .. MaxLinks /\ open \subseteq 1 .. links /\ orphans \subseteq 0 .. links
        /\ answered \subseteq DOMAIN requests
        /\ received \in 0 .. MaxAnswers /\ fetched \subseteq 1 .. MaxAnswers
    BY ClientAssumption
  <2>3. m_pNetLogic \in BOOLEAN /\ held \in BOOLEAN /\ (held => m_pNetLogic)
        /\ m_isConneted \in BOOLEAN /\ bound \subseteq Kind /\ dead \in BOOLEAN
    OBVIOUS
  <2> QED BY <2>1, <2>2, <2>3 DEF ClientTypeOK, Entry
<1>3. FlagKnowsConnection
  BY DEF FlagKnowsConnection
<1> QED BY <1>2, <1>3

\* The client's type invariant, for all bounds (the fields of UProNetLogic).
THEOREM ClientTypeCorrect == Spec => []ClientTypeOK
<1>1. Init => ClientTypeOK
  BY ClientInit
<1>2. ClientTypeOK /\ [Next]_vars => ClientTypeOK'
  BY TypeStep
<1> QED BY <1>1, <1>2, PTL DEF Spec

(***************************************************************************)
(* Every open connection is the one m_isConneted tells of, or the object   *)
(* that made it was destroyed without disconnecting (~UProNetLogic).       *)
(***************************************************************************)
THEOREM ConnectionsKnown == Spec => []FlagKnowsConnection
<1>1. Init => FlagKnowsConnection
  BY ClientInit
<1>2. ClientTypeOK /\ FlagKnowsConnection /\ [Next]_vars => FlagKnowsConnection'
  BY FlagStep
<1> QED BY <1>1, <1>2, ClientTypeCorrect, PTL DEF Spec

-----------------------------------------------------------------------------
(***************************************************************************)
(* The order of the messages.                                              *)
(***************************************************************************)

\* The numbers of the messages in a sequence; they are in increasing order.
Nums(s) == { s[i].n : i \in 1 .. Len(s) }
Increasing(s) == \A i, j \in 1 .. Len(s) : i < j => s[i].n < s[j].n

\* The numbers of an empty sequence, and that numbers are numbers.
LEMMA NumsFacts ==
  /\ Nums(<<>>) = {} /\ Increasing(<<>>)
  /\ \A s \in Seq(Answer) : Nums(s) \subseteq Nat
<1>1. Nums(<<>>) = {} /\ Increasing(<<>>)
  BY DEF Nums, Increasing
<1>2. ASSUME NEW s \in Seq(Answer) PROVE Nums(s) \subseteq Nat
  <2>1. \A i \in 1 .. Len(s) : s[i] \in Answer
    BY <1>2, LenProperties
  <2>2. \A a \in Answer : a.n \in Nat
    BY ClientAssumption DEF Answer
  <2> QED BY <2>1, <2>2 DEF Nums
<1> QED BY <1>1, <1>2

\* Taking the first message (Dispatch).
LEMMA NumsTail ==
  ASSUME NEW s \in Seq(Answer), s # <<>>, Increasing(s)
  PROVE  /\ Nums(s) = {Head(s).n} \cup Nums(Tail(s)) /\ Increasing(Tail(s))
         /\ Head(s).n \in Nat /\ \A n \in Nums(Tail(s)) : Head(s).n < n
<1>1. Len(s) \in Nat /\ Len(s) > 0 /\ \A i \in 1 .. Len(s) : s[i] \in Answer
  BY EmptySeq, LenProperties
<1> DEFINE t == Tail(s)
<1>2. /\ t \in Seq(Answer) /\ Len(t) = Len(s) - 1 /\ Head(s) = s[1]
      /\ \A i \in 1 .. Len(s) - 1 : t[i] = s[i + 1]
  BY HeadTailProperties
<1> HIDE DEF t
<1>3. \A i \in 1 .. Len(s) : i = 1 \/ (i - 1 \in 1 .. Len(t) /\ s[i] = t[i - 1])
  BY <1>1, <1>2
<1>4. \A i \in 1 .. Len(t) : i + 1 \in 1 .. Len(s) /\ t[i] = s[i + 1]
  BY <1>1, <1>2
<1>5. Nums(s) = {s[1].n} \cup Nums(t)
  <2>1. 1 \in 1 .. Len(s)
    BY <1>1
  <2>2. Nums(s) \subseteq {s[1].n} \cup Nums(t)
    BY <1>3 DEF Nums
  <2>3. Nums(t) \subseteq Nums(s)
    BY <1>4 DEF Nums
  <2>4. s[1].n \in Nums(s)
    BY <2>1 DEF Nums
  <2> QED BY <2>2, <2>3, <2>4
<1>6. Increasing(t)
  <2> SUFFICES ASSUME NEW i \in 1 .. Len(t), NEW j \in 1 .. Len(t), i < j PROVE t[i].n < t[j].n
    BY DEF Increasing
  <2>1. i + 1 < j + 1 /\ i + 1 \in 1 .. Len(s) /\ j + 1 \in 1 .. Len(s)
    BY <1>1, <1>2
  <2>2. s[i + 1].n < s[j + 1].n
    BY <2>1 DEF Increasing
  <2> QED BY <1>4, <2>2
<1>7. \A n \in Nums(t) : s[1].n < n
  <2> SUFFICES ASSUME NEW i \in 1 .. Len(t) PROVE s[1].n < t[i].n
    BY DEF Nums
  <2>1. 1 < i + 1 /\ 1 \in 1 .. Len(s) /\ i + 1 \in 1 .. Len(s)
    BY <1>1, <1>2
  <2>2. s[1].n < s[i + 1].n
    BY <2>1 DEF Increasing
  <2> QED BY <1>4, <2>2
<1>8. s[1].n \in Nat
  <2>1. s[1] \in Answer
    BY <1>1
  <2> QED BY <2>1, ClientAssumption DEF Answer
<1> QED BY <1>2, <1>5, <1>6, <1>7, <1>8 DEF t

\* Receiving a message (Receive).
LEMMA NumsAppend ==
  ASSUME NEW s \in Seq(Answer), NEW a \in Answer, Increasing(s), \A n \in Nums(s) : n < a.n
  PROVE  Nums(Append(s, a)) = Nums(s) \cup {a.n} /\ Increasing(Append(s, a))
<1> DEFINE t == Append(s, a)
<1>1. /\ t \in Seq(Answer) /\ Len(t) = Len(s) + 1
      /\ \A i \in 1 .. Len(s) : t[i] = s[i]
      /\ t[Len(s) + 1] = a /\ Len(s) \in Nat
  BY AppendProperties, LenProperties
<1> HIDE DEF t
<1>2. \A i \in 1 .. Len(t) : i = Len(s) + 1 \/ i \in 1 .. Len(s)
  BY <1>1
<1>3. Nums(t) = Nums(s) \cup {a.n}
  <2>1. Nums(t) \subseteq Nums(s) \cup {a.n}
    BY <1>1, <1>2 DEF Nums
  <2>2. Nums(s) \subseteq Nums(t)
    <3>1. 1 .. Len(s) \subseteq 1 .. Len(t)
      BY <1>1
    <3> QED BY <1>1, <3>1 DEF Nums
  <2>3. Len(s) + 1 \in 1 .. Len(t)
    BY <1>1
  <2>4. a.n \in Nums(t)
    BY <1>1, <2>3 DEF Nums
  <2> QED BY <2>1, <2>2, <2>4
<1>4. Increasing(t)
  <2> SUFFICES ASSUME NEW i \in 1 .. Len(t), NEW j \in 1 .. Len(t), i < j PROVE t[i].n < t[j].n
    BY DEF Increasing
  <2>1. i \in 1 .. Len(s)
    BY <1>1
  <2>2. CASE j \in 1 .. Len(s)
    BY <1>1, <2>1, <2>2 DEF Increasing
  <2>3. CASE j = Len(s) + 1
    BY <1>1, <2>1, <2>3 DEF Nums
  <2> QED BY <1>2, <2>2, <2>3
<1> QED BY <1>3, <1>4 DEF t

\* Messages dispatched: distinct, and in the order InOrderUnlessNested states.
DispatchedInOrder ==
  /\ \A i, j \in 1 .. Len(handled) : handled[i].msg.n = handled[j].msg.n => i = j
  /\ \A i, j \in 1 .. Len(handled) :
       i < j /\ handled[i].msg.n > handled[j].msg.n => handled[i].depth > handled[j].depth

\* Messages the library has: in order, and newer than all that were fetched.
ArrivedInOrder ==
  /\ Increasing(arrived) /\ Nums(arrived) \subseteq 1 .. received
  /\ fetched \subseteq 1 .. received
  /\ \A m \in fetched, n \in Nums(arrived) : m < n

\* Messages in the loops: those fetched and not dispatched, the oldest in the
\* outermost loop; a newer one was dispatched only further inside.
WaitingInOrder ==
  /\ \A f \in 1 .. Len(frames) : /\ Increasing(frames[f].rest)
                                 /\ Nums(frames[f].rest) \subseteq fetched \ Dispatched
  /\ \A f, g \in 1 .. Len(frames) : f < g =>
       \A m \in Nums(frames[f].rest), n \in Nums(frames[g].rest) : m < n
  /\ \A f \in 1 .. Len(frames) : \A i \in 1 .. Len(handled), n \in Nums(frames[f].rest) :
       handled[i].msg.n > n => handled[i].depth > f
  /\ Dispatched \subseteq fetched
  /\ \A n \in fetched : n \in Dispatched \/ \E f \in 1 .. Len(frames) : n \in Nums(frames[f].rest)

OrderInv == DispatchedInOrder /\ ArrivedInOrder /\ WaitingInOrder

\* Dispatched by positions (handled is a sequence).
LEMMA DispatchedFacts ==
  ASSUME ClientTypeOK
  PROVE  Dispatched = { handled[i].msg.n : i \in 1 .. Len(handled) }
<1>1. DOMAIN handled = 1 .. Len(handled)
  BY LenProperties DEF ClientTypeOK
<1> QED BY <1>1 DEF Dispatched

\* The loops' messages are messages (Frame).
LEMMA RestFacts ==
  ASSUME ClientTypeOK
  PROVE  Len(frames) \in Nat /\ \A f \in 1 .. Len(frames) : frames[f].rest \in Seq(Answer)
<1>1. frames \in Seq(Frame) /\ Len(frames) \in Nat /\ frames \in [1 .. Len(frames) -> Frame]
  BY LenProperties DEF ClientTypeOK
<1> QED BY <1>1 DEF Frame

\* A step that leaves the loops alone receives at most one message (Connect,
\* Receive).
LEMMA QuietOrder ==
  ASSUME ClientTypeOK, OrderInv, Quiet
  PROVE  OrderInv'
<1>1. /\ Len(frames') = Len(frames)
      /\ \A f \in 1 .. Len(frames) : frames'[f].rest = frames[f].rest
  BY QuietFrames
<1>2. UNCHANGED <<handled, fetched>>
  BY DEF Quiet, GetInstance, Connect, GameLogicSend, Bind, DelegateReturns, LeaveLevel,
         CollectGarbage, ServerAnswers, ServerSendsOther, Receive, LinkEnds, dealVars
<1>3. DispatchedInOrder' /\ Dispatched' = Dispatched
  BY <1>2 DEF OrderInv, DispatchedInOrder, Dispatched
<1>4. WaitingInOrder'
  <2>1. \A f \in 1 .. Len(frames) : Nums(frames'[f].rest) = Nums(frames[f].rest)
                                    /\ (Increasing(frames[f].rest) => Increasing(frames'[f].rest))
    BY <1>1
  <2> QED BY <1>1, <1>2, <1>3, <2>1 DEF OrderInv, WaitingInOrder
<1>5. ASSUME NEW msg \in Answer, msg.n = received + 1, Receive(msg) PROVE ArrivedInOrder'
  <2>0. arrived \in Seq(Answer) /\ received \in Nat /\ Increasing(arrived)
        /\ Nums(arrived) \subseteq 1 .. received
        /\ fetched \subseteq 1 .. received /\ \A m \in fetched, n \in Nums(arrived) : m < n
    BY DEF ClientTypeOK, OrderInv, ArrivedInOrder
  <2>1. \A n \in Nums(arrived) : n < msg.n
    BY <1>5, <2>0
  <2>2. Nums(arrived') = Nums(arrived) \cup {received + 1} /\ Increasing(arrived')
        /\ received' = received + 1
    BY <1>5, <2>0, <2>1, NumsAppend DEF Receive
  <2>3. Nums(arrived') \subseteq 1 .. received' /\ fetched' \subseteq 1 .. received'
    BY <1>2, <2>0, <2>2
  <2>4. \A m \in fetched', n \in Nums(arrived') : m < n
    BY <1>2, <2>0, <2>2
  <2> QED BY <2>2, <2>3, <2>4 DEF ArrivedInOrder
<1>6. ASSUME arrived' \in {arrived, <<>>}, UNCHANGED received PROVE ArrivedInOrder'
  <2>1. CASE arrived' = arrived
    BY <1>2, <1>6, <2>1 DEF OrderInv, ArrivedInOrder
  <2>2. CASE arrived' = <<>>
    <3>1. Nums(arrived') = {} /\ Increasing(arrived')
      BY <2>2, NumsFacts
    <3> QED BY <1>2, <1>6, <3>1 DEF OrderInv, ArrivedInOrder
  <2> QED BY <1>6, <2>1, <2>2
<1>7. ASSUME NEW req \in DOMAIN requests, NEW code \in Code, ServerAnswers(req, code)
      PROVE  ArrivedInOrder'
  <2> DEFINE a == [n |-> received + 1, kind |-> requests[req].kind, req |-> req, code |-> code]
  <2>1. a \in Answer /\ a.n = received + 1 /\ Receive(a)
    BY <1>7, AnswerType DEF ServerAnswers
  <2> HIDE DEF a
  <2> QED BY <1>5, <2>1
<1>8. ASSUME ServerSendsOther PROVE ArrivedInOrder'
  <2> DEFINE a == [n |-> received + 1, kind |-> "other", req |-> 0, code |-> "LOGIN_FAIL"]
  <2>1. a \in Answer /\ a.n = received + 1 /\ Receive(a)
    BY <1>8, OtherType DEF ServerSendsOther
  <2> HIDE DEF a
  <2> QED BY <1>5, <2>1
<1>9. \/ (\E req \in DOMAIN requests, code \in Code : ServerAnswers(req, code))
      \/ ServerSendsOther
      \/ arrived' \in {arrived, <<>>} /\ UNCHANGED received
  BY DEF Quiet, GetInstance, Connect, GameLogicSend, Bind, DelegateReturns, LeaveLevel,
         CollectGarbage, LinkEnds, mailVars
<1> QED BY <1>3, <1>4, <1>6, <1>7, <1>8, <1>9 DEF OrderInv

\* DealMsg: the new loop has what arrived, all of it newer than the others.
LEMMA DealMsgOrder ==
  ASSUME ClientTypeOK, OrderInv, DealMsg
  PROVE  OrderInv'
<1>0. arrived \in Seq(Answer) /\ received \in Nat /\ Len(frames) \in Nat
  BY LenProperties DEF ClientTypeOK
<1> DEFINE top == Len(frames) + 1
<1>1. /\ Len(frames') = top
      /\ \A f \in 1 .. Len(frames) : frames'[f].rest = frames[f].rest
      /\ frames'[top].rest = arrived
      /\ \A f \in 1 .. top : f \in 1 .. Len(frames) \/ f = top
      /\ \A f \in 1 .. Len(frames) : f \in 1 .. top /\ f < top
  BY <1>0, DealMsgFrames
<1>2. UNCHANGED <<handled, received>> /\ arrived' = <<>>
      /\ fetched' = fetched \cup { arrived[i].n : i \in DOMAIN arrived }
  BY DEF DealMsg
<1>3. fetched' = fetched \cup Nums(arrived)
  <2>1. DOMAIN arrived = 1 .. Len(arrived)
    BY <1>0, LenProperties
  <2> QED BY <1>2, <2>1 DEF Nums
<1>4. Dispatched' = Dispatched /\ Dispatched = { handled[i].msg.n : i \in 1 .. Len(handled) }
  BY <1>2, DispatchedFacts DEF Dispatched
<1>5. DispatchedInOrder'
  BY <1>2 DEF OrderInv, DispatchedInOrder
<1>6. ArrivedInOrder'
  BY <1>2, <1>3, NumsFacts DEF OrderInv, ArrivedInOrder
<1>7. /\ Increasing(arrived) /\ Dispatched \subseteq fetched /\ fetched \subseteq Nat
      /\ Nums(arrived) \subseteq Nat /\ \A m \in fetched, n \in Nums(arrived) : m < n
  BY <1>0 DEF OrderInv, ArrivedInOrder, WaitingInOrder
<1> HIDE DEF top
<1>8. \A f \in 1 .. top : /\ Increasing(frames'[f].rest)
                          /\ Nums(frames'[f].rest) \subseteq fetched' \ Dispatched'
  <2>1. ASSUME NEW f \in 1 .. Len(frames)
        PROVE  Increasing(frames'[f].rest) /\ Nums(frames'[f].rest) \subseteq fetched' \ Dispatched'
    BY <1>1, <1>3, <1>4, <2>1 DEF OrderInv, WaitingInOrder
  <2>2. Nums(arrived) \subseteq fetched' \ Dispatched'
    BY <1>3, <1>4, <1>7
  <2> QED BY <1>1, <1>7, <2>1, <2>2
<1>9. \A f, g \in 1 .. top : f < g =>
        \A m \in Nums(frames'[f].rest), n \in Nums(frames'[g].rest) : m < n
  <2> SUFFICES ASSUME NEW f \in 1 .. top, NEW g \in 1 .. top, f < g,
                      NEW m \in Nums(frames'[f].rest), NEW n \in Nums(frames'[g].rest)
               PROVE  m < n
    OBVIOUS
  <2>1. f \in 1 .. Len(frames) /\ m \in Nums(frames[f].rest) /\ m \in fetched
    <3>1. f \in 1 .. Len(frames)
      BY <1>0 DEF top
    <3>2. m \in Nums(frames[f].rest)
      BY <1>1, <3>1
    <3> QED BY <3>1, <3>2 DEF OrderInv, WaitingInOrder
  <2>2. CASE g \in 1 .. Len(frames)
    BY <1>1, <2>1, <2>2 DEF OrderInv, WaitingInOrder
  <2>3. CASE g = top
    BY <1>1, <1>7, <2>1, <2>3
  <2> QED BY <1>1, <2>2, <2>3
<1>10. \A f \in 1 .. top : \A i \in 1 .. Len(handled'), n \in Nums(frames'[f].rest) :
         handled'[i].msg.n > n => handled'[i].depth > f
  <2> SUFFICES ASSUME NEW f \in 1 .. top, NEW i \in 1 .. Len(handled),
                      NEW n \in Nums(frames'[f].rest), handled[i].msg.n > n
               PROVE  handled[i].depth > f
    BY <1>2
  <2>1. CASE f \in 1 .. Len(frames)
    BY <1>1, <2>1 DEF OrderInv, WaitingInOrder
  <2>2. CASE f = top
    <3>1. handled[i].msg.n \in fetched /\ n \in Nums(arrived)
      BY <1>1, <1>4, <1>7, <2>2
    <3>2. handled[i].msg.n < n /\ handled[i].msg.n \in Nat /\ n \in Nat
      BY <1>7, <3>1
    <3> QED BY <3>2
  <2> QED BY <1>1, <2>1, <2>2
<1>11. Dispatched' \subseteq fetched'
  BY <1>3, <1>4, <1>7
<1>12. \A n \in fetched' : n \in Dispatched' \/ \E f \in 1 .. top : n \in Nums(frames'[f].rest)
  <2>1. top \in 1 .. top
    BY <1>0 DEF top
  <2>2. ASSUME NEW n \in fetched PROVE n \in Dispatched' \/ \E f \in 1 .. top : n \in Nums(frames'[f].rest)
    <3>1. n \in Dispatched \/ \E f \in 1 .. Len(frames) : n \in Nums(frames[f].rest)
      BY DEF OrderInv, WaitingInOrder
    <3> QED BY <1>1, <1>4, <3>1
  <2> QED BY <1>1, <1>3, <2>1, <2>2
<1>13. WaitingInOrder'
  BY <1>1, <1>8, <1>9, <1>10, <1>11, <1>12 DEF WaitingInOrder
<1> QED BY <1>5, <1>6, <1>13 DEF OrderInv

\* Dispatch: the oldest message of the innermost loop.
LEMMA DispatchOrder ==
  ASSUME ClientTypeOK, OrderInv, Dispatch
  PROVE  OrderInv'
<1>0. /\ Top \in 1 .. Len(frames) /\ Top = Len(frames) /\ Len(frames') = Len(frames)
      /\ frames[Top].rest \in Seq(Answer) /\ frames[Top].rest # <<>> /\ Len(frames) \in Nat
      /\ \A f \in 1 .. Len(frames) :
           frames'[f].rest = IF f = Top THEN Tail(frames[Top].rest) ELSE frames[f].rest
  BY DispatchFrames, RestFacts
<1>1. PICK e \in Entry : /\ e.msg = Head(frames[Top].rest) /\ e.depth = Top
                         /\ handled' = Append(handled, e)
  BY DispatchFrames
<1>2. handled \in Seq(Entry) /\ Len(handled) \in Nat
  BY LenProperties DEF ClientTypeOK, Entry
<1> DEFINE last == Len(handled) + 1
<1>3. /\ Len(handled') = last /\ handled'[last] = e
      /\ \A i \in 1 .. Len(handled) : handled'[i] = handled[i] /\ i \in 1 .. last /\ i < last
      /\ \A i \in 1 .. last : i \in 1 .. Len(handled) \/ i = last
  BY <1>1, <1>2, AppendProperties
<1>4. UNCHANGED <<arrived, received, fetched>>
  BY DEF Dispatch, mailVars
<1>5. Increasing(frames[Top].rest) /\ Nums(frames[Top].rest) \subseteq fetched \ Dispatched
  BY <1>0 DEF OrderInv, WaitingInOrder
<1>6. /\ Nums(frames[Top].rest) = {e.msg.n} \cup Nums(frames'[Top].rest)
      /\ Increasing(frames'[Top].rest) /\ e.msg.n \in Nat
      /\ \A n \in Nums(frames'[Top].rest) : e.msg.n < n
  BY <1>0, <1>1, <1>5, NumsTail
<1>7. Dispatched = { handled[i].msg.n : i \in 1 .. Len(handled) }
  BY DispatchedFacts
<1>8. Dispatched' = Dispatched \cup {e.msg.n}
  <2>1. DOMAIN handled' = 1 .. last
    <3>1. handled' \in Seq(Entry)
      BY <1>1, <1>2, AppendProperties
    <3> QED BY <1>3, <3>1, LenProperties
  <2>2. Dispatched' = { handled'[i].msg.n : i \in 1 .. last }
    BY <2>1 DEF Dispatched
  <2>3. last \in 1 .. last
    BY <1>2
  <2> HIDE DEF last
  <2>4. Dispatched' \subseteq Dispatched \cup {e.msg.n}
    BY <1>3, <1>7, <2>2
  <2>5. Dispatched \subseteq Dispatched'
    BY <1>3, <1>7, <2>2
  <2>6. e.msg.n \in Dispatched'
    BY <1>3, <2>2, <2>3
  <2> QED BY <2>4, <2>5, <2>6
<1>9. e.msg.n \in fetched /\ e.msg.n \notin Dispatched
  BY <1>5, <1>6
<1>10. \A f \in 1 .. Len(frames) : f # Top =>
         f < Top /\ \A m \in Nums(frames[f].rest) : m < e.msg.n
  <2> SUFFICES ASSUME NEW f \in 1 .. Len(frames), f # Top, NEW m \in Nums(frames[f].rest)
               PROVE  f < Top /\ m < e.msg.n
    BY <1>0
  <2>1. f < Top
    BY <1>0
  <2> QED BY <1>0, <1>6, <2>1 DEF OrderInv, WaitingInOrder
<1>11. \A f \in 1 .. Len(frames) : Nums(frames'[f].rest) \subseteq Nums(frames[f].rest)
  BY <1>0, <1>6
<1> HIDE DEF last
<1>12. \A i \in 1 .. Len(handled) : handled[i].msg.n \in Dispatched
  BY <1>7
<1>13. DispatchedInOrder'
  <2>1. \A i, j \in 1 .. last : handled'[i].msg.n = handled'[j].msg.n => i = j
    BY <1>3, <1>9, <1>12 DEF OrderInv, DispatchedInOrder
  <2>2. ASSUME NEW i \in 1 .. last, NEW j \in 1 .. last, i < j,
               handled'[i].msg.n > handled'[j].msg.n
        PROVE  handled'[i].depth > handled'[j].depth
    <3>1. i \in 1 .. Len(handled)
      BY <1>2, <2>2 DEF last
    <3>2. CASE j \in 1 .. Len(handled)
      BY <1>3, <2>2, <3>1, <3>2 DEF OrderInv, DispatchedInOrder
    <3>3. CASE j = last
      <4>1. handled[i].msg.n > e.msg.n /\ e.msg.n \in Nums(frames[Top].rest)
        BY <1>3, <1>6, <2>2, <3>1, <3>3
      <4>2. handled[i].depth > Top
        BY <1>0, <3>1, <4>1 DEF OrderInv, WaitingInOrder
      <4> QED BY <1>1, <1>3, <3>1, <3>3, <4>2
    <3> QED BY <1>3, <3>2, <3>3
  <2> QED BY <1>3, <2>1, <2>2 DEF DispatchedInOrder
<1>14. ArrivedInOrder'
  BY <1>4 DEF OrderInv, ArrivedInOrder
<1>15. \A f \in 1 .. Len(frames) : /\ Increasing(frames'[f].rest)
                                   /\ Nums(frames'[f].rest) \subseteq fetched' \ Dispatched'
  <2> SUFFICES ASSUME NEW f \in 1 .. Len(frames)
               PROVE  Increasing(frames'[f].rest)
                      /\ Nums(frames'[f].rest) \subseteq fetched \ (Dispatched \cup {e.msg.n})
    BY <1>4, <1>8
  <2>1. Nums(frames[f].rest) \subseteq fetched \ Dispatched /\ Increasing(frames[f].rest)
        /\ Nums(frames[f].rest) \subseteq Nat
    BY RestFacts, NumsFacts DEF OrderInv, WaitingInOrder
  <2>2. CASE f = Top
    <3>1. e.msg.n \notin Nums(frames'[Top].rest)
      BY <1>6
    <3> QED BY <1>6, <1>11, <2>1, <2>2, <3>1
  <2>3. CASE f # Top
    <3>1. e.msg.n \notin Nums(frames[f].rest)
      <4>1. e.msg.n \in Nums(frames[f].rest) => e.msg.n < e.msg.n
        BY <1>10, <2>3
      <4>2. ~(e.msg.n < e.msg.n)
        BY <1>6
      <4> QED BY <4>1, <4>2
    <3>2. frames'[f].rest = frames[f].rest
      BY <1>0, <2>3
    <3> QED BY <2>1, <3>1, <3>2
  <2> QED BY <2>2, <2>3
<1>16. \A f, g \in 1 .. Len(frames) : f < g =>
         \A m \in Nums(frames'[f].rest), n \in Nums(frames'[g].rest) : m < n
  BY <1>11 DEF OrderInv, WaitingInOrder
<1>17. \A f \in 1 .. Len(frames) : \A i \in 1 .. last, n \in Nums(frames'[f].rest) :
         handled'[i].msg.n > n => handled'[i].depth > f
  <2> SUFFICES ASSUME NEW f \in 1 .. Len(frames), NEW i \in 1 .. last,
                      NEW n \in Nums(frames'[f].rest), handled'[i].msg.n > n
               PROVE  handled'[i].depth > f
    OBVIOUS
  <2>1. n \in Nums(frames[f].rest) /\ n \in Nat
    BY <1>11, RestFacts, NumsFacts
  <2>2. CASE i \in 1 .. Len(handled)
    BY <1>3, <2>1, <2>2 DEF OrderInv, WaitingInOrder
  <2>3. CASE i = last
    <3>1. f # Top
      <4>1. e.msg.n > n
        BY <1>3, <2>3
      <4> QED BY <1>6, <2>1, <4>1
    <3> QED BY <1>0, <1>1, <1>3, <1>10, <2>3, <3>1
  <2> QED BY <1>3, <2>2, <2>3
<1>18. \A n \in fetched' : n \in Dispatched' \/ \E f \in 1 .. Len(frames) : n \in Nums(frames'[f].rest)
  <2> SUFFICES ASSUME NEW n \in fetched, n \notin Dispatched', NEW f \in 1 .. Len(frames),
                      n \in Nums(frames[f].rest)
               PROVE  n \in Nums(frames'[f].rest)
    BY <1>4, <1>8 DEF OrderInv, WaitingInOrder
  <2> QED BY <1>0, <1>6, <1>8
<1>19. WaitingInOrder'
  <2>1. Dispatched' \subseteq fetched'
    BY <1>4, <1>8, <1>9 DEF OrderInv, WaitingInOrder
  <2> QED BY <1>0, <1>3, <1>15, <1>16, <1>17, <1>18, <2>1 DEF WaitingInOrder
<1> QED BY <1>13, <1>14, <1>19 DEF OrderInv

\* DealMsgEnd: a loop with nothing left.
LEMMA EndOrder ==
  ASSUME ClientTypeOK, OrderInv, DealMsgEnd
  PROVE  OrderInv'
<1>1. /\ Len(frames) \in Nat \ {0} /\ frames[Len(frames)].rest = <<>>
      /\ Len(frames') = Len(frames) - 1
      /\ \A f \in 1 .. Len(frames) - 1 : frames'[f] = frames[f]
  BY EndFrames
<1>2. UNCHANGED <<handled, arrived, received, fetched>>
  BY DEF DealMsgEnd, mailVars
<1>3. DispatchedInOrder' /\ ArrivedInOrder' /\ Dispatched' = Dispatched
  BY <1>2 DEF OrderInv, DispatchedInOrder, ArrivedInOrder, Dispatched
<1>4. Nums(frames[Len(frames)].rest) = {}
  BY <1>1, NumsFacts
<1>5. \A f \in 1 .. Len(frames) : f = Len(frames) \/ f \in 1 .. Len(frames')
  BY <1>1
<1>6. \A f \in 1 .. Len(frames') : f \in 1 .. Len(frames) /\ frames'[f].rest = frames[f].rest
  BY <1>1
<1>7. WaitingInOrder'
  <2>1. \A n \in fetched' : n \in Dispatched' \/ \E f \in 1 .. Len(frames') : n \in Nums(frames'[f].rest)
    <3> SUFFICES ASSUME NEW n \in fetched, n \notin Dispatched
                 PROVE  \E f \in 1 .. Len(frames') : n \in Nums(frames'[f].rest)
      BY <1>2, <1>3
    <3>1. PICK f \in 1 .. Len(frames) : n \in Nums(frames[f].rest)
      BY DEF OrderInv, WaitingInOrder
    <3>2. f \in 1 .. Len(frames')
      BY <1>4, <1>5, <3>1
    <3> QED BY <1>6, <3>1, <3>2
  <2>2. \A f \in 1 .. Len(frames') : /\ Increasing(frames'[f].rest)
                                     /\ Nums(frames'[f].rest) \subseteq fetched' \ Dispatched'
    BY <1>2, <1>3, <1>6 DEF OrderInv, WaitingInOrder
  <2>3. \A f, g \in 1 .. Len(frames') : f < g =>
          \A m \in Nums(frames'[f].rest), n \in Nums(frames'[g].rest) : m < n
    BY <1>6 DEF OrderInv, WaitingInOrder
  <2>4. \A f \in 1 .. Len(frames') : \A i \in 1 .. Len(handled'), n \in Nums(frames'[f].rest) :
          handled'[i].msg.n > n => handled'[i].depth > f
    BY <1>2, <1>6 DEF OrderInv, WaitingInOrder
  <2>5. Dispatched' \subseteq fetched'
    BY <1>2, <1>3 DEF OrderInv, WaitingInOrder
  <2> QED BY <2>1, <2>2, <2>3, <2>4, <2>5 DEF WaitingInOrder
<1> QED BY <1>3, <1>7 DEF OrderInv

\* Every step keeps the order (Next).
LEMMA OrderStep ==
  ASSUME ClientTypeOK, OrderInv, [Next]_vars
  PROVE  OrderInv'
<1>1. CASE UNCHANGED vars
  <2>1. UNCHANGED <<frames, handled, fetched, received, arrived>>
    BY <1>1 DEF vars, dealVars, mailVars
  <2>2. DispatchedInOrder' /\ ArrivedInOrder' /\ Dispatched' = Dispatched
    BY <2>1 DEF OrderInv, DispatchedInOrder, ArrivedInOrder, Dispatched
  <2>3. WaitingInOrder'
    BY <2>1, <2>2 DEF OrderInv, WaitingInOrder
  <2> QED BY <2>2, <2>3 DEF OrderInv
<1> QED BY <1>1, QuietOrder, DealMsgOrder, DispatchOrder, EndOrder DEF Next, Quiet, Halted

\* Nothing has been sent in Init.
LEMMA OrderInit ==
  ASSUME Init
  PROVE  OrderInv
<1>1. Len(frames) = 0 /\ Len(handled) = 0 /\ Nums(arrived) = {} /\ Increasing(arrived)
      /\ fetched = {} /\ Dispatched = {}
  BY NumsFacts DEF Init, Dispatched
<1> QED BY <1>1 DEF OrderInv, DispatchedInOrder, ArrivedInOrder, WaitingInOrder

\* Types and order.
LEMMA OrderInvariant == Spec => [](ClientTypeOK /\ OrderInv)
<1>1. Init => OrderInv
  BY OrderInit
<1>2. ClientTypeOK /\ OrderInv /\ [Next]_vars => OrderInv'
  BY OrderStep
<1> QED BY <1>1, <1>2, ClientTypeCorrect, PTL DEF Spec

(***************************************************************************)
(* What DealMsg fetches is dispatched exactly once, however the calls are  *)
(* nested, and all of it when the outermost call has returned.             *)
(***************************************************************************)
THEOREM DispatchedOnceCorrect == Spec => []DispatchedOnce
<1>1. ClientTypeOK /\ OrderInv => DispatchedOnce
  <2> SUFFICES ASSUME ClientTypeOK, OrderInv PROVE DispatchedOnce
    OBVIOUS
  <2>1. DOMAIN handled = 1 .. Len(handled) /\ (frames = <<>> => Len(frames) = 0)
    BY LenProperties DEF ClientTypeOK
  <2>2. frames = <<>> => fetched \subseteq Dispatched
    BY <2>1 DEF OrderInv, WaitingInOrder
  <2> QED BY <2>1, <2>2 DEF DispatchedOnce, OrderInv, DispatchedInOrder, WaitingInOrder
<1> QED BY <1>1, OrderInvariant, PTL

(***************************************************************************)
(* Messages are dispatched in the order received unless a DealMsg call is  *)
(* nested in another.                                                      *)
(***************************************************************************)
THEOREM InOrderCorrect == Spec => []InOrderUnlessNested
<1>1. ClientTypeOK /\ OrderInv => InOrderUnlessNested
  <2> SUFFICES ASSUME ClientTypeOK, OrderInv PROVE InOrderUnlessNested
    OBVIOUS
  <2>1. DOMAIN handled = 1 .. Len(handled)
    BY LenProperties DEF ClientTypeOK
  <2> QED BY <2>1 DEF InOrderUnlessNested, OrderInv, DispatchedInOrder
<1> QED BY <1>1, OrderInvariant, PTL

-----------------------------------------------------------------------------
(***************************************************************************)
(* Requests and answers.                                                   *)
(***************************************************************************)

\* The messages there are: arrived, in a loop, or dispatched.
Els(s) == { s[i] : i \in 1 .. Len(s) }
HandledMsgs == { handled[i].msg : i \in 1 .. Len(handled) }
Msgs == Els(arrived) \cup HandledMsgs \cup UNION { Els(frames[f].rest) : f \in 1 .. Len(frames) }

\* A message is the server's answer to a request of its kind, or of kind "other".
Correlated(a) ==
  IF a.kind \in Kind
  THEN /\ a.req \in answered /\ a.req # 0 /\ requests[a.req].kind = a.kind
       /\ a.code \in CodesFor(a.kind)
  ELSE a.req = 0

\* What a delegate was told of a message (Dispatch).
Reported(e) ==
  /\ e.to = IF e.msg.kind \in Kind THEN e.msg.kind ELSE "log"
  /\ e.value = Argument(e.msg)

AnswerInv ==
  /\ \A a \in Msgs : Correlated(a)
  /\ \A a, b \in Msgs : a.req = b.req /\ a.req # 0 => a.n = b.n
  /\ \A i \in 1 .. Len(handled) : Reported(handled[i])

\* Elements of sequences made by Append and Tail.
LEMMA ElsFacts ==
  ASSUME NEW T, NEW s \in Seq(T)
  PROVE  /\ \A a \in T : Els(Append(s, a)) = Els(s) \cup {a}
         /\ s # <<>> => Els(Tail(s)) \subseteq Els(s) /\ Head(s) \in Els(s)
<1>0. Len(s) \in Nat
  BY LenProperties
<1>1. ASSUME NEW a \in T PROVE Els(Append(s, a)) = Els(s) \cup {a}
  <2> DEFINE t == Append(s, a)
  <2>1. /\ Len(t) = Len(s) + 1 /\ t[Len(s) + 1] = a
        /\ \A i \in 1 .. Len(s) : t[i] = s[i]
    BY AppendProperties
  <2> HIDE DEF t
  <2>2. /\ \A i \in 1 .. Len(t) : i \in 1 .. Len(s) \/ i = Len(s) + 1
        /\ \A i \in 1 .. Len(s) : i \in 1 .. Len(t)
        /\ Len(s) + 1 \in 1 .. Len(t)
    BY <1>0, <2>1
  <2>3. Els(t) \subseteq Els(s) \cup {a}
    BY <2>1, <2>2 DEF Els
  <2>4. Els(s) \subseteq Els(t) /\ a \in Els(t)
    BY <2>1, <2>2 DEF Els
  <2> QED BY <2>3, <2>4 DEF t
<1>2. ASSUME s # <<>> PROVE Els(Tail(s)) \subseteq Els(s) /\ Head(s) \in Els(s)
  <2> DEFINE t == Tail(s)
  <2>1. /\ Len(t) = Len(s) - 1 /\ Head(s) = s[1]
        /\ \A i \in 1 .. Len(s) - 1 : t[i] = s[i + 1]
    BY <1>2, HeadTailProperties
  <2>2. 1 \in 1 .. Len(s)
    BY <1>0, <1>2, EmptySeq
  <2> HIDE DEF t
  <2>3. \A i \in 1 .. Len(t) : i + 1 \in 1 .. Len(s) /\ t[i] = s[i + 1]
    BY <1>0, <2>1
  <2> QED BY <2>1, <2>2, <2>3 DEF Els, t
<1> QED BY <1>1, <1>2

\* Keeping AnswerInv when there is no new message (all steps but Receive).
LEMMA SameMessages ==
  ASSUME AnswerInv, Msgs' \subseteq Msgs,
         \A r \in answered : r \in answered' /\ requests'[r] = requests[r],
         \A i \in 1 .. Len(handled') : Reported(handled'[i])
  PROVE  AnswerInv'
<1>1. \A i \in 1 .. Len(handled') : Reported(handled[i])'
  OBVIOUS
<1>2. \A a \in Msgs' : Correlated(a)'
  BY DEF AnswerInv, Correlated
<1> QED BY <1>1, <1>2 DEF AnswerInv, Reported

\* The messages after DealMsg, Dispatch and DealMsgEnd were there before.
LEMMA LoopMsgs ==
  ASSUME ClientTypeOK, DealMsg \/ Dispatch \/ DealMsgEnd
  PROVE  Msgs' \subseteq Msgs
<1>0. Len(frames) \in Nat /\ arrived \in Seq(Answer) /\ handled \in Seq(Entry)
  BY RestFacts DEF ClientTypeOK, Entry
<1>1. CASE DealMsg
  <2>1. /\ \A f \in 1 .. Len(frames') : f \in 1 .. Len(frames) \/ f = Len(frames) + 1
        /\ \A f \in 1 .. Len(frames) : frames'[f].rest = frames[f].rest
        /\ \A f \in 1 .. Len(frames') : f = Len(frames) + 1 => frames'[f].rest = arrived
    BY <1>0, <1>1, DealMsgFrames
  <2>2. UNCHANGED handled /\ arrived' = <<>>
    BY <1>1 DEF DealMsg
  <2>3. Els(arrived') = {} /\ HandledMsgs' = HandledMsgs
    BY <2>2 DEF Els, HandledMsgs
  <2>4. \A f \in 1 .. Len(frames') :
          (f \in 1 .. Len(frames) /\ Els(frames'[f].rest) = Els(frames[f].rest))
          \/ Els(frames'[f].rest) = Els(arrived)
    BY <2>1
  <2> QED BY <2>3, <2>4 DEF Msgs
<1>2. CASE Dispatch
  <2>1. /\ Top \in 1 .. Len(frames) /\ Len(frames') = Len(frames)
        /\ frames[Top].rest \in Seq(Answer) /\ frames[Top].rest # <<>>
        /\ \A f \in 1 .. Len(frames) :
             frames'[f].rest = IF f = Top THEN Tail(frames[Top].rest) ELSE frames[f].rest
    BY <1>2, DispatchFrames
  <2>2. PICK e \in Entry : e.msg = Head(frames[Top].rest) /\ handled' = Append(handled, e)
    BY <1>2, DispatchFrames
  <2>3. Els(Tail(frames[Top].rest)) \subseteq Els(frames[Top].rest) /\ e.msg \in Els(frames[Top].rest)
    BY <2>1, <2>2, ElsFacts
  <2>4. \A f \in 1 .. Len(frames') : f \in 1 .. Len(frames) /\ Els(frames'[f].rest) \subseteq Els(frames[f].rest)
    BY <2>1, <2>3
  <2>5. Els(arrived') = Els(arrived)
    BY <1>2 DEF Dispatch, mailVars
  <2>6. HandledMsgs' \subseteq HandledMsgs \cup {e.msg}
    <3>1. \A x \in Els(handled') : x \in Els(handled) \/ x = e
      BY <1>0, <2>2, ElsFacts
    <3>2. \A i \in 1 .. Len(handled') : handled'[i] \in Els(handled')
      BY DEF Els
    <3>3. \A x \in Els(handled) : x.msg \in HandledMsgs
      BY DEF Els, HandledMsgs
    <3> QED BY <3>1, <3>2, <3>3 DEF HandledMsgs
  <2> QED BY <2>1, <2>3, <2>4, <2>5, <2>6 DEF Msgs
<1>3. CASE DealMsgEnd
  <2>1. \A f \in 1 .. Len(frames') : f \in 1 .. Len(frames) /\ frames'[f] = frames[f]
    BY <1>3, EndFrames
  <2>2. UNCHANGED <<handled, arrived>>
    BY <1>3 DEF DealMsgEnd, mailVars
  <2>3. Els(arrived') = Els(arrived) /\ HandledMsgs' = HandledMsgs
    BY <2>2 DEF HandledMsgs
  <2> QED BY <2>1, <2>3 DEF Msgs
<1> QED BY <1>1, <1>2, <1>3

\* The messages after any other step: at most one that is new (Receive).
LEMMA QuietMsgs ==
  ASSUME ClientTypeOK, Quiet
  PROVE  /\ UNCHANGED handled
         /\ arrived' \in {arrived, <<>>} => Msgs' \subseteq Msgs
         /\ \A a \in Answer : arrived' = Append(arrived, a) => Msgs' \subseteq Msgs \cup {a}
<1>1. UNCHANGED handled
  BY DEF Quiet, GetInstance, Connect, GameLogicSend, Bind, DelegateReturns, LeaveLevel,
         CollectGarbage, ServerAnswers, ServerSendsOther, Receive, LinkEnds, dealVars
<1>2. /\ Len(frames') = Len(frames)
      /\ \A f \in 1 .. Len(frames) : frames'[f].rest = frames[f].rest
  BY QuietFrames
<1>3. HandledMsgs' = HandledMsgs
  BY <1>1 DEF HandledMsgs
<1>4. \A f \in 1 .. Len(frames) : Els(frames'[f].rest) = Els(frames[f].rest)
  BY <1>2
<1>5. Msgs' \subseteq Msgs \cup Els(arrived')
  BY <1>2, <1>3, <1>4 DEF Msgs
<1>6. arrived \in Seq(Answer)
  BY DEF ClientTypeOK
<1>7. ASSUME NEW a \in Answer, arrived' = Append(arrived, a) PROVE Msgs' \subseteq Msgs \cup {a}
  <2>1. Els(arrived') = Els(arrived) \cup {a}
    BY <1>6, <1>7, ElsFacts
  <2> QED BY <1>5, <2>1 DEF Msgs
<1>8. ASSUME arrived' \in {arrived, <<>>} PROVE Msgs' \subseteq Msgs
  <2>1. Els(<<>>) = {}
    BY DEF Els
  <2>2. Els(arrived') \subseteq Els(arrived)
    BY <1>8, <2>1
  <2> QED BY <1>5, <2>2 DEF Msgs
<1> QED BY <1>1, <1>7, <1>8

\* A new message (ServerAnswers, ServerSendsOther) is a new answer.
LEMMA NewMessage ==
  ASSUME AnswerInv, NEW a \in Answer, Msgs' \subseteq Msgs \cup {a},
         UNCHANGED <<handled, requests>>, answered \subseteq answered',
         Correlated(a)', a.req \notin answered \/ a.req = 0
  PROVE  AnswerInv'
<1>1. \A b \in Msgs : Correlated(b)'
  BY DEF AnswerInv, Correlated
<1>2. \A b \in Msgs' : Correlated(b)'
  BY <1>1
<1>3. \A b \in Msgs : b.req = a.req => a.req = 0
  BY DEF AnswerInv, Correlated
<1>4. \A b, c \in Msgs' : b.req = c.req /\ b.req # 0 => b.n = c.n
  BY <1>3 DEF AnswerInv
<1>5. \A i \in 1 .. Len(handled') : Reported(handled[i])'
  BY DEF AnswerInv, Reported
<1> QED BY <1>2, <1>4, <1>5 DEF AnswerInv

\* Every step keeps AnswerInv (Next).
LEMMA AnswerStep ==
  ASSUME ClientTypeOK, AnswerInv, [Next]_vars
  PROVE  AnswerInv'
<1>0. /\ DOMAIN requests = 1 .. Len(requests) /\ requests \in Seq(Request)
      /\ Len(requests) \in Nat /\ answered \subseteq 1 .. Len(requests)
      /\ handled \in Seq(Entry)
  BY LenProperties DEF ClientTypeOK, Entry
<1>1. ASSUME NEW req \in DOMAIN requests, NEW code \in Code, ServerAnswers(req, code)
      PROVE  AnswerInv'
  <2>1. PICK a \in Answer : /\ a.kind \in Kind /\ a.kind = requests[req].kind
                            /\ a.req = req /\ a.code = code /\ arrived' = Append(arrived, a)
    BY <1>1, AnswerType DEF ServerAnswers, Receive
  <2>2. UNCHANGED requests /\ Quiet
    BY <1>1 DEF ServerAnswers, Receive, Quiet
  <2>3. answered' = answered \cup {req} /\ req \notin answered /\ code \in CodesFor(a.kind)
    BY <1>1, <2>1 DEF ServerAnswers
  <2>4. req # 0
    BY <1>0
  <2>5. Msgs' \subseteq Msgs \cup {a} /\ UNCHANGED handled
    BY <2>1, <2>2, QuietMsgs
  <2>6. Correlated(a)'
    BY <2>1, <2>2, <2>3, <2>4 DEF Correlated
  <2> QED BY <2>1, <2>2, <2>3, <2>5, <2>6, NewMessage
<1>2. CASE ServerSendsOther
  <2>1. PICK a \in Answer : a.kind \notin Kind /\ a.req = 0 /\ arrived' = Append(arrived, a)
    BY <1>2, OtherType DEF ServerSendsOther, Receive, Kind
  <2>2. UNCHANGED <<requests, answered>> /\ Quiet
    BY <1>2 DEF ServerSendsOther, Receive, Quiet
  <2>3. Msgs' \subseteq Msgs \cup {a} /\ UNCHANGED handled
    BY <2>1, <2>2, QuietMsgs
  <2>4. Correlated(a)'
    BY <2>1 DEF Correlated
  <2> QED BY <2>1, <2>2, <2>3, <2>4, NewMessage
<1>3. ASSUME NEW kind \in Kind, GameLogicSend(kind) PROVE AnswerInv'
  <2>1. Quiet /\ UNCHANGED <<answered, arrived>>
    BY <1>3 DEF Quiet, GameLogicSend
  <2>2. UNCHANGED handled /\ Msgs' \subseteq Msgs
    BY <2>1, QuietMsgs
  <2>3. \A r \in 1 .. Len(requests) : requests'[r] = requests[r]
    <3> DEFINE r == [kind |-> kind, link |-> links]
    <3>1. UNCHANGED requests \/ (links \in open /\ requests' = Append(requests, r))
      BY <1>3 DEF GameLogicSend
    <3>2. links \in open => r \in Request
      BY ClientAssumption DEF ClientTypeOK, Request
    <3> HIDE DEF r
    <3> QED BY <1>0, <3>1, <3>2, AppendProperties
  <2>4. \A x \in answered : x \in answered' /\ requests'[x] = requests[x]
    BY <1>0, <2>1, <2>3
  <2>5. \A i \in 1 .. Len(handled') : Reported(handled'[i])
    BY <2>2 DEF AnswerInv
  <2> QED BY <2>2, <2>4, <2>5, SameMessages
<1>4. ASSUME Quiet, arrived' \in {arrived, <<>>}, UNCHANGED <<requests, answered>>
      PROVE  AnswerInv'
  <2>1. UNCHANGED handled /\ Msgs' \subseteq Msgs
    BY <1>4, QuietMsgs
  <2>2. \A i \in 1 .. Len(handled') : Reported(handled'[i])
    BY <2>1 DEF AnswerInv
  <2> QED BY <1>4, <2>1, <2>2, SameMessages
<1>5. CASE Quiet
  <2>1. \/ (\E req \in DOMAIN requests, code \in Code : ServerAnswers(req, code))
        \/ ServerSendsOther
        \/ (\E kind \in Kind : GameLogicSend(kind))
        \/ arrived' \in {arrived, <<>>} /\ UNCHANGED <<requests, answered>>
    BY <1>5 DEF Quiet, GetInstance, Connect, Bind, DelegateReturns, LeaveLevel, CollectGarbage,
                LinkEnds, mailVars
  <2> QED BY <1>1, <1>2, <1>3, <1>4, <1>5, <2>1
<1>6. CASE DealMsg \/ Dispatch \/ DealMsgEnd
  <2>1. Msgs' \subseteq Msgs /\ UNCHANGED <<requests, answered>>
    BY <1>6, LoopMsgs DEF DealMsg, Dispatch, DealMsgEnd, mailVars
  <2>2. \A i \in 1 .. Len(handled') : Reported(handled'[i])
    <3>1. CASE UNCHANGED handled
      BY <3>1 DEF AnswerInv
    <3>2. CASE Dispatch
      <4>1. PICK e \in Entry : Reported(e) /\ handled' = Append(handled, e)
        BY <3>2, DispatchFrames DEF Reported
      <4>2. /\ Len(handled') = Len(handled) + 1 /\ handled'[Len(handled) + 1] = e
            /\ \A i \in 1 .. Len(handled) : handled'[i] = handled[i]
            /\ Len(handled) \in Nat
        BY <1>0, <4>1, AppendProperties, LenProperties
      <4>3. \A i \in 1 .. Len(handled') : i \in 1 .. Len(handled) \/ i = Len(handled) + 1
        BY <4>2
      <4> QED BY <4>1, <4>2, <4>3 DEF AnswerInv
    <3> QED BY <1>6, <3>1, <3>2 DEF DealMsg, DealMsgEnd
  <2> QED BY <2>1, <2>2, SameMessages
<1>7. CASE UNCHANGED vars
  <2>1. UNCHANGED <<frames, handled, arrived, requests, answered>>
    BY <1>7 DEF vars, dealVars, mailVars
  <2>2. Msgs' = Msgs
    BY <2>1 DEF Msgs, HandledMsgs
  <2>3. \A i \in 1 .. Len(handled') : Reported(handled'[i])
    BY <2>1 DEF AnswerInv
  <2> QED BY <2>1, <2>2, <2>3, SameMessages
<1> QED BY <1>5, <1>6, <1>7 DEF Next, Quiet, Halted

(***************************************************************************)
(* A delegate (RecvLogin, RecvRegister) is told what the server answered   *)
(* to a request of its kind, and once per request.                         *)
(***************************************************************************)
THEOREM AnswersReportedCorrect == Spec => []AnswersReported
<1>1. Init => AnswerInv
  <2> SUFFICES ASSUME Init PROVE AnswerInv
    OBVIOUS
  <2>1. arrived = <<>> /\ frames = <<>> /\ handled = <<>> /\ Len(<<>>) = 0
    BY DEF Init
  <2>2. Msgs = {} /\ Len(handled) = 0
    BY <2>1 DEF Msgs, HandledMsgs, Els
  <2> QED BY <2>2 DEF AnswerInv
<1>2. ClientTypeOK /\ AnswerInv /\ [Next]_vars => AnswerInv'
  BY AnswerStep
<1>3. ClientTypeOK /\ OrderInv /\ AnswerInv => AnswersReported
  <2> SUFFICES ASSUME ClientTypeOK, OrderInv, AnswerInv, NEW i \in 1 .. Len(handled),
                      handled[i].to # "log"
               PROVE  /\ handled[i].msg.req \in answered
                      /\ requests[handled[i].msg.req].kind = handled[i].to
                      /\ handled[i].value = (handled[i].msg.code \in {"LOGIN_OK", "REGSTER_OK"})
                      /\ \A j \in 1 .. i - 1 : handled[j].msg.req # handled[i].msg.req
    <3>1. ClientTypeOK => DOMAIN handled = 1 .. Len(handled)
      BY LenProperties DEF ClientTypeOK
    <3> QED BY <3>1 DEF AnswersReported
  <2> DEFINE msg == handled[i].msg
  <2>1. \A j \in 1 .. Len(handled) : handled[j].msg \in Msgs
    BY DEF Msgs, HandledMsgs
  <2>2. Correlated(msg) /\ Reported(handled[i])
    BY <2>1 DEF AnswerInv
  <2>3. /\ msg.kind \in Kind /\ handled[i].to = msg.kind /\ msg.req \in answered /\ msg.req # 0
        /\ requests[msg.req].kind = msg.kind /\ msg.code \in CodesFor(msg.kind)
        /\ handled[i].value = Argument(msg)
    BY <2>2 DEF Correlated, Reported
  <2>4. handled[i].value = (msg.code \in {"LOGIN_OK", "REGSTER_OK"})
    BY <2>3 DEF Argument, CodesFor, Kind
  <2>5. ASSUME NEW j \in 1 .. i - 1 PROVE handled[j].msg.req # msg.req
    <3>1. j \in 1 .. Len(handled) /\ j # i
      BY LenProperties DEF ClientTypeOK
    <3>2. handled[j].msg.n # msg.n
      BY <3>1 DEF OrderInv, DispatchedInOrder
    <3> QED BY <2>1, <2>3, <3>1, <3>2 DEF AnswerInv
  <2> QED BY <2>3, <2>4, <2>5
<1> QED BY <1>1, <1>2, <1>3, OrderInvariant, PTL DEF Spec
=============================================================================
