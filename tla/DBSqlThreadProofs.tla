-------------------------- MODULE DBSqlThreadProofs --------------------------
(***************************************************************************)
(* Proofs about the database worker, for any number of requests and        *)
(* faults: the types, the two hand-overs as one mailbox, no answer before  *)
(* its SQL, OK only for the request that created the account, and FAIL     *)
(* only for a cause.                                                       *)
(*                                                                         *)
(* The four places a request can be in (m_vecWrite, the worker's batch,    *)
(* m_vecWriteFinish, the main thread's batch) are consecutive stretches of *)
(* the sequence of all requests; that is the invariant the rest follows    *)
(* from.                                                                   *)
(***************************************************************************)
EXTENDS DBSqlThread, SequenceTheorems, TLAPS

-----------------------------------------------------------------------------
(***************************************************************************)
(* Types.                                                                  *)
(***************************************************************************)
LEMMA StatementFacts ==
  /\ \A a \in Account, p \in Password :
       /\ Call(a, p) \in Statement /\ Call(a, p) # Selsect
       /\ Call(a, p).account = a
  /\ Selsect \in Statement
  /\ \A s \in Statement : s # Selsect => s.account \in Account
BY DEF Statement, Call, Selsect

\* The SELECT depends on a node's texts only.
LEMMA CleanCall ==
  ASSUME NEW node PROVE Clean(Call(node.account, node.password)) <=> Clean(node)
BY DEF Clean, Call

LEMMA DBTypeInit == DBInit => DBTypeOK
BY StatementFacts, DBAssumption DEF DBInit, DBTypeOK

LEMMA DBTypeDatabase == DBTypeOK /\ Database => DBTypeOK'
BY DBAssumption DEF DBTypeOK, Database, Drop, GoDown, ComeUp, Dropped

LEMMA DBTypeLoad ==
  ASSUME DBTypeOK, NEW s \in Statement, loadtabledata(s)
  PROVE  DBTypeOK' /\ at' # "idle" /\ sql' = s
BY DEF DBTypeOK, loadtabledata

LEMMA DBTypeStatements ==
  ASSUME DBTypeOK, Statements
  PROVE  DBTypeOK' /\ sql' = sql
<1> USE DBAssumption DEF DBTypeOK
<1>1. CASE KeepAlive
  BY <1>1 DEF KeepAlive, SameSession, NewSession
<1>2. CASE init
  BY <1>2 DEF init, SameSession, NewSession, Return
<1>3. CASE QueryFails
  BY <1>3 DEF QueryFails, SameSession, NewSession, Return, Refused
<1>4. CASE QueryRuns
  BY <1>4, StatementFacts DEF QueryRuns, Called, Session
<1>5. CASE QueryLost
  BY <1>5, StatementFacts DEF QueryLost, Return
<1>6. CASE SelectFetches
  BY <1>6 DEF SelectFetches, Reached, SameSession, NewSession, Return
<1>7. CASE SelectFails
  BY <1>7 DEF SelectFails, Reached, SameSession, NewSession, Return
<1> QED BY <1>1, <1>2, <1>3, <1>4, <1>5, <1>6, <1>7 DEF Statements

LEMMA NodeFacts ==
  ASSUME NEW node \in Node
  PROVE  /\ node.n \in Number /\ node.n \in 1 .. MaxNodes
         /\ node.account \in Account /\ node.password \in Password
BY DEF Node, Number

LEMMA HeadFacts ==
  ASSUME WorkerTypeOK, tmp # <<>>
  PROVE  /\ Head(tmp) \in Node /\ Tail(tmp) \in Seq(Node)
         /\ Head(tmp).n \in Number /\ Head(tmp).account \in Account
         /\ Head(tmp).password \in Password
<1>1. Head(tmp) \in Node /\ Tail(tmp) \in Seq(Node)
  BY HeadTailProperties DEF WorkerTypeOK
<1> QED BY <1>1, NodeFacts

LEMMA FinishType ==
  ASSUME WorkerTypeOK, tmp # <<>>, NEW outcome \in Outcome, Finish(outcome),
         DBTypeOK', at' = "idle", worker \in {"next", "sql"}
  PROVE  WorkerTypeOK'
<1>1. Head(tmp) \in Node /\ Tail(tmp) \in Seq(Node) /\ Head(tmp).n \in Number
  BY HeadFacts
<1>2. Append(m_vecWriteFinish, Head(tmp)) \in Seq(Node)
  BY <1>1 DEF WorkerTypeOK
<1> QED BY <1>1, <1>2 DEF WorkerTypeOK, Finish, mainVars

LEMMA ExecuteType ==
  ASSUME WorkerTypeOK, tmp # <<>>, worker = "next", NEW s \in Statement, Execute(s),
         s = IF Head(tmp).kind = "register" THEN Call(Head(tmp).account, Head(tmp).password)
                                            ELSE Selsect,
         UNCHANGED checkisOK
  PROVE  WorkerTypeOK'
<1>1. DBTypeOK' /\ sql' = s
  BY DBTypeLoad DEF Execute, WorkerTypeOK
<1> QED BY <1>1 DEF WorkerTypeOK, Execute, mainVars, queueVars

LEMMA WorkerTypeInit == Init => WorkerTypeOK
<1> SUFFICES ASSUME Init PROVE WorkerTypeOK
  OBVIOUS
<1>1. DBTypeOK
  BY DBTypeInit DEF Init
<1> QED BY <1>1, WorkerAssumption DEF Init, DBInit, WorkerTypeOK, Outcome

LEMMA WorkerTypeMain ==
  ASSUME WorkerTypeOK,
         \/ \E kind \in {"register", "login"}, account \in Account, password \in Password :
              AddWaitNode(kind, account, password)
         \/ MainThread
  PROVE  WorkerTypeOK'
<1>1. ASSUME NEW kind \in {"register", "login"}, NEW account \in Account,
             NEW password \in Password, AddWaitNode(kind, account, password)
      PROVE  WorkerTypeOK'
  <2> DEFINE node == [n |-> Len(requests) + 1, kind |-> kind, account |-> account,
             password |-> password]
  <2>1. node \in Node
    BY <1>1, WorkerAssumption DEF Node, Number, AddWaitNode, WorkerTypeOK
  <2>2. m_vecWrite' = Append(m_vecWrite, node) /\ requests' = Append(requests, node)
    BY <1>1 DEF AddWaitNode
  <2>3. /\ m_vecWrite' \in Seq(Node) /\ requests' \in Seq(Node)
        /\ Len(requests') <= MaxNodes
    BY <2>1, <2>2, <1>1, WorkerAssumption DEF WorkerTypeOK, AddWaitNode
  <2>4. DBTypeOK'
    BY <1>1 DEF AddWaitNode, WorkerTypeOK, DBTypeOK, dbVars
  <2> QED BY <2>3, <2>4, <1>1 DEF WorkerTypeOK, AddWaitNode, dbVars, workerVars
<1>2. CASE UNCHANGED dbVars /\ (DealSqlMsg \/ DoLogicFault)
  <2>1. DBTypeOK'
    BY <1>2 DEF WorkerTypeOK, DBTypeOK, dbVars
  <2> QED BY <1>2, <2>1 DEF WorkerTypeOK, DealSqlMsg, DoLogicFault, dbVars, queueVars, workerVars
<1>3. CASE GetFinishDBWait
  <2>1. DBTypeOK'
    BY <1>3 DEF GetFinishDBWait, WorkerTypeOK, DBTypeOK, dbVars
  <2> QED BY <1>3, <2>1 DEF WorkerTypeOK, GetFinishDBWait, Turn, dbVars, workerVars
<1>4. CASE DoLogic
  <2>1. DBTypeOK'
    BY <1>4 DEF DoLogic, WorkerTypeOK, DBTypeOK, dbVars
  <2>2. Head(finished) \in Node /\ Tail(finished) \in Seq(Node)
    BY <1>4, HeadTailProperties DEF DoLogic, WorkerTypeOK
  <2>3. AnswerFor(outdata[cur'.n])
          \in {"none", "REGSTER_OK", "REGSTER_FAIL", "LOGIN_OK", "LOGIN_FAIL"}
    BY DEF AnswerFor
  <2> QED BY <1>4, <2>1, <2>2, <2>3 DEF WorkerTypeOK, DoLogic, Turn, dbVars, queueVars, workerVars
<1> QED BY <1>1, <1>2, <1>3, <1>4 DEF MainThread, DealSqlMsg, DoLogicFault

LEMMA WorkerTypeWorker == WorkerTypeOK /\ Worker => WorkerTypeOK'
<1> SUFFICES ASSUME WorkerTypeOK, Worker PROVE WorkerTypeOK'
  OBVIOUS
<1>1. DBTypeOK /\ (UNCHANGED dbVars => DBTypeOK')
  BY DEF WorkerTypeOK, DBTypeOK, dbVars
<1>2. CASE TakeWrite
  BY <1>2, <1>1 DEF WorkerTypeOK, TakeWrite, dbVars, mainVars
<1>3. CASE LockFinish \/ UnlockFinish
  BY <1>3, <1>1 DEF WorkerTypeOK, LockFinish, UnlockFinish, dbVars, mainVars, queueVars
<1>4. CASE RegisterBegin
  <2> DEFINE account == Head(tmp).account
  <2>1. /\ tmp # <<>> /\ worker = "next" /\ Head(tmp).kind = "register" /\ account \in Account
        /\ at = "idle"
    BY <1>4, HeadFacts DEF RegisterBegin, AtNode, WorkerTypeOK
  <2>2. ASSUME NEW o \in {"long", "noConnection"}, UNCHANGED dbVars, Finish(o)
        PROVE  WorkerTypeOK'
    BY <2>1, <2>2, <1>1, FinishType DEF Outcome, dbVars
  <2>3. ASSUME Execute(Call(account, Head(tmp).password)), UNCHANGED checkisOK
        PROVE  WorkerTypeOK'
    <3>1. Call(account, Head(tmp).password) \in Statement
      BY <2>1, HeadFacts, StatementFacts
    <3> QED BY <2>1, <2>3, <3>1, ExecuteType
  <2> QED BY <1>4, <2>2, <2>3 DEF RegisterBegin
<1>5. CASE LoginCheck \/ LoginServers
  <2>1. /\ tmp # <<>> /\ worker = "next" /\ Head(tmp).kind # "register"
        /\ at = "idle"
    BY <1>5 DEF LoginCheck, LoginServers, AtNode, WorkerTypeOK
  <2>2. ASSUME Execute(Selsect), UNCHANGED checkisOK
        PROVE  WorkerTypeOK'
    BY <2>1, <2>2, StatementFacts, ExecuteType
  <2>3. ASSUME UNCHANGED dbVars, Finish("loginFail")
        PROVE  WorkerTypeOK'
    BY <2>1, <2>3, <1>1, FinishType DEF Outcome, dbVars
  <2>4. ASSUME checkisOK' = "no",
               UNCHANGED <<dbVars, queueVars, finishLock, worker, tmp, mainVars,
                           outdata, creator, answered>>
        PROVE  WorkerTypeOK'
    BY <2>4, <1>1 DEF WorkerTypeOK, dbVars, queueVars, mainVars
  <2> QED BY <1>5, <2>2, <2>3, <2>4 DEF LoginCheck, LoginServers
<1>6. CASE Exchange
  <2>1. DBTypeOK' /\ sql' = sql
    BY <1>6, <1>1, DBTypeStatements DEF Exchange
  <2>2. Head(tmp).n \in 0 .. MaxNodes
    BY <1>6, HeadFacts, WorkerAssumption DEF Exchange, WorkerTypeOK, Number
  <2>3. creator' \in [Account -> 0 .. MaxNodes]
    BY <1>6, <2>2 DEF Exchange, WorkerTypeOK
  <2> QED BY <1>6, <2>1, <2>3 DEF Exchange, WorkerTypeOK, queueVars, workerVars, mainVars
<1>7. CASE RegisterResult
  <2>1. PICK o \in Outcome : Finish(o)
    BY <1>7 DEF RegisterResult, Outcome
  <2>2. tmp # <<>> /\ worker = "sql" /\ at' = "idle" /\ DBTypeOK'
    BY <1>7, <1>1 DEF RegisterResult, Returned, WorkerTypeOK, dbVars
  <2> QED BY <2>1, <2>2, FinishType
<1>8. CASE RegisterFault \/ LoginCheckResult
  BY <1>8, <1>1 DEF RegisterFault, LoginCheckResult, Returned, WorkerTypeOK, dbVars, queueVars,
                    mainVars, workerVars
<1>9. CASE LoginServersResult
  <2>1. PICK o \in Outcome : Finish(o)
    BY <1>9 DEF LoginServersResult, Outcome
  <2>2. tmp # <<>> /\ worker = "sql" /\ at' = "idle" /\ DBTypeOK'
    BY <1>9, <1>1 DEF LoginServersResult, Returned, WorkerTypeOK, dbVars
  <2> QED BY <2>1, <2>2, FinishType
<1> QED BY <1>2, <1>3, <1>4, <1>5, <1>6, <1>7, <1>8, <1>9 DEF Worker

LEMMA WorkerTypeStep == WorkerTypeOK /\ [Next]_vars => WorkerTypeOK'
<1> SUFFICES ASSUME WorkerTypeOK, [Next]_vars PROVE WorkerTypeOK'
  OBVIOUS
<1>1. CASE Environment
  <2>1. DBTypeOK' /\ UNCHANGED <<at, sql>>
    BY <1>1, DBTypeDatabase
       DEF Environment, WorkerTypeOK, Database, Drop, GoDown, ComeUp
  <2> QED BY <1>1, <2>1 DEF Environment, WorkerTypeOK, queueVars, workerVars, mainVars
<1>2. CASE UNCHANGED vars
  BY <1>2 DEF WorkerTypeOK, DBTypeOK, vars, dbVars, queueVars, workerVars, mainVars
<1> QED BY <1>1, <1>2, WorkerTypeMain, WorkerTypeWorker DEF Next, Halted

\* The type invariant; beyond the types, that the worker's SQL is that of the
\* node at the head of its batch, and that m_vecWriteFinishLock is held over it.
THEOREM WorkerTypeCorrect == Spec => []WorkerTypeOK
BY WorkerTypeInit, WorkerTypeStep, PTL DEF Spec

-----------------------------------------------------------------------------
(***************************************************************************)
(* The places of a request are consecutive stretches of all requests.      *)
(***************************************************************************)
\* s is the stretch of r after its first k elements.
Stretch(s, k, r) ==
  k + Len(s) <= Len(r) /\ \A i \in 1 .. Len(s) : s[i] = r[k + i]

LEMMA StretchEmpty ==
  ASSUME NEW S, NEW r \in Seq(S), NEW k \in 0 .. Len(r)
  PROVE  Stretch(<<>>, k, r)
BY EmptySeq, LenProperties DEF Stretch

LEMMA StretchLonger ==
  ASSUME NEW S, NEW r \in Seq(S), NEW s \in Seq(S), NEW e \in S, NEW k \in Nat, Stretch(s, k, r)
  PROVE  Stretch(s, k, Append(r, e))
BY AppendProperties, LenProperties DEF Stretch

LEMMA StretchAppend ==
  ASSUME NEW S, NEW r \in Seq(S), NEW s \in Seq(S), NEW e \in S, NEW k \in Nat,
         Stretch(s, k, r), Len(r) = k + Len(s)
  PROVE  Stretch(Append(s, e), k, Append(r, e))
<1> DEFINE t == Append(s, e)
           q == Append(r, e)
<1>1. /\ Len(t) = Len(s) + 1 /\ t[Len(s) + 1] = e
      /\ \A i \in 1 .. Len(s) : t[i] = s[i]
  BY AppendProperties
<1>2. /\ Len(q) = Len(r) + 1 /\ q[Len(r) + 1] = e
      /\ \A i \in 1 .. Len(r) : q[i] = r[i]
  BY AppendProperties
<1>3. Len(s) \in Nat /\ Len(r) \in Nat
  BY LenProperties
<1> HIDE DEF t, q
<1> QED BY <1>1, <1>2, <1>3 DEF Stretch

LEMMA StretchPush ==
  ASSUME NEW S, NEW r \in Seq(S), NEW s \in Seq(S), NEW e \in S, NEW k \in Nat,
         Stretch(s, k, r), k + Len(s) + 1 <= Len(r), e = r[k + Len(s) + 1]
  PROVE  Stretch(Append(s, e), k, r)
<1> DEFINE t == Append(s, e)
<1>1. /\ Len(t) = Len(s) + 1 /\ t[Len(s) + 1] = e
      /\ \A i \in 1 .. Len(s) : t[i] = s[i]
  BY AppendProperties
<1>2. Len(s) \in Nat /\ Len(r) \in Nat
  BY LenProperties
<1> HIDE DEF t
<1> QED BY <1>1, <1>2 DEF Stretch

LEMMA StretchTail ==
  ASSUME NEW S, NEW r \in Seq(S), NEW s \in Seq(S), NEW k \in Nat, Stretch(s, k, r), s # <<>>
  PROVE  /\ Len(Tail(s)) = Len(s) - 1 /\ Len(s) \in Nat \ {0}
         /\ Head(s) = r[k + 1] /\ k + 1 <= Len(r)
         /\ Stretch(Tail(s), k + 1, r)
<1> DEFINE t == Tail(s)
<1>1. /\ Len(t) = Len(s) - 1 /\ Head(s) = s[1]
      /\ \A i \in 1 .. Len(t) : t[i] = s[i + 1]
  BY HeadTailProperties
<1>2. Len(s) \in Nat \ {0} /\ Len(r) \in Nat
  BY EmptySeq, LenProperties
<1> HIDE DEF t
<1>3. Head(s) = r[k + 1] /\ k + 1 <= Len(r)
  BY <1>1, <1>2 DEF Stretch
<1>4. Stretch(t, k + 1, r)
  <2>1. ASSUME NEW i \in 1 .. Len(t) PROVE t[i] = r[k + 1 + i]
    <3>1. i + 1 \in 1 .. Len(s) /\ k + (i + 1) = k + 1 + i
      BY <1>1, <1>2, <2>1
    <3> QED BY <1>1, <3>1 DEF Stretch
  <2> QED BY <1>1, <1>2, <2>1 DEF Stretch
<1> QED BY <1>1, <1>2, <1>3, <1>4 DEF t

LEMMA StretchConcat ==
  ASSUME NEW S, NEW r \in Seq(S), NEW s \in Seq(S), NEW t \in Seq(S), NEW k \in Nat,
         Stretch(s, k, r), Stretch(t, k + Len(s), r)
  PROVE  s \o t \in Seq(S) /\ Len(s \o t) = Len(s) + Len(t) /\ Stretch(s \o t, k, r)
<1> DEFINE u == s \o t
<1>1. /\ u \in Seq(S) /\ Len(u) = Len(s) + Len(t)
      /\ \A i \in 1 .. Len(s) + Len(t) : u[i] = IF i <= Len(s) THEN s[i] ELSE t[i - Len(s)]
  BY ConcatProperties
<1>2. Len(s) \in Nat /\ Len(t) \in Nat /\ Len(r) \in Nat
  BY LenProperties
<1> HIDE DEF u
<1>3. ASSUME NEW i \in 1 .. Len(u) PROVE u[i] = r[k + i]
  <2>1. CASE i <= Len(s)
    <3>1. i \in 1 .. Len(s) /\ u[i] = s[i]
      BY <1>1, <1>2, <2>1
    <3> QED BY <3>1 DEF Stretch
  <2>2. CASE ~(i <= Len(s))
    <3>1. i - Len(s) \in 1 .. Len(t) /\ (k + Len(s)) + (i - Len(s)) = k + i
      BY <1>1, <1>2, <2>2
    <3>2. u[i] = t[i - Len(s)]
      BY <1>1, <1>2, <2>2
    <3> QED BY <3>1, <3>2 DEF Stretch
  <2> QED BY <2>1, <2>2
<1> QED BY <1>1, <1>2, <1>3 DEF Stretch, u

\* Requests are numbered in order, and the four places hold, one after the
\* other, all those after cur.
OrderInv ==
  /\ \A i \in 1 .. Len(requests) : requests[i].n = i
  /\ Len(requests) = cur.n + Len(finished) + Len(m_vecWriteFinish) + Len(tmp) + Len(m_vecWrite)
  /\ Stretch(finished, cur.n, requests)
  /\ Stretch(m_vecWriteFinish, cur.n + Len(finished), requests)
  /\ Stretch(tmp, cur.n + Len(finished) + Len(m_vecWriteFinish), requests)
  /\ Stretch(m_vecWrite, cur.n + Len(finished) + Len(m_vecWriteFinish) + Len(tmp), requests)

\* When the batches of the two threads are empty.
BatchInv ==
  /\ main \in {"deal", "wait"} => finished = <<>>
  /\ worker = "take" => tmp = <<>>

\* What a step does to the places: a request arrives, a place is emptied into
\* the next, or nothing moves.
Arrive(node) ==
  /\ node.n = Len(requests) + 1
  /\ requests' = Append(requests, node) /\ m_vecWrite' = Append(m_vecWrite, node)
  /\ UNCHANGED <<cur, finished, m_vecWriteFinish, tmp, outdata>>

MoveToWorker ==
  /\ tmp = <<>> /\ tmp' = m_vecWrite /\ m_vecWrite' = <<>>
  /\ UNCHANGED <<requests, cur, finished, m_vecWriteFinish, outdata>>

MoveDone ==
  /\ tmp # <<>>
  /\ m_vecWriteFinish' = Append(m_vecWriteFinish, Head(tmp)) /\ tmp' = Tail(tmp)
  /\ \E o \in Outcome \ {"unset"} : outdata' = [outdata EXCEPT ![Head(tmp).n] = o]
  /\ UNCHANGED <<requests, cur, finished, m_vecWrite>>

MoveToMain ==
  /\ finished = <<>> /\ finished' = m_vecWriteFinish /\ m_vecWriteFinish' = <<>>
  /\ UNCHANGED <<requests, cur, tmp, m_vecWrite, outdata>>

MoveOut ==
  /\ finished # <<>> /\ cur' = Head(finished) /\ finished' = Tail(finished)
  /\ UNCHANGED <<requests, m_vecWriteFinish, tmp, m_vecWrite, outdata>>

StayPut == UNCHANGED <<requests, cur, finished, m_vecWriteFinish, tmp, m_vecWrite, outdata>>

Move ==
  \/ \E node \in Node : Arrive(node)
  \/ MoveToWorker \/ MoveDone \/ MoveToMain \/ MoveOut \/ StayPut

LEMMA FinishIsMove ==
  ASSUME tmp # <<>>, NEW o \in Outcome \ {"unset"}, Finish(o)
  PROVE  MoveDone /\ worker' = "next" /\ UNCHANGED main
BY DEF Finish, MoveDone, mainVars

LEMMA StepIsMove ==
  ASSUME WorkerTypeOK, BatchInv, [Next]_vars
  PROVE  Move /\ BatchInv'
<1>1. ASSUME NEW kind \in {"register", "login"}, NEW account \in Account,
             NEW password \in Password, AddWaitNode(kind, account, password)
      PROVE  Move /\ BatchInv'
  <2> DEFINE node == [n |-> Len(requests) + 1, kind |-> kind, account |-> account,
             password |-> password]
  <2>1. node \in Node
    BY <1>1, WorkerAssumption DEF Node, Number, AddWaitNode, WorkerTypeOK
  <2>2. Arrive(node)
    BY <1>1 DEF AddWaitNode, Arrive, workerVars
  <2> QED BY <2>1, <2>2, <1>1 DEF Move, BatchInv, AddWaitNode, workerVars
<1>2. CASE DealSqlMsg \/ DoLogicFault
  BY <1>2 DEF DealSqlMsg, DoLogicFault, Move, StayPut, BatchInv, workerVars, queueVars
<1>3. CASE GetFinishDBWait
  BY <1>3 DEF GetFinishDBWait, Turn, Move, MoveToMain, BatchInv, workerVars
<1>4. CASE DoLogic
  BY <1>4 DEF DoLogic, Turn, Move, MoveOut, BatchInv, workerVars, queueVars, WorkerTypeOK
<1>5. CASE TakeWrite
  BY <1>5 DEF TakeWrite, Move, MoveToWorker, BatchInv, mainVars
<1>6. CASE LockFinish \/ UnlockFinish
  BY <1>6 DEF LockFinish, UnlockFinish, Move, StayPut, BatchInv, mainVars, queueVars
<1>7. ASSUME tmp # <<>>, NEW o \in Outcome \ {"unset"}, Finish(o)
      PROVE  Move /\ BatchInv'
  BY <1>7, FinishIsMove DEF Move, MoveDone, BatchInv
<1>8. ASSUME NEW s, Execute(s)
      PROVE  Move /\ BatchInv'
  BY <1>8 DEF Execute, Move, StayPut, BatchInv, mainVars, queueVars
<1>9. CASE RegisterBegin
  <2>1. tmp # <<>> /\ {"long", "noConnection"} \subseteq Outcome \ {"unset"}
    BY <1>9 DEF RegisterBegin, AtNode, Outcome
  <2> QED BY <1>9, <2>1, <1>7, <1>8 DEF RegisterBegin
<1>10. CASE LoginCheck \/ LoginServers
  <2>1. tmp # <<>> /\ worker = "next" /\ "loginFail" \in Outcome \ {"unset"}
    BY <1>10 DEF LoginCheck, LoginServers, AtNode, Outcome
  <2>2. ASSUME UNCHANGED <<dbVars, queueVars, finishLock, worker, tmp, mainVars,
                           outdata, creator, answered>>
        PROVE  Move /\ BatchInv'
    BY <2>2 DEF Move, StayPut, BatchInv, mainVars, queueVars
  <2> QED BY <1>10, <2>1, <2>2, <1>7, <1>8 DEF LoginCheck, LoginServers
<1>11. CASE Exchange \/ RegisterFault \/ LoginCheckResult
  BY <1>11 DEF Exchange, RegisterFault, LoginCheckResult, Move, StayPut, BatchInv,
               mainVars, queueVars, workerVars
<1>12. CASE RegisterResult
  <2>1. tmp # <<>> /\ {"noResult", "new", "repeated"} \subseteq Outcome \ {"unset"}
    BY <1>12 DEF RegisterResult, Returned, Outcome, WorkerTypeOK
  <2> QED BY <1>12, <2>1, <1>7 DEF RegisterResult
<1>13. CASE LoginServersResult
  <2>1. tmp # <<>> /\ {"loginOK", "loginFail"} \subseteq Outcome \ {"unset"}
    BY <1>13 DEF LoginServersResult, Returned, Outcome, WorkerTypeOK
  <2> QED BY <1>13, <2>1, <1>7 DEF LoginServersResult
<1>14. CASE Environment \/ UNCHANGED vars
  BY <1>14 DEF Environment, Move, StayPut, BatchInv, vars, mainVars, queueVars, workerVars
<1> QED BY <1>1, <1>2, <1>3, <1>4, <1>5, <1>6, <1>9, <1>10, <1>11, <1>12, <1>13, <1>14
        DEF Next, MainThread, Worker, Halted

\* The types the lemmas about Move need.
QueueTypes ==
  /\ requests \in Seq(Node) /\ m_vecWrite \in Seq(Node) /\ m_vecWriteFinish \in Seq(Node)
  /\ tmp \in Seq(Node) /\ finished \in Seq(Node)
  /\ cur.n \in Nat
  /\ Len(requests) <= MaxNodes /\ MaxNodes \in Nat

LEMMA QueueTypesHold == WorkerTypeOK => QueueTypes
<1> SUFFICES ASSUME WorkerTypeOK PROVE QueueTypes
  OBVIOUS
<1>1. cur.n \in Nat
  BY NodeFacts, WorkerAssumption DEF WorkerTypeOK, NoNode
<1> QED BY <1>1, WorkerAssumption DEF WorkerTypeOK, QueueTypes

LEMMA OrderStep ==
  ASSUME QueueTypes, QueueTypes', OrderInv, Move
  PROVE  OrderInv'
<1> DEFINE c == cur.n
           F == Len(finished)
           W == Len(m_vecWriteFinish)
           T == Len(tmp)
           R == Len(m_vecWrite)
<1>1. /\ c \in Nat /\ F \in Nat /\ W \in Nat /\ T \in Nat /\ R \in Nat
      /\ Len(requests) = c + F + W + T + R
  BY LenProperties DEF QueueTypes, OrderInv
<1>2. ASSUME NEW node \in Node, Arrive(node) PROVE OrderInv'
  <2>1. \A i \in 1 .. Len(requests') : requests'[i].n = i
    <3>1. /\ Len(requests') = Len(requests) + 1 /\ Len(requests) \in Nat
          /\ \A i \in 1 .. Len(requests) : requests'[i] = requests[i]
          /\ requests'[Len(requests) + 1] = node
      BY <1>2, AppendProperties, LenProperties DEF Arrive, QueueTypes
    <3> QED BY <1>2, <3>1 DEF Arrive, OrderInv
  <2>2. Len(requests') = Len(requests) + 1 /\ Len(m_vecWrite') = R + 1
    BY <1>2, AppendProperties DEF Arrive, QueueTypes
  <2>3. /\ Stretch(finished, c, requests') /\ Stretch(m_vecWriteFinish, c + F, requests')
        /\ Stretch(tmp, c + F + W, requests')
    BY <1>1, <1>2, StretchLonger, SMTT(30) DEF Arrive, OrderInv, QueueTypes
  <2>4. Stretch(m_vecWrite', c + F + W + T, requests')
    BY <1>1, <1>2, StretchAppend DEF Arrive, OrderInv, QueueTypes
  <2>5. Len(requests') = c + F + W + T + Len(m_vecWrite')
    <3>1. \A x, y \in Nat : (x + y) + 1 = x + (y + 1)
      OBVIOUS
    <3>2. c + F + W + T \in Nat
      BY <1>1
    <3> QED BY <1>1, <2>2, <3>1, <3>2
  <2> QED BY <1>2, <2>1, <2>3, <2>4, <2>5 DEF Arrive, OrderInv
<1>3. CASE MoveToWorker
  <2>1. T = 0 /\ Len(m_vecWrite') = 0 /\ R = Len(tmp')
    BY <1>3, EmptySeq DEF MoveToWorker
  <2>2. c + F + W + R \in 0 .. Len(requests)
    BY <1>1, <2>1
  <2>3. Stretch(<<>>, c + F + W + R, requests)
    BY <2>2, StretchEmpty DEF QueueTypes
  <2>4. Stretch(m_vecWrite, c + F + W, requests)
    BY <1>1, <2>1 DEF OrderInv
  <2> QED BY <1>1, <1>3, <2>1, <2>3, <2>4 DEF MoveToWorker, OrderInv
<1>4. CASE MoveDone
  <2>1. tmp # <<>> /\ tmp' = Tail(tmp) /\ m_vecWriteFinish' = Append(m_vecWriteFinish, Head(tmp))
    BY <1>4 DEF MoveDone
  <2>2. /\ Len(tmp') = T - 1 /\ T \in Nat \ {0}
        /\ Head(tmp) = requests[c + F + W + 1]
        /\ Stretch(tmp', c + F + W + 1, requests)
    <3>1. c + F + W \in Nat /\ Stretch(tmp, c + F + W, requests)
      BY <1>1 DEF OrderInv
    <3> QED BY <2>1, <3>1, StretchTail DEF QueueTypes
  <2>3. Head(tmp) \in Node /\ Len(m_vecWriteFinish') = W + 1
    BY <2>1, HeadTailProperties, AppendProperties DEF QueueTypes
  <2>4. Stretch(m_vecWriteFinish', c + F, requests)
    <3>1. /\ c + F \in Nat /\ Stretch(m_vecWriteFinish, c + F, requests)
          /\ c + F + W + 1 <= Len(requests)
      BY <1>1, <2>2, SMTT(30) DEF OrderInv
    <3> QED BY <2>1, <2>2, <2>3, <3>1, StretchPush DEF QueueTypes
  <2>5. /\ c + F + (W + 1) = c + F + W + 1
        /\ c + F + (W + 1) + (T - 1) = c + F + W + T
    <3>1. T - 1 \in Nat
      BY <2>2
    <3> QED BY <1>1, <3>1
  <2> QED BY <1>1, <1>4, <2>2, <2>3, <2>4, <2>5 DEF MoveDone, OrderInv
<1>5. CASE MoveToMain
  <2>1. F = 0 /\ Len(m_vecWriteFinish') = 0 /\ Len(finished') = W
    BY <1>5, EmptySeq DEF MoveToMain
  <2>2. c + W \in 0 .. Len(requests) /\ c + 0 = c /\ c + W + 0 = c + W
    BY <1>1
  <2>3. Stretch(<<>>, c + W, requests)
    BY <2>2, StretchEmpty DEF QueueTypes
  <2> QED BY <1>1, <1>5, <2>1, <2>2, <2>3 DEF MoveToMain, OrderInv
<1>6. CASE MoveOut
  <2>1. finished # <<>> /\ cur' = Head(finished) /\ finished' = Tail(finished)
    BY <1>6 DEF MoveOut
  <2>2. /\ Len(finished') = F - 1 /\ F \in Nat \ {0}
        /\ cur' = requests[c + 1] /\ c + 1 <= Len(requests)
        /\ Stretch(finished', c + 1, requests)
    <3>1. c \in Nat /\ Stretch(finished, c, requests)
      BY <1>1 DEF OrderInv
    <3> QED BY <2>1, <3>1, StretchTail, SMTT(30) DEF QueueTypes
  <2>3. cur'.n = c + 1
    <3>1. c + 1 \in 1 .. Len(requests)
      BY <1>1, <2>2, SMTT(30)
    <3> QED BY <2>2, <3>1 DEF OrderInv
  <2>4. /\ (c + 1) + (F - 1) = c + F
    BY <1>1, <2>2
  <2> QED BY <1>1, <1>6, <2>2, <2>3, <2>4 DEF MoveOut, OrderInv
<1>7. CASE StayPut
  BY <1>7 DEF StayPut, OrderInv
<1> QED BY <1>2, <1>3, <1>4, <1>5, <1>6, <1>7 DEF Move

-----------------------------------------------------------------------------
(***************************************************************************)
(* The hand-overs implement the mailbox: what is pending is the stretch of *)
(* all requests after the one answered last.                               *)
(***************************************************************************)
PendingFacts ==
  /\ Pending \in Seq(Node) /\ Len(Pending) = Len(requests) - cur.n /\ Len(Pending) \in Nat
  /\ Stretch(Pending, cur.n, requests)

LEMMA PendingIsRest == QueueTypes /\ OrderInv => PendingFacts
<1> SUFFICES ASSUME QueueTypes, OrderInv PROVE PendingFacts
  OBVIOUS
<1> DEFINE c == cur.n
           F == Len(finished)
           W == Len(m_vecWriteFinish)
           T == Len(tmp)
           s1 == m_vecWriteFinish
           p1 == finished \o s1
           p2 == p1 \o tmp
           p3 == p2 \o m_vecWrite
<1>1. c \in Nat /\ F \in Nat /\ W \in Nat /\ T \in Nat /\ Len(m_vecWrite) \in Nat
  BY LenProperties DEF QueueTypes
<1>2. p1 \in Seq(Node) /\ Len(p1) = F + W /\ Stretch(p1, c, requests)
  BY StretchConcat DEF QueueTypes, OrderInv
<1>3. Stretch(tmp, c + Len(p1), requests)
  <2>1. c + Len(p1) = c + F + W
    BY <1>1, <1>2
  <2> QED BY <2>1 DEF OrderInv
<1> HIDE DEF p1
<1>4. p2 \in Seq(Node) /\ Len(p2) = F + W + T /\ Stretch(p2, c, requests)
  <2>1. /\ requests \in Seq(Node) /\ tmp \in Seq(Node) /\ c \in Nat
    BY <1>1 DEF QueueTypes
  <2>2. /\ p2 \in Seq(Node) /\ Len(p2) = Len(p1) + T /\ Stretch(p2, c, requests)
    BY <1>2, <1>3, <2>1, StretchConcat
  <2> QED BY <1>1, <1>2, <2>2
<1>5. Stretch(m_vecWrite, c + Len(p2), requests)
  <2>1. c + Len(p2) = c + F + W + T
    BY <1>1, <1>4
  <2> QED BY <2>1 DEF OrderInv
<1> HIDE DEF p2
<1>6. p3 \in Seq(Node) /\ Len(p3) = F + W + T + Len(m_vecWrite) /\ Stretch(p3, c, requests)
  <2>1. /\ requests \in Seq(Node) /\ m_vecWrite \in Seq(Node) /\ c \in Nat
    BY <1>1 DEF QueueTypes
  <2>2. /\ p3 \in Seq(Node) /\ Len(p3) = Len(p2) + Len(m_vecWrite) /\ Stretch(p3, c, requests)
    BY <1>4, <1>5, <2>1, StretchConcat
  <2> QED BY <1>1, <1>4, <2>2
<1>7. Pending = p3
  BY DEF Pending, p1, p2
<1> HIDE DEF p3
<1> QED BY <1>1, <1>6, <1>7, SMTT(30) DEF OrderInv, PendingFacts

LEMMA StretchUnique ==
  ASSUME NEW S, NEW s \in Seq(S), NEW t \in Seq(S), NEW r, NEW k,
         Stretch(s, k, r), Stretch(t, k, r), Len(s) = Len(t)
  PROVE  s = t
BY SeqEqual DEF Stretch

LEMMA AppendIsPut ==
  ASSUME NEW S, NEW s \in Seq(S), NEW e \in S
  PROVE  /\ Len(Append(s, e)) = Len(s) + 1
         /\ SubSeq(Append(s, e), 1, Len(s)) = s
         /\ Append(s, e)[Len(Append(s, e))] = e
<1> DEFINE t == Append(s, e)
           u == SubSeq(t, 1, Len(s))
<1>1. /\ t \in Seq(S) /\ Len(t) = Len(s) + 1 /\ t[Len(s) + 1] = e
      /\ \A i \in 1 .. Len(s) : t[i] = s[i]
  BY AppendProperties
<1>2. Len(s) \in Nat /\ \A i \in 1 .. Len(s) : s[i] \in S
  BY LenProperties, ElementOfSeq
<1> HIDE DEF t
<1>3. /\ u \in Seq(S)
      /\ Len(u) = IF 1 <= Len(s) THEN Len(s) - 1 + 1 ELSE 0
      /\ \A i \in 1 .. Len(s) - 1 + 1 : u[i] = t[1 + i - 1]
  <2>1. 1 \in Int /\ Len(s) \in Int /\ \A i \in 1 .. Len(s) : t[i] \in S
    BY <1>1, <1>2
  <2> QED BY <2>1, SubSeqProperties
<1> HIDE DEF u
<1>4. Len(u) = Len(s) /\ \A i \in 1 .. Len(u) : u[i] = s[i]
  BY <1>1, <1>2, <1>3
<1>5. u = s
  BY <1>3, <1>4, SeqEqual
<1> QED BY <1>1, <1>5 DEF t, u

\* Each step puts one request, takes the oldest, or leaves the pending ones alone.
LEMMA MoveIsMailboxStep ==
  ASSUME QueueTypes, QueueTypes', OrderInv, OrderInv', Move
  PROVE  [Handover!Next]_<<Pending, cur>>
<1> DEFINE c == cur.n
<1>1. /\ Pending \in Seq(Node) /\ Len(Pending) = Len(requests) - c /\ Len(Pending) \in Nat
      /\ Stretch(Pending, c, requests) /\ c \in Nat /\ Len(requests) \in Nat
  BY PendingIsRest, LenProperties DEF QueueTypes, PendingFacts
<1>2. /\ Pending' \in Seq(Node) /\ Len(Pending') = Len(requests') - cur'.n
      /\ Len(Pending') \in Nat /\ Stretch(Pending', cur'.n, requests')
  <2>1. PendingFacts'
    BY PendingIsRest, PTL
  <2> QED BY <2>1 DEF PendingFacts
<1>3. ASSUME NEW node \in Node, Arrive(node) PROVE Handover!Next
  <2>1. requests' = Append(requests, node) /\ Len(requests') = Len(requests) + 1
        /\ UNCHANGED cur
    BY <1>3, AppendProperties DEF Arrive, QueueTypes
  <2> DEFINE q == Append(Pending, node)
  <2>2. q \in Seq(Node) /\ Len(q) = Len(Pending) + 1
    BY <1>1, AppendProperties
  <2>3. Stretch(q, c, requests')
    <3>1. Len(requests) = c + Len(Pending) /\ requests \in Seq(Node)
      BY <1>1, SMTT(30) DEF QueueTypes
    <3> QED BY <1>1, <2>1, <3>1, StretchAppend
  <2>4. Len(Pending') = Len(Pending) + 1 /\ Stretch(Pending', c, requests')
    BY <1>1, <1>2, <2>1
  <2> HIDE DEF q
  <2>5. Pending' = q
    BY <1>2, <2>2, <2>3, <2>4, StretchUnique
  <2>6. /\ Len(Pending') = Len(Pending) + 1
        /\ SubSeq(Pending', 1, Len(Pending)) = Pending
        /\ Pending'[Len(Pending')] = node
    BY <1>1, <2>5, AppendIsPut DEF q
  <2> QED BY <2>1, <2>6 DEF Handover!Next, Handover!Put
<1>4. CASE MoveOut
  <2>1. /\ finished # <<>> /\ cur' = Head(finished) /\ requests' = requests
        /\ finished \in Seq(Node) /\ requests \in Seq(Node) /\ Stretch(finished, c, requests)
    BY <1>4 DEF MoveOut, QueueTypes, OrderInv
  <2>2. cur' = requests[c + 1] /\ c + 1 <= Len(requests)
    BY <1>1, <2>1, StretchTail
  <2>3. c + 1 \in 1 .. Len(requests)
    BY <1>1, <2>2
  <2>4. cur'.n = c + 1
    BY <2>2, <2>3 DEF OrderInv
  <2>5. Pending # <<>>
    BY <1>1, <2>2, EmptySeq
  <2>6. /\ Len(Tail(Pending)) = Len(Pending) - 1 /\ Head(Pending) = requests[c + 1]
        /\ Stretch(Tail(Pending), c + 1, requests) /\ Tail(Pending) \in Seq(Node)
    BY <1>1, <2>1, <2>5, StretchTail, HeadTailProperties
  <2>7. Len(Pending') = Len(Pending) - 1 /\ Stretch(Pending', c + 1, requests)
    BY <1>1, <1>2, <2>1, <2>4
  <2>8. Pending' = Tail(Pending)
    BY <1>2, <2>6, <2>7, StretchUnique
  <2> QED BY <2>2, <2>5, <2>6, <2>8 DEF Handover!Next, Handover!Take
<1>5. CASE MoveToWorker \/ MoveDone \/ MoveToMain \/ StayPut
  <2>1. UNCHANGED <<requests, cur>>
    BY <1>5 DEF MoveToWorker, MoveDone, MoveToMain, StayPut
  <2>2. Len(Pending') = Len(Pending) /\ Stretch(Pending', c, requests)
    BY <1>1, <1>2, <2>1
  <2>3. Pending' = Pending
    BY <1>1, <1>2, <2>2, StretchUnique
  <2> QED BY <2>1, <2>3
<1> QED BY <1>3, <1>4, <1>5 DEF Move

QueueInv == WorkerTypeOK /\ OrderInv /\ BatchInv

LEMMA QueueInvInit == Init => QueueInv
<1> SUFFICES ASSUME Init PROVE QueueInv
  OBVIOUS
<1>1. OrderInv
  BY EmptySeq DEF Init, OrderInv, Stretch, NoNode
<1> QED BY <1>1, WorkerTypeInit DEF Init, QueueInv, BatchInv

LEMMA QueueInvStep ==
  QueueInv /\ [Next]_vars => QueueInv' /\ Move /\ QueueTypes /\ QueueTypes'
<1> SUFFICES ASSUME QueueInv, [Next]_vars
             PROVE  QueueInv' /\ Move /\ QueueTypes /\ QueueTypes'
  OBVIOUS
<1>1. WorkerTypeOK'
  BY WorkerTypeStep DEF QueueInv
<1>2. Move /\ BatchInv'
  BY StepIsMove DEF QueueInv
<1>3. QueueTypes
  BY QueueTypesHold DEF QueueInv
<1>4. QueueTypes'
  BY <1>1, QueueTypesHold, PTL
<1> QED BY <1>1, <1>2, <1>3, <1>4, OrderStep DEF QueueInv

\* From AddWaitNode to DoLogic the requests pass through a mailbox: the two
\* vectors, the swaps and the worker's batch lose, repeat and reorder none.
THEOREM QueueRefines == Spec => QueueIsMailbox
<1>1. Init => Handover!Init
  <2> SUFFICES ASSUME Init PROVE Pending = <<>> /\ cur = NoNode
    BY DEF Handover!Init
  <2>1. <<>> \o <<>> = <<>>
    BY ConcatEmptySeq, EmptySeq
  <2> QED BY <2>1 DEF Init, Pending
<1>2. QueueInv /\ [Next]_vars => [Handover!Next]_<<Pending, cur>>
  BY QueueInvStep, MoveIsMailboxStep DEF QueueInv
<1>3. QueueInv /\ [Next]_vars => QueueInv'
  BY QueueInvStep
<1> QED BY <1>1, <1>2, <1>3, QueueInvInit, PTL DEF Spec, QueueIsMailbox, Handover!Spec

-----------------------------------------------------------------------------
(***************************************************************************)
(* A request's outcome is set just when it leaves the worker's hands.      *)
(***************************************************************************)
Done == cur.n + Len(finished) + Len(m_vecWriteFinish)

OutcomeInv == \A n \in Number : outdata[n] = "unset" <=> n > Done

LEMMA DoneFacts ==
  ASSUME WorkerTypeOK, QueueTypes, OrderInv
  PROVE  /\ Done \in Nat /\ Done <= Len(requests) /\ Len(requests) \in Nat
         /\ tmp # <<>> => Head(tmp) = requests[Done + 1] /\ Head(tmp).n = Done + 1
                          /\ Done + 1 \in 1 .. Len(requests)
<1>1. /\ cur.n \in Nat /\ Len(finished) \in Nat /\ Len(m_vecWriteFinish) \in Nat
      /\ Len(tmp) \in Nat /\ Len(m_vecWrite) \in Nat /\ Len(requests) \in Nat
  BY LenProperties DEF QueueTypes
<1>2. Done \in Nat /\ Len(requests) = Done + Len(tmp) + Len(m_vecWrite)
  BY <1>1 DEF Done, OrderInv
<1>3. Done <= Len(requests)
  BY <1>1, <1>2
<1>4. ASSUME tmp # <<>>
      PROVE  Head(tmp) = requests[Done + 1] /\ Head(tmp).n = Done + 1
             /\ Done + 1 \in 1 .. Len(requests)
  <2>1. Stretch(tmp, Done, requests)
    BY DEF OrderInv, Done
  <2>2. Head(tmp) = requests[Done + 1] /\ Done + 1 <= Len(requests)
    BY <1>2, <1>4, <2>1, StretchTail DEF QueueTypes
  <2>3. Done + 1 \in 1 .. Len(requests)
    BY <1>1, <1>2, <2>2
  <2> QED BY <2>2, <2>3 DEF OrderInv
<1> QED BY <1>1, <1>2, <1>3, <1>4

LEMMA OutcomeInit == Init => OutcomeInv
BY EmptySeq DEF Init, OutcomeInv, Done, NoNode, Number

LEMMA OutcomeStep ==
  ASSUME QueueInv, OutcomeInv, [Next]_vars
  PROVE  OutcomeInv'
<1>1. QueueTypes /\ QueueTypes' /\ Move /\ WorkerTypeOK /\ OrderInv
  BY QueueInvStep DEF QueueInv
<1>2. /\ cur.n \in Nat /\ Len(finished) \in Nat /\ Len(m_vecWriteFinish) \in Nat
      /\ Done \in Nat /\ Number = 1 .. MaxNodes /\ MaxNodes \in Nat
  BY <1>1, DoneFacts, LenProperties DEF QueueTypes, Number
<1>3. CASE MoveDone
  <2>1. PICK o \in Outcome \ {"unset"} : outdata' = [outdata EXCEPT ![Head(tmp).n] = o]
    BY <1>3 DEF MoveDone
  <2>2. Head(tmp).n = Done + 1
    BY <1>1, <1>3, DoneFacts DEF MoveDone
  <2>3. Done' = Done + 1
    <3>1. Len(m_vecWriteFinish') = Len(m_vecWriteFinish) + 1 /\ UNCHANGED <<cur, finished>>
      BY <1>1, <1>3, AppendProperties, HeadTailProperties DEF MoveDone, QueueTypes
    <3> QED BY <1>2, <3>1, SMTT(30) DEF Done
  <2>4. outdata \in [Number -> Outcome]
    BY <1>1 DEF WorkerTypeOK
  <2> QED BY <1>2, <2>1, <2>2, <2>3, <2>4 DEF OutcomeInv
<1>4. CASE MoveToMain
  <2>1. Done' = Done
    BY <1>2, <1>4, EmptySeq DEF MoveToMain, Done
  <2> QED BY <1>4, <2>1 DEF MoveToMain, OutcomeInv
<1>5. CASE MoveOut
  <2>1. cur'.n = cur.n + 1
    <3>1. finished # <<>> /\ Stretch(finished, cur.n, requests) /\ cur' = Head(finished)
      BY <1>1, <1>5 DEF MoveOut, OrderInv
    <3>2. cur' = requests[cur.n + 1] /\ cur.n + 1 <= Len(requests)
      BY <1>1, <3>1, StretchTail DEF QueueTypes
    <3>3. cur.n + 1 \in 1 .. Len(requests)
      BY <1>1, <1>2, <3>2, DoneFacts
    <3> QED BY <1>1, <3>2, <3>3 DEF OrderInv
  <2>2. Len(finished') = Len(finished) - 1 /\ m_vecWriteFinish' = m_vecWriteFinish
    BY <1>1, <1>5, HeadTailProperties DEF MoveOut, QueueTypes
  <2>3. Done' = Done
    BY <1>2, <2>1, <2>2 DEF Done
  <2> QED BY <1>5, <2>3 DEF MoveOut, OutcomeInv
<1>6. CASE MoveToWorker \/ StayPut \/ \E node \in Node : Arrive(node)
  BY <1>6 DEF MoveToWorker, StayPut, Arrive, OutcomeInv, Done
<1> QED BY <1>1, <1>3, <1>4, <1>5, <1>6 DEF Move

LEMMA OutcomeCorrect == QueueInv /\ OutcomeInv => LogicAfterSql
<1> SUFFICES ASSUME QueueInv, OutcomeInv PROVE LogicAfterSql
  OBVIOUS
<1>1. QueueTypes /\ OrderInv /\ WorkerTypeOK
  BY QueueTypesHold DEF QueueInv
<1>2. /\ cur.n \in Nat /\ Len(finished) \in Nat /\ Len(m_vecWriteFinish) \in Nat
      /\ Len(tmp) \in Nat /\ Len(requests) \in Nat /\ Done \in Nat
  BY <1>1, DoneFacts, LenProperties DEF QueueTypes
<1>3. /\ Stretch(finished, cur.n, requests)
      /\ Stretch(m_vecWriteFinish, cur.n + Len(finished), requests)
      /\ Stretch(tmp, Done, requests)
  BY <1>1 DEF OrderInv, Done
<1>4. ASSUME NEW s \in Seq(Node), NEW k \in Nat, Stretch(s, k, requests), NEW i \in DOMAIN s
      PROVE  s[i].n = k + i /\ k + i \in Number /\ i \in 1 .. Len(s)
  <2>1. i \in 1 .. Len(s) /\ Len(s) \in Nat
    BY <1>4, LenProperties
  <2>2. s[i] = requests[k + i] /\ k + i \in 1 .. Len(requests)
    BY <1>2, <1>4, <2>1 DEF Stretch
  <2>3. k + i \in Number
    BY <1>1, <1>2, <2>2 DEF Number, QueueTypes
  <2> QED BY <1>1, <2>1, <2>2, <2>3 DEF OrderInv
<1>5. ASSUME NEW i \in DOMAIN finished PROVE outdata[finished[i].n] # "unset"
  <2>1. finished[i].n = cur.n + i /\ cur.n + i \in Number /\ i \in 1 .. Len(finished)
    BY <1>1, <1>2, <1>3, <1>4 DEF QueueTypes
  <2>2. ~(cur.n + i > Done)
    BY <1>2, <2>1 DEF Done
  <2> QED BY <2>1, <2>2 DEF OutcomeInv
<1>6. ASSUME NEW i \in DOMAIN m_vecWriteFinish PROVE outdata[m_vecWriteFinish[i].n] # "unset"
  <2> DEFINE k == cur.n + Len(finished)
  <2>1. k \in Nat
    BY <1>2
  <2>2. m_vecWriteFinish[i].n = k + i /\ k + i \in Number /\ i \in 1 .. Len(m_vecWriteFinish)
    BY <1>1, <1>3, <1>4, <2>1 DEF QueueTypes
  <2>3. ~(k + i > Done)
    BY <1>2, <2>2 DEF Done
  <2> QED BY <2>2, <2>3 DEF OutcomeInv
<1>7. ASSUME NEW i \in DOMAIN tmp PROVE outdata[tmp[i].n] = "unset"
  <2>1. tmp[i].n = Done + i /\ Done + i \in Number /\ i \in 1 .. Len(tmp)
    BY <1>1, <1>2, <1>3, <1>4 DEF QueueTypes
  <2>2. Done + i > Done
    BY <1>2, <2>1
  <2> QED BY <2>1, <2>2 DEF OutcomeInv
<1> QED BY <1>5, <1>6, <1>7 DEF LogicAfterSql

\* The main thread sees only requests whose DoDBSql has run to its end, and the
\* worker has only such as it has not.
THEOREM SqlBeforeLogic == Spec => []LogicAfterSql
<1>1. QueueInv /\ OutcomeInv /\ [Next]_vars => QueueInv' /\ OutcomeInv'
  BY QueueInvStep, OutcomeStep
<1> QED BY <1>1, QueueInvInit, OutcomeInit, OutcomeCorrect, PTL DEF Spec

-----------------------------------------------------------------------------
(***************************************************************************)
(* A "yes" of @isNew that reaches DoRegSql is that of its own CALL.        *)
(***************************************************************************)
CreateInv ==
  /\ \A a \in Account : a \in accounts <=> creator[a] # 0
  /\ \A n \in 1 .. Len(requests) : outdata[n] = "new" => creator[requests[n].account] = n
  /\ \A n \in Number : answered[n] = "REGSTER_OK" => outdata[n] = "new"
  /\ worker = "sql" /\ sql # Selsect /\ at = "select" /\ isNew = "yes"
       => creator[sql.account] = Head(tmp).n
  /\ worker = "sql" /\ sql # Selsect /\ at = "idle" /\ row = "yes"
       => creator[sql.account] = Head(tmp).n

CreateBase == QueueInv /\ OutcomeInv

LEMMA CreateInit == Init => CreateInv
BY EmptySeq DEF Init, DBInit, CreateInv

LEMMA HeadIsNext ==
  ASSUME CreateBase, tmp # <<>>
  PROVE  /\ Head(tmp).n \in Number /\ Head(tmp).n # 0 /\ Head(tmp).n \in 1 .. Len(requests)
         /\ Head(tmp) = requests[Head(tmp).n] /\ outdata[Head(tmp).n] = "unset"
         /\ Head(tmp).account \in Account /\ Head(tmp).password \in Password
<1>1. QueueTypes /\ OrderInv /\ WorkerTypeOK
  BY QueueTypesHold DEF CreateBase, QueueInv
<1>2. /\ Head(tmp) = requests[Done + 1] /\ Head(tmp).n = Done + 1
      /\ Done + 1 \in 1 .. Len(requests) /\ Done \in Nat
  BY <1>1, DoneFacts
<1>3. /\ Head(tmp).n \in Number
      /\ Head(tmp).account \in Account /\ Head(tmp).password \in Password
  BY <1>1, HeadFacts
<1>4. outdata[Done + 1] = "unset"
  BY <1>2, <1>3 DEF CreateBase, OutcomeInv
<1> QED BY <1>2, <1>3, <1>4

LEMMA CreateFinish ==
  ASSUME CreateBase, CreateInv, tmp # <<>>, NEW o \in Outcome, Finish(o), UNCHANGED dbVars,
         o = "new" => creator[Head(tmp).account] = Head(tmp).n
  PROVE  CreateInv'
<1> DEFINE h == Head(tmp).n
<1>1. /\ h \in Number /\ h \in 1 .. Len(requests) /\ Head(tmp) = requests[h]
      /\ outdata[h] = "unset"
  BY HeadIsNext
<1>2. outdata \in [Number -> Outcome] /\ outdata' = [outdata EXCEPT ![h] = o]
  BY DEF Finish, CreateBase, QueueInv, WorkerTypeOK
<1>3. /\ worker' = "next" /\ UNCHANGED <<accounts, creator, requests, answered>>
  BY DEF Finish, dbVars, mainVars
<1>4. 1 .. Len(requests) \subseteq Number
  <2>1. requests \in Seq(Node) /\ Len(requests) <= MaxNodes /\ MaxNodes \in Nat
    BY QueueTypesHold DEF CreateBase, QueueInv, QueueTypes
  <2> QED BY <2>1, LenProperties DEF Number
<1>5. \A n \in 1 .. Len(requests') : outdata'[n] = "new" => creator'[requests'[n].account] = n
  <2> TAKE n \in 1 .. Len(requests')
  <2>1. n \in 1 .. Len(requests) /\ n \in Number
    BY <1>3, <1>4
  <2>2. CASE n = h
    BY <1>1, <1>2, <1>3, <2>2
  <2>3. CASE n # h
    BY <1>2, <1>3, <2>1, <2>3 DEF CreateInv
  <2> QED BY <2>2, <2>3
<1>6. \A n \in Number : answered'[n] = "REGSTER_OK" => outdata'[n] = "new"
  BY <1>1, <1>2, <1>3 DEF CreateInv
<1> QED BY <1>3, <1>5, <1>6 DEF CreateInv

LEMMA CreateExchange ==
  ASSUME CreateBase, CreateInv, Exchange
  PROVE  CreateInv'
<1> DEFINE h == Head(tmp).n
<1>1. WorkerTypeOK /\ DBTypeOK /\ worker = "sql" /\ tmp # <<>> /\ Statements
  BY DEF CreateBase, QueueInv, WorkerTypeOK, Exchange
<1>2. h # 0
  BY <1>1, HeadIsNext
<1>3. /\ UNCHANGED <<worker, tmp, requests, outdata, answered>>
      /\ creator' = [a \in Account |-> IF a \in accounts' \ accounts THEN h ELSE creator[a]]
  BY DEF Exchange, workerVars, mainVars
<1>4. sql' = sql /\ DBTypeOK'
  BY <1>1, DBTypeStatements
<1>5. accounts \subseteq accounts'
  BY <1>1 DEF Statements, KeepAlive, init, QueryFails, QueryRuns, QueryLost, SelectFetches,
              SelectFails, Called
<1>6. \A a \in Account : a \in accounts' <=> creator'[a] # 0
  BY <1>2, <1>3, <1>5 DEF CreateInv
<1>7. \A n \in 1 .. Len(requests') : outdata'[n] = "new" => creator'[requests'[n].account] = n
  <2> TAKE n \in 1 .. Len(requests')
  <2> SUFFICES ASSUME outdata'[n] = "new" PROVE creator'[requests'[n].account] = n
    OBVIOUS
  <2> DEFINE a == requests[n].account
  <2>1. n \in 1 .. Len(requests) /\ outdata[n] = "new" /\ requests' = requests
    BY <1>3
  <2>2. creator[a] = n /\ n # 0
    BY <2>1 DEF CreateInv
  <2>3. a \in Account
    <3>1. requests[n] \in Node
      BY <1>1, <2>1, ElementOfSeq DEF WorkerTypeOK
    <3> QED BY <3>1, NodeFacts
  <2>4. a \in accounts
    BY <2>2, <2>3 DEF CreateInv
  <2> QED BY <1>3, <2>1, <2>2, <2>3, <2>4
<1>8. \A n \in Number : answered'[n] = "REGSTER_OK" => outdata'[n] = "new"
  BY <1>3 DEF CreateInv
<1>9. ASSUME sql # Selsect, sql.account \in accounts' \ accounts
      PROVE  creator'[sql.account] = h
  BY <1>1, <1>3, <1>9, StatementFacts DEF DBTypeOK
<1>10. ASSUME accounts' = accounts, sql # Selsect
       PROVE  creator'[sql.account] = creator[sql.account]
  BY <1>1, <1>3, <1>10, StatementFacts DEF DBTypeOK
<1>11. ASSUME sql # Selsect, at' = "select", isNew' = "yes"
       PROVE  creator'[sql.account] = h
  <2>1. QueryRuns
    BY <1>1, <1>11 DEF Statements, KeepAlive, init, QueryFails, QueryRuns, QueryLost,
                       SelectFetches, SelectFails, Return
  <2> QED BY <1>9, <1>11, <2>1 DEF QueryRuns, Called
<1>12. ASSUME sql # Selsect, at' = "idle", row' = "yes"
       PROVE  creator'[sql.account] = h
  <2>1. SelectFetches /\ con = "live" /\ isNew' = isNew
    BY <1>1, <1>12 DEF Statements, KeepAlive, init, QueryFails, QueryRuns, QueryLost,
                       SelectFetches, SelectFails, Reached, SameSession, NewSession, Return
  <2>2. at = "select" /\ isNew = "yes" /\ accounts' = accounts
    BY <1>12, <2>1 DEF SelectFetches, Return
  <2>3. creator[sql.account] = h
    BY <1>1, <1>12, <2>2 DEF CreateInv
  <2> QED BY <1>10, <1>12, <2>2, <2>3
<1> QED BY <1>3, <1>4, <1>6, <1>7, <1>8, <1>11, <1>12 DEF CreateInv

LEMMA CreateStep ==
  ASSUME CreateBase, CreateInv, [Next]_vars
  PROVE  CreateInv'
<1>1. WorkerTypeOK /\ OutcomeInv /\ QueueTypes /\ OrderInv
  BY QueueTypesHold DEF CreateBase, QueueInv
<1>2. ASSUME NEW kind \in {"register", "login"}, NEW account \in Account,
             NEW password \in Password, AddWaitNode(kind, account, password)
      PROVE  CreateInv'
  <2> DEFINE L == Len(requests)
  <2>1. /\ L \in Nat /\ Done <= L /\ Done \in Nat /\ L + 1 \in Number
    BY <1>1, <1>2, DoneFacts, WorkerAssumption DEF AddWaitNode, Number, WorkerTypeOK
  <2>2. outdata[L + 1] = "unset"
    BY <1>1, <2>1 DEF OutcomeInv
  <2>3. Len(requests') = L + 1 /\ \A i \in 1 .. L : requests'[i] = requests[i]
    <3>1. PICK node \in Node : Arrive(node)
      <4>1. [n |-> L + 1, kind |-> kind, account |-> account,
             password |-> password] \in Node
        BY <2>1 DEF Node
      <4>2. Arrive([n |-> L + 1, kind |-> kind, account |-> account,
             password |-> password])
        BY <1>2 DEF AddWaitNode, Arrive, workerVars
      <4> QED BY <4>1, <4>2
    <3> QED BY <1>1, <3>1, AppendProperties DEF Arrive, QueueTypes
  <2>4. UNCHANGED <<accounts, creator, outdata, answered, worker, sql, at, isNew, row, tmp>>
    BY <1>2 DEF AddWaitNode, dbVars, workerVars
  <2>5. \A n \in 1 .. Len(requests') : outdata'[n] = "new" => creator'[requests'[n].account] = n
    <3> TAKE n \in 1 .. Len(requests')
    <3>1. n = L + 1 \/ n \in 1 .. L
      BY <2>1, <2>3
    <3> QED BY <2>2, <2>3, <2>4, <3>1 DEF CreateInv
  <2> QED BY <2>4, <2>5 DEF CreateInv
<1>3. CASE DoLogic
  <2>1. /\ UNCHANGED <<accounts, creator, outdata, requests, worker, sql, at, isNew, row, tmp>>
        /\ answered' = [answered EXCEPT ![cur'.n] = AnswerFor(outdata[cur'.n])]
    BY <1>3 DEF DoLogic, dbVars, workerVars
  <2>2. \A o : AnswerFor(o) = "REGSTER_OK" => o = "new"
    BY DEF AnswerFor
  <2>3. \A n \in Number : answered'[n] = "REGSTER_OK" => outdata'[n] = "new"
    BY <1>1, <2>1, <2>2 DEF CreateInv, WorkerTypeOK
  <2> QED BY <2>1, <2>3 DEF CreateInv
<1>4. ASSUME NEW s, Execute(s) PROVE CreateInv'
  <2>1. /\ UNCHANGED <<accounts, creator, outdata, requests, answered>> /\ at' = "ping"
    BY <1>4 DEF Execute, loadtabledata, mainVars
  <2> QED BY <2>1 DEF CreateInv
<1>5. ASSUME NEW o \in Outcome \ {"new"}, tmp # <<>>, Finish(o), UNCHANGED dbVars
      PROVE  CreateInv'
  BY <1>5, CreateFinish
<1>6. CASE RegisterBegin
  <2>1. tmp # <<>> /\ {"long", "noConnection"} \subseteq Outcome \ {"new"}
    BY <1>6 DEF RegisterBegin, AtNode, Outcome
  <2> QED BY <1>6, <2>1, <1>4, <1>5 DEF RegisterBegin
<1>7. CASE LoginCheck \/ LoginServers
  <2>1. tmp # <<>> /\ "loginFail" \in Outcome \ {"new"} /\ worker = "next"
    BY <1>7 DEF LoginCheck, LoginServers, AtNode, Outcome
  <2>2. ASSUME UNCHANGED <<dbVars, queueVars, finishLock, worker, tmp, mainVars,
                           outdata, creator, answered>>
        PROVE  CreateInv'
    BY <2>1, <2>2 DEF CreateInv, dbVars, mainVars
  <2> QED BY <1>7, <2>1, <2>2, <1>4, <1>5 DEF LoginCheck, LoginServers
<1>8. CASE RegisterResult
  <2>1. /\ tmp # <<>> /\ worker = "sql" /\ at = "idle" /\ sql = Call(Head(tmp).account, Head(tmp).password)
        /\ UNCHANGED dbVars /\ {"noResult", "repeated"} \subseteq Outcome \ {"new"}
        /\ "new" \in Outcome
    BY <1>1, <1>8 DEF RegisterResult, Returned, WorkerTypeOK, Outcome
  <2>2. ASSUME row = "yes" PROVE creator[Head(tmp).account] = Head(tmp).n
    <3>1. sql # Selsect /\ sql.account = Head(tmp).account
      BY <2>1, HeadIsNext, StatementFacts
    <3> QED BY <2>1, <2>2, <3>1 DEF CreateInv
  <2> QED BY <1>8, <2>1, <2>2, <1>5, CreateFinish DEF RegisterResult
<1>9. CASE LoginServersResult
  <2>1. tmp # <<>> /\ UNCHANGED dbVars /\ {"loginOK", "loginFail"} \subseteq Outcome \ {"new"}
    BY <1>1, <1>9 DEF LoginServersResult, Returned, WorkerTypeOK, Outcome
  <2> QED BY <1>9, <2>1, <1>5 DEF LoginServersResult
<1>10. CASE TakeWrite \/ LockFinish \/ UnlockFinish \/ LoginCheckResult
  <2>1. UNCHANGED <<accounts, creator, outdata, requests, answered>> /\ worker' # "sql"
    BY <1>10 DEF TakeWrite, LockFinish, UnlockFinish, LoginCheckResult, dbVars, mainVars
  <2> QED BY <2>1 DEF CreateInv
<1>11. CASE \/ DealSqlMsg \/ DoLogicFault \/ GetFinishDBWait \/ RegisterFault \/ Environment
            \/ UNCHANGED vars
  <2>1. UNCHANGED <<accounts, creator, outdata, requests, answered, worker, sql, at, isNew, row, tmp>>
    BY <1>11 DEF DealSqlMsg, DoLogicFault, GetFinishDBWait, RegisterFault, Environment, Database,
                 Drop, GoDown, ComeUp, vars, dbVars, mainVars, workerVars
  <2> QED BY <2>1 DEF CreateInv
<1> QED BY <1>2, <1>3, <1>6, <1>7, <1>8, <1>9, <1>10, <1>11, CreateExchange
        DEF Next, MainThread, Worker, Halted

\* A registration answered OK is the one whose CALL created the account,
\* whatever the connection did in between.
THEOREM OKMeansCreatedCorrect == Spec => []OKMeansCreated
<1> DEFINE Inv == CreateBase /\ CreateInv
<1>1. Init => Inv
  BY QueueInvInit, OutcomeInit, CreateInit DEF CreateBase
<1>2. Inv /\ [Next]_vars => Inv'
  BY QueueInvStep, OutcomeStep, CreateStep DEF CreateBase
<1>3. Inv => OKMeansCreated
  <2> SUFFICES ASSUME Inv, NEW n \in DOMAIN requests, answered[n] = "REGSTER_OK"
               PROVE  creator[requests[n].account] = n
    BY DEF OKMeansCreated
  <2>1. requests \in Seq(Node) /\ Len(requests) <= MaxNodes /\ MaxNodes \in Nat
    BY QueueTypesHold DEF CreateBase, QueueInv, QueueTypes
  <2>2. n \in 1 .. Len(requests) /\ n \in Number
    BY <2>1, LenProperties DEF Number
  <2> QED BY <2>2 DEF CreateInv
<1> HIDE DEF Inv
<1> QED BY <1>1, <1>2, <1>3, PTL DEF Spec

-----------------------------------------------------------------------------
(***************************************************************************)
(* The cause of a FAIL.  An account's creator is a request already done or *)
(* the one whose CALL has run; a "no" of @isNew that reaches DoRegSql says *)
(* that it is another one; and an error without a refused '@' is a fault.  *)
(***************************************************************************)
Failures == {"repeated", "long", "noConnection", "noResult"}

CauseInv ==
  \A n \in 1 .. Len(requests) :
    LET account == requests[n].account
    IN  /\ outdata[n] = "repeated" => creator[account] \in 1 .. n - 1
        /\ outdata[n] \in {"long", "noConnection"} => creator[account] # n
        /\ outdata[n] = "noResult" => ~Clean(requests[n]) \/ faults > 0

FailAnswers == \A n \in Number : answered[n] = "REGSTER_FAIL" => outdata[n] \in Failures

Running == worker = "sql" /\ sql # Selsect

CreatorInv ==
  \A a \in Account :
    creator[a] # 0 => \/ outdata[creator[a]] # "unset"
                      \/ Running /\ at \in {"select", "idle"} /\ creator[a] = Head(tmp).n

SqlInv ==
  /\ Running /\ at = "select" /\ isNew = "no" => creator[sql.account] \notin {0, Head(tmp).n}
  /\ Running /\ at = "idle" /\ row = "no" => creator[sql.account] \notin {0, Head(tmp).n}
  /\ Running /\ at = "idle" /\ rt = "error" => ~Clean(sql) \/ faults > 0
  /\ con = "lost" \/ at = "init" => faults > 0

FailInv == CauseInv /\ FailAnswers /\ CreatorInv /\ SqlInv

FailBase == CreateBase /\ CreateInv

LEMMA FailInit == Init => FailInv
<1> SUFFICES ASSUME Init PROVE FailInv
  OBVIOUS
<1>1. Len(requests) = 0
  BY EmptySeq DEF Init
<1>2. CauseInv /\ FailAnswers /\ CreatorInv
  BY <1>1 DEF Init, CauseInv, FailAnswers, CreatorInv
<1>3. SqlInv
  BY DEF Init, DBInit, SqlInv, Running
<1> QED BY <1>2, <1>3 DEF FailInv

LEMMA FailBaseFacts ==
  ASSUME FailBase
  PROVE  /\ WorkerTypeOK /\ DBTypeOK /\ QueueTypes /\ OrderInv /\ OutcomeInv
         /\ 1 .. Len(requests) \subseteq Number /\ Len(requests) \in Nat
         /\ \A n \in 1 .. Len(requests) : requests[n].account \in Account
         /\ \A a \in Account : a \in accounts <=> creator[a] # 0
<1>1. WorkerTypeOK /\ QueueTypes /\ OrderInv /\ OutcomeInv
  BY QueueTypesHold DEF FailBase, CreateBase, QueueInv
<1>2. requests \in Seq(Node) /\ Len(requests) <= MaxNodes /\ MaxNodes \in Nat
  BY <1>1 DEF QueueTypes
<1>3. ASSUME NEW n \in 1 .. Len(requests) PROVE requests[n].account \in Account
  <2>1. requests[n] \in Node
    BY <1>2, <1>3, ElementOfSeq
  <2> QED BY <2>1, NodeFacts
<1>4. 1 .. Len(requests) \subseteq Number /\ Len(requests) \in Nat
  BY <1>2, LenProperties DEF Number
<1> QED BY <1>1, <1>3, <1>4 DEF WorkerTypeOK, FailBase, CreateInv

\* A creator other than the node at the head came before it.
LEMMA CreatorEarlier ==
  ASSUME FailBase, CreatorInv, tmp # <<>>,
         NEW a \in Account, creator[a] \notin {0, Head(tmp).n}
  PROVE  creator[a] \in 1 .. Head(tmp).n - 1
<1>1. WorkerTypeOK /\ QueueTypes /\ OrderInv /\ OutcomeInv
  BY FailBaseFacts
<1>2. creator[a] \in Number /\ Number \subseteq Nat \ {0}
  BY <1>1, WorkerAssumption DEF WorkerTypeOK, Number
<1>3. outdata[creator[a]] # "unset"
  BY DEF CreatorInv
<1>4. Done \in Nat /\ Head(tmp).n = Done + 1 /\ Head(tmp).n \in Nat
  BY <1>1, DoneFacts
<1>5. ~(creator[a] > Done)
  BY <1>1, <1>2, <1>3 DEF OutcomeInv
<1>6. \A c \in Nat \ {0}, d \in Nat, h \in Nat : ~(c > d) /\ h = d + 1 => c \in 1 .. h - 1
  OBVIOUS
<1> HIDE DEF Done
<1> QED BY <1>2, <1>4, <1>5, <1>6

LEMMA FailFinish ==
  ASSUME FailBase, FailInv, tmp # <<>>, NEW o \in Outcome \ {"unset"}, Finish(o), UNCHANGED dbVars,
         o = "repeated" => creator[Head(tmp).account] \notin {0, Head(tmp).n},
         o \in {"long", "noConnection"} => creator[Head(tmp).account] # Head(tmp).n,
         o = "noResult" => ~Clean(Head(tmp)) \/ faults > 0
  PROVE  FailInv'
<1> DEFINE h == Head(tmp).n
<1>1. /\ h \in Number /\ h \in 1 .. Len(requests) /\ Head(tmp) = requests[h]
      /\ outdata[h] = "unset" /\ Head(tmp).account \in Account
  BY HeadIsNext DEF FailBase
<1>2. outdata \in [Number -> Outcome] /\ outdata' = [outdata EXCEPT ![h] = o]
  BY FailBaseFacts DEF Finish, WorkerTypeOK
<1>3. /\ worker' = "next"
      /\ UNCHANGED <<con, at, faults, creator, requests, answered>>
  BY DEF Finish, dbVars, mainVars
<1>4. CauseInv'
  <2> SUFFICES ASSUME NEW n \in 1 .. Len(requests)
               PROVE  LET account == requests[n].account
                      IN  /\ outdata'[n] = "repeated" => creator[account] \in 1 .. n - 1
                          /\ outdata'[n] \in {"long", "noConnection"} => creator[account] # n
                          /\ outdata'[n] = "noResult" => ~Clean(requests[n]) \/ faults > 0
    BY <1>3 DEF CauseInv
  <2>1. n \in Number
    BY FailBaseFacts
  <2>2. CASE n = h
    <3>1. outdata'[n] = o
      BY <1>1, <1>2, <2>2
    <3>2. o = "repeated" => creator[Head(tmp).account] \in 1 .. h - 1
      BY <1>1, CreatorEarlier DEF FailInv
    <3> QED BY <1>1, <2>2, <3>1, <3>2
  <2>3. CASE n # h
    <3>1. outdata'[n] = outdata[n]
      BY <1>2, <2>1, <2>3
    <3> QED BY <3>1 DEF FailInv, CauseInv
  <2> QED BY <2>2, <2>3
<1>5. FailAnswers'
  <2> SUFFICES ASSUME NEW n \in Number, answered[n] = "REGSTER_FAIL"
               PROVE  outdata'[n] \in Failures
    BY <1>3 DEF FailAnswers
  <2>1. outdata[n] \in Failures
    BY DEF FailInv, FailAnswers
  <2>2. n # h
    BY <1>1, <2>1 DEF Failures
  <2> QED BY <1>2, <2>1, <2>2
<1>6. CreatorInv'
  <2> SUFFICES ASSUME NEW a \in Account, creator[a] # 0
               PROVE  outdata'[creator[a]] # "unset"
    BY <1>3 DEF CreatorInv, Running
  <2>1. creator[a] \in Number
    BY FailBaseFacts, WorkerAssumption DEF WorkerTypeOK, Number
  <2>2. outdata[creator[a]] # "unset" \/ creator[a] = h
    BY DEF FailInv, CreatorInv
  <2> QED BY <1>1, <1>2, <2>1, <2>2
<1>7. SqlInv'
  BY <1>3 DEF FailInv, SqlInv, Running
<1> QED BY <1>4, <1>5, <1>6, <1>7 DEF FailInv

\* What an exchange does to the connection, the fault count and the row.
LEMMA ExchangeFacts ==
  ASSUME DBTypeOK, Statements, SqlInv
  PROVE  /\ faults > 0 => faults' > 0
         /\ con' = "lost" \/ at' = "init" => faults' > 0
         /\ at # "idle" /\ (at = "select" => at' = "idle")
         /\ at' = "idle" /\ rt' = "error" /\ sql # Selsect
              => ~Clean(sql) \/ faults' > 0
<1>1. faults \in Nat
  BY DBAssumption DEF DBTypeOK
<1>2. con = "lost" \/ at = "init" => faults > 0
  BY DEF SqlInv
<1>3. CASE KeepAlive
  BY <1>1, <1>2, <1>3 DEF KeepAlive, SameSession, NewSession
<1>4. CASE init
  BY <1>1, <1>2, <1>4 DEF init, SameSession, NewSession, Return
<1>5. CASE QueryFails
  BY <1>1, <1>2, <1>5 DEF QueryFails, SameSession, NewSession, Refused, Return
<1>6. CASE QueryRuns
  BY <1>1, <1>2, <1>6 DEF QueryRuns, Called, Session
<1>7. CASE QueryLost
  BY <1>1, <1>2, <1>7 DEF QueryLost, Return
<1>8. CASE SelectFetches
  BY <1>1, <1>2, <1>8 DEF SelectFetches, Reached, SameSession, NewSession, Return
<1>9. CASE SelectFails
  BY <1>1, <1>2, <1>9 DEF SelectFails, Reached, SameSession, NewSession, Return
<1> QED BY <1>3, <1>4, <1>5, <1>6, <1>7, <1>8, <1>9 DEF Statements

LEMMA FailExchange ==
  ASSUME FailBase, FailInv, Exchange
  PROVE  FailInv'
<1> DEFINE h == Head(tmp).n
<1>1. WorkerTypeOK /\ DBTypeOK /\ worker = "sql" /\ tmp # <<>> /\ Statements
  BY FailBaseFacts DEF WorkerTypeOK, Exchange
<1>2. h # 0 /\ outdata[h] = "unset"
  BY <1>1, HeadIsNext DEF FailBase
<1>3. /\ UNCHANGED <<worker, tmp, requests, outdata, answered>>
      /\ creator' = [a \in Account |-> IF a \in accounts' \ accounts THEN h ELSE creator[a]]
  BY DEF Exchange, workerVars, mainVars
<1>4. sql' = sql /\ (sql # Selsect => sql.account \in Account)
  BY <1>1, DBTypeStatements, StatementFacts DEF DBTypeOK
<1>5. /\ faults > 0 => faults' > 0
      /\ con' = "lost" \/ at' = "init" => faults' > 0
      /\ at # "idle" /\ (at = "select" => at' = "idle")
      /\ at' = "idle" /\ rt' = "error" /\ sql # Selsect
           => ~Clean(sql) \/ faults' > 0
  BY <1>1, ExchangeFacts DEF FailInv
<1>6. \A a \in Account : a \in accounts <=> creator[a] # 0
  BY FailBaseFacts
<1>7. \A a \in Account : creator'[a] # creator[a] => creator'[a] = h /\ sql # Selsect /\ at' \in {"select", "idle"}
  <2>1. accounts' = accounts \/ (sql # Selsect /\ at' \in {"select", "idle"})
    <3>1. CASE QueryRuns \/ QueryLost
      BY <3>1 DEF QueryRuns, QueryLost, Called, Return
    <3>2. CASE KeepAlive \/ init \/ QueryFails \/ SelectFetches \/ SelectFails
      BY <3>2 DEF KeepAlive, init, QueryFails, SelectFetches, SelectFails
    <3> QED BY <1>1, <3>1, <3>2 DEF Statements
  <2> QED BY <1>3, <2>1
<1>8. CauseInv'
  <2> SUFFICES ASSUME NEW n \in 1 .. Len(requests)
               PROVE  LET account == requests[n].account
                      IN  /\ outdata[n] = "repeated" => creator'[account] \in 1 .. n - 1
                          /\ outdata[n] \in {"long", "noConnection"} => creator'[account] # n
                          /\ outdata[n] = "noResult" => ~Clean(requests[n]) \/ faults' > 0
    BY <1>3 DEF CauseInv
  <2> DEFINE a == requests[n].account
  <2>1. a \in Account /\ n \in Nat
    BY FailBaseFacts
  <2>2. /\ outdata[n] = "repeated" => creator[a] \in 1 .. n - 1
        /\ outdata[n] \in {"long", "noConnection"} => creator[a] # n
        /\ outdata[n] = "noResult" => ~Clean(requests[n]) \/ faults > 0
    BY DEF FailInv, CauseInv
  <2>3. creator[a] # 0 => creator'[a] = creator[a]
    BY <1>3, <1>6, <2>1
  <2>4. ASSUME outdata[n] = "repeated" PROVE creator'[a] \in 1 .. n - 1
    <3>1. creator[a] \in 1 .. n - 1 /\ creator[a] # 0
      BY <2>1, <2>2, <2>4
    <3> QED BY <2>3, <3>1
  <2>5. ASSUME outdata[n] \in {"long", "noConnection"} PROVE creator'[a] # n
    <3>1. creator[a] # n /\ n # h
      BY <1>2, <2>2, <2>5
    <3> QED BY <1>7, <2>1, <3>1
  <2> QED BY <1>5, <2>2, <2>4, <2>5
<1>9. FailAnswers'
  BY <1>3 DEF FailInv, FailAnswers
<1>10. CreatorInv'
  <2> SUFFICES ASSUME NEW a \in Account, creator'[a] # 0
               PROVE  \/ outdata[creator'[a]] # "unset"
                      \/ sql # Selsect /\ at' \in {"select", "idle"} /\ creator'[a] = h
    BY <1>1, <1>3, <1>4 DEF CreatorInv, Running
  <2>1. CASE creator'[a] # creator[a]
    BY <1>7, <2>1
  <2>2. CASE creator'[a] = creator[a] /\ outdata[creator[a]] # "unset"
    BY Zenon, <2>2
  <2>3. CASE creator'[a] = creator[a] /\ outdata[creator[a]] = "unset"
    <3>1. Running /\ at = "select" /\ creator[a] = h
      BY <1>5, <2>3 DEF FailInv, CreatorInv
    <3> QED BY <1>5, <2>3, <3>1 DEF Running
  <2> QED BY <2>1, <2>2, <2>3
<1>11. ASSUME sql # Selsect, at' = "select", isNew' = "no"
       PROVE  creator'[sql.account] \notin {0, h}
  <2>1. QueryRuns
    BY <1>1, <1>11 DEF Statements, KeepAlive, init, QueryFails, QueryRuns, QueryLost,
                       SelectFetches, SelectFails, Return
  <2>2. at = "query" /\ sql.account \in accounts
    BY <1>11, <2>1 DEF QueryRuns, Called
  <2>3. creator'[sql.account] = creator[sql.account] /\ creator[sql.account] # 0
    BY <1>3, <1>4, <1>6, <1>11, <2>2
  <2>4. outdata[creator[sql.account]] # "unset"
    BY <1>4, <1>11, <2>2, <2>3 DEF FailInv, CreatorInv
  <2> QED BY <1>2, <2>3, <2>4
<1>12. ASSUME sql # Selsect, at' = "idle", row' = "no"
       PROVE  creator'[sql.account] \notin {0, h}
  <2>1. SelectFetches /\ con = "live" /\ isNew' = isNew
    BY <1>1, <1>12 DEF Statements, KeepAlive, init, QueryFails, QueryRuns, QueryLost,
                       SelectFetches, SelectFails, Reached, SameSession, NewSession, Return
  <2>2. at = "select" /\ isNew = "no" /\ accounts' = accounts
    BY <1>12, <2>1 DEF SelectFetches, Return
  <2>3. creator[sql.account] \notin {0, h}
    BY <1>1, <1>12, <2>2 DEF FailInv, SqlInv, Running
  <2> QED BY <1>3, <1>4, <1>12, <2>2, <2>3
<1>13. SqlInv'
  BY <1>3, <1>4, <1>5, <1>11, <1>12 DEF SqlInv, Running
<1> QED BY <1>8, <1>9, <1>10, <1>13 DEF FailInv

LEMMA FailStep ==
  ASSUME FailBase, FailInv, [Next]_vars
  PROVE  FailInv'
<1>1. /\ WorkerTypeOK /\ OutcomeInv /\ QueueTypes /\ OrderInv /\ LogicAfterSql
      /\ 1 .. Len(requests) \subseteq Number /\ Len(requests) \in Nat
      /\ \A n \in 1 .. Len(requests) : requests[n].account \in Account
  BY FailBaseFacts, OutcomeCorrect DEF FailBase, CreateBase
<1>2. ASSUME NEW kind \in {"register", "login"}, NEW account \in Account,
             NEW password \in Password, AddWaitNode(kind, account, password)
      PROVE  FailInv'
  <2> DEFINE L == Len(requests)
  <2>1. L \in Nat /\ Done <= L /\ Done \in Nat /\ L + 1 \in Number
    BY <1>1, <1>2, DoneFacts, WorkerAssumption DEF AddWaitNode, Number, WorkerTypeOK
  <2>2. outdata[L + 1] = "unset"
    BY <1>1, <2>1 DEF OutcomeInv
  <2>3. Len(requests') = L + 1 /\ \A i \in 1 .. L : requests'[i] = requests[i]
    <3>1. PICK node \in Node : Arrive(node)
      <4>1. [n |-> L + 1, kind |-> kind, account |-> account,
             password |-> password] \in Node
        BY <2>1 DEF Node
      <4>2. Arrive([n |-> L + 1, kind |-> kind, account |-> account,
             password |-> password])
        BY <1>2 DEF AddWaitNode, Arrive, workerVars
      <4> QED BY <4>1, <4>2
    <3> QED BY <1>1, <3>1, AppendProperties DEF Arrive, QueueTypes
  <2>4. UNCHANGED <<dbVars, creator, outdata, answered, worker, tmp>>
    BY <1>2 DEF AddWaitNode, workerVars
  <2>5. \A n \in 1 .. Len(requests') : n = L + 1 \/ (n \in 1 .. L /\ requests'[n] = requests[n])
    <3> TAKE n \in 1 .. Len(requests')
    <3>1. n = L + 1 \/ n \in 1 .. L
      BY <2>1, <2>3
    <3> QED BY <2>3, <3>1
  <2>6. CauseInv'
    BY <2>2, <2>4, <2>5 DEF FailInv, CauseInv, dbVars
  <2> QED BY <2>4, <2>6 DEF FailInv, FailAnswers, CreatorInv, SqlInv, Running, dbVars
<1>3. CASE DoLogic
  <2>1. /\ UNCHANGED <<dbVars, creator, outdata, requests, worker, tmp>>
        /\ answered' = [answered EXCEPT ![cur'.n] = AnswerFor(outdata[cur'.n])]
        /\ cur' = Head(finished) /\ finished # <<>>
    BY <1>1, <1>3 DEF DoLogic, workerVars, WorkerTypeOK
  <2>2. \A o \in Outcome \ {"unset"} : AnswerFor(o) = "REGSTER_FAIL" => o \in Failures
    BY DEF AnswerFor, Outcome, Failures
  <2>3. outdata[cur'.n] # "unset" /\ cur'.n \in Number
    <3>1. finished \in Seq(Node) /\ 1 \in DOMAIN finished /\ Head(finished) = finished[1]
      BY <1>1, <2>1, EmptySeq DEF WorkerTypeOK
    <3>2. finished[1] \in Node
      BY <3>1, ElementOfSeq
    <3> QED BY <1>1, <2>1, <3>1, <3>2, NodeFacts DEF LogicAfterSql
  <2>4. outdata[cur'.n] \in Outcome \ {"unset"}
    BY <1>1, <2>3 DEF WorkerTypeOK
  <2>5. FailAnswers'
    <3> SUFFICES ASSUME NEW n \in Number, answered'[n] = "REGSTER_FAIL"
                 PROVE  outdata[n] \in Failures
      BY <2>1 DEF FailAnswers
    <3>1. CASE n = cur'.n
      BY <1>1, <2>1, <2>2, <2>3, <2>4, <3>1 DEF WorkerTypeOK
    <3>2. CASE n # cur'.n
      BY <1>1, <2>1, <3>2 DEF FailInv, FailAnswers, WorkerTypeOK
    <3> QED BY <3>1, <3>2
  <2> QED BY <2>1, <2>5 DEF FailInv, CauseInv, CreatorInv, SqlInv, Running, dbVars
<1>4. ASSUME NEW s, Execute(s), worker = "next" PROVE FailInv'
  <2>1. /\ UNCHANGED <<con, faults, creator, outdata, requests, answered>> /\ at' = "ping"
    BY <1>4 DEF Execute, loadtabledata, mainVars
  <2> QED BY <1>4, <2>1 DEF FailInv, CauseInv, FailAnswers, CreatorInv, SqlInv, Running
<1>5. CASE RegisterBegin
  <2>1. tmp # <<>> /\ worker = "next" /\ {"long", "noConnection"} \subseteq Outcome \ {"unset"}
    BY <1>5 DEF RegisterBegin, AtNode, Outcome
  <2>2. creator[Head(tmp).account] # Head(tmp).n
    <3>1. /\ Head(tmp).account \in Account /\ Head(tmp).n # 0
          /\ outdata[Head(tmp).n] = "unset"
      BY <2>1, HeadIsNext DEF FailBase
    <3> QED BY <2>1, <3>1 DEF FailInv, CreatorInv, Running
  <2>3. CASE UNCHANGED dbVars /\ Finish("long")
    BY <2>1, <2>2, <2>3, FailFinish
  <2>4. CASE UNCHANGED dbVars /\ Finish("noConnection")
    BY <2>1, <2>2, <2>4, FailFinish
  <2> QED BY <1>5, <2>1, <2>3, <2>4, <1>4 DEF RegisterBegin
<1>6. CASE LoginCheck \/ LoginServers
  <2>1. tmp # <<>> /\ "loginFail" \in Outcome \ {"unset"} /\ worker = "next"
    BY <1>6 DEF LoginCheck, LoginServers, AtNode, Outcome
  <2>2. ASSUME UNCHANGED <<dbVars, queueVars, finishLock, worker, tmp, mainVars,
                           outdata, creator, answered>>
        PROVE  FailInv'
    BY <2>1, <2>2 DEF FailInv, CauseInv, FailAnswers, CreatorInv, SqlInv, Running, dbVars, mainVars
  <2>3. CASE UNCHANGED dbVars /\ Finish("loginFail")
    BY <2>1, <2>3, FailFinish
  <2> QED BY <1>6, <2>1, <2>2, <2>3, <1>4 DEF LoginCheck, LoginServers
<1>7. CASE RegisterResult
  <2>1. /\ tmp # <<>> /\ worker = "sql" /\ at = "idle" /\ sql = Call(Head(tmp).account, Head(tmp).password)
        /\ UNCHANGED dbVars /\ {"noResult", "repeated", "new"} \subseteq Outcome \ {"unset"}
    BY <1>1, <1>7 DEF RegisterResult, Returned, WorkerTypeOK, Outcome
  <2>2. Running /\ sql.account = Head(tmp).account /\ (Clean(sql) <=> Clean(Head(tmp)))
    BY <2>1, HeadIsNext, StatementFacts, CleanCall DEF Running, FailBase
  <2>3. CASE rt = "error" /\ Finish("noResult")
    <3>1. ~Clean(Head(tmp)) \/ faults > 0
      BY <2>1, <2>2, <2>3 DEF FailInv, SqlInv
    <3> QED BY <2>1, <2>3, <3>1, FailFinish
  <2>4. CASE Finish("new")
    BY <2>1, <2>4, FailFinish
  <2>5. CASE row = "no" /\ Finish("repeated")
    <3>1. creator[Head(tmp).account] \notin {0, Head(tmp).n}
      BY <2>1, <2>2, <2>5 DEF FailInv, SqlInv
    <3> QED BY <2>1, <2>5, <3>1, FailFinish
  <2> QED BY <1>7, <2>3, <2>4, <2>5 DEF RegisterResult
<1>8. CASE LoginServersResult
  <2>1. tmp # <<>> /\ UNCHANGED dbVars /\ {"loginOK", "loginFail"} \subseteq Outcome \ {"unset"}
    BY <1>1, <1>8 DEF LoginServersResult, Returned, WorkerTypeOK, Outcome
  <2>2. PICK o \in {"loginOK", "loginFail"} : Finish(o)
    BY <1>8 DEF LoginServersResult
  <2> QED BY <2>1, <2>2, FailFinish
<1>9. CASE TakeWrite \/ LockFinish \/ UnlockFinish \/ LoginCheckResult
  <2>1. /\ UNCHANGED <<dbVars, creator, outdata, requests, answered>> /\ worker' # "sql"
        /\ worker = "sql" => sql = Selsect
    BY <1>1, <1>9 DEF TakeWrite, LockFinish, UnlockFinish, LoginCheckResult, Returned, mainVars,
                      WorkerTypeOK
  <2>2. \A a \in Account : creator[a] # 0 => outdata[creator[a]] # "unset"
    BY <1>9, <2>1 DEF FailInv, CreatorInv, Running, TakeWrite, LockFinish, UnlockFinish
  <2> QED BY <2>1, <2>2 DEF FailInv, CauseInv, FailAnswers, CreatorInv, SqlInv, Running, dbVars
<1>10. CASE Environment
  <2>1. /\ UNCHANGED <<sql, at, isNew, row, rt, creator, outdata, requests, answered, worker, tmp>>
        /\ faults \in Nat /\ faults' \in {faults, faults + 1}
        /\ con' = "lost" => con = "lost" \/ faults' = faults + 1
    BY <1>1, <1>10, DBAssumption DEF Environment, Database, Drop, GoDown, ComeUp, Dropped, workerVars,
          mainVars, WorkerTypeOK, DBTypeOK
  <2>2. (faults > 0 => faults' > 0) /\ (con' = "lost" /\ con # "lost" => faults' > 0)
    BY <2>1
  <2> QED BY <2>1, <2>2 DEF FailInv, CauseInv, FailAnswers, CreatorInv, SqlInv, Running
<1>11. CASE DealSqlMsg \/ DoLogicFault \/ GetFinishDBWait \/ RegisterFault \/ UNCHANGED vars
  <2>1. UNCHANGED <<dbVars, creator, outdata, requests, answered, worker, tmp>>
    BY <1>11 DEF DealSqlMsg, DoLogicFault, GetFinishDBWait, RegisterFault, vars, mainVars, workerVars
  <2> QED BY <2>1 DEF FailInv, CauseInv, FailAnswers, CreatorInv, SqlInv, Running, dbVars
<1> QED BY <1>2, <1>3, <1>5, <1>6, <1>7, <1>8, <1>9, <1>10, <1>11, FailExchange
        DEF Next, MainThread, Worker, Halted

\* A registration answered FAIL has a cause: an earlier request created the
\* account, or it was never tried, or a fault or an '@' or ')' hid the result
\* (DoDBSql and DoLogic of CRegisterWaitNode, loadtabledata).
THEOREM FailHasCauseCorrect == Spec => []FailHasCause
<1> DEFINE Inv == FailBase /\ FailInv
<1>1. Init => Inv
  BY QueueInvInit, OutcomeInit, CreateInit, FailInit DEF CreateBase, FailBase
<1>2. Inv /\ [Next]_vars => Inv'
  BY QueueInvStep, OutcomeStep, CreateStep, FailStep DEF CreateBase, FailBase
<1>3. Inv => FailHasCause
  <2> SUFFICES ASSUME Inv, NEW n \in DOMAIN requests, answered[n] = "REGSTER_FAIL"
               PROVE  LET account == requests[n].account
                      IN  \/ outdata[n] = "repeated" /\ creator[account] \in 1 .. n - 1
                          \/ outdata[n] \in {"long", "noConnection"} /\ creator[account] # n
                          \/ outdata[n] = "noResult" /\ (~Clean(requests[n]) \/ faults > 0)
    BY DEF FailHasCause
  <2>1. requests \in Seq(Node)
    BY FailBaseFacts DEF WorkerTypeOK
  <2>2. n \in 1 .. Len(requests) /\ n \in Number
    BY <2>1, FailBaseFacts, LenProperties
  <2>3. outdata[n] \in Failures
    BY <2>2 DEF FailInv, FailAnswers
  <2> QED BY <2>2, <2>3 DEF FailInv, CauseInv, Failures
<1> HIDE DEF Inv
<1> QED BY <1>1, <1>2, <1>3, PTL DEF Spec
==============================================================================
