----------------------------- MODULE DBSqlThread -----------------------------
(***************************************************************************)
(* The database worker (DPDB/DBSqlThread.h, DBSqlThread.cpp) with the main *)
(* thread as its user and the connection it works on (DBConnect).          *)
(*                                                                         *)
(* The main thread pushes wait nodes into m_vecWrite; the worker swaps     *)
(* that vector out, runs each node's SQL (DoDBSql) and pushes the node     *)
(* into m_vecWriteFinish, holding m_vecWriteFinishLock for as long as the  *)
(* SQL of the whole batch takes; the main thread swaps the finished nodes  *)
(* out (GetFinishDBWait, which waits for that lock) and sends the answers  *)
(* (DoLogic).  Two threads hand each node over twice and touch its fields  *)
(* without a lock in between.                                              *)
(*                                                                         *)
(* The calls that drive this are commented out in main2.cpp and            *)
(* MsgLogic.cpp at present; the main thread here makes them.               *)
(***************************************************************************)
EXTENDS DBConnect, Sequences

CONSTANTS
  LongAccount,  \* account names of more than 20 characters
  MaxNodes      \* bound on the requests

ASSUME WorkerAssumption == LongAccount \subseteq Account /\ MaxNodes \in Nat \ {0}

VARIABLES
  m_vecWrite, m_vecWriteFinish, \* the two vectors
  finishLock,   \* who holds m_vecWriteFinishLock: "nobody" or "worker"
  worker,       \* worker: "take", "lock", "next" (loop head), "sql" (in DoDBSql)
  tmp,          \* worker: its batch from the present node on
  checkisOK,    \* worker: m_checkisOK of the present login, "unset" before
  main,         \* main thread: "deal", "wait" (for the lock), "logic", "dead"
  finished,     \* main thread: m_vecAllFinishWaitNode from index i on
  cur,          \* main thread: the node whose DoLogic ran last
  requests,     \* history: the nodes made so far, a node's n is its place here
  outdata,      \* for each node the outcome of its DoDBSql, "unset" before
  creator,      \* history: for each account the node whose CALL added it, or 0
  answered      \* history: for each node the answer sent last, or "none"

queueVars  == <<m_vecWrite, m_vecWriteFinish>>
workerVars == <<finishLock, worker, tmp, checkisOK>>
mainVars   == <<main, finished, cur, requests>>
vars == <<dbVars, queueVars, workerVars, mainVars, outdata, creator, answered>>

Number == 1 .. MaxNodes
Node   == [n : Number, kind : {"register", "login"}, account : Account, password : Password]
NoNode == [n |-> 0]

\* m_outdata of a registration (an id, -1, -2, -3, -4), the two fields of a
\* login.  -5 and -6 cannot come back: atoi throws nothing, and a SELECT
\* without FROM that has a result has a row.
Outcome == {"unset", "new", "long", "noConnection", "noResult", "repeated",
            "loginOK", "loginFail"}

-----------------------------------------------------------------------------
(***************************************************************************)
(* Main thread.                                                            *)
(***************************************************************************)
\* DealMsg on a request: a wait node is made and queued.
AddWaitNode(kind, account, password) ==
  /\ main = "deal"
  /\ Len(requests) < MaxNodes
  /\ LET node == [n |-> Len(requests) + 1, kind |-> kind, account |-> account,
                  password |-> password]
     IN  m_vecWrite' = Append(m_vecWrite, node) /\ requests' = Append(requests, node)
  /\ UNCHANGED <<dbVars, m_vecWriteFinish, workerVars, main, finished, cur,
                 outdata, creator, answered>>

\* DealMsg is done; DealSqlMsg asks for the lock.
DealSqlMsg ==
  /\ main = "deal"
  /\ main' = "wait"
  /\ UNCHANGED <<dbVars, queueVars, workerVars, finished, cur, requests, outdata, creator, answered>>

\* Mutant of Turn: the empty() check is missing.
TurnUnchecked(rest) == "logic"

Turn(rest) == IF rest = <<>> THEN "deal" ELSE "logic"

GetFinishDBWait ==
  /\ main = "wait" /\ finishLock = "nobody"
  /\ finished' = m_vecWriteFinish
  /\ m_vecWriteFinish' = <<>>
  /\ main' = Turn(m_vecWriteFinish)
  /\ UNCHANGED <<dbVars, m_vecWrite, workerVars, cur, requests, outdata, creator, answered>>

\* The answer DoLogic sends for an outcome.
AnswerFor(outcome) ==
  CASE outcome = "new"     -> "REGSTER_OK"
    [] outcome = "loginOK" -> "LOGIN_OK"
    [] outcome = "loginFail" -> "LOGIN_FAIL"
    [] OTHER -> "REGSTER_FAIL"

DoLogic ==
  /\ main = "logic"
  /\ cur' = Head(finished)
  /\ finished' = Tail(finished)
  /\ answered' = [answered EXCEPT ![cur'.n] = AnswerFor(outdata[cur'.n])]
  /\ main' = Turn(Tail(finished))
  /\ UNCHANGED <<dbVars, queueVars, workerVars, requests, outdata, creator>>

\* m_dwSessionID was never set: the send goes to whatever session the memory
\* names, and when there is none, ends the process.
DoLogicFault ==
  /\ main = "logic"
  /\ main' = "dead"
  /\ UNCHANGED <<dbVars, queueVars, workerVars, finished, cur, requests, outdata, creator, answered>>

MainThread == DealSqlMsg \/ GetFinishDBWait \/ DoLogic \/ DoLogicFault

-----------------------------------------------------------------------------
(***************************************************************************)
(* Worker: run().                                                          *)
(***************************************************************************)
Alive == main # "dead"

TakeWrite ==
  /\ Alive /\ worker = "take"
  /\ tmp' = m_vecWrite
  /\ m_vecWrite' = <<>>
  /\ worker' = "lock"
  /\ UNCHANGED <<dbVars, m_vecWriteFinish, finishLock, checkisOK, mainVars,
                 outdata, creator, answered>>

LockFinish ==
  /\ Alive /\ worker = "lock" /\ finishLock = "nobody"
  /\ finishLock' = "worker"
  /\ worker' = "next"
  /\ UNCHANGED <<dbVars, queueVars, tmp, checkisOK, mainVars, outdata, creator, answered>>

\* Mutant of UnlockFinish: an empty batch leaves without unlocking.
UnlockFinishNot ==
  /\ Alive /\ worker = "next" /\ tmp = <<>>
  /\ worker' = "take"
  /\ UNCHANGED <<dbVars, queueVars, finishLock, tmp, checkisOK, mainVars, outdata, creator, answered>>

\* The end of the batch: unlock, sleep, and round again.
UnlockFinish ==
  /\ Alive /\ worker = "next" /\ tmp = <<>>
  /\ finishLock' = "nobody"
  /\ worker' = "take"
  /\ UNCHANGED <<dbVars, queueVars, tmp, checkisOK, mainVars, outdata, creator, answered>>

\* Mutants of Finish: the newest finished node goes to the front; the outcome
\* is not stored in the node.
FinishFront(outcome) ==
  /\ outdata' = [outdata EXCEPT ![Head(tmp).n] = outcome]
  /\ m_vecWriteFinish' = <<Head(tmp)>> \o m_vecWriteFinish
  /\ tmp' = Tail(tmp)
  /\ worker' = "next"
  /\ checkisOK' = "unset"
  /\ UNCHANGED <<m_vecWrite, finishLock, mainVars, creator, answered>>

FinishForgetting(outcome) ==
  /\ m_vecWriteFinish' = Append(m_vecWriteFinish, Head(tmp))
  /\ tmp' = Tail(tmp)
  /\ worker' = "next"
  /\ checkisOK' = "unset"
  /\ UNCHANGED <<m_vecWrite, finishLock, mainVars, outdata, creator, answered>>

\* DoDBSql returns and the node is pushed.
Finish(outcome) ==
  /\ outdata' = [outdata EXCEPT ![Head(tmp).n] = outcome]
  /\ m_vecWriteFinish' = Append(m_vecWriteFinish, Head(tmp))
  /\ tmp' = Tail(tmp)
  /\ worker' = "next"
  /\ checkisOK' = "unset"
  /\ UNCHANGED <<m_vecWrite, finishLock, mainVars, creator, answered>>

\* The present node runs a statement.
Execute(statement) ==
  /\ loadtabledata(statement)
  /\ worker' = "sql"
  /\ UNCHANGED <<queueVars, finishLock, tmp, mainVars, outdata, creator, answered>>

AtNode(kind) == Alive /\ worker = "next" /\ tmp # <<>> /\ Head(tmp).kind = kind

RegisterBegin ==
  /\ AtNode("register")
  /\ LET account == Head(tmp).account
     IN  \/ account \in LongAccount /\ UNCHANGED dbVars /\ Finish("long")
         \/ account \notin LongAccount /\ con = "NULL" /\ UNCHANGED dbVars /\ Finish("noConnection")
         \/ account \notin LongAccount /\ Execute(Call(account, Head(tmp).password))
            /\ UNCHANGED checkisOK

\* CheckLoginData, then GetAllPerganaFromSql; each looks at GetConn() first.
LoginCheck ==
  /\ AtNode("login") /\ checkisOK = "unset"
  /\ \/ Execute(Selsect) /\ UNCHANGED checkisOK
     \/ con = "NULL" /\ checkisOK' = "no"
        /\ UNCHANGED <<dbVars, queueVars, finishLock, worker, tmp, mainVars,
                       outdata, creator, answered>>

LoginServers ==
  /\ AtNode("login") /\ checkisOK # "unset"
  /\ \/ Execute(Selsect) /\ UNCHANGED checkisOK
     \/ con = "NULL" /\ UNCHANGED dbVars /\ Finish("loginFail")

\* An exchange of the running statement; creator notes whose CALL added what.
Exchange ==
  /\ Alive /\ worker = "sql"
  /\ Statements
  /\ creator' = [a \in Account |-> IF a \in accounts' \ accounts THEN Head(tmp).n ELSE creator[a]]
  /\ UNCHANGED <<queueVars, workerVars, mainVars, outdata, answered>>

Returned(kind) == Alive /\ worker = "sql" /\ at = "idle" /\ Head(tmp).kind = kind

\* Mutant of RegisterResult: a SELECT without a result counts as a taken name.
RegisterResultTaken ==
  /\ Returned("register")
  /\ \/ rt = "error" /\ Finish("repeated")
     \/ rt = "ok" /\ row = "yes" /\ Finish("new")
     \/ rt = "ok" /\ row = "no" /\ Finish("repeated")
  /\ UNCHANGED dbVars

RegisterResult ==
  /\ Returned("register")
  /\ \/ rt = "error" /\ Finish("noResult")
     \/ rt = "ok" /\ row = "yes" /\ Finish("new")
     \/ rt = "ok" /\ row = "no" /\ Finish("repeated")
  /\ UNCHANGED dbVars

\* atoi(row[0]) on a row of NULLs.
RegisterFault ==
  /\ Returned("register") /\ rt = "ok" /\ row = "null"
  /\ main' = "dead"
  /\ UNCHANGED <<dbVars, queueVars, workerVars, finished, cur, requests, outdata, creator, answered>>

LoginCheckResult ==
  /\ Returned("login") /\ checkisOK = "unset"
  /\ checkisOK' = IF rt = "ok" THEN "yes" ELSE "no"
  /\ worker' = "next"
  /\ UNCHANGED <<dbVars, queueVars, finishLock, tmp, mainVars, outdata, creator, answered>>

LoginServersResult ==
  /\ Returned("login") /\ checkisOK # "unset"
  /\ Finish(IF checkisOK = "yes" /\ rt = "ok" THEN "loginOK" ELSE "loginFail")
  /\ UNCHANGED dbVars

Worker ==
  \/ TakeWrite \/ LockFinish \/ UnlockFinish
  \/ RegisterBegin \/ RegisterResult \/ RegisterFault
  \/ LoginCheck \/ LoginCheckResult \/ LoginServers \/ LoginServersResult
  \/ Exchange

-----------------------------------------------------------------------------
Environment ==
  /\ Alive
  /\ Database
  /\ UNCHANGED <<queueVars, workerVars, mainVars, outdata, creator, answered>>

\* The process is gone.
Halted == main = "dead" /\ UNCHANGED vars

Init ==
  /\ DBInit
  /\ m_vecWrite = <<>> /\ m_vecWriteFinish = <<>>
  /\ finishLock = "nobody"
  /\ worker = "take" /\ tmp = <<>> /\ checkisOK = "unset"
  /\ main = "deal" /\ finished = <<>> /\ cur = NoNode /\ requests = <<>>
  /\ outdata = [n \in Number |-> "unset"]
  /\ creator = [a \in Account |-> 0]
  /\ answered = [n \in Number |-> "none"]

Next ==
  \/ \E kind \in {"register", "login"}, account \in Account, password \in Password :
       AddWaitNode(kind, account, password)
  \/ MainThread \/ Worker \/ Environment \/ Halted

Spec == Init /\ [][Next]_vars

(***************************************************************************)
(* Fairness: both threads run; and since the worker sleeps a millisecond   *)
(* outside the lock in each round, a main thread that keeps asking for the *)
(* lock gets it sometime (boost::mutex itself promises no order).          *)
(***************************************************************************)
FairSpec ==
  /\ Spec
  /\ WF_vars(Worker)
  /\ WF_vars(DealSqlMsg) /\ WF_vars(DoLogic \/ DoLogicFault)
  /\ SF_vars(GetFinishDBWait)

-----------------------------------------------------------------------------
(***************************************************************************)
(* Type invariant of the worker and its user.                              *)
(***************************************************************************)
WorkerTypeOK ==
  /\ DBTypeOK
  /\ requests \in Seq(Node) /\ Len(requests) <= MaxNodes
  /\ m_vecWrite \in Seq(Node) /\ m_vecWriteFinish \in Seq(Node)
  /\ tmp \in Seq(Node) /\ finished \in Seq(Node)
  /\ cur \in Node \cup {NoNode}
  /\ finishLock = IF worker \in {"next", "sql"} THEN "worker" ELSE "nobody"
  /\ worker \in {"take", "lock", "next", "sql"}
  /\ worker = "sql" => tmp # <<>> /\ sql = IF Head(tmp).kind = "register"
                                           THEN Call(Head(tmp).account, Head(tmp).password)
                                           ELSE Selsect
  /\ at # "idle" => worker = "sql"
  /\ checkisOK \in {"unset", "yes", "no"}
  /\ main \in {"deal", "wait", "logic", "dead"}
  /\ main = "logic" => finished # <<>>
  /\ outdata \in [Number -> Outcome]
  /\ creator \in [Account -> 0 .. MaxNodes]
  /\ answered \in [Number -> {"none", "REGSTER_OK", "REGSTER_FAIL", "LOGIN_OK", "LOGIN_FAIL"}]

\* Nodes queued and not yet answered, oldest first, in both threads' hands.
Pending == finished \o m_vecWriteFinish \o tmp \o m_vecWrite

(***************************************************************************)
(* From AddWaitNode to DoLogic the nodes pass through a mailbox: the two   *)
(* vectors, the two swaps and the worker's batch together neither lose,    *)
(* repeat nor reorder a request.                                           *)
(***************************************************************************)
Handover == INSTANCE Mailbox WITH Item <- Node, NoItem <- NoNode,
                                  queue <- Pending, taken <- cur

QueueIsMailbox == Handover!Spec

(***************************************************************************)
(* The main thread sees only nodes whose DoDBSql has run to its end: no    *)
(* answer is made from an m_outdata the worker has not set, and no node is *)
(* in the hands of both threads.                                           *)
(***************************************************************************)
LogicAfterSql ==
  /\ \A i \in DOMAIN finished : outdata[finished[i].n] # "unset"
  /\ \A i \in DOMAIN m_vecWriteFinish : outdata[m_vecWriteFinish[i].n] # "unset"
  /\ \A i \in DOMAIN tmp : outdata[tmp[i].n] = "unset"

(***************************************************************************)
(* A registration answered OK is the one whose CALL created the account,   *)
(* whatever the connection does between the CALL and the SELECT of its     *)
(* variables: a stale @isNew of the session is never taken for this one's. *)
(***************************************************************************)
OKMeansCreated ==
  \A n \in DOMAIN requests :
    answered[n] = "REGSTER_OK" => creator[requests[n].account] = n

(***************************************************************************)
(* A registration answered FAIL has a cause: as repeated, an earlier       *)
(* request created the account; as too long or without a connection, it    *)
(* did not create it itself; without a result, something failed on the way *)
(* or its name or password has a character that spoils the SELECT.  Only   *)
(* in this last case may the account be its own (see FailMeansNotCreated). *)
(***************************************************************************)
FailHasCause ==
  \A n \in DOMAIN requests :
    answered[n] = "REGSTER_FAIL" =>
      LET account == requests[n].account
      IN  \/ outdata[n] = "repeated" /\ creator[account] \in 1 .. n - 1
          \/ outdata[n] \in {"long", "noConnection"} /\ creator[account] # n
          \/ outdata[n] = "noResult" /\ (~Clean(requests[n]) \/ faults > 0)

(***************************************************************************)
(* Every queued request is answered, unless the process dies: neither the  *)
(* locks nor a database that is gone or refuses hold one back.             *)
(***************************************************************************)
NodeAnswered ==
  \A n \in Number : Len(requests) >= n ~> (answered[n] # "none" \/ main = "dead")

-----------------------------------------------------------------------------
(***************************************************************************)
(* Statements of the source's comments and names that the code does not    *)
(* live up to.                                                             *)
(***************************************************************************)

\* MyMsg.h:9, 404: ERROR_CODE_REGSTER_FAIL answers a registration that failed;
\* here, one that did not create the account.
FailMeansNotCreated ==
  \A n \in DOMAIN requests :
    answered[n] = "REGSTER_FAIL" => creator[requests[n].account] # n

\* DBConnect.cpp:72: the connection is re-established by hand or by itself;
\* here, that no request fails for want of one while mysqld can be reached.
NoConnectionOnlyWhenDown ==
  [][ \A n \in Number : outdata'[n] = "noConnection" /\ outdata[n] = "unset"
                          => mysqld = "down" ]_vars

\* DBConnect.cpp:55: a connection that was lost is reconnected; here, that the
\* row read after a reconnect is that of the CALL.
RowIsOfCall == at = "idle" /\ rt = "ok" => row # "null"
==============================================================================
