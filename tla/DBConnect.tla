------------------------------ MODULE DBConnect ------------------------------
(***************************************************************************)
(* The server's connection to MySQL (DPDB/DBConnect.h, DBConnect.cpp) and, *)
(* as far as it is seen through it, the database: whether mysqld can be    *)
(* reached, the account table, and the user variables of the session.      *)
(*                                                                         *)
(* loadtabledata is one step per exchange with mysqld, because the         *)
(* connection can drop between any two: ping, reconnect, statement, and    *)
(* for a CALL the SELECT of the variables it set.  The client library      *)
(* reconnects by itself in mysql_ping, and in a statement when it notices  *)
(* the loss while writing (con->reconnect); a new session has no user      *)
(* variables.                                                              *)
(***************************************************************************)
EXTENDS Naturals

CONSTANTS
  Account,    \* account names
  Password,   \* passwords
  AtText,     \* names and passwords with an '@' in them, none before the name
              \* of one of the CALL's own two variables
  CloseText,  \* names and passwords with a ')' in them
  MaxFaults   \* bound on the faults of the connection and of mysqld

ASSUME DBAssumption == MaxFaults \in Nat

VARIABLES
  con,        \* "NULL", "live", or "lost": not NULL, but mysqld is not behind it
  mysqld,     \* "up" or "down"
  accounts,   \* the rows of the account table
  isNew,      \* @isNew of the session: "unset", "yes" or "no"
  faults,     \* faults so far
  at,         \* where loadtabledata is, "idle" when it is not running
  sql,        \* its statement
  rt,         \* what it returned last: "ok" (1), or "error" (below 0)
  row         \* the row in the DBresultSet: "none", "null", "yes" or "no"

dbVars == <<con, mysqld, accounts, isNew, faults, at, sql, rt, row>>

\* The two statements there are: the procedure's CALL, with both texts between
\* quotes, and the texts that begin "selsect * frome", which mysqld refuses.
Call(account, password) == [text |-> "call", account |-> account, password |-> password]
Selsect   == [text |-> "selsect"]
Statement == [text : {"call"}, account : Account, password : Password] \cup {Selsect}

DBInit ==
  /\ mysqld \in {"up", "down"}
  /\ con = IF mysqld = "up" THEN "live" ELSE "NULL"   \* init in GetInstance
  /\ accounts = {}
  /\ isNew = "unset"
  /\ faults = 0
  /\ at = "idle"
  /\ sql = Selsect
  /\ rt = "error"
  /\ row = "none"

-----------------------------------------------------------------------------
(***************************************************************************)
(* mysqld and the network: a connection drops, or mysqld goes and comes.   *)
(***************************************************************************)
Dropped == con' = IF con = "live" THEN "lost" ELSE con

Drop ==
  /\ faults < MaxFaults /\ faults' = faults + 1
  /\ con = "live" /\ Dropped
  /\ UNCHANGED <<mysqld, accounts, isNew, at, sql, rt, row>>

GoDown ==
  /\ faults < MaxFaults /\ faults' = faults + 1
  /\ mysqld = "up" /\ mysqld' = "down"
  /\ Dropped
  /\ UNCHANGED <<accounts, isNew, at, sql, rt, row>>

ComeUp ==
  /\ mysqld = "down" /\ mysqld' = "up"
  /\ UNCHANGED <<con, accounts, isNew, faults, at, sql, rt, row>>

Database == Drop \/ GoDown \/ ComeUp

-----------------------------------------------------------------------------
(***************************************************************************)
(* loadtabledata.                                                          *)
(***************************************************************************)
Return(result, fetched) ==
  /\ at' = "idle"
  /\ rt' = result
  /\ row' = fetched

\* The entry, for a caller that has found GetConn() not NULL.
loadtabledata(statement) ==
  /\ at = "idle" /\ con # "NULL"
  /\ at' = "ping"
  /\ sql' = statement
  /\ row' = "none"
  /\ UNCHANGED <<con, mysqld, accounts, isNew, faults, rt>>

\* A session the library or init opens starts without user variables.
NewSession == con' = "live" /\ isNew' = "unset"
SameSession == UNCHANGED <<con, isNew>>

\* KeepAlive: mysql_ping, which reconnects if it can; if not, Clear().
KeepAlive ==
  /\ at = "ping"
  /\ \/ con = "live" /\ SameSession /\ at' = "query"
     \/ con = "lost" /\ mysqld = "up" /\ NewSession /\ at' = "query"
     \/ con = "lost" /\ mysqld = "down" /\ con' = "NULL" /\ UNCHANGED isNew /\ at' = "init"
  /\ UNCHANGED <<mysqld, accounts, faults, sql, rt, row>>

\* init, called by KeepAlive after Clear(): it leaves con NULL when it fails.
init ==
  /\ at = "init"
  /\ \/ mysqld = "up" /\ NewSession /\ at' = "query" /\ UNCHANGED <<rt, row>>
     \/ mysqld = "down" /\ SameSession /\ Return("error", "none")
  /\ UNCHANGED <<mysqld, accounts, faults, sql>>

\* The session a statement runs in: the present one, or one the library opens.
Session ==
  \/ con = "live" /\ UNCHANGED con
  \/ con = "lost" /\ mysqld = "up" /\ con' = "live"

\* mysqld refuses the statement: always a malformed one, and a CALL when
\* something is wrong with it or on its side (a lock wait that times out, a
\* text the procedure does not take); each such refusal counts as a fault.
Refused ==
  \/ sql = Selsect /\ UNCHANGED faults
  \/ sql # Selsect /\ faults < MaxFaults /\ faults' = faults + 1

\* Mutant of QueryFails: the error is not looked at and the SELECT goes out.
QueryFailsIgnored ==
  /\ at = "query"
  /\ con = "live" /\ SameSession /\ Refused
  /\ at' = IF sql = Selsect THEN "idle" ELSE "select"
  /\ UNCHANGED <<mysqld, accounts, sql, rt, row>>

\* mysql_real_query returns an error without the statement having run.
QueryFails ==
  /\ at = "query"
  /\ \/ con = "lost" /\ SameSession /\ UNCHANGED faults
     \/ con = "live" /\ SameSession /\ Refused
     \/ con = "lost" /\ mysqld = "up" /\ NewSession /\ Refused
  /\ Return("error", "none")
  /\ UNCHANGED <<mysqld, accounts, sql>>

\* The CALL runs: p_addAccountByMyself adds the account unless it is there.
Called ==
  /\ sql # Selsect
  /\ Session
  /\ isNew' = IF sql.account \in accounts THEN "no" ELSE "yes"
  /\ accounts' = accounts \cup {sql.account}

QueryRuns ==
  /\ at = "query"
  /\ Called
  /\ at' = "select"
  /\ UNCHANGED <<mysqld, faults, sql, rt, row>>

\* The CALL runs, but the connection is gone before its answer is read.
QueryLost ==
  /\ at = "query"
  /\ con = "live" /\ faults < MaxFaults
  /\ sql # Selsect
  /\ accounts' = accounts \cup {sql.account}
  /\ con' = "lost" /\ faults' = faults + 1
  /\ Return("error", "none")
  /\ UNCHANGED <<mysqld, isNew, sql>>

\* The SELECT is the CALL's text from its first '@' on, by as many characters
\* as its first ')' lies behind it: the two variables, when neither text has
\* one of the two.  With a ')' before the variables that number is below 0 and
\* the SELECT runs to the end of the text, ");" included.
HasAt(texts) == {texts.account, texts.password} \cap AtText # {}
Clean(texts) == {texts.account, texts.password} \cap (AtText \cup CloseText) = {}

\* The SELECT reaches mysqld, in the CALL's session or in a new one.
Reached ==
  \/ con = "live" /\ SameSession
  \/ con = "lost" /\ mysqld = "up" /\ NewSession

\* An '@' of the name or the password, with the right characters after it, is
\* a variable too, which nobody has set.
SelectFetches ==
  /\ at = "select"
  /\ Reached
  /\ \/ Clean(sql) /\ Return("ok", IF isNew' = "unset" THEN "null" ELSE isNew')
     \/ HasAt(sql) /\ Return("ok", "null")
  /\ UNCHANGED <<mysqld, accounts, faults, sql>>

\* Its own error is not looked at: mysql_store_result finds no result.
SelectFails ==
  /\ at = "select"
  /\ \/ con = "lost" /\ SameSession
     \/ ~Clean(sql) /\ Reached
  /\ Return("error", "none")
  /\ UNCHANGED <<mysqld, accounts, faults, sql>>

Statements ==
  KeepAlive \/ init \/ QueryFails \/ QueryRuns \/ QueryLost \/ SelectFetches \/ SelectFails

-----------------------------------------------------------------------------
\* Type invariant of the connection.
DBTypeOK ==
  /\ con \in {"NULL", "live", "lost"}
  /\ mysqld \in {"up", "down"}
  /\ accounts \subseteq Account
  /\ isNew \in {"unset", "yes", "no"}
  /\ faults \in 0 .. MaxFaults
  /\ at \in {"idle", "ping", "init", "query", "select"}
  /\ sql \in Statement
  /\ rt \in {"ok", "error"}
  /\ row \in {"none", "null", "yes", "no"}
  /\ con = "live" => mysqld = "up"
  /\ con = "NULL" => at \in {"idle", "init"}
  /\ at = "select" => sql # Selsect
==============================================================================
