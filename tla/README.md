# A TLA+ development of UE4-ShootGameDemo

The repository is a small online shooter: an Unreal client
(`src/src/Client/Source`) and an account server (`src/src/Server/ZServer`) that
registers accounts, logs players in and answers the checks other servers make.
This directory models the repository's own code. Vendored code (boost and mysql
headers, openssl, libwebsockets), assets and binaries are not modelled. Paths
below are relative to `src/src`.

## 1. The system

| Component | Source | State | Operations |
|---|---|---|---|
| Server network | `Server/ZServer/MyZServerNetwork.{h,cpp}` | id counter `g_iCurrentID`, `SessionClient` objects, registry `m_mapAllClientSock`, inbox `m_vecAllClientMsg` | `AcceptConnect`, `Handle_accept`, `Handle_Read`, `GetAllMsg`, `SendMsgBySessionID` |
| Main loop and dispatcher | `main2.cpp`, `MsgLogic.{h,cpp}` | the batch taken from the inbox, an (always empty) copy of the client map | `GetvecMsg`, `DealMsg`, `CheckDynmicCode`, `DealSqlMsg` (commented out of the loop) |
| Database worker | `DPDB/DBSqlThread.{h,cpp}` | `m_vecWrite`, `m_vecWriteFinish` and a mutex each; wait nodes | `AddWaitNode`, `run`, `GetFinishDBWait`, `DoDBSql`, `DoLogic` |
| Database connection | `DPDB/DBConnect.{h,cpp}` | `con`, saved address | `init`, `KeepAlive`, `loadtabledata`, `Clear` |
| In-memory store | `DPDB/dbms.{h,cpp}` | key map and time index | `Insert`, `Del`, `Find`, `UpdateData` |
| Message codec | `MyMsg.h`, client `Common/GameHMsg.h` | buffer `m_pData`, position `m_iPos` | `put*`, `get*`, `CheckPut`, `GetPosition`, `put` and `get` of the message classes |
| Client network logic | client `Private/pronetlogic.cpp`, `Public/ProNetLogic.h`, `Public/ProNetWork.h` | the object `m_pNetLogic`, `m_isConneted`, two delegates | `GetInstance`, `Connect`, `GameLogicLogin`, `GameLogicRegister`, `OnLogin`, `OnRegister`, `DealMsg`, destructor |
| Game glue | client `MyprojectCharacter`, `MyprojectGameMode`, `MyClass*` | engine objects | engine callbacks |

**How they interact.** `main()` opens the listening socket, starts one thread
that runs the boost `io_service`, and loops: take every message out of the inbox
(`GetAllMsg`, under `m_vecAllClientMsgLock`), dispatch each (`DealMsg`), write the
answer to the socket found in the registry (`SendMsgBySessionID`). The io thread
runs the completion handlers one at a time: `Handle_accept` registers a session
and opens the next accept, `Handle_Read` wraps the bytes of one read in an
`HMessage`, pushes it and arms the next read. The database worker is a third
thread, fed and drained by the main loop through two vectors; its calls are
commented out in the version at hand (`main2.cpp:19,25`, `MsgLogic.cpp:55-56,
71-72`), so the running server answers every login and drops every registration.
A message is built by a class's `put`, ended and stamped with its length in
`SendMsgBySessionID`, and unpacked on the other side by the `get` of the class its
header names. On the client the level blueprint makes a `UProNetLogic`, connects,
binds two delegates, sends requests and calls `DealMsg` in every frame, which
fetches what the network library has received and calls the delegates.

**What is hard.** The registry is read by the main thread without the lock the io
thread takes; a session can end between the read of its request and the write of
the answer; ids wrap; one read of a stream is taken for one message; a write waits
for its peer, or writes a part, and nobody looks; errors are neither returned nor caught;
two vectors are copied and cleared by one thread while another fills them; what
`get` reads must be what `put` wrote, whatever was refused or cut on the way; the
client's delegates run inside the loop that called them, and its object may be
collected. The full list, each hazard at its line with the
properties that watch it, is `PROJECT.json` "hazards".

## 2. Modules

| Module | Models |
|---|---|
| `MyZServerNetwork` | the network half: sessions, registry, inbox, write path; peers are external |
| `ZServer` | the process: `MyZServerNetwork` composed with the main thread, the races between them, the write that waits or writes a part, and the death of the process |
| `HMessage` | the codec: writer, one read, reader, over all message classes |
| `ProNetLogic` | the client's network logic, with the library, the server, the engine and the game as its environment |
| `DBConnect` | the connection to MySQL, one step per exchange, with mysqld and the network as its environment |
| `DBSqlThread` | the database worker composed with `DBConnect` and with the main thread as its user |
| `DBMS` | the in-memory store: map and time index |
| `Mailbox` | abstract: what a hand-over of items between threads promises (FIFO, exactly once); implemented by `ZServer` and by `DBSqlThread` |
| `AnswerService` | abstract, over `Mailbox`: what a server that answers requests one at a time promises its peers; implemented by `ZServer` |
| `ExpiringMap` | abstract: what a store with expiry promises; implemented by `DBMS` |
| `MCZServer`, `MCHMessage` | values of constants for TLC (the other modules take theirs from the `.cfg` directly) |
| `MyZServerNetworkProofs`, `ZServerProofs`, `HMessageProofs`, `ProNetLogicProofs`, `DBSqlThreadProofs`, `DBMSProofs` | theorems |

### MyZServerNetwork

A `SessionClient` is a number in order of creation. The one whose
`async_accept` is outstanding is the last (`nSessions`); the others are
`Accepted`. `sock[s]` is what the socket will report (`pending`, `open`,
`ended`). `wire[s]` holds the bytes the peer has sent and the server has not
read, cut at the two places that matter: between requests and after the 6-byte
header. `Handle_ReadData` takes any non-empty prefix, as `async_read_some` does,
so requests are coalesced and split in every way. `Handle_ReadError` keeps what
the code does after an error: erase by `m_iID`, push a message of length zero,
arm the read again. `Handle_accept(error)` registers under `g_iCurrentID` and
ignores the error. The id counter wraps to 1 above `MaxID` (999999999 in the
code). `Write` is what `write_some` adds to the answers a peer is sent. `asked`,
`errorReads` and the fields `src`, `n` of messages and replies are history, read
by the properties and by the parser of garbled requests only.

### ZServer

`main` is the program counter of the main thread: `start` (before
`AcceptConnect`), `poll`, `deal` (the loop of `DealMsg`), `send` (inside
`SendMsgBySessionID`, before the lookup), `write` (inside `write_some`), `dead`.
Io handlers interleave at each of them.

The lookup takes no lock. When a handler inserts or erases an entry while it is
pending, the unlocked `operator[]` races with it (`raced`) and the process may
end (`SendRace`), the undefined behaviour's outcome besides the normal ones. This
is the one way in which a client's coming or going ends the process while another
is being answered.
`SendMiss` is `operator[]` on a missing key, whose null pointer is dereferenced.
`SendLookup` finds a session and keeps it in `target`: whatever happens to the
registry during the write, the object lives on, because the read armed on it
holds a `shared_ptr`.

`unread[s]` is what was written to `s` and not read by its peer, in halves of an
answer; a connection holds `SendBuffer` of it. `SendDone` waits while there is no
room, and writes what fits; when that is not the whole answer the rest is lost,
which nobody notices, and the answer counts as given (`replies`). `PeerReads`
makes room. `SendThrow` is `write_some` on an
ended connection, whose exception leaves `main()`. After a peer's FIN the first
write may still succeed, so `SendDone` stays possible.

A message that does not start with a header, or ends inside a request, leaves
bytes of `HMessage` uninitialised (`MyMsg.h:109-116`); `Parse` gives it any
request, or any request of its kind. `DealFault` is `getString` reading a length
from such bytes.

`m_mapAllClient` is the constant empty set: nothing calls `GetmapAllClient`.

`Service` maps the process to `AnswerService`: the inbox and the batch are its
queue (`Queue`), `Due` says that the message taken last is still to be answered,
and `shared` is `~NoIDReuse`. Accepts, failed reads, lookups, waiting writes and
races are stutters of it; a write that returns is `Reply`, whether or not the
connection had room for all of it.

### HMessage

A message is a sequence of fields (`char`, `ushort`, `uint`, `string`). `Puts`,
`Gets` and `Row` list the fields of each class as its `put`, its `get` and its
row functions do; the two differ for `DS2C_A_GetAllRole` alone. The writer is the
sequence `data` of the bytes put, so `m_iPos` is its length; each put is refused
when it would reach `Limit`, and a refused string may leave its length behind.
`Send` is the end of `SendMsgBySessionID`: the newline, and the length stamped
over `m_wSize`, which was put uninitialised. `Arrive(n)` is a read of the first
`n` bytes. The reader gets the header, then the fields of the class the header
names (`Dispatch`), then rows. A field that ends beyond what arrived is read from
uninitialised memory: `garbled`, after which nothing is said of the reader.
`puts` and `gets` are history. Bytes are `0 .. Base-1`: the byte orders are
arithmetic in `Base`, 256 in the code and smaller for TLC.

`Agreed(i)` says that the first `i` fields fitted and were got with the types
they were put with; `ReadsBack` and `GarbledOnlyIfCut` speak of what follows from
that, field by field. `ClassReadsBack` assumes nothing of what was got: it says of
whole classes that a message is dispatched to the class that put it, which gets all
of it back and leaves no field behind; `DS2C_A_GetAllRole` is exempted by name.

The client's `GameHMsg.h` is a copy of the server's `MyMsg.h` that differs in the
size of the buffer, with the limit of `CheckPut` unchanged, and in one `get`:
`ZS2C_A_RegisterAccount` reads both numbers on the client (`GameHMsg.h:400-404`)
and the first only on the server (`MyMsg.h:421-424`). `Gets` has for each class the
reader that runs: a ZS2C message is read by the client.

### ProNetLogic

Everything runs on the game thread, so the interleavings are those of calls
inside calls. `frames` is the stack of running `DealMsg` calls: what each one's
loop has left (`rest`), whether it is inside a delegate (`busy`), and how many
calls that delegate has made. The game may call any operation
between frames, or from a delegate (`GameCalls`), `DealMsg` included.
`Dispatch` is one turn of the loop up to `Execute`, which is fatal when the
delegate is not bound (`dead`); that the object a delegate is bound to may itself be
destroyed by the game is not modelled. `handled` and `fetched` are history.

The game holds the object through the level (`held`). When the level is left the
engine's collector may run the destructor between frames (`CollectGarbage`),
which forgets the pointer and does not disconnect: `orphans` are the connections
left open so. External, and modelled from how the code and the level blueprint
(`TestMap.umap`) use them: `ProNetWork` (a binary; `Connect` may fail, and keeps
or drops what had been received), the server (answers each request at most once,
over its own connection), other messages, and connections that end.

### DBConnect

`con` is `NULL`, `live` or `lost` (an object with no session of mysqld behind
it). `loadtabledata` is one step per exchange (`KeepAlive`'s ping, `init`, the
statement, the SELECT of the CALL's variables), because the connection can drop
between any two. There are two statements in the code: `Call(account, password)`
and `Selsect`, the two texts of the login that begin `selsect * frome`, which mysqld
refuses. The SELECT is cut out of the text of the CALL, from its first `@` to as
many characters on as its first `)` lies behind it (`DBConnect.cpp:108-118`), so an
`@` or a `)` in the name or the password (`AtText`, `CloseText`) spoils it: it fails
(`SelectFails`), or, with an `@` whose next characters make up a variable, fetches a
NULL (`SelectFetches`). Left out: texts with a quote in them, which change the CALL
itself (when it is refused, that is one of the faults), and texts that spell one of
the CALL's own two variables after an `@`. External, and modelled from how the code uses them: libmysql reconnects
by itself in a ping, and in a statement when writing it fails (`reconnect` is set
at `DBConnect.cpp:55`); a new session has no user variables; the procedure adds
an account unless it is there and sets `@isNew`. Faults, bounded by `MaxFaults`:
the connection drops, mysqld goes, a CALL is refused, a CALL runs and its answer
is lost. Every exchange returns: a mysqld that accepts and never answers is not
modelled (no timeout is set in the code).

### DBSqlThread

A wait node is a record with its number, kind, account and password; its `m_outdata` is
`outdata[n]`. The worker's program counter follows `run()`: `take` (swap
`m_vecWrite` out), `lock` (wait for `m_vecWriteFinishLock`), `next` (loop head),
`sql` (inside `DoDBSql`). The lock is held from `lock` to the end of the batch,
as in the code. The main thread is `deal`, `wait` (for that lock), `logic` (the
loop of `DealSqlMsg`). `m_vecWriteLock` is held over a push or a swap only, so
those are one step each. `m_dwSessionID` is never assigned
(`DBSqlThread.cpp:78-95`): `DoLogicFault` is the send that finds no session and
ends the process. Since both login statements are malformed, the list of servers
is never read; it is left out.

### DBMS

`m_mapAllData` is a function from keys to `MemData` or `Absent`,
`m_mapAllDataTime` a function from times to the sequence of keys filed under the
time (a multimap keeps equal keys in order of insertion). `Insert` and `Del` are
one step each, since one thread makes all calls; `UpdateData` is one step per
turn of its loop, with the clock read at its start. The clock is `time(0)` and
may be set to any value. `Insert` replaces by way of `Del`, as the code does.

## 3. Runs

Bounds: `MaxSessions` counts `SessionClient` objects, so one less connections;
`MaxSends` requests per connection; `MaxErrorReads` failed reads per connection.

| Run | Instance | Shows |
|---|---|---|
| `ZServer_pair` | 2 connections, 1 request and 1 failed read each, 2 ids, fair | `TypeOK`; `KeysAreIDs`, `RegistryExact`: counter, keys and ids agree; `AnswersOwnPeer`: answers go to the asker; `DeathHasCause`: a missed lookup or a failed write is the asker's own end, only the race with the lookup is somebody else's, and a fault in unpacking a badly framed message's; `MissOnlyAfterEnd`: a lookup misses only after a failed read; `ServerIsService`: refinement of `AnswerService` with two peers; `QueuedLoginAnswered`: if peers read what they are sent, a login that reached the inbox whole is answered, whatever the other client sends, unless the process dies |
| `ZServer_stream` | 1 connection, 3 requests, any cut into reads | `HandoverIsMailbox`: refinement of `Mailbox`; `ServerIsService`: the same with requests coalesced and split; `AnswersInOrder`: at most one answer per well-framed request, in order, of its kind |
| `ZServer_disconnect` | 1 connection, 1 login | violated `SurvivesDisconnect`: a client that leaves while its login is being answered ends the server |
| `ZServer_reread` | 1 connection | violated `DisconnectHandledOnce`: the failed read is armed for ever |
| `ZServer_coalesce` | 1 connection, 2 logins, fair | violated `SentLoginAnswered`: a request sharing a read with another is lost |
| `HMessage_codec` | all 13 classes, 1 row, `Base` 12, `Limit` 34, reads of at most 32 bytes | `CodecTypeOK`: no position reaches the limit or leaves the read; `ReadsBack`: what was put is what is got; `GarbledOnlyIfCut`: nothing but a cut, a refused put or a different `get` makes the reader run past the end; `ClassReadsBack`: a message goes to the class that put it, which reads back all of it |
| `ProNetLogic_client` | 2 connections, 2 requests, 3 messages, 2 nested `DealMsg`, 1 call per delegate, fair | `ClientTypeOK`; `DispatchedOnce`; `InOrderUnlessNested`; `AnswersReported`: delegates hear the answers to their own requests; `FlagKnowsConnection`: every open connection is known or orphaned; `DealMsgReturns` |
| `DBMS_store` | 3 keys, 2 values, 2 lifetimes, clock 0..2 | `StoreTypeOK`; `IndexMatchesMap`: each key filed once, under its own time; `StoreIsExpiringMap`: refinement of `ExpiringMap` |
| `DBSqlThread_worker` | 2 requests, 3 accounts (plain, with `@`, too long), 2 passwords (plain, with `)`), 2 faults, fair | `WorkerTypeOK`; `QueueIsMailbox`: refinement of `Mailbox`; `LogicAfterSql`; `OKMeansCreated`; `FailHasCause`: a FAIL as repeated lost to an earlier request, the others created nothing or met a fault, an `@` or a `)`; `NodeAnswered`: each request is answered unless the process dies |
| `DBSqlThread_at` | 1 request, no faults | violated `FailMeansNotCreated`: an account is created and answered FAIL because its name has an `@` or its password a `)` |
| `DBSqlThread_reconnect` | 2 requests, 1 fault | violated `NoConnectionOnlyWhenDown`: once `con` is NULL it stays so |
| `DBSqlThread_row` | 1 request, 1 fault | violated `RowIsOfCall`: a reconnect before the SELECT yields a row of NULLs, read by `atoi` |

Why the bounds are enough. *Network:* the hazards of the registry need a session
being answered and another coming or going, which two connections give (with a
third object pending); the hand-over's need more messages than one batch, which
three requests cut in pieces give; that one client's traffic could hold up
another's login needs two clients with a request each; id reuse needs more
connections than ids. `SendBuffer` is one and a half answers, so that a write can
find room for a whole answer, for a part of one, and for none; in
`ZServer_coalesce`, where it does not matter, it holds every answer.
`AnswersOwnPeer`, `RegistryExact` and the first part of `DeathHasCause` say nothing
once an id has been given to two accepted connections (`NoIDReuse`), which takes
999999999 connections; beyond that point `KeysAreIDs` and `MissOnlyAfterEnd`
still hold, by their theorems. *Codec:* the limit is below the length of the
longest messages and above that of the others, so that strings (with and without
their length) and the short fields after them are refused in some; a read can be
shorter than a message by any number of bytes; the values have all their bytes
different, zeros in strings, and both ends of their ranges. *Client:* two
connections give an old one to close or lose; two requests of any kinds an answer
to confuse; three messages and two nested calls a message that overtakes another
in the inner loop while the outer one has some left. *Worker:* the hand-over's
hazards need a request in the worker's hands and one behind it, and a swap
between the two; the stale-variable hazard
needs a registration that set `@isNew` and a second one that fails in the same
session; the SELECT's cut needs a text without and a text with each of the two
characters; a reconnect needs two faults (lost, and gone again). *Store:* a key must
be able to be filed under two times and two keys under one, with a third key
between them.

Deadlock is checked in every run. A process that has died only stutters
(`Halted`); so does a client whose error was fatal.

**Fairness** (`FairSpec`). The main loop spins, and goes on whenever
`write_some` does not wait; the io thread serves every completed read: both have
weak fairness. Nothing makes a peer read, so `QueuedLoginAnswered` has the
premise `PeersRead`: every peer that stays makes room again and again. Without
it one peer that does not read keeps everybody waiting. Peers are not fair: they
may never connect, send or leave. The worker has weak fairness, and so do the
main thread's own steps. `GetFinishDBWait` has strong fairness: the worker frees
and retakes the lock in every round, and sleeps a millisecond outside it, so a
main thread that keeps asking gets it sometime (`boost::mutex` itself promises
no order). mysqld and the network are not fair. On the client the level's Tick
calls `DealMsg` in every frame, the loop goes on when it can, and a delegate
returns: its calls are bounded.

## 4. Proofs

`MyZServerNetworkProofs`: `NetInv` is inductive for `NetSpec`. Besides the type
invariant and the two registry properties it says that the pending session
carries the counter and the first `MaxID` sessions are numbered in order of
creation (`IDsInv`; without it two live sessions could share an entry), that
sessions not yet accepted have no socket, bytes or failed reads (`SocketsInv`),
and that an accepted session's id has an entry unless a session with that id has
failed a read (`EntryUnlessEnded`). `MsgInv` adds that messages carry the id of
the accepted session they came from and that their fragments belong to requests
that were sent. Theorem `NetworkCorrect`.

`ZServerProofs`: `StepIsNetwork` shows that every step of the server is a network
operation or leaves the network alone, so `NetInv` and `MsgInv` carry over
(`ServerIsNetwork` states it as an implementation). `ZInv` adds that the batch
is empty before a poll, that held messages are tagged, that the session a write
goes to is the asker's (`TargetInv`), that a race with the lookup is an accept of
another session or somebody's failed read (`RaceInv`; the session being answered was
accepted before, so a new one is another), and the properties proved. Theorems
`TypeCorrect`, `RegistryCorrect`, `AnswersReachAsker`, `MissesOnlyAfterEnd`,
`DeathHasCauseCorrect`, and `HandoverRefines` (the refinement of `Mailbox`: `Poll`
moves the inbox to the empty batch, a stutter; a read puts; a turn of the loop
takes).

`AnswersInOrderCorrect` needs an invariant of its own (`OrderInv`). A request is
first on the wire, then in the queue, then dealt with, then answered. On the wire
the heads of a session's requests are in order, and each begins after what is in
the queue (`StreamInv`); what has been taken or answered comes before all that
waits (`TakenInv`); the request being answered is the one that was asked, and no
later one has an answer (`DealtInv`). Each step is of one of five kinds (a peer
asks, a read, a take, a write, or none of these, `Kinds`), and each kind keeps
each part.

`ServiceRefines` is the refinement of `AnswerService`, from `ZInv` and `OrderInv`
together: `DealtInv` gives `Serve` its request, `TargetInv` gives `Reply` its peer
until ids are reused, and once `NoIDReuse` is false it stays so (`Share`). One
lemma per action that maps to a step (`ServeStep`, `ReplyStep`), the rest
in `ServiceStep`.

Assumptions: `NetworkAssumption` (positive bounds, some code exists),
`PeerRequestAssumption` (peers send requests of the protocol) and
`BufferAssumption` (a connection holds something). The proofs hold for every
`MaxID`, `MaxSessions`, `MaxSends`, `MaxErrorReads`, `SendBuffer`.

`HMessageProofs`: `UShortRoundTrip` and `UIntRoundTrip` are the arithmetic of the
two byte orders for any base; `FieldRead` says that the bytes of a field, found
anywhere in what arrived, are read as the field and end where it ends. The
inductive invariant `CodecInv` links the two sides: each accepted put begins
where the one before it ended (`ChainInv`) and its bytes are still in the buffer,
the first field's until the length is stamped over it (`ContentInv`); the reader
stands at the end of the last field the two sides agreed on (`ReaderInv`). It
would not be inductive without the chain: a string refused at the limit leaves
its length behind, and the fields put after it are not where the reader looks.
Theorems `CodecTypeCorrect`, `RoundTrip`, `GarbledCorrect`.

A second invariant, `FieldsInv`, ties positions to classes: field `i` put is the
`i`-th of the class and its rows (`PutTypes`; after a row the list starts again
at the row's first field, which is the arithmetic of `RowPositions` and
`RowFields`), the fields got and those still to get are those of the class
dispatched to (`GetTypes`), and the header carries that class's protocol numbers
(`HeaderInv`), which are distinct, so `Dispatch` finds it again (`HeaderAgreed`).
Then a class whose two lists are equal, which is every class but
`DS2C_A_GetAllRole`, agrees on every field that fitted (`FittedAgreed`), and
`CodecInv` does the rest. Theorems `FieldsInvariant`,
`ClassesReadBack`. Assumption: `CodecAssumption` (a base above 10, so that the
newline is a byte; a limit of more than a header that fits two bytes; values of
the right types; different classes have different protocol numbers).

`ProNetLogicProofs`: what each operation does to the stack of frames is stated in
four lemmas (`QuietFrames`, `DealMsgFrames`, `DispatchFrames`, `EndFrames`).
`OrderInv`: the library's messages are newer than all that were fetched; the loops
hold what was fetched and not dispatched, the oldest in the outermost; and a
message newer than one still waiting in a loop was dispatched only further inside.
`AnswerInv`: each message answers a request of its kind, and one request has one
message. Theorems `ClientTypeCorrect`, `ConnectionsKnown`,
`DispatchedOnceCorrect`, `InOrderCorrect`, `AnswersReportedCorrect`, for any
number of connections, requests, messages, nested calls and calls of a delegate
(`ClientAssumption`: naturals).

`DBMSProofs`: the inductive invariant is `StoreTypeOK` and `IndexMatchesMap`
themselves. The argument goes through `BucketsMatchMap`: the keys filed under a
time are, without repeats, just those the map gives that time. `Del`'s scan
removes one entry, and no repeats make that the only one; without that part an
`Insert` over an old value could leave an entry behind which `UpdateData` would
later use against the new value. The refinement needs one fact more
(`ReturnLeavesNothingDue`): when the first entry of the index is not due, none
is. Theorems `StoreTypeCorrect`, `IndexCorrect`, `StoreRefines`. Assumption:
`StoreAssumption`.

`DBSqlThreadProofs`: the four places a request can be in (`m_vecWrite`, the
worker's batch, `m_vecWriteFinish`, the main thread's batch) are consecutive
stretches of the sequence of all requests (`OrderInv`). Each step is one of six
moves (`StepIsMove`), and each move preserves it (`OrderStep`); what is pending
is then the stretch after the request answered last, which gives the refinement
of `Mailbox` (`QueueRefines`). `OutcomeInv` (an outcome is set just when the
request leaves the worker's hands) gives `SqlBeforeLogic`. `CreateInv` follows a
"yes" of `@isNew` from the CALL that set it to the answer: at the SELECT and at
the return it belongs to the node at the head of the batch, because a CALL that
fails never reaches the SELECT and a new session has no variables
(`OKMeansCreatedCorrect`). `FailInv` does the same for the other outcomes: an
account's creator is a node already done or the one whose CALL has run
(`CreatorInv`; without it a "no" of `@isNew` could be the node's own account), so
that a "no" that reaches the return names an earlier creator, and an error that
reaches it has a fault, an `@` or a `)` behind it (`SqlInv`). Theorem
`FailHasCauseCorrect`. `WorkerTypeCorrect` covers the types and the lock.
Assumptions: `WorkerAssumption`, `DBAssumption` (long names are accounts, the bounds
are naturals; nothing of which texts have an `@` or a `)`).

Only model-checked: what is about liveness (`QueuedLoginAnswered`,
`NodeAnswered`, `DealMsgReturns`), which is out of the prover's reach, and the
runs that show a violation. Every safety property of a passing run is proved. No
module declares a `RECURSIVE` operator.

## 5. What the models show of the code beside the runs

- The running server drops every registration: in `DealMsg` the wait node's two
  lines are commented out (`MsgLogic.cpp:55-56`) and nothing answers instead.
- Were the worker switched on, no login would succeed: both statements begin
  `selsect` (`DBSqlThread.cpp:99,147`), so the outcome is always `loginFail`, and
  the store, filled only behind that check, stays empty. Nothing calls
  `UpdateData` or `Del`.
- A CALL that ran and whose answer was lost is answered FAIL; a retry is then
  answered FAIL as repeated (`QueryLost`; `FailMeansNotCreated` fails by this
  too, though its run needs no fault).
- Every check of a dynamic code is answered FAIL: `CheckDynmicCode` walks
  `m_mapAllClient`, and nothing calls `GetmapAllClient`, which would fill it.
- `DS2C_A_GetAllRole::get` reads a string where its `put` writes a number, in both
  copies (`MyMsg.h:462-474`): a reader would take the count's bytes for a length.
  Nobody in the repository puts or gets this class. The server's copy of
  `ZS2C_A_RegisterAccount::get` (`MyMsg.h:421-424`) leaves out the second number; the
  reader of this class is the client, whose copy reads both.
- A registration whose name or password has an `@` or a `)` creates its account and
  is answered FAIL (`DBSqlThread_at`).
- `m_iDataUseSize` is written and never read, so no `get` can know where a message
  ends; and no caller of a put looks at its result. The client's `CheckPut` still
  compares with 10000 (`GameHMsg.h:196`) although the client's buffer has 4096
  bytes (`GameHMsg.h:71`): `CodecTypeOK` keeps a position below the limit of
  `CheckPut`, which on the client is not the size of the buffer.
- In the client's `DealMsg` a `break` is missing after the case `FM_ZDQ_LOGIN`
  (`pronetlogic.cpp:125-126`): every login and registration answer is also logged
  as unknown. `Connect` ignores its `IP` and `Port` and reads `IpConfig.ini`.
- Each object the collector destroys while connected leaves its connection open
  for good; the next object does not know of it (`FlagKnowsConnection`).

## 6. Plan

Done: network, main thread and their hand-over, with writes that wait or are partial;
database connection and worker; in-memory store; codec; client; the proofs of
their safety properties; the server as an abstract service, the classes of the
codec as wholes, and the outcomes of the worker in both directions.

Left, in order of what they would add:

1. An abstract specification of the client's `DealMsg` with its nested calls, and
   the proof that `ProNetLogic` implements it.
2. `LoginSystem`: clients and server composed over the codec's messages.
3. The worker composed with the network, once the commented-out calls are back:
   the unassigned session id decides who gets an answer.
4. The list of servers of a login, which the malformed statements make
   unreachable at present.

## 7. Not modelled, and why

`SendMsgByPlayerID`, `GetAllClient`, `SendMsgToAll` (never called or never
defined). Game glue of the client (`MyprojectCharacter`, `MyprojectGameMode`,
`MyClass*`): engine callbacks without protocol state. `DPDB/dbmain.cpp`: not in the
build, defines nothing used. The servers the client would talk to after login
(DS, GS) are not in the repository. Of the codec, what is compiled only under
`RELASE_` (`Resize`). `DBConnect`'s character set
and `mysql_select_db`, the server list of the login, and a mysqld that never
answers, as said above.

The repository's own code is about 2,800 lines; nearly all the rest of its C and
C++ is headers of boost, mysql, openssl and libwebsockets, copied in for the
build. They are external here: the models state what the code above relies on
(completion handlers one at a time, `write_some`, `operator[]`, reconnection in
libmysql), not how the libraries do it.
