------------------------------ MODULE HMessage ------------------------------
(***************************************************************************)
(* The message codec: class HMessage (a buffer with a position), and the   *)
(* message classes that put their fields into one and get them out of      *)
(* another.  The server has them in Server/ZServer/MyMsg.h, the client a   *)
(* copy in Common/GameHMsg.h with a smaller buffer and one get that        *)
(* differs.  Of the ZS2C classes it is the client's get that runs, of the  *)
(* others that of a server.                                                *)
(*                                                                         *)
(* A writer puts the fields of one message, SendMsgBySessionID ends it and *)
(* stamps its length on it, some prefix of it arrives in one read, and a   *)
(* reader gets the fields out again, knowing only what it has read so far. *)
(* The puts return whether the field fitted, and no caller looks.          *)
(*                                                                         *)
(* m_iPos of a writer is the number of bytes it has put, so the writer is  *)
(* the sequence of these bytes.  m_iDataUseSize is left out: nothing reads *)
(* it.                                                                     *)
(***************************************************************************)
EXTENDS Integers, Sequences

CONSTANTS
  Base,      \* number of values of a byte; 256
  Limit,     \* the bound of CheckPut; 10000
  ReadSize,  \* bytes asked for by one async_read_some; 4000
  Protocol,  \* main and sub protocol numbers of each class
  Sample,    \* for each type of field, the values put
  MaxRows    \* bound on the rows a message repeats

Byte   == 0 .. Base - 1
UShort == 0 .. Base * Base - 1
UInt   == 0 .. Base * Base * Base * Base - 1
Type   == {"char", "ushort", "uint", "string"}

Value(type) ==
  CASE type = "char"   -> Byte
    [] type = "ushort" -> UShort
    [] type = "uint"   -> UInt
    [] type = "string" -> Seq(Byte)

(***************************************************************************)
(* What each class puts after the header, and what it gets.                *)
(***************************************************************************)
Header == <<"ushort", "ushort", "ushort">>  \* m_wSize and the protocol numbers

Puts == [
  C2ZS_R_Login            |-> <<"string", "string">>,
  ZS2C_A_Login            |-> <<"uint", "uint", "uint">>,
  C2ZS_R_RegisterAccount  |-> <<"string", "string">>,
  ZS2C_A_RegisterAccount  |-> <<"uint", "uint">>,
  C2DS_R_GetAllRole       |-> <<"uint", "uint">>,
  DS2C_A_GetAllRole       |-> <<"uint">>,
  DS2ZS_R_CheckDynmicCode |-> <<"uint", "uint", "uint">>,
  ZS2DS_A_CheckDynmicCode |-> <<"uint", "uint">>,
  GS2C_A_Login            |-> <<"uint">>,
  GS2DS_R_CheckDynmicCode |-> <<"uint", "uint">>,
  DS2GS_A_CheckDynmicCode |-> <<"uint", "uint">>,
  C2GS_R_Login            |-> <<>>,
  ZS2C_A_ErrorMessage     |-> <<"uint">>]

\* Mutant of Gets: the server's own copy of the get of ZS2C_A_RegisterAccount,
\* which nobody calls, leaves out m_iErrorCodeIndex.
GetsOfServer == [Puts EXCEPT !.ZS2C_A_RegisterAccount = <<"uint">>,
                             !.DS2C_A_GetAllRole = <<"string">>]

\* DS2C_A_GetAllRole has, in both files, a string where it puts the count.
Gets == [Puts EXCEPT !.DS2C_A_GetAllRole = <<"string">>]

Class == DOMAIN Puts

\* putServerData and getServerData, putRole and getRole.
Row == [c \in Class |->
  IF c = "ZS2C_A_Login" THEN <<"uint", "string", "string", "ushort", "char">>
  ELSE IF c = "DS2C_A_GetAllRole" THEN <<"string">> ELSE <<>>]

ASSUME CodecAssumption ==
  /\ Base \in Nat /\ Base > 10
  /\ Limit \in Nat /\ Limit > 6 /\ Limit <= Base * Base
  /\ ReadSize \in Nat \ {0}
  /\ Protocol \in [Class -> UShort \X UShort]
  /\ \A c, d \in Class : Protocol[c] = Protocol[d] => c = d
  /\ DOMAIN Sample = Type
  /\ \A type \in Type : Sample[type] \subseteq Value(type)
  /\ MaxRows \in Nat

VARIABLES
  phase,     \* "idle", "put", "sent", "get", "garbled" or "done"
  class,     \* the class whose put runs; then the one whose get runs
  todo,      \* types of the fields its put or get has still to do
  rows,      \* rows put so far
  puts,      \* history: each field put, where, and whether it fitted
  data,      \* m_pData[0 .. m_iPos-1] of the writer
  received,  \* m_pData of the reader, as far as the read filled it
  m_iPos,    \* position of the reader
  gets       \* the fields got

vars == <<phase, class, todo, rows, puts, data, received, m_iPos, gets>>

-----------------------------------------------------------------------------
(***************************************************************************)
(* Encodings.  putUShort stores the host's order (little-endian), putUInt  *)
(* shifts: big-endian.                                                     *)
(***************************************************************************)
UShortBytes(v) == <<v % Base, v \div Base>>

\* Mutant of UIntBytes: the order of the host.
UIntBytesHost(v) ==
  LET v8 == v \div Base  v16 == v8 \div Base  v24 == v16 \div Base
  IN  <<v % Base, v8 % Base, v16 % Base, v24>>

UIntBytes(v) ==
  LET v8 == v \div Base  v16 == v8 \div Base  v24 == v16 \div Base
  IN  <<v24, v16 % Base, v8 % Base, v % Base>>

UShortOf(b, p) == b[p + 1] + b[p + 2] * Base
UIntOf(b, p) ==
  ((b[p + 1] * Base + b[p + 2]) * Base + b[p + 3]) * Base + b[p + 4]

\* The bytes of a field; the length of a string is cut to an uint16_t.
Bytes(type, v) ==
  CASE type = "char"   -> <<v>>
    [] type = "ushort" -> UShortBytes(v)
    [] type = "uint"   -> UIntBytes(v)
    [] type = "string" -> UShortBytes(Len(v) % (Base * Base)) \o v

\* getString assigns a char*: the string ends at its first NUL.
CutAtNUL(s) ==
  IF \E k \in DOMAIN s : s[k] = 0
  THEN SubSeq(s, 1, (CHOOSE k \in DOMAIN s : s[k] = 0 /\ \A j \in 1 .. k - 1 : s[j] # 0) - 1)
  ELSE s

AsRead(type, v) == IF type = "string" THEN CutAtNUL(v) ELSE v

-----------------------------------------------------------------------------
(***************************************************************************)
(* Writer.                                                                 *)
(***************************************************************************)
\* put of a message of class c: first the header's fields.
New(c) ==
  /\ phase = "idle"
  /\ phase' = "put"
  /\ class' = c
  /\ todo' = Header \o Puts[c]
  /\ UNCHANGED <<rows, puts, data, received, m_iPos, gets>>

\* Mutant of CheckPut: the last byte may be used.
CheckPutLast(size) == Len(data) + size <= Limit

CheckPut(size) == Len(data) + size < Limit

\* A string that does not fit may leave its length behind.
PutData(type, v) ==
  IF CheckPut(Len(Bytes(type, v))) THEN data \o Bytes(type, v)
  ELSE IF type = "string" /\ CheckPut(2) THEN data \o SubSeq(Bytes(type, v), 1, 2)
  ELSE data

\* m_wSize is not initialised; main and sub protocol come from the class.
ValuesToPut ==
  CASE Len(puts) = 1 -> {Protocol[class][1]}
    [] Len(puts) = 2 -> {Protocol[class][2]}
    [] OTHER -> Sample[Head(todo)]

Put ==
  /\ phase = "put" /\ todo # <<>>
  /\ todo' = Tail(todo)
  /\ \E v \in ValuesToPut :
       /\ data' = PutData(Head(todo), v)
       /\ puts' = Append(puts, [type |-> Head(todo), value |-> v, at |-> Len(data),
                                ok |-> CheckPut(Len(Bytes(Head(todo), v)))])
  /\ UNCHANGED <<phase, class, rows, received, m_iPos, gets>>

\* putServerData or putRole once more.
PutRow ==
  /\ phase = "put" /\ todo = <<>>
  /\ rows < MaxRows /\ Row[class] # <<>>
  /\ rows' = rows + 1
  /\ todo' = Row[class]
  /\ UNCHANGED <<phase, class, puts, data, received, m_iPos, gets>>

\* putChar('\n') of SendMsgBySessionID.
Terminated == IF CheckPut(1) THEN Append(data, 10) ELSE data

\* SendMsgBySessionID: GetPosition writes the position over m_wSize.
Send ==
  /\ phase = "put" /\ todo = <<>>
  /\ phase' = "sent"
  /\ data' = [Terminated EXCEPT ![1] = Len(Terminated) % Base,
                                ![2] = Len(Terminated) \div Base]
  /\ UNCHANGED <<class, todo, rows, puts, received, m_iPos, gets>>

-----------------------------------------------------------------------------
(***************************************************************************)
(* Reader.                                                                 *)
(***************************************************************************)
\* One read takes a prefix; HMessage(data, iLen) copies it.
Arrive(n) ==
  /\ phase = "sent"
  /\ n \in 1 .. Len(data) /\ n <= ReadSize
  /\ received' = SubSeq(data, 1, n)
  /\ phase' = "get"
  /\ todo' = Header
  /\ UNCHANGED <<class, rows, puts, data, m_iPos, gets>>

\* Mutant of End: a string's own length is added, but not that of its prefix.
EndShort(type) ==
  CASE type = "char"   -> m_iPos + 1
    [] type = "ushort" -> m_iPos + 2
    [] type = "uint"   -> m_iPos + 4
    [] type = "string" -> m_iPos + UShortOf(received, m_iPos)

\* Position after the field; a string's depends on the length read.
End(type) ==
  CASE type = "char"   -> m_iPos + 1
    [] type = "ushort" -> m_iPos + 2
    [] type = "uint"   -> m_iPos + 4
    [] type = "string" -> m_iPos + 2 + UShortOf(received, m_iPos)

\* The field lies within the bytes that arrived.
Within(type) ==
  /\ type = "string" => m_iPos + 2 <= Len(received)
  /\ End(type) <= Len(received)

ValueAt(type) ==
  CASE type = "char"   -> received[m_iPos + 1]
    [] type = "ushort" -> UShortOf(received, m_iPos)
    [] type = "uint"   -> UIntOf(received, m_iPos)
    [] type = "string" -> CutAtNUL(SubSeq(received, m_iPos + 3, End("string")))

Get ==
  /\ phase = "get" /\ todo # <<>>
  /\ Within(Head(todo))
  /\ gets' = Append(gets, [type |-> Head(todo), value |-> ValueAt(Head(todo))])
  /\ m_iPos' = End(Head(todo))
  /\ todo' = Tail(todo)
  /\ UNCHANGED <<phase, class, rows, puts, data, received>>

\* Bytes the read did not fill are uninitialised: from here on any value is read.
GetGarbled ==
  /\ phase = "get" /\ todo # <<>>
  /\ ~Within(Head(todo))
  /\ phase' = "garbled"
  /\ UNCHANGED <<class, todo, rows, puts, data, received, m_iPos, gets>>

\* Mutant of Dispatch: only the sub protocol is looked at.
DispatchBySub(c) ==
  /\ phase = "get" /\ todo = <<>> /\ Len(gets) = 3
  /\ Protocol[c][2] = gets[3].value
  /\ class' = c
  /\ todo' = Gets[c]
  /\ phase' = IF Gets[c] = <<>> THEN "done" ELSE "get"
  /\ UNCHANGED <<rows, puts, data, received, m_iPos, gets>>

\* The dispatcher looks at the header and calls the get of that class.
Dispatch(c) ==
  /\ phase = "get" /\ todo = <<>> /\ Len(gets) = 3
  /\ Protocol[c] = <<gets[2].value, gets[3].value>>
  /\ class' = c
  /\ todo' = Gets[c]
  /\ phase' = IF Gets[c] = <<>> THEN "done" ELSE "get"
  /\ UNCHANGED <<rows, puts, data, received, m_iPos, gets>>

\* getServerData or getRole once more.
GetRow ==
  /\ phase = "get" /\ todo = <<>> /\ Len(gets) > 3
  /\ Row[class] # <<>>
  /\ todo' = Row[class]
  /\ UNCHANGED <<phase, class, rows, puts, data, received, m_iPos, gets>>

Done ==
  /\ phase = "get" /\ todo = <<>> /\ Len(gets) > 3
  /\ phase' = "done"
  /\ UNCHANGED <<class, todo, rows, puts, data, received, m_iPos, gets>>

-----------------------------------------------------------------------------
Init ==
  /\ phase = "idle" /\ class \in Class
  /\ rows = 0 /\ todo = <<>> /\ puts = <<>> /\ data = <<>>
  /\ received = <<>> /\ m_iPos = 0 /\ gets = <<>>

\* Both HMessage objects are dropped; the next message has new ones.
Drop ==
  /\ phase \in {"garbled", "done"}
  /\ phase' = "idle"
  /\ rows' = 0 /\ todo' = <<>> /\ puts' = <<>> /\ data' = <<>>
  /\ received' = <<>> /\ m_iPos' = 0 /\ gets' = <<>>
  /\ UNCHANGED class

Next ==
  \/ \E c \in Class : New(c)
  \/ Put \/ PutRow \/ Send
  \/ \E n \in 1 .. Len(data) : Arrive(n)
  \/ Get \/ GetGarbled \/ GetRow \/ Done
  \/ \E c \in Class : Dispatch(c)
  \/ Drop

Spec == Init /\ [][Next]_vars

-----------------------------------------------------------------------------
(***************************************************************************)
(* Type invariant of the codec; its content is that every position a put   *)
(* leaves is below Limit.                                                  *)
(***************************************************************************)
CodecTypeOK ==
  /\ phase \in {"idle", "put", "sent", "get", "garbled", "done"}
  /\ class \in Class
  /\ todo \in Seq(Type)
  /\ rows \in 0 .. MaxRows
  /\ \A i \in DOMAIN puts : puts[i].type \in Type /\ puts[i].value \in Value(puts[i].type)
  /\ data \in Seq(Byte) /\ Len(data) < Limit
  /\ received \in Seq(Byte) /\ Len(received) <= ReadSize
  /\ m_iPos \in 0 .. Len(received)
  /\ \A i \in DOMAIN gets : gets[i].type \in Type

\* The first i fields fitted, and were got with the types they were put with.
Agreed(i) ==
  /\ i <= Len(puts)
  /\ \A j \in 1 .. i : puts[j].ok /\ puts[j].type = gets[j].type

(***************************************************************************)
(* Round trip.  Whatever was lost at the end of a full message or cut off  *)
(* by the read, the fields before it are read as they were put (strings up *)
(* to their first NUL), as long as put and get name the same types; and    *)
(* the first field is the length of the whole message, newline included.   *)
(***************************************************************************)
ReadsBack ==
  \A i \in DOMAIN gets : Agreed(i) =>
    gets[i].value = IF i = 1 THEN Len(data) ELSE AsRead(puts[i].type, puts[i].value)

(***************************************************************************)
(* The reader runs past what arrived only if the read was cut, a put was   *)
(* refused, or it gets what was not put: no combination of fields and      *)
(* values makes the positions of the two sides drift apart.                *)
(***************************************************************************)
GarbledOnlyIfCut ==
  phase = "garbled" /\ Len(received) = Len(data) =>
    LET i == Len(gets) + 1
    IN  ~(Agreed(i - 1) /\ i <= Len(puts) /\ puts[i].ok /\ puts[i].type = Head(todo))

\* The first i fields fitted.
Fitted(i) == \A j \in 1 .. i : puts[j].ok

(***************************************************************************)
(* What a class put, it gets.  A message is dispatched to the class that   *)
(* put it; and unless this is DS2C_A_GetAllRole, each field up to the      *)
(* first one refused is got as it was put, row by row, the reader of the   *)
(* whole message comes to the end of the fields before it runs out of what *)
(* arrived, and one that is done has left no field of the class's put      *)
(* behind.  Nothing is assumed here of what the reader met so far.         *)
(***************************************************************************)
ClassReadsBack ==
  phase \in {"get", "garbled", "done"} =>
    /\ Protocol[class] = <<puts[2].value, puts[3].value>>
    /\ class # "DS2C_A_GetAllRole" =>
         /\ phase = "done" => Len(gets) >= Len(Header \o Puts[class])
         /\ \A i \in DOMAIN gets \cap DOMAIN puts : Fitted(i) =>
              /\ gets[i].type = puts[i].type
              /\ i > 1 => gets[i].value = AsRead(puts[i].type, puts[i].value)
         /\ phase = "garbled" /\ Len(received) = Len(data) /\ Len(gets) < Len(puts) =>
              ~Fitted(Len(gets) + 1)
=============================================================================
