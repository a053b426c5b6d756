--------------------------- MODULE HMessageProofs ---------------------------
(***************************************************************************)
(* Proofs about the codec HMessage: for any base, limit, read size, sample *)
(* of values and protocol numbers, what was put and arrived is read back.  *)
(***************************************************************************)
EXTENDS HMessage, SequenceTheorems, TLAPS

-----------------------------------------------------------------------------
(***************************************************************************)
(* Arithmetic of the two byte orders.                                      *)
(***************************************************************************)

\* Division with remainder (UShortBytes, UIntBytes).
LEMMA DivMod ==
  ASSUME NEW b \in Nat, b > 0, NEW n \in Nat
  PROVE  /\ n \div b \in Nat /\ n % b \in 0 .. b - 1
         /\ n = (n \div b) * b + (n % b)
BY SMTT(30)

\* A quotient's range (UShortBytes, UIntBytes).
LEMMA DivLess ==
  ASSUME NEW b \in Nat, b > 0, NEW c \in Nat, NEW n \in Nat, n < c * b
  PROVE  n \div b < c
<1> DEFINE q == n \div b
<1>1. q \in Nat /\ n % b >= 0 /\ n % b \in Int /\ n = q * b + (n % b)
  BY DivMod
<1>2. SUFFICES ASSUME q >= c PROVE FALSE
  BY <1>1
<1> HIDE DEF q
<1>3. PICK d \in Nat : q = c + d
  <2>1. q - c \in Nat /\ q = c + (q - c)
    BY <1>1, <1>2
  <2> QED BY <2>1
<1>4. q * b = c * b + d * b
  BY <1>3
<1>5. d * b >= 0 /\ d * b \in Int /\ c * b \in Int
  OBVIOUS
<1> QED BY <1>1, <1>4, <1>5

LEMMA BaseFacts == Base \in Nat /\ Base > 10 /\ Base * Base \in Nat /\ Base * Base > Base
BY CodecAssumption, SMTT(30)

\* Both bytes of an ushort are bytes, and together the ushort.
LEMMA UShortRoundTrip ==
  ASSUME NEW v \in UShort
  PROVE  /\ UShortBytes(v) \in Seq(Byte) /\ Len(UShortBytes(v)) = 2
         /\ UShortBytes(v)[1] = v % Base /\ UShortBytes(v)[2] = v \div Base
         /\ v % Base \in Byte /\ v \div Base \in Byte
         /\ (v % Base) + (v \div Base) * Base = v
<1>1. v \in Nat /\ v < Base * Base
  BY BaseFacts DEF UShort
<1>2. v \div Base \in Nat /\ v % Base \in 0 .. Base - 1 /\ v = (v \div Base) * Base + (v % Base)
  BY DivMod, BaseFacts, <1>1
<1>3. v \div Base < Base
  BY DivLess, BaseFacts, <1>1
<1> DEFINE q == v \div Base  r == v % Base
<1>4. q \in Byte /\ r \in Byte
  BY <1>2, <1>3, BaseFacts DEF Byte
<1>5. UShortBytes(v) = <<r, q>>
  BY DEF UShortBytes
<1> HIDE DEF q, r
<1>6. r + q * Base = v
  <2> USE DEF q, r
  <2>1. q * Base \in Int
    BY <1>2, BaseFacts
  <2> QED BY <1>2, <2>1
<1>7. <<r, q>> \in Seq(Byte) /\ Len(<<r, q>>) = 2 /\ <<r, q>>[1] = r /\ <<r, q>>[2] = q
  BY <1>4
<1> QED BY <1>4, <1>5, <1>6, <1>7 DEF q, r

\* The four bytes of an uint are bytes, and together the uint.
LEMMA UIntRoundTrip ==
  ASSUME NEW v \in UInt
  PROVE  /\ UIntBytes(v) \in Seq(Byte) /\ Len(UIntBytes(v)) = 4
         /\ ((UIntBytes(v)[1] * Base + UIntBytes(v)[2]) * Base + UIntBytes(v)[3]) * Base
              + UIntBytes(v)[4] = v
<1> DEFINE v8 == v \div Base
           v16 == v8 \div Base
           v24 == v16 \div Base
<1>b. Base \in Nat /\ Base > 0
  BY BaseFacts
<1>1. v \in Nat /\ v < Base * Base * Base * Base
  BY BaseFacts, SMTT(30) DEF UInt
<1>2. v8 \in Nat /\ v % Base \in 0 .. Base - 1 /\ v = v8 * Base + (v % Base)
  BY DivMod, <1>b, <1>1
<1>3. v8 < Base * Base * Base
  <2>1. Base * Base * Base \in Nat
    BY <1>b, SMTT(30)
  <2> QED BY <2>1, DivLess, <1>b, <1>1
<1> HIDE DEF v8
<1>4. v16 \in Nat /\ v8 % Base \in 0 .. Base - 1 /\ v8 = v16 * Base + (v8 % Base)
  BY DivMod, <1>b, <1>2
<1>5. v16 < Base * Base
  <2>1. Base * Base \in Nat
    BY <1>b, SMTT(30)
  <2> QED BY <2>1, DivLess, <1>b, <1>2, <1>3
<1> HIDE DEF v16
<1>6. v24 \in Nat /\ v16 % Base \in 0 .. Base - 1 /\ v16 = v24 * Base + (v16 % Base)
  BY DivMod, <1>b, <1>4
<1>7. v24 < Base
  BY DivLess, <1>b, <1>4, <1>5
<1> HIDE DEF v24
<1>8. UIntBytes(v) = <<v24, v16 % Base, v8 % Base, v % Base>>
  BY DEF UIntBytes, v8, v16, v24
<1> DEFINE a == v16 % Base  b == v8 % Base  c == v % Base
<1>9. v24 \in Byte /\ a \in Byte /\ b \in Byte /\ c \in Byte
  BY <1>2, <1>4, <1>6, <1>7, <1>b DEF Byte
<1>10. ((v24 * Base + a) * Base + b) * Base + c = v
  BY <1>2, <1>4, <1>6
<1> HIDE DEF a, b, c
<1>11. /\ <<v24, a, b, c>> \in Seq(Byte) /\ Len(<<v24, a, b, c>>) = 4
       /\ <<v24, a, b, c>>[1] = v24 /\ <<v24, a, b, c>>[2] = a
       /\ <<v24, a, b, c>>[3] = b /\ <<v24, a, b, c>>[4] = c
  BY <1>9
<1>12. UIntBytes(v) = <<v24, a, b, c>>
  BY <1>8 DEF a, b, c
<1> QED BY <1>10, <1>11, <1>12

-----------------------------------------------------------------------------
(***************************************************************************)
(* Fields.                                                                 *)
(***************************************************************************)

\* Bytes, by type.
LEMMA BytesCases ==
  ASSUME NEW v
  PROVE  /\ Bytes("char", v) = <<v>>
         /\ Bytes("ushort", v) = UShortBytes(v)
         /\ Bytes("uint", v) = UIntBytes(v)
         /\ Bytes("string", v) = UShortBytes(Len(v) % (Base * Base)) \o v
BY Zenon DEF Bytes

\* Value, by type.
LEMMA ValueCases ==
  /\ Value("char") = Byte /\ Value("ushort") = UShort
  /\ Value("uint") = UInt /\ Value("string") = Seq(Byte)
BY Zenon DEF Value

\* A string is put as its length and its characters.
LEMMA StringBytes ==
  ASSUME NEW v \in Seq(Byte)
  PROVE  /\ Bytes("string", v) \in Seq(Byte)
         /\ Len(Bytes("string", v)) = 2 + Len(v)
         /\ Bytes("string", v)[1] = (Len(v) % (Base * Base)) % Base
         /\ Bytes("string", v)[2] = (Len(v) % (Base * Base)) \div Base
         /\ \A k \in 1 .. Len(v) : Bytes("string", v)[2 + k] = v[k]
<1> DEFINE l == Len(v) % (Base * Base)
<1>1. l \in UShort
  <2>1. Len(v) \in Nat
    BY LenProperties
  <2>2. Len(v) % (Base * Base) \in 0 .. Base * Base - 1
    BY <2>1, DivMod, BaseFacts
  <2> QED BY <2>2 DEF UShort
<1> HIDE DEF l
<1>2. /\ UShortBytes(l) \in Seq(Byte) /\ Len(UShortBytes(l)) = 2
      /\ UShortBytes(l)[1] = l % Base /\ UShortBytes(l)[2] = l \div Base
  BY <1>1, UShortRoundTrip
<1>3. Bytes("string", v) = UShortBytes(l) \o v
  BY BytesCases DEF l
<1> DEFINE p == UShortBytes(l)
<1>4. p \in Seq(Byte) /\ Len(p) = 2 /\ p[1] = l % Base /\ p[2] = l \div Base
  BY <1>2
<1>5. Bytes("string", v) = p \o v
  BY <1>3
<1> HIDE DEF p
<1>6. /\ p \o v \in Seq(Byte) /\ Len(p \o v) = 2 + Len(v)
      /\ (p \o v)[1] = p[1] /\ (p \o v)[2] = p[2]
      /\ \A k \in 1 .. Len(v) : (p \o v)[2 + k] = v[k]
  <2>1. Len(v) \in Nat
    BY LenProperties
  <2>2. /\ p \o v \in Seq(Byte) /\ Len(p \o v) = Len(p) + Len(v)
        /\ \A i \in 1 .. Len(p) + Len(v) :
             (p \o v)[i] = IF i <= Len(p) THEN p[i] ELSE v[i - Len(p)]
    BY <1>4, ConcatProperties
  <2> QED BY <1>4, <2>1, <2>2
<1> QED BY <1>4, <1>5, <1>6 DEF l

\* The bytes of any field.
LEMMA BytesFacts ==
  ASSUME NEW type \in Type, NEW v \in Value(type)
  PROVE  /\ Bytes(type, v) \in Seq(Byte)
         /\ Len(Bytes(type, v)) = IF type = "char" THEN 1 ELSE IF type = "ushort" THEN 2
                                 ELSE IF type = "uint" THEN 4 ELSE 2 + Len(v)
         /\ Len(Bytes(type, v)) \in Nat \ {0}
<1>1. CASE type = "char"
  <2>1. v \in Byte /\ Bytes(type, v) = <<v>>
    BY <1>1, ValueCases, BytesCases
  <2> DEFINE b == <<v>>
  <2>2. b \in Seq(Byte) /\ Len(b) = 1
    BY <2>1
  <2>3. Bytes(type, v) = b
    BY <2>1
  <2> HIDE DEF b
  <2> QED BY <1>1, <2>2, <2>3
<1>2. CASE type = "ushort"
  <2>1. v \in UShort /\ Bytes(type, v) = UShortBytes(v)
    BY <1>2, ValueCases, BytesCases
  <2> QED BY <1>2, <2>1, UShortRoundTrip
<1>3. CASE type = "uint"
  <2>1. v \in UInt /\ Bytes(type, v) = UIntBytes(v)
    BY <1>3, ValueCases, BytesCases
  <2> QED BY <1>3, <2>1, UIntRoundTrip
<1>4. CASE type = "string"
  <2>1. v \in Seq(Byte)
    BY <1>4, ValueCases
  <2>2. Len(v) \in Nat
    BY <2>1, LenProperties
  <2> QED BY <1>4, <2>1, <2>2, StringBytes
<1> QED BY <1>1, <1>2, <1>3, <1>4 DEF Type

\* End and ValueAt, by type.
LEMMA ReaderCases ==
  /\ End("char") = m_iPos + 1 /\ End("ushort") = m_iPos + 2 /\ End("uint") = m_iPos + 4
  /\ End("string") = m_iPos + 2 + UShortOf(received, m_iPos)
  /\ ValueAt("char") = received[m_iPos + 1]
  /\ ValueAt("ushort") = UShortOf(received, m_iPos)
  /\ ValueAt("uint") = UIntOf(received, m_iPos)
  /\ ValueAt("string") = CutAtNUL(SubSeq(received, m_iPos + 3, End("string")))
<1>1. /\ End("char") = m_iPos + 1 /\ End("ushort") = m_iPos + 2 /\ End("uint") = m_iPos + 4
      /\ End("string") = m_iPos + 2 + UShortOf(received, m_iPos)
  BY Zenon DEF End
<1>2. /\ ValueAt("char") = received[m_iPos + 1]
      /\ ValueAt("ushort") = UShortOf(received, m_iPos)
      /\ ValueAt("uint") = UIntOf(received, m_iPos)
      /\ ValueAt("string") = CutAtNUL(SubSeq(received, m_iPos + 3, End("string")))
  BY Zenon DEF ValueAt
<1> QED BY <1>1, <1>2

(***************************************************************************)
(* A field whose bytes lie at the reader's position, as far as they        *)
(* arrived: when all did, it is within what arrived; and when it is within *)
(* what arrived, all did, and it is got as it was put.                     *)
(***************************************************************************)
LEMMA FieldRead ==
  ASSUME NEW type \in Type, NEW v \in Value(type),
         received \in Seq(Byte), m_iPos \in Nat,
         type = "string" => Len(v) < Base * Base,
         \A k \in 1 .. Len(Bytes(type, v)) :
           m_iPos + k <= Len(received) => received[m_iPos + k] = Bytes(type, v)[k]
  PROVE  /\ m_iPos + Len(Bytes(type, v)) <= Len(received) => Within(type)
         /\ Within(type) => /\ End(type) = m_iPos + Len(Bytes(type, v))
                            /\ ValueAt(type) = AsRead(type, v)
<1>l. Len(received) \in Nat
  BY LenProperties
<1>1. CASE type = "char"
  <2>1. v \in Byte /\ Bytes(type, v) = <<v>> /\ End(type) = m_iPos + 1
        /\ ValueAt(type) = received[m_iPos + 1]
    BY <1>1, ValueCases, BytesCases, ReaderCases
  <2>2. Len(Bytes(type, v)) = 1 /\ Bytes(type, v)[1] = v
    BY <2>1
  <2>3. Within(type) => ValueAt(type) = v
    BY <1>1, <1>l, <2>1, <2>2 DEF Within
  <2>4. (m_iPos + 1 <= Len(received) => Within(type)) /\ AsRead(type, v) = v
    BY <1>1, <2>1 DEF Within, AsRead
  <2> QED BY <2>1, <2>2, <2>3, <2>4
<1>2. CASE type = "ushort"
  <2>1. v \in UShort /\ Bytes(type, v) = UShortBytes(v) /\ End(type) = m_iPos + 2
        /\ ValueAt(type) = UShortOf(received, m_iPos)
    BY <1>2, ValueCases, BytesCases, ReaderCases
  <2>2. /\ Len(Bytes(type, v)) = 2
        /\ Bytes(type, v)[1] + Bytes(type, v)[2] * Base = v
    BY <2>1, UShortRoundTrip
  <2>3. Within(type) => ValueAt(type) = v
    BY <1>2, <1>l, <2>1, <2>2 DEF Within, UShortOf
  <2> QED BY <1>2, <1>l, <2>1, <2>2, <2>3 DEF Within, AsRead
<1>3. CASE type = "uint"
  <2>1. v \in UInt /\ Bytes(type, v) = UIntBytes(v) /\ End(type) = m_iPos + 4
        /\ ValueAt(type) = UIntOf(received, m_iPos)
    BY <1>3, ValueCases, BytesCases, ReaderCases
  <2> DEFINE b == Bytes(type, v)
  <2>2. Len(b) = 4 /\ ((b[1] * Base + b[2]) * Base + b[3]) * Base + b[4] = v
    BY <2>1, UIntRoundTrip
  <2>3. \A k \in 1 .. Len(b) : m_iPos + k <= Len(received) => received[m_iPos + k] = b[k]
    OBVIOUS
  <2> HIDE DEF b
  <2>4. Within(type) => /\ received[m_iPos + 1] = b[1] /\ received[m_iPos + 2] = b[2]
                        /\ received[m_iPos + 3] = b[3] /\ received[m_iPos + 4] = b[4]
    BY <1>3, <1>l, <2>1, <2>2, <2>3 DEF Within
  <2>5. Within(type) => ValueAt(type) = v
    BY <2>1, <2>2, <2>4 DEF UIntOf
  <2>6. (m_iPos + Len(b) <= Len(received) => Within(type)) /\ End(type) = m_iPos + Len(b)
    BY <1>3, <2>1, <2>2 DEF Within
  <2> QED BY <1>3, <2>5, <2>6 DEF AsRead, b
<1>4. CASE type = "string"
  <2>1. v \in Seq(Byte) /\ Bytes(type, v) = Bytes("string", v)
        /\ End(type) = m_iPos + 2 + UShortOf(received, m_iPos)
        /\ ValueAt(type) = CutAtNUL(SubSeq(received, m_iPos + 3, End(type)))
    BY <1>4, ValueCases, ReaderCases
  <2> DEFINE b == Bytes("string", v)  l == Len(v) % (Base * Base)
  <2>2. Len(v) \in Nat /\ l = Len(v) /\ l \in UShort
    <3>1. Len(v) \in Nat
      BY <2>1, LenProperties
    <3>2. Base * Base \in Nat /\ Len(v) < Base * Base
      BY BaseFacts, <1>4
    <3>3. ASSUME NEW n \in Nat, NEW m \in Nat, n < m PROVE n % m = n
      BY <3>3
    <3>4. l = Len(v)
      BY <3>1, <3>2, <3>3
    <3> QED BY <3>1, <3>2, <3>4 DEF UShort
  <2>3. /\ Len(b) = 2 + Len(v) /\ b[1] = l % Base /\ b[2] = l \div Base
        /\ \A k \in 1 .. Len(v) : b[2 + k] = v[k]
    BY <2>1, StringBytes
  <2>4. (l % Base) + (l \div Base) * Base = Len(v)
    BY <2>2, UShortRoundTrip
  <2>5. b[1] + b[2] * Base = Len(v)
    BY <2>3, <2>4
  <2>6. \A k \in 1 .. Len(b) : m_iPos + k <= Len(received) => received[m_iPos + k] = b[k]
    BY <2>1
  <2> HIDE DEF b, l
  <2>7. m_iPos + 2 <= Len(received) => UShortOf(received, m_iPos) = Len(v)
    BY <1>l, <2>2, <2>3, <2>5, <2>6 DEF UShortOf
  <2>8. Within(type) => End(type) = m_iPos + 2 + Len(v)
    BY <1>4, <2>1, <2>7 DEF Within
  <2>9. Within(type) => SubSeq(received, m_iPos + 3, End(type)) = v
    <3> SUFFICES ASSUME Within(type) PROVE SubSeq(received, m_iPos + 3, End(type)) = v
      OBVIOUS
    <3>1. End(type) = m_iPos + 2 + Len(v) /\ End(type) <= Len(received)
      BY <2>8 DEF Within
    <3> DEFINE e == End(type)  m == m_iPos + 3
    <3>2. m \in Int /\ e \in Int /\ e = m + Len(v) - 1 /\ e <= Len(received) /\ m >= 1
      BY <3>1, <2>2
    <3>3. received \in [1 .. Len(received) -> Byte]
      BY LenProperties
    <3> HIDE DEF e, m
    <3>4. \A i \in m .. e : received[i] \in Byte
      BY <3>2, <3>3, <1>l
    <3> DEFINE t == SubSeq(received, m, e)
    <3>5. /\ t \in Seq(Byte) /\ Len(t) = IF m <= e THEN e - m + 1 ELSE 0
          /\ \A i \in 1 .. e - m + 1 : t[i] = received[m + i - 1]
      BY <3>2, <3>4, SubSeqProperties
    <3> HIDE DEF t
    <3>6. Len(t) = Len(v)
      BY <2>2, <3>2, <3>5
    <3>7. ASSUME NEW i \in 1 .. Len(v) PROVE t[i] = v[i]
      <4>1. t[i] = received[m + i - 1]
        BY <2>2, <3>2, <3>5
      <4>2. m + i - 1 = m_iPos + (2 + i)
        BY DEF m
      <4>3. 2 + i \in 1 .. Len(b) /\ m_iPos + (2 + i) <= Len(received)
        BY <1>l, <2>2, <2>3, <3>1
      <4>4. received[m_iPos + (2 + i)] = b[2 + i]
        BY <2>6, <4>3
      <4> QED BY <2>3, <4>1, <4>2, <4>4
    <3> QED BY <2>1, <3>5, <3>6, <3>7, SeqEqual DEF t, e, m
  <2>10. m_iPos + Len(b) <= Len(received) => Within(type)
    BY <1>4, <1>l, <2>1, <2>2, <2>3, <2>7 DEF Within
  <2>11. Within(type) => End(type) = m_iPos + Len(b)
    BY <2>2, <2>3, <2>8
  <2>12. Bytes(type, v) = b
    BY <2>1 DEF b
  <2> QED BY <1>4, <2>1, <2>9, <2>10, <2>11, <2>12 DEF AsRead
<1> QED BY <1>1, <1>2, <1>3, <1>4 DEF Type

-----------------------------------------------------------------------------
(***************************************************************************)
(* The inductive invariant.  Each accepted put ends where the next one     *)
(* begins (ChainInv) and its bytes are in the buffer, the first field's    *)
(* until Send stamps the length over it (ContentInv); the reader stands at *)
(* the end of the last field it agreed on (ReaderInv).                     *)
(***************************************************************************)
PutField == [type : Type, value : UNION { Value(type) : type \in Type }, at : Nat, ok : BOOLEAN]

BytesOf(i) == Bytes(puts[i].type, puts[i].value)
Size(i) == Len(BytesOf(i))

PutsInv ==
  /\ puts \in Seq(PutField)
  /\ Len(puts) > 0 => puts[1].at = 0 /\ puts[1].ok /\ puts[1].type = "ushort" /\ Len(data) >= 2
  /\ \A i \in 1 .. Len(puts) : i > 1 => puts[i].at >= 2
  /\ phase = "put" =>
       /\ puts = <<>> => data = <<>>
       /\ Len(puts) < 3 => /\ Len(todo) >= 3 - Len(puts)
                           /\ \A j \in 1 .. 3 - Len(puts) : todo[j] = "ushort"

ChainInv ==
  /\ \A i \in 1 .. Len(puts) : puts[i].ok /\ i + 1 <= Len(puts) =>
       puts[i + 1].at = puts[i].at + Size(i)
  /\ phase = "put" /\ Len(puts) > 0 /\ puts[Len(puts)].ok =>
       Len(data) = puts[Len(puts)].at + Size(Len(puts))

ContentInv ==
  \A i \in 1 .. Len(puts) : puts[i].ok =>
    /\ puts[i].at + Size(i) <= Len(data)
    /\ i > 1 \/ phase = "put" =>
         \A k \in 1 .. Size(i) : data[puts[i].at + k] = BytesOf(i)[k]

Reading == phase \in {"get", "garbled", "done"}

ReaderInv ==
  /\ phase \notin {"idle", "put"} =>
       Len(puts) > 0 /\ data[1] = Len(data) % Base /\ data[2] = Len(data) \div Base
  /\ ~Reading => gets = <<>> /\ m_iPos = 0 /\ received = <<>>
  /\ phase = "idle" => puts = <<>> /\ data = <<>> /\ todo = <<>> /\ rows = 0
  /\ Len(received) <= Len(data)
  /\ \A k \in 1 .. Len(received) : received[k] = data[k]
  /\ Reading /\ gets = <<>> => m_iPos = 0
  /\ Len(gets) > 0 /\ Agreed(Len(gets)) =>
       m_iPos = puts[Len(gets)].at + Size(Len(gets))

CodecInv ==
  /\ CodecTypeOK /\ (\E S : gets \in Seq(S))
  /\ PutsInv /\ ChainInv /\ ContentInv /\ ReaderInv
  /\ ReadsBack /\ GarbledOnlyIfCut


\* What a put does to the buffer.
LEMMA PutDataFacts ==
  ASSUME NEW type \in Type, NEW v \in Value(type), data \in Seq(Byte), Len(data) < Limit
  PROVE  /\ PutData(type, v) \in Seq(Byte) /\ Len(PutData(type, v)) < Limit
         /\ Len(PutData(type, v)) >= Len(data)
         /\ \A k \in 1 .. Len(data) : PutData(type, v)[k] = data[k]
         /\ CheckPut(Len(Bytes(type, v))) =>
              /\ Len(PutData(type, v)) = Len(data) + Len(Bytes(type, v))
              /\ \A k \in 1 .. Len(Bytes(type, v)) :
                   PutData(type, v)[Len(data) + k] = Bytes(type, v)[k]
<1> DEFINE b == Bytes(type, v)  d == PutData(type, v)  p == SubSeq(b, 1, 2)
<1>1. b \in Seq(Byte) /\ Len(b) \in Nat \ {0} /\ (type = "string" => Len(b) >= 2)
  <2>1. type = "string" => Len(v) \in Nat
    BY ValueCases, LenProperties
  <2> QED BY <2>1, BytesFacts
<1>2. Len(data) \in Nat /\ Limit \in Nat
  BY LenProperties, CodecAssumption
<1>3. d = IF Len(data) + Len(b) < Limit THEN data \o b
          ELSE IF type = "string" /\ Len(data) + 2 < Limit THEN data \o p ELSE data
  BY DEF PutData, CheckPut
<1>4. CheckPut(Len(b)) <=> Len(data) + Len(b) < Limit
  BY DEF CheckPut
<1> HIDE DEF b, d
<1>5. /\ data \o b \in Seq(Byte) /\ Len(data \o b) = Len(data) + Len(b)
      /\ \A i \in 1 .. Len(data) + Len(b) :
           (data \o b)[i] = IF i <= Len(data) THEN data[i] ELSE b[i - Len(data)]
  BY <1>1, ConcatProperties
<1>6. type = "string" => p \in Seq(Byte) /\ Len(p) = 2
  <2>1. b \in [1 .. Len(b) -> Byte]
    BY <1>1, LenProperties
  <2>2. type = "string" => \A i \in 1 .. 2 : b[i] \in Byte
    BY <1>1, <2>1
  <2> QED BY <2>2, SubSeqProperties
<1> HIDE DEF p
<1>7. type = "string" =>
        /\ data \o p \in Seq(Byte) /\ Len(data \o p) = Len(data) + 2
        /\ \A i \in 1 .. Len(data) + 2 :
             (data \o p)[i] = IF i <= Len(data) THEN data[i] ELSE p[i - Len(data)]
  <2> SUFFICES ASSUME type = "string"
               PROVE  /\ data \o p \in Seq(Byte) /\ Len(data \o p) = Len(data) + 2
                      /\ \A i \in 1 .. Len(data) + 2 :
                           (data \o p)[i] = IF i <= Len(data) THEN data[i] ELSE p[i - Len(data)]
    OBVIOUS
  <2>1. p \in Seq(Byte) /\ Len(p) = 2
    BY <1>6
  <2>2. /\ data \o p \in Seq(Byte) /\ Len(data \o p) = Len(data) + Len(p)
        /\ \A i \in 1 .. Len(data) + Len(p) :
             (data \o p)[i] = IF i <= Len(data) THEN data[i] ELSE p[i - Len(data)]
    BY <2>1, ConcatProperties
  <2> QED BY <2>1, <2>2
<1>8. d \in Seq(Byte) /\ Len(d) < Limit /\ Len(d) >= Len(data)
  BY <1>1, <1>2, <1>3, <1>5, <1>7
<1>9. \A k \in 1 .. Len(data) : d[k] = data[k]
  BY <1>1, <1>2, <1>3, <1>5, <1>7
<1>10. Len(data) + Len(b) < Limit =>
         Len(d) = Len(data) + Len(b) /\ \A k \in 1 .. Len(b) : d[Len(data) + k] = b[k]
  <2> SUFFICES ASSUME Len(data) + Len(b) < Limit
               PROVE  Len(d) = Len(data) + Len(b) /\ \A k \in 1 .. Len(b) : d[Len(data) + k] = b[k]
    OBVIOUS
  <2>1. d = data \o b
    BY <1>3
  <2>2. ASSUME NEW k \in 1 .. Len(b) PROVE d[Len(data) + k] = b[k]
    <3>1. Len(data) + k \in 1 .. Len(data) + Len(b) /\ ~(Len(data) + k <= Len(data))
          /\ Len(data) + k - Len(data) = k
      BY <1>1, <1>2
    <3> QED BY <1>5, <2>1, <3>1
  <2> QED BY <1>5, <2>1, <2>2
<1> QED BY <1>4, <1>8, <1>9, <1>10 DEF b, d

\* The values put have the type of the field.
LEMMA ValuesTyped ==
  ASSUME class \in Class, todo \in Seq(Type), todo # <<>>, Len(puts) \in Nat,
         Len(puts) < 3 => Head(todo) = "ushort",
         NEW v \in ValuesToPut
  PROVE  v \in Value(Head(todo))
<1>0. Head(todo) \in Type
  BY HeadTailProperties
<1>1. Protocol[class][1] \in UShort /\ Protocol[class][2] \in UShort
  BY CodecAssumption
<1>2. Sample[Head(todo)] \subseteq Value(Head(todo))
  BY <1>0, CodecAssumption
<1>3. ValuesToPut = IF Len(puts) = 1 THEN {Protocol[class][1]}
                    ELSE IF Len(puts) = 2 THEN {Protocol[class][2]} ELSE Sample[Head(todo)]
  <2>1. Len(puts) = 1 => Len(puts) # 2
    OBVIOUS
  <2> QED BY <2>1, Zenon DEF ValuesToPut
<1> DEFINE n == Len(puts)
<1>4. n \in Nat /\ (n < 3 => Head(todo) = "ushort")
  OBVIOUS
<1>5. ValuesToPut = IF n = 1 THEN {Protocol[class][1]}
                    ELSE IF n = 2 THEN {Protocol[class][2]} ELSE Sample[Head(todo)]
  BY <1>3
<1> HIDE DEF n
<1>6. CASE n < 3
  <2>1. Value(Head(todo)) = UShort
    BY <1>4, <1>6, ValueCases
  <2> QED BY <1>1, <1>2, <1>5, <2>1
<1>7. CASE ~(n < 3)
  BY <1>2, <1>4, <1>5, <1>7
<1> QED BY <1>6, <1>7

\* The types of every class's fields.
LEMMA ClassTypes ==
  ASSUME NEW c \in Class
  PROVE  Header \o Puts[c] \in Seq(Type) /\ Puts[c] \in Seq(Type)
         /\ Gets[c] \in Seq(Type) /\ Row[c] \in Seq(Type)
         /\ Len(Header \o Puts[c]) = 3 + Len(Puts[c]) /\ Len(Header \o Puts[c]) >= 3
         /\ \A j \in 1 .. 3 : (Header \o Puts[c])[j] = "ushort"
<1>1. Header \in Seq(Type) /\ Len(Header) = 3 /\ \A j \in 1 .. 3 : Header[j] = "ushort"
  BY DEF Header, Type
<1> DEFINE s == "string"  u == "uint"  Bodies == {<<>>, <<s>>, <<s, s>>, <<u>>, <<u, u>>, <<u, u, u>>}
<1>2. Bodies \subseteq Seq(Type)
  BY DEF Type
<1>3. Puts[c] \in Bodies /\ Gets[c] \in Bodies
  <2>1. Class = {"C2ZS_R_Login", "ZS2C_A_Login", "C2ZS_R_RegisterAccount",
                 "ZS2C_A_RegisterAccount", "C2DS_R_GetAllRole", "DS2C_A_GetAllRole",
                 "DS2ZS_R_CheckDynmicCode", "ZS2DS_A_CheckDynmicCode", "GS2C_A_Login",
                 "GS2DS_R_CheckDynmicCode", "DS2GS_A_CheckDynmicCode", "C2GS_R_Login",
                 "ZS2C_A_ErrorMessage"}
    BY DEF Class, Puts
  <2>2. Puts[c] \in Bodies
    BY <2>1 DEF Puts
  <2>3. Gets[c] = IF c = "DS2C_A_GetAllRole" THEN <<s>> ELSE Puts[c]
    BY DEF Gets, Class
  <2>4. Gets[c] \in Bodies
    BY <2>2, <2>3
  <2> QED BY <2>2, <2>4
<1>4. Row[c] \in Seq(Type)
  <2>1. Row[c] \in {<<"uint", "string", "string", "ushort", "char">>, <<"string">>, <<>>}
    BY DEF Row
  <2>2. {<<"uint", "string", "string", "ushort", "char">>, <<"string">>, <<>>} \subseteq Seq(Type)
    BY DEF Type
  <2> QED BY <2>1, <2>2
<1>p. Puts[c] \in Seq(Type) /\ Gets[c] \in Seq(Type)
  BY <1>2, <1>3
<1> HIDE DEF Bodies
<1> HIDE DEF Header
<1>5. /\ Header \o Puts[c] \in Seq(Type) /\ Len(Header \o Puts[c]) = 3 + Len(Puts[c])
      /\ \A i \in 1 .. 3 + Len(Puts[c]) :
           (Header \o Puts[c])[i] = IF i <= 3 THEN Header[i] ELSE Puts[c][i - 3]
  <2>1. /\ Header \o Puts[c] \in Seq(Type)
        /\ Len(Header \o Puts[c]) = Len(Header) + Len(Puts[c])
        /\ \A i \in 1 .. Len(Header) + Len(Puts[c]) : (Header \o Puts[c])[i] =
             IF i <= Len(Header) THEN Header[i] ELSE Puts[c][i - Len(Header)]
    BY <1>1, <1>p, ConcatProperties
  <2> QED BY <1>1, <2>1
<1>6. Len(Puts[c]) \in Nat
  BY <1>p, LenProperties
<1> QED BY <1>1, <1>p, <1>4, <1>5, <1>6

-----------------------------------------------------------------------------
(***************************************************************************)
(* The steps.                                                              *)
(***************************************************************************)

\* Facts of the puts made so far (Put, Get).
LEMMA PutsFacts ==
  ASSUME PutsInv, NEW i \in 1 .. Len(puts)
  PROVE  /\ Len(puts) \in Nat /\ puts[i] \in PutField
         /\ puts[i].type \in Type /\ puts[i].at \in Nat /\ puts[i].ok \in BOOLEAN
<1>1. puts \in Seq(PutField)
  BY DEF PutsInv
<1>2. Len(puts) \in Nat /\ puts[i] \in PutField
  BY <1>1, LenProperties
<1> QED BY <1>2 DEF PutField

(***************************************************************************)
(* A step that leaves the puts, the buffer and the reader's side alone     *)
(* preserves what is said of them.                                         *)
(***************************************************************************)
LEMMA SameFields ==
  ASSUME CodecInv, UNCHANGED <<puts, data, received, m_iPos, gets>>,
         phase' = "put" => phase = "put" \/ puts = <<>>
  PROVE  ChainInv' /\ ContentInv' /\ ReadsBack'
<1> USE DEF CodecInv
<1>1. ChainInv'
  <2>1. puts = <<>> => ~(Len(puts) > 0)
    OBVIOUS
  <2> QED BY <2>1 DEF ChainInv, Size, BytesOf
<1>2. ContentInv'
  <2>1. ASSUME NEW i \in 1 .. Len(puts), puts = <<>> PROVE FALSE
    BY <2>1
  <2> QED BY <2>1 DEF ContentInv, Size, BytesOf
<1>3. ReadsBack'
  BY DEF ReadsBack, Agreed, AsRead
<1> QED BY <1>1, <1>2, <1>3

LEMMA CodecInit == Init => CodecInv
<1> SUFFICES ASSUME Init PROVE CodecInv
  OBVIOUS
<1> USE DEF Init
<1>1. CodecTypeOK
  BY CodecAssumption DEF CodecTypeOK
<1>2. Len(puts) = 0 /\ Len(gets) = 0 /\ Len(received) = 0 /\ Len(data) = 0
  OBVIOUS
<1>3. PutsInv /\ ChainInv /\ ContentInv /\ ReaderInv
  BY <1>2 DEF PutsInv, ChainInv, ContentInv, ReaderInv, Reading, Size, BytesOf
<1>4. ReadsBack /\ GarbledOnlyIfCut
  BY <1>2 DEF ReadsBack, GarbledOnlyIfCut
<1> QED BY <1>1, <1>3, <1>4 DEF CodecInv

\* New: the header's fields come first.
LEMMA NewStep ==
  ASSUME CodecInv, NEW c \in Class, New(c)
  PROVE  CodecInv'
<1> USE DEF New
<1>1. puts = <<>> /\ data = <<>> /\ gets = <<>> /\ received = <<>>
  BY DEF CodecInv, ReaderInv, Reading
<1>2. todo' \in Seq(Type) /\ Len(todo') >= 3 /\ \A j \in 1 .. 3 : todo'[j] = "ushort"
  BY ClassTypes
<1>3. CodecTypeOK'
  BY <1>2 DEF CodecInv, CodecTypeOK, Class
<1>4. PutsInv'
  BY <1>1, <1>2, SMTT(30) DEF CodecInv, PutsInv
<1>5. ChainInv' /\ ContentInv' /\ ReadsBack'
  BY <1>1, SameFields
<1>6. ReaderInv'
  BY <1>1 DEF CodecInv, ReaderInv, Reading, Agreed, Size, BytesOf
<1>7. GarbledOnlyIfCut'
  BY DEF GarbledOnlyIfCut
<1> QED BY <1>3, <1>4, <1>5, <1>6, <1>7 DEF CodecInv

\* PutRow: more fields to put.
LEMMA PutRowStep ==
  ASSUME CodecInv, PutRow
  PROVE  CodecInv'
<1> USE DEF PutRow
<1>1. Row[class] \in Seq(Type)
  BY ClassTypes DEF CodecInv, CodecTypeOK
<1>2. ~(Len(puts) < 3)
  BY DEF CodecInv, PutsInv
<1>3. CodecTypeOK'
  BY <1>1, CodecAssumption DEF CodecInv, CodecTypeOK
<1>4. PutsInv'
  BY <1>2 DEF CodecInv, PutsInv
<1>5. ChainInv' /\ ContentInv' /\ ReadsBack'
  BY SameFields
<1>6. ReaderInv'
  BY DEF CodecInv, ReaderInv, Reading, Agreed, Size, BytesOf
<1>7. GarbledOnlyIfCut'
  BY DEF GarbledOnlyIfCut
<1> QED BY <1>3, <1>4, <1>5, <1>6, <1>7 DEF CodecInv

\* Dispatch, GetRow, Done: the reader goes on to other fields, or stops.
LEMMA ReaderControlStep ==
  ASSUME CodecInv, (\E c \in Class : Dispatch(c)) \/ GetRow \/ Done
  PROVE  CodecInv'
<1> USE DEF Dispatch, GetRow, Done
<1>1. /\ class' \in Class /\ todo' \in Seq(Type)
      /\ phase = "get" /\ phase' \in {"get", "done"}
      /\ UNCHANGED <<rows, puts, data, received, m_iPos, gets>>
  BY ClassTypes DEF CodecInv, CodecTypeOK
<1>3. CodecTypeOK'
  BY <1>1 DEF CodecInv, CodecTypeOK
<1>4. PutsInv'
  BY <1>1 DEF CodecInv, PutsInv
<1>5. ChainInv' /\ ContentInv' /\ ReadsBack'
  BY <1>1, SameFields
<1>6. ReaderInv'
  BY <1>1 DEF CodecInv, ReaderInv, Reading, Agreed, Size, BytesOf
<1>7. GarbledOnlyIfCut'
  BY <1>1 DEF GarbledOnlyIfCut
<1> QED BY <1>1, <1>3, <1>4, <1>5, <1>6, <1>7 DEF CodecInv

\* Drop: everything is empty again.
LEMMA DropStep ==
  ASSUME CodecInv, Drop
  PROVE  CodecInv'
<1> USE DEF Drop
<1>1. CodecTypeOK'
  BY CodecAssumption DEF CodecInv, CodecTypeOK
<1>2. (Len(puts) = 0 /\ Len(gets) = 0 /\ Len(received) = 0 /\ Len(data) = 0)'
  OBVIOUS
<1>3. PutsInv' /\ ChainInv' /\ ContentInv' /\ ReaderInv'
  BY <1>2 DEF PutsInv, ChainInv, ContentInv, ReaderInv, Reading, Size, BytesOf
<1>4. ReadsBack' /\ GarbledOnlyIfCut'
  BY <1>2 DEF ReadsBack, GarbledOnlyIfCut
<1> QED BY <1>1, <1>3, <1>4 DEF CodecInv

\* Put: the new field's bytes go to the end of the buffer, or it is refused.
LEMMA PutStep ==
  ASSUME CodecInv, Put
  PROVE  CodecInv'
<1> DEFINE h == Head(todo)  n == Len(puts)
<1>1. /\ phase = "put" /\ phase' = "put" /\ todo # <<>> /\ todo' = Tail(todo)
      /\ UNCHANGED <<class, rows, received, m_iPos, gets>>
      /\ gets = <<>> /\ m_iPos = 0 /\ received = <<>>
  BY DEF Put, CodecInv, ReaderInv, Reading
<1>2. PICK v \in ValuesToPut :
        /\ data' = PutData(h, v)
        /\ puts' = Append(puts, [type |-> h, value |-> v, at |-> Len(data),
                                ok |-> CheckPut(Len(Bytes(h, v)))])
  BY DEF Put
<1>3. todo \in Seq(Type) /\ h \in Type /\ todo' \in Seq(Type) /\ h = todo[1]
      /\ Len(todo) \in Nat /\ Len(todo') = Len(todo) - 1
      /\ \A j \in 1 .. Len(todo) - 1 : todo'[j] = todo[j + 1]
  <2>1. todo \in Seq(Type)
    BY DEF CodecInv, CodecTypeOK
  <2> QED BY <1>1, <2>1, HeadTailProperties, LenProperties
<1>4. data \in Seq(Byte) /\ Len(data) \in Nat /\ Len(data) < Limit /\ class \in Class
      /\ Limit \in Nat /\ Limit > 6
  <2>1. data \in Seq(Byte) /\ Len(data) < Limit /\ class \in Class
    BY DEF CodecInv, CodecTypeOK
  <2> QED BY <2>1, LenProperties, CodecAssumption
<1>5. puts \in Seq(PutField) /\ n \in Nat
  <2>1. puts \in Seq(PutField)
    BY DEF CodecInv, PutsInv
  <2> QED BY <2>1, LenProperties
<1>6. n < 3 => h = "ushort"
  BY <1>1, <1>3, <1>5 DEF CodecInv, PutsInv
<1>7. v \in Value(h)
  BY <1>1, <1>3, <1>4, <1>5, <1>6, ValuesTyped
<1> DEFINE b == Bytes(h, v)
           w == [type |-> h, value |-> v, at |-> Len(data), ok |-> CheckPut(Len(b))]
<1>8. /\ data' \in Seq(Byte) /\ Len(data') < Limit /\ Len(data') >= Len(data)
      /\ \A k \in 1 .. Len(data) : data'[k] = data[k]
      /\ CheckPut(Len(b)) => /\ Len(data') = Len(data) + Len(b)
                             /\ \A k \in 1 .. Len(b) : data'[Len(data) + k] = b[k]
  BY <1>2, <1>3, <1>4, <1>7, PutDataFacts
<1>9. Len(b) \in Nat /\ Len(data') \in Nat
  BY <1>3, <1>7, <1>8, BytesFacts, LenProperties
<1>10. w \in PutField /\ w.type = h /\ w.value = v /\ w.at = Len(data)
       /\ w.ok = CheckPut(Len(b)) /\ w.ok \in BOOLEAN
  BY <1>3, <1>4, <1>7 DEF PutField, CheckPut
<1>11. puts' = Append(puts, w)
  BY <1>2
<1> HIDE DEF w
<1>12. /\ puts' \in Seq(PutField) /\ Len(puts') = n + 1 /\ puts'[n + 1] = w
       /\ \A i \in 1 .. n : puts'[i] = puts[i]
  BY <1>5, <1>10, <1>11, AppendProperties
<1> HIDE DEF h, n
<1>13. \A i \in 1 .. n : BytesOf(i)' = BytesOf(i) /\ Size(i)' = Size(i)
  BY <1>12 DEF BytesOf, Size
<1>14. ASSUME NEW i, i = n + 1 PROVE BytesOf(i)' = b /\ Size(i)' = Len(b)
  BY <1>10, <1>12, <1>14 DEF BytesOf, Size
<1> HIDE DEF b
<1>15. CodecTypeOK'
  <2>1. DOMAIN puts' = 1 .. n + 1 /\ DOMAIN puts = 1 .. n
    BY <1>5, <1>12, LenProperties DEF n
  <2>2. \A i \in DOMAIN puts' : puts'[i].type \in Type /\ puts'[i].value \in Value(puts'[i].type)
    <3>1. \A i \in 1 .. n : puts[i].type \in Type /\ puts[i].value \in Value(puts[i].type)
      BY <2>1 DEF CodecInv, CodecTypeOK
    <3>2. \A i \in 1 .. n + 1 : i \in 1 .. n \/ i = n + 1
      BY <1>5
    <3> QED BY <1>3, <1>7, <1>10, <1>12, <2>1, <3>1, <3>2
  <2> QED BY <1>1, <1>3, <1>8, <2>2 DEF CodecInv, CodecTypeOK
<1>16. PutsInv'
  <2>1. CASE n = 0
    <3>1. puts = <<>> /\ Len(data) = 0
      <4>1. puts = <<>>
        BY <1>5, <2>1, EmptySeq DEF n
      <4> QED BY <1>1, <4>1 DEF CodecInv, PutsInv
    <3>2. Len(b) = 2
      BY <1>3, <1>6, <1>7, <2>1, BytesFacts DEF b
    <3>3. CheckPut(Len(b))
      BY <1>4, <3>1, <3>2 DEF CheckPut
    <3>4. puts'[1].at = 0 /\ puts'[1].ok /\ puts'[1].type = "ushort" /\ Len(data') >= 2
      BY <1>6, <1>8, <1>10, <1>12, <2>1, <3>1, <3>2, <3>3, SMTT(30)
    <3>5. Len(puts') = 1
      BY <1>12, <2>1
    <3>6. Len(todo) >= 3 /\ \A j \in 1 .. 3 : todo[j] = "ushort"
      BY <1>1, <2>1 DEF CodecInv, PutsInv, n
    <3>7. Len(todo') >= 2 /\ \A j \in 1 .. 2 : todo'[j] = "ushort"
      BY <1>3, <3>6
    <3>8. puts' # <<>>
      BY <3>5
    <3>9. ASSUME NEW i \in 1 .. Len(puts') PROVE ~(i > 1)
      BY <3>5
    <3> QED BY <1>12, <3>4, <3>5, <3>7, <3>8, <3>9 DEF PutsInv
  <2>2. CASE n > 0
    <3>1. puts[1].at = 0 /\ puts[1].ok /\ puts[1].type = "ushort" /\ Len(data) >= 2
      BY <2>2 DEF CodecInv, PutsInv, n
    <3>2. puts'[1] = puts[1]
      BY <1>5, <1>12, <2>2
    <3>3. \A i \in 1 .. Len(puts') : i > 1 => puts'[i].at >= 2
      <4>1. \A i \in 1 .. n : i > 1 => puts[i].at >= 2
        BY DEF CodecInv, PutsInv, n
      <4>2. \A i \in 1 .. n + 1 : i \in 1 .. n \/ i = n + 1
        BY <1>5
      <4> QED BY <1>10, <1>12, <3>1, <4>1, <4>2
    <3>4. Len(puts') < 3 => Len(todo') >= 3 - Len(puts')
                            /\ \A j \in 1 .. 3 - Len(puts') : todo'[j] = "ushort"
      <4> SUFFICES ASSUME n + 1 < 3
                   PROVE  Len(todo') >= 2 - n /\ \A j \in 1 .. 2 - n : todo'[j] = "ushort"
        BY <1>5, <1>12
      <4>1. Len(todo) >= 3 - n /\ \A j \in 1 .. 3 - n : todo[j] = "ushort"
        BY <1>1, <1>5 DEF CodecInv, PutsInv, n
      <4> QED BY <1>3, <1>5, <4>1
    <3>5. puts' # <<>>
      BY <1>5, <1>12
    <3>6. Len(data') >= 2
      BY <1>4, <1>8, <1>9, <3>1
    <3> QED BY <1>12, <3>1, <3>2, <3>3, <3>4, <3>5, <3>6 DEF PutsInv
  <2> QED BY <1>5, <2>1, <2>2
<1>17. ChainInv'
  <2>1. \A i \in 1 .. n : puts[i].ok /\ i + 1 <= n => puts[i + 1].at = puts[i].at + Size(i)
    BY DEF CodecInv, ChainInv, n
  <2>2. n > 0 /\ puts[n].ok => Len(data) = puts[n].at + Size(n)
    BY <1>1 DEF CodecInv, ChainInv, n
  <2>3. ASSUME NEW i \in 1 .. n + 1, puts'[i].ok, i + 1 <= n + 1
        PROVE  puts'[i + 1].at = puts'[i].at + Size(i)'
    <3>1. CASE i + 1 <= n
      <4>1. i \in 1 .. n /\ i + 1 \in 1 .. n
        BY <1>5, <3>1
      <4> QED BY <1>12, <1>13, <2>1, <2>3, <3>1, <4>1
    <3>2. CASE i = n
      BY <1>5, <1>10, <1>12, <1>13, <2>2, <2>3, <3>2
    <3> QED BY <1>5, <2>3, <3>1, <3>2
  <2>4. ASSUME NEW i, i = n + 1, puts'[i].ok PROVE Len(data') = puts'[i].at + Size(i)'
    BY <1>8, <1>10, <1>12, <1>14, <2>4
  <2> QED BY <1>12, <2>3, <2>4 DEF ChainInv
<1>18. ContentInv'
  <2> SUFFICES ASSUME NEW i \in 1 .. n + 1, puts'[i].ok
               PROVE  /\ puts'[i].at + Size(i)' <= Len(data')
                      /\ \A k \in 1 .. Size(i)' : data'[puts'[i].at + k] = BytesOf(i)'[k]
    BY <1>12 DEF ContentInv
  <2>1. CASE i = n + 1
    <3>1. puts'[i] = w /\ BytesOf(i)' = b /\ Size(i)' = Len(b)
      BY <1>12, <1>14, <2>1
    <3>2. puts'[i].at = Len(data) /\ CheckPut(Len(b))
      BY <1>10, <3>1
    <3>3. /\ Len(data) + Len(b) <= Len(data')
          /\ \A k \in 1 .. Len(b) : data'[Len(data) + k] = b[k]
      BY <1>4, <1>8, <1>9, <3>2
    <3> QED BY <3>1, <3>2, <3>3
  <2>2. CASE i \in 1 .. n
    <3>1. puts'[i] = puts[i] /\ Size(i)' = Size(i) /\ BytesOf(i)' = BytesOf(i)
      BY <1>12, <1>13, <2>2
    <3>2. /\ puts[i].at + Size(i) <= Len(data)
          /\ \A k \in 1 .. Size(i) : data[puts[i].at + k] = BytesOf(i)[k]
      BY <1>1, <2>2, <3>1 DEF CodecInv, ContentInv, n
    <3>3. puts[i].at \in Nat
      BY <2>2, PutsFacts DEF CodecInv, n
    <3>4. Size(i) \in Nat
      <4>1. puts[i].type \in Type /\ puts[i].value \in Value(puts[i].type)
        BY <1>5, <2>2, LenProperties DEF CodecInv, CodecTypeOK, n
      <4> QED BY <4>1, BytesFacts DEF Size, BytesOf
    <3> DEFINE a == puts[i].at  z == Size(i)
    <3>5. a \in Nat /\ z \in Nat /\ a + z <= Len(data)
      BY <3>2, <3>3, <3>4
    <3>6. a + z <= Len(data')
      BY <1>4, <1>8, <1>9, <3>5
    <3>7. \A k \in 1 .. z : data[a + k] = BytesOf(i)[k]
      BY <3>2
    <3> HIDE DEF a, z
    <3>8. \A k \in 1 .. z : data'[a + k] = BytesOf(i)[k]
      BY <1>4, <1>8, <3>5, <3>7
    <3> QED BY <3>1, <3>6, <3>8 DEF a, z
  <2> QED BY <1>5, <2>1, <2>2
<1>19. ReaderInv'
  BY <1>1, <1>9 DEF ReaderInv, Reading
<1>20. ReadsBack' /\ GarbledOnlyIfCut'
  BY <1>1 DEF ReadsBack, GarbledOnlyIfCut
<1> QED BY <1>1, <1>15, <1>16, <1>17, <1>18, <1>19, <1>20 DEF CodecInv

\* Send: the newline is added and the length stamped over the first field.
LEMMA SendStep ==
  ASSUME CodecInv, Send
  PROVE  CodecInv'
<1> DEFINE t == Terminated
<1>1. /\ phase = "put" /\ phase' = "sent" /\ todo = <<>>
      /\ UNCHANGED <<class, todo, rows, puts, received, m_iPos, gets>>
      /\ gets = <<>> /\ m_iPos = 0 /\ received = <<>>
      /\ data' = [t EXCEPT ![1] = Len(t) % Base, ![2] = Len(t) \div Base]
  BY DEF Send, CodecInv, ReaderInv, Reading
<1>2. data \in Seq(Byte) /\ Len(data) \in Nat /\ Len(data) < Limit
      /\ Limit \in Nat /\ Limit <= Base * Base /\ 10 \in Byte
  <2>1. data \in Seq(Byte) /\ Len(data) < Limit
    BY DEF CodecInv, CodecTypeOK
  <2> QED BY <2>1, LenProperties, CodecAssumption DEF Byte
<1>3. puts \in Seq(PutField) /\ Len(puts) \in Nat /\ Len(puts) > 0 /\ Len(data) >= 2
  <2>1. puts \in Seq(PutField) /\ Len(puts) \in Nat
    BY LenProperties DEF CodecInv, PutsInv
  <2>2. ~(Len(puts) < 3)
    BY <1>1, <2>1 DEF CodecInv, PutsInv
  <2> QED BY <2>1, <2>2 DEF CodecInv, PutsInv
<1>4. /\ t \in Seq(Byte) /\ Len(t) \in Nat /\ Len(t) < Limit /\ Len(t) >= Len(data)
      /\ \A k \in 1 .. Len(data) : t[k] = data[k]
  <2>1. /\ Append(data, 10) \in Seq(Byte) /\ Len(Append(data, 10)) = Len(data) + 1
        /\ \A k \in 1 .. Len(data) : Append(data, 10)[k] = data[k]
    BY <1>2, AppendProperties
  <2> QED BY <1>2, <2>1 DEF Terminated, CheckPut
<1> HIDE DEF t
<1>5. Len(t) \in UShort /\ Len(t) % Base \in Byte /\ Len(t) \div Base \in Byte
  <2>1. Len(t) \in UShort
    BY <1>2, <1>4, BaseFacts DEF UShort
  <2> QED BY <2>1, UShortRoundTrip
<1>6. /\ data' \in Seq(Byte) /\ Len(data') = Len(t)
      /\ data'[1] = Len(t) % Base /\ data'[2] = Len(t) \div Base
      /\ \A k \in 1 .. Len(t) : k > 2 => data'[k] = t[k]
  <2> DEFINE l == Len(t)  x == l % Base  y == l \div Base
  <2>1. t \in [1 .. l -> Byte] /\ l \in Nat /\ l >= 2 /\ x \in Byte /\ y \in Byte
    BY <1>2, <1>3, <1>4, <1>5, LenProperties
  <2>2. data' = [t EXCEPT ![1] = x, ![2] = y]
    BY <1>1
  <2> HIDE DEF l, x, y
  <2>3. /\ data' \in [1 .. l -> Byte] /\ data'[1] = x /\ data'[2] = y
        /\ \A k \in 1 .. l : k > 2 => data'[k] = t[k]
    BY <2>1, <2>2
  <2>4. data' \in Seq(Byte) /\ Len(data') = l
    BY <2>1, <2>3
  <2> QED BY <2>3, <2>4 DEF l, x, y
<1>7. CodecTypeOK'
  BY <1>1, <1>4, <1>6 DEF CodecInv, CodecTypeOK
<1>8. PutsInv'
  <2>1. Len(data') >= 2
    BY <1>2, <1>3, <1>4, <1>6
  <2> QED BY <1>1, <2>1 DEF CodecInv, PutsInv
<1>9. ChainInv'
  BY <1>1 DEF CodecInv, ChainInv, Size, BytesOf
<1>10. ContentInv'
  <2> SUFFICES ASSUME NEW i \in 1 .. Len(puts), puts[i].ok
               PROVE  /\ puts[i].at + Size(i) <= Len(data')
                      /\ i > 1 => \A k \in 1 .. Size(i) : data'[puts[i].at + k] = BytesOf(i)[k]
    <3>1. ~(phase' = "put")
      BY <1>1
    <3>2. \A i \in 1 .. Len(puts) : puts'[i] = puts[i] /\ Size(i)' = Size(i) /\ BytesOf(i)' = BytesOf(i)
      BY <1>1 DEF Size, BytesOf
    <3>3. Len(puts') = Len(puts)
      BY <1>1
    <3> QED BY <3>1, <3>2, <3>3, ZenonT(60) DEF ContentInv
  <2>1. puts[i].at \in Nat /\ (i > 1 => puts[i].at >= 2)
    BY PutsFacts DEF CodecInv, PutsInv
  <2>2. Size(i) \in Nat
    <3>1. puts[i].type \in Type /\ puts[i].value \in Value(puts[i].type)
      BY <1>3, LenProperties DEF CodecInv, CodecTypeOK
    <3> QED BY <3>1, BytesFacts DEF Size, BytesOf
  <2>3. /\ puts[i].at + Size(i) <= Len(data)
        /\ \A k \in 1 .. Size(i) : data[puts[i].at + k] = BytesOf(i)[k]
    BY <1>1 DEF CodecInv, ContentInv
  <2> DEFINE a == puts[i].at  z == Size(i)
  <2>4. a \in Nat /\ z \in Nat /\ a + z <= Len(data) /\ (i > 1 => a >= 2)
    BY <2>1, <2>2, <2>3
  <2>5. \A k \in 1 .. z : data[a + k] = BytesOf(i)[k]
    BY <2>3
  <2> HIDE DEF a, z
  <2>6. a + z <= Len(data')
    BY <1>2, <1>4, <1>6, <2>4
  <2>7. ASSUME i > 1, NEW k \in 1 .. z PROVE data'[a + k] = BytesOf(i)[k]
    <3>1. a + k \in 1 .. Len(data) /\ a + k \in 1 .. Len(t) /\ a + k > 2
      BY <1>2, <1>4, <2>4, <2>7
    <3> QED BY <1>4, <1>6, <2>5, <3>1
  <2> USE DEF a, z
  <2> QED BY <2>6, <2>7
<1>11. ReaderInv'
  BY <1>1, <1>3, <1>6, <1>4 DEF CodecInv, ReaderInv, Reading
<1>12. ReadsBack' /\ GarbledOnlyIfCut'
  BY <1>1 DEF ReadsBack, GarbledOnlyIfCut
<1> QED BY <1>1, <1>7, <1>8, <1>9, <1>10, <1>11, <1>12 DEF CodecInv

\* Arrive: the reader has a prefix of the buffer.
LEMMA ArriveStep ==
  ASSUME CodecInv, NEW n \in 1 .. Len(data), Arrive(n)
  PROVE  CodecInv'
<1>1. /\ phase = "sent" /\ phase' = "get" /\ todo' = Header /\ n <= ReadSize
      /\ UNCHANGED <<class, rows, puts, data, m_iPos, gets>>
      /\ gets = <<>> /\ m_iPos = 0 /\ received' = SubSeq(data, 1, n)
  BY DEF Arrive, CodecInv, ReaderInv, Reading
<1>2. data \in Seq(Byte) /\ Len(data) \in Nat
  <2>1. data \in Seq(Byte)
    BY DEF CodecInv, CodecTypeOK
  <2> QED BY <2>1, LenProperties
<1>3. /\ received' \in Seq(Byte) /\ Len(received') = n
      /\ \A k \in 1 .. n : received'[k] = data[k]
  <2>1. data \in [1 .. Len(data) -> Byte]
    BY <1>2, LenProperties
  <2>2. \A i \in 1 .. n : data[i] \in Byte
    BY <1>2, <2>1
  <2>3. n \in Int /\ 1 <= n /\ n - 1 + 1 = n
    BY <1>2
  <2> DEFINE r == SubSeq(data, 1, n)
  <2>4. /\ r \in Seq(Byte) /\ Len(r) = IF 1 <= n THEN n - 1 + 1 ELSE 0
        /\ \A i \in 1 .. n - 1 + 1 : r[i] = data[1 + i - 1]
    BY <2>2, <2>3, SubSeqProperties
  <2>5. received' = r
    BY <1>1
  <2> HIDE DEF r
  <2>6. \A i \in 1 .. n : 1 + i - 1 = i
    OBVIOUS
  <2> QED BY <2>3, <2>4, <2>5, <2>6
<1>4. Header \in Seq(Type)
  BY DEF Header, Type
<1>5. CodecTypeOK'
  BY <1>1, <1>2, <1>3, <1>4 DEF CodecInv, CodecTypeOK
<1>6. PutsInv' /\ ChainInv'
  BY <1>1 DEF CodecInv, PutsInv, ChainInv, Size, BytesOf
<1>7. ContentInv'
  BY <1>1 DEF CodecInv, ContentInv, Size, BytesOf
<1>8. ReaderInv'
  BY <1>1, <1>2, <1>3 DEF CodecInv, ReaderInv, Reading
<1>9. ReadsBack' /\ GarbledOnlyIfCut'
  BY <1>1 DEF ReadsBack, GarbledOnlyIfCut
<1> QED BY <1>1, <1>5, <1>6, <1>7, <1>8, <1>9 DEF CodecInv

(***************************************************************************)
(* The reader at a field that was put with the type it gets: it stands     *)
(* where the field was put, and reads it if all of it arrived.  The first  *)
(* field's bytes are by then the length of the message (Send).             *)
(***************************************************************************)
LEMMA AtField ==
  ASSUME CodecInv, phase = "get", todo # <<>>,
         NEW i \in 1 .. Len(puts), i = Len(gets) + 1, Agreed(i - 1),
         puts[i].ok, puts[i].type = Head(todo)
  PROVE  /\ m_iPos + Size(i) <= Len(data)
         /\ m_iPos + Size(i) <= Len(received) => Within(Head(todo))
         /\ Within(Head(todo)) =>
              /\ End(Head(todo)) = m_iPos + Size(i) /\ m_iPos = puts[i].at
              /\ ValueAt(Head(todo)) =
                   IF i = 1 THEN Len(data) ELSE AsRead(puts[i].type, puts[i].value)
<1> DEFINE h == Head(todo)  v == puts[i].value
<1>1. /\ h \in Type /\ v \in Value(h) /\ Len(puts) \in Nat /\ puts[i].at \in Nat
      /\ BytesOf(i) = Bytes(h, v) /\ Size(i) \in Nat /\ Size(i) = Len(Bytes(h, v))
  <2>1. puts[i].type \in Type /\ puts[i].value \in Value(puts[i].type)
    BY LenProperties DEF CodecInv, PutsInv, CodecTypeOK
  <2>2. Len(Bytes(h, v)) \in Nat
    BY <2>1, BytesFacts
  <2> QED BY <2>1, <2>2, PutsFacts DEF CodecInv, Size, BytesOf
<1>2. /\ received \in Seq(Byte) /\ Len(received) \in Nat
      /\ data \in Seq(Byte) /\ Len(data) \in Nat /\ Len(data) < Base * Base
      /\ m_iPos \in Nat /\ Len(received) <= Len(data)
      /\ \A k \in 1 .. Len(received) : received[k] = data[k]
      /\ data[1] = Len(data) % Base /\ data[2] = Len(data) \div Base
  <2>1. /\ received \in Seq(Byte) /\ data \in Seq(Byte) /\ Len(data) < Limit
        /\ m_iPos \in 0 .. Len(received)
    BY DEF CodecInv, CodecTypeOK
  <2>2. Len(received) \in Nat /\ Len(data) \in Nat
    BY <2>1, LenProperties
  <2>3. Limit \in Nat /\ Limit <= Base * Base /\ Base * Base \in Nat
    BY CodecAssumption, BaseFacts
  <2>4. /\ Len(received) <= Len(data) /\ \A k \in 1 .. Len(received) : received[k] = data[k]
        /\ data[1] = Len(data) % Base /\ data[2] = Len(data) \div Base
    BY DEF CodecInv, ReaderInv
  <2> QED BY <2>1, <2>2, <2>3, <2>4
<1>3. Len(gets) \in Nat
  BY LenProperties DEF CodecInv
<1>4. m_iPos = puts[i].at
  <2>1. CASE i = 1
    <3>1. gets = <<>>
      BY <1>3, <2>1, EmptySeq DEF CodecInv
    <3> QED BY <1>1, <2>1, <3>1 DEF CodecInv, PutsInv, ReaderInv, Reading
  <2>2. CASE i > 1
    <3>1. Len(gets) > 0 /\ Agreed(Len(gets)) /\ i - 1 = Len(gets)
      BY <1>3, <2>2
    <3>2. m_iPos = puts[Len(gets)].at + Size(Len(gets))
      BY <3>1 DEF CodecInv, ReaderInv
    <3> DEFINE j == Len(gets)
    <3>3. j \in 1 .. Len(puts) /\ j + 1 <= Len(puts) /\ j + 1 = i
      BY <1>1, <1>3, <2>2
    <3>4. puts[j].ok
      BY <1>3, <3>1 DEF Agreed
    <3>5. m_iPos = puts[j].at + Size(j)
      BY <3>2
    <3> HIDE DEF j
    <3> QED BY <3>3, <3>4, <3>5 DEF CodecInv, ChainInv
  <2> QED BY <2>1, <2>2
<1>5. /\ m_iPos + Size(i) <= Len(data)
      /\ i > 1 => \A k \in 1 .. Size(i) : data[m_iPos + k] = BytesOf(i)[k]
  BY <1>4 DEF CodecInv, ContentInv
<1>6. CASE i = 1
  <2> DEFINE l == Len(data)
  <2>1. h = "ushort" /\ m_iPos = 0
    BY <1>1, <1>4, <1>6 DEF CodecInv, PutsInv
  <2>2. l \in UShort /\ l \in Value(h)
    <3>1. l \in UShort
      BY <1>2, BaseFacts DEF UShort
    <3>2. Value(h) = UShort
      BY <2>1, ValueCases
    <3> QED BY <3>1, <3>2
  <2>3. /\ Bytes(h, l) = UShortBytes(l) /\ Len(Bytes(h, l)) = 2
        /\ Bytes(h, l)[1] = l % Base /\ Bytes(h, l)[2] = l \div Base
    <3>1. Bytes(h, l) = UShortBytes(l)
      BY <2>1, BytesCases
    <3> QED BY <2>2, <3>1, UShortRoundTrip
  <2>4. Size(i) = 2
    BY <1>1, <2>1, BytesFacts
  <2> DEFINE b == Bytes(h, l)
  <2>5. Len(b) = 2 /\ b[1] = data[1] /\ b[2] = data[2]
    BY <1>2, <2>3
  <2> HIDE DEF b, l, h
  <2>6. \A k \in 1 .. Len(b) : m_iPos + k <= Len(received) => received[m_iPos + k] = b[k]
    <3> SUFFICES ASSUME NEW k \in 1 .. 2, k <= Len(received) PROVE received[k] = b[k]
      BY <2>1, <2>5
    <3>1. k = 1 \/ k = 2
      OBVIOUS
    <3>2. received[k] = data[k]
      BY <1>2
    <3> QED BY <2>5, <3>1, <3>2
  <2>7. /\ m_iPos + Len(b) <= Len(received) => Within(h)
        /\ Within(h) => End(h) = m_iPos + Len(b) /\ ValueAt(h) = AsRead(h, l)
    <3>1. h # "string"
      BY <2>1
    <3> QED BY <1>1, <1>2, <2>2, <2>6, <3>1, FieldRead DEF b
  <2>8. AsRead(h, l) = l
    BY <2>1 DEF AsRead
  <2> QED BY <1>4, <1>5, <1>6, <2>4, <2>5, <2>7, <2>8 DEF h, l
<1>7. CASE i > 1
  <2> DEFINE b == Bytes(h, v)
  <2>1. Len(b) \in Nat /\ Len(b) = Size(i) /\ BytesOf(i) = b
    BY <1>1
  <2>2. h = "string" => Len(v) < Base * Base
    <3> SUFFICES ASSUME h = "string" PROVE Len(v) < Base * Base
      OBVIOUS
    <3>1. Len(b) = 2 + Len(v) /\ Len(v) \in Nat
      BY <1>1, BytesFacts, ValueCases, LenProperties
    <3>2. Len(b) <= Len(data) /\ Base * Base \in Nat
      BY <1>2, <1>5, <2>1, BaseFacts
    <3> DEFINE x == Len(v)  y == Len(b)  z == Base * Base  d == Len(data)
    <3>3. x \in Nat /\ y = 2 + x /\ y <= d /\ z \in Nat /\ d \in Nat /\ d < z
      BY <1>2, <3>1, <3>2
    <3> HIDE DEF x, y, z, d
    <3>4. x < z
      BY <3>3
    <3> QED BY <3>4 DEF x, z
  <2> HIDE DEF b
  <2>3. \A k \in 1 .. Len(b) : m_iPos + k <= Len(received) => received[m_iPos + k] = b[k]
    <3> SUFFICES ASSUME NEW k \in 1 .. Len(b), m_iPos + k <= Len(received)
                 PROVE  received[m_iPos + k] = b[k]
      OBVIOUS
    <3>1. m_iPos + k \in 1 .. Len(received)
      BY <1>2, <2>1
    <3>2. received[m_iPos + k] = data[m_iPos + k]
      BY <1>2, <3>1
    <3> QED BY <1>5, <1>7, <2>1, <3>2
  <2>4. /\ m_iPos + Len(b) <= Len(received) => Within(h)
        /\ Within(h) => End(h) = m_iPos + Len(b) /\ ValueAt(h) = AsRead(h, v)
    BY <1>1, <1>2, <2>2, <2>3, FieldRead DEF b
  <2> QED BY <1>4, <1>5, <1>7, <2>1, <2>4
<1> QED BY <1>6, <1>7

\* A field that lies within what arrived ends there (Get).
LEMMA EndTyped ==
  ASSUME received \in Seq(Byte), m_iPos \in Nat, NEW type \in Type, Within(type)
  PROVE  End(type) \in 0 .. Len(received)
<1>1. Len(received) \in Nat /\ received \in [1 .. Len(received) -> Byte]
  BY LenProperties
<1>2. CASE type = "string"
  <2>1. received[m_iPos + 1] \in Nat /\ received[m_iPos + 2] \in Nat /\ Base \in Nat
    BY <1>1, <1>2, BaseFacts DEF Within, Byte
  <2> DEFINE a == received[m_iPos + 1]  b == received[m_iPos + 2]
  <2>2. UShortOf(received, m_iPos) = a + b * Base
    BY DEF UShortOf
  <2> HIDE DEF a, b
  <2>3. a + b * Base \in Nat
    BY <2>1, SMTT(30) DEF a, b
  <2>4. UShortOf(received, m_iPos) \in Nat
    BY <2>2, <2>3
  <2> QED BY <1>1, <1>2, <2>4, ReaderCases DEF Within
<1>3. CASE type # "string"
  BY <1>1, <1>3, ReaderCases DEF Within, Type
<1> QED BY <1>2, <1>3

\* Get: one more field, read as it was put if the two sides agree so far.
LEMMA GetStep ==
  ASSUME CodecInv, Get
  PROVE  CodecInv'
<1> DEFINE h == Head(todo)  n == Len(gets)  r == [type |-> h, value |-> ValueAt(h)]
<1>1. /\ phase = "get" /\ phase' = "get" /\ todo # <<>> /\ todo' = Tail(todo) /\ Within(h)
      /\ UNCHANGED <<class, rows, puts, data, received>>
      /\ gets' = Append(gets, r) /\ m_iPos' = End(h)
  BY DEF Get
<1>2. h \in Type /\ todo' \in Seq(Type)
  <2>1. todo \in Seq(Type)
    BY DEF CodecInv, CodecTypeOK
  <2> QED BY <1>1, <2>1, HeadTailProperties
<1>3. r.type = h /\ r.value = ValueAt(h)
  OBVIOUS
<1> HIDE DEF r
<1>4. PICK S : gets \in Seq(S)
  BY DEF CodecInv
<1>5. /\ n \in Nat /\ Len(gets') = n + 1 /\ gets'[n + 1] = r
      /\ gets' \in Seq(S \cup {r})
      /\ \A j \in 1 .. n : gets'[j] = gets[j]
      /\ DOMAIN gets = 1 .. n /\ DOMAIN gets' = 1 .. n + 1
  <2>1. gets \in Seq(S \cup {r}) /\ r \in S \cup {r} /\ n \in Nat
    BY <1>4, LenProperties
  <2>2. /\ gets' \in Seq(S \cup {r}) /\ Len(gets') = n + 1 /\ gets'[n + 1] = r
        /\ \A j \in 1 .. n : gets'[j] = gets[j]
    BY <1>1, <2>1, AppendProperties
  <2> QED BY <2>1, <2>2, LenProperties
<1> HIDE DEF n
<1>6. End(h) \in 0 .. Len(received)
  <2>1. received \in Seq(Byte) /\ m_iPos \in 0 .. Len(received) /\ Len(received) \in Nat
    BY LenProperties DEF CodecInv, CodecTypeOK
  <2> QED BY <1>1, <1>2, <2>1, EndTyped
<1> HIDE DEF h
<1>7. CodecTypeOK'
  <2>1. \A j \in 1 .. n + 1 : gets'[j].type \in Type
    <3>1. \A j \in 1 .. n + 1 : j \in 1 .. n \/ j = n + 1
      BY <1>5
    <3> QED BY <1>2, <1>3, <1>5, <3>1 DEF CodecInv, CodecTypeOK
  <2> QED BY <1>1, <1>2, <1>5, <1>6, <2>1 DEF CodecInv, CodecTypeOK
<1>8. PutsInv' /\ ChainInv'
  BY <1>1 DEF CodecInv, PutsInv, ChainInv, Size, BytesOf
<1>9. ContentInv'
  BY <1>1 DEF CodecInv, ContentInv, Size, BytesOf
\* What the agreement of the new field says of the old ones.
<1>10. ASSUME NEW i \in Nat, i <= n, Agreed(i)' PROVE Agreed(i)
  <2>1. \A j \in 1 .. i : j \in 1 .. n
    BY <1>5, <1>10
  <2> QED BY <1>1, <1>5, <1>10, <2>1 DEF Agreed
<1>11. ASSUME NEW i, i = n + 1, Agreed(i)'
       PROVE  /\ r.value = IF i = 1 THEN Len(data) ELSE AsRead(puts[i].type, puts[i].value)
              /\ m_iPos' = puts[i].at + Size(i)
  <2>1. /\ i <= Len(puts)
        /\ \A j \in 1 .. i : puts[j].ok /\ puts[j].type = gets'[j].type
    BY <1>1, <1>11 DEF Agreed
  <2>2. i \in Nat /\ i >= 1 /\ Len(puts) \in Nat
    BY <1>5, <1>11, LenProperties DEF CodecInv, PutsInv
  <2>3. i \in 1 .. Len(puts) /\ puts[i].ok /\ puts[i].type = h
    BY <1>3, <1>5, <1>11, <2>1, <2>2
  <2>4. Agreed(i - 1)
    <3>1. \A j \in 1 .. i - 1 : j \in 1 .. n /\ j \in 1 .. i
      BY <1>5, <1>11
    <3> QED BY <1>5, <2>1, <2>2, <3>1 DEF Agreed
  <2>5. /\ End(h) = m_iPos + Size(i) /\ m_iPos = puts[i].at
        /\ ValueAt(h) = IF i = 1 THEN Len(data) ELSE AsRead(puts[i].type, puts[i].value)
    BY <1>1, <1>11, <2>3, <2>4, AtField DEF h, n
  <2> QED BY <1>1, <1>3, <2>5
<1>12. ReadsBack'
  <2> SUFFICES ASSUME NEW i \in 1 .. n + 1, Agreed(i)'
               PROVE  gets'[i].value =
                        IF i = 1 THEN Len(data) ELSE AsRead(puts[i].type, puts[i].value)
    BY <1>1, <1>5 DEF ReadsBack, AsRead
  <2>1. CASE i = n + 1
    BY <1>5, <1>11, <2>1
  <2>2. CASE i \in 1 .. n
    <3>1. Agreed(i)
      BY <1>5, <1>10, <2>2
    <3> QED BY <1>5, <2>2, <3>1 DEF CodecInv, ReadsBack
  <2> QED BY <1>5, <2>1, <2>2
<1>13. ReaderInv'
  <2>1. ASSUME NEW i, i = n + 1, Agreed(i)' PROVE m_iPos' = puts'[i].at + Size(i)'
    BY <1>1, <1>11, <2>1 DEF Size, BytesOf
  <2>2. gets' # <<>>
    BY <1>5
  <2> QED BY <1>1, <1>5, <2>1, <2>2 DEF CodecInv, ReaderInv, Reading
<1>14. GarbledOnlyIfCut'
  BY <1>1 DEF GarbledOnlyIfCut
<1> QED BY <1>5, <1>7, <1>8, <1>9, <1>12, <1>13, <1>14 DEF CodecInv

\* GetGarbled: the field does not lie within what arrived.
LEMMA GetGarbledStep ==
  ASSUME CodecInv, GetGarbled
  PROVE  CodecInv'
<1>1. /\ phase = "get" /\ phase' = "garbled" /\ todo # <<>> /\ ~Within(Head(todo))
      /\ UNCHANGED <<class, todo, rows, puts, data, received, m_iPos, gets>>
  BY DEF GetGarbled
<1>2. CodecTypeOK'
  BY <1>1 DEF CodecInv, CodecTypeOK
<1>3. PutsInv'
  BY <1>1 DEF CodecInv, PutsInv
<1>4. ChainInv' /\ ContentInv' /\ ReadsBack'
  BY <1>1, SameFields
<1>5. ReaderInv'
  BY <1>1 DEF CodecInv, ReaderInv, Reading, Agreed, Size, BytesOf
<1>6. GarbledOnlyIfCut'
  <2> DEFINE i == Len(gets) + 1
  <2> SUFFICES ASSUME Len(received) = Len(data), Agreed(i - 1), i <= Len(puts), puts[i].ok,
                      puts[i].type = Head(todo)
               PROVE  FALSE
    BY <1>1 DEF GarbledOnlyIfCut, Agreed
  <2>1. i \in 1 .. Len(puts)
    BY LenProperties DEF CodecInv, PutsInv
  <2> HIDE DEF i
  <2> QED BY <1>1, <2>1, AtField DEF i
<1> QED BY <1>1, <1>2, <1>3, <1>4, <1>5, <1>6 DEF CodecInv

-----------------------------------------------------------------------------
\* Every state satisfies the invariant (Next).
THEOREM CodecInvariant == Spec => []CodecInv
<1>1. ASSUME CodecInv, [Next]_vars PROVE CodecInv'
  <2>1. ASSUME NEW c \in Class, New(c) PROVE CodecInv'
    BY <1>1, <2>1, NewStep
  <2>2. ASSUME Put PROVE CodecInv'
    BY <1>1, <2>2, PutStep
  <2>3. ASSUME PutRow PROVE CodecInv'
    BY <1>1, <2>3, PutRowStep
  <2>4. ASSUME Send PROVE CodecInv'
    BY <1>1, <2>4, SendStep
  <2>5. ASSUME NEW n \in 1 .. Len(data), Arrive(n) PROVE CodecInv'
    BY <1>1, <2>5, ArriveStep
  <2>6. ASSUME Get PROVE CodecInv'
    BY <1>1, <2>6, GetStep
  <2>7. ASSUME GetGarbled PROVE CodecInv'
    BY <1>1, <2>7, GetGarbledStep
  <2>8. ASSUME (\E c \in Class : Dispatch(c)) \/ GetRow \/ Done PROVE CodecInv'
    BY <1>1, <2>8, ReaderControlStep
  <2>9. ASSUME Drop PROVE CodecInv'
    BY <1>1, <2>9, DropStep
  <2>10. ASSUME UNCHANGED vars PROVE CodecInv'
    BY <1>1, <2>10
       DEF vars, CodecInv, CodecTypeOK, PutsInv, ChainInv, ContentInv, ReaderInv, Reading,
           ReadsBack, GarbledOnlyIfCut, Agreed, Size, BytesOf, AsRead
  <2> QED BY <1>1, <2>1, <2>2, <2>3, <2>4, <2>5, <2>6, <2>7, <2>8, <2>9, <2>10 DEF Next
<1> QED BY <1>1, CodecInit, PTL DEF Spec

(***************************************************************************)
(* No put leaves the writer at Limit or beyond, and no get that stays      *)
(* within what arrived leaves the reader beyond it (CheckPut, End).        *)
(***************************************************************************)
THEOREM CodecTypeCorrect == Spec => []CodecTypeOK
<1>1. CodecInv => CodecTypeOK
  BY DEF CodecInv
<1> QED BY <1>1, CodecInvariant, PTL

(***************************************************************************)
(* For any base, limit, size of a read, classes' numbers and values of the *)
(* fields: what was put, fitted and arrived is read as it was put, and the *)
(* first field is the length of the message (SendMsgBySessionID).          *)
(***************************************************************************)
THEOREM RoundTrip == Spec => []ReadsBack
<1>1. CodecInv => ReadsBack
  BY DEF CodecInv
<1> QED BY <1>1, CodecInvariant, PTL

(***************************************************************************)
(* A message read whole runs past its end only after a put that was        *)
(* refused, or a get of what was not put (getString, putString).           *)
(***************************************************************************)
THEOREM GarbledCorrect == Spec => []GarbledOnlyIfCut
<1>1. CodecInv => GarbledOnlyIfCut
  BY DEF CodecInv
<1> QED BY <1>1, CodecInvariant, PTL
-----------------------------------------------------------------------------
(***************************************************************************)
(* The fields of a class: the header, the body, then rows.  Field i of a   *)
(* message has the type FieldAt says (put and get of the classes).         *)
(***************************************************************************)
FieldAt(body, row, i) ==
  IF i <= 3 THEN "ushort"
  ELSE IF i <= 3 + Len(body) THEN body[i - 3]
  ELSE row[((i - 4 - Len(body)) % Len(row)) + 1]

\* Position at which the r-th further row begins.
RowEnd(body, row, r) == 3 + Len(body) + r * Len(row)

PutType(i) == FieldAt(Puts[class], Row[class], i)
GetType(i) == FieldAt(Gets[class], Row[class], i)

\* The header is the first three puts: it always fits, and names the class.
HeaderInv ==
  /\ phase = "put" /\ Len(puts) < 3 => Len(data) = 2 * Len(puts)
  /\ \A i \in 1 .. Len(puts) : i <= 3 => puts[i].ok
  /\ Len(puts) >= 2 => puts[2].value = Protocol[class][1]
  /\ Len(puts) >= 3 => puts[3].value = Protocol[class][2]
  /\ phase \notin {"idle", "put"} => Len(puts) >= 3

\* What was put and what is still to put are the fields of the class.
PutTypes ==
  /\ \A i \in 1 .. Len(puts) : puts[i].type = PutType(i)
  /\ phase = "put" =>
       /\ \A k \in 1 .. Len(todo) : todo[k] = PutType(Len(puts) + k)
       /\ \E r \in Nat : Len(puts) + Len(todo) = RowEnd(Puts[class], Row[class], r)

\* The same of the gets; before the dispatch, only of the header.
GetTypes ==
  Reading =>
    /\ \A i \in 1 .. Len(gets) : gets[i].type = GetType(i)
    /\ \A k \in 1 .. Len(todo) : todo[k] = GetType(Len(gets) + k)
    /\ phase = "garbled" => todo # <<>>
    /\ phase = "done" => Len(gets) >= 3 + Len(Gets[class])
    /\ \/ Len(gets) + Len(todo) = 3
       \/ \E r \in Nat : Len(gets) + Len(todo) = RowEnd(Gets[class], Row[class], r)

FieldsInv == HeaderInv /\ PutTypes /\ GetTypes

\* The lengths of the bodies and rows.
LEMMA ClassLengths ==
  ASSUME NEW c \in Class
  PROVE  /\ Puts[c] \in Seq(Type) /\ Len(Puts[c]) \in Nat
         /\ Gets[c] \in Seq(Type) /\ Len(Gets[c]) \in Nat
         /\ Row[c] \in Seq(Type) /\ Len(Row[c]) \in {0, 1, 5}
         /\ Row[c] # <<>> => Len(Row[c]) \in {1, 5}
<1>1. Row[c] \in Seq(Type) /\ Gets[c] \in Seq(Type) /\ Puts[c] \in Seq(Type)
  BY ClassTypes
<1>2. Row[c] \in {<<"uint", "string", "string", "ushort", "char">>, <<"string">>, <<>>}
  BY DEF Row
<1>3. Len(Row[c]) \in {0, 1, 5} /\ (Row[c] # <<>> => Len(Row[c]) \in {1, 5})
  BY <1>2
<1> QED BY <1>1, <1>3, LenProperties

\* A row has one field or five.
RowLength == {1, 5}

\* The l positions after n are, in turn, those of a row behind a body of b fields.
RowFollows(b, l, n) ==
  \A k \in 1 .. l : /\ ~(n + k <= 3) /\ ~(n + k <= 3 + b)
                    /\ (((n + k) - 4 - b) % l) + 1 = k

\* Where a whole number of rows ends, a row follows.
LEMMA RowPositions ==
  ASSUME NEW b \in Nat, NEW r \in Nat, NEW l \in RowLength, NEW n \in Nat, n = 3 + b + r * l
  PROVE  /\ r + 1 \in Nat /\ n + l = 3 + b + (r + 1) * l
         /\ RowFollows(b, l, n)
<1>1. CASE l = 1
  <2>1. n = 3 + b + r /\ \A m \in Int : m % 1 = 0
    BY <1>1
  <2>2. \A k \in 1 .. 1 : k = 1 /\ (n + k) - 4 - b \in Int
    BY <2>1
  <2> QED BY <1>1, <2>1, <2>2 DEF RowFollows
<1>2. CASE l = 5
  <2>1. n = 3 + b + r * 5
    BY <1>2
  <2>2. ASSUME NEW k \in 1 .. 5 PROVE ((n + k) - 4 - b) % 5 = k - 1
    <3>1. (n + k) - 4 - b = r * 5 + (k - 1)
      BY <2>1
    <3>2. (r * 5 + (k - 1)) % 5 = k - 1
      OBVIOUS
    <3> QED BY <3>1, <3>2
  <2> QED BY <1>2, <2>1, <2>2 DEF RowFollows
<1> QED BY <1>1, <1>2 DEF RowLength

\* Behind the header and the body are rows.
LEMMA FieldInRow ==
  ASSUME NEW body, NEW row, NEW i, ~(i <= 3), ~(i <= 3 + Len(body))
  PROVE  FieldAt(body, row, i) = row[((i - 4 - Len(body)) % Len(row)) + 1]
BY Zenon DEF FieldAt

(***************************************************************************)
(* A further row begins where a whole number of rows ends: its fields are  *)
(* the row's (PutRow, GetRow).                                             *)
(***************************************************************************)
LEMMA RowFields ==
  ASSUME NEW c \in Class, Row[c] # <<>>, NEW body, Len(body) \in Nat,
         NEW r \in Nat, NEW n \in Nat, n = RowEnd(body, Row[c], r)
  PROVE  /\ \A k \in 1 .. Len(Row[c]) : Row[c][k] = FieldAt(body, Row[c], n + k)
         /\ r + 1 \in Nat /\ n + Len(Row[c]) = RowEnd(body, Row[c], r + 1)
<1> DEFINE l == Len(Row[c])  b == Len(body)
<1>1. l \in RowLength /\ b \in Nat
  BY ClassLengths DEF RowLength
<1>0. n = 3 + b + r * l /\ RowEnd(body, Row[c], r + 1) = 3 + b + (r + 1) * l
  BY Zenon DEF RowEnd
<1> HIDE DEF l, b
<1>3. r + 1 \in Nat /\ n + l = 3 + b + (r + 1) * l /\ RowFollows(b, l, n)
  BY Zenon, <1>0, <1>1, RowPositions
<1>4. ASSUME NEW k \in 1 .. l PROVE Row[c][k] = FieldAt(body, Row[c], n + k)
  <2> DEFINE i == n + k
  <2>1. ~(i <= 3) /\ ~(i <= 3 + b) /\ ((i - 4 - b) % l) + 1 = k
    BY Zenon, <1>3, <1>4 DEF RowFollows
  <2> HIDE DEF i
  <2>2. FieldAt(body, Row[c], i) = Row[c][((i - 4 - b) % l) + 1]
    BY Zenon, <2>1, FieldInRow DEF l, b
  <2> QED BY Zenon, <2>1, <2>2 DEF i
<1> QED BY <1>0, <1>3, <1>4, Zenon DEF l, b

LEMMA FieldsInit == Init => FieldsInv
<1> SUFFICES ASSUME Init PROVE FieldsInv
  OBVIOUS
<1>1. phase = "idle" /\ puts = <<>> /\ Len(puts) = 0
  BY DEF Init
<1> QED BY <1>1 DEF FieldsInv, HeaderInv, PutTypes, GetTypes, Reading

\* Of what is empty nothing is said (Drop).
LEMMA FieldsDropStep ==
  ASSUME CodecInv, FieldsInv, Drop
  PROVE  FieldsInv'
<1>1. phase' = "idle" /\ puts' = <<>> /\ Len(puts') = 0
  BY DEF Drop
<1> QED BY <1>1 DEF FieldsInv, HeaderInv, PutTypes, GetTypes, Reading

\* New: the header and the body are to be put.
LEMMA FieldsNewStep ==
  ASSUME CodecInv, FieldsInv, NEW c \in Class, New(c)
  PROVE  FieldsInv'
<1>1. puts = <<>> /\ data = <<>> /\ Len(puts) = 0 /\ Len(data) = 0 /\ phase' = "put"
      /\ puts' = puts /\ data' = data /\ class' = c /\ todo' = Header \o Puts[c]
  BY DEF New, CodecInv, ReaderInv
<1>2. Puts[c] \in Seq(Type) /\ Len(Puts[c]) \in Nat
  BY ClassLengths
<1>3. Header \in Seq(Type) /\ Len(Header) = 3 /\ \A j \in 1 .. 3 : Header[j] = "ushort"
  BY DEF Header, Type
<1> HIDE DEF Header
<1>4. /\ Len(todo') = 3 + Len(Puts[c])
      /\ \A k \in 1 .. Len(todo') : todo'[k] = IF k <= 3 THEN "ushort" ELSE Puts[c][k - 3]
  <2> DEFINE b == Puts[c]  t == Header \o b
  <2>1. b \in Seq(Type) /\ Len(b) \in Nat /\ todo' = t
    BY <1>1, <1>2
  <2> HIDE DEF b
  <2>2. /\ Len(t) = Len(Header) + Len(b)
        /\ \A i \in 1 .. Len(Header) + Len(b) :
             t[i] = IF i <= Len(Header) THEN Header[i] ELSE b[i - Len(Header)]
    BY <1>3, <2>1, ConcatProperties
  <2> HIDE DEF t
  <2>3. Len(t) = 3 + Len(b)
    BY <1>3, <2>2
  <2>4. ASSUME NEW k \in 1 .. 3 + Len(b) PROVE t[k] = IF k <= 3 THEN "ushort" ELSE b[k - 3]
    <3>1. t[k] = IF k <= 3 THEN Header[k] ELSE b[k - 3]
      BY <1>3, <2>2
    <3>2. k <= 3 => k \in 1 .. 3
      BY <2>1
    <3> QED BY <1>3, <3>1, <3>2
  <2>5. Len(todo') = 3 + Len(b)
    BY Zenon, <2>1, <2>3
  <2>6. ASSUME NEW k \in 1 .. Len(todo')
        PROVE  todo'[k] = IF k <= 3 THEN "ushort" ELSE b[k - 3]
    <3>1. k \in 1 .. 3 + Len(b)
      BY Zenon, <2>5, <2>6
    <3> QED BY Zenon, <2>1, <2>4, <3>1
  <2> QED BY Zenon, <2>5, <2>6 DEF b
<1>5. \A k \in 1 .. Len(todo') : todo'[k] = FieldAt(Puts[c], Row[c], 0 + k)
  <2>1. ASSUME NEW k \in 1 .. Len(todo') PROVE todo'[k] = FieldAt(Puts[c], Row[c], k)
    BY <1>2, <1>4 DEF FieldAt
  <2>2. \A k \in 1 .. Len(todo') : 0 + k = k
    OBVIOUS
  <2> QED BY <2>1, <2>2
<1>6. 0 + Len(todo') = RowEnd(Puts[c], Row[c], 0)
  <2>1. Len(Row[c]) \in Nat
    BY ClassLengths
  <2>2. ASSUME NEW l \in Nat PROVE 0 * l = 0
    OBVIOUS
  <2>3. 0 * Len(Row[c]) = 0
    BY <2>1, <2>2
  <2>4. RowEnd(Puts[c], Row[c], 0) = 3 + Len(Puts[c]) + 0
    BY <2>3, Zenon DEF RowEnd
  <2> QED BY <1>2, <1>4, <2>4
<1>7. HeaderInv'
  BY <1>1 DEF HeaderInv
<1>8. PutTypes'
  <2>1. 0 \in Nat /\ 0 + Len(todo') = RowEnd(Puts[c], Row[c], 0)
    BY <1>6
  <2> QED BY <1>1, <1>5, <2>1, SMTT(30) DEF PutTypes, PutType
<1>9. GetTypes'
  BY <1>1 DEF GetTypes, Reading
<1> QED BY <1>7, <1>8, <1>9 DEF FieldsInv

\* PutRow: the fields of one more row are to be put.
LEMMA FieldsPutRowStep ==
  ASSUME CodecInv, FieldsInv, PutRow
  PROVE  FieldsInv'
<1>1. /\ phase = "put" /\ phase' = "put" /\ todo = <<>> /\ Len(todo) = 0 /\ Row[class] # <<>>
      /\ todo' = Row[class] /\ UNCHANGED <<class, puts, data>>
  BY DEF PutRow
<1>2. class \in Class /\ Len(puts) \in Nat /\ Len(Puts[class]) \in Nat
  BY ClassLengths, LenProperties DEF CodecInv, CodecTypeOK, PutsInv
<1>3. PICK r \in Nat : Len(puts) + 0 = RowEnd(Puts[class], Row[class], r)
  BY <1>1 DEF FieldsInv, PutTypes
<1>4. Len(puts) = RowEnd(Puts[class], Row[class], r)
  BY <1>2, <1>3
<1>5. /\ \A k \in 1 .. Len(Row[class]) : Row[class][k] = FieldAt(Puts[class], Row[class], Len(puts) + k)
      /\ r + 1 \in Nat
      /\ Len(puts) + Len(Row[class]) = RowEnd(Puts[class], Row[class], r + 1)
  BY <1>1, <1>2, <1>4, RowFields
<1>6. HeaderInv'
  BY <1>1 DEF FieldsInv, HeaderInv
<1>7. PutTypes'
  BY <1>1, <1>5 DEF FieldsInv, PutTypes, PutType
<1>8. GetTypes'
  BY <1>1 DEF GetTypes, Reading
<1> QED BY <1>6, <1>7, <1>8 DEF FieldsInv

\* Put: one field from what is to be put to what was put.
LEMMA FieldsPutStep ==
  ASSUME CodecInv, FieldsInv, Put
  PROVE  FieldsInv'
<1> DEFINE h == Head(todo)  n == Len(puts)
<1>1. /\ phase = "put" /\ phase' = "put" /\ todo # <<>> /\ todo' = Tail(todo) /\ class' = class
  BY DEF Put
<1>2. PICK v \in ValuesToPut :
        /\ data' = PutData(h, v)
        /\ puts' = Append(puts, [type |-> h, value |-> v, at |-> Len(data),
                                ok |-> CheckPut(Len(Bytes(h, v)))])
  BY DEF Put
<1>3. /\ todo \in Seq(Type) /\ h \in Type /\ h = todo[1]
      /\ Len(todo) \in Nat /\ Len(todo) >= 1 /\ Len(todo') = Len(todo) - 1
      /\ \A j \in 1 .. Len(todo) - 1 : todo'[j] = todo[j + 1]
  <2>1. todo \in Seq(Type)
    BY DEF CodecInv, CodecTypeOK
  <2> QED BY <1>1, <2>1, HeadTailProperties, LenProperties
<1>4. /\ data \in Seq(Byte) /\ Len(data) < Limit /\ class \in Class /\ Limit \in Nat /\ Limit > 6
      /\ puts \in Seq(PutField) /\ n \in Nat
  BY CodecAssumption, LenProperties DEF CodecInv, CodecTypeOK, PutsInv
<1>5. n < 3 => h = "ushort"
  BY <1>1, <1>3, <1>4 DEF CodecInv, PutsInv
<1>6. v \in Value(h)
  BY <1>1, <1>3, <1>4, <1>5, ValuesTyped
<1> DEFINE b == Bytes(h, v)
           w == [type |-> h, value |-> v, at |-> Len(data), ok |-> CheckPut(Len(b))]
<1>7. w.type = h /\ w.value = v /\ w.ok = CheckPut(Len(b))
  OBVIOUS
<1>8. puts' = Append(puts, w)
  BY <1>2
<1>9. CheckPut(Len(b)) => Len(data') = Len(data) + Len(b)
  BY <1>2, <1>3, <1>4, <1>6, PutDataFacts
<1>10. n < 3 => Len(b) = 2
  BY <1>3, <1>5, <1>6, BytesFacts
<1>11. n < 3 => Len(data) = 2 * n
  BY <1>1 DEF FieldsInv, HeaderInv
<1>12. n < 3 => CheckPut(Len(b)) /\ Len(data') = 2 * n + 2
  <2> SUFFICES ASSUME n < 3 PROVE CheckPut(Len(b)) /\ Len(data') = 2 * n + 2
    OBVIOUS
  <2>1. Len(b) = 2 /\ Len(data) = 2 * n
    BY <1>10, <1>11
  <2>2. CheckPut(2) /\ 2 * n \in Int
    BY <1>4, <2>1 DEF CheckPut
  <2>3. Len(data') = Len(data) + Len(b)
    BY <1>9, <2>1, <2>2, Zenon
  <2> HIDE DEF b, n
  <2> QED BY <2>1, <2>2, <2>3
<1>13. /\ n = 1 => v = Protocol[class][1]
       /\ n = 2 => v = Protocol[class][2]
  <2>1. n = 2 => n # 1
    OBVIOUS
  <2> QED BY <1>2, <2>1, Zenon DEF ValuesToPut, n
<1> HIDE DEF w
<1>14. /\ Len(puts') = n + 1 /\ puts'[n + 1] = w
       /\ \A i \in 1 .. n : puts'[i] = puts[i]
  <2>1. puts \in Seq(PutField \cup {w}) /\ w \in PutField \cup {w}
    BY <1>4
  <2> QED BY <1>8, <2>1, AppendProperties
<1> HIDE DEF h, n, b
<1>15. HeaderInv'
  <2>1. \A i \in 1 .. n : i <= 3 => puts[i].ok
    BY DEF FieldsInv, HeaderInv, n
  <2>2. n >= 2 => puts[2].value = Protocol[class][1]
    BY DEF FieldsInv, HeaderInv, n
  <2>3. n >= 3 => puts[3].value = Protocol[class][2]
    BY DEF FieldsInv, HeaderInv, n
  <2>4. phase' = "put" /\ Len(puts') < 3 => Len(data') = 2 * Len(puts')
    BY <1>4, <1>12, <1>14
  <2>5. ASSUME NEW i \in 1 .. Len(puts'), i <= 3 PROVE puts'[i].ok
    <3>1. i \in 1 .. n \/ i = n + 1
      BY <1>4, <1>14
    <3>2. i = n + 1 => w.ok
      BY <1>4, <1>7, <1>12, <2>5
    <3> QED BY <1>14, <2>1, <2>5, <3>1, <3>2
  <2>6. Len(puts') >= 2 => puts'[2].value = Protocol[class][1]
    <3>1. n + 1 >= 2 => n >= 2 \/ n = 1
      BY <1>4
    <3>2. n >= 2 => 2 \in 1 .. n
      BY <1>4
    <3>3. n = 1 => puts'[2] = w
      BY <1>14
    <3> QED BY <1>7, <1>13, <1>14, <2>2, <3>1, <3>2, <3>3
  <2>7. Len(puts') >= 3 => puts'[3].value = Protocol[class][2]
    <3>1. n + 1 >= 3 => n >= 3 \/ n = 2
      BY <1>4
    <3>2. n >= 3 => 3 \in 1 .. n
      BY <1>4
    <3>3. n = 2 => puts'[3] = w
      BY <1>14
    <3> QED BY <1>7, <1>13, <1>14, <2>3, <3>1, <3>2, <3>3
  <2> QED BY <1>1, <2>4, <2>5, <2>6, <2>7 DEF HeaderInv
<1>16. PutTypes'
  <2>1. /\ \A i \in 1 .. n : puts[i].type = PutType(i)
        /\ \A k \in 1 .. Len(todo) : todo[k] = PutType(n + k)
    BY <1>1 DEF FieldsInv, PutTypes, n
  <2>2. PICK r \in Nat : n + Len(todo) = RowEnd(Puts[class], Row[class], r)
    BY <1>1 DEF FieldsInv, PutTypes, n
  <2>3. \A i : PutType(i)' = PutType(i)
    BY <1>1 DEF PutType
  <2>4. Len(puts') + Len(todo') = n + Len(todo)
    BY <1>3, <1>4, <1>14
  <2>5. ASSUME NEW i \in 1 .. Len(puts') PROVE puts'[i].type = PutType(i)
    <3>1. i \in 1 .. n \/ i = n + 1
      BY <1>4, <1>14
    <3>2. 1 \in 1 .. Len(todo)
      BY <1>3
    <3>3. w.type = PutType(n + 1)
      BY <1>3, <1>7, <2>1, <3>2
    <3> QED BY <1>14, <2>1, <3>1, <3>3
  <2>6. ASSUME NEW k \in 1 .. Len(todo') PROVE todo'[k] = PutType(Len(puts') + k)
    <3>1. k \in 1 .. Len(todo) - 1 /\ k + 1 \in 1 .. Len(todo) /\ n + (k + 1) = n + 1 + k
      BY <1>3, <1>4
    <3>2. todo[k + 1] = PutType(n + (k + 1))
      BY <2>1, <3>1
    <3> QED BY <1>3, <1>14, <3>1, <3>2
  <2>7. \E s \in Nat : Len(puts') + Len(todo') = RowEnd(Puts[class'], Row[class'], s)
    BY <1>1, <2>2, <2>4
  <2> QED BY <1>1, <2>3, <2>5, <2>6, <2>7 DEF PutTypes
<1>17. GetTypes'
  BY <1>1 DEF GetTypes, Reading
<1> QED BY <1>15, <1>16, <1>17 DEF FieldsInv

\* Send: nothing is left to be put, so that the header was.
LEMMA FieldsSendStep ==
  ASSUME CodecInv, FieldsInv, Send
  PROVE  FieldsInv'
<1>1. phase = "put" /\ phase' = "sent" /\ todo = <<>> /\ Len(todo) = 0
      /\ UNCHANGED <<class, todo, puts>>
  BY DEF Send
<1>2. Len(puts) \in Nat
  BY LenProperties DEF CodecInv, PutsInv
<1>3. Len(puts) >= 3
  <2>1. ~(Len(puts) < 3)
    <3>1. Len(puts) < 3 => Len(todo) >= 3 - Len(puts)
      BY <1>1 DEF CodecInv, PutsInv
    <3> QED BY <1>1, <1>2, <3>1
  <2> QED BY <1>2, <2>1
<1>4. HeaderInv'
  BY <1>1, <1>3 DEF FieldsInv, HeaderInv
<1>5. PutTypes'
  BY <1>1 DEF FieldsInv, PutTypes, PutType
<1>6. GetTypes'
  BY <1>1 DEF GetTypes, Reading
<1> QED BY <1>4, <1>5, <1>6 DEF FieldsInv

\* A step of the reader leaves what was put alone.
LEMMA PutsKept ==
  ASSUME FieldsInv, phase \in {"sent", "get"}, phase' \in {"get", "garbled", "done"},
         UNCHANGED <<class, puts, data>>
  PROVE  HeaderInv' /\ PutTypes'
BY DEF FieldsInv, HeaderInv, PutTypes, PutType

\* Arrive: the header is to be got.
LEMMA FieldsArriveStep ==
  ASSUME CodecInv, FieldsInv, NEW n, Arrive(n)
  PROVE  FieldsInv'
<1>1. phase = "sent" /\ phase' = "get" /\ todo' = Header /\ UNCHANGED <<class, puts, data, gets>>
  BY DEF Arrive
<1>2. gets = <<>> /\ Len(gets) = 0
  BY <1>1 DEF CodecInv, ReaderInv, Reading
<1>3. Len(Header) = 3 /\ \A k \in 1 .. 3 : Header[k] = "ushort" /\ 0 + k <= 3
  BY DEF Header
<1>4. \A k \in 1 .. 3 : Header[k] = GetType(0 + k)'
  BY <1>3, Zenon DEF GetType, FieldAt
<1>5. GetTypes'
  BY <1>1, <1>2, <1>3, <1>4 DEF GetTypes
<1> QED BY <1>1, <1>5, PutsKept DEF FieldsInv

\* Get: one field from what is to be got to what was got.
LEMMA FieldsGetStep ==
  ASSUME CodecInv, FieldsInv, Get
  PROVE  FieldsInv'
<1> DEFINE h == Head(todo)  n == Len(gets)  w == [type |-> h, value |-> ValueAt(h)]
<1>1. /\ phase = "get" /\ phase' = "get" /\ todo # <<>> /\ todo' = Tail(todo)
      /\ UNCHANGED <<class, puts, data>> /\ gets' = Append(gets, w)
  BY DEF Get
<1>2. /\ todo \in Seq(Type) /\ h = todo[1]
      /\ Len(todo) \in Nat /\ Len(todo) >= 1 /\ Len(todo') = Len(todo) - 1
      /\ \A j \in 1 .. Len(todo) - 1 : todo'[j] = todo[j + 1]
  <2>1. todo \in Seq(Type)
    BY DEF CodecInv, CodecTypeOK
  <2> QED BY <1>1, <2>1, HeadTailProperties, LenProperties
<1>3. w.type = h
  OBVIOUS
<1> HIDE DEF w
<1>4. PICK S : gets \in Seq(S)
  BY DEF CodecInv
<1>5. /\ n \in Nat /\ Len(gets') = n + 1 /\ gets'[n + 1] = w
      /\ \A i \in 1 .. n : gets'[i] = gets[i]
  <2>1. gets \in Seq(S \cup {w}) /\ w \in S \cup {w}
    BY <1>4
  <2> QED BY <1>1, <2>1, AppendProperties, LenProperties
<1> HIDE DEF h, n
<1>6. /\ \A i \in 1 .. n : gets[i].type = GetType(i)
      /\ \A k \in 1 .. Len(todo) : todo[k] = GetType(n + k)
      /\ \/ n + Len(todo) = 3
         \/ \E r \in Nat : n + Len(todo) = RowEnd(Gets[class], Row[class], r)
  BY <1>1 DEF FieldsInv, GetTypes, Reading, n
<1>7. \A i : GetType(i)' = GetType(i)
  BY <1>1 DEF GetType
<1>8. Len(gets') + Len(todo') = n + Len(todo)
  BY <1>2, <1>5
<1>9. ASSUME NEW i \in 1 .. Len(gets') PROVE gets'[i].type = GetType(i)
  <2>1. i \in 1 .. n \/ i = n + 1
    BY <1>5
  <2>2. 1 \in 1 .. Len(todo)
    BY <1>2
  <2>3. w.type = GetType(n + 1)
    BY <1>2, <1>3, <1>6, <2>2
  <2> QED BY <1>5, <1>6, <2>1, <2>3
<1>10. ASSUME NEW k \in 1 .. Len(todo') PROVE todo'[k] = GetType(Len(gets') + k)
  <2>1. k \in 1 .. Len(todo) - 1 /\ k + 1 \in 1 .. Len(todo) /\ n + (k + 1) = n + 1 + k
    BY <1>2, <1>5
  <2>2. todo[k + 1] = GetType(n + (k + 1))
    BY <1>6, <2>1
  <2> QED BY <1>2, <1>5, <2>1, <2>2
<1>11. \/ Len(gets') + Len(todo') = 3
       \/ \E s \in Nat : Len(gets') + Len(todo') = RowEnd(Gets[class'], Row[class'], s)
  BY <1>1, <1>6, <1>8
<1>12. GetTypes'
  BY <1>1, <1>7, <1>9, <1>10, <1>11 DEF GetTypes
<1> QED BY <1>1, <1>12, PutsKept DEF FieldsInv

\* GetGarbled and Done: the reader stops, and its fields stay.
LEMMA FieldsStopStep ==
  ASSUME CodecInv, FieldsInv, GetGarbled \/ Done
  PROVE  FieldsInv'
<1>1. /\ phase = "get" /\ phase' \in {"garbled", "done"}
      /\ UNCHANGED <<class, todo, puts, data, gets>>
      /\ phase' = "garbled" => todo # <<>>
  BY DEF GetGarbled, Done
<1>2. ASSUME phase' = "done" PROVE Len(gets') >= 3 + Len(Gets[class'])
  <2>1. todo = <<>> /\ Len(todo) = 0 /\ Len(gets) > 3 /\ Len(gets) \in Nat
    BY <1>2, LenProperties DEF GetGarbled, Done, CodecInv
  <2>2. Len(Gets[class]) \in Nat /\ Len(Row[class]) \in Nat
    BY ClassLengths DEF CodecInv, CodecTypeOK
  <2>3. PICK r \in Nat : Len(gets) + 0 = RowEnd(Gets[class], Row[class], r)
    BY <1>1, <2>1 DEF FieldsInv, GetTypes, Reading
  <2>4. ASSUME NEW l \in Nat PROVE r * l \in Nat
    OBVIOUS
  <2> DEFINE m == r * Len(Row[class])
  <2>5. m \in Nat
    BY <2>2, <2>4
  <2>6. Len(gets) + 0 = 3 + Len(Gets[class]) + m
    BY <2>3, Zenon DEF RowEnd
  <2> HIDE DEF m
  <2> QED BY <1>1, <2>1, <2>2, <2>5, <2>6
<1>3. GetTypes'
  BY <1>1, <1>2 DEF FieldsInv, GetTypes, GetType, Reading
<1> QED BY <1>1, <1>3, PutsKept DEF FieldsInv

\* GetRow: the fields of one more row are to be got.
LEMMA FieldsGetRowStep ==
  ASSUME CodecInv, FieldsInv, GetRow
  PROVE  FieldsInv'
<1>1. /\ phase = "get" /\ phase' = "get" /\ todo = <<>> /\ Len(todo) = 0 /\ Row[class] # <<>>
      /\ Len(gets) > 3 /\ todo' = Row[class] /\ UNCHANGED <<class, puts, data, gets>>
  BY DEF GetRow
<1>2. class \in Class /\ Len(gets) \in Nat /\ Len(Gets[class]) \in Nat
  BY ClassLengths, LenProperties DEF CodecInv, CodecTypeOK
<1>3. PICK r \in Nat : Len(gets) + 0 = RowEnd(Gets[class], Row[class], r)
  BY <1>1, <1>2 DEF FieldsInv, GetTypes, Reading
<1>4. Len(gets) = RowEnd(Gets[class], Row[class], r)
  BY <1>2, <1>3
<1>5. /\ \A k \in 1 .. Len(Row[class]) : Row[class][k] = FieldAt(Gets[class], Row[class], Len(gets) + k)
      /\ r + 1 \in Nat
      /\ Len(gets) + Len(Row[class]) = RowEnd(Gets[class], Row[class], r + 1)
  BY <1>1, <1>2, <1>4, RowFields
<1>6. GetTypes'
  BY <1>1, <1>5 DEF FieldsInv, GetTypes, GetType, Reading
<1> QED BY <1>1, <1>6, PutsKept DEF FieldsInv

(***************************************************************************)
(* The header names the class that was put, and no other: the dispatcher   *)
(* finds this one (DealMsg, DoMessageLogic).                               *)
(***************************************************************************)
LEMMA HeaderAgreed ==
  ASSUME CodecInv, FieldsInv, Reading, Len(gets) >= 3
  PROVE  gets[2].value = Protocol[class][1] /\ gets[3].value = Protocol[class][2]
<1>1. /\ Len(puts) \in Nat /\ Len(puts) >= 3 /\ Len(gets) \in Nat
      /\ DOMAIN gets = 1 .. Len(gets)
  BY LenProperties DEF CodecInv, PutsInv, FieldsInv, HeaderInv, Reading
<1>2. \A j \in 1 .. 3 : /\ puts[j].ok /\ puts[j].type = "ushort"
                        /\ gets[j].type = "ushort"
  <2> SUFFICES ASSUME NEW j \in 1 .. 3
               PROVE  puts[j].ok /\ puts[j].type = "ushort" /\ gets[j].type = "ushort"
    OBVIOUS
  <2>1. j \in 1 .. Len(puts) /\ j \in 1 .. Len(gets) /\ j <= 3
    BY <1>1
  <2>2. PutType(j) = "ushort" /\ GetType(j) = "ushort"
    BY <2>1, Zenon DEF PutType, GetType, FieldAt
  <2> QED BY <2>1, <2>2 DEF FieldsInv, HeaderInv, PutTypes, GetTypes
<1>3. Agreed(2) /\ Agreed(3)
  <2>1. \A j \in 1 .. 2 : j \in 1 .. 3
    OBVIOUS
  <2> QED BY <1>1, <1>2, <2>1 DEF Agreed
<1>4. gets[2].value = AsRead("ushort", puts[2].value) /\ gets[3].value = AsRead("ushort", puts[3].value)
  <2>1. 2 \in DOMAIN gets /\ 3 \in DOMAIN gets
    BY <1>1
  <2> QED BY <1>2, <1>3, <2>1 DEF CodecInv, ReadsBack
<1>5. puts[2].value = Protocol[class][1] /\ puts[3].value = Protocol[class][2]
  BY <1>1 DEF FieldsInv, HeaderInv
<1> QED BY <1>4, <1>5 DEF AsRead

\* Dispatch: the class stays, and its body is to be got.
LEMMA FieldsDispatchStep ==
  ASSUME CodecInv, FieldsInv, NEW c \in Class, Dispatch(c)
  PROVE  FieldsInv'
<1>1. /\ phase = "get" /\ phase' \in {"get", "done"} /\ Len(gets) = 3
      /\ Protocol[c] = <<gets[2].value, gets[3].value>>
      /\ class' = c /\ todo' = Gets[c] /\ UNCHANGED <<puts, data, gets>>
      /\ phase' = "done" => Gets[c] = <<>>
  BY DEF Dispatch
<1>2. class \in Class /\ Protocol[class] \in UShort \X UShort
  BY CodecAssumption DEF CodecInv, CodecTypeOK
<1>3. Protocol[class] = <<gets[2].value, gets[3].value>>
  BY <1>1, <1>2, HeaderAgreed DEF Reading
<1>4. class' = class
  BY <1>1, <1>2, <1>3, CodecAssumption
<1>5. Len(Gets[c]) \in Nat /\ Len(Row[c]) \in Nat
  BY ClassLengths
<1>6. \A k \in 1 .. Len(Gets[c]) : Gets[c][k] = FieldAt(Gets[c], Row[c], 3 + k)
  <2> SUFFICES ASSUME NEW k \in 1 .. Len(Gets[c])
               PROVE  Gets[c][k] = FieldAt(Gets[c], Row[c], 3 + k)
    OBVIOUS
  <2>1. ~(3 + k <= 3) /\ 3 + k <= 3 + Len(Gets[c]) /\ 3 + k - 3 = k
    BY <1>5
  <2>2. ASSUME NEW i, ~(i <= 3), i <= 3 + Len(Gets[c])
        PROVE  FieldAt(Gets[c], Row[c], i) = Gets[c][i - 3]
    BY <2>2, Zenon DEF FieldAt
  <2>3. FieldAt(Gets[c], Row[c], 3 + k) = Gets[c][3 + k - 3]
    BY <2>1, <2>2
  <2> QED BY <2>1, <2>3
<1>7. 3 + Len(Gets[c]) = RowEnd(Gets[c], Row[c], 0)
  <2>1. ASSUME NEW l \in Nat PROVE 0 * l = 0
    OBVIOUS
  <2>2. 0 * Len(Row[c]) = 0
    BY <1>5, <2>1
  <2>3. RowEnd(Gets[c], Row[c], 0) = 3 + Len(Gets[c]) + 0
    BY <2>2, Zenon DEF RowEnd
  <2> QED BY <1>5, <2>3
<1>8. GetTypes'
  <2>1. \A i : GetType(i)' = GetType(i)
    BY <1>4 DEF GetType
  <2>2. \A i \in 1 .. Len(gets) : gets[i].type = GetType(i)
    BY <1>1 DEF FieldsInv, GetTypes, Reading
  <2>3. \A k \in 1 .. Len(todo') : todo'[k] = GetType(Len(gets') + k)
    BY <1>1, <1>4, <1>6 DEF GetType
  <2>4. 0 \in Nat /\ Len(gets') + Len(todo') = RowEnd(Gets[class'], Row[class'], 0)
    BY <1>1, <1>7
  <2>5. phase' = "done" => Len(gets') >= 3 + Len(Gets[class'])
    <3>1. Len(gets') = 3 /\ class' = c /\ (phase' = "done" => Len(Gets[c]) = 0)
      BY <1>1
    <3> QED BY <1>5, <3>1
  <2> QED BY <1>1, <2>1, <2>2, <2>3, <2>4, <2>5 DEF GetTypes
<1> QED BY <1>1, <1>4, <1>8, PutsKept DEF FieldsInv

\* What was put and got are the fields of the class, at every step (Next).
THEOREM FieldsInvariant == Spec => []FieldsInv
<1>1. ASSUME CodecInv, FieldsInv, [Next]_vars PROVE FieldsInv'
  <2>1. ASSUME NEW c \in Class, New(c) PROVE FieldsInv'
    BY <1>1, <2>1, FieldsNewStep
  <2>2. ASSUME Put PROVE FieldsInv'
    BY <1>1, <2>2, FieldsPutStep
  <2>3. ASSUME PutRow PROVE FieldsInv'
    BY <1>1, <2>3, FieldsPutRowStep
  <2>4. ASSUME Send PROVE FieldsInv'
    BY <1>1, <2>4, FieldsSendStep
  <2>5. ASSUME NEW n \in 1 .. Len(data), Arrive(n) PROVE FieldsInv'
    BY <1>1, <2>5, FieldsArriveStep
  <2>6. ASSUME Get PROVE FieldsInv'
    BY <1>1, <2>6, FieldsGetStep
  <2>7. ASSUME GetGarbled \/ Done PROVE FieldsInv'
    BY <1>1, <2>7, FieldsStopStep
  <2>8. ASSUME GetRow PROVE FieldsInv'
    BY <1>1, <2>8, FieldsGetRowStep
  <2>9. ASSUME NEW c \in Class, Dispatch(c) PROVE FieldsInv'
    BY <1>1, <2>9, FieldsDispatchStep
  <2>10. ASSUME Drop PROVE FieldsInv'
    BY <1>1, <2>10, FieldsDropStep
  <2>11. ASSUME UNCHANGED vars PROVE FieldsInv'
    BY <1>1, <2>11
       DEF vars, FieldsInv, HeaderInv, PutTypes, GetTypes, PutType, GetType, Reading
  <2> QED BY <1>1, <2>1, <2>2, <2>3, <2>4, <2>5, <2>6, <2>7, <2>8, <2>9, <2>10, <2>11 DEF Next
<1> QED BY <1>1, FieldsInit, CodecInvariant, PTL DEF Spec

(***************************************************************************)
(* If the class gets what it puts, field i is got with the type it was put *)
(* with; the two sides agree on the fields up to the first refused.        *)
(***************************************************************************)
LEMMA FittedAgreed ==
  ASSUME CodecInv, FieldsInv, Reading, Gets[class] = Puts[class],
         NEW i \in Nat, i <= Len(gets), i <= Len(puts), Fitted(i)
  PROVE  Agreed(i)
<1>1. Len(gets) \in Nat /\ Len(puts) \in Nat
  BY LenProperties DEF CodecInv, PutsInv
<1>2. \A j \in 1 .. i : puts[j].type = PutType(j) /\ gets[j].type = GetType(j)
  <2>1. \A j \in 1 .. i : j \in 1 .. Len(gets) /\ j \in 1 .. Len(puts)
    BY <1>1
  <2> QED BY <2>1 DEF FieldsInv, PutTypes, GetTypes
<1>3. \A j : PutType(j) = GetType(j)
  BY DEF PutType, GetType
<1> QED BY <1>2, <1>3 DEF Agreed, Fitted

(***************************************************************************)
(* For any base, limit, size of a read, distinct numbers of the classes    *)
(* and values of the fields: a message is dispatched to the class that put *)
(* it; unless this is DS2C_A_GetAllRole, every field up to the first one   *)
(* refused is got as it was put, the reader of the whole message does not  *)
(* run past its end before that, and a reader that is done has left no     *)
(* field of the class behind (put and get of the classes, DealMsg).        *)
(***************************************************************************)
THEOREM ClassesReadBack == Spec => []ClassReadsBack
<1>1. ASSUME CodecInv, FieldsInv PROVE ClassReadsBack
  <2> SUFFICES ASSUME Reading PROVE ClassReadsBack
    BY DEF ClassReadsBack, Reading
  <2> DEFINE n == Len(gets)
  <2>1. /\ n \in Nat /\ Len(puts) \in Nat /\ class \in Class
        /\ DOMAIN gets = 1 .. n /\ DOMAIN puts = 1 .. Len(puts)
    BY <1>1, LenProperties DEF CodecInv, CodecTypeOK, PutsInv
  <2>2. Protocol[class] = <<puts[2].value, puts[3].value>>
    <3>1. Protocol[class] \in UShort \X UShort
      BY <2>1, CodecAssumption
    <3>2. puts[2].value = Protocol[class][1] /\ puts[3].value = Protocol[class][2]
      BY <1>1, <2>1 DEF FieldsInv, HeaderInv, Reading
    <3> QED BY <3>1, <3>2
  <2> HIDE DEF n
  <2>s. ASSUME class # "DS2C_A_GetAllRole" PROVE Gets[class] = Puts[class]
    BY <2>1, <2>s DEF Gets, Class
  <2>d. ASSUME class # "DS2C_A_GetAllRole", phase = "done"
        PROVE  n >= Len(Header \o Puts[class])
    <3>1. n >= 3 + Len(Puts[class])
      BY <1>1, <2>s, <2>d DEF FieldsInv, GetTypes, Reading, n
    <3> QED BY <2>1, <3>1, ClassTypes
  <2>3. ASSUME Gets[class] = Puts[class], NEW i \in DOMAIN gets \cap DOMAIN puts, Fitted(i)
        PROVE  /\ gets[i].type = puts[i].type
               /\ i > 1 => gets[i].value = AsRead(puts[i].type, puts[i].value)
    <3>1. i \in Nat /\ i >= 1 /\ i <= n /\ i <= Len(puts) /\ i \in 1 .. i
      BY <2>1, <2>3
    <3>2. Agreed(i)
      BY <1>1, <2>3, <3>1, FittedAgreed DEF n
    <3>3. puts[i].type = gets[i].type
      BY <3>1, <3>2 DEF Agreed
    <3> QED BY <1>1, <2>3, <3>1, <3>2, <3>3 DEF CodecInv, ReadsBack
  <2>4. ASSUME Gets[class] = Puts[class], phase = "garbled", Len(received) = Len(data),
               n < Len(puts), Fitted(n + 1)
        PROVE  FALSE
    <3>1. Fitted(n) /\ puts[n + 1].ok
      <4>1. n + 1 \in 1 .. n + 1 /\ \A j \in 1 .. n : j \in 1 .. n + 1
        BY <2>1
      <4> QED BY <2>4, <4>1 DEF Fitted
    <3>2. n <= n /\ n <= Len(puts)
      BY <2>1, <2>4
    <3>3. Agreed(n)
      BY <1>1, <2>1, <2>4, <3>1, <3>2, FittedAgreed DEF n
    <3>4. todo # <<>> /\ \A k \in 1 .. Len(todo) : todo[k] = GetType(n + k)
      BY <1>1, <2>4 DEF FieldsInv, GetTypes, Reading, n
    <3>5. 1 \in 1 .. Len(todo) /\ Head(todo) = todo[1]
      <4>1. todo \in Seq(Type)
        BY <1>1 DEF CodecInv, CodecTypeOK
      <4> QED BY <3>4, <4>1, HeadTailProperties, LenProperties
    <3>6. puts[n + 1].type = PutType(n + 1) /\ n + 1 <= Len(puts)
      <4>1. n + 1 \in 1 .. Len(puts)
        BY <2>1, <2>4
      <4> QED BY <1>1, <2>1, <4>1 DEF FieldsInv, PutTypes
    <3>7. puts[n + 1].type = Head(todo)
      BY <2>4, <3>4, <3>5, <3>6 DEF PutType, GetType
    <3>8. n + 1 - 1 = n
      BY <2>1
    <3> QED BY <1>1, <2>4, <3>1, <3>3, <3>6, <3>7, <3>8 DEF CodecInv, GarbledOnlyIfCut, n
  <2> QED BY <2>2, <2>s, <2>d, <2>3, <2>4 DEF ClassReadsBack, n
<1> QED BY <1>1, CodecInvariant, FieldsInvariant, PTL
=============================================================================
