-------------------------- MODULE LineSourceProofs --------------------------
(***************************************************************************)
(* What the source yields and what it holds, for any input, any cut of it  *)
(* into reads and any limits of lines and reads.                           *)
(*                                                                         *)
(* Reading goes over the input byte by byte and knows nothing of reads,    *)
(* buffer or codec. The first half of the module is about it: what it      *)
(* makes of the bytes of one line, and that more input does not change     *)
(* what was read. The second half is the invariant of the source, Held:    *)
(* the items yielded are those of the bytes consumed, and the buffer is    *)
(* the rest.                                                               *)
(***************************************************************************)
EXTENDS LineSource, WellFoundedInduction, TLAPS

\* The codec waits for more bytes only when no line that is within the limit
\* could be missing any: what it keeps over a read is no longer than a line.
BufferInv ==
    /\ buffer \in Seq(Byte)
    /\ frame = "read" => Len(buffer) <= MaxLine
    /\ BufferBounded

LEMMA InitBuffer == Init => BufferInv
BY LineSourceAssumption DEF Init, BufferInv, BufferBounded

\* The newline found is the first of the bytes looked at.
LEMMA NewlineFound ==
    ASSUME NEW s \in Seq(Byte), NEW n \in Nat
    PROVE  LET last == IF n < Len(s) THEN n ELSE Len(s)
               p    == NewlineIn(s, n)
           IN  /\ p \in 0 .. last /\ p \in 0 .. Len(s)
               /\ p = 0 => \A i \in 1 .. last : s[i] # Newline
               /\ p # 0 => s[p] = Newline /\ \A i \in 1 .. p - 1 : s[i] # Newline
<1> DEFINE last == IF n < Len(s) THEN n ELSE Len(s)
           found == {i \in 1 .. last : s[i] = Newline}
<1>1. NewlineIn(s, n) = IF found # {} THEN Min(found) ELSE 0
  BY DEF NewlineIn, SelectInSubSeq
<1>2. found \subseteq 1 .. Len(s) /\ found \subseteq Nat /\ last \in 0 .. Len(s)
  OBVIOUS
<1>3. ASSUME found # {} PROVE Min(found) \in found /\ \A i \in found : Min(found) <= i
  <2>1. \E i \in found : \A j \in found : i <= j
    <3>1. PICK i \in found : \A j \in found : <<j, i>> \notin OpToRel(<, Nat)
      BY ONLY <1>2, <1>3, NatLessThanWellFounded, WFMin
    <3>2. \A j \in found : ~(j < i)
      BY ONLY <1>2, <3>1 DEF OpToRel
    <3>3. QED
      BY <1>2, <3>2
  <2>2. QED
    BY <2>1 DEF Min
<1>4. CASE found = {}
  BY <1>1, <1>2, <1>4
<1>5. CASE found # {}
  <2> DEFINE p == Min(found)
  <2>1. p \in found /\ \A i \in found : p <= i
    BY <1>3, <1>5
  <2> HIDE DEF p
  <2>2. p \in 1 .. last /\ s[p] = Newline
    BY <2>1
  <2>3. \A i \in 1 .. p - 1 : s[i] # Newline
    <3>1. SUFFICES ASSUME NEW i \in 1 .. p - 1, s[i] = Newline PROVE FALSE
      OBVIOUS
    <3>2. i \in 1 .. last /\ ~(p <= i)
      BY <1>2, <2>2
    <3>3. QED
      BY <2>1, <3>1, <3>2
  <2>4. NewlineIn(s, n) = p
    BY <1>1, <1>5 DEF p
  <2>5. QED
    BY <1>2, <2>2, <2>3, <2>4
<1>6. QED
  BY <1>4, <1>5

LEMMA AfterShortens ==
    ASSUME NEW s \in Seq(Byte), NEW n \in 0 .. Len(s)
    PROVE  After(s, n) \in Seq(Byte) /\ Len(After(s, n)) <= Len(s)
BY DEF After

\* What is left to decode is a part of the buffer.
LEMMA RestShortens ==
    ASSUME buffer \in Seq(Byte) PROVE Rest \in Seq(Byte) /\ Len(Rest) <= Len(buffer)
<1>1. Len(buffer) \in Nat /\ NewlineIn(buffer, Len(buffer)) \in 0 .. Len(buffer)
  BY NewlineFound
<1>2. After(buffer, NewlineIn(buffer, Len(buffer))) \in Seq(Byte)
      /\ Len(After(buffer, NewlineIn(buffer, Len(buffer)))) <= Len(buffer)
  BY <1>1, AfterShortens
<1>3. QED
  BY <1>1, <1>2 DEF Rest

LEMMA NextBuffer == BufferInv /\ [Next]_vars => BufferInv'
<1> SUFFICES ASSUME BufferInv, [Next]_vars PROVE BufferInv'
  OBVIOUS
<1> USE LineSourceAssumption DEF BufferInv, BufferBounded
<1>1. Rest \in Seq(Byte) /\ Len(Rest) <= Len(buffer) /\ Len(buffer) \in Nat /\ Len(Rest) \in Nat
  BY RestShortens
<1>2. CASE Read
  <2>1. PICK bytes \in BoundedSeq(Byte, MaxRead) : buffer' = buffer \o bytes
    BY <1>2 DEF Read
  <2>2. bytes \in Seq(Byte) /\ Len(bytes) <= MaxRead
    <3>1. PICK n \in 0 .. MaxRead : bytes \in [1 .. n -> Byte]
      BY <2>1 DEF BoundedSeq, SeqOf
    <3>2. QED
      BY <3>1
  <2>3. QED
    BY <1>2, <2>1, <2>2 DEF Read
<1>3. CASE DecodeLine
  <2>1. LineEnd \in 0 .. Len(Rest)
    <3>1. Limit + 1 \in Nat
      BY DEF Limit
    <3>2. QED
      BY ONLY <1>1, <3>1, NewlineFound DEF LineEnd
  <2>2. After(Rest, LineEnd) \in Seq(Byte) /\ Len(After(Rest, LineEnd)) <= Len(Rest)
    BY <1>1, <2>1, AfterShortens
  <2>3. buffer' = After(Rest, LineEnd) /\ frame' # "read"
    BY <1>3 DEF DecodeLine, Decoding, Yield
  <2>4. QED
    BY <1>1, <2>2, <2>3
<1>4. CASE DecodeOversized
  <2>1. buffer' = Rest /\ frame' # "read"
    BY <1>4 DEF DecodeOversized, TooLong, Decoding, Yield
  <2>2. QED
    BY <1>1, <2>1
<1>5. CASE DecodeNone
  BY <1>1, <1>5 DEF DecodeNone, Limit
<1>6. CASE DecodeLast
  <2>1. buffer' = <<>>
    BY <1>6 DEF DecodeLast
  <2>2. QED
    BY <2>1
<1>7. CASE ReadNothing \/ ReadFails \/ Finish \/ Ended \/ UNCHANGED vars
  BY <1>7 DEF ReadNothing, ReadFails, Finish, Ended, vars
<1>8. QED
  BY <1>2, <1>3, <1>4, <1>5, <1>6, <1>7 DEF Next

\* A stream of bytes without a newline does not grow the read buffer: beyond a
\* line of the maximal length it holds at most one read, for any input.
THEOREM BoundsBuffer == Spec => []BufferBounded
<1>1. BufferInv => BufferBounded
  BY DEF BufferInv
<1>2. QED
  BY <1>1, InitBuffer, NextBuffer, PTL DEF Spec

-----------------------------------------------------------------------------
(* Recursion over the bytes of a sequence.                                 *)

\* Induction over the natural numbers, stated of a set.
LEMMA InductionOverNat ==
    ASSUME NEW S, 0 \in S, \A n \in Nat : n \in S => n + 1 \in S
    PROVE  Nat \subseteq S
<1> DEFINE Missing == Nat \ S
<1> SUFFICES ASSUME Missing # {} PROVE FALSE
  OBVIOUS
<1>1. PICK n \in Missing : \A k \in Missing : <<k, n>> \notin OpToRel(<, Nat)
  BY NatLessThanWellFounded, WFMin
<1>2. \A k \in Missing : ~(k < n)
  BY <1>1 DEF OpToRel
<1>3. n # 0 /\ n - 1 \in Nat
  OBVIOUS
<1>4. n - 1 \in S
  BY <1>2, <1>3
<1>5. QED
  BY <1>3, <1>4

\* A function may be defined by its first value and the step from one to the next.
StepsTo(f, k, S, first, step) ==
    f \in [0 .. k -> S] /\ f[0] = first /\ \A n \in 1 .. k : f[n] = step[<<f[n - 1], n>>]

LEMMA StepsExist ==
    ASSUME NEW k \in Nat, NEW S, NEW first \in S, NEW step \in [S \X (1 .. k) -> S]
    PROVE  \E f : StepsTo(f, k, S, first, step)
<1> DEFINE T == {m \in Nat : m <= k => \E f : StepsTo(f, m, S, first, step)}
<1>1. 0 \in T
  <2>1. StepsTo([n \in 0 .. 0 |-> first], 0, S, first, step)
    BY DEF StepsTo
  <2>2. QED
    BY <2>1
<1>2. ASSUME NEW m \in Nat, m \in T PROVE m + 1 \in T
  <2>1. SUFFICES ASSUME m + 1 <= k PROVE \E f : StepsTo(f, m + 1, S, first, step)
    OBVIOUS
  <2>2. PICK f : StepsTo(f, m, S, first, step)
    BY <1>2, <2>1
  <2> DEFINE g == [n \in 0 .. m + 1 |-> IF n = m + 1 THEN step[<<f[m], m + 1>>] ELSE f[n]]
  <2>3. f[m] \in S /\ <<f[m], m + 1>> \in S \X (1 .. k)
    BY <2>1, <2>2 DEF StepsTo
  <2>4. step[<<f[m], m + 1>>] \in S
    BY <2>3
  <2>5. g \in [0 .. m + 1 -> S] /\ g[0] = first
    BY <2>2, <2>4 DEF StepsTo
  <2>6. \A n \in 1 .. m + 1 : g[n] = step[<<g[n - 1], n>>]
    <3>1. SUFFICES ASSUME NEW n \in 1 .. m + 1 PROVE g[n] = step[<<g[n - 1], n>>]
      OBVIOUS
    <3>2. g[n - 1] = f[n - 1]
      OBVIOUS
    <3>3. CASE n = m + 1
      <4>1. n - 1 = m /\ g[n] = step[<<f[m], m + 1>>]
        BY <3>3
      <4>2. QED
        BY <3>2, <3>3, <4>1
    <3>4. CASE n # m + 1
      <4>1. n \in 1 .. m /\ g[n] = f[n]
        BY <3>4
      <4>2. QED
        BY <2>2, <3>2, <4>1 DEF StepsTo
    <3>5. QED
      BY <3>3, <3>4
  <2> HIDE DEF g
  <2>7. StepsTo(g, m + 1, S, first, step)
    BY <2>5, <2>6 DEF StepsTo
  <2>8. QED
    BY <2>7
<1> HIDE DEF T
<1>3. Nat \subseteq T
  BY <1>1, <1>2, InductionOverNat
<1>4. QED
  BY <1>3 DEF T

-----------------------------------------------------------------------------
(* The tokens of a line.                                                   *)

LEMMA TokensType == \A line \in Seq(Byte) : Tokens(line) \in Seq(Byte)
<1> SUFFICES ASSUME NEW line \in Seq(Byte) PROVE Tokens(line) \in Seq(Byte)
  OBVIOUS
<1> DEFINE S == Seq(Byte)
           k == Len(line)
           Add(x, n) == IF line[n] = Return THEN x ELSE Append(x, line[n])
           Kept(f) == f = [n \in 0 .. k |-> IF n = 0 THEN <<>> ELSE Add(f[n - 1], n)]
           kept == CHOOSE f : Kept(f)
           step == [a \in S \X (1 .. k) |-> Add(a[1], a[2])]
<1>1. k \in Nat /\ <<>> \in S /\ \A n \in 1 .. k : line[n] \in Byte
  OBVIOUS
<1>2. \A x \in S, n \in 1 .. k : Add(x, n) \in S
  BY <1>1
<1>3. Tokens(line) = kept[k]
  BY DEF Tokens
<1> HIDE DEF Add
<1>4. step \in [S \X (1 .. k) -> S]
  BY <1>2
<1>5. \A x \in S, n \in 1 .. k : step[<<x, n>>] = Add(x, n)
  OBVIOUS
<1> HIDE DEF step, S, k
<1>6. PICK f : StepsTo(f, k, S, <<>>, step)
  BY <1>1, <1>4, StepsExist
<1>7. \A n \in 1 .. k : f[n] = Add(f[n - 1], n)
  <2>1. SUFFICES ASSUME NEW n \in 1 .. k PROVE f[n] = Add(f[n - 1], n)
    OBVIOUS
  <2>2. f[n] = step[<<f[n - 1], n>>] /\ n - 1 \in 0 .. k /\ f[n - 1] \in S
    BY <1>1, <1>6 DEF StepsTo
  <2>3. QED
    BY <1>5, <2>2
<1>8. f = [n \in 0 .. k |-> f[n]] /\ f[0] = <<>> /\ \A n \in 0 .. k : f[n] \in S
  BY <1>6 DEF StepsTo
<1>9. Kept(f)
  <2>1. \A n \in 0 .. k : f[n] = IF n = 0 THEN <<>> ELSE Add(f[n - 1], n)
    <3>1. SUFFICES ASSUME NEW n \in 0 .. k
                   PROVE  f[n] = IF n = 0 THEN <<>> ELSE Add(f[n - 1], n)
      OBVIOUS
    <3>2. CASE n = 0
      BY <1>8, <3>2
    <3>3. CASE n # 0
      BY <1>1, <1>7, <3>3
    <3>4. QED
      BY <3>2, <3>3
  <2>2. QED
    BY <1>8, <2>1
<1>10. Kept(kept)
  <2> HIDE DEF Kept
  <2>1. QED
    BY <1>9
<1> HIDE DEF kept
<1>11. kept[0] = <<>> /\ \A n \in 1 .. k : kept[n] = Add(kept[n - 1], n)
  BY <1>1, <1>10
<1> DEFINE T == {n \in Nat : n <= k => kept[n] \in S}
<1>12. 0 \in T
  BY <1>1, <1>11
<1>13. ASSUME NEW n \in Nat, n \in T PROVE n + 1 \in T
  <2>1. SUFFICES ASSUME n + 1 <= k PROVE kept[n + 1] \in S
    OBVIOUS
  <2>2. kept[n] \in S /\ n + 1 \in 1 .. k /\ (n + 1) - 1 = n
    BY <1>1, <1>13, <2>1
  <2>3. kept[n + 1] = Add(kept[n], n + 1)
    BY <1>11, <2>2
  <2>4. QED
    BY <1>2, <2>2, <2>3
<1> HIDE DEF T
<1>14. Nat \subseteq T
  BY <1>12, <1>13, InductionOverNat
<1>15. kept[k] \in S
  BY <1>1, <1>14 DEF T
<1>16. QED
  BY <1>3, <1>15 DEF S

-----------------------------------------------------------------------------
(* The reading of an input, byte by byte.                                  *)

\* The items of the stream: an address that is not Valid makes no record.
Item == {Record(mac) : mac \in {m \in Seq(Byte) : Valid(m)}} \cup {ParseError, IoError, StreamShutdown}

Readings == [items : Seq(Item), line : Seq(Byte)]

LEMMA LineItemType == \A line \in Seq(Byte) : LineItem(line) \in Item
BY TokensType DEF LineItem, ParseLine, Item

LEMMA ScanType == \A read \in Readings, byte \in Byte : Scan(read, byte) \in Readings
<1> SUFFICES ASSUME NEW read \in Readings, NEW byte \in Byte PROVE Scan(read, byte) \in Readings
  OBVIOUS
<1>1. read.items \in Seq(Item) /\ read.line \in Seq(Byte)
  BY DEF Readings
<1>2. LineItem(read.line) \in Item /\ ParseError \in Item
  BY <1>1, LineItemType DEF Item
<1>3. Append(read.line, byte) \in Seq(Byte) /\ <<>> \in Seq(Byte)
  BY <1>1
<1>4. /\ Append(read.items, ParseError) \in Seq(Item)
      /\ Append(read.items, LineItem(read.line)) \in Seq(Item)
  BY <1>1, <1>2
<1>5. QED
  BY <1>1, <1>3, <1>4 DEF Scan, Readings

\* The readings of the first bytes, one after the other.
ReadsBy(f, bytes) ==
    /\ f \in [0 .. Len(bytes) -> Readings] /\ f[0] = Blank
    /\ \A n \in 1 .. Len(bytes) : f[n] = Scan(f[n - 1], bytes[n])

LEMMA ReadingBySteps ==
    ASSUME NEW bytes \in Seq(Byte)
    PROVE  \E f : ReadsBy(f, bytes) /\ Reading(bytes) = f[Len(bytes)]
<1> DEFINE S == Readings
           k == Len(bytes)
           ScanAt(x, n) == Scan(x, bytes[n])
           Read1(f) == f = [n \in 0 .. k |-> IF n = 0 THEN Blank ELSE ScanAt(f[n - 1], n)]
           read == CHOOSE f : Read1(f)
           step == [a \in S \X (1 .. k) |-> ScanAt(a[1], a[2])]
<1>1. k \in Nat /\ \A n \in 1 .. k : bytes[n] \in Byte
  OBVIOUS
<1>2. Blank \in S
  BY DEF Blank, Readings
<1>3. \A x \in S, n \in 1 .. k : ScanAt(x, n) \in S
  BY <1>1, ScanType
<1>4. Reading(bytes) = read[k]
  BY DEF Reading
<1> HIDE DEF ScanAt
<1>5. step \in [S \X (1 .. k) -> S]
  BY <1>3
<1>6. \A x \in S, n \in 1 .. k : step[<<x, n>>] = ScanAt(x, n)
  OBVIOUS
<1> HIDE DEF step, S, k
<1>7. PICK f : StepsTo(f, k, S, Blank, step)
  BY <1>1, <1>2, <1>5, StepsExist
<1>8. \A n \in 1 .. k : f[n] = ScanAt(f[n - 1], n)
  <2>1. SUFFICES ASSUME NEW n \in 1 .. k PROVE f[n] = ScanAt(f[n - 1], n)
    OBVIOUS
  <2>2. f[n] = step[<<f[n - 1], n>>] /\ n - 1 \in 0 .. k /\ f[n - 1] \in S
    BY <1>1, <1>7 DEF StepsTo
  <2>3. QED
    BY <1>6, <2>2
<1>9. f = [n \in 0 .. k |-> f[n]] /\ f[0] = Blank
  BY <1>7 DEF StepsTo
<1>10. Read1(f)
  <2>1. \A n \in 0 .. k : f[n] = IF n = 0 THEN Blank ELSE ScanAt(f[n - 1], n)
    <3>1. SUFFICES ASSUME NEW n \in 0 .. k
                   PROVE  f[n] = IF n = 0 THEN Blank ELSE ScanAt(f[n - 1], n)
      OBVIOUS
    <3>2. CASE n = 0
      BY <1>9, <3>2
    <3>3. CASE n # 0
      BY <1>1, <1>8, <3>3
    <3>4. QED
      BY <3>2, <3>3
  <2>2. QED
    BY <1>9, <2>1
<1>11. Read1(read)
  <2> HIDE DEF Read1
  <2>1. QED
    BY <1>10
<1> HIDE DEF read
<1>12. read[0] = Blank /\ \A n \in 1 .. k : read[n] = ScanAt(read[n - 1], n)
  BY <1>1, <1>11
<1>13. read = [n \in 0 .. k |-> read[n]]
  BY <1>11
<1> DEFINE T == {n \in Nat : n <= k => read[n] \in S}
<1>14. 0 \in T
  BY <1>1, <1>2, <1>12
<1>15. ASSUME NEW n \in Nat, n \in T PROVE n + 1 \in T
  <2>1. SUFFICES ASSUME n + 1 <= k PROVE read[n + 1] \in S
    OBVIOUS
  <2>2. read[n] \in S /\ n + 1 \in 1 .. k /\ (n + 1) - 1 = n
    BY <1>1, <1>15, <2>1
  <2>3. read[n + 1] = ScanAt(read[n], n + 1)
    BY <1>12, <2>2
  <2>4. QED
    BY <1>3, <2>2, <2>3
<1> HIDE DEF T
<1>16. Nat \subseteq T
  BY <1>14, <1>15, InductionOverNat
<1>17. \A n \in 0 .. k : read[n] \in S
  BY <1>1, <1>16 DEF T
<1>18. read \in [0 .. k -> S]
  BY <1>13, <1>17
<1>19. ReadsBy(read, bytes)
  BY <1>12, <1>18 DEF ReadsBy, S, k, ScanAt
<1>20. QED
  BY <1>4, <1>19 DEF k

\* Two readings that begin with the same bytes agree on them.
LEMMA ReadingsAgree ==
    ASSUME NEW s \in Seq(Byte), NEW t \in Seq(Byte), NEW f, NEW g, ReadsBy(f, s), ReadsBy(g, t),
           NEW k \in Nat, k <= Len(s), k <= Len(t), \A n \in 1 .. k : s[n] = t[n]
    PROVE  f[k] = g[k]
<1> DEFINE T == {n \in Nat : n <= k => f[n] = g[n]}
<1>1. 0 \in T
  BY DEF ReadsBy
<1>2. ASSUME NEW n \in Nat, n \in T PROVE n + 1 \in T
  <2>1. SUFFICES ASSUME n + 1 <= k PROVE f[n + 1] = g[n + 1]
    OBVIOUS
  <2>2. /\ f[n] = g[n] /\ (n + 1) - 1 = n /\ s[n + 1] = t[n + 1]
        /\ n + 1 \in 1 .. Len(s) /\ n + 1 \in 1 .. Len(t)
    BY <1>2, <2>1
  <2>3. f[n + 1] = Scan(f[(n + 1) - 1], s[n + 1]) /\ g[n + 1] = Scan(g[(n + 1) - 1], t[n + 1])
    BY <2>2 DEF ReadsBy
  <2>4. QED
    BY <2>2, <2>3
<1> HIDE DEF T
<1>3. Nat \subseteq T
  BY <1>1, <1>2, InductionOverNat
<1>4. QED
  BY <1>3 DEF T

LEMMA ReadingEmpty == Reading(<<>>) = Blank
<1>1. <<>> \in Seq(Byte) /\ Len(<<>>) = 0
  OBVIOUS
<1>2. PICK f : ReadsBy(f, <<>>) /\ Reading(<<>>) = f[Len(<<>>)]
  BY <1>1, ReadingBySteps
<1>3. QED
  BY <1>1, <1>2 DEF ReadsBy

LEMMA ReadingType == \A bytes \in Seq(Byte) : Reading(bytes) \in Readings
<1> SUFFICES ASSUME NEW bytes \in Seq(Byte) PROVE Reading(bytes) \in Readings
  OBVIOUS
<1>1. PICK f : ReadsBy(f, bytes) /\ Reading(bytes) = f[Len(bytes)]
  BY ReadingBySteps
<1>2. Len(bytes) \in 0 .. Len(bytes)
  OBVIOUS
<1>3. QED
  BY <1>1, <1>2 DEF ReadsBy

LEMMA ReadingAppend ==
    ASSUME NEW bytes \in Seq(Byte), NEW byte \in Byte
    PROVE  Reading(Append(bytes, byte)) = Scan(Reading(bytes), byte)
<1> DEFINE more == Append(bytes, byte)
           k == Len(bytes)
<1>1. /\ more \in Seq(Byte) /\ Len(more) = k + 1 /\ more[k + 1] = byte
      /\ \A n \in 1 .. k : more[n] = bytes[n]
      /\ k \in Nat /\ k + 1 \in 1 .. Len(more) /\ (k + 1) - 1 = k
  OBVIOUS
<1> HIDE DEF more
<1>2. PICK f : ReadsBy(f, bytes) /\ Reading(bytes) = f[k]
  BY ReadingBySteps
<1>3. PICK g : ReadsBy(g, more) /\ Reading(more) = g[k + 1]
  BY <1>1, ReadingBySteps
<1>4. f[k] = g[k]
  BY <1>1, <1>2, <1>3, ReadingsAgree
<1>5. g[k + 1] = Scan(g[(k + 1) - 1], more[k + 1])
  BY <1>1, <1>3 DEF ReadsBy
<1>6. QED
  BY <1>1, <1>2, <1>3, <1>4, <1>5 DEF more

-----------------------------------------------------------------------------
(* The reading at a position of the input.                                 *)

At(bytes, n) == Reading(SubSeq(bytes, 1, n))

NoNewline(bytes, low, high) == \A i \in low + 1 .. high : bytes[i] # Newline

LEMMA SubSeqFacts ==
    ASSUME NEW s \in Seq(Byte), NEW low \in Nat, NEW high \in Nat, low <= high, high <= Len(s)
    PROVE  LET t == SubSeq(s, low + 1, high)
           IN  /\ t \in Seq(Byte) /\ Len(t) = high - low
               /\ \A i \in 1 .. high - low : t[i] = s[low + i]
OBVIOUS

LEMMA SubSeqGrows ==
    ASSUME NEW s \in Seq(Byte), NEW low \in Nat, NEW high \in Nat, low <= high, high < Len(s)
    PROVE  SubSeq(s, low + 1, high + 1) = Append(SubSeq(s, low + 1, high), s[high + 1])
<1> DEFINE t == SubSeq(s, low + 1, high)
           u == SubSeq(s, low + 1, high + 1)
           v == Append(t, s[high + 1])
<1>1. /\ t \in Seq(Byte) /\ Len(t) = high - low
      /\ \A i \in 1 .. high - low : t[i] = s[low + i]
  BY SubSeqFacts
<1>2. /\ u \in Seq(Byte) /\ Len(u) = high + 1 - low
      /\ \A i \in 1 .. high + 1 - low : u[i] = s[low + i]
  BY SubSeqFacts
<1>3. s[high + 1] \in Byte
  OBVIOUS
<1> HIDE DEF t, u
<1>4. v \in Seq(Byte) /\ Len(v) = high - low + 1 /\ v[high - low + 1] = s[high + 1]
      /\ \A i \in 1 .. high - low : v[i] = t[i]
  BY <1>1, <1>3
<1>5. Len(u) = Len(v) /\ \A i \in 1 .. Len(u) : u[i] = v[i]
  BY <1>1, <1>2, <1>4
<1> HIDE DEF v
<1>6. u = v
  BY <1>2, <1>4, <1>5
<1>7. QED
  BY <1>6 DEF t, u, v

LEMMA AtNext ==
    ASSUME NEW bytes \in Seq(Byte), NEW n \in Nat, n < Len(bytes)
    PROVE  At(bytes, n + 1) = Scan(At(bytes, n), bytes[n + 1])
<1>1. SubSeq(bytes, 1, n + 1) = Append(SubSeq(bytes, 1, n), bytes[n + 1])
  <2>1. SubSeq(bytes, 0 + 1, n + 1) = Append(SubSeq(bytes, 0 + 1, n), bytes[n + 1])
    BY SubSeqGrows
  <2>2. 0 + 1 = 1
    OBVIOUS
  <2>3. QED
    BY <2>1, <2>2
<1>2. SubSeq(bytes, 1, n) \in Seq(Byte) /\ bytes[n + 1] \in Byte
  OBVIOUS
<1>3. QED
  BY <1>1, <1>2, ReadingAppend DEF At

LEMMA AtType ==
    ASSUME NEW bytes \in Seq(Byte), NEW n \in Nat, n <= Len(bytes)
    PROVE  At(bytes, n) \in Readings
<1>1. SubSeq(bytes, 1, n) \in Seq(Byte)
  OBVIOUS
<1>2. QED
  BY <1>1, ReadingType DEF At

LEMMA AtStart ==
    ASSUME NEW bytes \in Seq(Byte)
    PROVE  At(bytes, 0) = Blank
<1>1. SubSeq(bytes, 1, 0) = <<>>
  OBVIOUS
<1>2. QED
  BY <1>1, ReadingEmpty DEF At

LEMMA AtEnd ==
    ASSUME NEW bytes \in Seq(Byte)
    PROVE  At(bytes, Len(bytes)) = Reading(bytes)
<1>1. SubSeq(bytes, 1, Len(bytes)) = bytes
  OBVIOUS
<1>2. QED
  BY <1>1 DEF At

\* More input does not change what was read.
LEMMA AtExtended ==
    ASSUME NEW bytes \in Seq(Byte), NEW more \in Seq(Byte), NEW n \in Nat, n <= Len(bytes)
    PROVE  At(bytes \o more, n) = At(bytes, n)
<1>1. SubSeq(bytes \o more, 1, n) = SubSeq(bytes, 1, n)
  OBVIOUS
<1>2. QED
  BY <1>1 DEF At

\* A line begins after the first n bytes, and none before it stopped the reading.
LineBegins(bytes, n) ==
    At(bytes, n).line = <<>> /\ ~Contains(At(bytes, n).items, IoError)

\* Inside a line the bytes since its beginning are collected.
LEMMA WithinLine ==
    ASSUME NEW bytes \in Seq(Byte), NEW low \in Nat, NEW high \in Nat,
           low <= high, high <= Len(bytes),
           LineBegins(bytes, low), NoNewline(bytes, low, high)
    PROVE  At(bytes, high) =
             [items |-> At(bytes, low).items, line |-> SubSeq(bytes, low + 1, high)]
<1> DEFINE read(n) == [items |-> At(bytes, low).items, line |-> SubSeq(bytes, low + 1, low + n)]
           T == {n \in Nat : low + n <= high => At(bytes, low + n) = read(n)}
<1>1. At(bytes, low) \in Readings
  BY AtType
<1>2. 0 \in T
  <2>1. SubSeq(bytes, low + 1, low + 0) = <<>>
    OBVIOUS
  <2>2. At(bytes, low) = [items |-> At(bytes, low).items, line |-> At(bytes, low).line]
    BY <1>1 DEF Readings
  <2>3. low + 0 = low
    OBVIOUS
  <2>4. QED
    BY <2>1, <2>2, <2>3 DEF LineBegins
<1>3. ASSUME NEW n \in Nat, n \in T PROVE n + 1 \in T
  <2> DEFINE m == low + n
  <2>1. SUFFICES ASSUME m + 1 <= high PROVE At(bytes, m + 1) = read(n + 1)
    OBVIOUS
  <2>2. /\ m \in Nat /\ m < Len(bytes) /\ low <= m /\ m + 1 \in low + 1 .. high
        /\ low + (n + 1) = m + 1
    BY <2>1
  <2>3. At(bytes, m) = read(n)
    BY <1>3, <2>1
  <2> HIDE DEF m
  <2>4. At(bytes, m + 1) = Scan(At(bytes, m), bytes[m + 1]) /\ bytes[m + 1] # Newline
    BY <2>2, AtNext DEF NoNewline
  <2>5. /\ read(n).items = At(bytes, low).items /\ read(n).line = SubSeq(bytes, low + 1, m)
        /\ ~Contains(read(n).items, IoError)
    BY DEF LineBegins, m
  <2>6. Append(SubSeq(bytes, low + 1, m), bytes[m + 1]) = SubSeq(bytes, low + 1, m + 1)
    BY <2>2, SubSeqGrows
  <2> HIDE DEF read
  <2>7. At(bytes, m + 1) = [items |-> read(n).items, line |-> Append(read(n).line, bytes[m + 1])]
    BY <2>3, <2>4, <2>5 DEF Scan
  <2>8. QED
    BY <2>2, <2>5, <2>6, <2>7 DEF read
<1> HIDE DEF T
<1>4. Nat \subseteq T
  BY <1>2, <1>3, InductionOverNat
<1>5. high - low \in Nat /\ low + (high - low) = high
  OBVIOUS
<1>6. At(bytes, low + (high - low)) = read(high - low)
  <2> HIDE DEF read
  <2>1. QED
    BY <1>4, <1>5 DEF T
<1>7. QED
  BY <1>5, <1>6

\* Its newline makes an item of it, and begins the next.
LEMMA LineEnds ==
    ASSUME NEW bytes \in Seq(Byte), NEW low \in Nat, NEW high \in Nat,
           low <= high, high < Len(bytes),
           LineBegins(bytes, low), NoNewline(bytes, low, high), bytes[high + 1] = Newline
    PROVE  LET line == SubSeq(bytes, low + 1, high)
               item == IF high - low > MaxLine THEN ParseError ELSE LineItem(line)
           IN  /\ At(bytes, high + 1).items = Append(At(bytes, low).items, item)
               /\ At(bytes, high + 1).line = <<>>
<1> DEFINE line == SubSeq(bytes, low + 1, high)
           read == [items |-> At(bytes, low).items, line |-> line]
<1>1. At(bytes, high) = read
  BY WithinLine
<1>2. At(bytes, high + 1) = Scan(At(bytes, high), bytes[high + 1])
  BY AtNext
<1>3. Len(line) = high - low
  BY SubSeqFacts
<1> HIDE DEF line
<1>4. ~Contains(read.items, IoError) /\ read.items = At(bytes, low).items /\ read.line = line
  BY DEF LineBegins
<1> HIDE DEF read
<1>5. QED
  BY <1>1, <1>2, <1>3, <1>4 DEF Scan, line

\* An I/O error ends the reading.
LEMMA StopsReading ==
    ASSUME NEW bytes \in Seq(Byte), NEW n \in Nat, n <= Len(bytes),
           Contains(At(bytes, n).items, IoError)
    PROVE  Reading(bytes) = At(bytes, n)
<1> DEFINE T == {d \in Nat : n + d <= Len(bytes) => At(bytes, n + d) = At(bytes, n)}
<1>1. 0 \in T
  OBVIOUS
<1>2. ASSUME NEW d \in Nat, d \in T PROVE d + 1 \in T
  <2> DEFINE m == n + d
  <2>1. SUFFICES ASSUME m + 1 <= Len(bytes) PROVE At(bytes, m + 1) = At(bytes, n)
    OBVIOUS
  <2>2. m \in Nat /\ m < Len(bytes) /\ At(bytes, m) = At(bytes, n)
    BY <1>2, <2>1
  <2> HIDE DEF m
  <2>3. At(bytes, m + 1) = Scan(At(bytes, m), bytes[m + 1])
    BY <2>2, AtNext
  <2>4. QED
    BY <2>2, <2>3 DEF Scan
<1> HIDE DEF T
<1>3. Nat \subseteq T
  BY <1>1, <1>2, InductionOverNat
<1>4. Len(bytes) - n \in Nat /\ n + (Len(bytes) - n) = Len(bytes)
  OBVIOUS
<1>5. QED
  BY <1>3, <1>4, AtEnd DEF T

-----------------------------------------------------------------------------
(* What the codec holds, and what it has yielded for the rest.             *)

\* What buf holds is the input after its first k bytes, its being the items of
\* the bytes before: the line that begins after l bytes is either still whole, or
\* reported as oversized and discarded up to k.
HeldFrom(l, k, buf, disc, its, inp) ==
    /\ l <= k /\ buf = SubSeq(inp, k + 1, Len(inp))
    /\ LineBegins(inp, l) /\ NoNewline(inp, l, k)
    /\ IF disc
       THEN /\ l + MaxLine + 1 <= Len(inp) /\ NoNewline(inp, l, l + MaxLine + 1)
            /\ its = Append(At(inp, l).items, ParseError)
       ELSE k = l /\ its = At(inp, l).items

Held(buf, disc, its, inp) ==
    \E l, k \in 0 .. Len(inp) : HeldFrom(l, k, buf, disc, its, inp)

\* What the states of FramedRead have in common: until it fails or ends, the items
\* are those of the input the codec has consumed.
FrameInv ==
    /\ frame \in {"read", "decode", "eof", "failed", "ended"}
    /\ frame \in {"read", "decode", "eof"} => ~readFailed
    /\ frame \in {"read", "decode"} => Held(buffer, discarding, items, input)
    /\ frame = "eof" => \/ Held(buffer, discarding, items, input)
                        \/ buffer = <<>> /\ ~discarding /\ items = Whole(input)
    /\ frame = "failed" => items = IF readFailed THEN Append(SoFar(input), IoError)
                                   ELSE Whole(input)

SourceType ==
    /\ buffer \in Seq(Byte) /\ input \in Seq(Byte) /\ items \in Seq(Item)
    /\ discarding \in BOOLEAN /\ readFailed \in BOOLEAN

SourceInv == SourceType /\ FrameInv /\ NothingWithheld /\ EndsExactly

LEMMA OtherItems == ParseError # IoError /\ \A mac : Record(mac) # IoError
BY DEF ParseError, IoError, Other, Record

LEMMA ContainsAppended ==
    ASSUME NEW its \in Seq(Item), NEW item \in Item
    PROVE  Contains(Append(its, item), IoError) <=> Contains(its, IoError) \/ item = IoError
BY DEF Contains

LEMMA SameSequence ==
    ASSUME NEW s \in Seq(Byte), NEW t \in Seq(Byte), Len(s) = Len(t),
           \A i \in 1 .. Len(s) : s[i] = t[i]
    PROVE  s = t
OBVIOUS

\* The bytes after the first i of what follows the first k are those after k + i.
LEMMA AfterAfter ==
    ASSUME NEW s \in Seq(Byte), NEW k \in Nat, NEW i \in Nat, k + i <= Len(s)
    PROVE  After(SubSeq(s, k + 1, Len(s)), i) = SubSeq(s, (k + i) + 1, Len(s))
<1> DEFINE t == SubSeq(s, k + 1, Len(s))
           u == SubSeq(t, i + 1, Len(t))
           v == SubSeq(s, (k + i) + 1, Len(s))
<1>1. /\ t \in Seq(Byte) /\ Len(t) = Len(s) - k
      /\ \A j \in 1 .. Len(s) - k : t[j] = s[k + j]
  BY SubSeqFacts
<1>2. /\ v \in Seq(Byte) /\ Len(v) = Len(s) - (k + i)
      /\ \A j \in 1 .. Len(s) - (k + i) : v[j] = s[(k + i) + j]
  BY SubSeqFacts
<1> HIDE DEF t, v
<1>3. /\ u \in Seq(Byte) /\ Len(u) = Len(t) - i
      /\ \A j \in 1 .. Len(t) - i : u[j] = t[i + j]
  BY <1>1, SubSeqFacts
<1> HIDE DEF u
<1>4. Len(u) = Len(v)
  BY <1>1, <1>2, <1>3
<1>5. \A j \in 1 .. Len(u) : u[j] = v[j]
  <2>1. SUFFICES ASSUME NEW j \in 1 .. Len(u) PROVE u[j] = v[j]
    OBVIOUS
  <2>2. /\ j \in 1 .. Len(t) - i /\ i + j \in 1 .. Len(s) - k
        /\ j \in 1 .. Len(s) - (k + i) /\ k + (i + j) = (k + i) + j
    BY <1>1, <1>3
  <2>3. u[j] = t[i + j] /\ t[i + j] = s[k + (i + j)] /\ v[j] = s[(k + i) + j]
    BY <1>1, <1>2, <1>3, <2>2
  <2>4. QED
    BY <2>2, <2>3
<1>6. u = v
  BY <1>2, <1>3, <1>4, <1>5, SameSequence
<1>7. QED
  BY <1>6 DEF t, u, v, After

\* The first bytes of what follows the first k.
LEMMA FirstAfter ==
    ASSUME NEW s \in Seq(Byte), NEW k \in Nat, NEW i \in Nat, k + i <= Len(s)
    PROVE  SubSeq(SubSeq(s, k + 1, Len(s)), 1, i) = SubSeq(s, k + 1, k + i)
<1> DEFINE t == SubSeq(s, k + 1, Len(s))
           u == SubSeq(t, 0 + 1, i)
           v == SubSeq(s, k + 1, k + i)
<1>1. /\ t \in Seq(Byte) /\ Len(t) = Len(s) - k
      /\ \A j \in 1 .. Len(s) - k : t[j] = s[k + j]
  BY SubSeqFacts
<1>2. v \in Seq(Byte) /\ Len(v) = i /\ \A j \in 1 .. i : v[j] = s[k + j]
  <2>1. (k + i) - k = i /\ k + i \in Nat /\ k <= k + i
    OBVIOUS
  <2>2. v \in Seq(Byte) /\ Len(v) = (k + i) - k /\ \A j \in 1 .. (k + i) - k : v[j] = s[k + j]
    BY <2>1, SubSeqFacts
  <2>3. QED
    BY <2>1, <2>2
<1> HIDE DEF t, v
<1>3. u \in Seq(Byte) /\ Len(u) = i /\ \A j \in 1 .. i : u[j] = t[j]
  <2>1. u \in Seq(Byte) /\ Len(u) = i - 0 /\ \A j \in 1 .. i - 0 : u[j] = t[0 + j]
    BY <1>1, SubSeqFacts
  <2>2. QED
    BY <2>1
<1> HIDE DEF u
<1>4. \A j \in 1 .. i : u[j] = v[j]
  <2>1. SUFFICES ASSUME NEW j \in 1 .. i PROVE u[j] = v[j]
    OBVIOUS
  <2>2. j \in 1 .. Len(s) - k
    OBVIOUS
  <2>3. u[j] = t[j] /\ t[j] = s[k + j] /\ v[j] = s[k + j]
    BY <1>1, <1>2, <1>3, <2>2
  <2>4. QED
    BY <2>3
<1>5. u = v
  BY <1>2, <1>3, <1>4, SameSequence
<1>6. 0 + 1 = 1
  OBVIOUS
<1>7. QED
  BY <1>5, <1>6 DEF t, u, v

\* A reading that has not stopped goes on after a line that is no I/O error.
LEMMA BeginsAfter ==
    ASSUME NEW l \in Nat, NEW n \in Nat, l <= Len(input), n <= Len(input), input \in Seq(Byte),
           LineBegins(input, l), NEW item \in Item, item # IoError,
           At(input, n).line = <<>>, At(input, n).items = Append(At(input, l).items, item)
    PROVE  LineBegins(input, n)
<1>1. At(input, l).items \in Seq(Item)
  BY AtType DEF Readings
<1>2. QED
  BY <1>1, ContainsAppended DEF LineBegins

\* The codec's state, with what it discards discarded, describes the same input.
LEMMA HeldRest ==
    ASSUME SourceType, Held(buffer, discarding, items, input)
    PROVE  Held(Rest, Discards, items, input)
<1> DEFINE end == Len(input)
           p == NewlineIn(buffer, Len(buffer))
<1> USE LineSourceAssumption
<1>1. PICK l \in 0 .. end, k \in 0 .. end : HeldFrom(l, k, buffer, discarding, items, input)
  BY DEF Held
<1>2. /\ buffer \in Seq(Byte) /\ input \in Seq(Byte) /\ discarding \in BOOLEAN /\ end \in Nat
      /\ l \in Nat /\ k \in Nat /\ l <= end /\ k <= end /\ end <= Len(input)
  BY DEF SourceType
<1>3. /\ l <= k /\ buffer = SubSeq(input, k + 1, end)
      /\ LineBegins(input, l) /\ NoNewline(input, l, k)
  BY <1>1 DEF HeldFrom
<1>4. Len(buffer) = end - k /\ \A i \in 1 .. end - k : buffer[i] = input[k + i]
  BY <1>2, <1>3, SubSeqFacts
<1>5. CASE ~discarding
  <2>1. Rest = buffer /\ ~Discards
    BY <1>5 DEF Rest, Discards
  <2>2. HeldFrom(l, k, Rest, Discards, items, input)
    BY <1>1, <1>5, <2>1 DEF HeldFrom
  <2>3. QED
    BY <2>2 DEF Held
<1>6. CASE discarding
  <2>1. /\ l + MaxLine + 1 <= end /\ NoNewline(input, l, l + MaxLine + 1)
        /\ items = Append(At(input, l).items, ParseError)
    BY <1>1, <1>6 DEF HeldFrom
  <2>2. /\ p \in 0 .. Len(buffer)
        /\ p = 0 => \A i \in 1 .. Len(buffer) : buffer[i] # Newline
        /\ p # 0 => buffer[p] = Newline /\ \A i \in 1 .. p - 1 : buffer[i] # Newline
    <3>1. Len(buffer) \in Nat
      BY <1>2
    <3>2. QED
      BY <1>2, <3>1, NewlineFound
  <2>3. CASE p = 0
    <3>1. Rest = <<>> /\ Discards
      BY <1>6, <2>3 DEF Rest, Discards
    <3>2. NoNewline(input, l, end)
      <4>1. SUFFICES ASSUME NEW i \in l + 1 .. end PROVE input[i] # Newline
        BY DEF NoNewline
      <4>2. CASE i <= k
        BY <1>3, <4>2 DEF NoNewline
      <4>3. CASE i > k
        <5>1. i - k \in 1 .. Len(buffer) /\ k + (i - k) = i
          BY <1>4, <4>3
        <5>2. QED
          BY <1>4, <2>2, <2>3, <5>1
      <4>4. QED
        BY <4>2, <4>3
    <3>3. SubSeq(input, end + 1, end) = <<>>
      BY <1>2
    <3>4. HeldFrom(l, end, Rest, Discards, items, input)
      BY <1>3, <2>1, <3>1, <3>2, <3>3 DEF HeldFrom
    <3>5. QED
      BY <1>2, <3>4 DEF Held
  <2>4. CASE p # 0
    <3> DEFINE n == k + p
    <3>1. Rest = After(buffer, p) /\ ~Discards
      BY <1>6, <2>4 DEF Rest, Discards
    <3>2. /\ p \in Nat /\ n \in 1 .. end /\ input[n] = Newline
          /\ n - 1 \in Nat /\ l <= n - 1 /\ n - 1 < end /\ (n - 1) + 1 = n
      <4>1. p \in 1 .. end - k
        BY <1>2, <1>4, <2>2, <2>4
      <4>2. input[n] = Newline
        BY <1>4, <2>2, <2>4, <4>1
      <4> HIDE DEF end, p
      <4>3. QED
        BY <1>2, <1>3, <4>1, <4>2
    <3>3. After(buffer, p) = SubSeq(input, n + 1, end)
      <4>1. k + p <= Len(input)
        BY <1>2, <3>2
      <4>2. After(SubSeq(input, k + 1, Len(input)), p) = SubSeq(input, (k + p) + 1, Len(input))
        BY <1>2, <3>2, <4>1, AfterAfter
      <4>3. QED
        BY <1>3, <4>2
    <3>4. NoNewline(input, l, n - 1)
      <4>1. SUFFICES ASSUME NEW i \in l + 1 .. n - 1 PROVE input[i] # Newline
        BY DEF NoNewline
      <4>2. CASE i <= k
        BY <1>3, <4>2 DEF NoNewline
      <4>3. CASE i > k
        <5>1. i - k \in 1 .. p - 1 /\ i - k \in 1 .. end - k /\ k + (i - k) = i
          BY <3>2, <4>3
        <5>2. QED
          BY <1>4, <2>2, <2>4, <5>1
      <4>4. QED
        BY <4>2, <4>3
    <3>5. n > l + MaxLine + 1
      <4>1. ~(n \in l + 1 .. l + MaxLine + 1)
        BY <2>1, <3>2 DEF NoNewline
      <4>2. QED
        BY <3>2, <4>1
    <3> HIDE DEF n
    <3>6. (n - 1) - l > MaxLine
      BY <3>2, <3>5
    <3>7. At(input, n).items = Append(At(input, l).items, ParseError) /\ At(input, n).line = <<>>
      <4>1. n - 1 < Len(input) /\ input[(n - 1) + 1] = Newline
        BY <3>2
      <4> DEFINE item == IF (n - 1) - l > MaxLine THEN ParseError
                         ELSE LineItem(SubSeq(input, l + 1, n - 1))
      <4>2. /\ At(input, (n - 1) + 1).items = Append(At(input, l).items, item)
            /\ At(input, (n - 1) + 1).line = <<>>
        BY <1>2, <1>3, <3>2, <3>4, <4>1, LineEnds
      <4>3. item = ParseError
        BY <3>6
      <4> HIDE DEF item
      <4>4. QED
        BY <3>2, <4>2, <4>3
    <3>8. LineBegins(input, n)
      <4>1. ParseError \in Item /\ ParseError # IoError
        BY OtherItems DEF Item
      <4>2. l \in Nat /\ n \in Nat /\ l <= end /\ n <= end
        BY <1>2, <3>2
      <4>3. QED
        BY <1>2, <1>3, <3>7, <4>1, <4>2, BeginsAfter
    <3>9. NoNewline(input, n, n)
      BY <3>2 DEF NoNewline
    <3>10. HeldFrom(n, n, Rest, Discards, items, input)
      BY <2>1, <3>1, <3>2, <3>3, <3>7, <3>8, <3>9 DEF HeldFrom
    <3>11. QED
      BY <1>2, <3>2, <3>10 DEF Held
  <2>5. QED
    BY <2>3, <2>4
<1>7. QED
  BY <1>2, <1>5, <1>6

\* A line that is not discarded begins with what is left to decode.
LEMMA BeginsWithRest ==
    ASSUME SourceType, Held(Rest, Discards, items, input), ~Discards
    PROVE  \E l \in 0 .. Len(input) :
             /\ Rest = SubSeq(input, l + 1, Len(input)) /\ Len(Rest) = Len(input) - l
             /\ \A i \in 1 .. Len(input) - l : Rest[i] = input[l + i]
             /\ LineBegins(input, l) /\ items = At(input, l).items
<1>1. PICK l \in 0 .. Len(input), k \in 0 .. Len(input) :
        HeldFrom(l, k, Rest, Discards, items, input)
  BY DEF Held
<1>2. /\ Rest = SubSeq(input, l + 1, Len(input))
      /\ LineBegins(input, l) /\ items = At(input, l).items
  BY <1>1 DEF HeldFrom
<1>3. input \in Seq(Byte) /\ Len(input) \in Nat
  BY DEF SourceType
<1>4. Len(Rest) = Len(input) - l /\ \A i \in 1 .. Len(input) - l : Rest[i] = input[l + i]
  BY <1>2, <1>3, SubSeqFacts
<1>5. QED
  BY <1>2, <1>4

\* When no line is left to decode, the items are those known so far.
LEMMA NoneLeft ==
    ASSUME SourceType, Held(Rest, Discards, items, input), LineEnd = 0, Len(Rest) <= Limit
    PROVE  /\ items = SoFar(input)
           /\ Discards => Rest = <<>> /\ Whole(input) = items
           /\ ~Discards => Reading(input) = [items |-> items, line |-> Rest]
<1> USE LineSourceAssumption
<1> DEFINE end == Len(input)
<1>1. /\ input \in Seq(Byte) /\ items \in Seq(Item) /\ end \in Nat
      /\ Rest \in Seq(Byte) /\ Len(Rest) \in Nat
  BY RestShortens DEF SourceType
<1>2. CASE Discards
  <2>1. PICK l \in 0 .. end, k \in 0 .. end : HeldFrom(l, k, Rest, Discards, items, input)
    BY DEF Held
  <2>2. Rest = <<>>
    BY <1>2 DEF Rest
  <2>3. /\ l <= k /\ Rest = SubSeq(input, k + 1, end)
        /\ LineBegins(input, l) /\ NoNewline(input, l, k)
        /\ l + MaxLine + 1 <= end /\ items = Append(At(input, l).items, ParseError)
    BY <1>2, <2>1 DEF HeldFrom
  <2>4. k = end
    <3>1. Len(Rest) = end - k
      BY <1>1, <2>3, SubSeqFacts
    <3>2. Len(Rest) = 0
      BY <2>2
    <3>3. QED
      BY <1>1, <3>1, <3>2
  <2> DEFINE line == SubSeq(input, l + 1, end)
  <2>5. l \in Nat /\ l <= end /\ end <= Len(input)
    BY <1>1
  <2>6. Reading(input) = [items |-> At(input, l).items, line |-> line]
    BY <1>1, <2>3, <2>4, <2>5, WithinLine, AtEnd
  <2>7. Len(line) > MaxLine
    <3>1. Len(line) = end - l
      BY <1>1, <2>5, SubSeqFacts
    <3>2. QED
      BY <1>1, <2>3, <2>5, <3>1
  <2> HIDE DEF line
  <2>8. At(input, l).items \in Seq(Item)
    BY <1>1, <2>5, AtType DEF Readings
  <2>9. SoFar(input) = At(input, l).items \o <<ParseError>>
    BY <2>6, <2>7 DEF SoFar
  <2>10. Whole(input) = SoFar(input)
    BY <2>6, <2>7 DEF Whole
  <2>11. SoFar(input) = items
    <3>1. ParseError \in Item
      BY DEF Item
    <3>2. QED
      BY <2>3, <2>8, <2>9, <3>1
  <2>12. QED
    BY <1>2, <2>2, <2>10, <2>11
<1>3. CASE ~Discards
  <2>1. PICK l \in 0 .. end :
             /\ Rest = SubSeq(input, l + 1, end) /\ Len(Rest) = end - l
             /\ \A i \in 1 .. end - l : Rest[i] = input[l + i]
             /\ LineBegins(input, l) /\ items = At(input, l).items
    BY <1>3, BeginsWithRest
  <2>2. \A i \in 1 .. Len(Rest) : Rest[i] # Newline
    <3>1. Limit + 1 \in Nat /\ ~(Limit + 1 < Len(Rest))
      BY <1>1 DEF Limit
    <3>2. QED
      BY <1>1, <3>1, NewlineFound DEF LineEnd
  <2>3. NoNewline(input, l, end)
    <3>1. SUFFICES ASSUME NEW i \in l + 1 .. end PROVE input[i] # Newline
      BY DEF NoNewline
    <3>2. i - l \in 1 .. end - l /\ i - l \in 1 .. Len(Rest) /\ l + (i - l) = i
      BY <1>1, <2>1
    <3>3. QED
      BY <2>1, <2>2, <3>2
  <2>4. l \in Nat /\ l <= end /\ end <= Len(input)
    BY <1>1
  <2>5. Reading(input) = [items |-> At(input, l).items, line |-> SubSeq(input, l + 1, end)]
    BY <1>1, <2>1, <2>3, <2>4, WithinLine, AtEnd
  <2>6. Reading(input) = [items |-> items, line |-> Rest]
    BY <2>1, <2>5
  <2>7. SoFar(input) = items \o <<>>
    BY <1>1, <2>6 DEF SoFar, Limit
  <2>8. QED
    BY <1>1, <1>3, <2>6, <2>7
<1>4. QED
  BY <1>2, <1>3

-----------------------------------------------------------------------------
(* The invariant of the source. *)

LEMMA InitSource == Init => SourceInv
<1> SUFFICES ASSUME Init PROVE SourceInv
  OBVIOUS
<1> USE LineSourceAssumption
<1>1. /\ frame = "read" /\ buffer = <<>> /\ discarding = FALSE
      /\ input = <<>> /\ readFailed = FALSE /\ items = <<>>
  BY DEF Init
<1>2. SourceType
  <2>1. <<>> \in Seq(Byte) /\ <<>> \in Seq(Item)
    OBVIOUS
  <2>2. QED
    BY <1>1, <2>1, Zenon DEF SourceType
<1>3. At(<<>>, 0) = Blank
  <2>1. <<>> \in Seq(Byte)
    OBVIOUS
  <2>2. QED
    BY <2>1, AtStart
<1>4. Blank.items = <<>> /\ Blank.line = <<>>
  BY DEF Blank
<1>5. LineBegins(<<>>, 0)
  <2>1. ~Contains(<<>>, IoError)
    BY DEF Contains
  <2>2. QED
    BY <1>3, <1>4, <2>1 DEF LineBegins
<1>6. Held(buffer, discarding, items, input)
  <2>1. <<>> = SubSeq(<<>>, 0 + 1, Len(<<>>)) /\ 0 \in 0 .. Len(<<>>)
    OBVIOUS
  <2>2. NoNewline(<<>>, 0, 0)
    BY DEF NoNewline
  <2>3. HeldFrom(0, 0, <<>>, FALSE, <<>>, <<>>)
    BY <1>3, <1>4, <1>5, <2>1, <2>2 DEF HeldFrom
  <2>4. QED
    BY <1>1, <2>1, <2>3 DEF Held
<1>7. NothingWithheld
  <2>1. Len(<<>>) = 0 /\ ~(0 > MaxLine)
    OBVIOUS
  <2>2. SoFar(<<>>) = <<>> \o <<>>
    BY <1>4, <2>1, ReadingEmpty DEF SoFar
  <2>3. QED
    BY <1>1, <2>2 DEF NothingWithheld
<1>8. QED
  BY <1>1, <1>2, <1>6, <1>7 DEF SourceInv, FrameInv, EndsExactly

LEMMA NextSourceType == SourceType /\ [Next]_vars => SourceType'
<1> SUFFICES ASSUME SourceType, [Next]_vars PROVE SourceType'
  OBVIOUS
<1> USE LineSourceAssumption
<1>1. /\ buffer \in Seq(Byte) /\ input \in Seq(Byte) /\ items \in Seq(Item)
      /\ discarding \in BOOLEAN /\ readFailed \in BOOLEAN
  BY DEF SourceType
<1>2. Rest \in Seq(Byte) /\ Discards \in BOOLEAN
  BY <1>1, RestShortens DEF Discards
<1>3. LineEnd \in 0 .. Len(Rest)
  <2>1. Limit + 1 \in Nat
    BY DEF Limit
  <2>2. QED
    BY ONLY <1>2, <2>1, NewlineFound DEF LineEnd
<1>4. ParseError \in Item /\ IoError \in Item /\ StreamShutdown \in Item
  BY DEF Item
<1>5. CASE Read
  <2>1. PICK bytes \in BoundedSeq(Byte, MaxRead) :
          buffer' = buffer \o bytes /\ input' = input \o bytes
    BY <1>5 DEF Read
  <2>2. bytes \in Seq(Byte)
    <3>1. PICK n \in 0 .. MaxRead : bytes \in [1 .. n -> Byte]
      BY <2>1 DEF BoundedSeq, SeqOf
    <3>2. QED
      BY <3>1
  <2>3. buffer' \in Seq(Byte) /\ input' \in Seq(Byte)
    BY <1>1, <2>1, <2>2
  <2>4. QED
    BY <1>1, <1>5, <2>3 DEF Read, SourceType
<1>6. CASE DecodeLine
  <2> DEFINE line == SubSeq(Rest, 1, LineEnd - 1)
  <2>1. line \in Seq(Byte)
    BY <1>2, <1>3
  <2>2. After(Rest, LineEnd) \in Seq(Byte)
    BY <1>2, <1>3, AfterShortens
  <2>3. LineItem(line) \in Item
    BY <2>1, LineItemType
  <2> HIDE DEF line
  <2>4. /\ buffer' = After(Rest, LineEnd) /\ input' = input
        /\ items' = Append(items, LineItem(line)) /\ discarding' = FALSE
        /\ readFailed' = readFailed
    BY <1>6 DEF DecodeLine, Yield, line
  <2>5. items' \in Seq(Item)
    BY <1>1, <2>3, <2>4
  <2>6. QED
    BY <1>1, <2>2, <2>4, <2>5 DEF SourceType
<1>7. CASE DecodeOversized
  BY <1>1, <1>2, <1>4, <1>7 DEF DecodeOversized, Yield, SourceType
<1>8. CASE DecodeNone
  BY <1>1, <1>2, <1>8 DEF DecodeNone, SourceType
<1>9. CASE DecodeLast
  <2>1. LineItem(Rest) \in Item
    BY <1>2, LineItemType
  <2>2. /\ buffer' = <<>> /\ input' = input /\ items' = Append(items, LineItem(Rest))
        /\ discarding' = Discards /\ readFailed' = readFailed
    BY <1>9 DEF DecodeLast, Yield
  <2>3. QED
    BY <1>1, <1>2, <2>1, <2>2 DEF SourceType
<1>10. CASE ReadNothing \/ Ended \/ UNCHANGED vars
  BY <1>1, <1>10 DEF ReadNothing, Ended, vars, SourceType
<1>11. CASE ReadFails \/ Finish
  <2>1. /\ buffer' = buffer /\ discarding' = discarding /\ input' = input
        /\ readFailed' \in BOOLEAN
        /\ items' = Append(items, IoError) \/ items' = Append(items, StreamShutdown)
    BY <1>1, <1>11 DEF ReadFails, Finish
  <2>2. Append(items, IoError) \in Seq(Item) /\ Append(items, StreamShutdown) \in Seq(Item)
    BY ONLY <1>1, <1>4
  <2>3. QED
    BY <1>1, <2>1, <2>2, Zenon DEF SourceType
<1>12. QED
  BY <1>5, <1>6, <1>7, <1>8, <1>9, <1>10, <1>11 DEF Next

\* What a read brings is held after what was.
LEMMA ReadHeld ==
    ASSUME SourceType, Held(buffer, discarding, items, input), NEW bytes \in Seq(Byte)
    PROVE  Held(buffer \o bytes, discarding, items, input \o bytes)
<1> USE LineSourceAssumption
<1> DEFINE end == Len(input)
           more == input \o bytes
<1>1. PICK l \in 0 .. end, k \in 0 .. end : HeldFrom(l, k, buffer, discarding, items, input)
  BY DEF Held
<1>2. /\ input \in Seq(Byte) /\ buffer \in Seq(Byte) /\ end \in Nat
      /\ l \in Nat /\ k \in Nat /\ l <= end /\ k <= end
  BY DEF SourceType
<1>3. /\ more \in Seq(Byte) /\ Len(more) = end + Len(bytes) /\ Len(bytes) \in Nat
      /\ \A i \in 1 .. end : more[i] = input[i]
      /\ \A i \in 1 .. Len(bytes) : more[end + i] = bytes[i]
  BY <1>2
<1>4. At(more, l) = At(input, l)
  BY <1>2, AtExtended
<1> HIDE DEF more
<1>5. \A low \in Nat, high \in 0 .. end :
        NoNewline(input, low, high) => NoNewline(more, low, high)
  <2>1. SUFFICES ASSUME NEW low \in Nat, NEW high \in 0 .. end, NoNewline(input, low, high),
                        NEW i \in low + 1 .. high
                 PROVE  more[i] # Newline
    BY DEF NoNewline
  <2>2. i \in 1 .. end
    BY <1>2
  <2>3. QED
    BY <1>3, <2>1, <2>2 DEF NoNewline
<1>6. buffer \o bytes = SubSeq(more, k + 1, Len(more))
  <2> DEFINE u == buffer \o bytes
             v == SubSeq(more, k + 1, Len(more))
  <2>1. /\ Len(buffer) = end - k /\ \A i \in 1 .. end - k : buffer[i] = input[k + i]
    <3>1. buffer = SubSeq(input, k + 1, end) /\ end <= Len(input)
      BY <1>1, <1>2 DEF HeldFrom
    <3>2. QED
      BY <1>2, <3>1, SubSeqFacts
  <2>2. /\ u \in Seq(Byte) /\ Len(u) = Len(buffer) + Len(bytes)
        /\ \A i \in 1 .. Len(buffer) : u[i] = buffer[i]
        /\ \A i \in 1 .. Len(bytes) : u[Len(buffer) + i] = bytes[i]
    BY <1>2
  <2>3. /\ v \in Seq(Byte) /\ Len(v) = Len(more) - k
        /\ \A i \in 1 .. Len(more) - k : v[i] = more[k + i]
    <3>1. Len(more) \in Nat /\ k <= Len(more)
      BY <1>2, <1>3
    <3>2. QED
      BY <1>2, <1>3, <3>1, SubSeqFacts
  <2> HIDE DEF u, v, end
  <2>4. Len(u) = Len(v)
    BY <1>2, <1>3, <2>1, <2>2, <2>3
  <2>5. \A i \in 1 .. Len(u) : u[i] = v[i]
    <3>1. SUFFICES ASSUME NEW i \in 1 .. Len(u) PROVE u[i] = v[i]
      OBVIOUS
    <3>2. v[i] = more[k + i]
      BY <1>2, <1>3, <2>1, <2>2, <2>3, <2>4
    <3>3. CASE i <= end - k
      <4>1. i \in 1 .. end - k /\ i \in 1 .. Len(buffer) /\ k + i \in 1 .. end
        BY <1>2, <2>1, <3>3
      <4>2. QED
        BY <1>3, <2>1, <2>2, <3>2, <4>1
    <3>4. CASE i > end - k
      <4> DEFINE j == i - (end - k)
      <4>1. /\ j \in 1 .. Len(bytes) /\ Len(buffer) + j = i /\ end + j = k + i
        BY <1>2, <1>3, <2>1, <2>2, <3>4
      <4> HIDE DEF j
      <4>2. u[Len(buffer) + j] = bytes[j] /\ more[end + j] = bytes[j]
        BY <1>3, <2>2, <4>1
      <4>3. QED
        BY <3>2, <4>1, <4>2
    <3>5. QED
      BY <1>2, <2>2, <3>3, <3>4
  <2>6. u = v
    BY <2>2, <2>3, <2>4, <2>5, SameSequence
  <2>7. QED
    BY <2>6 DEF u, v
<1>7. HeldFrom(l, k, buffer \o bytes, discarding, items, more)
  <2>1. LineBegins(more, l)
    BY <1>1, <1>4 DEF HeldFrom, LineBegins
  <2>2. l <= k /\ NoNewline(more, l, k)
    BY <1>1, <1>2, <1>5 DEF HeldFrom
  <2>3. CASE discarding
    <3>1. /\ l + MaxLine + 1 <= end /\ NoNewline(input, l, l + MaxLine + 1)
          /\ items = Append(At(input, l).items, ParseError)
      BY <1>1, <2>3 DEF HeldFrom
    <3>2. l + MaxLine + 1 \in 0 .. end
      BY <1>2, <3>1
    <3>3. NoNewline(more, l, l + MaxLine + 1) /\ l + MaxLine + 1 <= Len(more)
      BY <1>2, <1>3, <1>5, <3>1, <3>2
    <3>4. QED
      BY <1>4, <1>6, <2>1, <2>2, <2>3, <3>1, <3>3 DEF HeldFrom
  <2>4. CASE ~discarding
    BY <1>1, <1>4, <1>6, <2>1, <2>2, <2>4 DEF HeldFrom
  <2>5. QED
    BY <2>3, <2>4
<1>8. l \in 0 .. Len(more) /\ k \in 0 .. Len(more)
  BY <1>2, <1>3
<1>9. QED
  BY <1>7, <1>8 DEF Held, more

\* The line decoded is the one the items have not reached.
LEMMA DecodesLine ==
    ASSUME SourceType, Held(Rest, Discards, items, input), LineEnd # 0,
           NEW item, item = LineItem(SubSeq(Rest, 1, LineEnd - 1))
    PROVE  /\ item = IoError => Append(items, item) = Whole(input)
           /\ item # IoError => Held(After(Rest, LineEnd), FALSE, Append(items, item), input)
<1> USE LineSourceAssumption
<1> DEFINE end == Len(input)
           p == LineEnd
<1>1. /\ input \in Seq(Byte) /\ items \in Seq(Item) /\ end \in Nat
      /\ Rest \in Seq(Byte) /\ Len(Rest) \in Nat
  BY RestShortens DEF SourceType
<1>2. /\ p \in 1 .. Len(Rest) /\ p <= MaxLine + 1
      /\ Rest[p] = Newline /\ \A i \in 1 .. p - 1 : Rest[i] # Newline
  <2>1. Limit + 1 \in Nat /\ Limit = MaxLine
    BY DEF Limit
  <2> DEFINE last == IF Limit + 1 < Len(Rest) THEN Limit + 1 ELSE Len(Rest)
  <2>2. /\ LineEnd \in 0 .. last
        /\ LineEnd # 0 => Rest[LineEnd] = Newline /\ \A i \in 1 .. LineEnd - 1 : Rest[i] # Newline
    BY ONLY <1>1, <2>1, NewlineFound DEF LineEnd
  <2>3. LineEnd \in 1 .. last /\ last <= Len(Rest) /\ last <= MaxLine + 1 /\ last \in Nat
    BY <1>1, <2>1, <2>2
  <2>4. QED
    BY <1>1, <2>2, <2>3
<1>3. ~Discards
  <2>1. SUFFICES ASSUME Discards PROVE FALSE
    OBVIOUS
  <2>2. Rest = <<>>
    BY <2>1 DEF Rest
  <2>3. QED
    BY <1>2, <2>2
<1>4. PICK l \in 0 .. end :
         /\ Rest = SubSeq(input, l + 1, end) /\ Len(Rest) = end - l
         /\ \A i \in 1 .. end - l : Rest[i] = input[l + i]
         /\ LineBegins(input, l) /\ items = At(input, l).items
  BY <1>3, BeginsWithRest
<1> DEFINE n == l + p
<1> HIDE DEF p
<1>5. /\ l \in Nat /\ l <= Len(input) /\ p \in Nat /\ n \in 1 .. end /\ n - 1 \in Nat /\ l <= n - 1
      /\ n - 1 < end /\ (n - 1) + 1 = n /\ n - 1 = l + (p - 1) /\ p - 1 \in Nat
      /\ ~((n - 1) - l > MaxLine) /\ n \in Nat /\ n <= Len(input)
  BY <1>1, <1>2, <1>4
<1>6. input[n] = Newline
  BY <1>2, <1>4, <1>5
<1>7. NoNewline(input, l, n - 1)
  <2>1. SUFFICES ASSUME NEW i \in l + 1 .. n - 1 PROVE input[i] # Newline
    BY DEF NoNewline
  <2>2. i - l \in 1 .. p - 1 /\ i - l \in 1 .. end - l /\ l + (i - l) = i
    BY <1>5
  <2>3. QED
    BY <1>2, <1>4, <2>2
<1>8. SubSeq(Rest, 1, p - 1) = SubSeq(input, l + 1, n - 1)
  <2>1. l + (p - 1) <= Len(input)
    BY <1>5
  <2>2. SubSeq(SubSeq(input, l + 1, Len(input)), 1, p - 1) = SubSeq(input, l + 1, l + (p - 1))
    BY <1>1, <1>5, <2>1, FirstAfter
  <2>3. QED
    BY <1>4, <1>5, <2>2
<1>9. After(Rest, p) = SubSeq(input, n + 1, end)
  <2>1. l + p <= Len(input)
    BY <1>5
  <2>2. After(SubSeq(input, l + 1, Len(input)), p) = SubSeq(input, (l + p) + 1, Len(input))
    BY <1>1, <1>5, <2>1, AfterAfter
  <2>3. QED
    BY <1>4, <2>2
<1>10. At(input, n).items = Append(items, item) /\ At(input, n).line = <<>>
  <2>1. n - 1 < Len(input) /\ input[(n - 1) + 1] = Newline
    BY <1>5, <1>6
  <2> DEFINE known == IF (n - 1) - l > MaxLine THEN ParseError
                      ELSE LineItem(SubSeq(input, l + 1, n - 1))
  <2>2. /\ At(input, (n - 1) + 1).items = Append(At(input, l).items, known)
        /\ At(input, (n - 1) + 1).line = <<>>
    BY <1>1, <1>4, <1>5, <1>7, <2>1, LineEnds
  <2>3. known = item
    BY <1>5, <1>8 DEF p
  <2> HIDE DEF known
  <2>4. QED
    BY <1>4, <1>5, <2>2, <2>3
<1>11. item \in Item
  <2>1. SubSeq(Rest, 1, p - 1) \in Seq(Byte)
    BY <1>1, <1>2
  <2>2. QED
    BY <2>1, LineItemType DEF p
<1> HIDE DEF n
<1>12. ASSUME item = IoError PROVE Append(items, item) = Whole(input)
  <2>1. Contains(At(input, n).items, IoError)
    BY <1>1, <1>10, <1>11, <1>12, ContainsAppended
  <2>2. Reading(input) = At(input, n)
    BY <1>1, <1>5, <2>1, StopsReading
  <2>3. Reading(input).items = Append(items, item) /\ Reading(input).line = <<>>
    BY <1>10, <2>2
  <2>4. Whole(input) = SoFar(input)
    BY <2>3 DEF Whole
  <2>5. SoFar(input) = Append(items, item) \o <<>>
    <3>1. ~(Len(<<>>) > MaxLine)
      OBVIOUS
    <3>2. QED
      BY <2>3, <3>1 DEF SoFar
  <2>6. QED
    BY <1>1, <1>11, <2>4, <2>5
<1>13. ASSUME item # IoError PROVE Held(After(Rest, p), FALSE, Append(items, item), input)
  <2>1. At(input, n).items = Append(At(input, l).items, item)
    BY <1>4, <1>10
  <2>2. LineBegins(input, n)
    BY <1>1, <1>4, <1>5, <1>10, <1>11, <1>13, <2>1, BeginsAfter
  <2>3. NoNewline(input, n, n)
    BY <1>5 DEF NoNewline
  <2>4. HeldFrom(n, n, After(Rest, p), FALSE, Append(items, item), input)
    BY <1>5, <1>9, <1>10, <2>2, <2>3 DEF HeldFrom
  <2>5. n \in 0 .. Len(input)
    BY <1>1, <1>5
  <2>6. QED
    BY <2>4, <2>5 DEF Held
<1>14. QED
  BY <1>12, <1>13 DEF p

\* An oversized line is reported at its beginning.
LEMMA ReportsOversized ==
    ASSUME SourceType, Held(Rest, Discards, items, input), LineEnd = 0, Len(Rest) > Limit
    PROVE  Held(Rest, TRUE, Append(items, ParseError), input)
<1> USE LineSourceAssumption
<1> DEFINE end == Len(input)
<1>1. /\ input \in Seq(Byte) /\ end \in Nat /\ Rest \in Seq(Byte) /\ Len(Rest) \in Nat
  BY RestShortens DEF SourceType
<1>2. Limit = MaxLine
  BY DEF Limit
<1>3. \A i \in 1 .. MaxLine + 1 : Rest[i] # Newline
  <2>1. Limit + 1 \in Nat
    BY <1>2
  <2>2. MaxLine + 1 = IF Limit + 1 < Len(Rest) THEN Limit + 1 ELSE Len(Rest)
    BY <1>1, <1>2
  <2>3. QED
    BY <1>1, <2>1, <2>2, NewlineFound DEF LineEnd
<1>4. ~Discards
  <2>1. SUFFICES ASSUME Discards PROVE FALSE
    OBVIOUS
  <2>2. Rest = <<>>
    BY <2>1 DEF Rest
  <2>3. Len(Rest) = 0
    BY <2>2
  <2>4. QED
    BY <1>2, <2>3
<1>5. PICK l \in 0 .. end :
         /\ Rest = SubSeq(input, l + 1, end) /\ Len(Rest) = end - l
         /\ \A i \in 1 .. end - l : Rest[i] = input[l + i]
         /\ LineBegins(input, l) /\ items = At(input, l).items
  BY <1>4, BeginsWithRest
<1>6. l \in Nat /\ l + MaxLine + 1 <= end
  BY <1>1, <1>2, <1>5
<1>7. NoNewline(input, l, l + MaxLine + 1)
  <2>1. SUFFICES ASSUME NEW i \in l + 1 .. l + MaxLine + 1 PROVE input[i] # Newline
    BY DEF NoNewline
  <2>2. i - l \in 1 .. MaxLine + 1 /\ i - l \in 1 .. end - l /\ l + (i - l) = i
    BY <1>1, <1>6
  <2>3. QED
    BY <1>3, <1>5, <2>2
<1>8. NoNewline(input, l, l)
  BY <1>6 DEF NoNewline
<1>9. HeldFrom(l, l, Rest, TRUE, Append(items, ParseError), input)
  BY <1>5, <1>6, <1>7, <1>8 DEF HeldFrom
<1>10. QED
  BY <1>1, <1>9 DEF Held

LEMMA NextSource == SourceInv /\ [Next]_vars => SourceInv'
<1> SUFFICES ASSUME SourceInv, [Next]_vars PROVE SourceInv'
  OBVIOUS
<1> USE LineSourceAssumption
<1>1. SourceType /\ FrameInv /\ NothingWithheld /\ EndsExactly
  BY DEF SourceInv
<1>2. SourceType'
  BY <1>1, NextSourceType
<1>3. /\ items \in Seq(Item) /\ Rest \in Seq(Byte) /\ readFailed \in BOOLEAN
      /\ Discards \in BOOLEAN /\ Len(Rest) \in Nat
  BY <1>1, RestShortens DEF SourceType, Discards
\* With the end of the input decoded there is no more to decode.
<1>4. ASSUME buffer = <<>>, ~discarding PROVE Rest = <<>> /\ ~Discards /\ LineEnd = 0
  <2>1. Rest = <<>> /\ ~Discards
    BY <1>4 DEF Rest, Discards
  <2>2. Limit + 1 \in Nat /\ Len(Rest) = 0
    BY <2>1 DEF Limit
  <2>3. LineEnd \in 0 .. 0
    BY ONLY <1>3, <2>2, NewlineFound DEF LineEnd
  <2>4. QED
    BY <2>1, <2>3
<1>5. ASSUME Decoding, LineEnd # 0 \/ Len(Rest) > Limit
      PROVE  Held(Rest, Discards, items, input)
  <2>1. Held(buffer, discarding, items, input)
    <3>1. SUFFICES ASSUME buffer = <<>> /\ ~discarding PROVE FALSE
      BY <1>1, <1>5 DEF FrameInv, Decoding
    <3>2. LineEnd = 0 /\ Len(Rest) = 0
      BY <1>4, <3>1
    <3>3. QED
      BY <1>5, <3>2 DEF Limit
  <2>2. QED
    BY <1>1, <2>1, HeldRest
<1>6. Decoding => ~readFailed
  BY <1>1 DEF FrameInv, Decoding
<1>7. CASE Read
  <2>1. PICK bytes \in BoundedSeq(Byte, MaxRead) :
          buffer' = buffer \o bytes /\ input' = input \o bytes
    BY <1>7 DEF Read
  <2>2. bytes \in Seq(Byte)
    <3>1. PICK n \in 0 .. MaxRead : bytes \in [1 .. n -> Byte]
      BY <2>1 DEF BoundedSeq, SeqOf
    <3>2. QED
      BY <3>1
  <2>3. Held(buffer \o bytes, discarding, items, input \o bytes)
    BY <1>1, <1>7, <2>2, ReadHeld DEF Read, FrameInv
  <2>4. /\ frame = "read" /\ frame' = "decode" /\ discarding' = discarding /\ items' = items
        /\ readFailed' = readFailed
    BY <1>7 DEF Read
  <2>5. QED
    BY <1>1, <1>2, <2>1, <2>3, <2>4 DEF SourceInv, FrameInv, NothingWithheld, EndsExactly
<1>8. CASE ReadNothing
  <2>1. /\ frame = "read" /\ frame' = "eof" /\ UNCHANGED <<buffer, discarding, input, readFailed, items>>
    BY <1>8 DEF ReadNothing
  <2>2. QED
    BY <1>1, <1>2, <2>1 DEF SourceInv, FrameInv, NothingWithheld, EndsExactly
<1>9. CASE ReadFails
  <2>1. /\ frame = "read" /\ frame' = "failed" /\ readFailed' /\ items' = Append(items, IoError)
        /\ input' = input
    BY <1>9 DEF ReadFails
  <2>2. items = SoFar(input)
    BY <1>1, <2>1 DEF NothingWithheld
  <2>3. items' = Append(SoFar(input'), IoError)
    BY <2>1, <2>2
  <2>4. QED
    BY <1>2, <2>1, <2>3 DEF SourceInv, FrameInv, NothingWithheld, EndsExactly
<1>10. CASE DecodeLine
  <2> DEFINE item == LineItem(SubSeq(Rest, 1, LineEnd - 1))
  <2>1. /\ Decoding /\ LineEnd # 0 /\ items' = Append(items, item)
        /\ frame' = IF item = IoError THEN "failed" ELSE frame
        /\ buffer' = After(Rest, LineEnd) /\ discarding' = FALSE
        /\ input' = input /\ readFailed' = readFailed
    BY <1>10 DEF DecodeLine, Yield
  <2>2. /\ item = IoError => Append(items, item) = Whole(input)
        /\ item # IoError => Held(After(Rest, LineEnd), FALSE, Append(items, item), input)
    BY <1>1, <1>5, <2>1, DecodesLine
  <2> HIDE DEF item
  <2>3. CASE item = IoError
    <3>1. frame' = "failed" /\ ~readFailed' /\ items' = Whole(input')
      BY <1>6, <2>1, <2>2, <2>3
    <3>2. QED
      BY <1>2, <3>1 DEF SourceInv, FrameInv, NothingWithheld, EndsExactly
  <2>4. CASE item # IoError
    <3>1. /\ frame' \in {"decode", "eof"} /\ ~readFailed'
          /\ Held(buffer', discarding', items', input')
      BY <1>6, <2>1, <2>2, <2>4 DEF Decoding
    <3>2. QED
      BY <1>2, <3>1 DEF SourceInv, FrameInv, NothingWithheld, EndsExactly
  <2>5. QED
    BY <2>3, <2>4
<1>11. CASE DecodeOversized
  <2>1. /\ Decoding /\ LineEnd = 0 /\ Len(Rest) > Limit /\ items' = Append(items, ParseError)
        /\ frame' = frame /\ buffer' = Rest /\ discarding' = TRUE
        /\ input' = input /\ readFailed' = readFailed
    BY <1>11, OtherItems DEF DecodeOversized, TooLong, Yield
  <2>2. Held(Rest, TRUE, Append(items, ParseError), input)
    BY <1>1, <1>5, <2>1, ReportsOversized
  <2>3. /\ frame' \in {"decode", "eof"} /\ ~readFailed'
        /\ Held(buffer', discarding', items', input')
    BY <1>6, <2>1, <2>2 DEF Decoding
  <2>4. QED
    BY <1>2, <2>3 DEF SourceInv, FrameInv, NothingWithheld, EndsExactly
<1>12. CASE DecodeNone
  <2>1. /\ frame = "decode" /\ LineEnd = 0 /\ Len(Rest) <= Limit /\ frame' = "read"
        /\ buffer' = Rest /\ discarding' = Discards
        /\ input' = input /\ readFailed' = readFailed /\ items' = items
    BY <1>12 DEF DecodeNone
  <2>2. Held(Rest, Discards, items, input) /\ ~readFailed
    BY <1>1, <2>1, HeldRest DEF FrameInv
  <2>3. items = SoFar(input)
    BY <1>1, <2>1, <2>2, NoneLeft
  <2>4. items' = SoFar(input') /\ ~readFailed' /\ Held(buffer', discarding', items', input')
    BY <2>1, <2>2, <2>3
  <2>5. QED
    BY <1>2, <2>1, <2>4 DEF SourceInv, FrameInv, NothingWithheld, EndsExactly
<1>13. CASE DecodeLast
  <2>1. /\ frame = "eof" /\ LineEnd = 0 /\ Len(Rest) <= Limit /\ Rest \notin {<<>>, <<Return>>}
        /\ items' = Append(items, LineItem(Rest))
        /\ frame' = IF LineItem(Rest) = IoError THEN "failed" ELSE frame
        /\ buffer' = <<>> /\ discarding' = Discards /\ input' = input /\ readFailed' = readFailed
    BY <1>13 DEF DecodeLast, LastLine, Leftover, Yield
  <2>2. ~Discards
    BY <2>1 DEF Rest
  <2>3. Held(Rest, Discards, items, input)
    <3>1. Held(buffer, discarding, items, input)
      BY <1>1, <1>4, <2>1 DEF FrameInv
    <3>2. QED
      BY <1>1, <3>1, HeldRest
  <2>4. Reading(input) = [items |-> items, line |-> Rest]
    BY <1>1, <2>1, <2>2, <2>3, NoneLeft
  <2>5. Whole(input) = Append(items, LineItem(Rest))
    BY <1>3, <2>1, <2>4 DEF Whole, Limit
  <2>6. /\ frame' \in {"eof", "failed"} /\ ~readFailed' /\ items' = Whole(input')
        /\ buffer' = <<>> /\ ~discarding'
    BY <1>6, <2>1, <2>2, <2>5 DEF Decoding
  <2>7. QED
    BY <1>2, <2>6 DEF SourceInv, FrameInv, NothingWithheld, EndsExactly
<1>14. CASE Finish
  <2>1. frame' = "ended" /\ items' = Append(items, StreamShutdown)
        /\ input' = input /\ readFailed' = readFailed
    BY <1>14 DEF Finish
  <2>2. items = IF readFailed THEN Append(SoFar(input), IoError) ELSE Whole(input)
    <3>1. CASE frame = "failed"
      BY <1>1, <3>1 DEF FrameInv
    <3>2. CASE LastLine /\ ~Leftover
      <4>1. /\ frame = "eof" /\ LineEnd = 0 /\ Len(Rest) <= Limit /\ Rest \in {<<>>, <<Return>>}
        BY <3>2 DEF LastLine, Leftover
      <4>2. ~readFailed
        BY <1>6, <4>1 DEF Decoding
      <4>3. CASE Held(buffer, discarding, items, input)
        <5>1. Held(Rest, Discards, items, input)
          BY <1>1, <4>3, HeldRest
        <5>2. /\ items = SoFar(input)
              /\ Discards => Rest = <<>> /\ Whole(input) = items
              /\ ~Discards => Reading(input) = [items |-> items, line |-> Rest]
          BY <1>1, <4>1, <5>1, NoneLeft
        <5>3. ~Discards => Whole(input) = SoFar(input)
          BY <4>1, <5>2 DEF Whole
        <5>4. QED
          BY <4>2, <5>2, <5>3
      <4>4. CASE items = Whole(input)
        BY <4>2, <4>4
      <4>5. QED
        BY <1>1, <4>1, <4>3, <4>4 DEF FrameInv
    <3>3. QED
      BY <1>14, <3>1, <3>2 DEF Finish
  <2>3. EndsExactly'
    <3> DEFINE whole == IF readFailed THEN Append(SoFar(input), IoError) ELSE Whole(input)
    <3>1. whole \o <<StreamShutdown>> = Append(items, StreamShutdown)
      <4>1. StreamShutdown \in Item /\ whole = items
        BY <2>2 DEF Item
      <4> HIDE DEF whole
      <4>2. QED
        BY <1>3, <4>1
    <3>2. items' = whole' \o <<StreamShutdown>>
      BY <2>1, <3>1
    <3>3. QED
      BY <3>2 DEF EndsExactly
  <2>4. QED
    BY <1>2, <2>1, <2>3 DEF SourceInv, FrameInv, NothingWithheld
<1>15. CASE Ended \/ UNCHANGED vars
  BY <1>1, <1>2, <1>15 DEF Ended, vars, SourceInv, FrameInv, NothingWithheld, EndsExactly
<1>16. QED
  BY <1>7, <1>8, <1>9, <1>10, <1>11, <1>12, <1>13, <1>14, <1>15 DEF Next

LEMMA SourceAlways == Spec => []SourceInv
BY InitSource, NextSource, PTL DEF Spec

-----------------------------------------------------------------------------
(* What the stream yields. *)

\* Any input, cut into reads of any size anywhere, yields the items of its lines
\* one by one and the shutdown last: no line is lost, split, repeated or joined to
\* another by the limit of a line, by what is discarded or by where a read ends,
\* and a failed read adds its error to what was known and nothing else.
THEOREM ReadsExactly == Spec => []EndsExactly
<1>1. SourceInv => EndsExactly
  BY DEF SourceInv
<1>2. QED
  BY <1>1, SourceAlways, PTL

\* Whenever the stream waits for stdin it has yielded every line it has the end of,
\* and the error of an oversized line it has the beginning of.
THEOREM WithholdsNothing == Spec => []NothingWithheld
<1>1. SourceInv => NothingWithheld
  BY DEF SourceInv
<1>2. QED
  BY <1>1, SourceAlways, PTL

\* mac_address_hex loses nothing of an address that passed validate: every element
\* of a record's address is a byte, so casting it to one leaves it as it is.
THEOREM RendersFaithfully == Spec => []MacsFaithful
<1>1. SourceInv => MacsFaithful
  <2>1. SUFFICES ASSUME SourceInv, NEW i \in DOMAIN items, items[i].kind = "Record"
                 PROVE  MacAddressHex(items[i].mac) = items[i].mac
    BY DEF MacsFaithful
  <2>2. items[i] \in Item
    BY <2>1 DEF SourceInv, SourceType
  <2>3. PICK mac \in Seq(Byte) : Valid(mac) /\ items[i] = Record(mac)
    <3>1. items[i] \notin {ParseError, IoError, StreamShutdown}
      BY <2>1 DEF ParseError, IoError, StreamShutdown, Other
    <3>2. QED
      BY <2>2, <3>1 DEF Item
  <2>4. \A j \in DOMAIN mac : mac[j] % ByteValues = mac[j]
    <3>1. SUFFICES ASSUME NEW j \in DOMAIN mac PROVE mac[j] % ByteValues = mac[j]
      OBVIOUS
    <3>2. mac[j] \in 0 .. ByteValues - 1
      BY <2>3 DEF Valid
    <3>3. QED
      BY <3>2, LineSourceAssumption
  <2>5. MacAddressHex(mac) = mac
    BY <2>3, <2>4 DEF MacAddressHex
  <2>6. items[i].mac = mac
    BY <2>3 DEF Record
  <2>7. QED
    BY <2>5, <2>6
<1>2. QED
  BY <1>1, SourceAlways, PTL
=============================================================================
