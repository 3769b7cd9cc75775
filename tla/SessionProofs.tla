--------------------------- MODULE SessionProofs ---------------------------
(***************************************************************************)
(* Proofs about Session and the layers it stands on.  Buffer: append and   *)
(* consume keep the pointers within the memory, and the bytes seen through *)
(* the buffer are a queue.  Protocol: what the functions that write values *)
(* append to a buffer, and that parse_req and print_response read back     *)
(* what was written.  Session: for every set of commands and replies,      *)
(* every size of the buffers and every way the bytes are cut into reads    *)
(* and writes.                                                             *)
(***************************************************************************)
EXTENDS Session, SequenceLemmas

-----------------------------------------------------------------------------
(* The buffer, of every size and for data of every length. *)

\* Pointers in order and within the memory make a sound buffer.
LEMMA MakeOK ==
  ASSUME NEW size \in Nat, NEW mem \in [0 .. size - 1 -> Byte],
         NEW begin \in Nat, NEW end \in Nat, NEW length \in Nat,
         begin + length = end, end <= size
  PROVE  BufferOK([mem |-> mem, buf_size |-> size, data_begin |-> begin,
                   data_end |-> end, data_length |-> length, broken |-> FALSE])
BY DEF BufferOK

\* The bytes seen through a buffer are a sequence.
LEMMA DataSeq ==
  ASSUME NEW b, BufferOK(b)
  PROVE  /\ Data(b) \in Seq(Byte) /\ Len(Data(b)) = b.data_length
         /\ \A i \in 1 .. b.data_length : Data(b)[i] = b.mem[b.data_begin + i - 1]
<1>1. \A i \in 1 .. b.data_length :
        b.data_begin + i - 1 \in 0 .. b.buf_size - 1
  BY DEF BufferOK
<1>2. \A i \in 1 .. b.data_length : b.mem[b.data_begin + i - 1] \in Byte
  BY <1>1 DEF BufferOK
<1>3. Data(b) \in [1 .. b.data_length -> Byte]
  BY <1>2 DEF Data
<1>4. b.data_length \in Nat
  BY DEF BufferOK
<1>5. Data(b) \in Seq(Byte) /\ Len(Data(b)) = b.data_length
  BY <1>3, <1>4
<1>6. \A i \in 1 .. b.data_length : Data(b)[i] = b.mem[b.data_begin + i - 1]
  BY DEF Data
<1> QED BY <1>5, <1>6

\* The same data in a memory that is large enough.
LEMMA MovedOK ==
  ASSUME NEW b, BufferOK(b), NEW size \in Nat, b.data_length <= size,
         NEW rest \in [0 .. size - 1 -> Byte],
         NEW m, m = Moved(b, size, rest)
  PROVE  /\ BufferOK(m) /\ Data(m) = Data(b)
         /\ m.data_length = b.data_length /\ m.data_end = b.data_length
         /\ m.data_begin = 0 /\ m.buf_size = size
<1> DEFINE mem == [i \in 0 .. size - 1 |->
                     IF i < b.data_length THEN b.mem[b.data_begin + i] ELSE rest[i]]
<1>1. mem \in [0 .. size - 1 -> Byte]
  <2>1. \A i \in 0 .. size - 1 :
          i < b.data_length => b.data_begin + i \in 0 .. b.buf_size - 1
    BY DEF BufferOK
  <2> QED BY <2>1 DEF BufferOK
<1>2. \A i \in 1 .. b.data_length : mem[i - 1] = b.mem[b.data_begin + i - 1]
  <2> TAKE i \in 1 .. b.data_length
  <2>1. i - 1 \in 0 .. size - 1 /\ i - 1 < b.data_length
    BY DEF BufferOK
  <2>2. b.data_begin + (i - 1) = b.data_begin + i - 1
    BY DEF BufferOK
  <2> QED BY <2>1, <2>2
<1>3. m = [b EXCEPT !.mem = mem, !.buf_size = size, !.data_begin = 0,
                    !.data_end = b.data_length]
  BY DEF Moved
<1> HIDE DEF mem
<1>4. m = [mem |-> mem, buf_size |-> size, data_begin |-> 0,
           data_end |-> b.data_length, data_length |-> b.data_length,
           broken |-> FALSE]
  BY <1>3 DEF BufferOK
<1>5. BufferOK(m)
  BY <1>1, <1>4, MakeOK DEF BufferOK
<1>6. Data(m) = Data(b)
  <2>1. Data(m) = [i \in 1 .. b.data_length |-> mem[0 + i - 1]]
    BY <1>4 DEF Data
  <2>2. \A i \in 1 .. b.data_length : mem[0 + i - 1] = mem[i - 1]
    BY DEF BufferOK
  <2> QED BY <1>2, <2>1, <2>2, ZenonT(30) DEF Data
<1> QED BY <1>4, <1>5, <1>6

\* resize by any amount keeps the data.
LEMMA ResizeOK ==
  ASSUME NEW b, BufferOK(b), NEW size \in Nat,
         NEW m, m = resize(b, size)
  PROVE  /\ BufferOK(m) /\ Data(m) = Data(b)
         /\ m.data_length = b.data_length /\ m.data_end = b.data_length
         /\ m.buf_size = b.buf_size + size
<1>1. PICK total \in Nat : total = b.buf_size + size
  BY DEF BufferOK
<1>2. b.data_length <= total
  BY <1>1 DEF BufferOK
<1>3. Fresh(total) \in [0 .. total - 1 -> Byte]
  BY JunkAssumption DEF Fresh
<1>4. m = Moved(b, total, Fresh(total))
  BY <1>1 DEF resize
<1>5. /\ BufferOK(m) /\ Data(m) = Data(b)
      /\ m.data_length = b.data_length /\ m.data_end = b.data_length
      /\ m.buf_size = total
  BY <1>2, <1>3, <1>4, MovedOK
<1> QED BY <1>1, <1>5

\* Moving the data to the beginning of the same memory keeps it.
LEMMA CompactedOK ==
  ASSUME NEW b, BufferOK(b), NEW m, m = Compacted(b)
  PROVE  /\ BufferOK(m) /\ Data(m) = Data(b)
         /\ m.data_length = b.data_length /\ m.data_end = b.data_length
         /\ m.buf_size = b.buf_size
<1>1. b.buf_size \in Nat /\ b.data_length <= b.buf_size
        /\ b.mem \in [0 .. b.buf_size - 1 -> Byte]
  BY DEF BufferOK
<1>2. m = Moved(b, b.buf_size, b.mem)
  BY DEF Compacted
<1> QED BY <1>1, <1>2, MovedOK

\* The first test of append keeps the data.
LEMMA MakeRoomOK ==
  ASSUME NEW b, BufferOK(b), NEW len \in Nat, NEW m, m = MakeRoom(b, len)
  PROVE  BufferOK(m) /\ Data(m) = Data(b) /\ m.data_length = b.data_length
<1>1. CASE len > b.buf_size
  <2>1. len + b.data_length - b.buf_size \in Nat
    BY <1>1 DEF BufferOK
  <2>2. m = resize(b, len + b.data_length - b.buf_size)
    BY <1>1 DEF MakeRoom
  <2> QED BY <2>1, <2>2, ResizeOK
<1>2. CASE ~ (len > b.buf_size) /\ b.data_begin + len > b.buf_size
  BY <1>2, CompactedOK DEF MakeRoom
<1>3. CASE ~ (len > b.buf_size) /\ ~ (b.data_begin + len > b.buf_size)
  BY <1>3 DEF MakeRoom
<1> QED BY <1>1, <1>2, <1>3

\* After the second one there is room for len bytes behind the data.
LEMMA GrowOK ==
  ASSUME NEW b, BufferOK(b), NEW len \in Nat, NEW m, m = Grow(b, len)
  PROVE  /\ BufferOK(m) /\ Data(m) = Data(b)
         /\ m.data_length = b.data_length
         /\ m.data_end + len <= m.buf_size
<1>1. CASE b.data_end + len > b.buf_size
  <2> DEFINE more == len - (b.buf_size - b.data_end)
  <2>1. more \in Nat /\ b.data_length + len <= b.buf_size + more
    BY <1>1 DEF BufferOK
  <2>2. m = resize(b, more)
    BY <1>1 DEF Grow
  <2> HIDE DEF more
  <2>3. /\ BufferOK(m) /\ Data(m) = Data(b)
        /\ m.data_length = b.data_length /\ m.data_end = b.data_length
        /\ m.buf_size = b.buf_size + more
    BY <2>1, <2>2, ResizeOK
  <2> QED BY <2>1, <2>3
<1>2. CASE ~ (b.data_end + len > b.buf_size)
  <2>1. m = b
    BY <1>2 DEF Grow
  <2>2. b.data_end + len <= b.buf_size
    BY <1>2 DEF BufferOK
  <2> QED BY <2>1, <2>2
<1> QED BY <1>1, <1>2

\* append adds its bytes behind the data, whether the memory suffices as it
\* is, has to be compacted or has to be replaced, and writes within it.
THEOREM AppendIsEnqueue ==
  ASSUME NEW b, BufferOK(b), NEW s \in Seq(Byte)
  PROVE  BufferOK(append(b, s)) /\ Data(append(b, s)) = Data(b) \o s
<1> DEFINE m == Grow(MakeRoom(b, Len(s)), Len(s))
           mem == [i \in DOMAIN m.mem |->
                     IF m.data_end <= i /\ i < m.data_end + Len(s)
                     THEN s[i - m.data_end + 1] ELSE m.mem[i]]
           a == append(b, s)
<1>1. /\ BufferOK(m) /\ Data(m) = Data(b)
      /\ m.data_end + Len(s) <= m.buf_size
  <2> DEFINE room == MakeRoom(b, Len(s))
  <2>1. Len(s) \in Nat
    OBVIOUS
  <2>2. BufferOK(room) /\ Data(room) = Data(b)
    BY <2>1, MakeRoomOK
  <2> HIDE DEF room
  <2>3. /\ BufferOK(Grow(room, Len(s))) /\ Data(Grow(room, Len(s))) = Data(room)
        /\ Grow(room, Len(s)).data_end + Len(s) <= Grow(room, Len(s)).buf_size
    BY <2>1, <2>2, GrowOK
  <2> QED BY <2>2, <2>3 DEF room
<1>2. a = [Write(m, m.data_end, s) EXCEPT
             !.data_length = @ + Len(s), !.data_end = @ + Len(s)]
  BY DEF append
<1> HIDE DEF m, a
<1>3. /\ m.mem \in [0 .. m.buf_size - 1 -> Byte]
      /\ m.buf_size \in Nat /\ m.data_begin \in Nat /\ m.data_end \in Nat
      /\ m.data_length \in Nat /\ m.broken = FALSE
      /\ m.data_begin + m.data_length = m.data_end
      /\ m.data_end <= m.buf_size
  BY <1>1 DEF BufferOK
<1>4. mem \in [0 .. m.buf_size - 1 -> Byte]
  <2>1. \A i \in 0 .. m.buf_size - 1 :
          m.data_end <= i /\ i < m.data_end + Len(s)
            => i - m.data_end + 1 \in 1 .. Len(s)
    BY <1>3, SMTT(30)
  <2>2. \A j \in 1 .. Len(s) : s[j] \in Byte
    OBVIOUS
  <2> QED BY <1>3, <2>1, <2>2
<1>5. \A i \in 1 .. m.data_length : mem[m.data_begin + i - 1] = Data(m)[i]
  <2> TAKE i \in 1 .. m.data_length
  <2>1. /\ m.data_begin + i - 1 \in DOMAIN m.mem
        /\ ~ (m.data_end <= m.data_begin + i - 1)
    BY <1>3
  <2>2. Data(m)[i] = m.mem[m.data_begin + i - 1]
    BY <1>1, DataSeq
  <2> QED BY <2>1, <2>2
<1>6. \A j \in 1 .. Len(s) : mem[m.data_end + j - 1] = s[j]
  <2> TAKE j \in 1 .. Len(s)
  <2>1. PICK k \in Int : k = m.data_end + j - 1
    BY <1>3
  <2>2. /\ k \in 0 .. m.buf_size - 1
        /\ m.data_end <= k /\ k < m.data_end + Len(s)
        /\ k - m.data_end + 1 = j
    <3>1. /\ m.data_end \in Nat /\ m.buf_size \in Nat /\ Len(s) \in Nat
          /\ m.data_end + Len(s) <= m.buf_size
      BY <1>1, <1>3
    <3> QED BY <2>1, <3>1
  <2>3. k \in DOMAIN m.mem
    BY <1>3, <2>2
  <2>4. mem[k] = s[k - m.data_end + 1]
    BY <2>2, <2>3
  <2> QED BY <2>1, <2>2, <2>4
<1>7. Write(m, m.data_end, s) = [m EXCEPT !.mem = mem]
  BY <1>1, <1>3 DEF Write
<1> HIDE DEF mem
<1>8. a = [mem |-> mem, buf_size |-> m.buf_size, data_begin |-> m.data_begin,
           data_end |-> m.data_end + Len(s),
           data_length |-> m.data_length + Len(s), broken |-> FALSE]
  BY <1>1, <1>2, <1>7 DEF BufferOK
<1>9. BufferOK(a)
  <2>1. /\ m.data_end + Len(s) \in Nat /\ m.data_length + Len(s) \in Nat
        /\ m.data_begin + (m.data_length + Len(s)) = m.data_end + Len(s)
    BY <1>3
  <2> QED BY <1>1, <1>3, <1>4, <1>8, <2>1, MakeOK
<1>10. Data(a) = Data(m) \o s
  <2>1. Data(a) = [i \in 1 .. m.data_length + Len(s) |-> mem[m.data_begin + i - 1]]
    BY <1>8 DEF Data
  <2> DEFINE d == Data(m)
  <2>2. d \in Seq(Byte) /\ Len(d) = m.data_length
    BY <1>1, DataSeq
  <2>3. \A i \in 1 .. m.data_length : mem[m.data_begin + i - 1] = d[i]
    BY <1>5
  <2> HIDE DEF d
  <2>4. d \o s = [i \in 1 .. m.data_length + Len(s) |->
                    IF i <= m.data_length THEN d[i] ELSE s[i - m.data_length]]
    <3>1. d \o s \in Seq(Byte) /\ Len(d \o s) = m.data_length + Len(s)
      BY <2>2
    <3>2. \A i \in 1 .. m.data_length + Len(s) :
            (d \o s)[i] = IF i <= m.data_length THEN d[i] ELSE s[i - m.data_length]
      BY <2>2
    <3>3. d \o s = [i \in 1 .. Len(d \o s) |-> (d \o s)[i]]
      <4> DEFINE c == d \o s
      <4>1. c \in Seq(Byte)
        BY <3>1
      <4> HIDE DEF c
      <4>2. c = [i \in 1 .. Len(c) |-> c[i]]
        BY <4>1
      <4> QED BY <4>2 DEF c
    <3> QED BY <3>1, <3>2, <3>3
  <2>5. \A i \in 1 .. m.data_length + Len(s) :
          mem[m.data_begin + i - 1]
            = IF i <= m.data_length THEN d[i] ELSE s[i - m.data_length]
    <3> TAKE i \in 1 .. m.data_length + Len(s)
    <3>1. CASE i <= m.data_length
      BY <1>3, <2>3, <3>1
    <3>2. CASE ~ (i <= m.data_length)
      <4>1. /\ i - m.data_length \in 1 .. Len(s)
            /\ m.data_end + (i - m.data_length) - 1 = m.data_begin + i - 1
        BY <1>3, <3>2
      <4> QED BY <1>6, <3>2, <4>1
    <3> QED BY <3>1, <3>2
  <2>6. Data(a) = d \o s
    BY <2>1, <2>4, <2>5
  <2> QED BY <2>6 DEF d
<1> QED BY <1>1, <1>9, <1>10 DEF a

\* consume takes as many bytes from the front of the data as it is told to.
THEOREM ConsumeIsDequeue ==
  ASSUME NEW b, BufferOK(b), NEW n \in 0 .. b.data_length
  PROVE  /\ BufferOK(consume(b, n))
         /\ Data(consume(b, n)) = SubSeq(Data(b), n + 1, b.data_length)
<1> DEFINE c == consume(b, n)
           d == Data(b)
<1>1. c = [mem |-> b.mem, buf_size |-> b.buf_size,
           data_begin |-> b.data_begin + n, data_end |-> b.data_end,
           data_length |-> b.data_length - n, broken |-> FALSE]
  <2>1. ~ (b.data_begin + n > b.buf_size)
    BY DEF BufferOK
  <2> QED BY <2>1 DEF consume, BufferOK
<1>2. d \in Seq(Byte) /\ Len(d) = b.data_length
  BY DataSeq
<1>3. \A i \in 1 .. b.data_length : d[i] = b.mem[b.data_begin + i - 1]
  BY DataSeq
<1> HIDE DEF c, d
<1>4. BufferOK(c)
  <2>1. /\ b.data_begin + n \in Nat /\ b.data_length - n \in Nat
        /\ b.data_begin + n + (b.data_length - n) = b.data_end
    BY DEF BufferOK
  <2> QED BY <1>1, <2>1, MakeOK DEF BufferOK
<1>5. Data(c) = [i \in 1 .. b.data_length - n |-> b.mem[b.data_begin + n + i - 1]]
  BY <1>1 DEF Data
<1>6. SubSeq(d, n + 1, b.data_length)
        = [i \in 1 .. b.data_length - n |-> d[i + n]]
  BY <1>2 DEF BufferOK
<1>7. \A i \in 1 .. b.data_length - n :
        b.mem[b.data_begin + n + i - 1] = d[i + n]
  <2> TAKE i \in 1 .. b.data_length - n
  <2>1. /\ i + n \in 1 .. b.data_length
        /\ b.data_begin + (i + n) - 1 = b.data_begin + n + i - 1
    BY DEF BufferOK
  <2> QED BY <1>3, <2>1
<1>8. Data(c) = SubSeq(d, n + 1, b.data_length)
  BY <1>5, <1>6, <1>7
<1> QED BY <1>4, <1>8 DEF c, d

\* A new buffer is sound and empty.
THEOREM NewIsEmpty ==
  ASSUME NEW size \in Nat
  PROVE  BufferOK(New(size)) /\ Data(New(size)) = <<>>
BY JunkAssumption DEF New, Fresh, BufferOK, Data

Digit == 0 .. Base - 1

-----------------------------------------------------------------------------
(* Numbers as digits. *)

\* Dividing by the base, and what is left over.
LEMMA DivByBase ==
  ASSUME NEW n \in Nat
  PROVE  /\ n \div Base \in Nat /\ n % Base \in Digit
         /\ (n % Base) + Base * (n \div Base) = n
<1>1. Base \in Nat /\ Base > 0
  BY ByteAssumption DEF TAG_ARR
<1> QED BY <1>1 DEF Digit

\* Shift divides by the base once more for every digit.
LEMMA ShiftStep ==
  ASSUME NEW n \in Nat
  PROVE  /\ Shift(n, 0) = n
         /\ \A k \in Nat : /\ Shift(n, k) \in Nat
                           /\ Shift(n, k + 1) = Shift(n, k) \div Base
<1> DEFINE F == [i \in Nat \ {0} |-> [x \in Nat |-> x \div Base]]
           Eq(f) == f = [i \in Nat |-> IF i = 0 THEN n ELSE f[i - 1] \div Base]
           rest == CHOOSE f : Eq(f)
<1>1. \A i \in Nat \ {0} : F[i] \in [Nat -> Nat]
  BY DivByBase
<1>2. PICK f \in [Nat -> Nat] : \A k \in Nat : IsRec(f, k, n, F)
  <2> HIDE DEF F
  <2> QED BY <1>1, RecursionNat
<1>3. ASSUME NEW i \in Nat PROVE f[i] = IF i = 0 THEN n ELSE f[i - 1] \div Base
  <2>1. CASE i = 0
    BY <1>2, <2>1 DEF IsRec
  <2>2. CASE i # 0
    <3>1. i \in 1 .. i /\ i - 1 \in Nat
      BY <2>2
    <3>2. f[i] = F[i][f[i - 1]]
      BY <1>2, <3>1 DEF IsRec
    <3>3. f[i - 1] \in Nat
      BY <3>1
    <3> QED BY <2>2, <3>2, <3>3
  <2> QED BY <2>1, <2>2
<1>4. Eq(f)
  <2>1. f = [i \in Nat |-> f[i]]
    OBVIOUS
  <2> QED BY <1>3, <2>1, Zenon
<1>5. Eq(rest)
  BY <1>4, Zenon
<1>6. \A k : Shift(n, k) = rest[k]
  BY Zenon DEF Shift
<1> HIDE DEF rest
<1>7. \A i \in Nat : rest[i] = IF i = 0 THEN n ELSE rest[i - 1] \div Base
  BY <1>5
<1>8. rest[0] = n
  BY <1>7
<1>9. ASSUME NEW k \in Nat PROVE rest[k + 1] = rest[k] \div Base
  <2>1. k + 1 \in Nat /\ k + 1 # 0 /\ k + 1 - 1 = k
    OBVIOUS
  <2> QED BY <1>7, <2>1
<1>10. ASSUME NEW k \in Nat PROVE rest[k] \in Nat
  <2> DEFINE P == {i \in Nat : rest[i] \in Nat}
  <2>1. 0 \in P
    BY <1>8
  <2>2. ASSUME NEW i \in 1 .. k, i - 1 \in P PROVE i \in P
    <3>1. i - 1 \in Nat /\ rest[i - 1] \in Nat /\ rest[i] = rest[i - 1] \div Base
      BY <1>7, <2>2
    <3> QED BY <3>1, DivByBase
  <2> HIDE DEF P
  <2>3. \A i \in 0 .. k : i \in P
    BY <2>1, <2>2, UpToInduction
  <2> QED BY <2>3 DEF P
<1> QED BY <1>6, <1>8, <1>9, <1>10

\* A smaller number has no more digits.
LEMMA ShiftFits ==
  ASSUME NEW n \in Nat, n <= MAX_MSG + W
  PROVE  Shift(n, W) = 0
<1> DEFINE m == MAX_MSG + W
           P == {k \in Nat : Shift(n, k) <= Shift(m, k)}
<1>1. m \in Nat /\ W \in Nat
  BY ByteAssumption
<1> HIDE DEF m
<1>2. 0 \in P
  <2>1. n <= m
    BY DEF m
  <2> QED BY <1>1, <2>1, ShiftStep
<1>3. ASSUME NEW k \in 1 .. W, k - 1 \in P PROVE k \in P
  <2>1. k - 1 \in Nat /\ k - 1 + 1 = k
    BY <1>1
  <2> DEFINE x == Shift(n, k - 1)
             y == Shift(m, k - 1)
  <2>2. x \in Nat /\ y \in Nat /\ x <= y
    BY <1>1, <1>3, <2>1, ShiftStep
  <2>3. Shift(n, k) = x \div Base /\ Shift(m, k) = y \div Base
    BY <1>1, <2>1, ShiftStep, ZenonT(30)
  <2> HIDE DEF x, y
  <2>4. x \div Base <= y \div Base
    <3> DEFINE q == x \div Base
               r == y \div Base
    <3>1. /\ q \in Nat /\ r \in Nat /\ x % Base \in Digit /\ y % Base \in Digit
          /\ (x % Base) + Base * q = x /\ (y % Base) + Base * r = y
      BY <2>2, DivByBase
    <3> HIDE DEF q, r
    <3>2. Base \in Nat /\ Base > 0
      BY ByteAssumption DEF TAG_ARR
    <3>3. ASSUME q > r PROVE FALSE
      <4>1. PICK e \in Nat : q = r + 1 + e
        <5>1. q - r - 1 \in Nat /\ q = r + 1 + (q - r - 1)
          BY <3>1, <3>3
        <5> QED BY <5>1
      <4>2. Base * q = Base * r + Base + Base * e
        BY <3>1, <3>2, <4>1
      <4>3. Base * e \in Nat /\ Base * r \in Nat
        BY <3>1, <3>2
      <4> QED BY <2>2, <3>1, <3>2, <4>2, <4>3 DEF Digit
    <3>4. q <= r
      BY <3>1, <3>3
    <3> QED BY <3>4 DEF q, r
  <2> QED BY <1>1, <2>3, <2>4
<1> HIDE DEF P
<1>4. W \in P
  BY <1>1, <1>2, <1>3, UpToInduction
<1>5. Shift(n, W) <= 0 /\ Shift(n, W) \in Nat
  BY <1>1, <1>4, ShiftStep, LengthAssumption DEF P, m
<1> QED BY <1>5

\* The digits of a number are bytes.
LEMMA DigitsSeq ==
  ASSUME NEW n \in Nat, NEW width \in Nat
  PROVE  /\ Digits(n, width) \in Seq(Digit) /\ Len(Digits(n, width)) = width
         /\ \A i \in 1 .. width : Digits(n, width)[i] = Shift(n, i - 1) % Base
<1>1. \A i \in 1 .. width : Shift(n, i - 1) % Base \in Digit
  <2> TAKE i \in 1 .. width
  <2>1. i - 1 \in Nat
    OBVIOUS
  <2>2. Shift(n, i - 1) \in Nat
    BY <2>1, ShiftStep
  <2> QED BY <2>2, DivByBase
<1>2. Digits(n, width) \in [1 .. width -> Digit]
  BY <1>1, Zenon DEF Digits
<1>3. Digits(n, width) \in Seq(Digit) /\ Len(Digits(n, width)) = width
  BY <1>2
<1> QED BY <1>3 DEF Digits

\* Digits are bytes.
LEMMA DigitIsByte ==
  /\ Digit \subseteq Byte /\ Seq(Digit) \subseteq Seq(Byte)
<1>1. Digit \subseteq Byte
  BY ByteAssumption DEF Digit
<1> QED BY <1>1

\* A length is W bytes.
LEMMA LengthSeq ==
  ASSUME NEW n \in Nat
  PROVE  u32(n) \in Seq(Digit) /\ u32(n) \in Seq(Byte) /\ Len(u32(n)) = W
<1>1. W \in Nat
  BY ByteAssumption
<1> QED BY <1>1, DigitsSeq, DigitIsByte DEF u32

\* Number reads the digits from the highest down.
LEMMA NumberBySteps ==
  ASSUME NEW s \in Seq(Digit)
  PROVE  \E h \in [0 .. Len(s) -> Nat] :
           /\ h[0] = 0 /\ Number(s) = h[Len(s)]
           /\ \A k \in 1 .. Len(s) : h[k] = s[Len(s) - k + 1] + Base * h[k - 1]
<1> DEFINE n == Len(s)
           F == [k \in 1 .. n |-> [x \in Nat |-> s[n - k + 1] + Base * x]]
           Eq(h) == h = [k \in 0 .. Len(s) |->
                           IF k = 0 THEN 0 ELSE s[Len(s) - k + 1] + Base * h[k - 1]]
           high == CHOOSE h : Eq(h)
<1>1. n \in Nat /\ Base \in Nat
  BY ByteAssumption
<1>2. ASSUME NEW k \in 1 .. n PROVE s[n - k + 1] \in Nat
  <2>1. n - k + 1 \in 1 .. Len(s)
    BY <1>1
  <2> QED BY <1>1, <2>1 DEF Digit
<1>3. \A k \in 1 .. n : F[k] \in [Nat -> Nat]
  <2> TAKE k \in 1 .. n
  <2>1. \A x \in Nat : s[n - k + 1] + Base * x \in Nat
    BY <1>1, <1>2
  <2> QED BY <2>1
<1>4. \A k \in 1 .. n : \A x \in Nat : F[k][x] = s[n - k + 1] + Base * x
  OBVIOUS
<1>5. PICK f \in [0 .. n -> Nat] : IsRec(f, n, 0, F)
  <2> HIDE DEF F
  <2> QED BY <1>1, <1>3, RecursionUpTo
<1> HIDE DEF F
<1>6. ASSUME NEW k \in 0 .. n
      PROVE  f[k] = IF k = 0 THEN 0 ELSE s[n - k + 1] + Base * f[k - 1]
  <2>1. CASE k = 0
    BY <1>5, <2>1 DEF IsRec
  <2>2. CASE k # 0
    <3>1. k \in 1 .. n /\ k - 1 \in 0 .. n
      BY <1>1, <2>2
    <3> QED BY <1>4, <1>5, <2>2, <3>1 DEF IsRec
  <2> QED BY <2>1, <2>2
<1>7. Eq(f)
  <2>1. f = [k \in 0 .. n |-> f[k]]
    OBVIOUS
  <2> QED BY <1>6, <2>1, Zenon
<1>8. Eq(high)
  BY <1>7, Zenon
<1>9. Number(s) = high[n]
  BY Zenon DEF Number
<1> HIDE DEF high
<1>10. \A k \in 0 .. n : high[k] = IF k = 0 THEN 0 ELSE s[n - k + 1] + Base * high[k - 1]
  BY <1>8
<1>11. high[0] = 0 /\ \A k \in 1 .. n : high[k] = s[n - k + 1] + Base * high[k - 1]
  <2>1. 0 \in 0 .. n /\ \A k \in 1 .. n : k \in 0 .. n /\ k # 0
    BY <1>1
  <2> QED BY <1>10, <2>1
<1>12. high \in [0 .. n -> Nat]
  <2> DEFINE P == {k \in 0 .. n : high[k] \in Nat}
  <2>1. 0 \in P
    BY <1>1, <1>11
  <2>2. ASSUME NEW k \in 1 .. n, k - 1 \in P PROVE k \in P
    <3>1. high[k - 1] \in Nat /\ s[n - k + 1] \in Nat /\ k \in 0 .. n
      BY <1>1, <1>2, <2>2
    <3>2. \A a, x \in Nat : a + Base * x \in Nat
      BY <1>1
    <3>3. high[k] \in Nat
      BY <1>11, <3>1, <3>2, Zenon
    <3> QED BY <3>1, <3>3
  <2> HIDE DEF P
  <2>3. \A k \in 0 .. n : k \in P
    BY <1>1, <2>1, <2>2, UpToInduction
  <2>4. \A k \in 0 .. n : high[k] \in Nat
    BY <2>3 DEF P
  <2>5. high = [k \in 0 .. n |-> high[k]]
    BY <1>8
  <2> QED BY <2>4, <2>5
<1> QED BY <1>9, <1>11, <1>12

\* A number that fits is read back as it was written.
THEOREM NumberRoundTrip ==
  ASSUME NEW n \in Nat, NEW width \in Nat, Shift(n, width) = 0
  PROVE  Number(Digits(n, width)) = n
<1> DEFINE s == Digits(n, width)
<1>1. /\ s \in Seq(Digit) /\ Len(s) = width
      /\ \A i \in 1 .. width : s[i] = Shift(n, i - 1) % Base
  BY DigitsSeq
<1> HIDE DEF s
<1>2. PICK h \in [0 .. width -> Nat] :
        /\ h[0] = 0 /\ Number(s) = h[width]
        /\ \A k \in 1 .. width : h[k] = s[width - k + 1] + Base * h[k - 1]
  BY <1>1, NumberBySteps
<1> DEFINE P == {k \in 0 .. width : h[k] = Shift(n, width - k)}
<1>3. 0 \in P
  BY <1>2
<1>4. ASSUME NEW k \in 1 .. width, k - 1 \in P PROVE k \in P
  <2>1. /\ width - k \in Nat /\ width - k + 1 \in 1 .. width /\ k \in 0 .. width
        /\ width - (k - 1) = width - k + 1 /\ width - k + 1 - 1 = width - k
    OBVIOUS
  <2> DEFINE m == Shift(n, width - k)
  <2>2. m \in Nat /\ Shift(n, width - k + 1) = m \div Base
    BY <2>1, ShiftStep
  <2>3. h[k - 1] = m \div Base
    BY <1>4, <2>1, <2>2
  <2>4. s[width - k + 1] = m % Base
    BY <1>1, <2>1
  <2>5. h[k] = (m % Base) + Base * (m \div Base)
    BY <1>2, <2>3, <2>4
  <2>6. h[k] = m
    BY <2>2, <2>5, DivByBase
  <2> QED BY <2>1, <2>6
<1> HIDE DEF P
<1>5. width \in P
  <2>1. \A k \in 0 .. width : k \in P
    BY <1>3, <1>4, UpToInduction
  <2> QED BY <2>1
<1>6. h[width] = Shift(n, 0)
  BY <1>5 DEF P
<1> QED BY <1>2, <1>6, ShiftStep DEF s

\* So is every length up to the limit on messages.
LEMMA LengthRoundTrip ==
  ASSUME NEW n \in Nat, n <= MAX_MSG + W
  PROVE  Number(u32(n)) = n
<1>1. W \in Nat /\ Shift(n, W) = 0
  BY ByteAssumption, ShiftFits
<1> QED BY <1>1, NumberRoundTrip DEF u32

-----------------------------------------------------------------------------
(* Writing into a buffer. *)

\* The elements of three joined sequences.
LEMMA ThreeItems ==
  ASSUME NEW S, NEW x \in Seq(S), NEW y \in Seq(S), NEW z \in Seq(S),
         NEW c, c = x \o (y \o z)
  PROVE  /\ c \in Seq(S) /\ Len(c) = Len(x) + Len(y) + Len(z)
         /\ \A i \in 1 .. Len(x) : c[i] = x[i]
         /\ \A i \in 1 .. Len(y) : c[Len(x) + i] = y[i]
         /\ \A i \in 1 .. Len(z) : c[Len(x) + Len(y) + i] = z[i]
<1> DEFINE d == y \o z
<1>1. /\ d \in Seq(S) /\ Len(d) = Len(y) + Len(z)
      /\ \A i \in 1 .. Len(d) : d[i] = IF i <= Len(y) THEN y[i] ELSE z[i - Len(y)]
  OBVIOUS
<1>0. c = x \o d
  OBVIOUS
<1> HIDE DEF d
<1>2. /\ c \in Seq(S) /\ Len(c) = Len(x) + Len(d)
      /\ \A i \in 1 .. Len(x) + Len(d) : c[i] = IF i <= Len(x) THEN x[i] ELSE d[i - Len(x)]
  <2>1. d \in Seq(S)
    BY <1>1
  <2> QED BY <1>0, <2>1, ConcatProperties
<1>3. Len(x) \in Nat /\ Len(y) \in Nat /\ Len(z) \in Nat
  OBVIOUS
<1>4. ASSUME NEW i \in 1 .. Len(y) PROVE c[Len(x) + i] = y[i]
  <2>1. /\ Len(x) + i \in 1 .. Len(x) + Len(d) /\ ~ (Len(x) + i <= Len(x))
        /\ Len(x) + i - Len(x) = i /\ i \in 1 .. Len(d) /\ i <= Len(y)
    BY <1>1, <1>2, <1>3
  <2> QED BY <1>1, <1>2, <2>1
<1>5. ASSUME NEW i \in 1 .. Len(z) PROVE c[Len(x) + Len(y) + i] = z[i]
  <2>1. /\ Len(x) + Len(y) + i \in 1 .. Len(x) + Len(d) /\ ~ (Len(x) + Len(y) + i <= Len(x))
        /\ Len(x) + Len(y) + i - Len(x) = Len(y) + i
        /\ Len(y) + i \in 1 .. Len(d) /\ ~ (Len(y) + i <= Len(y))
        /\ Len(y) + i - Len(y) = i
    BY <1>1, <1>2, <1>3
  <2>2. d[Len(y) + i] = z[i]
    BY <1>1, <2>1
  <2>3. c[Len(x) + Len(y) + i] = d[Len(y) + i]
    BY <1>2, <2>1
  <2> QED BY <2>2, <2>3
<1>6. \A i \in 1 .. Len(x) : c[i] = x[i]
  BY <1>1, <1>2, <1>3
<1>7. Len(c) = Len(x) + Len(y) + Len(z)
  BY <1>1, <1>2, <1>3
<1> QED BY <1>2, <1>4, <1>5, <1>6, <1>7

\* Joining bytes gives bytes.
LEMMA JoinBytes ==
  \A s, t \in Seq(Byte) : s \o t \in Seq(Byte) /\ Len(s \o t) = Len(s) + Len(t)
OBVIOUS

\* In either order.
LEMMA ThreeBytes ==
  \A x, y, z \in Seq(Byte) : x \o (y \o z) = (x \o y) \o z
BY ConcatThree

\* The data of b are x, y and z.
Splits(b, x, y, z) ==
  /\ BufferOK(b) /\ x \in Seq(Byte) /\ y \in Seq(Byte) /\ z \in Seq(Byte)
  /\ Data(b) = x \o (y \o z)

\* A memcpy over a part of the data replaces that part and nothing else.
LEMMA Overwrite ==
  ASSUME NEW b, NEW x, NEW y, NEW z, Splits(b, x, y, z),
         NEW s \in Seq(Byte), Len(s) = Len(y),
         NEW at, at = b.data_begin + Len(x)
  PROVE  Splits(Write(b, at, s), x, s, z)
<1> DEFINE m == Write(b, at, s)
<1> SUFFICES BufferOK(m) /\ Data(m) = x \o (s \o z)
  BY DEF Splits
<1> USE DEF Splits
<1> DEFINE mem == [i \in DOMAIN b.mem |->
                     IF at <= i /\ i < at + Len(s) THEN s[i - at + 1] ELSE b.mem[i]]
           d == Data(b)
           c == x \o (s \o z)
<1>1. /\ b.mem \in [0 .. b.buf_size - 1 -> Byte] /\ b.buf_size \in Nat
      /\ b.data_begin \in Nat /\ b.data_end \in Nat /\ b.data_length \in Nat
      /\ b.broken = FALSE
      /\ b.data_begin + b.data_length = b.data_end /\ b.data_end <= b.buf_size
  BY DEF BufferOK
<1>2. /\ d \in Seq(Byte) /\ Len(d) = b.data_length
      /\ \A i \in 1 .. b.data_length : d[i] = b.mem[b.data_begin + i - 1]
  BY DataSeq
<1>3. /\ Len(d) = Len(x) + Len(y) + Len(z)
      /\ \A i \in 1 .. Len(x) : d[i] = x[i]
      /\ \A i \in 1 .. Len(z) : d[Len(x) + Len(y) + i] = z[i]
  <2>1. d = x \o (y \o z)
    OBVIOUS
  <2> HIDE DEF d
  <2> QED BY <2>1, ThreeItems
<1>4. /\ c \in Seq(Byte) /\ Len(c) = Len(x) + Len(s) + Len(z)
      /\ \A i \in 1 .. Len(x) : c[i] = x[i]
      /\ \A i \in 1 .. Len(s) : c[Len(x) + i] = s[i]
      /\ \A i \in 1 .. Len(z) : c[Len(x) + Len(s) + i] = z[i]
  <2>1. c = x \o (s \o z)
    OBVIOUS
  <2> HIDE DEF c
  <2>2. c \in Seq(Byte) /\ Len(c) = Len(x) + Len(s) + Len(z)
    <3>1. s \o z \in Seq(Byte) /\ Len(s \o z) = Len(s) + Len(z)
      BY JoinBytes, Zenon
    <3>2. c \in Seq(Byte) /\ Len(c) = Len(x) + Len(s \o z)
      BY <2>1, <3>1, JoinBytes, Zenon
    <3>3. Len(x) \in Nat /\ Len(s) \in Nat /\ Len(z) \in Nat
      OBVIOUS
    <3> QED BY <3>1, <3>2, <3>3
  <2>3. \A i \in 1 .. Len(x) : c[i] = x[i]
    BY <2>1, ThreeItems
  <2>4. \A i \in 1 .. Len(s) : c[Len(x) + i] = s[i]
    BY <2>1, ThreeItems
  <2>5. \A i \in 1 .. Len(z) : c[Len(x) + Len(s) + i] = z[i]
    BY <2>1, ThreeItems
  <2> QED BY <2>2, <2>3, <2>4, <2>5
<1>5. /\ Len(x) \in Nat /\ Len(y) \in Nat /\ Len(z) \in Nat /\ Len(s) \in Nat
      /\ \A i \in 1 .. Len(s) : s[i] \in Byte
  OBVIOUS
<1> HIDE DEF d, c
<1>6. at \in Nat /\ at + Len(s) <= b.data_end
  BY <1>1, <1>2, <1>3, <1>5
<1>7. m = [b EXCEPT !.mem = mem]
  <2>1. ~ (at < 0) /\ ~ (at + Len(s) > b.buf_size)
    <3>1. b.data_end \in Nat /\ b.buf_size \in Nat /\ b.data_end <= b.buf_size
      BY <1>1
    <3> QED BY ONLY <1>5, <1>6, <3>1
  <2> QED BY <2>1 DEF Write
<1>8. mem \in [0 .. b.buf_size - 1 -> Byte]
  <2>1. \A i \in 0 .. b.buf_size - 1 :
          at <= i /\ i < at + Len(s) => i - at + 1 \in 1 .. Len(s)
    BY <1>5, <1>6
  <2> QED BY <1>1, <1>5, <2>1
<1>9. ASSUME NEW i \in 1 .. b.data_length PROVE mem[b.data_begin + i - 1] = c[i]
  <2> DEFINE k == b.data_begin + i - 1
             begin == b.data_begin
             n == b.data_length
             size == b.buf_size
  <2>0. /\ begin \in Nat /\ n \in Nat /\ size \in Nat /\ begin + n <= size
        /\ i \in 1 .. n /\ at = begin + Len(x) /\ k = begin + i - 1
    BY <1>1
  <2> SUFFICES mem[k] = c[i]
    OBVIOUS
  <2> HIDE DEF k, begin, n, size
  <2>1. k \in 0 .. b.buf_size - 1 /\ k \in DOMAIN b.mem
    <3>1. k \in 0 .. size - 1
      BY <2>0
    <3> QED BY <1>1, <3>1 DEF size
  <2>2. mem[k] = IF at <= k /\ k < at + Len(s) THEN s[k - at + 1] ELSE b.mem[k]
    BY <2>1
  <2> HIDE DEF mem
  <2>3. b.mem[k] = d[i]
    BY <1>2 DEF k
  <2>4. CASE i <= Len(x)
    <3>1. ~ (at <= k) /\ i \in 1 .. Len(x)
      BY <1>5, <2>0, <2>4
    <3>2. mem[k] = d[i]
      BY <2>2, <2>3, <3>1
    <3> QED BY <1>3, <1>4, <3>1, <3>2
  <2>5. CASE i > Len(x) /\ i <= Len(x) + Len(s)
    <3>1. /\ at <= k /\ k < at + Len(s) /\ k - at + 1 = i - Len(x)
          /\ i - Len(x) \in 1 .. Len(s) /\ Len(x) + (i - Len(x)) = i
      BY <1>5, <2>0, <2>5, SMTT(30)
    <3>2. mem[k] = s[i - Len(x)]
      BY <2>2, <3>1
    <3>3. c[Len(x) + (i - Len(x))] = s[i - Len(x)]
      BY <1>4, <3>1
    <3> QED BY <3>1, <3>2, <3>3
  <2>6. CASE i > Len(x) + Len(s)
    <3> DEFINE j == i - Len(x) - Len(s)
    <3>1. /\ ~ (k < at + Len(s)) /\ j \in 1 .. Len(z)
          /\ Len(x) + Len(s) + j = i /\ Len(x) + Len(y) + j = i
      <4>1. n = Len(x) + Len(y) + Len(z)
        BY <1>2, <1>3 DEF n
      <4> QED BY <1>5, <2>0, <2>6, <4>1
    <3> HIDE DEF j
    <3>2. mem[k] = d[i]
      BY <2>2, <2>3, <3>1
    <3>3. d[Len(x) + Len(y) + j] = z[j] /\ c[Len(x) + Len(s) + j] = z[j]
      BY <1>3, <1>4, <3>1
    <3> QED BY <3>1, <3>2, <3>3
  <2> QED BY <1>5, <2>0, <2>4, <2>5, <2>6
<1> HIDE DEF mem
<1>10. m = [mem |-> mem, buf_size |-> b.buf_size, data_begin |-> b.data_begin,
            data_end |-> b.data_end, data_length |-> b.data_length, broken |-> FALSE]
  BY <1>7 DEF BufferOK
<1>11. BufferOK(m)
  BY <1>1, <1>8, <1>10, MakeOK
<1>12. Data(m) = c
  <2>1. Data(m) = [i \in 1 .. b.data_length |-> mem[b.data_begin + i - 1]]
    BY <1>10 DEF Data
  <2>2. Len(c) = b.data_length
    BY <1>2, <1>3, <1>4, <1>5
  <2>3. c = [i \in 1 .. b.data_length |-> c[i]]
    BY <1>4, <2>2
  <2> QED BY <1>9, <2>1, <2>3
<1> QED BY <1>11, <1>12 DEF c

-----------------------------------------------------------------------------
(* What the functions that write values append. *)

\* c is b with the bytes s appended.
Added(b, c, s) == BufferOK(c) /\ Data(c) = Data(b) \o s

\* One append.
LEMMA AddedOnce ==
  ASSUME NEW b, BufferOK(b), NEW s \in Seq(Byte)
  PROVE  Added(b, append(b, s), s)
BY AppendIsEnqueue DEF Added

\* One after the other.
LEMMA AddedTwice ==
  ASSUME NEW b, BufferOK(b), NEW c, NEW d, NEW s \in Seq(Byte), NEW t \in Seq(Byte),
         Added(b, c, s), Added(c, d, t)
  PROVE  Added(b, d, s \o t)
<1> DEFINE x == Data(b)
<1>1. x \in Seq(Byte)
  BY DataSeq
<1>2. BufferOK(d) /\ Data(d) = (x \o s) \o t
  BY DEF Added
<1> HIDE DEF x
<1>3. (x \o s) \o t = x \o (s \o t)
  BY <1>1, ConcatThree
<1> QED BY <1>2, <1>3 DEF Added, x

\* A single byte.
LEMMA OneByte ==
  ASSUME NEW x \in Digit
  PROVE  <<x>> \in Seq(Digit) /\ <<x>> \in Seq(Byte) /\ Len(<<x>>) = 1
<1>1. <<x>> \in Seq(Digit) /\ Len(<<x>>) = 1
  OBVIOUS
<1> QED BY <1>1, DigitIsByte

\* The tags are bytes.
LEMMA TagIsDigit ==
  /\ TAG_NIL \in Digit /\ TAG_ERR \in Digit /\ TAG_STR \in Digit
  /\ TAG_INT \in Digit /\ TAG_DBL \in Digit /\ TAG_ARR \in Digit
BY ByteAssumption DEF Digit, TAG_NIL, TAG_ERR, TAG_STR, TAG_INT, TAG_DBL, TAG_ARR

\* Joining digits gives digits.
LEMMA JoinDigits ==
  \A s, t \in Seq(Digit) : s \o t \in Seq(Digit) /\ Len(s \o t) = Len(s) + Len(t)
OBVIOUS

\* In either order.
LEMMA ThreeDigits ==
  \A x, y, z \in Seq(Digit) : x \o (y \o z) = (x \o y) \o z
BY ConcatThree

\* A string with its length.
LEMMA FieldSeq ==
  ASSUME NEW s \in Seq(Digit)
  PROVE  Field(s) \in Seq(Digit) /\ Field(s) \in Seq(Byte) /\ Len(Field(s)) = W + Len(s)
<1>1. Len(s) \in Nat
  OBVIOUS
<1>2. u32(Len(s)) \in Seq(Digit) /\ Len(u32(Len(s))) = W
  BY <1>1, LengthSeq
<1>3. Field(s) \in Seq(Digit) /\ Len(Field(s)) = W + Len(s)
  BY <1>2, JoinDigits, Zenon DEF Field
<1> QED BY <1>3, DigitIsByte

\* A length and the bytes s behind what is there.
LEMMA AddedField ==
  ASSUME NEW b, BufferOK(b), NEW c, NEW a \in Seq(Byte), Added(b, c, a), NEW s \in Seq(Digit)
  PROVE  Added(b, append(append(c, u32(Len(s))), s), a \o Field(s))
<1> DEFINE n == u32(Len(s))
<1>1. Len(s) \in Nat /\ s \in Seq(Byte)
  BY DigitIsByte
<1>2. n \in Seq(Byte)
  BY <1>1, LengthSeq
<1> HIDE DEF n
<1>3. BufferOK(c)
  BY DEF Added
<1>4. Added(c, append(c, n), n)
  BY <1>2, <1>3, AddedOnce
<1>5. BufferOK(append(c, n))
  BY <1>4 DEF Added
<1>6. Added(append(c, n), append(append(c, n), s), s)
  BY <1>1, <1>5, AddedOnce
<1>7. Added(c, append(append(c, n), s), n \o s)
  BY <1>1, <1>2, <1>3, <1>4, <1>6, AddedTwice
<1>8. n \o s \in Seq(Byte)
  BY <1>1, <1>2, JoinBytes
<1>9. Added(b, append(append(c, n), s), a \o (n \o s))
  BY <1>7, <1>8, AddedTwice
<1> QED BY <1>9 DEF n, Field

\* out_str appends its tag and the string with its length, and counts them.
LEMMA OutStr ==
  ASSUME NEW b, BufferOK(b), NEW s \in Seq(Digit)
  PROVE  /\ Added(b, out_str(b, s).buf, <<TAG_STR>> \o Field(s))
         /\ <<TAG_STR>> \o Field(s) \in Seq(Digit)
         /\ out_str(b, s).n = Len(<<TAG_STR>> \o Field(s))
<1> DEFINE t == <<TAG_STR>>
<1>1. t \in Seq(Digit) /\ t \in Seq(Byte) /\ Len(t) = 1
  BY OneByte, TagIsDigit
<1>2. out_str(b, s).buf = append(append(append(b, t), u32(Len(s))), s)
        /\ out_str(b, s).n = 1 + W + Len(s)
  BY DEF out_str, Out
<1> HIDE DEF t
<1>3. Added(b, append(b, t), t)
  BY <1>1, AddedOnce
<1>4. Added(b, out_str(b, s).buf, t \o Field(s))
  BY <1>1, <1>2, <1>3, AddedField
<1>5. Field(s) \in Seq(Digit) /\ Len(Field(s)) = W + Len(s)
  BY FieldSeq
<1>6. t \o Field(s) \in Seq(Digit) /\ Len(t \o Field(s)) = Len(t) + Len(Field(s))
  BY <1>1, <1>5, JoinDigits, Zenon
<1>7. Len(s) \in Nat /\ W \in Nat
  BY ByteAssumption
<1>8. out_str(b, s).n = Len(t \o Field(s))
  BY <1>1, <1>2, <1>5, <1>6, <1>7
<1> QED BY <1>4, <1>6, <1>8 DEF t

\* out_int and out_dbl append their tag and the digits.
LEMMA OutNumber ==
  ASSUME NEW b, BufferOK(b), NEW v \in Nat, NEW tag \in Digit, NEW a,
         a = append(append(b, <<tag>>), Digits(v, D))
  PROVE  /\ Added(b, a, <<tag>> \o Digits(v, D)) /\ <<tag>> \o Digits(v, D) \in Seq(Digit)
         /\ Len(<<tag>> \o Digits(v, D)) = 1 + D
<1> DEFINE t == <<tag>>
           s == Digits(v, D)
<1>1. t \in Seq(Digit) /\ t \in Seq(Byte) /\ Len(t) = 1
  BY OneByte
<1>2. D \in Nat
  BY ByteAssumption
<1>3. s \in Seq(Digit) /\ s \in Seq(Byte) /\ Len(s) = D
  BY <1>2, DigitsSeq, DigitIsByte
<1>4. a = append(append(b, t), s)
  OBVIOUS
<1> HIDE DEF t, s
<1>5. Added(b, append(b, t), t)
  BY <1>1, AddedOnce
<1>6. BufferOK(append(b, t))
  BY <1>5 DEF Added
<1>7. Added(append(b, t), a, s)
  BY <1>3, <1>4, <1>6, AddedOnce
<1>8. Added(b, a, t \o s)
  BY <1>1, <1>3, <1>5, <1>7, AddedTwice
<1>9. t \o s \in Seq(Digit) /\ Len(t \o s) = Len(t) + Len(s)
  BY <1>1, <1>3, JoinDigits
<1> QED BY <1>1, <1>3, <1>8, <1>9 DEF t, s

\* A string or a double is appended in the documented format, and counted.
LEMMA OutItemAdds ==
  ASSUME NEW r, BufferOK(r.buf), r.n \in Nat, NEW v \in Scalar
  PROVE  /\ Added(r.buf, OutItem(r, v).buf, EncodedItem(v))
         /\ EncodedItem(v) \in Seq(Digit)
         /\ OutItem(r, v).n = r.n + Len(EncodedItem(v)) /\ OutItem(r, v).n \in Nat
         /\ OutItem(r, v) = Out(OutItem(r, v).buf, OutItem(r, v).n)
<1>1. CASE v[1] = "str" /\ v[2] \in Seq(Digit)
  <2> DEFINE o == out_str(r.buf, v[2])
             e == <<TAG_STR>> \o Field(v[2])
  <2>1. Added(r.buf, o.buf, e) /\ e \in Seq(Digit) /\ o.n = Len(e)
    BY <1>1, OutStr
  <2>2. OutItem(r, v) = Out(o.buf, r.n + o.n) /\ EncodedItem(v) = e
    BY <1>1 DEF OutItem, EncodedItem
  <2> HIDE DEF o, e
  <2>3. Len(e) \in Nat
    BY <2>1
  <2> QED BY <2>1, <2>2, <2>3 DEF Out
<1>2. CASE v[1] = "dbl" /\ v[2] \in Nat
  <2> DEFINE o == out_dbl(r.buf, v[2])
             e == <<TAG_DBL>> \o Digits(v[2], D)
  <2>1. /\ o.buf = append(append(r.buf, <<TAG_DBL>>), Digits(v[2], D))
        /\ o.n = 1 + D
    BY DEF out_dbl, Out
  <2>2. Added(r.buf, o.buf, e) /\ e \in Seq(Digit) /\ Len(e) = 1 + D
    BY <1>2, <2>1, OutNumber, TagIsDigit
  <2>3. OutItem(r, v) = Out(o.buf, r.n + o.n) /\ EncodedItem(v) = e
    BY <1>2 DEF OutItem, EncodedItem
  <2> HIDE DEF o, e
  <2>4. Len(e) \in Nat
    BY <2>2
  <2> QED BY <2>1, <2>2, <2>3, <2>4 DEF Out
<1> QED BY <1>1, <1>2 DEF Scalar, ByteString, Digit, Wide

\* The sound buffers, as a set.
Buffers ==
  {b \in [mem : UNION {[0 .. k - 1 -> Byte] : k \in Nat}, buf_size : Nat,
          data_begin : Nat, data_end : Nat, data_length : Nat, broken : {FALSE}] :
     BufferOK(b)}

\* They are all the sound buffers there are.
LEMMA BufferInSet ==
  ASSUME NEW b, BufferOK(b)
  PROVE  b \in Buffers
BY DEF BufferOK, Buffers

\* A buffer and a count.
Filled == [buf : Buffers, n : Nat]

\* The items, encoded.
EncodedItems(items) == [i \in DOMAIN items |-> EncodedItem(items[i])]

\* They are sequences of bytes.
LEMMA EncodedItemsSeq ==
  ASSUME NEW items \in Seq(Scalar)
  PROVE  /\ EncodedItems(items) \in Seq(Seq(Digit)) /\ EncodedItems(items) \in Seq(Seq(Byte))
         /\ Len(EncodedItems(items)) = Len(items)
         /\ \A i \in 1 .. Len(items) : EncodedItems(items)[i] = EncodedItem(items[i])
<1> DEFINE n == Len(items)
<1>1. n \in Nat /\ DOMAIN items = 1 .. n /\ \A i \in 1 .. n : items[i] \in Scalar
  OBVIOUS
<1>2. ASSUME NEW v \in Scalar PROVE EncodedItem(v) \in Seq(Digit)
  <2> DEFINE r == Out(New(0), 0)
  <2>1. BufferOK(r.buf) /\ r.n \in Nat
    BY NewIsEmpty DEF Out
  <2> HIDE DEF r
  <2> QED BY <2>1, OutItemAdds
<1> DEFINE e == EncodedItems(items)
<1>3. e \in [1 .. n -> Seq(Digit)]
  BY <1>1, <1>2 DEF EncodedItems
<1>4. e \in [1 .. n -> Seq(Byte)]
  BY <1>3, DigitIsByte
<1>5. \A i \in 1 .. n : e[i] = EncodedItem(items[i])
  BY <1>1 DEF EncodedItems
<1> HIDE DEF e
<1>6. e \in Seq(Seq(Digit)) /\ Len(e) = n
  BY <1>1, <1>3
<1>7. e \in Seq(Seq(Byte))
  BY <1>1, <1>4
<1> QED BY <1>5, <1>6, <1>7 DEF e

\* The loop over items, from any sound buffer and any count.
FillsFrom(f, start, items) ==
  f[0] = start /\ \A i \in 1 .. Len(items) : f[i] = OutItem(f[i - 1], items[i])

\* It has a result, and the result is start with every item appended.
LEMMA FillItems ==
  ASSUME NEW start \in Filled, NEW items \in Seq(Scalar)
  PROVE  /\ \E f \in [0 .. Len(items) -> Filled] : FillsFrom(f, start, items)
         /\ \A f : FillsFrom(f, start, items) =>
              /\ Added(start.buf, f[Len(items)].buf, FlattenSeq(EncodedItems(items)))
              /\ f[Len(items)].n = start.n + Len(FlattenSeq(EncodedItems(items)))
<1> DEFINE n == Len(items)
           F == [i \in 1 .. n |-> [r \in Filled |-> OutItem(r, items[i])]]
           e == EncodedItems(items)
<1>1. n \in Nat /\ n \in 0 .. n /\ \A i \in 1 .. n : items[i] \in Scalar
  OBVIOUS
<1>2. ASSUME NEW r \in Filled, NEW v \in Scalar
      PROVE  /\ OutItem(r, v) \in Filled
             /\ Added(r.buf, OutItem(r, v).buf, EncodedItem(v))
             /\ OutItem(r, v).n = r.n + Len(EncodedItem(v))
  <2>1. BufferOK(r.buf) /\ r.n \in Nat
    BY DEF Filled, Buffers
  <2>2. /\ Added(r.buf, OutItem(r, v).buf, EncodedItem(v))
        /\ OutItem(r, v).n = r.n + Len(EncodedItem(v)) /\ OutItem(r, v).n \in Nat
        /\ OutItem(r, v) = Out(OutItem(r, v).buf, OutItem(r, v).n)
    BY <2>1, OutItemAdds
  <2>3. OutItem(r, v).buf \in Buffers
    BY <2>2, BufferInSet DEF Added
  <2>4. Out(OutItem(r, v).buf, OutItem(r, v).n) \in Filled
    BY <2>2, <2>3 DEF Out, Filled
  <2> QED BY <2>2, <2>4
<1>3. \A i \in 1 .. n : F[i] \in [Filled -> Filled]
  BY <1>1, <1>2
<1>4. \A i \in 1 .. n : \A r \in Filled : F[i][r] = OutItem(r, items[i])
  OBVIOUS
<1> HIDE DEF F, n
<1>5. PICK f \in [0 .. n -> Filled] : IsRec(f, n, start, F)
  BY <1>1, <1>3, RecursionUpTo
<1>6. FillsFrom(f, start, items)
  <2>1. ASSUME NEW i \in 1 .. n PROVE f[i] = OutItem(f[i - 1], items[i])
    <3>1. f[i - 1] \in Filled
      <4>1. i - 1 \in 0 .. n
        BY <1>1
      <4> QED BY <4>1
    <3> QED BY <1>4, <1>5, <3>1 DEF IsRec
  <2> QED BY <1>5, <2>1 DEF IsRec, FillsFrom, n
<1>7. ASSUME NEW g, FillsFrom(g, start, items)
      PROVE  /\ Added(start.buf, g[n].buf, FlattenSeq(e))
             /\ g[n].n = start.n + Len(FlattenSeq(e))
  <2>1. e \in Seq(Seq(Byte)) /\ Len(e) = n /\ \A i \in 1 .. n : e[i] = EncodedItem(items[i])
    BY EncodedItemsSeq DEF n
  <2> HIDE DEF e
  <2>2. PICK h \in [0 .. n -> Seq(Byte)] : Flattens(h, e) /\ FlattenSeq(e) = h[n]
    BY <2>1, FlattenByParts
  <2> DEFINE P == {i \in 0 .. n : /\ g[i] \in Filled /\ Added(start.buf, g[i].buf, h[i])
                                  /\ g[i].n = start.n + Len(h[i])}
  <2>3. 0 \in P
    <3>1. g[0] = start /\ h[0] = <<>>
      BY <1>7, <2>2 DEF FillsFrom, Flattens
    <3>2. BufferOK(start.buf) /\ start.n \in Nat
      BY DEF Filled, Buffers
    <3>3. Data(start.buf) \in Seq(Byte)
      BY <3>2, DataSeq
    <3>4. Added(start.buf, start.buf, <<>>)
      BY <3>2, <3>3 DEF Added
    <3>5. Len(<<>>) = 0
      OBVIOUS
    <3> QED BY <1>1, <3>1, <3>2, <3>4, <3>5
  <2>4. ASSUME NEW i \in 1 .. n, i - 1 \in P PROVE i \in P
    <3> DEFINE r == g[i - 1]
               v == items[i]
               x == h[i - 1]
    <3>1. /\ i - 1 \in 0 .. n /\ i \in 0 .. n /\ r \in Filled /\ v \in Scalar
          /\ Added(start.buf, r.buf, x) /\ r.n = start.n + Len(x) /\ x \in Seq(Byte)
      BY <1>1, <2>4
    <3>2. g[i] = OutItem(r, v) /\ h[i] = x \o EncodedItem(v)
      BY <1>7, <2>1, <2>2 DEF FillsFrom, Flattens, n
    <3>3. EncodedItem(v) \in Seq(Byte)
      BY <2>1
    <3> HIDE DEF r, v, x
    <3>4. OutItem(r, v) \in Filled /\ Added(r.buf, OutItem(r, v).buf, EncodedItem(v))
            /\ OutItem(r, v).n = r.n + Len(EncodedItem(v))
      BY <1>2, <3>1
    <3>5. BufferOK(start.buf) /\ start.n \in Nat
      BY DEF Filled, Buffers
    <3>6. Added(start.buf, OutItem(r, v).buf, x \o EncodedItem(v))
      BY <3>1, <3>3, <3>4, <3>5, AddedTwice
    <3>7. /\ Len(x \o EncodedItem(v)) = Len(x) + Len(EncodedItem(v))
          /\ Len(x) \in Nat /\ Len(EncodedItem(v)) \in Nat
      BY <3>1, <3>3, JoinBytes
    <3>8. OutItem(r, v).n = start.n + Len(x \o EncodedItem(v))
      BY <3>1, <3>4, <3>5, <3>7
    <3> QED BY <3>1, <3>2, <3>4, <3>6, <3>8
  <2> HIDE DEF P
  <2>5. \A i \in 0 .. n : i \in P
    BY <1>1, <2>3, <2>4, UpToInduction
  <2> QED BY <1>1, <2>2, <2>5 DEF P
<1> QED BY <1>6, <1>7 DEF n, e

\* out_err appends an error in the documented format.
LEMMA OutErr ==
  ASSUME NEW b, BufferOK(b), NEW code \in Digit, NEW text \in Seq(Digit)
  PROVE  /\ Added(b, out_err(b, code, text).buf, <<TAG_ERR, code>> \o Field(text))
         /\ <<TAG_ERR, code>> \o Field(text) \in Seq(Digit)
         /\ out_err(b, code, text).n = Len(<<TAG_ERR, code>> \o Field(text))
<1> DEFINE t == <<TAG_ERR>>
           u == <<code>>
           w == <<TAG_ERR, code>>
<1>1. /\ t \in Seq(Digit) /\ t \in Seq(Byte) /\ u \in Seq(Digit) /\ u \in Seq(Byte)
  BY OneByte, TagIsDigit
<1>2. w = t \o u /\ w \in Seq(Digit) /\ w \in Seq(Byte) /\ Len(w) = 2
  <2>1. w \in Seq(Digit) /\ Len(w) = 2 /\ w = t \o u
    BY TagIsDigit
  <2> QED BY <2>1, DigitIsByte
<1>3. /\ out_err(b, code, text).buf
           = append(append(append(append(b, t), u), u32(Len(text))), text)
      /\ out_err(b, code, text).n = 1 + 1 + W + Len(text)
  BY DEF out_err, Out
<1> HIDE DEF t, u, w
<1>4. Added(b, append(b, t), t)
  BY <1>1, AddedOnce
<1>5. BufferOK(append(b, t))
  BY <1>4 DEF Added
<1>6. Added(append(b, t), append(append(b, t), u), u)
  BY <1>1, <1>5, AddedOnce
<1>7. Added(b, append(append(b, t), u), w)
  BY <1>1, <1>2, <1>4, <1>6, AddedTwice
<1>8. Added(b, out_err(b, code, text).buf, w \o Field(text))
  BY <1>2, <1>3, <1>7, AddedField
<1>9. Field(text) \in Seq(Digit) /\ Len(Field(text)) = W + Len(text)
  BY FieldSeq
<1>10. w \o Field(text) \in Seq(Digit) /\ Len(w \o Field(text)) = Len(w) + Len(Field(text))
  BY <1>2, <1>9, JoinDigits, Zenon
<1>11. Len(text) \in Nat /\ W \in Nat
  BY ByteAssumption
<1>12. out_err(b, code, text).n = Len(w \o Field(text))
  BY <1>2, <1>3, <1>9, <1>10, <1>11
<1> QED BY <1>8, <1>10, <1>12 DEF w

\* The elements of a concatenation of digits are digits.
LEMMA FlattenDigits ==
  ASSUME NEW items \in Seq(Scalar)
  PROVE  FlattenSeq(EncodedItems(items)) \in Seq(Digit)
<1> DEFINE e == EncodedItems(items)
<1>1. e \in Seq(Seq(Digit))
  BY EncodedItemsSeq
<1> HIDE DEF e
<1>2. PICK f \in [0 .. Len(e) -> Seq(Digit)] : Flattens(f, e) /\ FlattenSeq(e) = f[Len(e)]
  BY <1>1, FlattenByParts
<1>3. Len(e) \in 0 .. Len(e)
  BY <1>1
<1> QED BY <1>2, <1>3 DEF e

\* out_begin_arr, the items and out_end_arr write an array in the documented
\* format: the place for its length is found again behind all the items.
LEMMA OutList ==
  ASSUME NEW b, BufferOK(b), NEW items \in Seq(Scalar), NEW e,
         e = <<TAG_ARR>> \o u32(Len(items)) \o FlattenSeq(EncodedItems(items))
  PROVE  /\ Added(b, out_list(b, items).buf, e) /\ e \in Seq(Digit)
         /\ out_list(b, items).n = Len(e)
<1> DEFINE n == Len(items)
           t == <<TAG_ARR>>
           zero == u32(0)
           start == Out(out_begin_arr(b), 0)
           flat == FlattenSeq(EncodedItems(items))
           Eq(f) == f = [i \in 0 .. Len(items) |->
                           IF i = 0 THEN Out(out_begin_arr(b), 0)
                           ELSE OutItem(f[i - 1], items[i])]
           listed == CHOOSE f : Eq(f)
           all == listed[n]
<1>1. n \in Nat /\ 0 \in 0 .. n /\ n \in 0 .. n
  OBVIOUS
<1>2. t \in Seq(Digit) /\ t \in Seq(Byte) /\ Len(t) = 1 /\ t[1] = TAG_ARR
  BY OneByte, TagIsDigit
<1>3. /\ zero \in Seq(Byte) /\ Len(zero) = W
      /\ u32(n) \in Seq(Digit) /\ u32(n) \in Seq(Byte) /\ Len(u32(n)) = W
      /\ W \in Nat
  BY <1>1, LengthSeq, ByteAssumption
<1>4. flat \in Seq(Digit) /\ flat \in Seq(Byte) /\ Len(flat) \in Nat
  BY FlattenDigits, DigitIsByte
<1>5. Added(b, start.buf, t \o zero) /\ start \in Filled /\ start.n = 0
  <2>1. start.buf = append(append(b, t), zero) /\ start.n = 0
    BY DEF Out, out_begin_arr
  <2> HIDE DEF t, zero
  <2>2. Added(b, append(b, t), t)
    BY <1>2, AddedOnce
  <2>3. BufferOK(append(b, t))
    BY <2>2 DEF Added
  <2>4. Added(append(b, t), append(append(b, t), zero), zero)
    BY <1>3, <2>3, AddedOnce
  <2>5. Added(b, append(append(b, t), zero), t \o zero)
    BY <1>2, <1>3, <2>2, <2>4, AddedTwice
  <2>6. append(append(b, t), zero) \in Buffers
    BY <2>5, BufferInSet DEF Added
  <2> QED BY <2>1, <2>5, <2>6 DEF Filled, Out
<1> HIDE DEF start
<1>6. FillsFrom(listed, start, items)
  <2>1. PICK f \in [0 .. n -> Filled] : FillsFrom(f, start, items)
    BY <1>5, FillItems
  <2>2. \A i \in 0 .. n : f[i] = IF i = 0 THEN start ELSE OutItem(f[i - 1], items[i])
    <3>1. \A i \in 0 .. n : i = 0 \/ i \in 1 .. n
      BY <1>1
    <3> QED BY <2>1, <3>1 DEF FillsFrom
  <2>3. f = [i \in 0 .. n |-> f[i]]
    OBVIOUS
  <2>4. Eq(f)
    BY <2>2, <2>3, Zenon DEF start
  <2>5. Eq(listed)
    BY <2>4, Zenon
  <2> HIDE DEF listed
  <2>6. \A i \in 0 .. n : listed[i] = IF i = 0 THEN start ELSE OutItem(listed[i - 1], items[i])
    BY <2>5, Zenon DEF start
  <2>7. \A i \in 1 .. n : i \in 0 .. n /\ i # 0
    BY <1>1
  <2> QED BY <1>1, <2>6, <2>7 DEF FillsFrom
<1>7. out_list(b, items) = Out(out_end_arr(all.buf, W + all.n, n), all.n + 1 + W)
  BY Zenon DEF out_list
<1> HIDE DEF listed
<1>8. Added(start.buf, all.buf, flat) /\ all.n = start.n + Len(flat)
  BY <1>5, <1>6, FillItems
<1> DEFINE d == Data(b)
           c == all.buf
<1>9. d \in Seq(Byte)
  BY DataSeq
<1> HIDE DEF n, t, zero, flat, all, d
<1>10. all.n = Len(flat)
  BY <1>4, <1>5, <1>8
<1>11. BufferOK(c) /\ Data(c) = d \o ((t \o zero) \o flat)
  <2>1. t \o zero \in Seq(Byte)
    BY <1>2, <1>3, JoinBytes
  <2>2. Added(b, c, (t \o zero) \o flat)
    BY <1>4, <1>5, <1>8, <2>1, AddedTwice
  <2> QED BY <2>2 DEF Added, d
<1> HIDE DEF c
<1> DEFINE x == d \o t
<1>12. x \in Seq(Byte) /\ Len(x) = Len(d) + 1 /\ Len(d) \in Nat
  <2>1. x \in Seq(Byte) /\ Len(x) = Len(d) + Len(t)
    BY <1>2, <1>9, JoinBytes, Zenon
  <2>2. Len(d) \in Nat
    BY <1>9
  <2> QED BY <1>2, <2>1, <2>2, Zenon
<1>13. Data(c) = x \o (zero \o flat)
  <2>1. (t \o zero) \o flat = t \o (zero \o flat)
    BY <1>2, <1>3, <1>4, ThreeBytes, Zenon
  <2>2. zero \o flat \in Seq(Byte)
    BY <1>3, <1>4, JoinBytes
  <2>3. d \o (t \o (zero \o flat)) = (d \o t) \o (zero \o flat)
    BY <1>2, <1>9, <2>2, ThreeBytes, Zenon
  <2> QED BY <1>11, <2>1, <2>3
<1>14. /\ c.data_begin \in Nat /\ c.data_end \in Nat /\ c.data_length \in Nat
       /\ c.data_begin + c.data_length = c.data_end
       /\ c.data_length = Len(x) + W + Len(flat)
  <2>1. Len(Data(c)) = c.data_length
    BY <1>11, DataSeq
  <2>2. zero \o flat \in Seq(Byte) /\ Len(zero \o flat) = W + Len(flat)
    BY <1>3, <1>4, JoinBytes
  <2>3. Len(x \o (zero \o flat)) = Len(x) + Len(zero \o flat)
    BY <1>12, <2>2, JoinBytes
  <2> QED BY <1>3, <1>4, <1>11, <1>12, <1>13, <2>1, <2>2, <2>3 DEF BufferOK
<1>15. c.mem[c.data_end - (W + all.n) - 1] = TAG_ARR
  <2> DEFINE k == Len(d) + 1
  <2>1. k \in 1 .. c.data_length /\ c.data_begin + k - 1 = c.data_end - (W + all.n) - 1
    BY <1>3, <1>4, <1>10, <1>12, <1>14, SMTT(30)
  <2>2. Data(c)[k] = c.mem[c.data_begin + k - 1]
    BY <1>11, <2>1, DataSeq
  <2>3. Data(c)[k] = x[k]
    <3>1. k \in 1 .. Len(x)
      BY <1>12
    <3> HIDE DEF x, k
    <3> QED BY <1>3, <1>4, <1>12, <1>13, <3>1, ThreeItems
  <2>4. x[k] = TAG_ARR
    <3>1. x[Len(d) + 1] = t[1]
      <4>1. t \in Seq(Byte) /\ 1 \in 1 .. Len(t)
        BY <1>2
      <4> QED BY <1>9, <4>1
    <3> QED BY <1>2, <3>1
  <2> QED BY <2>1, <2>2, <2>3, <2>4
<1>16. out_end_arr(c, W + all.n, n) = Write(c, c.data_end - (W + all.n), u32(n))
  BY <1>15 DEF out_end_arr
<1>17. c.data_end - (W + all.n) = c.data_begin + Len(x)
  BY <1>3, <1>4, <1>10, <1>12, <1>14
<1> DEFINE m == out_end_arr(c, W + all.n, n)
<1>18. BufferOK(m) /\ Data(m) = x \o (u32(n) \o flat)
  <2> DEFINE s == u32(n)
             at == c.data_end - (W + all.n)
  <2>1. /\ Splits(c, x, zero, flat) /\ s \in Seq(Byte) /\ Len(s) = Len(zero)
        /\ at = c.data_begin + Len(x) /\ m = Write(c, at, s)
    BY <1>3, <1>4, <1>11, <1>12, <1>13, <1>16, <1>17 DEF Splits
  <2> HIDE DEF x, s, at, m
  <2>2. Splits(m, x, s, flat)
    BY <2>1, Overwrite
  <2> QED BY <2>2 DEF s, Splits
<1>19. e = t \o (u32(n) \o flat)
  <2>1. e = (t \o u32(n)) \o flat
    BY DEF t, n, flat
  <2> QED BY <1>2, <1>3, <1>4, <2>1, ThreeBytes, Zenon
<1>20. u32(n) \o flat \in Seq(Digit) /\ Len(u32(n) \o flat) = W + Len(flat)
  BY <1>3, <1>4, JoinDigits
<1>21. e \in Seq(Digit) /\ Len(e) = 1 + (W + Len(flat))
  BY <1>2, <1>19, <1>20, JoinDigits
<1>22. Data(m) = d \o e
  <2>1. u32(n) \o flat \in Seq(Byte)
    BY <1>20, DigitIsByte
  <2>2. d \o (t \o (u32(n) \o flat)) = (d \o t) \o (u32(n) \o flat)
    BY <1>2, <1>9, <2>1, ThreeBytes, Zenon
  <2> QED BY <1>18, <1>19, <2>2
<1>23. out_list(b, items).buf = m /\ out_list(b, items).n = all.n + 1 + W
  BY <1>7 DEF Out, c
<1>24. out_list(b, items).n = Len(e)
  BY <1>3, <1>4, <1>10, <1>21, <1>23
<1> QED BY <1>18, <1>21, <1>22, <1>23, <1>24 DEF Added, d

\* Whatever a command answers is appended in the documented format.
LEMMA OutValue ==
  ASSUME NEW b, BufferOK(b), NEW v \in Reply
  PROVE  /\ Added(b, out_value(b, v).buf, Encoded(v)) /\ Encoded(v) \in Seq(Digit)
         /\ out_value(b, v).n = Len(Encoded(v))
<1>1. CASE v = <<"nil">>
  <2> DEFINE t == <<TAG_NIL>>
  <2>1. t \in Seq(Digit) /\ t \in Seq(Byte) /\ Len(t) = 1
    BY OneByte, TagIsDigit
  <2>2. out_value(b, v).buf = append(b, t) /\ out_value(b, v).n = 1 /\ Encoded(v) = t
    BY <1>1 DEF out_value, out_nil, Out, Encoded
  <2> HIDE DEF t
  <2> QED BY <2>1, <2>2, AddedOnce
<1>2. CASE v \in {"err"} \X (0 .. Base - 1) \X ByteString
  <2>1. v[1] = "err" /\ v[2] \in Digit /\ v[3] \in Seq(Digit)
    BY <1>2 DEF Digit, ByteString
  <2>2. /\ out_value(b, v) = out_err(b, v[2], v[3])
        /\ Encoded(v) = <<TAG_ERR, v[2]>> \o Field(v[3])
    BY <2>1 DEF out_value, Encoded
  <2> QED BY <2>1, <2>2, OutErr
<1>3. CASE v \in {"str"} \X ByteString
  <2>1. v[1] = "str" /\ v[2] \in Seq(Digit)
    BY <1>3 DEF Digit, ByteString
  <2>2. /\ out_value(b, v) = out_str(b, v[2])
        /\ Encoded(v) = <<TAG_STR>> \o Field(v[2])
    BY <2>1 DEF out_value, Encoded
  <2> QED BY <2>1, <2>2, OutStr
<1>4. CASE v \in {"int"} \X Wide
  <2>1. v[1] = "int" /\ v[2] \in Nat
    BY <1>4 DEF Wide
  <2>2. /\ out_value(b, v).buf = append(append(b, <<TAG_INT>>), Digits(v[2], D))
        /\ out_value(b, v).n = 1 + D
        /\ Encoded(v) = <<TAG_INT>> \o Digits(v[2], D)
    BY <2>1 DEF out_value, Encoded, out_int, Out
  <2> DEFINE a == out_value(b, v).buf
             m == v[2]
  <2>3. a = append(append(b, <<TAG_INT>>), Digits(m, D)) /\ m \in Nat
    BY <2>1, <2>2
  <2> HIDE DEF a, m
  <2>4. /\ Added(b, a, <<TAG_INT>> \o Digits(m, D)) /\ <<TAG_INT>> \o Digits(m, D) \in Seq(Digit)
        /\ Len(<<TAG_INT>> \o Digits(m, D)) = 1 + D
    BY <2>3, OutNumber, TagIsDigit
  <2> QED BY <2>2, <2>4 DEF a, m
<1>5. CASE v \in {"arr"} \X Seq(Scalar)
  <2>1. v[1] = "arr" /\ v[2] \in Seq(Scalar)
    BY <1>5
  <2>2. /\ out_value(b, v) = out_list(b, v[2])
        /\ Encoded(v) = <<TAG_ARR>> \o u32(Len(v[2])) \o FlattenSeq(EncodedItems(v[2]))
    BY <2>1 DEF out_value, Encoded, EncodedItems
  <2> DEFINE items == v[2]
             e == Encoded(v)
  <2>3. items \in Seq(Scalar) /\ out_value(b, v) = out_list(b, items)
          /\ e = <<TAG_ARR>> \o u32(Len(items)) \o FlattenSeq(EncodedItems(items))
    BY <2>1, <2>2
  <2> HIDE DEF items, e
  <2>4. /\ Added(b, out_list(b, items).buf, e) /\ e \in Seq(Digit)
        /\ out_list(b, items).n = Len(e)
    BY <2>3, OutList
  <2> QED BY <2>3, <2>4 DEF e
<1> QED BY <1>1, <1>2, <1>3, <1>4, <1>5 DEF Reply

\* A response that fits is appended with its length in front, wherever the
\* buffer has moved to while it was written.
THEOREM RespondAppends ==
  ASSUME NEW b, BufferOK(b), NEW v \in Reply, Len(Encoded(v)) <= MAX_MSG
  PROVE  Added(b, respond(b, v), Field(Encoded(v)))
<1> DEFINE zero == u32(0)
           begun == response_begin(b)
           o == out_value(begun, v)
           c == o.buf
           e == Encoded(v)
           d == Data(b)
           n == Len(e)
<1>1. /\ zero \in Seq(Byte) /\ Len(zero) = W /\ W \in Nat /\ MAX_MSG \in Nat
  BY LengthSeq, ByteAssumption
<1>2. begun = append(b, zero)
  BY DEF response_begin
<1> HIDE DEF zero
<1>3. Added(b, begun, zero) /\ BufferOK(begun)
  BY <1>1, <1>2, AddedOnce DEF Added
<1> HIDE DEF begun
<1>4. Added(begun, c, e) /\ e \in Seq(Digit) /\ o.n = n
  BY <1>3, OutValue
<1>5. e \in Seq(Byte) /\ n \in Nat /\ n <= MAX_MSG
  BY <1>4, DigitIsByte
<1>6. respond(b, v) = response_end(c, n)
  BY <1>4 DEF respond, begun
<1>7. d \in Seq(Byte)
  BY DataSeq
<1> HIDE DEF c, o, e, d
<1>8. Added(b, c, zero \o e)
  BY <1>1, <1>3, <1>4, <1>5, AddedTwice
<1>9. Splits(c, d, zero, e)
  BY <1>1, <1>5, <1>7, <1>8 DEF Splits, Added, d
<1>10. /\ c.data_begin \in Nat /\ c.data_end \in Nat
       /\ c.data_end = c.data_begin + Len(d) + W + n /\ Len(d) \in Nat
  <2>1. Len(Data(c)) = c.data_length
    BY <1>9, DataSeq DEF Splits
  <2>2. zero \o e \in Seq(Byte) /\ Len(zero \o e) = W + n
    BY <1>1, <1>5, JoinBytes
  <2>3. Len(d \o (zero \o e)) = Len(d) + Len(zero \o e) /\ Len(d) \in Nat
    BY <1>7, <2>2, JoinBytes
  <2>4. /\ c.data_begin \in Nat /\ c.data_end \in Nat /\ c.data_length \in Nat
        /\ c.data_begin + c.data_length = c.data_end
    BY <1>9 DEF Splits, BufferOK
  <2>5. c.data_length = Len(d) + (W + n)
    BY <1>9, <2>1, <2>2, <2>3 DEF Splits
  <2> HIDE DEF n
  <2> QED BY <1>1, <1>5, <2>3, <2>4, <2>5
<1> DEFINE len_ptr == c.data_end - n - W
<1>11. len_ptr = c.data_begin + Len(d) /\ ~ (len_ptr < c.data_begin) /\ ~ (n > MAX_MSG)
  BY <1>1, <1>5, <1>10
<1> HIDE DEF n
<1>12. response_end(c, n) = Write(c, len_ptr, u32(n))
  BY <1>11 DEF response_end
<1> HIDE DEF len_ptr
<1>13. u32(n) \in Seq(Byte) /\ Len(u32(n)) = Len(zero)
  BY <1>1, <1>5, LengthSeq
<1>14. Splits(Write(c, len_ptr, u32(n)), d, u32(n), e)
  BY <1>9, <1>11, <1>13, Overwrite
<1> QED BY <1>6, <1>12, <1>14 DEF Splits, Added, Field, d, n, e

-----------------------------------------------------------------------------
(* Reading a request. *)

\* The words of a request as values.
Strings(cmd) == [i \in DOMAIN cmd |-> <<"str", cmd[i]>>]

\* A request is the number of its words and the words.
LEMMA ContentSeq ==
  ASSUME NEW cmd \in Seq(ByteString)
  PROVE  /\ Strings(cmd) \in Seq(Scalar) /\ Len(Strings(cmd)) = Len(cmd)
         /\ \A i \in 1 .. Len(cmd) :
              /\ Strings(cmd)[i] = <<"str", cmd[i]>>
              /\ EncodedItem(Strings(cmd)[i]) = <<TAG_STR>> \o Field(cmd[i])
         /\ Content(cmd) = u32(Len(cmd)) \o FlattenSeq(EncodedItems(Strings(cmd)))
         /\ Content(cmd) \in Seq(Digit)
<1> DEFINE n == Len(cmd)
           t == Strings(cmd)
<1>1. n \in Nat /\ DOMAIN cmd = 1 .. n /\ \A i \in 1 .. n : cmd[i] \in ByteString
  OBVIOUS
<1>2. t \in [1 .. n -> Scalar]
  BY <1>1 DEF Strings, Scalar
<1>3. \A i \in 1 .. n : t[i] = <<"str", cmd[i]>>
  BY <1>1 DEF Strings
<1>4. t \in Seq(Scalar) /\ Len(t) = n /\ DOMAIN t = 1 .. n
  BY <1>1, <1>2
<1>5. \A i \in 1 .. n : EncodedItem(t[i]) = <<TAG_STR>> \o Field(cmd[i])
  BY <1>3 DEF EncodedItem
<1>6. EncodedItems(t) = [i \in DOMAIN cmd |-> <<TAG_STR>> \o Field(cmd[i])]
  BY <1>1, <1>4, <1>5 DEF EncodedItems
<1>7. Content(cmd) = u32(n) \o FlattenSeq(EncodedItems(t))
  BY <1>6, Zenon DEF Content
<1>8. FlattenSeq(EncodedItems(t)) \in Seq(Digit)
  BY <1>4, FlattenDigits
<1>9. u32(n) \in Seq(Digit)
  BY <1>1, LengthSeq
<1>10. Content(cmd) \in Seq(Digit)
  BY <1>7, <1>8, <1>9, JoinDigits, Zenon
<1> QED BY <1>3, <1>4, <1>5, <1>7, <1>10

\* The middle of three joined sequences.
LEMMA MiddleOf ==
  ASSUME NEW S, NEW x \in Seq(S), NEW y \in Seq(S), NEW z \in Seq(S),
         NEW c, c = x \o (y \o z)
  PROVE  SubSeq(c, Len(x) + 1, Len(x) + Len(y)) = y
<1>1. /\ c \in Seq(S) /\ Len(c) = Len(x) + Len(y) + Len(z)
      /\ \A i \in 1 .. Len(y) : c[Len(x) + i] = y[i]
  <2>1. c \in Seq(S) /\ Len(c) = Len(x) + Len(y) + Len(z)
    BY ThreeItems
  <2>2. \A i \in 1 .. Len(y) : c[Len(x) + i] = y[i]
    BY ThreeItems
  <2> QED BY <2>1, <2>2
<1> DEFINE a == Len(x) + 1
           b == Len(x) + Len(y)
           m == SubSeq(c, a, b)
<1>2. Len(x) \in Nat /\ Len(y) \in Nat /\ Len(z) \in Nat
  OBVIOUS
<1>3. m \in Seq(S) /\ Len(m) = Len(y) /\ \A i \in 1 .. Len(y) : m[i] = c[Len(x) + i]
  <2>1. a \in 1 .. Len(c) + 1 /\ b \in 0 .. Len(c) /\ b - a + 1 = Len(y) /\ a <= b + 1
    BY <1>1, <1>2
  <2>2. m \in Seq(S) /\ Len(m) = (IF a <= b THEN b - a + 1 ELSE 0)
    BY <1>1, <1>2, <2>1
  <2>3. Len(m) = Len(y)
    BY <1>2, <2>1, <2>2
  <2>4. ASSUME NEW i \in 1 .. Len(y) PROVE m[i] = c[Len(x) + i]
    <3>1. i \in 1 .. b - a + 1 /\ a + i - 1 = Len(x) + i
      BY <1>2
    <3>2. m[i] = c[a + i - 1]
      BY <1>1, <1>2, <2>1, <3>1
    <3> QED BY <3>1, <3>2
  <2> QED BY <2>2, <2>3, <2>4
<1> HIDE DEF m
<1>4. m = y
  BY <1>1, <1>3, SeqEqual
<1> QED BY <1>4 DEF m, a, b

\* The word w lies between x and z in data.
Around(data, x, w, z) ==
  /\ x \in Seq(Digit) /\ w \in Seq(Digit) /\ z \in Seq(Digit)
  /\ data = x \o ((<<TAG_STR>> \o Field(w)) \o z)

\* parse_req finds the fields of w, which end at from, the text behind it.
WordAt(data, x, w, z, from) ==
  /\ data \in Seq(Digit) /\ Len(data) = from + Len(w) + Len(z) /\ from \in Nat
  /\ data[Len(x) + 1] = TAG_STR
  /\ Number(SubSeq(data, Len(x) + 2, from)) = Len(w)
  /\ SubSeq(data, from + 1, from + Len(w)) = w

\* It does so wherever the word is.
LEMMA WordInside ==
  ASSUME NEW data, NEW x, NEW w, NEW z, Around(data, x, w, z), Len(w) <= MAX_MSG
  PROVE  WordAt(data, x, w, z, Len(x) + 1 + W)
<1> DEFINE from == Len(x) + 1 + W
<1> USE DEF Around
<1> DEFINE t == <<TAG_STR>>
           u == u32(Len(w))
<1>1. t \in Seq(Digit) /\ Len(t) = 1 /\ t[1] = TAG_STR
  BY OneByte, TagIsDigit
<1>2. Len(x) \in Nat /\ Len(w) \in Nat /\ Len(z) \in Nat /\ W \in Nat /\ from \in Nat
  BY ByteAssumption
<1>3. u \in Seq(Digit) /\ Len(u) = W /\ Number(u) = Len(w)
  <2>1. Len(w) <= MAX_MSG + W
    BY <1>2, ByteAssumption
  <2> QED BY <1>2, <2>1, LengthSeq, LengthRoundTrip
<1>4. data = x \o ((t \o (u \o w)) \o z)
  BY DEF Field
<1> HIDE DEF t, u
<1> DEFINE wz == w \o z
           uw == u \o w
           xt == x \o t
           xtu == xt \o u
<1>5. /\ wz \in Seq(Digit) /\ uw \in Seq(Digit) /\ xt \in Seq(Digit) /\ xtu \in Seq(Digit)
  BY <1>1, <1>3, JoinDigits, Zenon
<1>6. u \o wz \in Seq(Digit)
  BY <1>3, <1>5, JoinDigits, Zenon
<1>7. data = x \o (t \o (u \o wz))
  <2>1. uw \o z = u \o wz
    BY <1>3, ThreeDigits, Zenon
  <2>2. data = x \o ((t \o uw) \o z)
    BY <1>4
  <2> HIDE DEF uw, wz
  <2>3. t \o (uw \o z) = (t \o uw) \o z
    <3>1. t \in Seq(Digit) /\ uw \in Seq(Digit) /\ z \in Seq(Digit)
      BY <1>1, <1>5
    <3> QED BY ONLY <3>1, ThreeDigits, Zenon
  <2> QED BY <2>1, <2>2, <2>3, Zenon
<1>8. data = xt \o (u \o wz)
  BY ONLY <1>1, <1>6, <1>7, x \in Seq(Digit), ThreeDigits, Zenon
<1>9. data = xtu \o wz
  <2> HIDE DEF wz, xt
  <2>1. xt \in Seq(Digit) /\ u \in Seq(Digit) /\ wz \in Seq(Digit)
    BY <1>3, <1>5
  <2>2. xt \o (u \o wz) = (xt \o u) \o wz
    BY ONLY <2>1, ThreeDigits, Zenon
  <2> QED BY <1>8, <2>2
<1>10. Len(xt) = Len(x) + 1 /\ Len(xtu) = from
  <2>1. Len(xt) = Len(x) + Len(t)
    BY <1>1, JoinDigits, Zenon
  <2>2. Len(xtu) = Len(xt) + Len(u)
    BY <1>3, <1>5, JoinDigits, Zenon
  <2> HIDE DEF xt, xtu
  <2> QED BY <1>1, <1>2, <1>3, <2>1, <2>2
<1>11. data \in Seq(Digit) /\ Len(data) = from + Len(w) + Len(z)
  <2>1. data \in Seq(Digit) /\ Len(data) = Len(xtu) + Len(wz)
    BY <1>5, <1>9, JoinDigits, Zenon
  <2>2. Len(wz) = Len(w) + Len(z)
    BY JoinDigits, Zenon
  <2> QED BY <1>2, <1>10, <2>1, <2>2
<1> HIDE DEF wz, xt, xtu
<1>12. data[Len(x) + 1] = TAG_STR
  <2>1. 1 \in 1 .. Len(t)
    BY <1>1
  <2>2. \A i \in 1 .. Len(t) : data[Len(x) + i] = t[i]
    <3> DEFINE r == u \o wz
    <3>1. t \in Seq(Digit) /\ r \in Seq(Digit) /\ data = x \o (t \o r)
      BY <1>1, <1>6, <1>7
    <3> HIDE DEF r
    <3>2. \A i \in 1 .. Len(t) : (x \o (t \o r))[Len(x) + i] = t[i]
      BY <3>1, ThreeItems
    <3> QED BY <3>1, <3>2
  <2> QED BY <1>1, <2>1, <2>2
<1>13. SubSeq(data, Len(x) + 2, from) = u
  <2>1. SubSeq(data, Len(xt) + 1, Len(xt) + Len(u)) = u
    <3>1. xt \in Seq(Digit) /\ u \in Seq(Digit) /\ wz \in Seq(Digit)
      BY <1>3, <1>5
    <3> HIDE DEF xt, wz
    <3> QED BY ONLY <1>8, <3>1, MiddleOf
  <2>2. Len(xt) + 1 = Len(x) + 2 /\ Len(xt) + Len(u) = from
    BY <1>2, <1>3, <1>10
  <2> QED BY <2>1, <2>2
<1>14. SubSeq(data, from + 1, from + Len(w)) = w
  <2>1. data = xtu \o (w \o z)
    BY <1>9 DEF wz
  <2>2. SubSeq(data, Len(xtu) + 1, Len(xtu) + Len(w)) = w
    <3>1. xtu \in Seq(Digit)
      BY <1>5
    <3> HIDE DEF xtu
    <3> QED BY ONLY <2>1, <3>1, w \in Seq(Digit), z \in Seq(Digit), MiddleOf
  <2> QED BY <1>10, <2>2
<1> QED BY <1>2, <1>3, <1>11, <1>12, <1>13, <1>14 DEF WordAt

\* What parse_req has read after i words.
WordsRead(cmd, h, i) == [ok |-> TRUE, pos |-> W + Len(h[i]), words |-> SubSeq(cmd, 1, i)]

\* One more element of a sequence.
LEMMA FirstMore ==
  ASSUME NEW S, NEW s \in Seq(S), NEW i \in 1 .. Len(s)
  PROVE  SubSeq(s, 1, i) = Append(SubSeq(s, 1, i - 1), s[i])
<1> DEFINE a == SubSeq(s, 1, i)
           b == SubSeq(s, 1, i - 1)
           c == Append(b, s[i])
<1>1. a \in Seq(S) /\ Len(a) = i /\ \A j \in 1 .. i : a[j] = s[j]
  OBVIOUS
<1>2. b \in Seq(S) /\ Len(b) = i - 1 /\ \A j \in 1 .. i - 1 : b[j] = s[j]
  OBVIOUS
<1>3. s[i] \in S
  OBVIOUS
<1> HIDE DEF b
<1>4. c \in Seq(S) /\ Len(c) = i /\ c[i] = s[i] /\ \A j \in 1 .. i - 1 : c[j] = b[j]
  BY <1>2, <1>3
<1> HIDE DEF a, c
<1>5. ASSUME NEW j \in 1 .. i PROVE a[j] = c[j]
  <2>1. j = i \/ j \in 1 .. i - 1
    OBVIOUS
  <2> QED BY <1>1, <1>2, <1>4, <2>1
<1>6. a = c
  BY <1>1, <1>4, <1>5, SeqEqual
<1> QED BY <1>6 DEF a, c, b

\* Each round of parse_req over a request reads its next word.
LEMMA ReadNextWord ==
  ASSUME NEW cmd \in Seq(ByteString), NEW data, data = Content(cmd), Len(data) <= MAX_MSG,
         NEW e, e = EncodedItems(Strings(cmd)),
         NEW h \in [0 .. Len(cmd) -> Seq(Digit)], Flattens(h, e),
         NEW i \in 1 .. Len(cmd)
  PROVE  /\ ReadWord(data, WordsRead(cmd, h, i - 1)) = WordsRead(cmd, h, i)
         /\ Len(h[i]) > Len(h[i - 1])
<1> DEFINE n == Len(cmd)
           u == u32(n)
           w == cmd[i]
           part == <<TAG_STR>> \o Field(w)
           before == h[i - 1]
           x == u \o before
           from == Len(x) + 1 + W
<1>1. /\ n \in Nat /\ i - 1 \in 0 .. n /\ i \in 0 .. n /\ w \in Seq(Digit)
      /\ before \in Seq(Digit) /\ h[i] \in Seq(Digit)
  <2>1. ByteString = Seq(Digit)
    BY DEF ByteString, Digit
  <2>2. n \in Nat /\ i - 1 \in 0 .. n /\ i \in 0 .. n
    OBVIOUS
  <2>3. w \in ByteString
    OBVIOUS
  <2> QED BY <2>1, <2>2, <2>3
<1>2. /\ Strings(cmd) \in Seq(Scalar) /\ Len(Strings(cmd)) = n
      /\ EncodedItem(Strings(cmd)[i]) = part
      /\ data = u \o FlattenSeq(e) /\ data \in Seq(Digit)
  BY ContentSeq
<1>3. /\ e \in Seq(Seq(Digit)) /\ Len(e) = n /\ e[i] = part
  BY <1>2, EncodedItemsSeq
<1>4. h[i] = before \o part
  BY <1>3 DEF Flattens
<1>5. FlattenSeq(e) = h[n]
  BY <1>3, FlattenIs
<1>6. u \in Seq(Digit) /\ Len(u) = W /\ W \in Nat
  BY <1>1, LengthSeq, ByteAssumption
<1>7. part \in Seq(Digit) /\ Len(part) = 1 + W + Len(w)
  <2> DEFINE t == <<TAG_STR>>
  <2>1. t \in Seq(Digit) /\ Len(t) = 1
    BY OneByte, TagIsDigit
  <2>2. Field(w) \in Seq(Digit) /\ Len(Field(w)) = W + Len(w)
    BY <1>1, FieldSeq
  <2>3. part \in Seq(Digit) /\ Len(part) = Len(t) + Len(Field(w))
    BY <2>1, <2>2, JoinDigits, Zenon
  <2>4. Len(w) \in Nat
    BY <1>1
  <2> HIDE DEF part, t, w
  <2>5. Len(part) = 1 + (W + Len(w)) /\ 1 + (W + Len(w)) = 1 + W + Len(w)
    BY <1>6, <2>1, <2>2, <2>3, <2>4
  <2> QED BY <2>3, <2>5
<1>8. PICK z \in Seq(Digit) : h[n] = h[i] \o z
  <2>1. h \in [0 .. Len(e) -> Seq(Digit)] /\ i \in 0 .. Len(e)
    BY <1>1, <1>3
  <2>2. \E z \in Seq(Digit) : h[Len(e)] = h[i] \o z
    BY <1>3, <2>1, FlattenSplit
  <2> QED BY <1>3, <2>2
<1> HIDE DEF u, w, n, before
<1>9. x \in Seq(Digit) /\ Len(x) = W + Len(before) /\ Len(before) \in Nat
  <2>1. x \in Seq(Digit) /\ Len(x) = Len(u) + Len(before)
    BY <1>1, <1>6, JoinDigits, Zenon
  <2> HIDE DEF x
  <2> QED BY <1>1, <1>6, <2>1
<1>10. data = x \o (part \o z)
  <2> HIDE DEF part, x
  <2>1. data = u \o ((before \o part) \o z)
    BY <1>2, <1>4, <1>5, <1>8
  <2>2. before \o (part \o z) = (before \o part) \o z
    <3>1. before \in Seq(Digit) /\ part \in Seq(Digit) /\ z \in Seq(Digit)
      BY <1>1, <1>7
    <3> QED BY ONLY <3>1, ThreeDigits, Zenon
  <2>3. part \o z \in Seq(Digit)
    BY <1>7, JoinDigits
  <2>4. u \o (before \o (part \o z)) = (u \o before) \o (part \o z)
    <3> DEFINE pz == part \o z
    <3>1. u \in Seq(Digit) /\ before \in Seq(Digit) /\ pz \in Seq(Digit)
      BY <1>1, <1>6, <2>3
    <3> HIDE DEF pz
    <3>2. u \o (before \o pz) = (u \o before) \o pz
      BY ONLY <3>1, ThreeDigits, Zenon
    <3> QED BY <3>2 DEF pz
  <2> QED BY <2>1, <2>2, <2>4 DEF x
<1>11. Len(w) \in Nat /\ Len(z) \in Nat
  BY <1>1
<1>12. Len(h[i]) = Len(before) + (1 + W + Len(w))
  <2> HIDE DEF part
  <2>1. Len(before \o part) = Len(before) + Len(part)
    BY <1>1, <1>7, JoinDigits, Zenon
  <2> QED BY <1>4, <1>7, <2>1
<1>13. Len(w) <= MAX_MSG
  <2> HIDE DEF part, x
  <2>1. Len(part \o z) = Len(part) + Len(z) /\ part \o z \in Seq(Digit)
    BY <1>7, JoinDigits
  <2>2. Len(data) = Len(x) + Len(part \o z)
    BY <1>9, <1>10, <2>1, JoinDigits
  <2>3. MAX_MSG \in Nat
    BY ByteAssumption
  <2> QED BY <1>6, <1>7, <1>9, <1>11, <2>1, <2>2, <2>3
<1> HIDE DEF x
<1>14. from \in Nat /\ from = Len(x) + 1 + W
  BY <1>6, <1>9
<1> HIDE DEF from
<1>15. /\ Len(data) = from + Len(w) + Len(z)
       /\ data[Len(x) + 1] = TAG_STR
       /\ Number(SubSeq(data, Len(x) + 2, from)) = Len(w)
       /\ SubSeq(data, from + 1, from + Len(w)) = w
  <2>1. Around(data, x, w, z)
    BY <1>1, <1>9, <1>10 DEF Around
  <2>2. WordAt(data, x, w, z, Len(x) + 1 + W)
    BY <1>13, <2>1, WordInside
  <2> QED BY <1>14, <2>2 DEF WordAt
<1> DEFINE r == WordsRead(cmd, h, i - 1)
<1>16. r.ok = TRUE /\ r.pos = Len(x) /\ r.words = SubSeq(cmd, 1, i - 1)
  BY <1>9 DEF WordsRead, before
<1> HIDE DEF r
<1>17. from + Len(w) = W + Len(h[i])
  BY <1>6, <1>9, <1>11, <1>12, <1>14
<1>18. ReadWord(data, r) = [ok |-> TRUE, pos |-> from + Len(w), words |-> Append(r.words, w)]
  <2>1. /\ r.pos + 1 + W = from /\ ~ (from > Len(data)) /\ ~ (from + Len(w) > Len(data))
        /\ data[r.pos + 1] = TAG_STR /\ Number(SubSeq(data, r.pos + 2, from)) = Len(w)
        /\ r.ok
    <3>1. r.pos + 1 + W = from /\ r.pos + 1 = Len(x) + 1 /\ r.pos + 2 = Len(x) + 2 /\ r.ok
      BY <1>14, <1>16
    <3>2. ~ (from > Len(data)) /\ ~ (from + Len(w) > Len(data))
      <4>1. from \in Nat /\ Len(data) = from + Len(w) + Len(z)
        BY <1>14, <1>15
      <4> QED BY <1>11, <4>1
    <3> QED BY <1>15, <3>1, <3>2
  <2> QED BY <1>15, <2>1 DEF ReadWord
<1>19. Append(r.words, w) = SubSeq(cmd, 1, i)
  BY <1>16, FirstMore DEF w
<1>20. ReadWord(data, r) = WordsRead(cmd, h, i)
  BY <1>17, <1>18, <1>19 DEF WordsRead
<1>21. Len(h[i]) > Len(before)
  BY <1>6, <1>9, <1>11, <1>12
<1> QED BY <1>20, <1>21 DEF before, r

\* Every request that fits is read back as the words that were written, and
\* refused only if there are too many of them.
THEOREM RequestUnderstood ==
  ASSUME NEW cmd \in Seq(ByteString), Len(Content(cmd)) <= MAX_MSG
  PROVE  parse_req(Content(cmd))
           = IF Len(cmd) <= MAX_CMDS THEN [ok |-> TRUE, words |-> cmd] ELSE Bad
<1> DEFINE data == Content(cmd)
           n == Len(cmd)
           e == EncodedItems(Strings(cmd))
           u == u32(n)
<1>1. /\ n \in Nat /\ n \in 0 .. n /\ 0 \in 0 .. n /\ W \in Nat /\ MAX_CMDS \in Nat
      /\ MAX_MSG \in Nat
  BY ByteAssumption
<1>2. /\ Strings(cmd) \in Seq(Scalar) /\ Len(Strings(cmd)) = n
      /\ data = u \o FlattenSeq(e) /\ data \in Seq(Digit)
  BY ContentSeq
<1>3. e \in Seq(Seq(Digit)) /\ Len(e) = n
  BY <1>2, EncodedItemsSeq
<1>4. u \in Seq(Digit) /\ Len(u) = W
  BY <1>1, LengthSeq
<1> HIDE DEF data, e, u
<1>5. PICK h \in [0 .. n -> Seq(Digit)] : Flattens(h, e) /\ FlattenSeq(e) = h[n]
  BY <1>3, FlattenByParts
<1>6. \A i \in 0 .. n : Len(h[i]) \in Nat
  OBVIOUS
<1>7. ASSUME NEW i \in 1 .. n
      PROVE  ReadWord(data, WordsRead(cmd, h, i - 1)) = WordsRead(cmd, h, i)
               /\ Len(h[i]) > Len(h[i - 1])
  BY <1>5, ReadNextWord DEF data, e
<1> HIDE DEF n
<1>8. Len(data) = W + Len(h[n])
  <2>1. h[n] \in Seq(Digit)
    BY <1>1
  <2>2. Len(u \o h[n]) = Len(u) + Len(h[n])
    BY <1>4, <2>1, JoinDigits, Zenon
  <2> QED BY <1>2, <1>4, <1>5, <2>2
<1>9. n <= MAX_MSG + W
  <2> DEFINE P == {i \in 0 .. n : Len(h[i]) >= i}
  <2>1. 0 \in P
    BY <1>1, <1>6
  <2>2. ASSUME NEW i \in 1 .. n, i - 1 \in P PROVE i \in P
    <3>1. i - 1 \in 0 .. n /\ i \in 0 .. n
      BY <1>1
    <3>2. Len(h[i - 1]) >= i - 1 /\ Len(h[i]) > Len(h[i - 1])
      BY <1>7, <2>2
    <3>3. Len(h[i - 1]) \in Nat /\ Len(h[i]) \in Nat
      BY <1>6, <3>1
    <3>4. Len(h[i]) >= i
      BY <3>2, <3>3
    <3> QED BY <3>1, <3>4
  <2> HIDE DEF P
  <2>3. \A i \in 0 .. n : i \in P
    BY <1>1, <2>1, <2>2, UpToInduction
  <2>4. Len(h[n]) >= n /\ Len(h[n]) \in Nat
    BY <1>1, <1>6, <2>3 DEF P
  <2>5. Len(data) <= MAX_MSG
    BY DEF data
  <2> QED BY <1>1, <1>8, <2>4, <2>5
<1>10. Number(SubSeq(data, 1, W)) = n /\ ~ (Len(data) < W)
  <2>1. h[n] \in Seq(Digit) /\ Len(h[n]) \in Nat
    BY <1>1, <1>6
  <2>2. data = u \o h[n]
    BY <1>2, <1>5
  <2>3. SubSeq(data, 1, W) = u
    <3> DEFINE z == h[n]
    <3> HIDE DEF z
    <3>1. u \in Seq(Digit) /\ z \in Seq(Digit) /\ data = u \o z /\ Len(u) = W
      BY <1>4, <2>1, <2>2 DEF z
    <3>2. data = <<>> \o (u \o z) /\ <<>> \in Seq(Digit) /\ Len(<<>>) = 0
      BY <3>1
    <3>3. SubSeq(data, Len(<<>>) + 1, Len(<<>>) + Len(u)) = u
      BY <3>1, <3>2, MiddleOf
    <3>4. Len(<<>>) + 1 = 1 /\ Len(<<>>) + Len(u) = W
      BY <1>1, <3>1, <3>2
    <3> QED BY <3>3, <3>4
  <2>4. Number(u) = n
    BY <1>1, <1>9, LengthRoundTrip DEF u
  <2> DEFINE k == Len(h[n])
  <2>5. k \in Nat /\ Len(data) = W + k
    BY <1>8, <2>1
  <2> HIDE DEF k
  <2>6. ~ (Len(data) < W)
    BY <1>1, <2>5
  <2> QED BY <2>3, <2>4, <2>6
<1> DEFINE start == [ok |-> TRUE, pos |-> W, words |-> <<>>]
           Eq(f) == f = [i \in 0 .. n |-> IF i = 0 THEN [ok |-> TRUE, pos |-> W, words |-> <<>>]
                                          ELSE ReadWord(data, f[i - 1])]
           read == CHOOSE f : Eq(f)
           f == [i \in 0 .. n |-> WordsRead(cmd, h, i)]
<1>11. f[0] = start
  <2>1. h[0] = <<>> /\ Len(<<>>) = 0
    BY <1>5 DEF Flattens
  <2>2. SubSeq(cmd, 1, 0) = <<>>
    OBVIOUS
  <2>3. W + 0 = W
    BY <1>1
  <2> QED BY <1>1, <2>1, <2>2, <2>3 DEF WordsRead
<1>12. \A i \in 1 .. n : f[i] = ReadWord(data, f[i - 1])
  <2> TAKE i \in 1 .. n
  <2>1. i \in 0 .. n /\ i - 1 \in 0 .. n
    BY <1>1
  <2>2. f[i] = WordsRead(cmd, h, i) /\ f[i - 1] = WordsRead(cmd, h, i - 1)
    BY <2>1
  <2> HIDE DEF f
  <2> QED BY <1>7, <2>2
<1>13. f[n] = WordsRead(cmd, h, n) /\ f = [i \in 0 .. n |-> f[i]]
  BY <1>1
<1> HIDE DEF f
<1>14. Eq(read)
  <2>1. \A i \in 0 .. n : i = 0 \/ i \in 1 .. n
    BY <1>1
  <2>2. \A i \in 0 .. n : f[i] = IF i = 0 THEN start ELSE ReadWord(data, f[i - 1])
    BY <1>11, <1>12, <2>1
  <2>3. Eq(f)
    BY <1>13, <2>2, Zenon
  <2> QED BY <2>3, Zenon
<1>15. ReadWords(data, n) = IF read[n].ok /\ read[n].pos = Len(data)
                            THEN [ok |-> TRUE, words |-> read[n].words] ELSE Bad
  BY Zenon DEF ReadWords
<1> HIDE DEF read
<1>16. read[n] = f[n]
  <2> DEFINE P == {i \in 0 .. n : read[i] = f[i]}
  <2>1. \A i \in 0 .. n : read[i] = IF i = 0 THEN start ELSE ReadWord(data, read[i - 1])
    BY <1>14, Zenon
  <2>2. 0 \in P
    BY <1>1, <1>11, <2>1
  <2>3. ASSUME NEW i \in 1 .. n, i - 1 \in P PROVE i \in P
    <3>1. i \in 0 .. n /\ i # 0 /\ read[i - 1] = f[i - 1]
      BY <1>1, <2>3
    <3>2. read[i] = ReadWord(data, read[i - 1])
      BY <2>1, <3>1
    <3>3. f[i] = ReadWord(data, f[i - 1])
      BY <1>12
    <3> QED BY <3>1, <3>2, <3>3
  <2> HIDE DEF P
  <2>4. \A i \in 0 .. n : i \in P
    BY <1>1, <2>2, <2>3, UpToInduction
  <2> QED BY <1>1, <2>4 DEF P
<1>17. /\ read[n].ok = TRUE /\ read[n].pos = Len(data) /\ read[n].words = cmd
  <2>1. SubSeq(cmd, 1, n) = cmd
    BY DEF n
  <2>2. read[n] = WordsRead(cmd, h, n)
    BY <1>13, <1>16
  <2>3. read[n] = [ok |-> TRUE, pos |-> W + Len(h[n]), words |-> cmd]
    BY <2>1, <2>2 DEF WordsRead
  <2> QED BY <1>8, <2>3
<1>18. ReadWords(data, n) = [ok |-> TRUE, words |-> cmd]
  BY <1>15, <1>17
<1>19. parse_req(data) = IF n > MAX_CMDS THEN Bad ELSE ReadWords(data, n)
  BY <1>10 DEF parse_req
<1>20. n > MAX_CMDS <=> ~ (n <= MAX_CMDS)
  BY <1>1
<1> QED BY <1>18, <1>19, <1>20 DEF data, n

-----------------------------------------------------------------------------
(* Reading a response. *)

\* g gives what print_response has after each element of an array.
IsItems(g, p, n, print) ==
  g = [i \in 0 .. n |-> IF i = 0 THEN [rv |-> 1 + W, val |-> <<"arr", <<>>>>]
                        ELSE PrintItem(g[i - 1], print[p + g[i - 1].rv])]

\* There is such a function.
LEMMA ItemsExist ==
  ASSUME NEW p, NEW n \in Nat, NEW print
  PROVE  \E g : IsItems(g, p, n, print)
<1> DEFINE start == [rv |-> 1 + W, val |-> <<"arr", <<>>>>]
           Step(r) == PrintItem(r, print[p + r.rv])
           P == {k \in 0 .. n : \E g : IsItems(g, p, k, print)}
<1>1. 0 \in P
  <2> DEFINE g == [i \in 0 .. 0 |-> start]
  <2>1. \A i \in 0 .. 0 : g[i] = IF i = 0 THEN start ELSE Step(g[i - 1])
    OBVIOUS
  <2>2. g = [i \in 0 .. 0 |-> g[i]]
    OBVIOUS
  <2> HIDE DEF g
  <2>3. IsItems(g, p, 0, print)
    BY <2>1, <2>2, Zenon DEF IsItems
  <2> QED BY <2>3
<1>2. ASSUME NEW k \in 1 .. n, k - 1 \in P PROVE k \in P
  <2>1. PICK f : IsItems(f, p, k - 1, print)
    BY <1>2
  <2> DEFINE g == [i \in 0 .. k |-> IF i < k THEN f[i] ELSE Step(f[k - 1])]
  <2>2. \A i \in 0 .. k - 1 : f[i] = IF i = 0 THEN start ELSE Step(f[i - 1])
    BY <2>1, Zenon DEF IsItems
  <2>3. /\ \A i \in 0 .. k - 1 : g[i] = f[i]
        /\ g[k] = Step(f[k - 1])
        /\ g = [i \in 0 .. k |-> g[i]]
    <3> HIDE DEF Step
    <3> QED OBVIOUS
  <2> HIDE DEF g, Step, start
  <2>4. ASSUME NEW i \in 0 .. k PROVE g[i] = IF i = 0 THEN start ELSE Step(g[i - 1])
    <3>1. CASE i = k
      <4>1. k - 1 \in 0 .. k - 1 /\ k # 0
        OBVIOUS
      <4> QED BY <2>3, <3>1, <4>1
    <3>2. CASE i # k
      <4>1. i \in 0 .. k - 1 /\ (i # 0 => i - 1 \in 0 .. k - 1)
        BY <3>2
      <4> QED BY <2>2, <2>3, <4>1
    <3> QED BY <3>1, <3>2
  <2>5. IsItems(g, p, k, print)
    BY <2>3, <2>4, Zenon DEF IsItems, Step, start
  <2>6. k \in 0 .. n
    OBVIOUS
  <2> QED BY <2>5, <2>6
<1>3. n \in 0 .. n
  OBVIOUS
<1> HIDE DEF P
<1>4. \A i \in 0 .. n : i \in P
  BY <1>1, <1>2, UpToInduction
<1> QED BY <1>3, <1>4 DEF P

\* PrintItems is its last value.
LEMMA ItemsLast ==
  ASSUME NEW p, NEW n \in Nat, NEW print
  PROVE  \E g : IsItems(g, p, n, print) /\ PrintItems(p, n, print) = g[n]
<1> DEFINE Eq(g) == g = [i \in 0 .. n |-> IF i = 0 THEN [rv |-> 1 + W, val |-> <<"arr", <<>>>>]
                        ELSE PrintItem(g[i - 1], print[p + g[i - 1].rv])]
           items == CHOOSE g : Eq(g)
<1>1. PICK g : IsItems(g, p, n, print)
  BY ItemsExist
<1>2. Eq(g)
  BY <1>1, Zenon DEF IsItems
<1>3. Eq(items)
  BY <1>2, Zenon
<1>4. PrintItems(p, n, print) = items[n]
  BY Zenon DEF PrintItems
<1>5. IsItems(items, p, n, print)
  BY <1>3, Zenon DEF IsItems
<1> HIDE DEF items
<1> QED BY <1>4, <1>5

\* What a call returns is a number of bytes or -1.
Counts(print) == \A q \in Nat : print[q].rv \in Int

\* What an array gives depends on the calls for bytes behind p only.
LEMMA ItemsAgree ==
  ASSUME NEW p \in Nat, NEW n \in Nat, NEW f, NEW g, Counts(f), Counts(g),
         \A q \in Nat : q > p => f[q] = g[q]
  PROVE  PrintItems(p, n, f) = PrintItems(p, n, g) /\ PrintItems(p, n, f).rv \in Int
<1>1. PICK a : IsItems(a, p, n, f) /\ PrintItems(p, n, f) = a[n]
  BY ItemsLast
<1>2. PICK b : IsItems(b, p, n, g) /\ PrintItems(p, n, g) = b[n]
  BY ItemsLast
<1> DEFINE start == [rv |-> 1 + W, val |-> <<"arr", <<>>>>]
           P == {i \in 0 .. n : a[i] = b[i] /\ a[i].rv \in Int /\ (a[i].rv < 0 \/ a[i].rv > 0)}
<1>3. \A i \in 0 .. n : a[i] = IF i = 0 THEN start ELSE PrintItem(a[i - 1], f[p + a[i - 1].rv])
  BY <1>1, Zenon DEF IsItems
<1>4. \A i \in 0 .. n : b[i] = IF i = 0 THEN start ELSE PrintItem(b[i - 1], g[p + b[i - 1].rv])
  BY <1>2, Zenon DEF IsItems
<1>5. 0 \in P
  <2>1. 0 \in 0 .. n /\ start.rv = 1 + W /\ W \in Nat
    BY ByteAssumption
  <2>2. a[0] = start /\ b[0] = start
    BY <1>3, <1>4, <2>1
  <2> HIDE DEF start
  <2> QED BY <2>1, <2>2
<1>6. ASSUME NEW i \in 1 .. n, i - 1 \in P PROVE i \in P
  <2> DEFINE r == a[i - 1]
             q == p + r.rv
  <2>1. /\ i \in 0 .. n /\ i # 0 /\ r = b[i - 1] /\ r.rv \in Int /\ (r.rv < 0 \/ r.rv > 0)
    BY <1>6
  <2>2. a[i] = PrintItem(r, f[q]) /\ b[i] = PrintItem(r, g[q])
    BY <1>3, <1>4, <2>1
  <2> HIDE DEF r, P
  <2>3. CASE r.rv < 0
    <3>1. a[i] = BadResponse /\ b[i] = BadResponse
      BY <2>2, <2>3 DEF PrintItem
    <3>2. BadResponse.rv = -1
      BY DEF BadResponse
    <3> QED BY <2>1, <3>1, <3>2 DEF P
  <2>4. CASE r.rv > 0
    <3>1. q \in Nat /\ q > p
      BY <2>1, <2>4
    <3>2. f[q] = g[q] /\ f[q].rv \in Int
      BY <3>1 DEF Counts
    <3>3. PrintItem(r, f[q]).rv \in Int /\ (PrintItem(r, f[q]).rv < 0 \/ PrintItem(r, f[q]).rv > 0)
      <4> DEFINE x == f[q]
      <4>1. x.rv \in Int
        BY <3>2
      <4> HIDE DEF x
      <4>2. CASE x.rv < 0
        <5>1. PrintItem(r, x).rv = -1
          BY <4>2 DEF PrintItem, BadResponse
        <5> QED BY <5>1 DEF x
      <4>3. CASE ~ (x.rv < 0)
        <5>1. PrintItem(r, x).rv = r.rv + x.rv
          BY <2>1, <2>4, <4>1, <4>3 DEF PrintItem
        <5>2. r.rv + x.rv \in Int /\ r.rv + x.rv > 0
          BY <2>1, <2>4, <4>1, <4>3
        <5> QED BY <5>1, <5>2 DEF x
      <4> QED BY <4>2, <4>3
    <3> QED BY <2>1, <2>2, <3>2, <3>3 DEF P
  <2> QED BY <2>1, <2>3, <2>4
<1> HIDE DEF P
<1>7. n \in P
  <2>1. \A i \in 0 .. n : i \in P
    BY <1>5, <1>6, UpToInduction
  <2> QED BY <2>1
<1> QED BY <1>1, <1>2, <1>7 DEF P

\* A number read from digits.
LEMMA NumberNat ==
  ASSUME NEW s \in Seq(Digit)
  PROVE  Number(s) \in Nat
<1>1. PICK h \in [0 .. Len(s) -> Nat] : Number(s) = h[Len(s)]
  BY NumberBySteps
<1>2. Len(s) \in 0 .. Len(s)
  OBVIOUS
<1> QED BY <1>1, <1>2

\* What a value that is not an array counts.
LEMMA ScalarCounts ==
  ASSUME NEW data \in Seq(Digit)
  PROVE  PrintScalar(data).rv \in Int
<1> DEFINE str == Text(data, 1 + W)
           err == Text(data, 1 + 1 + W)
<1>1. W \in Nat /\ D \in Nat /\ Len(data) \in Nat
  BY ByteAssumption
<1>2. ASSUME NEW k \in Nat PROVE Text(data, k + W).ok => Text(data, k + W).len \in Nat
  <2> DEFINE len == Number(SubSeq(data, (k + W) - W + 1, k + W))
             fits == k + W <= Len(data) /\ k + W + len <= Len(data)
             text == SubSeq(data, k + W + 1, k + W + len)
  <2>1. Text(data, k + W) = [len |-> len, ok |-> fits, s |-> text]
    BY Zenon DEF Text
  <2>2. Text(data, k + W).ok = fits /\ Text(data, k + W).len = len
    <3> HIDE DEF len, fits, text
    <3> QED BY <2>1
  <2>3. ASSUME k + W <= Len(data) PROVE SubSeq(data, (k + W) - W + 1, k + W) \in Seq(Digit)
    <3>1. (k + W) - W + 1 \in 1 .. Len(data) + 1 /\ k + W \in 0 .. Len(data)
      BY <1>1, <2>3
    <3> QED BY <3>1
  <2>4. fits => len \in Nat
    BY <2>3, NumberNat
  <2> HIDE DEF len, fits
  <2> QED BY <2>2, <2>4
<1>3. str.ok => str.len \in Nat
  BY <1>2
<1>4. err.ok => err.len \in Nat
  <2>1. 1 + 1 \in Nat
    OBVIOUS
  <2> QED BY <1>2, <2>1
<1> DEFINE num == Number(SubSeq(data, 2, 1 + D))
           long == Len(data) >= 1 + D
<1>5. PrintScalar(data) =
        CASE data[1] = TAG_NIL -> [rv |-> 0, val |-> <<"nil">>]
          [] data[1] = TAG_ERR /\ err.ok ->
               [rv |-> 1 + 2 * W + err.len, val |-> <<"err", data[2], err.s>>]
          [] data[1] = TAG_STR /\ str.ok -> [rv |-> 1 + W + str.len, val |-> <<"str", str.s>>]
          [] data[1] = TAG_INT /\ long -> [rv |-> 1 + D, val |-> <<"int", num>>]
          [] data[1] = TAG_DBL /\ long -> [rv |-> 1 + D, val |-> <<"dbl", num>>]
          [] OTHER -> BadResponse
  BY Zenon DEF PrintScalar
<1> HIDE DEF str, err, num, long
<1> QED BY <1>1, <1>3, <1>4, <1>5 DEF BadResponse, TAG_NIL, TAG_ERR, TAG_STR, TAG_INT, TAG_DBL

\* What a call gives depends on the calls for bytes behind it only.
LEMMA FromAgree ==
  ASSUME NEW data \in Seq(Digit), NEW p \in Nat, NEW f, NEW g, Counts(f), Counts(g),
         \A q \in Nat : q > p => f[q] = g[q]
  PROVE  PrintFrom(data, p, f) = PrintFrom(data, p, g) /\ PrintFrom(data, p, f).rv \in Int
<1> DEFINE rest == SubSeq(data, p + 1, Len(data))
           n == Number(SubSeq(rest, 2, 1 + W))
<1>1. rest \in Seq(Digit)
  OBVIOUS
<1>2. PrintFrom(data, p, f) = IF rest = <<>> THEN BadResponse
                              ELSE IF rest[1] = TAG_ARR /\ Len(rest) >= 1 + W
                              THEN PrintItems(p, n, f) ELSE PrintScalar(rest)
  BY Zenon DEF PrintFrom
<1>3. PrintFrom(data, p, g) = IF rest = <<>> THEN BadResponse
                              ELSE IF rest[1] = TAG_ARR /\ Len(rest) >= 1 + W
                              THEN PrintItems(p, n, g) ELSE PrintScalar(rest)
  BY Zenon DEF PrintFrom
<1> HIDE DEF rest
<1>4. ASSUME Len(rest) >= 1 + W PROVE n \in Nat
  <2>1. SubSeq(rest, 2, 1 + W) \in Seq(Digit)
    <3>1. 1 + W \in 0 .. Len(rest) /\ 2 \in 1 .. Len(rest) + 1
      BY <1>1, <1>4, ByteAssumption
    <3> QED BY <1>1, <3>1
  <2> QED BY <2>1, NumberNat
<1> HIDE DEF n
<1>5. BadResponse.rv \in Int
  BY DEF BadResponse
<1>6. PrintScalar(rest).rv \in Int
  BY <1>1, ScalarCounts
<1>7. CASE rest # <<>> /\ rest[1] = TAG_ARR /\ Len(rest) >= 1 + W
  <2>1. n \in Nat
    BY <1>4, <1>7
  <2>2. PrintItems(p, n, f) = PrintItems(p, n, g) /\ PrintItems(p, n, f).rv \in Int
    BY <2>1, ItemsAgree
  <2> QED BY <1>2, <1>3, <1>7, <2>2
<1>8. CASE ~ (rest # <<>> /\ rest[1] = TAG_ARR /\ Len(rest) >= 1 + W)
  BY <1>2, <1>3, <1>5, <1>6, <1>8
<1> QED BY <1>7, <1>8

\* f gives the calls for the bytes behind the first m and later ones.
Calls(f, data, m) ==
  /\ f = [q \in Nat |-> f[q]] /\ Counts(f)
  /\ \A q \in Nat : q >= m => f[q] = PrintFrom(data, q, f)

\* The calls are defined, from the last byte down.
LEMMA CallsExist ==
  ASSUME NEW data \in Seq(Digit)
  PROVE  \E f : Calls(f, data, 0)
<1> DEFINE n == Len(data)
           P == {k \in 0 .. n : \E f : Calls(f, data, n - k)}
<1>1. n \in Nat
  OBVIOUS
<1>2. 0 \in P
  <2> DEFINE f == [q \in Nat |-> BadResponse]
  <2>1. \A q \in Nat : f[q] = BadResponse
    OBVIOUS
  <2>2. f = [q \in Nat |-> f[q]]
    OBVIOUS
  <2> HIDE DEF f
  <2>3. Counts(f)
    BY <2>1 DEF Counts, BadResponse
  <2>4. ASSUME NEW q \in Nat, q >= n PROVE f[q] = PrintFrom(data, q, f)
    <3>1. SubSeq(data, q + 1, Len(data)) = <<>>
      BY <2>4
    <3> QED BY <2>1, <3>1 DEF PrintFrom
  <2>5. Calls(f, data, n)
    BY <2>2, <2>3, <2>4 DEF Calls
  <2> QED BY <1>1, <2>5
<1>3. ASSUME NEW k \in 1 .. n, k - 1 \in P PROVE k \in P
  <2> DEFINE m == n - k
  <2>1. m \in Nat /\ n - (k - 1) = m + 1 /\ k \in 0 .. n
    BY <1>1
  <2> HIDE DEF n
  <2>2. PICK f : Calls(f, data, m + 1)
    <3>1. PICK f : Calls(f, data, n - (k - 1))
      BY <1>3
    <3> QED BY <2>1, <3>1
  <2> HIDE DEF m, P
  <2> DEFINE x == PrintFrom(data, m, f)
             g == [q \in Nat |-> IF q = m THEN x ELSE f[q]]
  <2>3. Counts(f) /\ \A q \in Nat : q >= m + 1 => f[q] = PrintFrom(data, q, f)
    BY <2>2 DEF Calls
  <2>4. x.rv \in Int
    BY <2>1, <2>3, FromAgree
  <2> HIDE DEF x
  <2>5. g[m] = x /\ (\A q \in Nat : q # m => g[q] = f[q]) /\ g = [q \in Nat |-> g[q]]
    BY <2>1
  <2> HIDE DEF g
  <2>6. Counts(g)
    <3> SUFFICES ASSUME NEW q \in Nat PROVE g[q].rv \in Int
      BY DEF Counts
    <3> QED BY <2>3, <2>4, <2>5 DEF Counts
  <2>7. ASSUME NEW q \in Nat, q >= m PROVE g[q] = PrintFrom(data, q, g)
    <3>1. \A i \in Nat : i > q => f[i] = g[i]
      <4> TAKE i \in Nat
      <4>1. i > q => i # m
        BY <2>1, <2>7
      <4> QED BY <2>5, <4>1
    <3>2. PrintFrom(data, q, f) = PrintFrom(data, q, g)
      BY <2>3, <2>6, <3>1, FromAgree
    <3>3. CASE q = m
      BY <2>5, <3>2, <3>3 DEF x
    <3>4. CASE q # m
      <4>1. q >= m + 1
        BY <2>1, <2>7, <3>4
      <4> QED BY <2>3, <2>5, <3>2, <3>4, <4>1
    <3> QED BY <3>3, <3>4
  <2>8. Calls(g, data, m)
    BY <2>5, <2>6, <2>7 DEF Calls
  <2> QED BY <2>1, <2>8 DEF m, P
<1>4. n \in 0 .. n /\ n - n = 0
  BY <1>1
<1> HIDE DEF P, n
<1>5. \A k \in 0 .. n : k \in P
  BY <1>1, <1>2, <1>3, UpToInduction
<1> QED BY <1>4, <1>5 DEF P

\* print_response is the first of them.
LEMMA PrintByCalls ==
  ASSUME NEW data \in Seq(Digit)
  PROVE  \E f : /\ \A q \in Nat : f[q] = PrintFrom(data, q, f)
                /\ print_response(data) = f[0]
<1> DEFINE Eq(f) == f = [p \in Nat |-> PrintFrom(data, p, f)]
           print == CHOOSE f : Eq(f)
<1>1. PICK f : Calls(f, data, 0)
  BY CallsExist
<1>2. \A q \in Nat : f[q] = PrintFrom(data, q, f)
  <2>1. \A q \in Nat : q >= 0
    OBVIOUS
  <2> QED BY <1>1, <2>1 DEF Calls
<1>3. Eq(f)
  <2>1. f = [q \in Nat |-> f[q]]
    BY <1>1 DEF Calls
  <2> QED BY <1>2, <2>1, Zenon
<1>4. Eq(print)
  BY <1>3, Zenon
<1>5. print_response(data) = print[0]
  BY Zenon DEF print_response
<1> HIDE DEF print
<1>6. \A q \in Nat : print[q] = PrintFrom(data, q, print)
  BY <1>4, Zenon
<1> QED BY <1>5, <1>6

\* A string with its length lies between x and z in data.
TextAround(data, x, w, z) ==
  /\ x \in Seq(Digit) /\ w \in Seq(Digit) /\ z \in Seq(Digit) /\ Len(w) <= MAX_MSG
  /\ data = x \o (Field(w) \o z)

\* It is read back, wherever it is.
LEMMA TextInside ==
  ASSUME NEW data, NEW x, NEW w, NEW z, TextAround(data, x, w, z)
  PROVE  /\ Text(data, Len(x) + W) = [len |-> Len(w), ok |-> TRUE, s |-> w]
         /\ data \in Seq(Digit) /\ Len(data) = Len(x) + W + Len(w) + Len(z)
         /\ \A i \in 1 .. Len(x) : data[i] = x[i]
<1> DEFINE u == u32(Len(w))
           skip == Len(x) + W
<1>1. /\ x \in Seq(Digit) /\ w \in Seq(Digit) /\ z \in Seq(Digit) /\ Len(w) <= MAX_MSG
      /\ data = x \o ((u \o w) \o z)
  BY DEF TextAround, Field
<1>2. Len(x) \in Nat /\ Len(w) \in Nat /\ Len(z) \in Nat /\ W \in Nat /\ MAX_MSG \in Nat
  BY <1>1, ByteAssumption
<1>3. u \in Seq(Digit) /\ Len(u) = W /\ Number(u) = Len(w)
  <2>1. Len(w) <= MAX_MSG + W
    BY <1>1, <1>2
  <2> QED BY <1>2, <2>1, LengthSeq, LengthRoundTrip
<1> HIDE DEF u
<1> DEFINE wz == w \o z
           uwz == u \o wz
           xu == x \o u
<1>4. wz \in Seq(Digit) /\ Len(wz) = Len(w) + Len(z) /\ xu \in Seq(Digit) /\ Len(xu) = skip
  <2>1. wz \in Seq(Digit) /\ Len(wz) = Len(w) + Len(z)
    BY <1>1, JoinDigits, Zenon
  <2>2. xu \in Seq(Digit) /\ Len(xu) = Len(x) + Len(u)
    BY <1>1, <1>3, JoinDigits, Zenon
  <2> HIDE DEF wz, xu
  <2> QED BY <1>3, <2>1, <2>2
<1>5. uwz \in Seq(Digit) /\ Len(uwz) = W + Len(wz)
  <2>1. uwz \in Seq(Digit) /\ Len(uwz) = Len(u) + Len(wz)
    BY <1>3, <1>4, JoinDigits, Zenon
  <2> HIDE DEF wz, uwz
  <2> QED BY <1>3, <2>1
<1>6. data = x \o uwz
  <2>1. u \o (w \o z) = (u \o w) \o z
    BY <1>1, <1>3, ThreeDigits, Zenon
  <2> QED BY <1>1, <2>1
<1>7. data = xu \o wz
  <2> HIDE DEF wz
  <2>1. x \o (u \o wz) = (x \o u) \o wz
    <3>1. x \in Seq(Digit) /\ u \in Seq(Digit) /\ wz \in Seq(Digit)
      BY <1>1, <1>3, <1>4
    <3> QED BY ONLY <3>1, ThreeDigits, Zenon
  <2> QED BY <1>6, <2>1
<1>8. data = x \o (u \o wz)
  BY <1>6
<1>9. data = xu \o (w \o z)
  BY <1>7
<1> HIDE DEF wz, uwz, xu
<1>10. data \in Seq(Digit) /\ Len(data) = skip + Len(w) + Len(z)
  <2>1. data \in Seq(Digit) /\ Len(data) = Len(xu) + Len(wz)
    BY <1>4, <1>7, JoinDigits, Zenon
  <2> QED BY <1>2, <1>4, <2>1
<1>11. SubSeq(data, skip - W + 1, skip) = u
  <2>1. SubSeq(data, Len(x) + 1, Len(x) + Len(u)) = u
    <3>1. /\ x \in Seq(Digit) /\ u \in Seq(Digit) /\ wz \in Seq(Digit)
          /\ data = x \o (u \o wz)
      BY <1>1, <1>3, <1>4, <1>8
    <3> QED BY <3>1, MiddleOf
  <2>2. skip - W + 1 = Len(x) + 1 /\ skip = Len(x) + Len(u)
    BY <1>2, <1>3
  <2> QED BY <2>1, <2>2
<1>12. SubSeq(data, skip + 1, skip + Len(w)) = w
  <2>1. SubSeq(data, Len(xu) + 1, Len(xu) + Len(w)) = w
    <3>1. xu \in Seq(Digit) /\ w \in Seq(Digit) /\ z \in Seq(Digit)
      BY <1>1, <1>4
    <3> QED BY ONLY <1>9, <3>1, MiddleOf
  <2> QED BY <1>4, <2>1
<1>13. skip <= Len(data) /\ skip + Len(w) <= Len(data)
  <2>1. skip \in Nat
    BY <1>2
  <2> HIDE DEF skip
  <2> QED BY <1>2, <1>10, <2>1
<1>14. \A i \in 1 .. Len(x) : data[i] = x[i]
  BY <1>1, <1>5, <1>6, ConcatItems
<1> HIDE DEF skip
<1>15. Text(data, skip) = [len |-> Len(w), ok |-> TRUE, s |-> w]
  BY <1>3, <1>11, <1>12, <1>13 DEF Text
<1> QED BY <1>10, <1>14, <1>15 DEF skip

\* A string is read back.
LEMMA PrintStr ==
  ASSUME NEW data, NEW t, NEW w, NEW z, TextAround(data, t, w, z),
         Len(t) = 1, t[1] = TAG_STR
  PROVE  /\ PrintScalar(data) = [rv |-> 1 + W + Len(w), val |-> <<"str", w>>]
         /\ data[1] = TAG_STR /\ data \in Seq(Digit) /\ Len(data) = 1 + W + Len(w) + Len(z)
<1>2. /\ Text(data, Len(t) + W) = [len |-> Len(w), ok |-> TRUE, s |-> w]
      /\ data \in Seq(Digit) /\ Len(data) = Len(t) + W + Len(w) + Len(z)
      /\ \A i \in 1 .. Len(t) : data[i] = t[i]
  BY TextInside
<1>3. /\ Text(data, 1 + W) = [len |-> Len(w), ok |-> TRUE, s |-> w]
      /\ Len(data) = 1 + W + Len(w) + Len(z) /\ data[1] = TAG_STR
  BY <1>2
<1>4. PrintScalar(data) = [rv |-> 1 + W + Len(w), val |-> <<"str", w>>]
  BY <1>3 DEF PrintScalar, TAG_NIL, TAG_ERR, TAG_STR, TAG_INT, TAG_DBL
<1> QED BY <1>2, <1>3, <1>4

\* So is an error.
LEMMA PrintErr ==
  ASSUME NEW data, NEW code \in Digit, NEW t, NEW w, NEW z, TextAround(data, t, w, z),
         Len(t) = 2, t[1] = TAG_ERR, t[2] = code
  PROVE  /\ PrintScalar(data) = [rv |-> 1 + 2 * W + Len(w), val |-> <<"err", code, w>>]
         /\ data[1] = TAG_ERR /\ data \in Seq(Digit) /\ Len(data) = 2 + W + Len(w) + Len(z)
<1>1. 1 + 1 + W = 2 + W
  BY ByteAssumption
<1>2. /\ Text(data, Len(t) + W) = [len |-> Len(w), ok |-> TRUE, s |-> w]
      /\ data \in Seq(Digit) /\ Len(data) = Len(t) + W + Len(w) + Len(z)
      /\ \A i \in 1 .. Len(t) : data[i] = t[i]
  BY TextInside
<1>3. /\ Text(data, 1 + 1 + W) = [len |-> Len(w), ok |-> TRUE, s |-> w]
      /\ Len(data) = 2 + W + Len(w) + Len(z) /\ data[1] = TAG_ERR /\ data[2] = code
  BY <1>1, <1>2
<1>4. PrintScalar(data) = [rv |-> 1 + 2 * W + Len(w), val |-> <<"err", code, w>>]
  BY <1>3 DEF PrintScalar, TAG_NIL, TAG_ERR, TAG_STR, TAG_INT, TAG_DBL
<1> QED BY <1>2, <1>3, <1>4

\* data begins with the number n.
NumberFirst(data, tag, n, z) == data = (<<tag>> \o Digits(n, D)) \o z

\* And a number.
LEMMA PrintNumber ==
  ASSUME NEW tag \in {TAG_INT, TAG_DBL}, NEW n \in Wide, NEW z \in Seq(Digit),
         NEW data, NumberFirst(data, tag, n, z)
  PROVE  /\ PrintScalar(data) = [rv |-> 1 + D, val |-> <<IF tag = TAG_INT THEN "int" ELSE "dbl", n>>]
         /\ data[1] = tag /\ data \in Seq(Digit) /\ Len(data) = 1 + D + Len(z)
<1> DEFINE t == <<tag>>
           s == Digits(n, D)
<1>1. t \in Seq(Digit) /\ Len(t) = 1 /\ t[1] = tag
  BY OneByte, TagIsDigit
<1>2. D \in Nat /\ n \in Nat /\ Shift(n, D) = 0 /\ Len(z) \in Nat
  BY ByteAssumption DEF Wide
<1>3. s \in Seq(Digit) /\ Len(s) = D /\ Number(s) = n
  BY <1>2, DigitsSeq, NumberRoundTrip
<1> HIDE DEF t, s
<1>4. data = t \o (s \o z)
  <2>1. t \o (s \o z) = (t \o s) \o z
    BY <1>1, <1>3, ThreeDigits, Zenon
  <2>2. data = (t \o s) \o z
    BY DEF t, s, NumberFirst
  <2> QED BY <2>1, <2>2
<1>5. data \in Seq(Digit) /\ Len(data) = 1 + D + Len(z) /\ data[1] = tag
  <2>1. data \in Seq(Digit) /\ Len(data) = Len(t) + (Len(s) + Len(z))
    <3>1. s \o z \in Seq(Digit) /\ Len(s \o z) = Len(s) + Len(z)
      BY <1>3, JoinDigits, Zenon
    <3> QED BY <1>1, <1>4, <3>1, JoinDigits, Zenon
  <2>2. data[1] = t[1]
    <3> DEFINE r == s \o z
    <3>1. r \in Seq(Digit) /\ data = t \o r
      BY <1>3, <1>4, JoinDigits
    <3> HIDE DEF r
    <3>2. \A i \in 1 .. Len(t) : (t \o r)[i] = t[i]
      BY <1>1, <3>1, ConcatItems
    <3>3. 1 \in 1 .. Len(t)
      BY <1>1
    <3> QED BY <3>1, <3>2, <3>3
  <2> QED BY <1>1, <1>2, <1>3, <2>1, <2>2
<1>6. SubSeq(data, 2, 1 + D) = s
  <2>1. SubSeq(data, Len(t) + 1, Len(t) + Len(s)) = s
    BY <1>1, <1>3, <1>4, MiddleOf
  <2>2. Len(t) + 1 = 2 /\ Len(t) + Len(s) = 1 + D
    BY <1>1, <1>2, <1>3
  <2> QED BY <2>1, <2>2
<1>7. Len(data) >= 1 + D
  BY <1>2, <1>5
<1>8. PrintScalar(data) = [rv |-> 1 + D, val |-> <<IF tag = TAG_INT THEN "int" ELSE "dbl", n>>]
  <2>1. Number(SubSeq(data, 2, 1 + D)) = n
    BY <1>3, <1>6
  <2>2. CASE tag = TAG_INT
    <3>1. PrintScalar(data) = [rv |-> 1 + D, val |-> <<"int", n>>]
      BY <1>5, <1>7, <2>1, <2>2 DEF PrintScalar, TAG_NIL, TAG_ERR, TAG_STR, TAG_INT, TAG_DBL
    <3> QED BY <2>2, <3>1
  <2>3. CASE tag = TAG_DBL
    <3>1. PrintScalar(data) = [rv |-> 1 + D, val |-> <<"dbl", n>>]
      BY <1>5, <1>7, <2>1, <2>3 DEF PrintScalar, TAG_NIL, TAG_ERR, TAG_STR, TAG_INT, TAG_DBL
    <3>2. tag # TAG_INT
      BY <2>3 DEF TAG_INT, TAG_DBL
    <3> QED BY <3>1, <3>2
  <2> QED BY <2>2, <2>3
<1> QED BY <1>5, <1>8

\* An element of an array is read back, and counted as the bytes it has.
LEMMA PrintElement ==
  ASSUME NEW v \in Scalar, NEW z \in Seq(Digit), NEW data, data = EncodedItem(v) \o z,
         Len(EncodedItem(v)) <= MAX_MSG
  PROVE  /\ PrintScalar(data) = [rv |-> Len(EncodedItem(v)), val |-> v]
         /\ data # <<>> /\ data[1] # TAG_ARR /\ Len(EncodedItem(v)) > 0
<1>1. CASE v \in {"str"} \X ByteString
  <2> DEFINE w == v[2]
  <2>1. v = <<"str", w>> /\ v[1] = "str" /\ w \in Seq(Digit)
    BY <1>1 DEF ByteString, Digit
  <2>2. EncodedItem(v) = <<TAG_STR>> \o Field(w)
    BY <2>1 DEF EncodedItem
  <2> HIDE DEF w
  <2> DEFINE t == <<TAG_STR>>
             c == Field(w)
  <2>3. t \in Seq(Digit) /\ Len(t) = 1
    BY OneByte, TagIsDigit
  <2>4. c \in Seq(Digit) /\ Len(c) = W + Len(w) /\ Len(w) \in Nat /\ W \in Nat
    BY <2>1, FieldSeq, ByteAssumption
  <2> HIDE DEF t, c
  <2>5. Len(EncodedItem(v)) = 1 + W + Len(w)
    <3>1. Len(t \o c) = Len(t) + Len(c)
      BY <2>3, <2>4, JoinDigits, Zenon
    <3> QED BY <2>2, <2>3, <2>4, <3>1 DEF t, c
  <2>6. data = t \o (c \o z)
    <3>1. t \o (c \o z) = (t \o c) \o z
      BY <2>3, <2>4, ThreeDigits, Zenon
    <3> QED BY <2>2, <3>1 DEF t, c
  <2>7. TextAround(data, t, w, z) /\ Len(t) = 1 /\ t[1] = TAG_STR
    <3>1. Len(w) <= MAX_MSG
      BY <2>4, <2>5, ByteAssumption
    <3> QED BY <2>1, <2>3, <2>6, <3>1 DEF TextAround, t, c
  <2>8. /\ PrintScalar(data) = [rv |-> 1 + W + Len(w), val |-> <<"str", w>>]
        /\ data[1] = TAG_STR /\ data \in Seq(Digit) /\ Len(data) = 1 + W + Len(w) + Len(z)
    BY ONLY <2>7, PrintStr
  <2>9. data # <<>>
    BY <2>4, <2>8
  <2>10. data[1] # TAG_ARR /\ Len(EncodedItem(v)) > 0
    BY <2>4, <2>5, <2>8 DEF TAG_STR, TAG_ARR
  <2> QED BY <2>1, <2>5, <2>8, <2>9, <2>10, Zenon
<1>2. CASE v \in {"dbl"} \X Wide
  <2> DEFINE n == v[2]
  <2>1. v = <<"dbl", n>> /\ v[1] = "dbl" /\ n \in Wide
    BY <1>2
  <2>2. EncodedItem(v) = <<TAG_DBL>> \o Digits(n, D)
    BY <2>1 DEF EncodedItem
  <2> HIDE DEF n
  <2>3. /\ PrintScalar(data) = [rv |-> 1 + D, val |-> <<"dbl", n>>]
        /\ data[1] = TAG_DBL /\ data \in Seq(Digit) /\ Len(data) = 1 + D + Len(z)
    <3>1. TAG_DBL \in {TAG_INT, TAG_DBL} /\ TAG_DBL # TAG_INT
      BY DEF TAG_DBL, TAG_INT
    <3>2. NumberFirst(data, TAG_DBL, n, z)
      BY <2>2 DEF NumberFirst
    <3> QED BY <2>1, <3>1, <3>2, PrintNumber
  <2>4. D \in Nat /\ n \in Nat
    BY <2>1, ByteAssumption DEF Wide
  <2>5. Len(EncodedItem(v)) = 1 + D
    <3> DEFINE t == <<TAG_DBL>>
               s == Digits(n, D)
    <3>1. t \in Seq(Digit) /\ Len(t) = 1 /\ s \in Seq(Digit) /\ Len(s) = D
      BY <2>4, OneByte, TagIsDigit, DigitsSeq
    <3> HIDE DEF t, s
    <3>2. Len(t \o s) = Len(t) + Len(s)
      BY <3>1, JoinDigits, Zenon
    <3> QED BY <2>2, <3>1, <3>2 DEF t, s
  <2>6. data # <<>>
    BY <2>3, <2>4
  <2>7. data[1] # TAG_ARR /\ Len(EncodedItem(v)) > 0
    BY <2>3, <2>4, <2>5 DEF TAG_DBL, TAG_ARR
  <2> QED BY <2>1, <2>3, <2>5, <2>6, <2>7, Zenon
<1> QED BY <1>1, <1>2 DEF Scalar

\* The end of two joined sequences.
LEMMA EndOf ==
  ASSUME NEW S, NEW x \in Seq(S), NEW y \in Seq(S), NEW c, c = x \o y
  PROVE  SubSeq(c, Len(x) + 1, Len(c)) = y
<1> DEFINE k == Len(x)
           a == SubSeq(c, 1, k)
           b == SubSeq(c, k + 1, Len(c))
<1>1. k \in Nat /\ c \in Seq(S) /\ k <= Len(c)
  OBVIOUS
<1>2. a \in Seq(S) /\ Len(a) = k /\ b \in Seq(S) /\ c = a \o b
  <2> HIDE DEF k
  <2> QED BY ONLY <1>1, SplitSeq, ZenonT(30) DEF a, b
<1>3. c = x \o y /\ Len(a) = Len(x)
  BY <1>2
<1> HIDE DEF a, b
<1>4. b = y
  BY ONLY <1>2, <1>3, x \in Seq(S), y \in Seq(S), SameParts, ZenonT(30)
<1> QED BY <1>4 DEF b

\* data is the array of the values vs, and h joins their encodings one by one.
ArrayData(data, vs, h) ==
  /\ vs \in Seq(Scalar) /\ Len(data) <= MAX_MSG
  /\ data = <<TAG_ARR>> \o u32(Len(vs)) \o FlattenSeq(EncodedItems(vs))
  /\ h \in [0 .. Len(vs) -> Seq(Digit)] /\ Flattens(h, EncodedItems(vs))

\* data is k bytes followed by y.
EndsIn(data, k, y) == \E x \in Seq(Digit) : Len(x) = k /\ data = x \o y

\* It begins with its tag and the number of its elements.
LEMMA ArrayHead ==
  ASSUME NEW data, NEW vs, NEW h, ArrayData(data, vs, h)
  PROVE  /\ data \in Seq(Digit) /\ data[1] = TAG_ARR /\ SubSeq(data, 2, 1 + W) = u32(Len(vs))
         /\ h[Len(vs)] \in Seq(Digit) /\ Len(data) = 1 + W + Len(h[Len(vs)])
         /\ EndsIn(data, 1 + W, h[Len(vs)])
<1> DEFINE t == <<TAG_ARR>>
           n == Len(vs)
           u == u32(n)
           x == t \o u
           e == EncodedItems(vs)
<1>1. /\ vs \in Seq(Scalar) /\ n \in Nat /\ n \in 0 .. n /\ W \in Nat
      /\ h \in [0 .. n -> Seq(Digit)] /\ Flattens(h, e) /\ data = x \o FlattenSeq(e)
  BY ByteAssumption DEF ArrayData
<1>2. t \in Seq(Digit) /\ Len(t) = 1 /\ t[1] = TAG_ARR
  BY OneByte, TagIsDigit
<1>3. u \in Seq(Digit) /\ Len(u) = W
  BY <1>1, LengthSeq
<1>4. FlattenSeq(e) = h[n]
  <2>1. e \in Seq(Seq(Digit)) /\ Len(e) = n
    BY <1>1, EncodedItemsSeq
  <2> HIDE DEF e, n
  <2> QED BY <1>1, <2>1, FlattenIs
<1>5. h[n] \in Seq(Digit)
  <2> HIDE DEF n
  <2> QED BY <1>1
<1> HIDE DEF t, u
<1>6. x \in Seq(Digit) /\ Len(x) = Len(t) + Len(u)
  BY <1>2, <1>3, JoinDigits, Zenon
<1>7. Len(x) = 1 + W
  BY <1>1, <1>2, <1>3, <1>6
<1>8. data = x \o h[n]
  BY <1>1, <1>4
<1> DEFINE y == h[n]
           uy == u \o y
<1>9. y \in Seq(Digit) /\ uy \in Seq(Digit) /\ data = t \o uy
  <2>1. y \in Seq(Digit)
    BY <1>5
  <2> HIDE DEF y
  <2>2. t \o (u \o y) = (t \o u) \o y
    BY <1>2, <1>3, <2>1, ThreeDigits, Zenon
  <2>3. u \o y \in Seq(Digit)
    BY <1>3, <2>1, JoinDigits
  <2> QED BY <1>8, <2>1, <2>2, <2>3 DEF y
<1>10. data = t \o (u \o y)
  BY <1>9
<1> HIDE DEF x, y, uy
<1>11. data \in Seq(Digit)
  BY <1>2, <1>9, JoinDigits, Zenon
<1>12. data[1] = TAG_ARR
  <2>1. 1 \in 1 .. Len(t)
    BY <1>2
  <2>2. \A k \in 1 .. Len(t) : (t \o uy)[k] = t[k]
    BY <1>2, <1>9, ConcatItems
  <2> QED BY <1>2, <1>9, <2>1, <2>2
<1>13. SubSeq(data, 2, 1 + W) = u
  <2>1. SubSeq(data, Len(t) + 1, Len(t) + Len(u)) = u
    BY <1>2, <1>3, <1>9, <1>10, MiddleOf
  <2>2. Len(t) + 1 = 2 /\ Len(t) + Len(u) = 1 + W
    BY <1>1, <1>2, <1>3
  <2> QED BY <2>1, <2>2
<1>14. Len(data) = 1 + W + Len(y)
  <2>1. data = x \o y /\ y \in Seq(Digit) /\ Len(y) \in Nat
    BY <1>8, <1>9 DEF y
  <2>2. Len(x \o y) = Len(x) + Len(y)
    BY <1>6, <2>1, JoinDigits, Zenon
  <2> QED BY <1>7, <2>1, <2>2
<1>15. EndsIn(data, 1 + W, h[n])
  BY <1>6, <1>7, <1>8, Zenon DEF EndsIn
<1> QED BY <1>5, <1>11, <1>12, <1>13, <1>14, <1>15 DEF u, n, y

\* What print_response has after i elements.
ItemsRead(vs, h, i) == [rv |-> 1 + W + Len(h[i]), val |-> <<"arr", SubSeq(vs, 1, i)>>]

\* Each round of print_response over an array reads its next element.
LEMMA ReadNextItem ==
  ASSUME NEW data, NEW vs, NEW h, ArrayData(data, vs, h), NEW i \in 1 .. Len(vs),
         NEW f, \A q \in Nat : f[q] = PrintFrom(data, q, f)
  PROVE  /\ PrintItem(ItemsRead(vs, h, i - 1), f[0 + ItemsRead(vs, h, i - 1).rv])
              = ItemsRead(vs, h, i)
         /\ Len(h[i]) > Len(h[i - 1])
<1> DEFINE n == Len(vs)
           e == EncodedItems(vs)
           v == vs[i]
           part == EncodedItem(v)
           before == h[i - 1]
           r == ItemsRead(vs, h, i - 1)
<1>1. /\ vs \in Seq(Scalar) /\ n \in Nat /\ W \in Nat /\ MAX_MSG \in Nat /\ Len(data) <= MAX_MSG
      /\ h \in [0 .. n -> Seq(Digit)] /\ Flattens(h, e)
  BY ByteAssumption DEF ArrayData
<1>2. i - 1 \in 0 .. n /\ i \in 0 .. n /\ v \in Scalar
  BY <1>1
<1>3. e \in Seq(Seq(Digit)) /\ Len(e) = n /\ e[i] = part
  BY <1>1, EncodedItemsSeq
<1>4. part \in Seq(Digit)
  <2>1. i \in 1 .. Len(e)
    BY <1>3
  <2> QED BY <1>3, <2>1
<1>5. h[i] = before \o part
  BY <1>1, <1>3 DEF Flattens
<1> HIDE DEF e, v, part, n
<1>6. before \in Seq(Digit) /\ h[i] \in Seq(Digit) /\ Len(before) \in Nat /\ Len(part) \in Nat
  BY <1>1, <1>2, <1>4
<1> HIDE DEF before
<1>7. Len(h[i]) = Len(before) + Len(part)
  BY <1>4, <1>5, <1>6, JoinDigits
<1>8. PICK z \in Seq(Digit) : h[n] = h[i] \o z
  <2>1. h \in [0 .. Len(e) -> Seq(Digit)] /\ i \in 0 .. Len(e)
    BY <1>1, <1>2, <1>3
  <2>2. e \in Seq(Seq(Digit)) /\ Flattens(h, e)
    BY <1>1, <1>3
  <2>3. \E z \in Seq(Digit) : h[Len(e)] = h[i] \o z
    BY ONLY <2>1, <2>2, FlattenSplit
  <2> QED BY <1>3, <2>3
<1>9. PICK x \in Seq(Digit) : Len(x) = 1 + W /\ data = x \o h[n]
  <2>1. EndsIn(data, 1 + W, h[n])
    BY ArrayHead DEF n
  <2> QED BY <2>1, Zenon DEF EndsIn
<1> DEFINE xb == x \o before
           pz == part \o z
<1>10. xb \in Seq(Digit) /\ Len(xb) = 1 + W + Len(before) /\ pz \in Seq(Digit)
         /\ Len(pz) = Len(part) + Len(z)
  <2>1. xb \in Seq(Digit) /\ Len(xb) = Len(x) + Len(before)
    BY <1>6, JoinDigits, Zenon
  <2>2. pz \in Seq(Digit) /\ Len(pz) = Len(part) + Len(z)
    BY <1>4, JoinDigits, Zenon
  <2> QED BY <1>9, <2>1, <2>2
<1>11. data = xb \o pz
  <2>1. before \o pz = (before \o part) \o z
    <3>1. before \in Seq(Digit) /\ part \in Seq(Digit) /\ z \in Seq(Digit)
      BY <1>4, <1>6
    <3> QED BY ONLY <3>1, ThreeDigits, Zenon DEF pz
  <2>2. data = x \o (before \o pz)
    BY <1>5, <1>8, <1>9, <2>1
  <2> HIDE DEF pz
  <2>3. x \o (before \o pz) = (x \o before) \o pz
    <3>1. x \in Seq(Digit) /\ before \in Seq(Digit) /\ pz \in Seq(Digit)
      BY <1>6, <1>10
    <3> QED BY ONLY <3>1, ThreeDigits, Zenon
  <2> QED BY <2>2, <2>3
<1>12. pz = part \o z
  OBVIOUS
<1> HIDE DEF xb, pz
<1>13. Len(part) <= MAX_MSG
  <2>1. Len(data) = Len(xb) + Len(pz)
    BY <1>10, <1>11, JoinDigits, Zenon
  <2>2. Len(z) \in Nat
    OBVIOUS
  <2> QED BY <1>1, <1>6, <1>10, <2>1, <2>2
<1>14. SubSeq(data, Len(xb) + 1, Len(data)) = pz
  BY <1>10, <1>11, EndOf
<1>15. /\ PrintScalar(pz) = [rv |-> Len(part), val |-> v]
       /\ pz # <<>> /\ pz[1] # TAG_ARR /\ Len(part) > 0
  BY <1>2, <1>12, <1>13, PrintElement DEF part
<1>16. r.rv = Len(xb) /\ r.rv \in Nat /\ 0 + r.rv = r.rv /\ r.val[2] = SubSeq(vs, 1, i - 1)
  <2>1. r.rv = 1 + W + Len(before) /\ r.val[2] = SubSeq(vs, 1, i - 1)
    BY DEF ItemsRead, before
  <2> HIDE DEF r
  <2> QED BY <1>1, <1>6, <1>10, <2>1
<1> HIDE DEF r
<1>17. f[0 + r.rv] = [rv |-> Len(part), val |-> v]
  <2>1. f[r.rv] = PrintFrom(data, r.rv, f)
    BY <1>16
  <2>2. PrintFrom(data, r.rv, f) = PrintScalar(pz)
    BY <1>14, <1>15, <1>16 DEF PrintFrom
  <2> QED BY <1>15, <1>16, <2>1, <2>2
<1>18. PrintItem(r, f[0 + r.rv]) = [rv |-> r.rv + Len(part), val |-> <<"arr", Append(r.val[2], v)>>]
  <2> DEFINE a == f[0 + r.rv]
  <2>1. a.rv = Len(part) /\ a.val = v
    BY <1>17
  <2> HIDE DEF a
  <2>2. ~ (r.rv < 0) /\ ~ (a.rv < 0)
    BY <1>6, <1>16, <2>1
  <2> QED BY <2>1, <2>2 DEF PrintItem, a
<1>19. r.rv + Len(part) = 1 + W + Len(h[i])
  BY <1>1, <1>6, <1>7, <1>10, <1>16
<1>20. Append(r.val[2], v) = SubSeq(vs, 1, i)
  BY <1>1, <1>16, FirstMore DEF v
<1>21. Len(h[i]) > Len(before)
  BY <1>6, <1>7, <1>15
<1>22. PrintItem(r, f[0 + r.rv]) = ItemsRead(vs, h, i)
  BY <1>18, <1>19, <1>20 DEF ItemsRead
<1> QED BY <1>21, <1>22 DEF before, r

\* An array is read back.
LEMMA PrintArray ==
  ASSUME NEW data, NEW vs, NEW h, ArrayData(data, vs, h)
  PROVE  print_response(data) = [rv |-> Len(data), val |-> <<"arr", vs>>]
<1> DEFINE n == Len(vs)
<1>1. /\ vs \in Seq(Scalar) /\ n \in Nat /\ W \in Nat /\ MAX_MSG \in Nat /\ Len(data) <= MAX_MSG
      /\ h \in [0 .. n -> Seq(Digit)] /\ h[0] = <<>> /\ 0 \in 0 .. n /\ n \in 0 .. n
  BY ByteAssumption DEF ArrayData, Flattens
<1>2. /\ data \in Seq(Digit) /\ data[1] = TAG_ARR /\ SubSeq(data, 2, 1 + W) = u32(n)
      /\ h[n] \in Seq(Digit)
  BY ArrayHead
<1>4. PICK f : (\A q \in Nat : f[q] = PrintFrom(data, q, f)) /\ print_response(data) = f[0]
  BY <1>2, PrintByCalls
<1>5. ASSUME NEW i \in 1 .. n
      PROVE  /\ PrintItem(ItemsRead(vs, h, i - 1), f[0 + ItemsRead(vs, h, i - 1).rv])
                  = ItemsRead(vs, h, i)
             /\ Len(h[i]) > Len(h[i - 1])
  BY <1>4, ReadNextItem
<1> HIDE DEF n
<1>6. \A i \in 0 .. n : Len(h[i]) \in Nat
  BY <1>1
<1>7. Len(data) = 1 + W + Len(h[n]) /\ Len(h[n]) \in Nat
  BY <1>1, <1>6, ArrayHead DEF n
<1>8. n <= MAX_MSG + W
  <2> DEFINE P == {i \in 0 .. n : Len(h[i]) >= i}
  <2>1. 0 \in P
    BY <1>1, <1>6
  <2>2. ASSUME NEW i \in 1 .. n, i - 1 \in P PROVE i \in P
    <3>1. i - 1 \in 0 .. n /\ i \in 0 .. n
      BY <1>1
    <3>2. Len(h[i - 1]) >= i - 1 /\ Len(h[i]) > Len(h[i - 1])
      BY <1>5, <2>2
    <3>3. Len(h[i - 1]) \in Nat /\ Len(h[i]) \in Nat
      BY <1>6, <3>1
    <3>4. Len(h[i]) >= i
      BY <3>2, <3>3
    <3> QED BY <3>1, <3>4
  <2> HIDE DEF P
  <2>3. \A i \in 0 .. n : i \in P
    BY <1>1, <2>1, <2>2, UpToInduction
  <2>4. Len(h[n]) >= n
    BY <1>1, <2>3 DEF P
  <2> QED BY <1>1, <1>7, <2>4
<1>9. Number(SubSeq(data, 2, 1 + W)) = n
  BY <1>1, <1>2, <1>8, LengthRoundTrip
<1>10. PrintFrom(data, 0, f) = PrintItems(0, n, f)
  <2>1. SubSeq(data, 0 + 1, Len(data)) = data
    BY <1>2
  <2>2. data # <<>> /\ Len(data) >= 1 + W
    BY <1>1, <1>2, <1>7
  <2> QED BY <1>2, <1>9, <2>1, <2>2 DEF PrintFrom
<1>11. PICK g : IsItems(g, 0, n, f) /\ PrintItems(0, n, f) = g[n]
  BY <1>1, ItemsLast
<1>12. \A i \in 0 .. n : g[i] = IF i = 0 THEN [rv |-> 1 + W, val |-> <<"arr", <<>>>>]
                                ELSE PrintItem(g[i - 1], f[0 + g[i - 1].rv])
  BY <1>11, Zenon DEF IsItems
<1>13. g[n] = ItemsRead(vs, h, n)
  <2> DEFINE P == {i \in 0 .. n : g[i] = ItemsRead(vs, h, i)}
  <2>1. 0 \in P
    <3>1. g[0] = [rv |-> 1 + W, val |-> <<"arr", <<>>>>]
      BY <1>1, <1>12
    <3>2. 1 + W + Len(h[0]) = 1 + W
      <4>1. Len(<<>>) = 0
        OBVIOUS
      <4> QED BY <1>1, <4>1
    <3>3. SubSeq(vs, 1, 0) = <<>>
      BY <1>1
    <3>4. ItemsRead(vs, h, 0) = [rv |-> 1 + W, val |-> <<"arr", <<>>>>]
      BY <3>2, <3>3 DEF ItemsRead
    <3> QED BY <1>1, <3>1, <3>4
  <2>2. ASSUME NEW i \in 1 .. n, i - 1 \in P PROVE i \in P
    <3>1. i \in 0 .. n /\ i # 0 /\ g[i - 1] = ItemsRead(vs, h, i - 1)
      BY <1>1, <2>2
    <3>2. g[i] = PrintItem(g[i - 1], f[0 + g[i - 1].rv])
      BY <1>12, <3>1
    <3> QED BY <1>5, <3>1, <3>2
  <2> HIDE DEF P
  <2>3. \A i \in 0 .. n : i \in P
    BY <1>1, <2>1, <2>2, UpToInduction
  <2> QED BY <1>1, <2>3 DEF P
<1>14. SubSeq(vs, 1, n) = vs
  BY <1>1 DEF n
<1>15. ItemsRead(vs, h, n) = [rv |-> Len(data), val |-> <<"arr", vs>>]
  BY <1>7, <1>14 DEF ItemsRead
<1>16. f[0] = PrintFrom(data, 0, f)
  BY <1>4
<1> QED BY <1>4, <1>10, <1>11, <1>13, <1>15, <1>16

\* What a value that is not an array gives.
LEMMA PrintOne ==
  ASSUME NEW data \in Seq(Digit), Len(data) # 0, data[1] # TAG_ARR
  PROVE  print_response(data) = PrintScalar(data)
<1>1. PICK f : (\A q \in Nat : f[q] = PrintFrom(data, q, f)) /\ print_response(data) = f[0]
  BY PrintByCalls
<1>2. f[0] = PrintFrom(data, 0, f)
  BY <1>1
<1>3. SubSeq(data, 0 + 1, Len(data)) = data /\ data # <<>>
  OBVIOUS
<1>4. PrintFrom(data, 0, f) = PrintScalar(data)
  BY <1>3 DEF PrintFrom
<1> QED BY <1>1, <1>2, <1>4

\* A string at the end of data.
LEMMA TextLast ==
  ASSUME NEW x \in Seq(Digit), NEW w \in Seq(Digit), NEW data, data = x \o Field(w),
         Len(data) <= MAX_MSG
  PROVE  TextAround(data, x, w, <<>>) /\ Len(w) \in Nat
<1> DEFINE c == Field(w)
<1>1. c \in Seq(Digit) /\ Len(c) = W + Len(w) /\ Len(w) \in Nat /\ W \in Nat
      /\ MAX_MSG \in Nat /\ Len(x) \in Nat
  <2>1. c \in Seq(Digit) /\ Len(c) = W + Len(w)
    BY ONLY FieldSeq, w \in Seq(Digit)
  <2>2. W \in Nat /\ MAX_MSG \in Nat
    BY ByteAssumption
  <2>3. Len(w) \in Nat /\ Len(x) \in Nat
    BY ONLY w \in Seq(Digit), x \in Seq(Digit)
  <2> QED BY <2>1, <2>2, <2>3
<1>2. data = x \o c
  OBVIOUS
<1> HIDE DEF c
<1>3. c \o <<>> = c
  BY <1>1
<1>4. Len(data) = Len(x) + Len(c)
  BY <1>1, <1>2, JoinDigits
<1>5. Len(w) <= MAX_MSG
  BY <1>1, <1>4
<1>6. <<>> \in Seq(Digit)
  OBVIOUS
<1> QED BY <1>1, <1>2, <1>3, <1>5, <1>6 DEF TextAround, c

\* Every response that fits is read back as the value that was written.
THEOREM ResponseUnderstood ==
  ASSUME NEW v \in Reply, Len(Encoded(v)) <= MAX_MSG
  PROVE  print_response(Encoded(v)).val = v /\ print_response(Encoded(v)).rv >= 0
<1> DEFINE data == Encoded(v)
<1>1. W \in Nat /\ D \in Nat /\ MAX_MSG \in Nat
  BY ByteAssumption
<1>2. data \in Seq(Digit)
  <2>1. BufferOK(New(0))
    BY NewIsEmpty
  <2> QED BY <2>1, OutValue
<1>3. <<>> \in Seq(Digit) /\ Len(<<>>) = 0
  OBVIOUS
<1>4. CASE v = <<"nil">>
  <2>1. data = <<TAG_NIL>>
    BY <1>4 DEF Encoded
  <2>2. Len(data) # 0 /\ data[1] = TAG_NIL
    BY <2>1
  <2> HIDE DEF data
  <2>3. PrintScalar(data) = [rv |-> 0, val |-> <<"nil">>]
    BY <2>2 DEF PrintScalar, TAG_NIL, TAG_ERR, TAG_STR, TAG_INT, TAG_DBL
  <2>4. data[1] # TAG_ARR
    BY <2>2 DEF TAG_NIL, TAG_ARR
  <2>5. print_response(data) = [rv |-> 0, val |-> <<"nil">>]
    BY <1>2, <2>2, <2>3, <2>4, PrintOne
  <2> QED BY <1>4, <2>5 DEF data
<1>5. CASE v \in {"err"} \X (0 .. Base - 1) \X ByteString
  <2> DEFINE code == v[2]
             w == v[3]
             t == <<TAG_ERR, code>>
  <2>1. v = <<"err", code, w>> /\ v[1] = "err" /\ code \in Digit /\ w \in Seq(Digit)
    BY <1>5 DEF Digit, ByteString
  <2>2. data = t \o Field(w)
    BY <2>1 DEF Encoded
  <2> HIDE DEF code, w, data
  <2>3. t \in Seq(Digit) /\ Len(t) = 2 /\ t[1] = TAG_ERR /\ t[2] = code
    BY <2>1, TagIsDigit
  <2> HIDE DEF t
  <2>4. TextAround(data, t, w, <<>>) /\ Len(w) \in Nat
    BY <1>1, <1>2, <1>3, <2>1, <2>2, <2>3, TextLast DEF data
  <2>5. /\ PrintScalar(data) = [rv |-> 1 + 2 * W + Len(w), val |-> <<"err", code, w>>]
        /\ data[1] = TAG_ERR /\ Len(data) = 2 + W + Len(w) + Len(<<>>)
    <3>1. code \in Digit
      BY <2>1
    <3> QED BY ONLY <2>3, <2>4, <3>1, PrintErr, SMTT(30)
  <2>6. data[1] # TAG_ARR /\ Len(data) # 0 /\ 1 + 2 * W + Len(w) >= 0
    BY <1>1, <1>3, <2>4, <2>5 DEF TAG_ERR, TAG_ARR
  <2>7. print_response(data) = [rv |-> 1 + 2 * W + Len(w), val |-> <<"err", code, w>>]
    BY <1>2, <2>5, <2>6, PrintOne
  <2>8. print_response(data).val = <<"err", code, w>> /\ print_response(data).rv >= 0
    BY <2>6, <2>7
  <2> QED BY <2>1, <2>8, Zenon DEF data
<1>6. CASE v \in {"str"} \X ByteString
  <2> DEFINE w == v[2]
             t == <<TAG_STR>>
  <2>1. v = <<"str", w>> /\ v[1] = "str" /\ w \in Seq(Digit)
    BY <1>6 DEF Digit, ByteString
  <2>2. data = t \o Field(w)
    BY <2>1 DEF Encoded
  <2> HIDE DEF w, data
  <2>3. t \in Seq(Digit) /\ Len(t) = 1 /\ t[1] = TAG_STR
    BY OneByte, TagIsDigit
  <2> HIDE DEF t
  <2>4. TextAround(data, t, w, <<>>) /\ Len(w) \in Nat
    BY <1>1, <1>2, <1>3, <2>1, <2>2, <2>3, TextLast DEF data
  <2>5. /\ PrintScalar(data) = [rv |-> 1 + W + Len(w), val |-> <<"str", w>>]
        /\ data[1] = TAG_STR /\ Len(data) = 1 + W + Len(w) + Len(<<>>)
    BY <2>3, <2>4, PrintStr
  <2>6. data[1] # TAG_ARR /\ Len(data) # 0 /\ 1 + W + Len(w) >= 0
    BY <1>1, <1>3, <2>4, <2>5 DEF TAG_STR, TAG_ARR
  <2>7. print_response(data) = [rv |-> 1 + W + Len(w), val |-> <<"str", w>>]
    BY <1>2, <2>5, <2>6, PrintOne
  <2>8. print_response(data).val = <<"str", w>> /\ print_response(data).rv >= 0
    BY <2>6, <2>7
  <2> QED BY <2>1, <2>8, Zenon DEF data
<1>7. CASE v \in {"int"} \X Wide
  <2> DEFINE n == v[2]
  <2>1. v = <<"int", n>> /\ v[1] = "int" /\ n \in Wide
    BY <1>7
  <2>2. data = <<TAG_INT>> \o Digits(n, D)
    BY <2>1 DEF Encoded
  <2> HIDE DEF n
  <2>3. NumberFirst(data, TAG_INT, n, <<>>)
    <3>1. data = data \o <<>>
      BY <1>2
    <3> QED BY <2>2, <3>1 DEF NumberFirst
  <2> HIDE DEF data
  <2>4. /\ PrintScalar(data) = [rv |-> 1 + D, val |-> <<"int", n>>]
        /\ data[1] = TAG_INT /\ Len(data) = 1 + D + Len(<<>>)
    BY <1>3, <2>1, <2>3, PrintNumber
  <2>5. data[1] # TAG_ARR /\ Len(data) # 0 /\ 1 + D >= 0
    BY <1>1, <1>3, <2>4 DEF TAG_INT, TAG_ARR
  <2>6. print_response(data) = [rv |-> 1 + D, val |-> <<"int", n>>]
    BY <1>2, <2>4, <2>5, PrintOne
  <2>7. print_response(data).val = <<"int", n>> /\ print_response(data).rv >= 0
    BY <2>5, <2>6
  <2> QED BY <2>1, <2>7, Zenon DEF data
<1>8. CASE v \in {"arr"} \X Seq(Scalar)
  <2> DEFINE vs == v[2]
             e == EncodedItems(vs)
  <2>1. v = <<"arr", vs>> /\ v[1] = "arr" /\ vs \in Seq(Scalar)
    BY <1>8
  <2>2. data = <<TAG_ARR>> \o u32(Len(vs)) \o FlattenSeq(e)
    BY <2>1 DEF Encoded, EncodedItems
  <2> HIDE DEF vs
  <2>3. e \in Seq(Seq(Digit)) /\ Len(e) = Len(vs)
    BY <2>1, EncodedItemsSeq
  <2>4. PICK h \in [0 .. Len(e) -> Seq(Digit)] : Flattens(h, e)
    <3> HIDE DEF e
    <3> QED BY <2>3, FlattenByParts
  <2>5. ArrayData(data, vs, h)
    BY <2>1, <2>2, <2>3, <2>4 DEF ArrayData
  <2> HIDE DEF data
  <2>6. print_response(data) = [rv |-> Len(data), val |-> <<"arr", vs>>]
    BY <2>5, PrintArray
  <2>7. print_response(data).val = <<"arr", vs>> /\ print_response(data).rv >= 0
    BY <1>2, <2>6
  <2> QED BY <2>1, <2>7, Zenon DEF data
<1> QED BY <1>4, <1>5, <1>6, <1>7, <1>8 DEF Reply

-----------------------------------------------------------------------------
(* Streams of frames. *)

\* G gives a sequence for every member of T.
Coding(G, T, S) == G \in [T -> Seq(S)]

\* What G makes of each element of s, one after the other.
Frames(s, G) == [i \in DOMAIN s |-> G[s[i]]]
Stream(s, G) == FlattenSeq(Frames(s, G))

\* The parts of a stream.
LEMMA StreamParts ==
  ASSUME NEW S, NEW T, NEW G, Coding(G, T, S), NEW s \in Seq(T)
  PROVE  /\ Frames(s, G) \in Seq(Seq(S)) /\ Len(Frames(s, G)) = Len(s)
         /\ \A i \in 1 .. Len(s) : Frames(s, G)[i] = G[s[i]]
         /\ Stream(s, G) \in Seq(S)
<1> DEFINE m == Frames(s, G)
<1>1. /\ Len(s) \in Nat /\ DOMAIN s = 1 .. Len(s)
      /\ \A i \in 1 .. Len(s) : s[i] \in T
  OBVIOUS
<1>2. m \in [1 .. Len(s) -> Seq(S)]
  BY <1>1 DEF Frames, Coding
<1>3. \A i \in 1 .. Len(s) : m[i] = G[s[i]]
  BY <1>1 DEF Frames
<1> HIDE DEF m
<1>4. m \in Seq(Seq(S)) /\ Len(m) = Len(s)
  <2> DEFINE n == Len(s)
  <2>1. n \in Nat /\ m \in [1 .. n -> Seq(S)]
    BY <1>1, <1>2
  <2> HIDE DEF n
  <2>2. m \in Seq(Seq(S)) /\ Len(m) = n
    BY <2>1
  <2> QED BY <2>2 DEF n
<1>5. PICK h \in [0 .. Len(m) -> Seq(S)] : FlattenSeq(m) = h[Len(m)]
  BY <1>4, FlattenByParts
<1>6. Len(m) \in 0 .. Len(m)
  BY <1>1, <1>4
<1>7. FlattenSeq(m) \in Seq(S)
  BY <1>5, <1>6
<1> QED BY <1>3, <1>4, <1>7 DEF Stream, m

\* A stream with one frame more.
LEMMA StreamAppend ==
  ASSUME NEW S, NEW T, NEW G, Coding(G, T, S), NEW s \in Seq(T), NEW x \in T
  PROVE  Stream(Append(s, x), G) = Stream(s, G) \o G[x]
<1> DEFINE m == Frames(s, G)
           a == Append(s, x)
           l == Frames(a, G)
           y == G[x]
           n == Len(s)
<1>1. /\ n \in Nat /\ a \in Seq(T) /\ Len(a) = n + 1 /\ a[n + 1] = x
      /\ \A i \in 1 .. n : a[i] = s[i]
  OBVIOUS
<1>2. m \in Seq(Seq(S)) /\ Len(m) = n /\ \A i \in 1 .. n : m[i] = G[s[i]]
  BY StreamParts
<1> HIDE DEF a
<1>3. l \in Seq(Seq(S)) /\ Len(l) = n + 1 /\ \A i \in 1 .. n + 1 : l[i] = G[a[i]]
  <2>1. l \in Seq(Seq(S)) /\ Len(l) = Len(a) /\ \A i \in 1 .. Len(a) : l[i] = G[a[i]]
    BY <1>1, StreamParts
  <2> QED BY <1>1, <2>1
<1>4. y \in Seq(S)
  BY DEF Coding
<1> HIDE DEF m, l
<1> DEFINE c == Append(m, y)
<1>5. /\ c \in Seq(Seq(S)) /\ Len(c) = n + 1 /\ c[n + 1] = y
      /\ \A i \in 1 .. n : c[i] = m[i]
  <2> HIDE DEF n, y
  <2> QED BY <1>1, <1>2, <1>4
<1> HIDE DEF c
<1>6. ASSUME NEW i \in 1 .. n + 1 PROVE l[i] = c[i]
  <2>1. CASE i = n + 1
    BY <1>1, <1>3, <1>5, <2>1
  <2>2. CASE i # n + 1
    <3>1. i \in 1 .. n
      BY <1>1, <2>2
    <3>2. l[i] = G[a[i]] /\ a[i] = s[i]
      BY <1>1, <1>3, <3>1
    <3>3. c[i] = m[i] /\ m[i] = G[s[i]]
      BY <1>2, <1>5, <3>1
    <3> QED BY <3>2, <3>3, Zenon
  <2> QED BY <2>1, <2>2
<1>7. l = c
  <2>1. Len(l) = Len(c) /\ \A i \in 1 .. Len(l) : l[i] = c[i]
    BY <1>3, <1>5, <1>6
  <2> QED BY <1>3, <1>5, <2>1, SeqEqual
<1>8. FlattenSeq(c) = FlattenSeq(m) \o y
  BY <1>2, <1>4, FlattenAppend DEF c
<1> QED BY <1>7, <1>8 DEF Stream, l, m, a

\* The first frame of a stream and the rest.
LEMMA StreamFirst ==
  ASSUME NEW S, NEW T, NEW G, Coding(G, T, S), NEW s \in Seq(T), Len(s) # 0
  PROVE  /\ s[1] \in T /\ SubSeq(s, 2, Len(s)) \in Seq(T)
         /\ Stream(s, G) = G[s[1]] \o Stream(SubSeq(s, 2, Len(s)), G)
<1> DEFINE m == Frames(s, G)
           a == SubSeq(s, 2, Len(s))
           l == Frames(a, G)
           n == Len(s)
           c == SubSeq(m, 2, Len(m))
<1>1. n \in Nat /\ n # 0 /\ s[1] \in T
  OBVIOUS
<1>2. a \in Seq(T) /\ Len(a) = n - 1 /\ \A i \in 1 .. n - 1 : a[i] = s[i + 1]
  BY TailItems
<1>3. m \in Seq(Seq(S)) /\ Len(m) = n /\ \A i \in 1 .. n : m[i] = G[s[i]]
  BY StreamParts
<1> HIDE DEF a
<1>4. l \in Seq(Seq(S)) /\ Len(l) = n - 1 /\ \A i \in 1 .. n - 1 : l[i] = G[a[i]]
  <2>1. l \in Seq(Seq(S)) /\ Len(l) = Len(a) /\ \A i \in 1 .. Len(a) : l[i] = G[a[i]]
    BY <1>2, StreamParts
  <2> QED BY <1>2, <2>1
<1> HIDE DEF m, l, n
<1>5. c \in Seq(Seq(S)) /\ Len(c) = n - 1 /\ \A i \in 1 .. n - 1 : c[i] = m[i + 1]
  <2>1. /\ c \in Seq(Seq(S)) /\ Len(c) = Len(m) - 1
        /\ \A i \in 1 .. Len(m) - 1 : c[i] = m[i + 1]
    BY <1>1, <1>3, TailItems
  <2> QED BY <1>3, <2>1
<1>6. ASSUME NEW i \in 1 .. n - 1 PROVE l[i] = c[i]
  <2>1. i + 1 \in 1 .. n
    BY <1>1
  <2>2. l[i] = G[a[i]] /\ a[i] = s[i + 1]
    BY <1>2, <1>4
  <2>3. c[i] = m[i + 1] /\ m[i + 1] = G[s[i + 1]]
    BY <1>3, <1>5, <2>1
  <2> QED BY <2>2, <2>3, Zenon
<1>7. FlattenSeq(m) = m[1] \o FlattenSeq(c)
  BY <1>1, <1>3, FlattenCons
<1> HIDE DEF c
<1>8. l = c
  <2>1. Len(l) = Len(c) /\ \A i \in 1 .. Len(l) : l[i] = c[i]
    BY <1>4, <1>5, <1>6
  <2> QED BY <1>4, <1>5, <2>1, SeqEqual
<1>9. m[1] = G[s[1]]
  BY <1>1, <1>3
<1>10. FlattenSeq(m) = G[s[1]] \o FlattenSeq(l)
  BY <1>7, <1>8, <1>9
<1> QED BY <1>1, <1>2, <1>10 DEF Stream, m, l, a

\* A stream of no frames.
LEMMA EmptyStream == \A G : Stream(<<>>, G) = <<>>
<1> TAKE G
<1>1. Frames(<<>>, G) = <<>>
  BY DEF Frames
<1>2. Len(<<>>) = 0
  OBVIOUS
<1>3. FlattenSeq(<<>>) = <<>>
  BY <1>2 DEF FlattenSeq
<1> QED BY <1>1, <1>3, Zenon DEF Stream

\* The first frame of a stream, of which buf has arrived: its header is read
\* as its length, and it is taken as complete when all of it is there.
FrontIs(buf, rest, m, tail) ==
  /\ buf \in Seq(Byte) /\ rest \in Seq(Byte) /\ tail \in Seq(Byte)
  /\ m \in Seq(Digit) /\ Len(m) <= MAX_MSG
  /\ buf \o rest = Field(m) \o tail

\* What TooLong, Arrived and Body say of it, and what is left without it.
LEMMA FrameFront ==
  ASSUME NEW buf, NEW rest, NEW m, NEW tail, FrontIs(buf, rest, m, tail)
  PROVE  /\ ~ TooLong(buf) /\ (Arrived(buf) <=> Len(buf) >= W + Len(m))
         /\ Arrived(buf) =>
              /\ Length(buf) = Len(m) /\ Body(buf) = m
              /\ Rest(buf, W + Len(m)) \o rest = tail
<1> DEFINE u == u32(Len(m))
           k == W + Len(m)
<1>1. /\ buf \in Seq(Byte) /\ rest \in Seq(Byte) /\ tail \in Seq(Byte)
      /\ m \in Seq(Digit) /\ m \in Seq(Byte) /\ Len(m) \in Nat /\ Len(m) <= MAX_MSG
      /\ buf \o rest = (u \o m) \o tail
  <2>1. m \in Seq(Digit)
    BY DEF FrontIs
  <2> QED BY <2>1, DigitIsByte DEF FrontIs, Field
<1>2. /\ W \in Nat /\ W # 0 /\ MAX_MSG \in Nat /\ Len(buf) \in Nat
  BY <1>1, ByteAssumption
<1>3. u \in Seq(Byte) /\ Len(u) = W /\ Number(u) = Len(m)
  <2>1. Len(m) <= MAX_MSG + W
    BY <1>1, <1>2
  <2> QED BY <1>1, <2>1, LengthSeq, LengthRoundTrip
<1> HIDE DEF u
<1>4. buf \o rest = u \o (m \o tail) /\ m \o tail \in Seq(Byte)
  <2>1. u \o (m \o tail) = (u \o m) \o tail
    BY <1>1, <1>3, ThreeBytes, Zenon
  <2> QED BY <1>1, <2>1, JoinBytes
<1>5. CASE Len(buf) < W
  <2>1. ~ (Len(buf) >= W) /\ ~ (Len(buf) >= W + Len(m))
    BY <1>1, <1>2, <1>5
  <2> QED BY <2>1 DEF TooLong, Arrived
<1>6. CASE Len(buf) >= W
  <2> DEFINE a == First(buf, W)
             b == Rest(buf, W)
             mt == m \o tail
  <2>1. a \in Seq(Byte) /\ Len(a) = W /\ b \in Seq(Byte) /\ buf = a \o b
    BY <1>1, <1>2, <1>6, SplitSeq, ZenonT(30) DEF First, Rest
  <2>2. Length(buf) = Number(a)
    BY DEF Length
  <2> HIDE DEF a, b, mt
  <2>3. a \o (b \o rest) = u \o mt /\ b \o rest \in Seq(Byte) /\ mt \in Seq(Byte)
    <3>1. a \o (b \o rest) = (a \o b) \o rest
      <4>1. a \in Seq(Byte) /\ b \in Seq(Byte) /\ rest \in Seq(Byte)
        BY <1>1, <2>1
      <4> QED BY <4>1, ThreeBytes, Zenon
    <3>2. b \o rest \in Seq(Byte)
      BY <1>1, <2>1, JoinBytes
    <3> QED BY <1>4, <2>1, <3>1, <3>2 DEF mt
  <2>4. a = u
    <3> DEFINE br == b \o rest
    <3> HIDE DEF br
    <3>1. a \o br = u \o mt /\ br \in Seq(Byte) /\ Len(a) = Len(u)
      BY <1>3, <2>1, <2>3 DEF br
    <3> QED BY <1>3, <2>1, <2>3, <3>1, ConcatCancel
  <2>5. Length(buf) = Len(m)
    BY <1>3, <2>2, <2>4
  <2>6. ~ TooLong(buf) /\ (Arrived(buf) <=> Len(buf) >= W + Len(m))
    <3>1. ~ (Len(m) > MAX_MSG)
      BY <1>1, <1>2
    <3> QED BY <1>6, <2>5, <3>1 DEF TooLong, Arrived
  <2>7. ASSUME Len(buf) >= k
        PROVE  Body(buf) = m /\ Rest(buf, k) \o rest = tail
    <3>1. k \in Nat /\ k <= Len(buf)
      BY <1>1, <1>2, <2>7
    <3> HIDE DEF k
    <3> DEFINE p == First(buf, k)
               q == Rest(buf, k)
               um == u \o m
    <3>2. p \in Seq(Byte) /\ Len(p) = k /\ q \in Seq(Byte) /\ buf = p \o q
      BY <1>1, <3>1, SplitSeq, ZenonT(30) DEF First, Rest
    <3> HIDE DEF p, q
    <3>3. um \in Seq(Byte) /\ Len(um) = k
      BY <1>1, <1>3, JoinBytes DEF k
    <3>4. p \o (q \o rest) = um \o tail /\ q \o rest \in Seq(Byte)
      <4>1. p \o (q \o rest) = (p \o q) \o rest
        <5>1. p \in Seq(Byte) /\ q \in Seq(Byte) /\ rest \in Seq(Byte)
          BY <1>1, <3>2
        <5> QED BY <5>1, ThreeBytes, Zenon
      <4>2. q \o rest \in Seq(Byte)
        BY <1>1, <3>2, JoinBytes
      <4> QED BY <1>1, <3>2, <4>1, <4>2
    <3> HIDE DEF um
    <3>5. p = um /\ q \o rest = tail
      <4> DEFINE qr == q \o rest
      <4>1. p \o qr = um \o tail /\ qr \in Seq(Byte) /\ Len(p) = Len(um)
        BY <3>2, <3>3, <3>4
      <4> HIDE DEF qr
      <4>2. p = um /\ qr = tail
        BY <1>1, <3>2, <3>3, <4>1, ConcatCancel
      <4> QED BY <4>2 DEF qr
    <3>6. buf = u \o (m \o q)
      <4>1. u \o (m \o q) = (u \o m) \o q
        <5>1. u \in Seq(Byte) /\ m \in Seq(Byte) /\ q \in Seq(Byte)
          BY <1>1, <1>3, <3>2
        <5> QED BY ONLY <5>1, ThreeBytes, Zenon
      <4> QED BY <3>2, <3>5, <4>1 DEF um
    <3>7. SubSeq(buf, Len(u) + 1, Len(u) + Len(m)) = m
      <4>1. u \in Seq(Byte) /\ m \in Seq(Byte) /\ q \in Seq(Byte)
        BY <1>1, <1>3, <3>2
      <4> QED BY <3>6, <4>1, MiddleOf
    <3>8. Body(buf) = m
      BY <1>3, <2>5, <3>7 DEF Body
    <3> QED BY <3>5, <3>8 DEF q
  <2> QED BY <2>5, <2>6, <2>7
<1> QED BY <1>2, <1>5, <1>6

\* Where nothing is left to come, the first frame is all there.
LEMMA WholeFrame ==
  ASSUME NEW buf \in Seq(Byte), NEW m \in Seq(Digit), NEW tail \in Seq(Byte),
         buf \o <<>> = Field(m) \o tail
  PROVE  Len(buf) >= W + Len(m)
<1>1. buf = Field(m) \o tail
  <2>1. buf \o <<>> = buf
    OBVIOUS
  <2> QED BY <2>1
<1>2. Field(m) \in Seq(Byte) /\ Len(Field(m)) = W + Len(m)
  BY FieldSeq
<1>3. Len(buf) = Len(Field(m)) + Len(tail)
  BY <1>1, <1>2, JoinBytes
<1>4. Len(tail) \in Nat /\ Len(m) \in Nat /\ W \in Nat
  BY ByteAssumption
<1> QED BY <1>2, <1>3, <1>4

\* Nothing is taken for complete or too long where nothing is.
LEMMA NoFront ==
  ASSUME NEW buf \in Seq(Byte), NEW rest \in Seq(Byte), buf \o rest = <<>>
  PROVE  ~ TooLong(buf) /\ ~ Arrived(buf) /\ buf = <<>> /\ rest = <<>>
<1>1. Len(buf) = 0 /\ Len(rest) = 0
  <2>1. Len(buf \o rest) = Len(buf) + Len(rest) /\ Len(buf) \in Nat /\ Len(rest) \in Nat
    OBVIOUS
  <2>2. Len(<<>>) = 0
    OBVIOUS
  <2> QED BY <2>1, <2>2
<1>2. W \in Nat \ {0}
  BY ByteAssumption
<1> QED BY <1>1, <1>2 DEF TooLong, Arrived

-----------------------------------------------------------------------------
(* What send_req writes. *)

\* The buffer send_req fills holds a place for the length and the request,
\* and the length it counts is that of the request.
LEMMA RequestFilled ==
  ASSUME NEW cmd \in Seq(ByteString)
  PROVE  /\ Splits(Request(cmd).buf, <<>>, u32(0), Content(cmd))
         /\ Request(cmd).n = Len(Content(cmd))
<1> DEFINE n == Len(cmd)
           zero == u32(0)
           count == u32(n)
           new == New(BufSize)
           start == Out(append(append(new, zero), count), W)
           items == Strings(cmd)
           flat == FlattenSeq(EncodedItems(items))
           Eq(f) == f = [i \in 0 .. Len(cmd) |->
                           IF i = 0
                           THEN Out(append(append(New(BufSize), u32(0)), u32(Len(cmd))), W)
                           ELSE OutWord(f[i - 1], cmd[i])]
           filled == CHOOSE f : Eq(f)
<1>1. /\ n \in Nat /\ 0 \in 0 .. n /\ n \in 0 .. n /\ W \in Nat /\ BufSize \in Nat
  BY ByteAssumption, SizeAssumption
<1>2. /\ items \in Seq(Scalar) /\ Len(items) = n
      /\ \A i \in 1 .. n : items[i] = <<"str", cmd[i]>>
      /\ Content(cmd) = count \o flat
  BY ContentSeq
<1>3. flat \in Seq(Byte)
  BY <1>2, FlattenDigits, DigitIsByte
<1>4. /\ zero \in Seq(Byte) /\ Len(zero) = W /\ count \in Seq(Byte) /\ Len(count) = W
  BY <1>1, LengthSeq
<1>5. BufferOK(new) /\ Data(new) = <<>>
  BY <1>1, NewIsEmpty
<1>6. Added(new, start.buf, zero \o count) /\ start \in Filled /\ start.n = W
  <2>1. start.buf = append(append(new, zero), count) /\ start.n = W
    BY DEF Out
  <2> HIDE DEF new, zero, count
  <2>2. Added(new, append(new, zero), zero)
    BY <1>4, <1>5, AddedOnce
  <2>3. BufferOK(append(new, zero))
    BY <2>2 DEF Added
  <2>4. Added(append(new, zero), append(append(new, zero), count), count)
    BY <1>4, <2>3, AddedOnce
  <2>5. Added(new, append(append(new, zero), count), zero \o count)
    BY <1>4, <1>5, <2>2, <2>4, AddedTwice
  <2>6. append(append(new, zero), count) \in Buffers
    BY <2>5, BufferInSet DEF Added
  <2> QED BY <1>1, <2>1, <2>5, <2>6 DEF Filled, Out
<1>7. ASSUME NEW r, NEW i \in 1 .. n PROVE OutWord(r, cmd[i]) = OutItem(r, items[i])
  <2>1. items[i][1] = "str" /\ items[i][2] = cmd[i]
    BY <1>2
  <2> QED BY <2>1, Zenon DEF OutWord, OutItem
<1> HIDE DEF items
<1>8. FillsFrom(filled, start, items)
  <2> HIDE DEF start
  <2>1. PICK f \in [0 .. n -> Filled] : FillsFrom(f, start, items)
    BY <1>2, <1>6, FillItems
  <2>2. \A i \in 0 .. n : f[i] = IF i = 0 THEN start ELSE OutWord(f[i - 1], cmd[i])
    <3>1. \A i \in 0 .. n : i = 0 \/ i \in 1 .. n
      BY <1>1
    <3> QED BY <1>2, <1>7, <2>1, <3>1 DEF FillsFrom
  <2>3. f = [i \in 0 .. n |-> f[i]]
    OBVIOUS
  <2>4. Eq(f)
    BY <2>2, <2>3, Zenon DEF start
  <2>5. Eq(filled)
    BY <2>4, Zenon
  <2> HIDE DEF filled
  <2>6. \A i \in 0 .. n : filled[i] = IF i = 0 THEN start ELSE OutWord(filled[i - 1], cmd[i])
    BY <2>5, Zenon DEF start
  <2>7. \A i \in 1 .. n : i \in 0 .. n /\ i # 0
    BY <1>1
  <2>8. \A i \in 1 .. n : filled[i] = OutItem(filled[i - 1], items[i])
    BY <1>7, <2>6, <2>7
  <2> QED BY <1>1, <1>2, <2>6, <2>8 DEF FillsFrom
<1>9. Request(cmd) = filled[n]
  BY Zenon DEF Request
<1> HIDE DEF filled, start
<1>10. Added(start.buf, filled[n].buf, flat) /\ filled[n].n = start.n + Len(flat)
  BY <1>2, <1>6, <1>8, FillItems
<1> HIDE DEF new, zero, count, flat
<1>11. zero \o count \in Seq(Byte)
  BY <1>4, JoinBytes
<1>12. Added(new, Request(cmd).buf, (zero \o count) \o flat)
  BY <1>3, <1>5, <1>6, <1>9, <1>10, <1>11, AddedTwice
<1>13. BufferOK(Request(cmd).buf) /\ Data(Request(cmd).buf) = <<>> \o (zero \o Content(cmd))
  <2>1. zero \o (count \o flat) = (zero \o count) \o flat
    BY <1>3, <1>4, ThreeBytes, Zenon
  <2> QED BY <1>2, <1>5, <1>12, <2>1 DEF Added
<1>14. Content(cmd) \in Seq(Byte) /\ Len(Content(cmd)) = W + Len(flat)
  BY <1>2, <1>3, <1>4, JoinBytes
<1>15. <<>> \in Seq(Byte)
  OBVIOUS
<1> QED BY <1>4, <1>6, <1>9, <1>10, <1>13, <1>14, <1>15 DEF Splits, zero

\* The frame it writes is the request in the documented format.
LEMMA RequestSent ==
  ASSUME NEW cmd \in Seq(ByteString)
  PROVE  LET r == Request(cmd)
         IN  Data(Write(r.buf, r.buf.data_begin, u32(r.n))) = Sent(cmd)
<1> DEFINE r == Request(cmd)
           b == r.buf
           c == Content(cmd)
           u == u32(Len(c))
           m == Write(b, b.data_begin, u)
<1>1. Splits(b, <<>>, u32(0), c) /\ r.n = Len(c)
  BY RequestFilled
<1>2. c \in Seq(Digit) /\ Len(c) \in Nat
  BY ContentSeq
<1>3. u \in Seq(Byte) /\ Len(u) = Len(u32(0))
  BY <1>2, LengthSeq
<1> HIDE DEF r, b, c, u
<1>4. b.data_begin = b.data_begin + Len(<<>>)
  <2>1. b.data_begin \in Nat
    BY <1>1 DEF Splits, BufferOK
  <2>2. Len(<<>>) = 0
    OBVIOUS
  <2> QED BY <2>1, <2>2
<1>5. Splits(m, <<>>, u, c)
  BY <1>1, <1>3, <1>4, Overwrite
<1>6. u \o c \in Seq(Byte)
  BY <1>1, <1>3, JoinBytes DEF Splits
<1>7. Data(m) = u \o c
  <2> DEFINE uc == u \o c
  <2>1. uc \in Seq(Byte) /\ Data(m) = <<>> \o uc
    BY <1>5, <1>6 DEF Splits
  <2> HIDE DEF uc, m
  <2>2. <<>> \o uc = uc
    BY <2>1
  <2> QED BY <2>1, <2>2 DEF uc
<1> QED BY <1>1, <1>7 DEF Sent, Field, r, b, c, u

-----------------------------------------------------------------------------
(* Requests. *)

\* The commands the client sends: it gives up at longer ones.
Sendable == {cmd \in Cmds : Len(Content(cmd)) <= MAX_MSG}
SentOf == [cmd \in Sendable |-> Sent(cmd)]

\* The inductive invariant of the way to the server.
ReqInv ==
  /\ client \in {"open", "ended"} /\ left \in 0 .. MaxReqs
  /\ pc \in {"poll", "requests", "closed"}
  /\ BufferOK(incoming) /\ c2s \in Seq(Byte) /\ asked \in Seq(Sendable)
  /\ Data(incoming) \o c2s = Stream(asked, SentOf)

\* A request is a frame of bytes.
LEMMA SentCoding ==
  /\ Coding(SentOf, Sendable, Byte)
  /\ \A cmd \in Sendable :
       /\ SentOf[cmd] = Field(Content(cmd)) /\ cmd \in Seq(ByteString)
       /\ Content(cmd) \in Seq(Digit) /\ Len(Content(cmd)) <= MAX_MSG
<1>1. ASSUME NEW cmd \in Sendable
      PROVE  /\ cmd \in Seq(ByteString) /\ Content(cmd) \in Seq(Digit)
             /\ Len(Content(cmd)) <= MAX_MSG /\ Sent(cmd) = Field(Content(cmd))
             /\ Sent(cmd) \in Seq(Byte)
  <2>1. cmd \in Seq(ByteString) /\ Len(Content(cmd)) <= MAX_MSG
    BY WordAssumption DEF Sendable
  <2>2. Content(cmd) \in Seq(Digit)
    BY <2>1, ContentSeq
  <2> QED BY <2>1, <2>2, FieldSeq DEF Sent
<1>2. SentOf \in [Sendable -> Seq(Byte)]
  BY <1>1 DEF SentOf
<1> QED BY <1>1, <1>2 DEF Coding, SentOf

\* The stream is the concatenation that RequestsIntact speaks of.
LEMMA RequestsAreStream ==
  ASSUME asked \in Seq(Sendable)
  PROVE  FlattenSeq([i \in DOMAIN asked |-> Sent(asked[i])]) = Stream(asked, SentOf)
<1>1. \A i \in DOMAIN asked : asked[i] \in Sendable
  OBVIOUS
<1>2. [i \in DOMAIN asked |-> Sent(asked[i])] = Frames(asked, SentOf)
  BY <1>1 DEF Frames, SentOf
<1> QED BY <1>2, Zenon DEF Stream

\* What incoming begins with.
LEMMA FrontOfRequests ==
  ASSUME ReqInv
  PROVE  /\ asked = <<>> => Data(incoming) \o c2s = <<>>
         /\ asked # <<>> =>
              /\ asked[1] \in Sendable /\ SubSeq(asked, 2, Len(asked)) \in Seq(Sendable)
              /\ FrontIs(Data(incoming), c2s, Content(asked[1]),
                         Stream(SubSeq(asked, 2, Len(asked)), SentOf))
<1>1. /\ asked \in Seq(Sendable) /\ c2s \in Seq(Byte) /\ Data(incoming) \in Seq(Byte)
      /\ Data(incoming) \o c2s = Stream(asked, SentOf)
  BY DataSeq DEF ReqInv
<1>2. ASSUME asked = <<>> PROVE Stream(asked, SentOf) = <<>>
  BY <1>2, EmptyStream
<1>3. ASSUME asked # <<>>
      PROVE  /\ asked[1] \in Sendable /\ SubSeq(asked, 2, Len(asked)) \in Seq(Sendable)
             /\ FrontIs(Data(incoming), c2s, Content(asked[1]),
                        Stream(SubSeq(asked, 2, Len(asked)), SentOf))
  <2> DEFINE cmd == asked[1]
             more == SubSeq(asked, 2, Len(asked))
  <2>1. Len(asked) # 0
    BY <1>1, <1>3
  <2>2. cmd \in Sendable /\ more \in Seq(Sendable)
          /\ Stream(asked, SentOf) = SentOf[cmd] \o Stream(more, SentOf)
    <3>1. Coding(SentOf, Sendable, Byte) /\ asked \in Seq(Sendable)
      BY <1>1, SentCoding
    <3> QED BY ONLY <2>1, <3>1, StreamFirst, ZenonT(30)
  <2> HIDE DEF cmd, more
  <2>3. Stream(more, SentOf) \in Seq(Byte)
    BY <2>2, SentCoding, StreamParts
  <2>4. /\ SentOf[cmd] = Field(Content(cmd)) /\ Content(cmd) \in Seq(Digit)
        /\ Len(Content(cmd)) <= MAX_MSG
    BY <2>2, SentCoding
  <2>5. FrontIs(Data(incoming), c2s, Content(cmd), Stream(more, SentOf))
    BY <1>1, <2>2, <2>3, <2>4 DEF FrontIs
  <2> QED BY <2>2, <2>5 DEF cmd, more
<1> QED BY <1>1, <1>2, <1>3

\* The invariant holds at the start.
LEMMA ReqInit ==
  ASSUME Init
  PROVE  ReqInv
<1>1. BufferOK(incoming) /\ Data(incoming) = <<>>
  BY NewIsEmpty, SizeAssumption DEF Init
<1>2. c2s = <<>> /\ asked = <<>> /\ <<>> \in Seq(Byte) /\ <<>> \in Seq(Sendable)
  BY DEF Init
<1>3. Stream(<<>>, SentOf) = <<>>
  BY EmptyStream
<1>4. <<>> \o <<>> = <<>>
  OBVIOUS
<1>5. /\ client \in {"open", "ended"} /\ left \in 0 .. MaxReqs
      /\ pc \in {"poll", "requests", "closed"}
  BY SizeAssumption DEF Init
<1> QED BY <1>1, <1>2, <1>3, <1>4, <1>5 DEF ReqInv

\* Sending a request adds it to both sides.
LEMMA ReqSend ==
  ASSUME ReqInv, NEW cmd \in Cmds, send_req(cmd)
  PROVE  ReqInv'
<1> DEFINE r == Request(cmd)
           c == Content(cmd)
           d == Data(incoming)
<1>1. cmd \in Seq(ByteString)
  BY WordAssumption
<1>2. r.n = Len(c) /\ Data(Write(r.buf, r.buf.data_begin, u32(r.n))) = Sent(cmd)
  BY <1>1, RequestFilled, RequestSent
<1> HIDE DEF r
<1>3. /\ left' \in 0 .. MaxReqs /\ pc' = pc /\ incoming' = incoming
  BY SizeAssumption DEF ReqInv, send_req, conn
<1>4. CASE client' = "ended" /\ UNCHANGED <<c2s, asked>>
  BY <1>3, <1>4 DEF ReqInv
<1>5. CASE ~ (r.n > MAX_MSG) /\ c2s' = c2s \o Sent(cmd) /\ asked' = Append(asked, cmd)
             /\ client' = client
  <2>1. c \in Seq(Digit)
    BY <1>1, ContentSeq
  <2>2. Len(c) <= MAX_MSG
    BY <1>2, <1>5, <2>1, ByteAssumption
  <2>3. cmd \in Sendable
    BY <2>2 DEF Sendable
  <2>4. /\ d \in Seq(Byte) /\ c2s \in Seq(Byte) /\ asked \in Seq(Sendable)
        /\ d \o c2s = Stream(asked, SentOf)
    BY DataSeq DEF ReqInv
  <2>5. Sent(cmd) \in Seq(Byte) /\ Sent(cmd) = SentOf[cmd]
    BY <2>1, <2>3, FieldSeq DEF Sent, SentOf
  <2>6. asked' \in Seq(Sendable) /\ c2s' \in Seq(Byte)
    BY <1>5, <2>3, <2>4, <2>5, JoinBytes
  <2>7. Stream(asked', SentOf) = Stream(asked, SentOf) \o Sent(cmd)
    BY <1>5, <2>3, <2>4, <2>5, SentCoding, StreamAppend
  <2> HIDE DEF d
  <2>8. d \o (c2s \o Sent(cmd)) = (d \o c2s) \o Sent(cmd)
    BY <2>4, <2>5, ThreeBytes, Zenon
  <2>9. Data(incoming') \o c2s' = Stream(asked', SentOf)
    BY <1>3, <1>5, <2>4, <2>7, <2>8 DEF d
  <2> QED BY <1>3, <1>5, <2>6, <2>9 DEF ReqInv
<1> QED BY <1>2, <1>4, <1>5 DEF send_req, r

\* A read moves bytes from the socket to incoming.
LEMMA ReqRead ==
  ASSUME ReqInv, handle_read
  PROVE  ReqInv'
<1>1. client' = client /\ left' = left /\ asked' = asked /\ pc' \in {"poll", "requests", "closed"}
  BY DEF handle_read
<1>2. CASE UNCHANGED <<incoming, c2s>>
  BY <1>1, <1>2 DEF ReqInv
<1>3. ASSUME NEW k \in 1 .. BufSize, k <= Len(c2s),
             incoming' = append(incoming, First(c2s, k)), c2s' = Rest(c2s, k)
      PROVE  ReqInv'
  <2> DEFINE d == Data(incoming)
             a == First(c2s, k)
             b == Rest(c2s, k)
  <2>1. /\ BufferOK(incoming) /\ d \in Seq(Byte) /\ c2s \in Seq(Byte)
        /\ d \o c2s = Stream(asked, SentOf)
    BY DataSeq DEF ReqInv
  <2>2. k \in Nat
    BY SizeAssumption
  <2>3. a \in Seq(Byte) /\ b \in Seq(Byte) /\ c2s = a \o b
    BY <1>3, <2>1, <2>2, SplitSeq DEF First, Rest
  <2> HIDE DEF a, b
  <2>4. BufferOK(incoming') /\ Data(incoming') = d \o a
    BY <1>3, <2>1, <2>3, AppendIsEnqueue DEF a
  <2> HIDE DEF d
  <2>5. d \o (a \o b) = (d \o a) \o b
    BY <2>1, <2>3, ThreeBytes, Zenon
  <2>6. c2s' = b
    BY <1>3 DEF b
  <2>7. Data(incoming') \o c2s' = Stream(asked', SentOf)
    BY <1>1, <2>1, <2>3, <2>4, <2>5, <2>6
  <2> QED BY <1>1, <2>3, <2>4, <2>6, <2>7 DEF ReqInv
<1> QED BY <1>2, <1>3 DEF handle_read

\* What Complete says of the first request.
LEMMA CompleteRequest ==
  ASSUME ReqInv, Complete(Data(incoming))
  PROVE  /\ asked # <<>> /\ asked[1] \in Sendable
         /\ SubSeq(asked, 2, Len(asked)) \in Seq(Sendable)
         /\ Length(Data(incoming)) = Len(Content(asked[1]))
         /\ Body(Data(incoming)) = Content(asked[1])
         /\ W + Len(Content(asked[1])) \in 0 .. incoming.data_length
         /\ Rest(Data(incoming), W + Len(Content(asked[1]))) \o c2s
              = Stream(SubSeq(asked, 2, Len(asked)), SentOf)
<1> DEFINE d == Data(incoming)
           more == SubSeq(asked, 2, Len(asked))
           m == Content(asked[1])
<1>1. d \in Seq(Byte) /\ c2s \in Seq(Byte) /\ Len(d) = incoming.data_length
  BY DataSeq DEF ReqInv
<1>2. Arrived(d)
  BY DEF Complete
<1>3. asked # <<>>
  BY <1>1, <1>2, FrontOfRequests, NoFront
<1>4. /\ asked[1] \in Sendable /\ more \in Seq(Sendable)
      /\ FrontIs(d, c2s, m, Stream(more, SentOf))
  BY <1>3, FrontOfRequests
<1>5. m \in Seq(Digit)
  BY <1>4 DEF FrontIs
<1> HIDE DEF d, more, m
<1>6. /\ Len(d) >= W + Len(m) /\ Length(d) = Len(m) /\ Body(d) = m
      /\ Rest(d, W + Len(m)) \o c2s = Stream(more, SentOf)
  BY <1>2, <1>4, FrameFront
<1>7. W + Len(m) \in 0 .. incoming.data_length
  <2>1. W \in Nat /\ Len(m) \in Nat /\ Len(d) \in Nat
    BY <1>1, <1>5, ByteAssumption
  <2> QED BY <1>1, <1>6, <2>1
<1> QED BY <1>3, <1>4, <1>6, <1>7 DEF d, more, m

\* Taking a request takes its bytes and no others.
LEMMA ReqServe ==
  ASSUME ReqInv, try_one_request
  PROVE  ReqInv'
<1> DEFINE d == Data(incoming)
           k == W + Len(Content(asked[1]))
           more == SubSeq(asked, 2, Len(asked))
<1>1. /\ Complete(d) /\ incoming' = consume(incoming, W + Length(d))
      /\ asked' = more /\ client' = client /\ left' = left /\ c2s' = c2s /\ pc' = pc
  BY DEF try_one_request
<1>2. /\ more \in Seq(Sendable) /\ Length(d) = Len(Content(asked[1]))
      /\ k \in 0 .. incoming.data_length /\ Rest(d, k) \o c2s = Stream(more, SentOf)
  BY <1>1, CompleteRequest
<1>3. incoming' = consume(incoming, k)
  BY <1>1, <1>2
<1>4. BufferOK(incoming) /\ Len(d) = incoming.data_length
  BY DataSeq DEF ReqInv
<1> HIDE DEF k
<1>5. BufferOK(incoming') /\ Data(incoming') = Rest(d, k)
  BY <1>2, <1>3, <1>4, ConsumeIsDequeue DEF Rest
<1>6. Data(incoming') \o c2s' = Stream(asked', SentOf)
  BY <1>1, <1>2, <1>5
<1> QED BY <1>1, <1>2, <1>5, <1>6 DEF ReqInv

\* No other step touches them.
LEMMA ReqStep ==
  ASSUME ReqInv, [Next]_vars
  PROVE  ReqInv'
<1>1. CASE handle_read
  BY <1>1, ReqRead
<1>2. CASE try_one_request
  BY <1>2, ReqServe
<1>3. CASE RequestsDone
  BY <1>3 DEF RequestsDone, ReqInv
<1>4. CASE Writable
  BY <1>4 DEF Writable, ReqInv
<1>5. CASE \E cmd \in Cmds : send_req(cmd)
  BY <1>5, ReqSend
<1>6. CASE read_res
  BY <1>6 DEF read_res, conn, ReqInv
<1>7. CASE ReadEof
  BY <1>7 DEF ReadEof, conn, ReqInv
<1>8. CASE Exit
  BY <1>8 DEF Exit, conn, ReqInv
<1>9. CASE UNCHANGED vars
  BY <1>9 DEF vars, conn, ReqInv
<1> QED
  BY <1>1, <1>2, <1>3, <1>4, <1>5, <1>6, <1>7, <1>8, <1>9 DEF Next, Server, Client

\* However the requests are cut into reads, and wherever incoming moves or
\* grows, no byte of them is lost, repeated or misplaced.
THEOREM SessionRequests == Spec => []RequestsIntact
<1>1. Init => ReqInv
  BY ReqInit
<1>2. ReqInv /\ [Next]_vars => ReqInv'
  BY ReqStep
<1>3. ReqInv => RequestsIntact
  BY RequestsAreStream DEF ReqInv, RequestsIntact
<1> QED BY <1>1, <1>2, <1>3, PTL DEF Spec

\* try_one_request understands every command as it was typed, and refuses one
\* only if it has too many words.
THEOREM SessionUnderstood == Spec => []CommandUnderstood
<1>1. Init => ReqInv
  BY ReqInit
<1>2. ReqInv /\ [Next]_vars => ReqInv'
  BY ReqStep
<1>3. ReqInv => CommandUnderstood
  <2> SUFFICES ASSUME ReqInv, Complete(Data(incoming))
               PROVE  /\ Parsed(Data(incoming)).ok <=> Len(asked[1]) <= MAX_CMDS
                      /\ Parsed(Data(incoming)).ok => Parsed(Data(incoming)).words = asked[1]
    BY DEF CommandUnderstood
  <2> DEFINE cmd == asked[1]
             p == Parsed(Data(incoming))
  <2>1. cmd \in Sendable /\ Body(Data(incoming)) = Content(cmd)
    BY CompleteRequest
  <2> HIDE DEF cmd
  <2>2. cmd \in Seq(ByteString) /\ Len(Content(cmd)) <= MAX_MSG
    BY <2>1, SentCoding
  <2>3. p = IF Len(cmd) <= MAX_CMDS THEN [ok |-> TRUE, words |-> cmd] ELSE Bad
    BY <2>1, <2>2, RequestUnderstood DEF Parsed
  <2> HIDE DEF p
  <2>4. (p.ok <=> Len(cmd) <= MAX_CMDS) /\ (p.ok => p.words = cmd)
    BY <2>3 DEF Bad
  <2> QED BY <2>4 DEF p, cmd
<1> QED BY <1>1, <1>2, <1>3, PTL DEF Spec

-----------------------------------------------------------------------------
(* Responses, where every reply fits in a message.  Where one does not,     *)
(* response_end loses the responses before it: run long_response.            *)

RepliesFit == \A v \in Replies : Len(Encoded(v)) <= MAX_MSG
FrameOf == [v \in Replies |-> Field(Encoded(v))]

\* The invariant of the way to the client, inductive together with ReqInv.
RespInv ==
  /\ BufferOK(outgoing) /\ s2c \in Seq(Byte) /\ due \in Seq(Replies)
  /\ s2c \o Data(outgoing) = Stream(due, FrameOf)

\* Which events the connection waits for: it reads when it has nothing to
\* write, and polls only when it has handled every complete request.
WaitInv ==
  /\ want_read \in BOOLEAN /\ want_write \in BOOLEAN
  /\ pc = "requests" => want_read /\ ~ want_write
  /\ pc = "poll" =>
       /\ want_read <=> empty(outgoing)
       /\ want_write <=> ~ empty(outgoing)
       /\ ~ Complete(Data(incoming))

\* A response is a frame of bytes.
LEMMA FrameCoding ==
  ASSUME RepliesFit
  PROVE  /\ Coding(FrameOf, Replies, Byte)
         /\ \A v \in Replies :
              /\ FrameOf[v] = Field(Encoded(v)) /\ v \in Reply
              /\ Encoded(v) \in Seq(Digit) /\ Len(Encoded(v)) <= MAX_MSG
              /\ Expected(v) = v
<1>1. ASSUME NEW v \in Replies
      PROVE  /\ v \in Reply /\ Encoded(v) \in Seq(Digit) /\ Len(Encoded(v)) <= MAX_MSG
             /\ Field(Encoded(v)) \in Seq(Byte) /\ Expected(v) = v
  <2>1. v \in Reply /\ Len(Encoded(v)) <= MAX_MSG
    BY ReplyAssumption DEF RepliesFit
  <2>2. BufferOK(New(0))
    BY NewIsEmpty
  <2>3. Encoded(v) \in Seq(Digit) /\ out_value(New(0), v).n = Len(Encoded(v))
    BY <2>1, <2>2, OutValue
  <2>4. Expected(v) = v
    <3>1. ~ (out_value(New(0), v).n > MAX_MSG)
      BY <2>1, <2>3, ByteAssumption
    <3> QED BY <3>1 DEF Expected
  <2> QED BY <2>1, <2>3, <2>4, FieldSeq
<1>2. FrameOf \in [Replies -> Seq(Byte)]
  BY <1>1 DEF FrameOf
<1> QED BY <1>1, <1>2 DEF Coding, FrameOf

\* The stream is the concatenation that ResponsesIntact speaks of.
LEMMA ResponsesAreStream ==
  ASSUME due \in Seq(Replies)
  PROVE  FlattenSeq([i \in DOMAIN due |-> Field(Encoded(due[i]))]) = Stream(due, FrameOf)
<1>1. \A i \in DOMAIN due : due[i] \in Replies
  OBVIOUS
<1>2. [i \in DOMAIN due |-> Field(Encoded(due[i]))] = Frames(due, FrameOf)
  BY <1>1 DEF Frames, FrameOf
<1> QED BY <1>2, Zenon DEF Stream

\* What the bytes at the client begin with.
LEMMA FrontOfResponses ==
  ASSUME RepliesFit, RespInv
  PROVE  /\ due = <<>> => s2c \o Data(outgoing) = <<>>
         /\ due # <<>> =>
              /\ due[1] \in Replies /\ SubSeq(due, 2, Len(due)) \in Seq(Replies)
              /\ FrontIs(s2c, Data(outgoing), Encoded(due[1]),
                         Stream(SubSeq(due, 2, Len(due)), FrameOf))
<1>1. /\ due \in Seq(Replies) /\ s2c \in Seq(Byte) /\ Data(outgoing) \in Seq(Byte)
      /\ s2c \o Data(outgoing) = Stream(due, FrameOf)
  BY DataSeq DEF RespInv
<1>2. ASSUME due = <<>> PROVE s2c \o Data(outgoing) = <<>>
  BY <1>1, <1>2, EmptyStream
<1>3. ASSUME due # <<>>
      PROVE  /\ due[1] \in Replies /\ SubSeq(due, 2, Len(due)) \in Seq(Replies)
             /\ FrontIs(s2c, Data(outgoing), Encoded(due[1]),
                        Stream(SubSeq(due, 2, Len(due)), FrameOf))
  <2> DEFINE v == due[1]
             more == SubSeq(due, 2, Len(due))
  <2>1. Len(due) # 0
    BY <1>1, <1>3
  <2>2. v \in Replies /\ more \in Seq(Replies)
          /\ Stream(due, FrameOf) = FrameOf[v] \o Stream(more, FrameOf)
    <3>1. Coding(FrameOf, Replies, Byte) /\ due \in Seq(Replies)
      BY <1>1, FrameCoding
    <3> QED BY ONLY <2>1, <3>1, StreamFirst, ZenonT(30)
  <2> HIDE DEF v, more
  <2>3. Stream(more, FrameOf) \in Seq(Byte)
    BY <2>2, FrameCoding, StreamParts
  <2>4. /\ FrameOf[v] = Field(Encoded(v)) /\ Encoded(v) \in Seq(Digit)
        /\ Len(Encoded(v)) <= MAX_MSG
    BY <2>2, FrameCoding
  <2>5. FrontIs(s2c, Data(outgoing), Encoded(v), Stream(more, FrameOf))
    BY <1>1, <2>2, <2>3, <2>4 DEF FrontIs
  <2> QED BY <2>2, <2>5 DEF v, more
<1> QED BY <1>2, <1>3

\* The invariants hold at the start.
LEMMA RespInit ==
  ASSUME Init
  PROVE  RespInv /\ WaitInv
<1>1. BufferOK(outgoing) /\ Data(outgoing) = <<>> /\ Data(incoming) = <<>>
  BY NewIsEmpty, SizeAssumption DEF Init
<1>2. s2c = <<>> /\ due = <<>> /\ <<>> \in Seq(Byte) /\ <<>> \in Seq(Replies)
  BY DEF Init
<1>3. <<>> \o <<>> = <<>>
  OBVIOUS
<1>4. RespInv
  BY <1>1, <1>2, <1>3, EmptyStream DEF RespInv
<1>5. ~ Complete(Data(incoming))
  BY <1>1, <1>2, <1>3, NoFront DEF Complete
<1>6. empty(outgoing)
  BY DEF Init, New, empty
<1>7. pc = "poll" /\ want_read = TRUE /\ want_write = FALSE
  BY DEF Init
<1> QED BY <1>4, <1>5, <1>6, <1>7 DEF WaitInv

\* Answering a request appends its response.
LEMMA RespServe ==
  ASSUME RepliesFit, RespInv, try_one_request
  PROVE  RespInv'
<1>1. PICK v \in Replies : outgoing' = respond(outgoing, v) /\ due' = Append(due, Expected(v))
  BY DEF try_one_request
<1>2. s2c' = s2c
  BY DEF try_one_request
<1> DEFINE d == Data(outgoing)
           f == Field(Encoded(v))
<1>3. /\ BufferOK(outgoing) /\ d \in Seq(Byte) /\ s2c \in Seq(Byte) /\ due \in Seq(Replies)
      /\ s2c \o d = Stream(due, FrameOf)
  BY DataSeq DEF RespInv
<1>4. /\ FrameOf[v] = f /\ v \in Reply /\ Encoded(v) \in Seq(Digit)
      /\ Len(Encoded(v)) <= MAX_MSG /\ Expected(v) = v
  BY FrameCoding
<1>5. f \in Seq(Byte)
  BY <1>4, FieldSeq
<1>6. BufferOK(outgoing') /\ Data(outgoing') = d \o f
  BY <1>1, <1>3, <1>4, RespondAppends DEF Added
<1>7. due' \in Seq(Replies) /\ Stream(due', FrameOf) = Stream(due, FrameOf) \o f
  <2>1. due' = Append(due, v)
    BY <1>1, <1>4
  <2>2. Append(due, v) \in Seq(Replies)
    BY <1>3
  <2>3. Stream(Append(due, v), FrameOf) = Stream(due, FrameOf) \o FrameOf[v]
    BY <1>3, FrameCoding, StreamAppend
  <2> QED BY <1>4, <2>1, <2>2, <2>3
<1> HIDE DEF d, f
<1>8. s2c \o (d \o f) = (s2c \o d) \o f
  BY <1>3, <1>5, ThreeBytes, Zenon
<1> QED BY <1>2, <1>3, <1>6, <1>7, <1>8 DEF RespInv

\* A write moves bytes from outgoing to the socket.
LEMMA RespWrite ==
  ASSUME RespInv, NEW k \in 1 .. outgoing.data_length, handle_write(k), due' = due
  PROVE  RespInv'
<1> DEFINE d == Data(outgoing)
           a == First(d, k)
           b == Rest(d, k)
<1>1. /\ BufferOK(outgoing) /\ d \in Seq(Byte) /\ Len(d) = outgoing.data_length
      /\ s2c \in Seq(Byte) /\ due \in Seq(Replies) /\ s2c \o d = Stream(due, FrameOf)
  BY DataSeq DEF RespInv
<1>2. s2c' = s2c \o a /\ outgoing' = consume(outgoing, k)
  BY DEF handle_write
<1>3. k \in Nat /\ k \in 0 .. outgoing.data_length /\ k <= Len(d)
  BY <1>1 DEF BufferOK
<1>4. a \in Seq(Byte) /\ b \in Seq(Byte) /\ d = a \o b
  BY <1>1, <1>3, SplitSeq DEF First, Rest
<1>5. BufferOK(outgoing') /\ Data(outgoing') = b
  BY <1>1, <1>2, <1>3, ConsumeIsDequeue DEF Rest
<1> HIDE DEF d, a, b
<1>6. s2c \o (a \o b) = (s2c \o a) \o b
  BY <1>1, <1>4, ThreeBytes, Zenon
<1>7. s2c \o a \in Seq(Byte)
  BY <1>1, <1>4, JoinBytes
<1> QED BY <1>1, <1>2, <1>4, <1>5, <1>6, <1>7 DEF RespInv

\* What the client finds at the front of what has arrived.
LEMMA ArrivedResponse ==
  ASSUME RepliesFit, RespInv
  PROVE  /\ ~ TooLong(s2c)
         /\ Arrived(s2c) =>
              /\ due # <<>> /\ due[1] \in Replies /\ SubSeq(due, 2, Len(due)) \in Seq(Replies)
              /\ Length(s2c) = Len(Encoded(due[1])) /\ Body(s2c) = Encoded(due[1])
              /\ W + Length(s2c) <= Len(s2c)
              /\ Rest(s2c, W + Length(s2c)) \o Data(outgoing)
                   = Stream(SubSeq(due, 2, Len(due)), FrameOf)
         /\ due # <<>> /\ Data(outgoing) = <<>> => Arrived(s2c)
<1> DEFINE d == Data(outgoing)
           more == SubSeq(due, 2, Len(due))
           m == Encoded(due[1])
           t == Stream(more, FrameOf)
<1>1. d \in Seq(Byte) /\ s2c \in Seq(Byte) /\ Len(s2c) \in Nat /\ W \in Nat
  BY DataSeq, ByteAssumption DEF RespInv
<1>2. CASE due = <<>>
  BY <1>1, <1>2, FrontOfResponses, NoFront
<1>3. CASE due # <<>>
  <2>1. due[1] \in Replies /\ more \in Seq(Replies) /\ FrontIs(s2c, d, m, t)
    BY <1>3, FrontOfResponses
  <2> HIDE DEF d, more, m, t
  <2>2. /\ ~ TooLong(s2c) /\ (Arrived(s2c) <=> Len(s2c) >= W + Len(m))
        /\ Arrived(s2c) =>
             Length(s2c) = Len(m) /\ Body(s2c) = m /\ Rest(s2c, W + Len(m)) \o d = t
    BY <2>1, FrameFront
  <2>3. m \in Seq(Digit) /\ t \in Seq(Byte) /\ s2c \o d = Field(m) \o t
    BY <2>1 DEF FrontIs
  <2>4. Field(m) \in Seq(Byte) /\ Len(Field(m)) = W + Len(m) /\ Len(m) \in Nat
    BY <2>3, FieldSeq
  <2>5. ASSUME d = <<>> PROVE Arrived(s2c)
    <3>1. s2c \o <<>> = Field(m) \o t
      BY <2>3, <2>5
    <3> QED BY <1>1, <2>2, <2>3, <3>1, WholeFrame
  <2>6. ASSUME Arrived(s2c) PROVE W + Length(s2c) <= Len(s2c)
    BY <1>1, <2>2, <2>4, <2>6
  <2> QED BY <1>3, <2>1, <2>2, <2>5, <2>6 DEF d, more, m, t
<1> QED BY <1>2, <1>3

\* The client takes one response and no byte of the next.
LEMMA RespRead ==
  ASSUME RepliesFit, RespInv, read_res
  PROVE  RespInv'
<1> DEFINE k == W + Length(s2c)
           more == SubSeq(due, 2, Len(due))
<1>1. /\ TooLong(s2c) \/ Arrived(s2c)
      /\ s2c' = Rest(s2c, IF TooLong(s2c) THEN W ELSE k)
      /\ due' = more /\ outgoing' = outgoing
  BY DEF read_res, conn
<1>2. /\ ~ TooLong(s2c) /\ Arrived(s2c) /\ more \in Seq(Replies)
      /\ Length(s2c) = Len(Encoded(due[1])) /\ due[1] \in Replies /\ k <= Len(s2c)
      /\ Rest(s2c, k) \o Data(outgoing) = Stream(more, FrameOf)
  BY <1>1, ArrivedResponse
<1>3. Encoded(due[1]) \in Seq(Digit)
  BY <1>2, FrameCoding
<1>4. k \in Nat
  BY <1>2, <1>3, ByteAssumption
<1>5. s2c' = Rest(s2c, k)
  BY <1>1, <1>2
<1> HIDE DEF k
<1>6. Rest(s2c, k) \in Seq(Byte)
  BY <1>2, <1>4, SplitSeq DEF Rest, RespInv
<1> QED BY <1>1, <1>2, <1>5, <1>6 DEF RespInv

\* Every step keeps the invariant of the way to the client.
LEMMA RespStep ==
  ASSUME RepliesFit, RespInv, [Next]_vars
  PROVE  RespInv'
<1>1. CASE handle_read
  BY <1>1 DEF handle_read, RespInv
<1>2. CASE try_one_request
  BY <1>2, RespServe
<1>3. CASE RequestsDone
  <2>1. due' = due
    BY <1>3 DEF RequestsDone
  <2>2. CASE UNCHANGED <<s2c, outgoing>>
    BY <2>1, <2>2 DEF RespInv
  <2>3. CASE \E k \in 1 .. outgoing.data_length : handle_write(k)
    BY <2>1, <2>3, RespWrite
  <2> QED BY <1>3, <2>2, <2>3 DEF RequestsDone
<1>4. CASE Writable
  BY <1>4, RespWrite DEF Writable
<1>5. CASE \E cmd \in Cmds : send_req(cmd)
  BY <1>5 DEF send_req, conn, RespInv
<1>6. CASE read_res
  BY <1>6, RespRead
<1>7. CASE ReadEof
  BY <1>7 DEF ReadEof, conn, RespInv
<1>8. CASE Exit
  BY <1>8 DEF Exit, conn, RespInv
<1>9. CASE UNCHANGED vars
  BY <1>9 DEF vars, conn, RespInv
<1> QED
  BY <1>1, <1>2, <1>3, <1>4, <1>5, <1>6, <1>7, <1>8, <1>9 DEF Next, Server, Client

\* After a write the connection waits for what is left to do.
LEMMA WaitWrite ==
  ASSUME NEW k \in 1 .. outgoing.data_length, handle_write(k)
  PROVE  /\ want_read' \in BOOLEAN /\ want_write' \in BOOLEAN
         /\ want_read' <=> empty(outgoing)'
         /\ want_write' <=> ~ empty(outgoing)'
<1>1. want_read' = empty(outgoing)' /\ want_write' = ~ empty(outgoing)'
  BY DEF handle_write, empty
<1>2. empty(outgoing)' \in BOOLEAN
  BY DEF empty
<1> QED BY <1>1, <1>2, Zenon

\* Every step keeps what the connection waits for.
LEMMA WaitStep ==
  ASSUME WaitInv, [Next]_vars
  PROVE  WaitInv'
<1>1. CASE handle_read
  <2>1. want_read /\ ~ want_write /\ UNCHANGED <<want_read, want_write>>
    BY <1>1 DEF handle_read, WaitInv
  <2>2. pc' = "requests" \/ pc' = "closed"
    BY <1>1 DEF handle_read
  <2> QED BY <2>1, <2>2 DEF WaitInv
<1>2. CASE try_one_request
  <2>1. pc = "requests" /\ UNCHANGED <<want_read, want_write, pc>>
    BY <1>2 DEF try_one_request
  <2> QED BY <2>1 DEF WaitInv
<1>3. CASE RequestsDone
  <2> DEFINE s == Data(incoming)
             refused == TooLong(s) \/ (Complete(s) /\ ~ Parsed(s).ok)
  <2>1. /\ pc = "requests" /\ (refused \/ ~ Complete(s))
        /\ pc' = IF refused THEN "closed" ELSE "poll"
        /\ Data(incoming)' = s
    BY <1>3 DEF RequestsDone
  <2> HIDE DEF s, refused
  <2>2. pc' # "requests" /\ (pc' = "poll" => ~ Complete(s))
    BY <2>1
  <2>3. /\ want_read' \in BOOLEAN /\ want_write' \in BOOLEAN
        /\ want_read' <=> empty(outgoing)'
        /\ want_write' <=> ~ empty(outgoing)'
    <3>1. CASE empty(outgoing) /\ UNCHANGED <<s2c, outgoing, want_read, want_write>>
      BY <2>1, <3>1 DEF WaitInv, empty
    <3>2. CASE \E k \in 1 .. outgoing.data_length : handle_write(k)
      BY <3>2, WaitWrite
    <3> QED BY <1>3, <3>1, <3>2 DEF RequestsDone
  <2>4. ~ Complete(s) => ~ Complete(Data(incoming))'
    BY <2>1 DEF Complete
  <2> QED BY <2>2, <2>3, <2>4 DEF WaitInv
<1>4. CASE Writable
  <2>1. pc = "poll" /\ pc' = pc /\ incoming' = incoming
    BY <1>4 DEF Writable
  <2>2. /\ want_read' \in BOOLEAN /\ want_write' \in BOOLEAN
        /\ want_read' <=> empty(outgoing)'
        /\ want_write' <=> ~ empty(outgoing)'
    BY <1>4, WaitWrite DEF Writable
  <2> QED BY <2>1, <2>2 DEF WaitInv
<1>5. CASE Client \/ UNCHANGED vars
  <2>1. UNCHANGED <<incoming, outgoing, want_read, want_write, pc>>
    BY <1>5 DEF Client, send_req, read_res, ReadEof, Exit, vars, conn
  <2> QED BY <2>1 DEF WaitInv
<1> QED BY <1>1, <1>2, <1>3, <1>4, <1>5 DEF Next, Server

\* The whole invariant.
SessionInv == ReqInv /\ WaitInv /\ (RepliesFit => RespInv)

\* It holds in every state.
THEOREM SessionInvariant == Spec => []SessionInv
<1>1. Init => SessionInv
  BY ReqInit, RespInit DEF SessionInv
<1>2. SessionInv /\ [Next]_vars => SessionInv'
  <2> SUFFICES ASSUME SessionInv, [Next]_vars PROVE SessionInv'
    OBVIOUS
  <2>1. ReqInv' /\ WaitInv'
    BY ReqStep, WaitStep DEF SessionInv
  <2>2. ASSUME RepliesFit PROVE RespInv'
    BY <2>2, RespStep DEF SessionInv
  <2>3. RepliesFit' => RepliesFit
    OBVIOUS
  <2> QED BY <2>1, <2>2, <2>3 DEF SessionInv
<1> QED BY <1>1, <1>2, PTL DEF Spec

\* If every reply fits in a message, the pointers of both buffers stay within
\* their memory and no write through a pointer computed from data_end, the
\* length that response_end fills in last, falls outside it.
THEOREM SessionTypes == Spec => [](RepliesFit => TypeOK)
<1>1. SessionInv => (RepliesFit => TypeOK)
  BY DEF SessionInv, ReqInv, RespInv, TypeOK
<1> QED BY <1>1, SessionInvariant, PTL

\* If every reply fits in a message, the client receives the responses in
\* order and byte for byte, however handle_write cuts them.
THEOREM SessionResponses == Spec => [](RepliesFit => ResponsesIntact)
<1>1. SessionInv => (RepliesFit => ResponsesIntact)
  BY ResponsesAreStream DEF SessionInv, RespInv, ResponsesIntact
<1> QED BY <1>1, SessionInvariant, PTL

\* If every reply fits in a message, client and server never wait for each
\* other: want_read and want_write name an event that will come.
THEOREM SessionMoves == Spec => [](RepliesFit => NobodyStalls)
<1>1. SessionInv => (RepliesFit => NobodyStalls)
  <2> SUFFICES ASSUME SessionInv, RepliesFit, asked \o due # <<>>, pc = "poll",
                      ~ (want_read /\ c2s # <<>>), ~ (want_write /\ ~ empty(outgoing))
               PROVE  Arrived(s2c)
    BY DEF NobodyStalls
  <2>1. ReqInv /\ RespInv /\ WaitInv
    BY DEF SessionInv
  <2>2. empty(outgoing) /\ c2s = <<>> /\ ~ Complete(Data(incoming))
    BY <2>1 DEF WaitInv
  <2>3. Data(outgoing) = <<>>
    BY <2>2 DEF empty, Data
  <2>4. asked = <<>>
    <3> SUFFICES ASSUME asked # <<>> PROVE FALSE
      OBVIOUS
    <3> DEFINE m == Content(asked[1])
               d == Data(incoming)
               t == Stream(SubSeq(asked, 2, Len(asked)), SentOf)
    <3>1. FrontIs(d, c2s, m, t)
      BY <2>1, FrontOfRequests
    <3> HIDE DEF m, d, t
    <3>2. /\ d \in Seq(Byte) /\ m \in Seq(Digit) /\ t \in Seq(Byte)
          /\ d \o <<>> = Field(m) \o t
      BY <2>2, <3>1 DEF FrontIs
    <3>3. ~ TooLong(d) /\ (Arrived(d) <=> Len(d) >= W + Len(m))
      BY <3>1, FrameFront
    <3>4. Len(d) >= W + Len(m)
      BY <3>2, WholeFrame
    <3> QED BY <2>2, <3>3, <3>4 DEF Complete, d
  <2>5. due # <<>>
    <3>1. <<>> \o <<>> = <<>>
      OBVIOUS
    <3> QED BY <2>4, <3>1
  <2> QED BY <2>1, <2>3, <2>5, ArrivedResponse
<1> QED BY <1>1, SessionInvariant, PTL

\* If every reply fits in a message, what print_response shows is the first
\* answer that has not been shown, also of a connection that was closed.
THEOREM SessionPrinted == Spec => [](RepliesFit => AnswerPrinted)
<1>1. SessionInv => (RepliesFit => AnswerPrinted)
  <2> SUFFICES ASSUME SessionInv, RepliesFit, Arrived(s2c)
               PROVE  due # <<>> /\ print_response(Body(s2c)).val = due[1]
    BY DEF AnswerPrinted
  <2>1. due # <<>> /\ due[1] \in Replies /\ Body(s2c) = Encoded(due[1])
    BY ArrivedResponse DEF SessionInv
  <2>2. due[1] \in Reply /\ Len(Encoded(due[1])) <= MAX_MSG
    BY <2>1, FrameCoding
  <2>3. print_response(Encoded(due[1])).val = due[1]
    BY <2>2, ResponseUnderstood
  <2> QED BY <2>1, <2>3
<1> QED BY <1>1, SessionInvariant, PTL
=============================================================================
