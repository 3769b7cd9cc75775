------------------------------- MODULE Buffer -------------------------------
(***************************************************************************)
(* Buffer (MRD_buffer.h): bytes appended at one end and consumed at the    *)
(* other, in memory that is moved or replaced when it does not suffice.    *)
(* Pointers are offsets from buffer_begin, so buffer_end is buf_size.      *)
(***************************************************************************)
EXTENDS Integers, Sequences

CONSTANTS
  Byte,             \* what a byte may be, Junk included
  Junk              \* memory that was never written

ASSUME JunkAssumption == Junk \in Byte

\* What new gives.
Fresh(size) == [i \in 0 .. size - 1 |-> Junk]

\* A buffer of the given size.  broken says that something was written
\* outside the memory.
New(size) ==
  [mem |-> Fresh(size), buf_size |-> size,
   data_begin |-> 0, data_end |-> 0, data_length |-> 0, broken |-> FALSE]

\* The bytes a user of the buffer sees.
Data(b) == [i \in 1 .. b.data_length |-> b.mem[b.data_begin + i - 1]]

empty(b) == b.data_length = 0

Mut_consume(b, n) == [b EXCEPT !.data_begin = @ + n]

\* Callers do not consume more than there is, so data_length does not wrap.
consume(b, n) ==
  IF b.data_begin + n > b.buf_size
  THEN [b EXCEPT !.data_begin = b.buf_size, !.data_length = 0]
  ELSE [b EXCEPT !.data_begin = @ + n, !.data_length = @ - n]

\* memcpy of the bytes s to the offset at.
Write(b, at, s) ==
  IF at < 0 \/ at + Len(s) > b.buf_size THEN [b EXCEPT !.broken = TRUE]
  ELSE [b EXCEPT !.mem = [i \in DOMAIN b.mem |->
          IF at <= i /\ i < at + Len(s) THEN s[i - at + 1] ELSE b.mem[i]]]

\* The data at the beginning of a memory of the given size; what follows it
\* is what rest holds there.
Moved(b, size, rest) ==
  [b EXCEPT
     !.mem = [i \in 0 .. size - 1 |->
                IF i < b.data_length THEN b.mem[b.data_begin + i] ELSE rest[i]],
     !.buf_size = size, !.data_begin = 0, !.data_end = b.data_length]

resize(b, size) == Moved(b, b.buf_size + size, Fresh(b.buf_size + size))

Compacted(b) == Moved(b, b.buf_size, b.mem)

\* The first test of append.
MakeRoom(b, len) ==
  IF len > b.buf_size THEN resize(b, len + b.data_length - b.buf_size)
  ELSE IF b.data_begin + len > b.buf_size THEN Compacted(b)
  ELSE b

\* The second one.
Grow(b, len) ==
  IF b.data_end + len > b.buf_size
  THEN resize(b, len - (b.buf_size - b.data_end))
  ELSE b

append(b, s) ==
  LET room == Grow(MakeRoom(b, Len(s)), Len(s))
  IN  [Write(room, room.data_end, s) EXCEPT
         !.data_length = @ + Len(s), !.data_end = @ + Len(s)]

-----------------------------------------------------------------------------
\* The pointers of a buffer are in order and within its memory, and
\* data_length is the distance between the last two.
BufferOK(b) ==
  /\ b \in [mem : [0 .. b.buf_size - 1 -> Byte], buf_size : Nat,
            data_begin : Nat, data_end : Nat, data_length : Nat,
            broken : {FALSE}]
  /\ b.data_begin + b.data_length = b.data_end
  /\ b.data_end <= b.buf_size
=============================================================================
