-------------------------------- MODULE Buffers --------------------------------
(***************************************************************************)
(* The buffers of the client: DataBuffer (core/src/databuffer.ts), a list  *)
(* of chunks that the outbound bytes wait in, and DenoBuffer               *)
(* (core/src/denobuffer.ts), one array with a read offset that grows, in   *)
(* which the parser keeps what it is in the middle of.                     *)
(*                                                                         *)
(* Each goes along with a queue of bytes that does what the buffer ought   *)
(* to do.  Bytes are numbered as they are written.                         *)
(***************************************************************************)
EXTENDS Integers, Sequences, FiniteSets, SequencesExt

CONSTANTS
  MaxSize,    \* MAX_SIZE: the largest array there is
  MaxWrite,   \* bound: bytes in one write, and chunks when another is added
  MaxBytes    \* bound: bytes written in all

BuffersAssumption == {MaxSize, MaxWrite, MaxBytes} \subseteq Nat \ {0}

VARIABLES
  buffers,     \* DataBuffer: the chunks
  byteLength,  \* DataBuffer: bytes in them
  mem,         \* DenoBuffer: the array; 0 for a byte that was not written
  off, len,    \* DenoBuffer: _off, and the length of the view on the array
  queue,       \* what the buffer in use should hold
  right,       \* every read returned what it should
  count        \* bytes written so far

db == <<buffers, byteLength>>
deno == <<mem, off, len>>
vars == <<db, deno, queue, right, count>>

Fresh(n) == [k \in 1..n |-> count + k]
Upto(s, n) == SubSeq(s, 1, n)
After(s, n) == SubSeq(s, n + 1, Len(s))
Wrote(n) ==
  /\ count + n <= MaxBytes /\ count' = count + n
  /\ queue' = queue \o Fresh(n) /\ UNCHANGED right
Reads(bytes, n) == right' = (right /\ bytes = Upto(queue, n)) /\ queue' = After(queue, n) /\ UNCHANGED count

\* A run uses one of the two.
UsesData == mem = <<>>
UsesDeno == buffers = <<>>

Init ==
  /\ buffers = <<>> /\ byteLength = 0
  /\ mem = <<>> /\ off = 0 /\ len = 0
  /\ queue = <<>> /\ right = TRUE /\ count = 0

----------------------------------------------------------------------------
\* fill(a, ...bufs): a chunk for each; empty ones of the rest are left out.
Fill(n, m) ==
  /\ UsesData /\ Len(buffers) < MaxWrite /\ Wrote(n + m)
  /\ buffers' = buffers \o <<Upto(Fresh(n + m), n)>>
                        \o (IF m = 0 THEN <<>> ELSE <<After(Fresh(n + m), n)>>)
  /\ byteLength' = byteLength + n + m
  /\ UNCHANGED deno

\* pack(): one chunk instead of many.
Packed == IF Len(buffers) > 1 THEN <<FlattenSeq(buffers)>> ELSE buffers

\* drain(n): packs, and takes at most n bytes, or all.
Drain(n) ==
  /\ UsesData /\ buffers # <<>>
  /\ LET v == Packed[1]
         k == IF n > byteLength THEN byteLength ELSE n IN
     /\ Reads(Upto(v, k), k)
     /\ buffers' = IF byteLength > k THEN <<After(v, k)>> ELSE <<>>
     /\ byteLength' = byteLength - k
  /\ UNCHANGED deno

\* shift(): takes the first chunk.
Shift ==
  /\ UsesData /\ buffers # <<>>
  /\ Reads(buffers[1], Len(buffers[1]))
  /\ buffers' = Tail(buffers) /\ byteLength' = byteLength - Len(buffers[1])
  /\ UNCHANGED deno

\* peek(): packs, and returns the bytes there are.
Peek ==
  /\ UsesData /\ buffers # <<>>
  /\ buffers' = Packed /\ right' = (right /\ Packed[1] = queue)
  /\ UNCHANGED <<byteLength, deno, queue, count>>

\* reset()
ResetData ==
  /\ UsesData /\ buffers # <<>>
  /\ buffers' = <<>> /\ byteLength' = 0 /\ queue' = <<>>
  /\ UNCHANGED <<deno, right, count>>

----------------------------------------------------------------------------
Unread == SubSeq(mem, off + 1, len)
Length == len - off
Capacity == Len(mem)
\* copy(): the bytes in their place, as many as fit.
Copied(bytes, m, at) ==
  [k \in DOMAIN m |-> IF k > at /\ k <= at + Len(bytes) THEN bytes[k - at] ELSE m[k]]
Zeroes(n) == [k \in 1..n |-> 0]
Smaller(a, b) == IF a < b THEN a ELSE b

\* _grow(n): room for n bytes at `at`: what the array has left, what sliding the unread
\* bytes down gives, or a larger array.
Grow(n) ==
  LET o == IF Length = 0 THEN 0 ELSE off
      l == IF Length = 0 /\ off # 0 THEN 0 ELSE len IN
  IF n <= Capacity - l THEN [mem |-> mem, off |-> o, len |-> l + n, at |-> l]
  ELSE IF n <= (Capacity \div 2) - Length
    THEN [mem |-> Copied(Unread, mem, 0), off |-> 0, len |-> Length + n, at |-> Length]
  ELSE [mem |-> Copied(Unread, Zeroes(Smaller(2 * Capacity + n, MaxSize)), 0), off |-> 0,
        len |-> Smaller(Length + n, MaxSize), at |-> Length]

\* _grow() throws: neither the array nor sliding gives room, and a larger one cannot be had.
TooLarge(n) ==
  /\ n > Capacity - (IF Length = 0 THEN 0 ELSE len)
  /\ n > (Capacity \div 2) - Length
  /\ Capacity + n > MaxSize

\* write(p)
Write(n) ==
  /\ UsesDeno /\ ~TooLarge(n) /\ Wrote(n)
  /\ LET g == Grow(n) IN
     /\ mem' = Copied(Fresh(n), g.mem, g.at) /\ off' = g.off /\ len' = g.len
  /\ UNCHANGED db
WriteFails(n) ==
  /\ UsesDeno /\ TooLarge(n) /\ Length = 0 /\ off # 0
  /\ off' = 0 /\ len' = 0
  /\ UNCHANGED <<db, mem, queue, right, count>>

\* grow(n): makes room and no more.
GrowOnly(n) ==
  /\ UsesDeno /\ ~TooLarge(n)
  /\ LET g == Grow(n) IN mem' = g.mem /\ off' = g.off /\ len' = g.at
  /\ UNCHANGED <<db, queue, right, count>>

\* read(p), of n bytes; an empty buffer is reset.
Read(n) ==
  /\ UsesDeno /\ mem # <<>>
  /\ LET k == Smaller(n, Length) IN
     /\ Reads(Upto(Unread, k), k)
     /\ IF Length = 0 THEN off' = 0 /\ len' = 0 ELSE off' = off + k /\ len' = len
  /\ UNCHANGED <<db, mem>>

\* truncate(n), and reset() if that is none.
Truncate(n) ==
  /\ UsesDeno /\ n <= Length /\ mem # <<>>
  /\ IF n = 0 THEN off' = 0 /\ len' = 0 ELSE off' = off /\ len' = off + n
  /\ queue' = Upto(queue, n)
  /\ UNCHANGED <<db, mem, right, count>>

Next ==
  \/ \E n, m \in 0..MaxWrite : Fill(n, m)
  \/ \E n \in 0..MaxBytes : Drain(n) \/ Read(n) \/ Truncate(n)
  \/ Shift \/ Peek \/ ResetData
  \/ \E n \in 0..MaxWrite : Write(n) \/ WriteFails(n) \/ GrowOnly(n)

Spec == Init /\ [][Next]_vars

----------------------------------------------------------------------------
\* Bytes come out of either buffer as they went in, however they were cut, packed, slid or
\* moved to another array, and the sizes are right (protocol.ts flushes by size).
FirstInFirstOut ==
  /\ right
  /\ UsesData => FlattenSeq(buffers) = queue /\ byteLength = Len(queue)
  /\ UsesDeno /\ mem # <<>> => Unread = queue /\ off <= len /\ len <= Capacity
=============================================================================
