------------------------------ MODULE RingBuf ------------------------------
(***************************************************************************)
(* internal/ringbuf/ringbuf.go: the circular byte buffer that keeps the    *)
(* recent output of a terminal so that it can be replayed.                 *)
(*                                                                         *)
(* Every method runs under rb.mu.  Write copies one byte per iteration of  *)
(* its loop, so the model takes one step per byte and keeps the bytes not  *)
(* yet copied in `pending': the mutex is held exactly while pending is not *)
(* empty, and every other method waits for it.                             *)
(***************************************************************************)
EXTENDS Integers, Sequences

CONSTANTS Byte,      \* the values of a byte; make([]byte, n) fills with 0
          Cap,       \* rb.cap
          Payloads   \* the byte strings p callers pass to Write

ASSUME CapAssumption == Cap \in Nat \ {0}     \* New panics otherwise
ASSUME ByteAssumption == 0 \in Byte
ASSUME PayloadAssumption == Payloads \subseteq Seq(Byte) \ {<< >>}

VARIABLES buf, head, tail, size,  \* the fields of RingBuffer
          arg,                    \* the payload of the latest call of Write
          pending,                \* bytes the Write in progress has yet to copy
          out                     \* the slice the latest call of Bytes returned

vars == <<buf, head, tail, size, arg, pending, out>>

Index == 0 .. Cap - 1

TypeOK ==
  /\ buf \in [Index -> Byte]
  /\ head \in Index /\ tail \in Index
  /\ size \in 0 .. Cap
  /\ arg \in Seq(Byte) /\ pending \in Seq(Byte)
  /\ out \in Seq(Byte)

MuFree == pending = << >>

\* (i + 1) % rb.cap
Succ(i) == (i + 1) % Cap

Init ==
  /\ buf = [i \in Index |-> 0]
  /\ head = 0 /\ tail = 0 /\ size = 0
  /\ arg = << >> /\ pending = << >>
  /\ out = << >>

\* Seeded bug: keeps the first Cap bytes of a long payload instead of the last.
WriteBulkFirst(p) ==
  /\ MuFree
  /\ Len(p) >= Cap
  /\ buf' = [i \in Index |-> p[i + 1]]
  /\ head' = 0 /\ tail' = 0 /\ size' = Cap
  /\ arg' = p
  /\ UNCHANGED <<pending, out>>

\* A payload of at least Cap bytes replaces the whole buffer by its last Cap
\* bytes; the loop is not entered.
WriteBulk(p) ==
  /\ MuFree
  /\ Len(p) >= Cap
  /\ buf' = [i \in Index |-> p[Len(p) - Cap + i + 1]]
  /\ head' = 0 /\ tail' = 0 /\ size' = Cap
  /\ arg' = p
  /\ UNCHANGED <<pending, out>>

\* A shorter payload: take the mutex and enter the loop.
WriteLoop(p) ==
  /\ MuFree
  /\ Len(p) < Cap
  /\ arg' = p /\ pending' = p
  /\ UNCHANGED <<buf, head, tail, size, out>>

\* Seeded bug: head is not moved off the byte that a full buffer overwrites.
WriteByteKeepHead ==
  /\ ~MuFree
  /\ buf' = [buf EXCEPT ![tail] = Head(pending)]
  /\ tail' = Succ(tail)
  /\ size' = IF size = Cap THEN size ELSE size + 1
  /\ pending' = Tail(pending)
  /\ UNCHANGED <<head, arg, out>>

\* One iteration of the loop; the last one releases the mutex.
WriteByte ==
  /\ ~MuFree
  /\ buf' = [buf EXCEPT ![tail] = Head(pending)]
  /\ tail' = Succ(tail)
  /\ IF size = Cap THEN head' = Succ(head) /\ UNCHANGED size
                   ELSE size' = size + 1 /\ UNCHANGED head
  /\ pending' = Tail(pending)
  /\ UNCHANGED <<arg, out>>

\* buf[from : to], as a sequence.
Slice(from, to) == [i \in 1 .. to - from |-> buf[from + i - 1]]

\* The slice Bytes builds: one copy, or two when the contents wrap around.
BytesResult ==
  IF head + size <= Cap
  THEN Slice(head, head + size)
  ELSE Slice(head, Cap) \o Slice(0, size - (Cap - head))

Bytes ==
  /\ MuFree
  /\ out' = BytesResult
  /\ UNCHANGED <<buf, head, tail, size, arg, pending>>

\* Reset forgets the contents and leaves the bytes in buf.
Reset ==
  /\ MuFree
  /\ head' = 0 /\ tail' = 0 /\ size' = 0
  /\ UNCHANGED <<buf, arg, pending, out>>

Next ==
  \/ \E p \in Payloads : WriteBulk(p) \/ WriteLoop(p)
  \/ WriteByte
  \/ Bytes
  \/ Reset

Spec == Init /\ [][Next]_vars
-----------------------------------------------------------------------------
\* tail is where the next byte goes: right after the size bytes from head.
TailFollows == tail = IF head + size < Cap THEN head + size ELSE head + size - Cap

\* The loop is entered only with a payload shorter than the buffer.
PendingShort == Len(pending) < Cap

IndexInv == TypeOK /\ TailFollows /\ PendingShort
-----------------------------------------------------------------------------
\* The bytes stored, oldest first, followed by the ones the loop has yet to copy.
Total == size + Len(pending)
Written(j) ==
  IF j <= size
  THEN buf[IF head + j <= Cap THEN head + j - 1 ELSE head + j - 1 - Cap]
  ELSE pending[j - size]

\* How many of them fall off the front.
Skip == IF Total > Cap THEN Total - Cap ELSE 0

\* The log during a Write already holds what the loop has yet to copy: the
\* write takes effect when the mutex is taken, and no reader can tell.
LogView == [i \in 1 .. Total - Skip |-> Written(i + Skip)]

Log == INSTANCE BoundedLog WITH contents <- LogView

\* Implements the bounded log: a reader always gets the newest Cap bytes written
\* since the last Reset, in order, never part of a Write, whatever the wrap-around
\* of head and tail and whichever of Write's two paths was taken.
ImplementsLog == Log!Spec
=============================================================================
