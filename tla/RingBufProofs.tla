--------------------------- MODULE RingBufProofs ---------------------------
(***************************************************************************)
(* Proofs about the ring buffer for every capacity, byte alphabet and      *)
(* payload set, about the frame format for every payload it can express,   *)
(* and about the port scan for every number of sockets and processes.      *)
(***************************************************************************)
EXTENDS MCRingBuf, SequenceTheorems, FiniteSetTheorems, TLAPS

\* The modulo in Write only ever wraps an index that has reached the capacity.
LEMMA SuccWraps ==
  \A i \in Index : Succ(i) = IF i + 1 = Cap THEN 0 ELSE i + 1
<1> SUFFICES ASSUME NEW i \in Index
             PROVE  Succ(i) = IF i + 1 = Cap THEN 0 ELSE i + 1
  OBVIOUS
<1>1. Cap \in Nat /\ Cap > 0 /\ i \in Nat /\ i < Cap
  BY CapAssumption DEF Index
<1>2. CASE i + 1 = Cap
  BY <1>1, <1>2 DEF Succ
<1>3. CASE i + 1 < Cap
  BY <1>1, <1>3 DEF Succ
<1> QED
  BY <1>1, <1>2, <1>3

\* The three index fields stay in range and tail stays size bytes after head,
\* across wrap-around, the bulk path and Reset.
LEMMA IndexInvStep == IndexInv /\ [Next]_vars => IndexInv'
<1> SUFFICES ASSUME IndexInv, [Next]_vars PROVE IndexInv'
  OBVIOUS
<1> USE CapAssumption DEF IndexInv, TypeOK, TailFollows, PendingShort, Index
<1>1. ASSUME NEW p \in Payloads, WriteBulk(p) PROVE IndexInv'
  BY <1>1, PayloadAssumption DEF WriteBulk
<1>2. ASSUME NEW p \in Payloads, WriteLoop(p) PROVE IndexInv'
  BY <1>2, PayloadAssumption DEF WriteLoop
<1>3. CASE WriteByte
  <2>1. Head(pending) \in Byte /\ Tail(pending) \in Seq(Byte)
        /\ Len(Tail(pending)) < Cap
    BY <1>3 DEF WriteByte, MuFree
  <2>2. /\ tail' = IF tail + 1 = Cap THEN 0 ELSE tail + 1
        /\ size = Cap => head' = (IF head + 1 = Cap THEN 0 ELSE head + 1)
    BY <1>3, SuccWraps DEF WriteByte
  <2>3. buf' \in [Index -> Byte]
    BY <1>3, <2>1 DEF WriteByte
  <2>4. head' \in Index /\ tail' \in Index /\ size' \in 0 .. Cap
    BY <1>3, <2>2 DEF WriteByte
  <2>5. TailFollows'
    BY <1>3, <2>2 DEF WriteByte
  <2> QED
    BY <1>3, <2>1, <2>3, <2>4, <2>5 DEF WriteByte
<1>4. CASE Bytes
  <2>1. BytesResult \in Seq(Byte)
    <3>1. CASE head + size <= Cap
      <4>1. /\ size \in Nat
            /\ BytesResult = [i \in 1 .. size |-> buf[head + i - 1]]
        BY <3>1 DEF BytesResult, Slice
      <4>2. \A i \in 1 .. size : buf[head + i - 1] \in Byte
        BY <3>1
      <4> QED
        BY <4>1, <4>2
    <3>2. CASE head + size > Cap
      <4>1. Slice(head, Cap) \in Seq(Byte)
        <5>1. Cap - head \in Nat /\ \A i \in 1 .. Cap - head : buf[head + i - 1] \in Byte
          OBVIOUS
        <5> QED
          BY <5>1 DEF Slice
      <4>2. Slice(0, size - (Cap - head)) \in Seq(Byte)
        <5>1. /\ size - (Cap - head) \in Nat
              /\ size - (Cap - head) - 0 = size - (Cap - head)
              /\ \A i \in 1 .. size - (Cap - head) : buf[0 + i - 1] \in Byte
          BY <3>2
        <5> QED
          BY <5>1 DEF Slice
      <4> QED
        BY <3>2, <4>1, <4>2 DEF BytesResult
    <3> QED
      BY <3>1, <3>2
  <2> QED
    BY <1>4, <2>1 DEF Bytes
<1>5. CASE Reset
  BY <1>5 DEF Reset
<1>6. CASE UNCHANGED vars
  BY <1>6 DEF vars
<1> QED
  BY <1>1, <1>2, <1>3, <1>4, <1>5, <1>6 DEF Next

\* No sequence of writes, reads and resets takes an index out of the buffer or
\* lets tail and head disagree about the size (ringbuf.go, Write and Reset).
THEOREM IndexInvariance == Spec => []IndexInv
<1>1. Init => IndexInv
  BY CapAssumption, ByteAssumption
     DEF Init, IndexInv, TypeOK, TailFollows, PendingShort, Index
<1> QED
  BY <1>1, IndexInvStep, PTL DEF Spec
-----------------------------------------------------------------------------
\* A function on 1 .. n is a sequence of length n.
LEMMA SeqOfFunction ==
  ASSUME NEW S, NEW n \in Nat, NEW f \in [1 .. n -> S]
  PROVE  f \in Seq(S) /\ Len(f) = n
OBVIOUS

\* LastN keeps the elements from position d + 1 on.
LEMMA LastNElements ==
  ASSUME NEW S, NEW s \in Seq(S), NEW n \in Nat,
         NEW r \in Seq(S), NEW d \in Nat,
         d = IF Len(s) > n THEN Len(s) - n ELSE 0,
         Len(r) = Len(s) - d,
         \A i \in 1 .. Len(r) : r[i] = s[i + d]
  PROVE  r = Log!LastN(s, n)
<1>0. Len(s) \in Nat /\ Len(r) \in Nat
  OBVIOUS
<1>1. CASE Len(s) <= n
  <2>1. d = 0 /\ Len(r) = Len(s) /\ Log!LastN(s, n) = s
    BY <1>0, <1>1 DEF Log!LastN
  <2>2. \A i \in 1 .. Len(r) : r[i] = s[i]
    BY <1>0, <2>1
  <2> QED
    BY <2>1, <2>2, SeqEqual
<1>2. CASE Len(s) > n
  <2>m. PICK m : m = Len(s) - n + 1
    OBVIOUS
  <2>t. PICK t : t = SubSeq(s, m, Len(s))
    OBVIOUS
  <2>1. Log!LastN(s, n) = t
    BY <1>0, <1>2, <2>m, <2>t DEF Log!LastN
  <2>2. /\ m \in Int /\ m <= Len(s) + 1 /\ m >= 1 /\ Len(s) - m + 1 = n /\ Len(r) = n
        /\ (IF m <= Len(s) THEN Len(s) - m + 1 ELSE 0) = n
        /\ \A i \in 1 .. n : m + i - 1 = i + d
    BY <1>0, <1>2, <2>m
  <2>3. \A i \in m .. Len(s) : s[i] \in S
    BY <1>0, <2>2
  <2>4. /\ t \in Seq(S)
        /\ Len(t) = IF m <= Len(s) THEN Len(s) - m + 1 ELSE 0
        /\ \A i \in 1 .. Len(s) - m + 1 : t[i] = s[m + i - 1]
    BY <1>0, <2>2, <2>3, <2>t, SubSeqProperties
  <2>5. Len(t) = Len(r)
    BY <2>2, <2>4, Zenon
  <2>6. \A i \in 1 .. Len(r) : r[i] = t[i]
    BY <2>2, <2>4
  <2> QED
    BY <2>1, <2>4, <2>5, <2>6, SeqEqual
<1>3. Len(s) <= n \/ Len(s) > n
  BY <1>0
<1> QED
  BY <1>1, <1>2, <1>3, Zenon
-----------------------------------------------------------------------------
\* Every byte stored or about to be is a byte.
LEMMA WrittenByte == IndexInv => \A j \in 1 .. Total : Written(j) \in Byte
<1> SUFFICES ASSUME IndexInv, NEW j \in 1 .. Total PROVE Written(j) \in Byte
  OBVIOUS
<1>1. CASE j <= size
  BY <1>1, CapAssumption DEF IndexInv, TypeOK, Index, Written, Total
<1>2. CASE j > size
  BY <1>2 DEF IndexInv, TypeOK, Written, Total
<1> QED
  BY <1>1, <1>2 DEF IndexInv, TypeOK, Total

\* The log, element by element.
LogElements ==
  /\ Total \in Nat /\ Skip \in Nat /\ Skip <= Total
  /\ LogView \in Seq(Byte)
  /\ Len(LogView) = Total - Skip
  /\ \A i \in 1 .. Total - Skip : LogView[i] = Written(i + Skip)

\* The log is a sequence of bytes with the elements LogElements names.
LEMMA LogViewProperties == IndexInv => LogElements
<1> SUFFICES ASSUME IndexInv PROVE LogElements
  OBVIOUS
<1>1. Total \in Nat /\ Skip \in Nat /\ Skip <= Total
  BY CapAssumption DEF IndexInv, TypeOK, Total, Skip
<1>2. Total - Skip \in Nat /\ \A i \in 1 .. Total - Skip : i + Skip \in 1 .. Total
  BY <1>1
<1>3. LogView \in [1 .. Total - Skip -> Byte]
  BY <1>2, WrittenByte DEF LogView
<1>4. \A i \in 1 .. Total - Skip : LogView[i] = Written(i + Skip)
  BY DEF LogView
<1> QED
  BY <1>1, <1>2, <1>3, <1>4, SeqOfFunction DEF LogElements

\* Bytes returns the log: its one or two copies are the bytes in logical order.
LEMMA CopyCorrect == IndexInv /\ MuFree => BytesResult = LogView
<1> SUFFICES ASSUME IndexInv, MuFree PROVE BytesResult = LogView
  OBVIOUS
<1>a. /\ Cap \in Nat /\ Cap > 0 /\ size \in Nat /\ size <= Cap
      /\ head \in Nat /\ head < Cap /\ buf \in [0 .. Cap - 1 -> Byte]
  BY CapAssumption DEF IndexInv, TypeOK, Index
<1>b. Total = size /\ Skip = 0
  BY <1>a DEF Total, Skip, MuFree
<1>1. /\ LogView \in Seq(Byte) /\ Len(LogView) = size
      /\ \A i \in 1 .. size : LogView[i] = Written(i)
  BY <1>a, <1>b, LogViewProperties DEF LogElements
<1>2. \A i \in 1 .. size : Written(i) \in Byte
  BY <1>b, WrittenByte
<1>3. CASE head + size <= Cap
  <2>1. BytesResult = [i \in 1 .. size |-> buf[head + i - 1]]
    BY <1>a, <1>3 DEF BytesResult, Slice
  <2>2. \A i \in 1 .. size : buf[head + i - 1] = Written(i)
    BY <1>a, <1>3 DEF Written
  <2>r. PICK r : r = [i \in 1 .. size |-> buf[head + i - 1]]
    OBVIOUS
  <2>3. r \in [1 .. size -> Byte] /\ \A i \in 1 .. size : r[i] = Written(i)
    BY <2>r, <2>2, <1>2
  <2>4. r \in Seq(Byte) /\ Len(r) = size
    BY <1>a, <2>3, SeqOfFunction
  <2> QED
    BY <1>1, <2>1, <2>r, <2>3, <2>4, SeqEqual
<1>4. CASE head + size > Cap
  <2>n. PICK n : n = Cap - head
    OBVIOUS
  <2>f. PICK f : f = [i \in 1 .. n |-> buf[head + i - 1]]
    OBVIOUS
  <2>g. PICK g : g = [i \in 1 .. size - n |-> buf[i - 1]]
    OBVIOUS
  <2>1. n \in Nat /\ size - n \in Nat /\ n <= size
    BY <1>a, <1>4, <2>n
  <2>2. BytesResult = f \o g
    <3>1. Slice(head, Cap) = f
      BY <2>n, <2>f DEF Slice
    <3>2. Slice(0, size - (Cap - head)) = g
      BY <1>a, <2>1, <2>n, <2>g DEF Slice
    <3> QED
      BY <1>a, <1>4, <3>1, <3>2 DEF BytesResult
  <2>3. \A i \in 1 .. n : buf[head + i - 1] = Written(i)
    BY <1>a, <1>4, <2>n DEF Written
  <2>4. \A i \in 1 .. size - n : buf[i - 1] = Written(n + i)
    BY <1>a, <1>4, <2>n DEF Written
  <2>5. f \in [1 .. n -> Byte] /\ \A i \in 1 .. n : f[i] = Written(i)
    <3>1. \A i \in 1 .. n : i \in 1 .. size
      BY <2>1, <1>a
    <3> QED
      BY <2>f, <2>3, <1>2, <3>1
  <2>6. g \in [1 .. size - n -> Byte] /\ \A i \in 1 .. size - n : g[i] = Written(n + i)
    <3>1. \A i \in 1 .. size - n : n + i \in 1 .. size
      BY <2>1, <1>a
    <3> QED
      BY <2>g, <2>4, <1>2, <3>1
  <2>7. f \in Seq(Byte) /\ Len(f) = n /\ g \in Seq(Byte) /\ Len(g) = size - n
    BY <2>1, <2>5, <2>6, SeqOfFunction
  <2>8. /\ f \o g \in Seq(Byte) /\ Len(f \o g) = size
        /\ \A i \in 1 .. size : (f \o g)[i] = IF i <= n THEN f[i] ELSE g[i - n]
    <3>1. Len(f) + Len(g) = size /\ Len(f) = n
      BY <1>a, <2>1, <2>7
    <3>2. /\ f \o g \in Seq(Byte) /\ Len(f \o g) = Len(f) + Len(g)
          /\ \A i \in 1 .. Len(f) + Len(g) :
               (f \o g)[i] = IF i <= Len(f) THEN f[i] ELSE g[i - Len(f)]
      BY <2>7, ConcatProperties
    <3> QED
      BY <3>1, <3>2, Zenon
  <2>9. ASSUME NEW i \in 1 .. size PROVE (f \o g)[i] = LogView[i]
    <3>1. CASE i <= n
      BY <1>a, <1>1, <2>1, <2>5, <2>8, <3>1
    <3>2. CASE i > n
      <4>1. i - n \in 1 .. size - n /\ n + (i - n) = i
        BY <1>a, <2>1, <3>2
      <4>2. (f \o g)[i] = g[i - n]
        BY <1>a, <2>1, <2>8, <3>2
      <4>3. g[i - n] = Written(i)
        BY <2>6, <4>1
      <4> QED
        BY <1>1, <4>2, <4>3
    <3>3. i <= n \/ i > n
      BY <1>a, <2>1
    <3> QED
      BY <3>1, <3>2, <3>3, Zenon
  <2> QED
    BY <1>1, <2>2, <2>8, <2>9, SeqEqual
<1> QED
  BY <1>a, <1>3, <1>4

\* Taking the mutex for a write of p appends p to the log and drops its front.
LEMMA WritePut ==
  ASSUME IndexInv, IndexInv', NEW p \in Payloads, WriteBulk(p) \/ WriteLoop(p)
  PROVE  LogView' = Log!LastN(LogView \o p, Cap)
<1>a. /\ Cap \in Nat /\ Cap > 0 /\ size \in Nat /\ size <= Cap
      /\ head \in Nat /\ head < Cap /\ buf \in [0 .. Cap - 1 -> Byte]
  BY CapAssumption DEF IndexInv, TypeOK, Index
<1>b. p \in Seq(Byte) /\ Len(p) \in Nat
  BY PayloadAssumption
<1>0. Total = size /\ Skip = 0 /\ MuFree
  BY <1>a DEF Total, Skip, MuFree, WriteBulk, WriteLoop
<1>s. PICK s : s = LogView
  OBVIOUS
<1>r. PICK r : r = LogView'
  OBVIOUS
<1>c. PICK c : c = s \o p
  OBVIOUS
<1>1. /\ s \in Seq(Byte) /\ Len(s) = size
      /\ \A i \in 1 .. size : s[i] = Written(i)
  BY <1>a, <1>0, <1>s, LogViewProperties DEF LogElements
<1>2. /\ c \in Seq(Byte) /\ Len(c) = size + Len(p)
      /\ \A i \in 1 .. size + Len(p) : c[i] = IF i <= size THEN s[i] ELSE p[i - size]
  <2>1. /\ s \o p \in Seq(Byte) /\ Len(s \o p) = Len(s) + Len(p)
        /\ \A i \in 1 .. Len(s) + Len(p) :
             (s \o p)[i] = IF i <= Len(s) THEN s[i] ELSE p[i - Len(s)]
    BY <1>b, <1>1, ConcatProperties
  <2> QED
    BY <1>1, <1>c, <2>1, Zenon
<1>e. LogElements'
  BY LogViewProperties, PTL
<1>t. PICK t1 : t1 = Total'
  OBVIOUS
<1>k. PICK d1 : d1 = Skip'
  OBVIOUS
<1>3. /\ t1 \in Nat /\ d1 \in Nat /\ d1 <= t1
      /\ r \in Seq(Byte) /\ Len(r) = t1 - d1
      /\ \A i \in 1 .. t1 - d1 : r[i] = Written(i + d1)'
  BY <1>e, <1>r, <1>t, <1>k DEF LogElements
<1>d. PICK d : d = IF Len(c) > Cap THEN Len(c) - Cap ELSE 0
  OBVIOUS
<1>4. d \in Nat /\ d = (IF size + Len(p) > Cap THEN size + Len(p) - Cap ELSE 0)
  BY <1>a, <1>b, <1>2, <1>d
<1>5. Len(r) = Len(c) - d /\ \A i \in 1 .. Len(r) : r[i] = c[i + d]
  <2>1. CASE WriteBulk(p)
    <3>0. Len(p) >= Cap /\ size' = Cap /\ head' = 0 /\ pending' = << >>
      BY <2>1, <1>0 DEF WriteBulk, MuFree
    <3>1. t1 = Cap /\ d1 = 0
      BY <3>0, <1>a, <1>t, <1>k DEF Total, Skip
    <3>2. Len(r) = Cap /\ Len(c) = size + Len(p) /\ d = size + Len(p) - Cap
      BY <3>0, <3>1, <1>a, <1>b, <1>2, <1>3, <1>4
    <3>3. ASSUME NEW i \in 1 .. Cap PROVE r[i] = p[Len(p) - Cap + i]
      <4>1. r[i] = Written(i)'
        BY <3>1, <1>a, <1>3
      <4>2. Written(i)' = buf'[i - 1]
        BY <3>0, <1>a DEF Written
      <4>3. buf'[i - 1] = p[Len(p) - Cap + i]
        BY <2>1, <1>a, <1>b DEF WriteBulk, Index
      <4> QED
        BY <4>1, <4>2, <4>3
    <3>4. ASSUME NEW i \in 1 .. Cap PROVE c[i + d] = p[Len(p) - Cap + i]
      <4>j. PICK j : j = i + d
        OBVIOUS
      <4>2. j \in 1 .. size + Len(p) /\ ~ (j <= size) /\ j - size = Len(p) - Cap + i
        BY <3>0, <3>2, <1>a, <1>b, <4>j
      <4>3. c[j] = p[j - size]
        BY <1>2, <4>2, Zenon
      <4> QED
        BY <4>2, <4>3, <4>j, Zenon
    <3>5. Len(r) = Len(c) - d
      BY <3>2, <1>a, <1>b
    <3> QED
      BY <3>2, <3>3, <3>4, <3>5
  <2>2. CASE WriteLoop(p)
    <3>0. Len(p) < Cap /\ size' = size /\ head' = head /\ buf' = buf /\ pending' = p
      BY <2>2 DEF WriteLoop
    <3>1. t1 = size + Len(p) /\ d1 = d
      BY <3>0, <1>a, <1>b, <1>4, <1>t, <1>k DEF Total, Skip
    <3>2. Len(r) = Len(c) - d /\ Len(r) = size + Len(p) - d
      <4>1. Len(r) = t1 - d1 /\ Len(c) = size + Len(p)
        BY <1>2, <1>3
      <4> QED
        BY <3>1, <4>1, <1>a, <1>b, <1>4
    <3>3. ASSUME NEW i \in 1 .. Len(r) PROVE r[i] = c[i + d]
      <4>j. PICK j : j = i + d
        OBVIOUS
      <4>1. j \in 1 .. size + Len(p)
        BY <3>1, <3>2, <1>a, <1>b, <1>3, <1>4, <4>j
      <4>2. r[i] = Written(j)'
        BY <3>1, <3>2, <1>3, <4>j
      <4>3. Written(j)' = IF j <= size THEN Written(j) ELSE p[j - size]
        BY <3>0 DEF Written
      <4>4. c[j] = IF j <= size THEN s[j] ELSE p[j - size]
        BY <1>2, <4>1
      <4>5. j <= size => s[j] = Written(j)
        BY <1>1, <1>a, <1>b, <4>1
      <4> QED
        BY <4>2, <4>3, <4>4, <4>5, <4>j
    <3> QED
      BY <3>2, <3>3
  <2> QED
    BY <2>1, <2>2
<1> QED
  <2>1. r = Log!LastN(c, Cap)
    <3>1. c \in Seq(Byte) /\ r \in Seq(Byte) /\ Cap \in Nat /\ d \in Nat
      BY <1>a, <1>2, <1>3, <1>4
    <3>2. \A i \in 1 .. Len(r) : r[i] = c[i + d]
      BY <1>5
    <3>3. Len(r) = Len(c) - d
      BY <1>5
    <3> QED
      BY <3>1, <3>2, <3>3, <1>d, LastNElements, ZenonT(60)
  <2> QED
    BY <2>1, <1>c, <1>s, <1>r, Zenon

\* An iteration of the loop moves a byte from pending into the buffer and leaves
\* the log as it is, whether or not the buffer is full.
LEMMA WriteByteStutters ==
  ASSUME IndexInv, IndexInv', WriteByte
  PROVE  LogView' = LogView
<1>a. /\ Cap \in Nat /\ Cap > 0 /\ size \in Nat /\ size <= Cap
      /\ head \in Nat /\ head < Cap /\ Len(pending) \in Nat
  BY CapAssumption DEF IndexInv, TypeOK, Index
<1>b. /\ Len(pending) > 0 /\ Len(pending') = Len(pending) - 1
      /\ \A j \in 1 .. Len(pending) - 1 : pending'[j] = pending[j + 1]
      /\ Head(pending) = pending[1]
  BY DEF WriteByte, MuFree, IndexInv, TypeOK
<1>c. /\ tail = (IF head + size < Cap THEN head + size ELSE head + size - Cap)
      /\ tail \in Nat /\ tail < Cap
      /\ \A j \in 0 .. Cap - 1 : buf'[j] = IF j = tail THEN pending[1] ELSE buf[j]
  BY <1>a, <1>b DEF WriteByte, IndexInv, TypeOK, TailFollows, Index
<1>1. LogElements /\ LogElements'
  BY LogViewProperties, PTL
<1>2. CASE size < Cap
  <2>0. size' = size + 1 /\ head' = head
    BY <1>a, <1>2 DEF WriteByte
  <2>1. Total' = Total /\ Skip' = Skip
    BY <2>0, <1>a, <1>b DEF Total, Skip
  <2>2. ASSUME NEW j \in 1 .. Total PROVE Written(j)' = Written(j)
    <3>1. CASE j <= size
      <4>x. PICK x : x = IF head + j <= Cap THEN head + j - 1 ELSE head + j - 1 - Cap
        OBVIOUS
      <4>1. Written(j)' = buf'[x] /\ Written(j) = buf[x]
        BY <2>0, <3>1, <4>x, <1>a DEF Written
      <4>2. x \in 0 .. Cap - 1 /\ x # tail
        BY <3>1, <4>x, <1>2, <1>a, <1>c
      <4> QED
        BY <4>1, <4>2, <1>c
    <3>2. CASE j = size + 1
      <4>1. Written(j)' = buf'[tail] /\ Written(j) = pending[1]
        BY <2>0, <3>2, <1>2, <1>a, <1>c DEF Written
      <4>2. buf'[tail] = pending[1]
        BY <1>a, <1>c
      <4> QED
        BY <4>1, <4>2
    <3>3. CASE j > size + 1
      <4>1. j - size - 1 \in 1 .. Len(pending) - 1 /\ (j - size - 1) + 1 = j - size
            /\ j - (size + 1) = j - size - 1
        BY <3>3, <1>a DEF Total
      <4>2. pending'[j - size - 1] = pending[j - size]
        BY <4>1, <1>b
      <4> QED
        BY <2>0, <3>3, <4>1, <4>2, <1>a DEF Written
    <3>4. j <= size \/ j = size + 1 \/ j > size + 1
      BY <1>a
    <3> QED
      BY <3>1, <3>2, <3>3, <3>4, Zenon
  <2>3. \A i \in 1 .. Total - Skip : i + Skip \in 1 .. Total
    BY <1>1 DEF LogElements
  <2>4. \A i \in 1 .. Total - Skip : LogView'[i] = LogView[i]
    <3> SUFFICES ASSUME NEW i \in 1 .. Total - Skip PROVE LogView'[i] = LogView[i]
      OBVIOUS
    <3>j. PICK j : j = i + Skip
      OBVIOUS
    <3>1. LogView[i] = Written(j) /\ LogView'[i] = Written(j)'
      BY <1>1, <2>1, <3>j DEF LogElements
    <3> QED
      BY <2>2, <2>3, <3>1, <3>j
  <2> QED
    BY <1>1, <2>1, <2>4, SeqEqual DEF LogElements
<1>3. CASE size = Cap
  <2>0. size' = size /\ head' = IF head + 1 = Cap THEN 0 ELSE head + 1
    BY <1>3, SuccWraps DEF WriteByte, IndexInv, TypeOK
  <2>1. Total' = Total - 1 /\ Skip' = Skip - 1 /\ Total \in Nat /\ Skip = Len(pending)
    BY <2>0, <1>3, <1>a, <1>b DEF Total, Skip
  <2>2. ASSUME NEW j \in 1 .. Total - 1 PROVE Written(j)' = Written(j + 1)
    <3>1. CASE j < size
      <4>x. PICK x : x = IF head + (j + 1) <= Cap THEN head + (j + 1) - 1
                                                  ELSE head + (j + 1) - 1 - Cap
        OBVIOUS
      <4>1. Written(j + 1) = buf[x]
        BY <3>1, <4>x, <1>a DEF Written
      <4>2. Written(j)' = buf'[x]
        BY <2>0, <3>1, <4>x, <1>a, <1>3 DEF Written
      <4>3. x \in 0 .. Cap - 1 /\ x # tail
        BY <3>1, <4>x, <1>3, <1>a, <1>c
      <4> QED
        BY <4>1, <4>2, <4>3, <1>c
    <3>2. CASE j = size
      <4>1. Written(j)' = buf'[tail] /\ Written(j + 1) = pending[1]
        BY <2>0, <3>2, <1>3, <1>a, <1>c DEF Written
      <4>2. buf'[tail] = pending[1]
        BY <1>a, <1>c
      <4> QED
        BY <4>1, <4>2
    <3>3. CASE j > size
      <4>1. j - size \in 1 .. Len(pending) - 1 /\ (j - size) + 1 = (j + 1) - size
        BY <3>3, <1>a, <2>1 DEF Total
      <4>2. pending'[j - size] = pending[(j + 1) - size]
        BY <4>1, <1>b
      <4> QED
        BY <2>0, <3>3, <4>2, <1>a DEF Written
    <3>4. j < size \/ j = size \/ j > size
      BY <1>a
    <3> QED
      BY <3>1, <3>2, <3>3, <3>4, Zenon
  <2>3. Total' - Skip' = Total - Skip
    BY <2>1, <1>a
  <2>4. \A i \in 1 .. Total - Skip : LogView'[i] = LogView[i]
    <3> SUFFICES ASSUME NEW i \in 1 .. Total - Skip PROVE LogView'[i] = LogView[i]
      OBVIOUS
    <3>j. PICK j : j = i + Skip'
      OBVIOUS
    <3>1. j \in 1 .. Total - 1 /\ i + Skip = j + 1
      BY <3>j, <2>1, <1>a, <1>b
    <3>2. LogView[i] = Written(j + 1)
      BY <1>1, <3>1 DEF LogElements
    <3>3. LogView'[i] = Written(j)'
      BY <1>1, <2>3, <3>j DEF LogElements
    <3> QED
      BY <2>2, <3>1, <3>2, <3>3
  <2> QED
    BY <1>1, <2>3, <2>4, SeqEqual DEF LogElements
<1> QED
  BY <1>a, <1>2, <1>3
-----------------------------------------------------------------------------
\* Every step of the ring buffer is a step of the bounded log, or leaves it alone.
LEMMA LogStep == IndexInv /\ IndexInv' /\ [Next]_vars => [Log!Next]_(Log!vars)
<1> SUFFICES ASSUME IndexInv, IndexInv', [Next]_vars
             PROVE  [Log!Next]_(Log!vars)
  OBVIOUS
<1>1. ASSUME NEW p \in Payloads, WriteBulk(p) \/ WriteLoop(p)
      PROVE  Log!Put(p)
  <2>1. out' = out /\ arg' = p
    BY <1>1 DEF WriteBulk, WriteLoop
  <2>2. LogView' = Log!LastN(LogView \o p, Cap)
    BY <1>1, WritePut
  <2> QED
    BY <2>1, <2>2 DEF Log!Put
<1>2. CASE WriteByte
  BY <1>2, WriteByteStutters DEF Log!vars, WriteByte
<1>3. CASE Bytes
  <2>1. LogView' = LogView
    BY <1>3 DEF Bytes, LogView, Total, Skip, Written
  <2> QED
    BY <1>3, <2>1, CopyCorrect DEF Bytes, Log!Read, Log!Next
<1>4. CASE Reset
  <2>1. size' = 0 /\ pending' = << >> /\ out' = out /\ arg' = arg
    BY <1>4 DEF Reset, MuFree
  <2>2. Total' = 0 /\ Skip' = 0
    BY <2>1, CapAssumption DEF Total, Skip
  <2>3. LogElements'
    BY LogViewProperties, PTL
  <2>4. LogView' = << >>
    BY <2>2, <2>3 DEF LogElements
  <2> QED
    BY <2>1, <2>4 DEF Log!Clear, Log!Next
<1>5. CASE UNCHANGED vars
  BY <1>5 DEF vars, Log!vars, LogView, Total, Skip, Written
<1> QED
  BY <1>1, <1>2, <1>3, <1>4, <1>5 DEF Next, Log!Next

\* The ring buffer implements the bounded log, for every capacity and every
\* sequence of writes, reads and resets: what Bytes returns is the newest Cap
\* bytes written since the last Reset (ringbuf.go, Write, Bytes and Reset).
THEOREM RingBufImplementsLog == Spec => ImplementsLog
<1>1. Init => Log!Init
  <2> SUFFICES ASSUME Init PROVE Log!Init
    OBVIOUS
  <2>1. IndexInv /\ size = 0 /\ Len(pending) = 0 /\ arg = << >> /\ out = << >>
    BY CapAssumption, ByteAssumption
       DEF Init, IndexInv, TypeOK, TailFollows, PendingShort, Index
  <2>2. LogView \in Seq(Byte) /\ Len(LogView) = 0
    BY <2>1, CapAssumption, LogViewProperties DEF LogElements, Total, Skip
  <2> QED
    BY <2>1, <2>2 DEF Log!Init
<1> QED
  BY <1>1, IndexInvariance, LogStep, PTL DEF Spec, ImplementsLog, Log!Spec
-----------------------------------------------------------------------------
(* The frame format *)

\* Division with a remainder, for a divisor that is not a number.
LEMMA DivMod ==
  ASSUME NEW n \in Nat, NEW b \in Nat \ {0}
  PROVE  n \div b \in Nat /\ n % b \in 0 .. b - 1 /\ n = b * (n \div b) + (n % b)
BY SMT

\* A quotient below the bound that the whole number has.
LEMMA QuotientLess ==
  ASSUME NEW b \in Nat \ {0}, NEW q \in Nat, NEW r \in Nat, NEW m \in Nat, b * q + r < b * m
  PROVE  q < m
<1> SUFFICES ASSUME q >= m PROVE FALSE
  OBVIOUS
<1>1. PICK k \in Nat : q = m + k
  OBVIOUS
<1>2. b * q = b * m + b * k /\ b * k >= 0
  BY <1>1
<1> QED
  BY <1>2

\* Quotient and remainder are the only ones.
LEMMA DivUnique ==
  ASSUME NEW b \in Nat \ {0}, NEW q \in Nat, NEW r \in 0 .. b - 1
  PROVE  (b * q + r) \div b = q
<1>1. b * q + r \in Nat
  BY SMT
<1>d. PICK d \in Nat : d = (b * q + r) \div b
  BY <1>1, DivMod
<1>2. PICK s \in 0 .. b - 1 : b * q + r = b * d + s
  BY <1>1, <1>d, DivMod
<1>3. b * q + r < b * (d + 1)
  BY <1>2
<1>4. b * d + s < b * (q + 1)
  BY <1>2
<1>5. q < d + 1
  BY <1>3, QuotientLess
<1>6. d < q + 1
  BY <1>4, QuotientLess
<1> QED
  BY <1>d, <1>5, <1>6

\* Two bytes hold the low part of a number, and all of one that fits.
LEMMA TwoBytes ==
  ASSUME NEW n \in Nat
  PROVE  /\ PutUint16(n) \in Seq(Uint8) /\ Len(PutUint16(n)) = 2
         /\ n = (Base * Base) * (n \div (Base * Base))
                + (Base * PutUint16(n)[1] + PutUint16(n)[2])
         /\ n \div (Base * Base) \in Nat
         /\ n < Base * Base => n = Base * PutUint16(n)[1] + PutUint16(n)[2]
<1>b. Base \in Nat \ {0}
  BY BaseAssumption
<1>1. PICK q \in Nat, r \in 0 .. Base - 1 : q = n \div Base /\ r = n % Base /\ n = Base * q + r
  BY <1>b, DivMod
<1>2. PICK h \in Nat, m \in 0 .. Base - 1 : h = q \div Base /\ m = q % Base /\ q = Base * h + m
  BY <1>b, DivMod
<1>3. PutUint16(n) = <<m, r>>
  BY <1>1, <1>2 DEF PutUint16
<1>4. PutUint16(n) \in Seq(Uint8) /\ Len(PutUint16(n)) = 2
      /\ PutUint16(n)[1] = m /\ PutUint16(n)[2] = r
  BY <1>3 DEF Uint8
<1>s. PICK s \in Nat \ {0} : s = Base * Base
  BY <1>b
<1>5. n = s * h + (Base * m + r)
  <2>1. n = Base * (Base * h + m) + r
    BY <1>1, <1>2
  <2>2. Base * (Base * h + m) = (Base * Base) * h + Base * m
    BY <1>b
  <2> QED
    BY <2>1, <2>2, <1>s, <1>b
<1>6. Base * m + r \in 0 .. s - 1
  <2>1. Base * m <= Base * (Base - 1)
    BY <1>b
  <2> QED
    BY <1>b, <1>s, <2>1
<1>7. n \div s = h
  BY <1>5, <1>6, DivUnique
<1>8. n < s => n = Base * m + r
  <2>1. n < s => s * h + (Base * m + r) < s * 1
    BY <1>5
  <2>2. n < s => h < 1
    BY <2>1, <1>6, QuotientLess
  <2>3. h = 0 => s * h = 0
    OBVIOUS
  <2> QED
    BY <1>5, <1>6, <2>2, <2>3
<1> QED
  BY <1>4, <1>5, <1>7, <1>8, <1>s

\* A product and a sum of natural numbers is one.
LEMMA SumNat == ASSUME NEW a \in Nat, NEW x \in Nat, NEW y \in Nat PROVE a * x + y \in Nat
OBVIOUS

\* b holds a type, a channel, the two halves of a length and a payload.
Laid(b, t, x, h, l, p) ==
  /\ b \in Seq(Uint8) /\ Len(b) = 7 + Len(p)
  /\ b[1] = t /\ b[2] = x[1] /\ b[3] = x[2]
  /\ b[4] = h[1] /\ b[5] = h[2] /\ b[6] = l[1] /\ b[7] = l[2]
  /\ \A i \in 1 .. Len(p) : b[7 + i] = p[i]

\* A concatenation of these parts holds them one after the other.
LEMMA Layout ==
  \A t \in Uint8, x, h, l, p \in Seq(Uint8) :
    Len(x) = 2 /\ Len(h) = 2 /\ Len(l) = 2 => Laid(<<t>> \o x \o (h \o l) \o p, t, x, h, l, p)
<1> SUFFICES ASSUME NEW t \in Uint8, NEW x \in Seq(Uint8), NEW h \in Seq(Uint8),
                    NEW l \in Seq(Uint8), NEW p \in Seq(Uint8),
                    Len(x) = 2, Len(h) = 2, Len(l) = 2
             PROVE  Laid(<<t>> \o x \o (h \o l) \o p, t, x, h, l, p)
  OBVIOUS
<1>b. PICK b : b = <<t>> \o x \o (h \o l) \o p
  OBVIOUS
<1>w. PICK w : w = <<t>>
  OBVIOUS
<1>1. w \in Seq(Uint8) /\ Len(w) = 1 /\ w[1] = t
  BY <1>w
<1>z. PICK z : z = h \o l
  OBVIOUS
<1>2. /\ Len(z) = Len(h) + Len(l) /\ z \in Seq(Uint8)
      /\ \A i \in 1 .. Len(h) + Len(l) : z[i] = IF i <= Len(h) THEN h[i] ELSE l[i - Len(h)]
  BY <1>z, ConcatProperties
<1>3. Len(z) = 4 /\ z[1] = h[1] /\ z[2] = h[2] /\ z[3] = l[1] /\ z[4] = l[2]
  BY <1>2
<1>a. PICK a : a = w \o x
  OBVIOUS
<1>4. /\ Len(a) = Len(w) + Len(x) /\ a \in Seq(Uint8)
      /\ \A i \in 1 .. Len(w) + Len(x) : a[i] = IF i <= Len(w) THEN w[i] ELSE x[i - Len(w)]
  BY <1>1, <1>a, ConcatProperties
<1>5. Len(a) = 3 /\ a[1] = t /\ a[2] = x[1] /\ a[3] = x[2]
  BY <1>1, <1>4
<1>d. PICK d : d = a \o z
  OBVIOUS
<1>6. /\ Len(d) = Len(a) + Len(z) /\ d \in Seq(Uint8)
      /\ \A i \in 1 .. Len(a) + Len(z) : d[i] = IF i <= Len(a) THEN a[i] ELSE z[i - Len(a)]
  <2>1. a \in Seq(Uint8) /\ z \in Seq(Uint8)
    BY <1>2, <1>4
  <2> QED
    BY <2>1, <1>d, ConcatProperties
<1>7. /\ Len(d) = 7 /\ d[1] = a[1] /\ d[2] = a[2] /\ d[3] = a[3]
      /\ d[4] = z[1] /\ d[5] = z[2] /\ d[6] = z[3] /\ d[7] = z[4]
  BY <1>3, <1>5, <1>6
<1>e. b = d \o p
  BY <1>b, <1>w, <1>z, <1>a, <1>d, Zenon
<1>8. /\ Len(b) = Len(d) + Len(p) /\ b \in Seq(Uint8)
      /\ \A i \in 1 .. Len(d) + Len(p) : b[i] = IF i <= Len(d) THEN d[i] ELSE p[i - Len(d)]
  <2>1. d \in Seq(Uint8) /\ p \in Seq(Uint8)
    BY <1>6
  <2>2. /\ Len(d \o p) = Len(d) + Len(p) /\ d \o p \in Seq(Uint8)
        /\ \A i \in 1 .. Len(d) + Len(p) :
             (d \o p)[i] = IF i <= Len(d) THEN d[i] ELSE p[i - Len(d)]
    BY <2>1, ConcatProperties
  <2> QED
    BY <2>2, <1>e, Zenon
<1>9. /\ Len(b) = 7 + Len(p) /\ \A i \in 1 .. Len(p) : b[7 + i] = p[i]
      /\ b[1] = d[1] /\ b[2] = d[2] /\ b[3] = d[3] /\ b[4] = d[4] /\ b[5] = d[5]
      /\ b[6] = d[6] /\ b[7] = d[7]
  BY <1>7, <1>8
<1> QED
  BY <1>b, <1>3, <1>5, <1>7, <1>8, <1>9, Zenon DEF Laid

\* Where the parts of a frame are.
LEMMA EncodeParts ==
  ASSUME NEW f \in Frame
  PROVE  LET b == Encode(f) hi == PutUint16(Len(f.payload) \div (Base * Base))
             lo == PutUint16(Len(f.payload))
         IN /\ Len(b) = HeaderSize + Len(f.payload) /\ Len(f.payload) \in Nat
            /\ b[1] = f.type /\ b[2] = PutUint16(f.chanID)[1] /\ b[3] = PutUint16(f.chanID)[2]
            /\ b[4] = hi[1] /\ b[5] = hi[2] /\ b[6] = lo[1] /\ b[7] = lo[2]
            /\ \A i \in 1 .. Len(f.payload) : b[HeaderSize + i] = f.payload[i]
            /\ b \in Seq(Uint8)
<1>b. Base \in Nat \ {0}
  BY BaseAssumption
<1>1. PICK t \in Uint8, c \in Nat, p \in Seq(Uint8) : f.type = t /\ f.chanID = c /\ f.payload = p
  BY <1>b DEF Frame, Uint16
<1>2. PICK n \in Nat : n = Len(p)
  BY <1>1
<1>3. n \div (Base * Base) \in Nat
  BY <1>b, <1>2, TwoBytes
<1>x. PICK x \in Seq(Uint8) : x = PutUint16(c) /\ Len(x) = 2
  BY TwoBytes
<1>h. PICK h \in Seq(Uint8) : h = PutUint16(n \div (Base * Base)) /\ Len(h) = 2
  BY <1>3, TwoBytes
<1>l. PICK l \in Seq(Uint8) : l = PutUint16(n) /\ Len(l) = 2
  BY TwoBytes
<1>4. Encode(f) = <<t>> \o x \o (h \o l) \o p
  BY <1>1, <1>2, <1>x, <1>h, <1>l DEF Encode, PutUint32
<1>e. PICK b : b = <<t>> \o x \o (h \o l) \o p
  OBVIOUS
<1>5. Laid(b, t, x, h, l, p)
  <2>1. Len(x) = 2 /\ Len(h) = 2 /\ Len(l) = 2
    BY <1>x, <1>h, <1>l
  <2> QED
    BY <2>1, <1>e, Layout, Zenon
<1> QED
  BY <1>1, <1>2, <1>x, <1>h, <1>l, <1>4, <1>e, <1>5 DEF HeaderSize, Laid

\* The decoders read back the channel and the length.
LEMMA HeaderReadBack ==
  ASSUME NEW f \in Frame, Len(f.payload) \in Uint32
  PROVE  /\ GetUint16(Encode(f), 2) = f.chanID
         /\ GetUint32(Encode(f), 4) = Len(f.payload)
<1>b. Base \in Nat \ {0}
  BY BaseAssumption
<1>e. PICK b : b = Encode(f)
  OBVIOUS
<1>1. /\ f.chanID \in Nat /\ f.chanID < Base * Base
      /\ Len(f.payload) \in Nat /\ Len(f.payload) < Base * Base * Base * Base
  <2>1. Base * Base \in Nat /\ Base * Base * Base * Base \in Nat
    BY <1>b
  <2> QED
    BY <2>1 DEF Frame, Uint16, Uint32
<1>c. PICK c \in Nat : c = f.chanID
  BY <1>1
<1>n. PICK n \in Nat : n = Len(f.payload)
  BY <1>1
<1>s. PICK s \in Nat \ {0} : s = Base * Base
  BY <1>b
<1>k. PICK h \in Nat : h = n \div s
  BY DivMod
<1>x. PICK x : x = PutUint16(c)
  OBVIOUS
<1>l. PICK l : l = PutUint16(n)
  OBVIOUS
<1>z. PICK z : z = PutUint16(h)
  OBVIOUS
<1>i. \A q \in Seq(Uint8) : Len(q) = 2 => q[1] \in Nat /\ q[2] \in Nat
  <2>1. ASSUME NEW q \in Seq(Uint8), Len(q) = 2 PROVE q[1] \in Uint8 /\ q[2] \in Uint8
    <3>1. 1 \in 1 .. Len(q) /\ 2 \in 1 .. Len(q)
      BY <2>1
    <3> QED
      BY <3>1, ElementOfSeq
  <2>2. Uint8 \subseteq Nat
    BY <1>b DEF Uint8
  <2> QED
    BY <2>1, <2>2
<1>2. x[1] \in Nat /\ x[2] \in Nat /\ c = Base * x[1] + x[2]
  <2>1. x \in Seq(Uint8) /\ Len(x) = 2 /\ c = Base * x[1] + x[2]
    BY <1>1, <1>c, <1>x, TwoBytes
  <2> QED
    BY <1>i, <2>1
<1>4. l[1] \in Nat /\ l[2] \in Nat /\ n = s * h + (Base * l[1] + l[2])
  <2>1. l \in Seq(Uint8) /\ Len(l) = 2 /\ n = s * h + (Base * l[1] + l[2])
    BY <1>l, <1>s, <1>k, TwoBytes
  <2> QED
    BY <1>i, <2>1
<1>5. h < s
  <2>1. Base * Base * Base * Base = s * s
    BY <1>b, <1>s
  <2>2. Base * l[1] + l[2] \in Nat
    BY <1>b, <1>4, SumNat, Zenon
  <2>3. s * h + (Base * l[1] + l[2]) < s * s
    BY <1>1, <1>n, <1>4, <2>1
  <2> QED
    BY <2>2, <2>3, QuotientLess
<1>6. z[1] \in Nat /\ z[2] \in Nat /\ h = Base * z[1] + z[2]
  <2>1. z \in Seq(Uint8) /\ Len(z) = 2 /\ h = Base * z[1] + z[2]
    BY <1>5, <1>s, <1>z, TwoBytes
  <2> QED
    BY <1>i, <2>1
<1>3. b[2] = x[1] /\ b[3] = x[2] /\ b[4] = z[1] /\ b[5] = z[2] /\ b[6] = l[1] /\ b[7] = l[2]
  BY <1>e, <1>c, <1>n, <1>s, <1>k, <1>x, <1>z, <1>l, EncodeParts
<1>7. b[2] * Base + b[3] = c
  BY <1>b, <1>2, <1>3
<1>8. (b[4] * Base + b[5]) * Base * Base + (b[6] * Base + b[7]) = n
  <2>1. b[4] * Base + b[5] = h /\ b[6] * Base + b[7] = Base * l[1] + l[2]
    <3>1. \A u, v \in Nat : u * Base + v = Base * u + v
      BY <1>b
    <3> QED
      BY <1>3, <1>4, <1>6, <3>1
  <2>2. h * Base * Base = s * h
    BY <1>b, <1>s
  <2> QED
    BY <1>4, <2>1, <2>2
<1> QED
  BY <1>e, <1>c, <1>n, <1>7, <1>8 DEF GetUint16, GetUint32

\* What one side encodes the other decodes, whatever a byte holds: every frame
\* whose length fits into its four bytes. No message that was cut short is taken
\* for one, and none with more behind it by the hub (decodeFromBytes in hub.go,
\* Decode in frame.go, decodeFrame in protocol.ts).
THEOREM FramesRoundTrip ==
  \A f \in Frame : Len(f.payload) \in Uint32 => RoundTrip(f)
<1> SUFFICES ASSUME NEW f \in Frame, Len(f.payload) \in Uint32 PROVE RoundTrip(f)
  OBVIOUS
<1>e. PICK b \in Seq(Uint8) : b = Encode(f)
  BY EncodeParts
<1>p. PICK p \in Seq(Uint8), n \in Nat : p = f.payload /\ n = Len(p)
  BY DEF Frame
<1>1. /\ Len(b) = 7 + n /\ GetUint16(b, 2) = f.chanID /\ GetUint32(b, 4) = n /\ b[1] = f.type
      /\ \A i \in 1 .. n : b[7 + i] = p[i]
  BY <1>e, <1>p, EncodeParts, HeaderReadBack DEF HeaderSize
<1>2. SubSeq(b, 8, 7 + n) = p
  <2>1. /\ Len(SubSeq(b, 8, 7 + n)) = n
        /\ \A i \in 1 .. n : SubSeq(b, 8, 7 + n)[i] = b[7 + i]
        /\ SubSeq(b, 8, 7 + n) \in Seq(Uint8)
    BY <1>1
  <2> QED
    BY <1>1, <1>p, <2>1, SeqEqual
<1>3. Unpack(b, n) = f
  BY <1>1, <1>2, <1>p DEF Unpack, Frame, HeaderSize
<1>w. PICK within : within = IF n <= MaxPayload THEN f ELSE Failed
  OBVIOUS
<1>4. decodeFrame(b) = f /\ Decode(b) = within /\ decodeFromBytes(b) = within
  BY <1>1, <1>3, <1>w, MaxPayloadAssumption DEF decodeFrame, Decode, decodeFromBytes, HeaderSize
<1>5. ASSUME NEW k \in 0 .. Len(b) - 1
      PROVE  LET c == SubSeq(b, 1, k)
             IN decodeFrame(c) = Failed /\ Decode(c) = Failed /\ decodeFromBytes(c) = Failed
  <2>s. PICK c : c = SubSeq(b, 1, k)
    OBVIOUS
  <2>c. c \in Seq(Uint8) /\ Len(c) = k /\ \A i \in 1 .. k : c[i] = b[i]
    BY <1>1, <2>s, SubSeqProperties
  <2>1. CASE k < 7
    BY <2>s, <2>c, <2>1 DEF Decode, decodeFrame, decodeFromBytes, HeaderSize
  <2>2. CASE k >= 7
    <3>1. GetUint32(c, 4) = n
      BY <1>1, <2>c, <2>2 DEF GetUint32, GetUint16
    <3> QED
      BY <1>1, <2>s, <2>c, <2>2, <3>1, MaxPayloadAssumption
         DEF Decode, decodeFrame, decodeFromBytes, HeaderSize
  <2> QED
    BY <2>1, <2>2
<1>6. ASSUME NEW x \in Uint8 PROVE decodeFromBytes(Append(b, x)) = Failed
  <2>s. PICK c : c = Append(b, x)
    OBVIOUS
  <2>1. c \in Seq(Uint8) /\ Len(c) = 8 + n /\ \A i \in 1 .. 7 : c[i] = b[i]
    BY <1>1, <2>s
  <2>2. GetUint32(c, 4) = n
    BY <1>1, <2>1 DEF GetUint32, GetUint16
  <2> QED
    BY <1>p, <2>s, <2>1, <2>2 DEF decodeFromBytes, HeaderSize
<1> QED
  BY <1>e, <1>p, <1>w, <1>4, <1>5, <1>6 DEF RoundTrip

\* What Bytes returned last is a sequence of at most Cap bytes.
ReplayShort == IndexInv /\ Len(out) <= Cap

LEMMA ReplayShortInvariance == Spec => []ReplayShort
<1>1. Init => ReplayShort
  BY CapAssumption, ByteAssumption
     DEF Init, ReplayShort, IndexInv, TypeOK, TailFollows, PendingShort, Index
<1>2. ReplayShort /\ [Next]_vars => ReplayShort'
  <2> SUFFICES ASSUME ReplayShort, [Next]_vars PROVE ReplayShort'
    OBVIOUS
  <2>0. IndexInv'
    BY IndexInvStep DEF ReplayShort
  <2>1. CASE Bytes
    <3>1. out' = LogView
      BY <2>1, CopyCorrect DEF Bytes, ReplayShort
    <3>2. Total = size /\ Skip = 0 /\ size \in Nat /\ size <= Cap
      BY <2>1, CapAssumption DEF Bytes, MuFree, ReplayShort, IndexInv, TypeOK, Total, Skip
    <3>3. Len(LogView) = size
      BY <3>2, LogViewProperties DEF ReplayShort, LogElements
    <3> QED
      BY <2>0, <3>1, <3>2, <3>3 DEF ReplayShort
  <2>2. CASE out' = out
    BY <2>0, <2>2 DEF ReplayShort
  <2> QED
    BY <2>1, <2>2 DEF Next, vars, WriteBulk, WriteLoop, WriteByte, Reset
<1> QED
  BY <1>1, <1>2, PTL DEF Spec

\* A replay of the buffer arrives at the page as Bytes returned it, whatever was
\* written to it, for every buffer whose length four bytes can express (Attach
\* in session.go, Encode in frame.go, decodeFrame in protocol.ts).
THEOREM ReplayArrives ==
  Byte \subseteq Uint8 /\ Cap \in Uint32 => (Spec => []ReplayFrameArrives)
<1>1. ASSUME Byte \subseteq Uint8, Cap \in Uint32
      PROVE  ReplayShort => ReplayFrameArrives
  <2> SUFFICES ASSUME ReplayShort, NEW t \in Uint8, NEW c \in Uint16
               PROVE  RoundTrip([type |-> t, chanID |-> c, payload |-> out])
    BY DEF ReplayFrameArrives
  <2>1. out \in Seq(Uint8) /\ Len(out) \in Nat /\ Len(out) <= Cap
    <3>1. out \in Seq(Byte) /\ Len(out) \in Nat /\ Len(out) <= Cap
      BY DEF ReplayShort, IndexInv, TypeOK
    <3>2. \A i \in 1 .. Len(out) : out[i] \in Uint8
      BY <1>1, <3>1
    <3>3. out = [i \in 1 .. Len(out) |-> out[i]]
      BY <3>1
    <3>4. out \in [1 .. Len(out) -> Uint8]
      BY <3>2, <3>3
    <3> QED
      BY <3>1, <3>4, SeqOfFunction
  <2>2. Len(out) \in Uint32
    <3>1. Base * Base * Base * Base \in Nat
      BY BaseAssumption
    <3> QED
      BY <1>1, <2>1, <3>1 DEF Uint32
  <2>f. PICK f : f = [type |-> t, chanID |-> c, payload |-> out]
    OBVIOUS
  <2>3. f \in Frame /\ f.payload = out
    BY <2>1, <2>f DEF Frame
  <2> QED
    BY <2>2, <2>3, <2>f, FramesRoundTrip
<1>2. CASE Byte \subseteq Uint8 /\ Cap \in Uint32
  <2>1. ReplayShort => ReplayFrameArrives
    BY <1>1, <1>2
  <2> QED
    BY <2>1, ReplayShortInvariance, PTL
<1> QED
  BY <1>2
-----------------------------------------------------------------------------
(* The port scan *)

\* What each variable holds; a socket is in the table while somebody holds it.
ScanTypes ==
  /\ sock \in [Inodes -> [port : Nat, tab : {"tcp", "tcp6"}, owners : SUBSET PIDs]]
  /\ \A i \in Inodes : sock[i] # NoSock => sock[i].port \in Ports /\ sock[i].owners # {}
  /\ spc \in {"off", "tcp", "tcp6", "walk", "done"}
  /\ inodePorts \in [Inodes -> Ports \cup {0}]
  /\ inodePID \in [Inodes -> PIDs \cup {0}]
  /\ procs \subseteq PIDs
  /\ kept \subseteq Inodes \X PIDs

\* What has been read already.
ReadSoFar ==
  /\ spc \in {"off", "tcp"} => tabs = {}
  /\ spc \in {"off", "tcp", "tcp6"} => known = {}

\* Until the scan is over, a socket has the port that the scan has for its inode.
SamePort ==
  spc # "done" => \A i \in Inodes :
    inodePorts[i] # 0 /\ sock[i] # NoSock => inodePorts[i] = sock[i].port

\* Who has held a socket all along still does, and a table that has been read
\* showed that socket.
KeptThere ==
  \A i \in Inodes, p \in PIDs : <<i, p>> \in kept =>
    /\ p \in sock[i].owners
    /\ sock[i].tab \in tabs => inodePorts[i] = sock[i].port

\* A process that has been read and has held a socket all along left it with one.
KeptFound ==
  \A i \in Inodes, p \in PIDs :
    <<i, p>> \in kept /\ p \in known /\ sock[i].tab \in tabs => inodePID[i] # 0

\* A process that was found at an inode has held its port.
FoundHeld ==
  \A i \in Inodes : inodePID[i] # 0 =>
    inodePorts[i] # 0 /\ <<inodePorts[i], inodePID[i]>> \in had

\* The history of the ports has those of now.
HeldSeen == spc # "off" => PortsHeld \subseteq had

\* There is no result before the end.
NoResultYet == spc # "done" => result = << >>

\* No process is found before a table is read.
Unfound == spc = "off" => \A i \in Inodes : inodePID[i] = 0

ScanInv ==
  /\ ScanTypes /\ ReadSoFar /\ Unfound /\ NoResultYet /\ SamePort
  /\ KeptThere /\ KeptFound /\ FoundHeld /\ HeldSeen /\ ScanRight

\* A port and a process that holds it are in PortsHeld, and nothing else is.
LEMMA InPortsHeld ==
  \A x : x \in PortsHeld <=> \E i \in Inodes, p \in PIDs : p \in sock[i].owners /\ x = <<sock[i].port, p>>
<1>1. ASSUME NEW x \in PortsHeld
      PROVE  \E i \in Inodes, p \in PIDs : p \in sock[i].owners /\ x = <<sock[i].port, p>>
  <2>1. PICK h \in Inodes \X PIDs : h[2] \in sock[h[1]].owners /\ x = <<sock[h[1]].port, h[2]>>
    BY DEF PortsHeld, Holding
  <2> QED
    BY <2>1
<1>2. ASSUME NEW i \in Inodes, NEW p \in PIDs, p \in sock[i].owners
      PROVE  <<sock[i].port, p>> \in PortsHeld
  <2>h. PICK h \in Inodes \X PIDs : h = <<i, p>>
    OBVIOUS
  <2>1. h[1] = i /\ h[2] = p /\ h \in Holding
    BY <2>h, <1>2 DEF Holding
  <2>2. <<sock[h[1]].port, h[2]>> \in PortsHeld
    BY <2>1 DEF PortsHeld
  <2> QED
    BY <2>1, <2>2
<1> QED
  BY <1>1, <1>2

\* A change of one socket that keeps its port, or puts one where there was none
\* and the scan knows none.
LEMMA SockChanges ==
  ASSUME ScanInv, NEW i \in Inodes, NEW s, SetSock(i, s),
         s \in [port : Ports, tab : {"tcp", "tcp6"}, owners : SUBSET PIDs],
         \/ sock[i] = NoSock /\ (inodePorts[i] = 0 \/ spc = "done")
         \/ sock[i] # NoSock /\ s.port = sock[i].port /\ s.tab = sock[i].tab
  PROVE  ScanInv'
<1> USE DEF ScanInv, SetSock
<1>s. sock'[i] = (IF s.owners = {} THEN NoSock ELSE s)
      /\ \A j \in Inodes : j # i => sock'[j] = sock[j]
  BY DEF ScanTypes
<1>n. NoSock.owners = {} /\ NoSock.port = 0 /\ 0 \notin Ports
  BY PortScanAssumption DEF NoSock
<1>k. \A j \in Inodes, p \in PIDs : <<j, p>> \in kept' =>
        <<j, p>> \in kept /\ (j = i => p \in s.owners /\ sock[i] # NoSock)
  BY <1>n DEF KeptThere
<1>1. ScanTypes'
  <2>1. NoSock \in [port : Nat, tab : {"tcp", "tcp6"}, owners : SUBSET PIDs] /\ Ports \subseteq Nat
    BY PortScanAssumption DEF NoSock
  <2>2. sock' \in [Inodes -> [port : Nat, tab : {"tcp", "tcp6"}, owners : SUBSET PIDs]]
    BY <2>1 DEF ScanTypes
  <2>3. \A j \in Inodes : sock'[j] # NoSock => sock'[j].port \in Ports /\ sock'[j].owners # {}
    BY <1>s DEF ScanTypes
  <2> QED
    BY <2>2, <2>3 DEF ScanTypes
<1>2. SamePort'
  BY <1>s DEF SamePort
<1>3. KeptThere'
  BY <1>s, <1>k DEF KeptThere
<1>4. KeptFound'
  BY <1>k DEF KeptFound
<1>5. FoundHeld'
  BY DEF FoundHeld
<1>6. HeldSeen'
  <2> SUFFICES ASSUME spc # "off" PROVE PortsHeld' \subseteq had'
    BY DEF HeldSeen
  <2>1. ASSUME NEW j \in Inodes, NEW p \in PIDs, p \in sock'[j].owners
        PROVE  <<sock'[j].port, p>> \in had'
    <3>1. CASE j = i
      BY <1>s, <1>n, <2>1, <3>1
    <3>2. CASE j # i
      <4>1. <<sock[j].port, p>> \in PortsHeld
        BY <1>s, <2>1, <3>2, InPortsHeld
      <4> QED
        BY <1>s, <3>2, <4>1 DEF HeldSeen
    <3> QED
      BY <3>1, <3>2
  <2>2. \A x \in PortsHeld' : \E j \in Inodes, p \in PIDs :
          p \in sock'[j].owners /\ x = <<sock'[j].port, p>>
    <3> SUFFICES ASSUME NEW x \in PortsHeld'
                 PROVE  \E j \in Inodes, p \in PIDs : p \in sock'[j].owners /\ x = <<sock'[j].port, p>>
      OBVIOUS
    <3>1. PICK h \in Inodes \X PIDs : h[2] \in sock'[h[1]].owners /\ x = <<sock'[h[1]].port, h[2]>>
      BY DEF PortsHeld, Holding
    <3> QED
      BY <3>1
  <2> QED
    BY <2>1, <2>2
<1>7. ScanRight'
  <2> SUFFICES ASSUME spc = "done" PROVE ScanRight'
    BY DEF ScanRight
  <2>1. \A h \in kept' : sock'[h[1]].tab \in tabs =>
          \E k \in DOMAIN result :
            result[k].port = sock'[h[1]].port /\ (h[2] \in known => result[k].pid # 0)
    <3> SUFFICES ASSUME NEW h \in kept', sock'[h[1]].tab \in tabs
                 PROVE  \E k \in DOMAIN result :
                          result[k].port = sock'[h[1]].port /\ (h[2] \in known => result[k].pid # 0)
      OBVIOUS
    <3>1. PICK j \in Inodes, p \in PIDs : h = <<j, p>>
      BY DEF ScanTypes
    <3>2. h \in kept /\ sock'[j].port = sock[j].port /\ sock'[j].tab = sock[j].tab
      BY <1>s, <1>k, <3>1
    <3> QED
      BY <3>1, <3>2 DEF ScanRight
  <2> QED
    BY <2>1 DEF ScanRight
<1> QED
  BY <1>1, <1>2, <1>3, <1>4, <1>5, <1>6, <1>7 DEF ReadSoFar, NoResultYet, Unfound

\* Between its start and its end the scan reads what SamePort and HeldSeen speak of.
LEMMA ScanStep == ScanInv /\ [ScanNext]_scanVars => ScanInv'
<1> SUFFICES ASSUME ScanInv, [ScanNext]_scanVars PROVE ScanInv'
  OBVIOUS
<1>n. NoSock.owners = {} /\ NoSock.port = 0 /\ 0 \notin Ports /\ 0 \notin PIDs /\ Ports \subseteq Nat
  BY PortScanAssumption DEF NoSock
<1>1. CASE ScanStart
  <2>0. kept' \subseteq Inodes \X PIDs
    BY <1>1 DEF ScanStart, Holding
  <2>1. ScanTypes' /\ SamePort'
    BY <1>1, <2>0 DEF ScanStart, ScanInv, ScanTypes, SamePort
  <2>4. FoundHeld'
    <3> SUFFICES ASSUME NEW i \in Inodes, inodePID[i] # 0 PROVE FALSE
      BY <1>1 DEF ScanStart, FoundHeld
    <3> QED
      BY <1>1 DEF ScanStart, ScanInv, Unfound
  <2>2. KeptThere'
    BY <1>1 DEF ScanStart, ScanInv, ReadSoFar, KeptThere, Holding
  <2> QED
    BY <1>1, <2>1, <2>2, <2>4 DEF ReadSoFar, NoResultYet, Unfound, ScanStart, ScanInv, KeptFound, HeldSeen, PortsHeld, Holding, ScanRight
<1>2. ASSUME NEW tab \in {"tcp", "tcp6"}, ReadTable(tab) PROVE ScanInv'
  <2> USE <1>2 DEF ReadTable, ScanInv
  <2>0. PICK opened \in BOOLEAN :
          /\ tabs' = IF opened THEN tabs \cup {tab} ELSE tabs
          /\ inodePorts' = [i \in Inodes |-> IF opened /\ sock[i].tab = tab /\ inodePorts[i] = 0
                                             THEN sock[i].port ELSE inodePorts[i]]
    OBVIOUS
  <2>1. \A i \in Inodes : inodePorts'[i] = IF opened /\ sock[i].tab = tab /\ inodePorts[i] = 0
                                           THEN sock[i].port ELSE inodePorts[i]
    BY <2>0
  <2>2. \A i \in Inodes : sock[i].port \in Ports \cup {0} /\ (sock[i] = NoSock => sock[i].port = 0)
    BY <1>n DEF ScanTypes
  <2>3. ScanTypes'
    BY <2>0, <2>2 DEF ScanTypes
  <2>4. SamePort'
    BY <2>1 DEF SamePort
  <2>5. \A i \in Inodes, p \in PIDs : <<i, p>> \in kept =>
          /\ p \in sock[i].owners /\ sock[i] # NoSock
          /\ sock[i].tab \in tabs' => inodePorts'[i] = sock[i].port
    BY <1>n, <2>0, <2>1 DEF KeptThere, SamePort, ScanTypes
  <2>6. KeptThere'
    BY <2>5 DEF KeptThere
  <2>7. spc' = "done" => \A h \in kept' : sock'[h[1]].tab \notin tabs'
    <3> SUFFICES ASSUME spc' = "done", NEW h \in kept, sock[h[1]].tab \in tabs' PROVE FALSE
      OBVIOUS
    <3>1. PICK i \in Inodes, p \in PIDs : h = <<i, p>>
      BY DEF ScanTypes
    <3>2. inodePorts'[i] = 0
      BY DEF Nothing
    <3>3. sock[i].port \in Ports
      BY <2>5, <3>1 DEF ScanTypes
    <3> QED
      BY <1>n, <2>5, <3>1, <3>2, <3>3
  <2>8. KeptFound' /\ ReadSoFar'
    BY <2>0 DEF KeptFound, ReadSoFar
  <2>9. FoundHeld'
    BY <2>1 DEF FoundHeld
  <2>10. HeldSeen'
    BY DEF HeldSeen, PortsHeld, Holding
  <2>11. ScanRight'
    BY <2>7 DEF ScanRight, NoResultYet
  <2>12. NoResultYet' /\ Unfound'
    BY DEF ReadSoFar, NoResultYet, Unfound
  <2> QED
    BY <2>12, <2>3, <2>4, <2>6, <2>8, <2>9, <2>10, <2>11
<1>3. ASSUME NEW p \in PIDs, WalkProc(p) PROVE ScanInv'
  <2> USE <1>3 DEF WalkProc, ScanInv
  <2>1. PICK found \in SUBSET {i \in Inodes : p \in sock[i].owners}, readable \in BOOLEAN :
          /\ readable => {i \in Inodes : p \in sock[i].owners /\ <<i, p>> \in kept} \subseteq found
          /\ known' = IF readable THEN known \cup {p} ELSE known
          /\ inodePID' = [i \in Inodes |-> IF i \in found /\ inodePorts[i] # 0 THEN p ELSE inodePID[i]]
    OBVIOUS
  <2>2. ScanTypes'
    BY <2>1 DEF ScanTypes
  <2>3. SamePort' /\ KeptThere'
    BY DEF SamePort, KeptThere
  <2>4. KeptFound'
    <3> SUFFICES ASSUME NEW i \in Inodes, NEW q \in PIDs, <<i, q>> \in kept, q \in known',
                        sock[i].tab \in tabs
                 PROVE  inodePID'[i] # 0
      BY DEF KeptFound
    <3>1. sock[i].port \in Ports /\ inodePorts[i] = sock[i].port /\ q \in sock[i].owners
      BY <1>n DEF KeptThere, ScanTypes
    <3>2. CASE q \in known
      BY <1>n, <2>1, <3>2 DEF KeptFound
    <3>3. CASE q \notin known
      <4>1. readable /\ q = p
        BY <2>1, <3>3
      <4>2. i \in found
        BY <2>1, <3>1, <4>1
      <4> QED
        BY <1>n, <2>1, <3>1, <4>2
    <3> QED
      BY <3>2, <3>3
  <2>5. FoundHeld'
    <3> SUFFICES ASSUME NEW i \in Inodes, inodePID'[i] # 0
                 PROVE  inodePorts[i] # 0 /\ <<inodePorts[i], inodePID'[i]>> \in had
      BY DEF FoundHeld
    <3>1. CASE i \in found /\ inodePorts[i] # 0
      <4>1. inodePID'[i] = p /\ p \in sock[i].owners /\ sock[i] # NoSock
        BY <1>n, <2>1, <3>1
      <4>2. <<sock[i].port, p>> \in PortsHeld
        BY <4>1, InPortsHeld
      <4> QED
        BY <3>1, <4>1, <4>2 DEF SamePort, HeldSeen
    <3>2. CASE ~ (i \in found /\ inodePorts[i] # 0)
      BY <2>1, <3>2 DEF FoundHeld
    <3> QED
      BY <3>1, <3>2
  <2> QED
    BY <2>2, <2>3, <2>4, <2>5 DEF ReadSoFar, NoResultYet, Unfound, HeldSeen, PortsHeld, Holding, ScanRight
<1>4. CASE ScanEnds
  <2> USE <1>4 DEF ScanInv
  <2>0. spc = "walk" /\ procs = {} /\ spc' = "done"
        /\ UNCHANGED <<sock, inodePorts, inodePID, procs, tabs, known, kept, had>>
    BY DEF ScanEnds
  <2>p. PICK ports : ports = {inodePorts[i] : i \in Inodes} \ {0}
    OBVIOUS
  <2>1. PICK order \in SortedBy(ports), pid \in [ports -> PIDs \cup {0}] :
          /\ \A q \in ports : pid[q] \in Owner(q)
          /\ result' = [k \in DOMAIN order |-> [port |-> order[k], pid |-> pid[order[k]]]]
    BY <2>p DEF ScanEnds
  <2>2. Cardinality(ports) \in Nat
    <3>s. PICK T : T = {inodePorts[i] : i \in Inodes}
      OBVIOUS
    <3>f. inodePorts \in Surjection(Inodes, T)
      BY <3>s DEF ScanTypes, Surjection
    <3>1. IsFiniteSet(T)
      BY <3>f, PortScanAssumption, FS_Surjection
    <3>2. IsFiniteSet(ports)
      BY <2>p, <3>s, <3>1, FS_Subset
    <3> QED
      BY <3>2, FS_CardinalityType
  <2>n. PICK n \in Nat : n = Cardinality(ports)
    BY <2>2
  <2>3. /\ order \in [1 .. n -> ports]
        /\ \A j, k \in 1 .. n : j < k => order[j] < order[k]
        /\ \A q \in ports : \E k \in 1 .. n : order[k] = q
    BY <2>1, <2>n DEF SortedBy
  <2>4. /\ DOMAIN result' = 1 .. n /\ Len(result') = n
        /\ \A k \in 1 .. n : result'[k].port = order[k] /\ result'[k].pid = pid[order[k]]
    BY <2>1, <2>3
  <2>5. \A q \in ports, i \in Inodes : inodePorts[i] = q /\ inodePID[i] # 0 => pid[q] # 0
    <3> SUFFICES ASSUME NEW q \in ports, NEW i \in Inodes, inodePorts[i] = q, inodePID[i] # 0
                 PROVE  pid[q] # 0
      OBVIOUS
    <3>s. PICK pids : pids = {inodePID[j] : j \in {k \in Inodes : inodePorts[k] = q}}
      OBVIOUS
    <3>1. inodePID[i] \in pids /\ inodePID[i] # 0
      BY <3>s
    <3>2. pids # {0}
      BY <3>1
    <3>3. pid[q] \in IF pids = {0} THEN {0} ELSE pids \ {0}
      BY <2>1, <3>s DEF Owner
    <3> QED
      BY <3>2, <3>3
  <2>6. \A q \in ports : pid[q] # 0 => \E i \in Inodes : inodePorts[i] = q /\ inodePID[i] = pid[q]
    BY <2>1 DEF Owner
  <2>7. \A k \in 2 .. Len(result') : result'[k - 1].port < result'[k].port
    BY <2>3, <2>4
  <2>8. ASSUME NEW h \in kept, sock[h[1]].tab \in tabs
        PROVE  \E k \in DOMAIN result' :
                 result'[k].port = sock[h[1]].port /\ (h[2] \in known => result'[k].pid # 0)
    <3>1. PICK i \in Inodes, p \in PIDs : h = <<i, p>>
      BY DEF ScanTypes
    <3>2. inodePorts[i] = sock[i].port /\ sock[i].port # 0 /\ (p \in known => inodePID[i] # 0)
      BY <1>n, <2>0, <2>8, <3>1 DEF KeptThere, KeptFound, ScanTypes
    <3>3. inodePorts[i] \in ports
      BY <2>p, <3>2
    <3>4. PICK k \in 1 .. n : order[k] = inodePorts[i]
      BY <2>3, <3>3
    <3> QED
      BY <2>4, <2>5, <3>1, <3>2, <3>3, <3>4
  <2>9. \A k \in DOMAIN result' : result'[k].pid # 0 => <<result'[k].port, result'[k].pid>> \in had
    <3> SUFFICES ASSUME NEW k \in 1 .. n, pid[order[k]] # 0
                 PROVE  <<order[k], pid[order[k]]>> \in had
      BY <2>4
    <3>1. order[k] \in ports
      BY <2>3
    <3>2. PICK i \in Inodes : inodePorts[i] = order[k] /\ inodePID[i] = pid[order[k]]
      BY <2>6, <3>1
    <3> QED
      BY <3>2 DEF FoundHeld
  <2>10. ScanRight'
    BY <2>0, <2>7, <2>8, <2>9 DEF ScanRight
  <2> QED
    BY <2>0, <2>10 DEF ReadSoFar, NoResultYet, Unfound, ScanTypes, SamePort, KeptThere, KeptFound, FoundHeld, HeldSeen, PortsHeld, Holding
<1>5. ASSUME NEW p \in PIDs, NEW i \in Inodes, Inherit(i, p) PROVE ScanInv'
  <2>1. [sock[i] EXCEPT !.owners = @ \cup {p}]
          \in [port : Ports, tab : {"tcp", "tcp6"}, owners : SUBSET PIDs]
    BY <1>5 DEF Inherit, ScanInv, ScanTypes
  <2> QED
    BY <1>5, <2>1, SockChanges DEF Inherit, ScanInv, ScanTypes
<1>6. ASSUME NEW p \in PIDs, NEW i \in Inodes, CloseFd(i, p) PROVE ScanInv'
  <2>0. sock[i] # NoSock
    BY <1>6, <1>n DEF CloseFd
  <2>1. [sock[i] EXCEPT !.owners = @ \ {p}]
          \in [port : Ports, tab : {"tcp", "tcp6"}, owners : SUBSET PIDs]
    BY <2>0 DEF ScanInv, ScanTypes
  <2> QED
    BY <1>6, <2>0, <2>1, SockChanges DEF CloseFd, ScanInv, ScanTypes
<1>7. ASSUME NEW p \in PIDs, NEW i \in Inodes, NEW port \in Ports, NEW tab \in {"tcp", "tcp6"},
             Listen(i, port, tab, p)
      PROVE  ScanInv'
  <2>1. [port |-> port, tab |-> tab, owners |-> {p}]
          \in [port : Ports, tab : {"tcp", "tcp6"}, owners : SUBSET PIDs]
    OBVIOUS
  <2> QED
    BY <1>7, <2>1, SockChanges DEF Listen
<1>8. CASE UNCHANGED scanVars
  BY <1>8 DEF scanVars, ScanInv, ReadSoFar, NoResultYet, Unfound, ScanTypes, SamePort, KeptThere, KeptFound, FoundHeld, HeldSeen,
              PortsHeld, Holding, ScanRight
<1> QED
  BY <1>1, <1>2, <1>3, <1>4, <1>5, <1>6, <1>7, <1>8 DEF ScanNext

\* A scan is right whatever else the host does meanwhile: however many sockets
\* and processes there are and whichever of them can be read, every port that is
\* listened on all along in a table that could be opened is reported once, with a
\* process if one that could be read has held it, and no process is reported for
\* a port it has not held (scanListeningPorts in portscan.go).
THEOREM ScanIsRight == ScanInit /\ [][ScanNext]_scanVars => []ScanRight
<1>1. ScanInit => ScanInv
  BY PortScanAssumption
     DEF ScanInit, ScanInv, ReadSoFar, NoResultYet, Unfound, ScanTypes, SamePort, KeptThere, KeptFound, FoundHeld, HeldSeen,
         PortsHeld, Holding, ScanRight, NoSock, Nothing
<1>2. ScanInv => ScanRight
  BY DEF ScanInv
<1> QED
  BY <1>1, <1>2, ScanStep, PTL
=============================================================================
