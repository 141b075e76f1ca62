-------------------------- MODULE PtySessionProofs --------------------------
(***************************************************************************)
(* Proofs about PtySession for any number of hubs, any ring and queue      *)
(* capacity and any amount of output.                                      *)
(***************************************************************************)
EXTENDS PtySession, SequenceTheorems, TLAPS

\* The inductive invariant.  StreamContiguous alone is not inductive: a live frame
\* continues the stream because the sender has been offered everything logged
\* (SenderCurrent) and has been given the last thing it was offered (LastOffered);
\* a hub that attaches to an empty ring was offered nothing (OfferedLogged).
IInv == TypeOK /\ SenderCurrent /\ OfferedLogged /\ LastOffered /\ StreamContiguous
-----------------------------------------------------------------------------
(* Facts about streams *)

\* The two halves of a stream are sequences of frames.
LEMMA StreamType ==
  ASSUME TypeOK, NEW h \in Hub
  PROVE  /\ recv[h] \in Seq(Frame) /\ queue[h] \in Seq(Frame)
         /\ Stream(h) \in Seq(Frame)
<1>1. recv[h] \in Seq(Frame) /\ queue[h] \in Seq(Frame)
  BY DEF TypeOK
<1> QED
  BY <1>1, ConcatProperties DEF Stream

\* Queueing a frame appends it to the stream.
LEMMA ConcatAppend ==
  ASSUME NEW S, NEW r \in Seq(S), NEW q \in Seq(S), NEW f \in S
  PROVE  r \o Append(q, f) = Append(r \o q, f)
<1>1. <<f>> \in Seq(S)
  OBVIOUS
<1>2. Append(q, f) = q \o <<f>>
  BY AppendIsConcat
<1>3. r \o q \in Seq(S)
  BY ConcatProperties
<1>4. Append(r \o q, f) = (r \o q) \o <<f>>
  BY <1>3, AppendIsConcat
<1> QED
  BY <1>1, <1>2, <1>4, ConcatAssociative

\* Moving the head of the queue to the client leaves the stream as it is.
LEMMA MoveHead ==
  ASSUME NEW S, NEW r \in Seq(S), NEW q \in Seq(S), q # << >>
  PROVE  Append(r, Head(q)) \o Tail(q) = r \o q
<1>1. Head(q) \in S /\ Tail(q) \in Seq(S) /\ <<Head(q)>> \in Seq(S)
  OBVIOUS
<1>2. q = <<Head(q)>> \o Tail(q)
  OBVIOUS
<1>3. Append(r, Head(q)) = r \o <<Head(q)>>
  BY <1>1, AppendIsConcat
<1>4. (r \o <<Head(q)>>) \o Tail(q) = r \o (<<Head(q)>> \o Tail(q))
  BY <1>1, ConcatAssociative
<1> QED
  BY <1>2, <1>3, <1>4, Zenon

\* A frame that may follow a contiguous stream makes a longer one.
LEMMA ContiguousAppend ==
  ASSUME NEW s \in Seq(Frame), Contiguous(s), NEW f \in Frame,
         f.replay \/ f.afterDrop \/ f.lo = LastHi(s) + 1
  PROVE  Contiguous(Append(s, f)) /\ LastHi(Append(s, f)) = f.hi
<1>t. PICK t : t = Append(s, f)
  OBVIOUS
<1>1. /\ Len(s) \in Nat /\ t \in Seq(Frame) /\ Len(t) = Len(s) + 1
      /\ t[Len(s) + 1] = f
      /\ \A i \in 1 .. Len(s) : t[i] = s[i]
  BY <1>t, AppendProperties
<1>2. LastHi(t) = f.hi
  BY <1>1 DEF LastHi
<1>3. ASSUME NEW i \in 1 .. Len(t)
      PROVE  t[i].replay \/ t[i].afterDrop
               \/ t[i].lo = IF i = 1 THEN 1 ELSE t[i - 1].hi + 1
  <2>1. CASE i \in 1 .. Len(s)
    <3>1. t[i] = s[i] /\ (i # 1 => t[i - 1] = s[i - 1])
      BY <1>1, <2>1
    <3>2. s[i].replay \/ s[i].afterDrop \/ s[i].lo = IF i = 1 THEN 1 ELSE s[i - 1].hi + 1
      BY <2>1 DEF Contiguous
    <3> QED
      BY <3>1, <3>2
  <2>2. CASE i = Len(s) + 1
    <3>1. t[i] = f
      BY <1>1, <2>2
    <3>2. CASE i = 1
      BY <1>1, <2>2, <3>1, <3>2 DEF LastHi
    <3>3. CASE i # 1
      <4>1. i - 1 = Len(s) /\ Len(s) # 0 /\ t[i - 1] = s[Len(s)]
        BY <1>1, <2>2, <3>3
      <4> QED
        BY <3>1, <3>3, <4>1 DEF LastHi
    <3> QED
      BY <3>2, <3>3
  <2> QED
    BY <1>1, <2>1, <2>2
<1> QED
  BY <1>t, <1>2, <1>3 DEF Contiguous
-----------------------------------------------------------------------------
(* Sending preserves the hub's part of the invariant *)

\* The hub's part of the type invariant that Send touches.
SendType ==
  /\ queue \in [Hub -> Seq(Frame)]
  /\ dropped \in [Hub -> BOOLEAN]
  /\ upto \in [Hub -> Nat]

\* A Send adds its frame to the hub's stream, or fails and leaves the stream alone.
LEMMA SendStream ==
  ASSUME TypeOK,
         NEW h \in Hub, NEW lo \in Nat \ {0}, NEW hi \in Nat, NEW isReplay \in BOOLEAN,
         Send(h, lo, hi, isReplay), recv' = recv
  PROVE  /\ SendType' /\ upto'[h] = hi
         /\ \A g \in Hub \ {h} :
              Stream(g)' = Stream(g) /\ upto'[g] = upto[g] /\ dropped'[g] = dropped[g]
         /\ \/ Stream(h)' = Stream(h) /\ dropped'[h]
            \/ \E f \in Frame :
                 /\ f.replay = isReplay /\ f.afterDrop = dropped[h] /\ f.lo = lo /\ f.hi = hi
                 /\ Stream(h)' = Append(Stream(h), f)
<1>f. PICK f : f = [lo |-> lo, hi |-> hi, replay |-> isReplay, afterDrop |-> dropped[h]]
  OBVIOUS
<1>a. PICK accept \in BOOLEAN :
        /\ queue' = IF accept THEN [queue EXCEPT ![h] = Append(@, f)] ELSE queue
        /\ dropped' = [dropped EXCEPT ![h] = ~accept]
        /\ upto' = [upto EXCEPT ![h] = hi]
  BY <1>f DEF Send
<1>1. f \in Frame /\ f.replay = isReplay /\ f.afterDrop = dropped[h] /\ f.lo = lo /\ f.hi = hi
  BY <1>f DEF Frame, TypeOK
<1>2. /\ queue \in [Hub -> Seq(Frame)] /\ dropped \in [Hub -> BOOLEAN]
      /\ upto \in [Hub -> Nat]
  BY DEF TypeOK
<1>3. SendType'
  <2>1. queue' \in [Hub -> Seq(Frame)]
    BY <1>a, <1>1, <1>2
  <2>2. dropped' \in [Hub -> BOOLEAN] /\ upto' \in [Hub -> Nat]
    BY <1>a, <1>2
  <2> QED
    BY <2>1, <2>2 DEF SendType
<1>4. upto'[h] = hi /\ \A g \in Hub \ {h} : upto'[g] = upto[g] /\ dropped'[g] = dropped[g]
  BY <1>a, <1>2
<1>5. \A g \in Hub \ {h} : Stream(g)' = Stream(g)
  BY <1>a, <1>2 DEF Stream
<1>6. CASE accept
  <2>1. queue'[h] = Append(queue[h], f)
    BY <1>a, <1>2, <1>6
  <2>2. recv[h] \o Append(queue[h], f) = Append(recv[h] \o queue[h], f)
    <3>1. recv[h] \in Seq(Frame) /\ queue[h] \in Seq(Frame) /\ f \in Frame
      BY <1>1, StreamType
    <3>r. PICK r \in Seq(Frame) : r = recv[h]
      BY <3>1
    <3>q. PICK q \in Seq(Frame) : q = queue[h]
      BY <3>1
    <3>2. r \o Append(q, f) = Append(r \o q, f)
      BY <3>1, ConcatAppend
    <3> QED
      BY <3>r, <3>q, <3>2, Zenon
  <2>3. Stream(h)' = Append(Stream(h), f)
    BY <2>1, <2>2 DEF Stream
  <2> QED
    BY <1>1, <1>3, <1>4, <1>5, <2>3
<1>7. CASE ~accept
  <2>1. Stream(h)' = Stream(h) /\ dropped'[h]
    BY <1>a, <1>2, <1>7 DEF Stream
  <2> QED
    BY <1>3, <1>4, <1>5, <2>1
<1> QED
  BY <1>6, <1>7

\* A Send of a replay, or of what follows the last offer, keeps streams contiguous.
LEMMA SendStep ==
  ASSUME TypeOK, LastOffered, StreamContiguous,
         NEW h \in Hub, NEW lo \in Nat \ {0}, NEW hi \in Nat, NEW isReplay \in BOOLEAN,
         isReplay \/ lo = upto[h] + 1,
         Send(h, lo, hi, isReplay), recv' = recv
  PROVE  /\ SendType' /\ LastOffered' /\ StreamContiguous'
         /\ upto'[h] = hi /\ \A g \in Hub \ {h} : upto'[g] = upto[g]
<1>1. /\ SendType' /\ upto'[h] = hi
      /\ \A g \in Hub \ {h} :
           Stream(g)' = Stream(g) /\ upto'[g] = upto[g] /\ dropped'[g] = dropped[g]
      /\ \/ Stream(h)' = Stream(h) /\ dropped'[h]
         \/ \E f \in Frame :
              /\ f.replay = isReplay /\ f.afterDrop = dropped[h] /\ f.lo = lo /\ f.hi = hi
              /\ Stream(h)' = Append(Stream(h), f)
  BY SendStream
<1>2. \A g \in Hub \ {h} : Contiguous(Stream(g))' /\ LastHi(Stream(g))' = LastHi(Stream(g))
  BY <1>1 DEF StreamContiguous, Contiguous, LastHi
<1>3. Contiguous(Stream(h))' /\ (dropped'[h] \/ LastHi(Stream(h))' = hi)
  <2>1. CASE Stream(h)' = Stream(h) /\ dropped'[h]
    BY <2>1 DEF StreamContiguous, Contiguous
  <2>2. ASSUME NEW f \in Frame, f.replay = isReplay, f.afterDrop = dropped[h],
               f.lo = lo, f.hi = hi, Stream(h)' = Append(Stream(h), f)
        PROVE  Contiguous(Stream(h))' /\ LastHi(Stream(h))' = hi
    <3>1. f.replay \/ f.afterDrop \/ f.lo = LastHi(Stream(h)) + 1
      BY <2>2 DEF LastOffered, TypeOK
    <3>2. Contiguous(Append(Stream(h), f)) /\ LastHi(Append(Stream(h), f)) = hi
      BY <2>2, <3>1, StreamType, ContiguousAppend DEF StreamContiguous
    <3> QED
      BY <2>2, <3>2 DEF Contiguous, LastHi
  <2> QED
    BY <1>1, <2>1, <2>2
<1>4. StreamContiguous'
  BY <1>2, <1>3 DEF StreamContiguous
<1>5. LastOffered'
  BY <1>1, <1>2, <1>3 DEF LastOffered
<1> QED
  BY <1>1, <1>4, <1>5

\* A step that leaves the streams and what they were offered alone.
LEMMA StreamsSame ==
  ASSUME LastOffered, StreamContiguous,
         \A h \in Hub : Stream(h)' = Stream(h),
         UNCHANGED <<upto, dropped>>
  PROVE  LastOffered' /\ StreamContiguous'
<1>1. \A g \in Hub : Contiguous(Stream(g))' /\ LastHi(Stream(g))' = LastHi(Stream(g))
  BY DEF StreamContiguous, Contiguous, LastHi
<1> QED
  BY <1>1 DEF LastOffered, StreamContiguous
-----------------------------------------------------------------------------
(* The invariant *)

\* The initial state satisfies the invariant.
LEMMA InitIInv == Init => IInv
<1> SUFFICES ASSUME Init PROVE IInv
  OBVIOUS
<1>1. TypeOK
  <2>1. mapped \in BOOLEAN /\ eof \in BOOLEAN /\ dropped \in [Hub -> BOOLEAN]
    BY Zenon DEF Init
  <2>2. << >> \in Seq(Frame)
    BY EmptySeq
  <2>3. queue \in [Hub -> Seq(Frame)] /\ recv \in [Hub -> Seq(Frame)]
    BY <2>2 DEF Init
  <2> QED
    BY <2>1, <2>3 DEF Init, TypeOK
<1>2. \A h \in Hub : Len(Stream(h)) = 0
  <2>1. << >> \o << >> = << >> /\ Len(<< >>) = 0
    OBVIOUS
  <2> QED
    BY <2>1 DEF Init, Stream
<1>3. LastOffered /\ StreamContiguous
  BY <1>2 DEF Init, LastOffered, StreamContiguous, Contiguous, LastHi
<1> QED
  BY <1>1, <1>3 DEF Init, IInv, SenderCurrent, OfferedLogged

\* Every step preserves the invariant.
LEMMA NextIInv == IInv /\ [Next]_vars => IInv'
<1> SUFFICES ASSUME IInv, [Next]_vars PROVE IInv'
  OBVIOUS
<1>a. TypeOK /\ SenderCurrent /\ OfferedLogged /\ LastOffered /\ StreamContiguous
  BY DEF IInv
<1>b. ASSUME UNCHANGED <<recv, queue, upto, dropped>>
      PROVE  LastOffered' /\ StreamContiguous'
  <2>1. \A h \in Hub : Stream(h)' = Stream(h)
    BY <1>b DEF Stream
  <2> QED
    BY <1>a, <1>b, <2>1, StreamsSame
<1>1. CASE ReaderTop
  BY <1>1, <1>a, <1>b DEF ReaderTop, IInv, TypeOK, SenderCurrent, OfferedLogged, hubVars
<1>2. ASSUME NEW n \in 1 .. MaxRead, ReaderRead(n) PROVE IInv'
  <2>1. eof' \in BOOLEAN
    BY <1>2, Zenon DEF ReaderRead
  <2>2. got' \in Nat
    BY <1>2, BoundAssumption DEF ReaderRead
  <2> QED
    BY <1>2, <2>1, <2>2, <1>a, <1>b DEF ReaderRead, IInv, TypeOK, SenderCurrent, OfferedLogged, hubVars
<1>3. CASE ReaderFail
  BY <1>3, <1>a, <1>b DEF ReaderFail, IInv, TypeOK, SenderCurrent, OfferedLogged, hubVars
<1>4. CASE ReaderDeliver
  <2>0. /\ logged' = logged + got /\ logged \in Nat /\ got \in Nat
        /\ UNCHANGED <<shell, mapped, closing, sender, life, opening, opens, recv>>
    BY <1>4, <1>a DEF ReaderDeliver, TypeOK
  <2>1. /\ shell' \in {"running", "exited", "reaped"} /\ mapped' \in BOOLEAN
        /\ closing' \in {"no", "done", "killed", "shut", "closed"}
        /\ reader' \in {"top", "read", "deliver", "exited"}
        /\ got' \in Nat /\ eof' \in BOOLEAN /\ logged' \in Nat
        /\ sender' \in Hub \cup {None}
        /\ life' \in [Hub -> {"new", "open", "closed", "gone"}]
        /\ opening' \in SUBSET Hub /\ opens' \in Nat /\ recv' \in [Hub -> Seq(Frame)]
    <3>1. reader' \in {"top", "exited"} /\ eof' \in BOOLEAN /\ got' = 0
      BY <1>4, Zenon DEF ReaderDeliver
    <3> QED
      BY <1>a, <2>0, <3>1 DEF TypeOK
  <2>2. CASE sender # None
    <3>1. sender \in Hub /\ logged + 1 = upto[sender] + 1
          /\ Send(sender, logged + 1, logged + got, FALSE)
      BY <1>4, <1>a, <2>2 DEF ReaderDeliver, TypeOK, SenderCurrent, OfferedLogged
    <3>2. logged + 1 \in Nat \ {0} /\ logged + got \in Nat
      BY <2>0
    <3>3. /\ SendType' /\ LastOffered' /\ StreamContiguous' /\ upto'[sender] = logged + got
          /\ \A g \in Hub \ {sender} : upto'[g] = upto[g]
      BY <1>a, <2>0, <3>1, <3>2, SendStep
    <3>4. OfferedLogged'
      <4> SUFFICES ASSUME NEW g \in Hub PROVE upto'[g] <= logged'
        BY DEF OfferedLogged
      <4>1. CASE g = sender
        BY <2>0, <3>3, <4>1
      <4>2. CASE g # sender
        <5>1. upto'[g] = upto[g] /\ upto[g] \in Nat /\ upto[g] <= logged
          BY <1>a, <3>3, <4>2 DEF OfferedLogged, TypeOK
        <5> QED
          BY <2>0, <5>1
      <4> QED
        BY <4>1, <4>2
    <3> QED
      BY <2>0, <2>1, <3>3, <3>4 DEF IInv, TypeOK, SenderCurrent, SendType
  <2>3. CASE sender = None
    <3>1. UNCHANGED <<recv, queue, upto, dropped>>
      BY <1>4, <2>0, <2>3 DEF ReaderDeliver, NoSend
    <3> QED
      BY <1>a, <1>b, <2>0, <2>1, <2>3, <3>1 DEF IInv, TypeOK, SenderCurrent, OfferedLogged
  <2> QED
    BY <2>2, <2>3
<1>5. CASE ShellExit
  BY <1>5, <1>a, <1>b DEF ShellExit, IInv, TypeOK, SenderCurrent, OfferedLogged, hubVars
<1>6. CASE RemovePTY
  BY <1>6, <1>a, <1>b DEF RemovePTY, IInv, TypeOK, SenderCurrent, OfferedLogged, hubVars
<1>7. CASE Close
  BY <1>7, <1>a, <1>b
     DEF Close, CloseDone, CloseKill, ClosePtmx, CloseWait, IInv, TypeOK, SenderCurrent, OfferedLogged, hubVars
<1>8. ASSUME NEW h \in Hub, Connect(h) PROVE IInv'
  BY <1>8, <1>a, <1>b DEF Connect, IInv, TypeOK, SenderCurrent, OfferedLogged, ptyVars
<1>9. ASSUME NEW h \in Hub, OpenPTY(h) PROVE IInv'
  BY <1>9, <1>a, <1>b DEF OpenPTY, IInv, TypeOK, SenderCurrent, OfferedLogged, ptyVars
<1>10. ASSUME NEW h \in Hub, Attach(h) PROVE IInv'
  <2>0. /\ sender' = h /\ opening' = opening \ {h} /\ logged \in Nat
        /\ UNCHANGED <<shell, mapped, closing, reader, got, eof, logged, life, opens, recv>>
    BY <1>10, <1>a DEF Attach, TypeOK
  <2>1. /\ shell' \in {"running", "exited", "reaped"} /\ mapped' \in BOOLEAN
        /\ closing' \in {"no", "done", "killed", "shut", "closed"}
        /\ reader' \in {"top", "read", "deliver", "exited"}
        /\ got' \in Nat /\ eof' \in BOOLEAN /\ logged' \in Nat
        /\ sender' \in Hub \cup {None}
        /\ life' \in [Hub -> {"new", "open", "closed", "gone"}]
        /\ opening' \in SUBSET Hub /\ opens' \in Nat /\ recv' \in [Hub -> Seq(Frame)]
    BY <1>10, <1>a, <2>0 DEF TypeOK
  <2>2. CASE logged > 0
    <3>1. Send(h, RingLow, logged, TRUE)
      BY <1>10, <2>2 DEF Attach
    <3>2. RingLow \in Nat \ {0}
      BY <2>0, BoundAssumption DEF RingLow
    <3>3. /\ SendType' /\ LastOffered' /\ StreamContiguous' /\ upto'[h] = logged
          /\ \A g \in Hub \ {h} : upto'[g] = upto[g]
      BY <1>10, <1>a, <2>0, <3>1, <3>2, SendStep
    <3>4. OfferedLogged'
      BY <1>a, <2>0, <3>3 DEF OfferedLogged
    <3> QED
      BY <2>0, <2>1, <3>3, <3>4 DEF IInv, TypeOK, SenderCurrent, SendType
  <2>3. CASE logged = 0
    <3>1. UNCHANGED <<recv, queue, upto, dropped>>
      BY <1>10, <2>0, <2>3 DEF Attach, NoSend
    <3>2. upto[h] = 0
      BY <1>10, <1>a, <2>3 DEF TypeOK, OfferedLogged
    <3> QED
      BY <1>a, <1>b, <2>0, <2>1, <2>3, <3>1, <3>2 DEF IInv, TypeOK, SenderCurrent, OfferedLogged
  <2> QED
    BY <2>0, <2>2, <2>3
<1>11. ASSUME NEW h \in Hub, Writer(h) PROVE IInv'
  <2>0. recv[h] \in Seq(Frame) /\ queue[h] \in Seq(Frame) /\ queue[h] # << >>
    BY <1>11, <1>a DEF TypeOK, Writer
  <2>1. recv' \in [Hub -> Seq(Frame)] /\ queue' \in [Hub -> Seq(Frame)]
    BY <1>11, <1>a, <2>0 DEF Writer, TypeOK
  <2>2. \A g \in Hub \ {h} : Stream(g)' = Stream(g)
    BY <1>11, <1>a DEF Writer, TypeOK, Stream
  <2>3. Stream(h)' = Stream(h)
    <3>1. recv'[h] = Append(recv[h], Head(queue[h])) /\ queue'[h] = Tail(queue[h])
      BY <1>11, <1>a DEF Writer, TypeOK
    <3>2. Append(recv[h], Head(queue[h])) \o Tail(queue[h]) = recv[h] \o queue[h]
      BY <2>0, MoveHead, Zenon
    <3> QED
      BY <3>1, <3>2 DEF Stream
  <2>4. LastOffered' /\ StreamContiguous'
    BY <1>11, <1>a, <2>2, <2>3, StreamsSame DEF Writer
  <2> QED
    BY <1>11, <1>a, <2>1, <2>4 DEF Writer, IInv, TypeOK, SenderCurrent, OfferedLogged, ptyVars
<1>12. ASSUME NEW h \in Hub, HubClose(h) PROVE IInv'
  BY <1>12, <1>a, <1>b DEF HubClose, IInv, TypeOK, SenderCurrent, OfferedLogged, ptyVars
<1>13. ASSUME NEW h \in Hub, Teardown(h) PROVE IInv'
  BY <1>13, <1>a, <1>b DEF Teardown, IInv, TypeOK, SenderCurrent, OfferedLogged
<1>14. CASE UNCHANGED vars
  BY <1>14, <1>a, <1>b DEF vars, ptyVars, hubVars, IInv, TypeOK, SenderCurrent, OfferedLogged
<1> QED
  BY <1>1, <1>2, <1>3, <1>4, <1>5, <1>6, <1>7, <1>8, <1>9, <1>10, <1>11, <1>12, <1>13, <1>14
     DEF Next, Reader, HubStep

\* The terminal's state is well typed, the sender has been offered all that was
\* logged, and what a client gets is contiguous, in every reachable state.
THEOREM Invariance == Spec => []IInv
BY InitIInv, NextIInv, PTL DEF Spec

\* Type correctness of the terminal and its hubs.
THEOREM TypeCorrect == Spec => []TypeOK
<1>1. IInv => TypeOK
  BY DEF IInv
<1> QED
  BY <1>1, Invariance, PTL

\* Attach and the reader never let the sender fall behind the ring: session.go
\* changes ring and sender only under senderMu, together with the Send.
THEOREM SenderNeverBehind == Spec => []SenderCurrent
<1>1. IInv => SenderCurrent
  BY DEF IInv
<1> QED
  BY <1>1, Invariance, PTL

\* Replay and live output meet without a hole or a repetition, for any number of
\* connections that attach, fail and detach at any time.
THEOREM ClientStreamContiguous == Spec => []StreamContiguous
<1>1. IInv => StreamContiguous
  BY DEF IInv
<1> QED
  BY <1>1, Invariance, PTL
-----------------------------------------------------------------------------
(* Replays reach back *)

\* What ReplayReachesBack says of one stream.
Reaching(s) ==
  \A i \in 2 .. Len(s) :
    /\ s[i - 1].hi <= s[i].hi
    /\ s[i].replay => s[i].lo <= s[i - 1].hi + 1 \/ s[i].hi - s[i].lo + 1 = RingCap

\* No client has seen more than its hub was offered.
SeenOffered == \A h \in Hub : LastHi(Stream(h)) <= upto[h]

\* ReplayReachesBack becomes inductive with the bound on what a client has seen: a
\* replay, and a live frame, ends at the newest byte, which no frame before it passes.
BackInv == SeenOffered /\ \A h \in Hub : Reaching(Stream(h))

\* The last position of a stream is one.
LEMMA LastHiType == ASSUME NEW s \in Seq(Frame) PROVE LastHi(s) \in Nat
<1>1. CASE Len(s) = 0
  BY <1>1 DEF LastHi
<1>2. CASE Len(s) # 0
  <2>1. Len(s) \in 1 .. Len(s)
    BY <1>2
  <2>2. s[Len(s)] \in Frame
    BY <2>1, ElementOfSeq
  <2> QED
    BY <1>2, <2>2 DEF LastHi, Frame
<1> QED
  BY <1>1, <1>2

\* A frame that ends no earlier than the stream, and that is live, reaches back to
\* the first byte or fills the ring, may follow.
LEMMA ReachingAppend ==
  ASSUME NEW s \in Seq(Frame), Reaching(s), NEW f \in Frame, LastHi(s) <= f.hi,
         f.replay => f.lo = 1 \/ f.hi - f.lo + 1 = RingCap
  PROVE  Reaching(Append(s, f)) /\ LastHi(Append(s, f)) = f.hi
<1>t. PICK t : t = Append(s, f)
  OBVIOUS
<1>1. /\ Len(s) \in Nat /\ t \in Seq(Frame) /\ Len(t) = Len(s) + 1
      /\ t[Len(s) + 1] = f
      /\ \A i \in 1 .. Len(s) : t[i] = s[i] /\ s[i] \in Frame
  BY <1>t, AppendProperties, ElementOfSeq
<1>2. LastHi(t) = f.hi
  BY <1>1 DEF LastHi
<1>3. ASSUME NEW i \in 2 .. Len(t)
      PROVE  /\ t[i - 1].hi <= t[i].hi
             /\ t[i].replay => t[i].lo <= t[i - 1].hi + 1 \/ t[i].hi - t[i].lo + 1 = RingCap
  <2>1. CASE i \in 2 .. Len(s)
    <3>1. t[i] = s[i] /\ t[i - 1] = s[i - 1]
      BY <1>1, <2>1
    <3> QED
      BY <2>1, <3>1 DEF Reaching
  <2>2. CASE i = Len(s) + 1
    <3>1. t[i] = f /\ t[i - 1] = s[Len(s)] /\ Len(s) # 0
      BY <1>1, <2>2
    <3>2. LastHi(s) = t[i - 1].hi /\ t[i - 1].hi \in Nat
      BY <1>1, <3>1, LastHiType DEF LastHi
    <3>3. f.lo = 1 => f.lo <= t[i - 1].hi + 1
      BY <3>2
    <3>4. t[i - 1].hi <= f.hi
      BY <3>2
    <3> QED
      BY <2>2, <1>1, <3>3, <3>4, Zenon
  <2> QED
    BY <1>1, <2>1, <2>2
<1> QED
  BY <1>t, <1>2, <1>3 DEF Reaching

\* Sending the whole ring, or what is newer than all that was offered.
LEMMA SendBack ==
  ASSUME TypeOK, BackInv,
         NEW h \in Hub, NEW lo \in Nat \ {0}, NEW hi \in Nat, NEW isReplay \in BOOLEAN,
         upto[h] <= hi, isReplay => lo = 1 \/ hi - lo + 1 = RingCap,
         Send(h, lo, hi, isReplay), recv' = recv
  PROVE  BackInv'
<1>1. /\ upto'[h] = hi
      /\ \A g \in Hub \ {h} : Stream(g)' = Stream(g) /\ upto'[g] = upto[g]
      /\ \/ Stream(h)' = Stream(h)
         \/ \E f \in Frame :
              /\ f.replay = isReplay /\ f.lo = lo /\ f.hi = hi
              /\ Stream(h)' = Append(Stream(h), f)
  BY SendStream
<1>2. LastHi(Stream(h)) \in Nat /\ upto[h] \in Nat /\ LastHi(Stream(h)) <= hi
  <2>1. LastHi(Stream(h)) \in Nat
    BY StreamType, LastHiType
  <2> QED
    BY <2>1 DEF TypeOK, BackInv, SeenOffered
<1>3. \A g \in Hub \ {h} : Reaching(Stream(g))' /\ LastHi(Stream(g))' <= upto'[g]
  BY <1>1 DEF BackInv, SeenOffered, Reaching, LastHi
<1>4. Reaching(Stream(h))' /\ LastHi(Stream(h))' <= upto'[h]
  <2>1. CASE Stream(h)' = Stream(h)
    BY <1>1, <1>2, <2>1 DEF BackInv, Reaching, LastHi
  <2>2. ASSUME NEW f \in Frame, f.replay = isReplay, f.lo = lo, f.hi = hi,
               Stream(h)' = Append(Stream(h), f)
        PROVE  Reaching(Stream(h))' /\ LastHi(Stream(h))' <= upto'[h]
    <3>1. Reaching(Append(Stream(h), f)) /\ LastHi(Append(Stream(h), f)) = hi
      BY <1>2, <2>2, StreamType, ReachingAppend DEF BackInv
    <3> QED
      BY <1>1, <2>2, <3>1 DEF Reaching, LastHi
  <2> QED
    BY <1>1, <2>1, <2>2
<1> QED
  BY <1>3, <1>4 DEF BackInv, SeenOffered

\* A step that sends nothing.
LEMMA BackSame ==
  ASSUME BackInv, \A h \in Hub : Stream(h)' = Stream(h), UNCHANGED upto
  PROVE  BackInv'
BY DEF BackInv, SeenOffered, Reaching, LastHi

\* Every step keeps the streams reaching back.
LEMMA NextBack == IInv /\ BackInv /\ [Next]_vars => BackInv'
<1> SUFFICES ASSUME IInv, BackInv, [Next]_vars PROVE BackInv'
  OBVIOUS
<1>a. TypeOK /\ SenderCurrent /\ OfferedLogged
  BY DEF IInv
<1>b. ASSUME UNCHANGED <<recv, queue, upto>>
      PROVE  BackInv'
  <2>1. \A h \in Hub : Stream(h)' = Stream(h)
    BY <1>b DEF Stream
  <2> QED
    BY <1>b, <2>1, BackSame
<1>1. CASE ReaderDeliver
  <2>0. logged \in Nat /\ got \in Nat /\ recv' = recv
    BY <1>1, <1>a DEF ReaderDeliver, TypeOK
  <2>1. CASE sender # None
    <3>1. sender \in Hub /\ upto[sender] = logged /\ Send(sender, logged + 1, logged + got, FALSE)
      BY <1>1, <1>a, <2>1 DEF ReaderDeliver, TypeOK, SenderCurrent
    <3>2. /\ logged + 1 \in Nat \ {0} /\ logged + got \in Nat
          /\ upto[sender] <= logged + got
      BY <2>0, <3>1
    <3> QED
      BY <1>a, <2>0, <3>1, <3>2, SendBack
  <2>2. CASE sender = None
    BY <1>1, <1>b, <2>2 DEF ReaderDeliver, NoSend
  <2> QED
    BY <2>1, <2>2
<1>2. ASSUME NEW h \in Hub, Attach(h) PROVE BackInv'
  <2>0. logged \in Nat /\ recv' = recv /\ upto[h] <= logged
    BY <1>2, <1>a DEF Attach, TypeOK, OfferedLogged
  <2>1. CASE logged > 0
    <3>1. /\ RingLow \in Nat \ {0}
          /\ RingLow = 1 \/ logged - RingLow + 1 = RingCap
      BY <2>0, BoundAssumption DEF RingLow
    <3> QED
      BY <1>2, <1>a, <2>0, <2>1, <3>1, SendBack DEF Attach
  <2>2. CASE logged = 0
    BY <1>2, <1>b, <2>0, <2>2 DEF Attach, NoSend
  <2> QED
    BY <2>0, <2>1, <2>2
<1>3. ASSUME NEW h \in Hub, Writer(h) PROVE BackInv'
  <2>0. recv[h] \in Seq(Frame) /\ queue[h] \in Seq(Frame) /\ queue[h] # << >>
    BY <1>3, <1>a DEF TypeOK, Writer
  <2>1. \A g \in Hub \ {h} : Stream(g)' = Stream(g)
    BY <1>3, <1>a DEF Writer, TypeOK, Stream
  <2>2. Stream(h)' = Stream(h)
    <3>1. recv'[h] = Append(recv[h], Head(queue[h])) /\ queue'[h] = Tail(queue[h])
      BY <1>3, <1>a DEF Writer, TypeOK
    <3>2. Append(recv[h], Head(queue[h])) \o Tail(queue[h]) = recv[h] \o queue[h]
      BY <2>0, MoveHead, Zenon
    <3> QED
      BY <3>1, <3>2 DEF Stream
  <2> QED
    BY <1>3, <2>1, <2>2, BackSame DEF Writer
<1>4. CASE ReaderTop \/ (\E n \in 1 .. MaxRead : ReaderRead(n)) \/ ReaderFail
           \/ ShellExit \/ RemovePTY
  BY <1>4, <1>b DEF ReaderTop, ReaderRead, ReaderFail, ShellExit, RemovePTY, hubVars
<1>5. CASE Close
  BY <1>5, <1>b DEF Close, CloseDone, CloseKill, ClosePtmx, CloseWait, hubVars
<1>6. ASSUME NEW h \in Hub, Connect(h) \/ OpenPTY(h) \/ HubClose(h) \/ Teardown(h) PROVE BackInv'
  BY <1>6, <1>b DEF Connect, OpenPTY, HubClose, Teardown
<1>7. CASE UNCHANGED vars
  BY <1>7, <1>b DEF vars, hubVars
<1> QED
  BY <1>1, <1>2, <1>3, <1>4, <1>5, <1>6, <1>7 DEF Next, Reader, HubStep

\* Frames reach a client in the order of the output, and a replay after a reconnect
\* starts no later than the first byte the client has not seen, or is a whole ring.
THEOREM ReplaysReachBack == Spec => []ReplayReachesBack
<1>1. Init => BackInv
  <2> SUFFICES ASSUME Init PROVE BackInv
    OBVIOUS
  <2>1. << >> \o << >> = << >> /\ Len(<< >>) = 0
    OBVIOUS
  <2> QED
    BY <2>1 DEF Init, BackInv, SeenOffered, Reaching, LastHi, Stream
<1>2. IInv /\ BackInv => ReplayReachesBack
  BY DEF BackInv, Reaching, ReplayReachesBack
<1> QED
  BY <1>1, <1>2, NextBack, Invariance, PTL DEF Spec
=============================================================================
