--------------------------- MODULE ConnectionProofs ---------------------------
(***************************************************************************)
(* Proofs about the connections that leave or enter this program apart     *)
(* from a hub: the browser's WebSocket (WSClient), the TCP proxy           *)
(* (PortProxy) and the HTTP proxy (HTTPProxy), for any number of sockets,  *)
(* clients, chunks and bytes, and all cookies, paths, policies and pages.  *)
(* The three share no state.                                               *)
(***************************************************************************)
EXTENDS WSClient, PortProxy, HTTPProxy, SequenceTheorems, WellFoundedInduction, TLAPS

-----------------------------------------------------------------------------
(* The browser's WebSocket *)

\* Until logout a socket that is not closed yet, one that is closing included, is
\* this.ws: the close event of any other one would forget the live socket.
WatchedOnly ==
  ~gone => \A i \in Socket : sock[i] \in {"connecting", "open", "closing"} => ws = i

WSInv == TypeOK /\ WatchedOnly /\ HeartbeatRuns /\ ConnectedMeansOpen

\* _openSocket: types and the two sockets it may touch.
LEMMA OpenSocketStep ==
  ASSUME TypeOK, OpenSocket
  PROVE  /\ ws' \in Socket \cup {None}
         /\ sock' \in [Socket -> {"new", "connecting", "open", "closing", "closed"}]
         /\ \/ UNCHANGED <<ws, sock>>
            \/ /\ ws = None
               /\ \E i \in Socket :
                    /\ sock[i] = "new" /\ ws' = i /\ sock'[i] = "connecting"
                    /\ \A j \in Socket \ {i} : sock'[j] = sock[j]
BY DEF OpenSocket, Unused, TypeOK

\* Calls, events and timers keep the socket watched.
LEMMA NextWSInv == WSInv /\ [Next]_vars => WSInv'
<1> SUFFICES ASSUME WSInv, [Next]_vars PROVE WSInv'
  OBVIOUS
<1> USE SocketAssumption DEF WSInv, TypeOK
<1>1. CASE Connect
  BY <1>1, OpenSocketStep DEF Connect, timerVars, WatchedOnly, HeartbeatRuns, ConnectedMeansOpen
<1>2. CASE Disconnect
  BY <1>2 DEF Disconnect, WatchedOnly, HeartbeatRuns, ConnectedMeansOpen
<1>3. ASSUME NEW i \in Socket, SockOpen(i) PROVE WSInv'
  BY <1>3 DEF SockOpen, timerVars, userVars, WatchedOnly, HeartbeatRuns, ConnectedMeansOpen
<1>4. ASSUME NEW i \in Socket, ServerSilent(i) PROVE WSInv'
  BY <1>4 DEF ServerSilent, timerVars, userVars, WatchedOnly, HeartbeatRuns, ConnectedMeansOpen
<1>5. ASSUME NEW i \in Socket, SockMessage(i) PROVE WSInv'
  BY <1>5 DEF SockMessage, sockVars, timerVars, userVars, WatchedOnly, HeartbeatRuns,
              ConnectedMeansOpen
<1>6. ASSUME NEW i \in Socket, SockClose(i) PROVE WSInv'
  BY <1>6 DEF SockClose, userVars, WatchedOnly, HeartbeatRuns, ConnectedMeansOpen
<1>7. ASSUME NEW i \in Socket, ValidateRetry(i) PROVE WSInv'
  BY <1>7 DEF ValidateRetry, sockVars, userVars, WatchedOnly, HeartbeatRuns, ConnectedMeansOpen
<1>8. ASSUME NEW i \in Socket, ValidateRejects(i) PROVE WSInv'
  BY <1>8 DEF ValidateRejects, WatchedOnly, HeartbeatRuns, ConnectedMeansOpen
<1>9. ASSUME NEW i \in Socket, Reconnect(i) PROVE WSInv'
  BY <1>9, OpenSocketStep DEF Reconnect, userVars, WatchedOnly, HeartbeatRuns, ConnectedMeansOpen
<1>10. CASE HeartbeatTimer
  BY <1>10 DEF HeartbeatTimer, sockVars, timerVars, userVars, WatchedOnly, HeartbeatRuns,
               ConnectedMeansOpen
<1>11. CASE HeartbeatTimeout
  BY <1>11 DEF HeartbeatTimeout, timerVars, userVars, WatchedOnly, HeartbeatRuns,
               ConnectedMeansOpen
<1>12. CASE UNCHANGED vars
  BY <1>12 DEF vars, sockVars, timerVars, userVars, WatchedOnly, HeartbeatRuns, ConnectedMeansOpen
<1> QED
  BY <1>1, <1>2, <1>3, <1>4, <1>5, <1>6, <1>7, <1>8, <1>9, <1>10, <1>11, <1>12 DEF Next

\* The browser never has a second live socket before logout, its heartbeat watches
\* the one it has, and the page shows "Connected" only while that one is open,
\* whatever the order of close events, retries, answers and calls (client.ts).
THEOREM SocketWatched == Spec => []OneWatchedSocket
<1>1. Init => WSInv
  <2> SUFFICES ASSUME Init PROVE WSInv
    OBVIOUS
  <2>1. should \in BOOLEAN /\ connected \in BOOLEAN /\ started \in BOOLEAN /\ gone \in BOOLEAN
    BY Zenon DEF Init
  <2> QED
    BY <2>1 DEF Init, WSInv, TypeOK, WatchedOnly, HeartbeatRuns, ConnectedMeansOpen
<1>2. WSInv => OneWatchedSocket
  BY DEF WSInv, WatchedOnly, OneWatchedSocket, OneSocket
<1> QED
  BY <1>1, <1>2, NextWSInv, PTL DEF Spec
-----------------------------------------------------------------------------
(* The TCP proxy *)

\* The types of what the safety of readLoop depends on.
ProxyTypes ==
  /\ ppc \in {"read", "look", "send", "notice", "tell", "close", "done"}
  /\ chunks \in 0 .. MaxChunks /\ eof \in BOOLEAN
  /\ held \in Clients \cup {NoClient} /\ ph \in Clients \cup {NoClient}
  /\ opening \subseteq Clients /\ lost \subseteq 1 .. Notice
  /\ queue \in [Clients -> Seq(1 .. Notice)] /\ recv \in [Clients -> Seq(1 .. Notice)]

\* The chunk readLoop has in its hands.
Busy == IF ppc \in {"look", "send"} THEN {chunks} ELSE {}

\* A hub is looked up before it is sent to, and a chunk is read before.
HubHeld ==
  /\ ppc \in {"send", "tell"} => held # NoClient
  /\ ppc \in {"look", "send"} => chunks > 0

Given(c) == Range(Stream(c))

\* Nothing is given away before readLoop has it, or while it is still to be sent,
\* and the notice comes last.
GivenBefore ==
  \A c \in Clients : \A n \in Given(c) :
    \/ n \in 1 .. chunks /\ n \notin Busy
    \/ n = Notice /\ ppc \in {"close", "done"}

Increasing(s) == \A i \in 2 .. Len(s) : s[i - 1] < s[i]

\* ChunksOnce, with what the step that sends a chunk needs to know of the earlier ones.
ProxyInv ==
  /\ ProxyTypes /\ HubHeld /\ GivenBefore
  /\ \A c \in Clients : Increasing(Stream(c))
  /\ \A c, d \in Clients : c # d => Given(c) \cap Given(d) \subseteq {Notice}
  /\ \A n \in lost : n \in 1 .. chunks \/ n = Notice
  /\ \A n \in 1 .. chunks : n \in Busy \/ n \in lost \/ \E c \in Clients : n \in Given(c)

\* What follows a sequence is in its range, with what was there before.
LEMMA RangeAppend ==
  ASSUME NEW S, NEW s \in Seq(S), NEW x \in S
  PROVE  Range(Append(s, x)) = Range(s) \cup {x}
<1>1. /\ Len(s) \in Nat /\ DOMAIN s = 1 .. Len(s)
      /\ DOMAIN Append(s, x) = 1 .. (Len(s) + 1)
      /\ Append(s, x)[Len(s) + 1] = x
      /\ \A i \in 1 .. Len(s) : Append(s, x)[i] = s[i]
  BY AppendProperties
<1>2. 1 .. (Len(s) + 1) = (1 .. Len(s)) \cup {Len(s) + 1}
  BY <1>1
<1> QED
  BY <1>1, <1>2 DEF Range

\* A number above all in an increasing sequence may follow.
LEMMA IncreasingAppend ==
  ASSUME NEW N, NEW s \in Seq(1 .. N), Increasing(s), NEW x \in 1 .. N, \A n \in Range(s) : n < x
  PROVE  Increasing(Append(s, x))
<1>t. PICK t : t = Append(s, x)
  OBVIOUS
<1>1. /\ Len(s) \in Nat /\ DOMAIN s = 1 .. Len(s) /\ Len(t) = Len(s) + 1
      /\ t[Len(s) + 1] = x
      /\ \A i \in 1 .. Len(s) : t[i] = s[i]
  BY <1>t, AppendProperties
<1>2. ASSUME NEW i \in 2 .. Len(t) PROVE t[i - 1] < t[i]
  <2>1. CASE i \in 2 .. Len(s)
    BY <1>1, <2>1 DEF Increasing
  <2>2. CASE i = Len(s) + 1
    <3>1. Len(s) \in DOMAIN s
      BY <1>1, <2>2
    <3>2. s[Len(s)] < x
      BY <3>1 DEF Range
    <3>3. t[i - 1] = s[Len(s)] /\ t[i] = x
      BY <1>1, <2>2, <3>1
    <3> QED
      BY <3>2, <3>3
  <2> QED
    BY <1>1, <2>1, <2>2
<1> QED
  BY <1>t, <1>2 DEF Increasing

\* Passing the head on leaves what is put together as it is.
LEMMA PassHead ==
  ASSUME NEW S, NEW r \in Seq(S), NEW q \in Seq(S), q # << >>
  PROVE  /\ Append(r, Head(q)) \o Tail(q) = r \o q
         /\ Append(r, Head(q)) \in Seq(S) /\ Tail(q) \in Seq(S)
<1>1. Head(q) \in S /\ Tail(q) \in Seq(S) /\ <<Head(q)>> \in Seq(S)
  OBVIOUS
<1>2. q = <<Head(q)>> \o Tail(q)
  OBVIOUS
<1>3. Append(r, Head(q)) = r \o <<Head(q)>> /\ Append(r, Head(q)) \in Seq(S)
  BY <1>1, AppendIsConcat
<1>4. (r \o <<Head(q)>>) \o Tail(q) = r \o (<<Head(q)>> \o Tail(q))
  BY <1>1, ConcatAssociative
<1>5. Append(r, Head(q)) \o Tail(q) = r \o q
  BY <1>2, <1>3, <1>4, Zenon
<1> QED
  BY <1>1, <1>3, <1>5

\* What was put together is longer by what is appended.
LEMMA PutLast ==
  ASSUME NEW S, NEW r \in Seq(S), NEW q \in Seq(S), NEW x \in S
  PROVE  r \o Append(q, x) = Append(r \o q, x)
<1>1. <<x>> \in Seq(S) /\ Append(q, x) = q \o <<x>> /\ r \o q \in Seq(S)
  BY AppendIsConcat, ConcatProperties
<1>2. Append(r \o q, x) = (r \o q) \o <<x>>
  BY <1>1, AppendIsConcat
<1>3. (r \o q) \o <<x>> = r \o (q \o <<x>>)
  BY <1>1, ConcatAssociative
<1> QED
  BY <1>1, <1>2, <1>3, Zenon

\* A step of the connections changes no stream.
LEMMA ProxyIdle ==
  ASSUME ProxyInv, ProxyTypes', UNCHANGED <<ppc, chunks, held, lost>>,
         \A c \in Clients : Stream(c)' = Stream(c)
  PROVE  ProxyInv'
<1>1. HubHeld' /\ Busy' = Busy
  BY DEF ProxyInv, HubHeld, Busy
<1>2. \A c \in Clients : Given(c)' = Given(c) /\ Increasing(Stream(c))'
  BY DEF ProxyInv, Given, Increasing, Range
<1>3. GivenBefore'
  BY <1>1, <1>2 DEF ProxyInv, GivenBefore
<1> QED
  BY <1>1, <1>2, <1>3 DEF ProxyInv, Notice
\* A chunk, or the notice, is queued or lost.
LEMMA ProxySendStep ==
  ASSUME ProxyTypes, held \in Clients, NEW n \in 1 .. Notice, ProxySend(n)
  PROVE  /\ queue' \in [Clients -> Seq(1 .. Notice)] /\ lost' \subseteq 1 .. Notice
         /\ \A c \in Clients \ {held} : Stream(c)' = Stream(c)
         /\ \/ Stream(held)' = Append(Stream(held), n) /\ lost' = lost
            \/ Stream(held)' = Stream(held) /\ lost' = lost \cup {n}
<1>1. queue \in [Clients -> Seq(1 .. Notice)] /\ UNCHANGED <<recv, held>>
  BY DEF ProxyTypes, ProxySend, clientVars
<1>2. CASE life[held] = "open" /\ Len(queue[held]) < WriteQueue
  <2>1. queue' = [queue EXCEPT ![held] = Append(@, n)] /\ lost' = lost
    BY <1>2 DEF ProxySend
  <2>2. Append(queue[held], n) \in Seq(1 .. Notice)
    BY <1>1
  <2>3. queue'[held] = Append(queue[held], n) /\ \A c \in Clients \ {held} : queue'[c] = queue[c]
    BY <1>1, <2>1
  <2>4. recv[held] \o Append(queue[held], n) = Append(recv[held] \o queue[held], n)
    <3>r. PICK r \in Seq(1 .. Notice) : r = recv[held]
      BY DEF ProxyTypes
    <3>q. PICK q \in Seq(1 .. Notice) : q = queue[held]
      BY DEF ProxyTypes
    <3>1. r \o Append(q, n) = Append(r \o q, n)
      BY PutLast
    <3> QED
      BY <3>r, <3>q, <3>1, Zenon
  <2>5. Stream(held)' = Append(Stream(held), n)
    BY <1>1, <2>3, <2>4 DEF Stream
  <2> QED
    BY <1>1, <2>1, <2>2, <2>3, <2>5 DEF ProxyTypes, Stream
<1>3. CASE ~(life[held] = "open" /\ Len(queue[held]) < WriteQueue)
  <2>1. queue' = queue /\ lost' = lost \cup {n}
    BY <1>3 DEF ProxySend
  <2> QED
    BY <1>1, <2>1 DEF ProxyTypes, Stream
<1> QED
  BY <1>2, <1>3

\* What is sent goes to one client's stream, above all it has, or is lost.
LEMMA GivenStep ==
  ASSUME ProxyInv, held \in Clients, NEW n \in 1 .. Notice, ProxySend(n),
         \A c \in Clients : \A m \in Given(c) : m < n
  PROVE  /\ held' = held /\ \A c \in Clients : Increasing(Stream(c))'
         /\ \A c \in Clients \ {held} : Given(c)' = Given(c)
         /\ \/ Given(held)' = Given(held) \cup {n} /\ lost' = lost
            \/ Given(held)' = Given(held) /\ lost' = lost \cup {n}
<1>0. held' = held
  BY DEF ProxySend
<1>1. /\ \A c \in Clients \ {held} : Stream(c)' = Stream(c)
      /\ \/ Stream(held)' = Append(Stream(held), n) /\ lost' = lost
         \/ Stream(held)' = Stream(held) /\ lost' = lost \cup {n}
  BY ProxySendStep DEF ProxyInv
<1>2. \A c \in Clients \ {held} : Given(c)' = Given(c) /\ Increasing(Stream(c))'
  BY <1>1 DEF ProxyInv, Given, Range, Increasing
<1>3. CASE Stream(held)' = Append(Stream(held), n) /\ lost' = lost
  <2>1. Stream(held) \in Seq(1 .. Notice)
    BY ConcatProperties DEF ProxyInv, ProxyTypes, Stream
  <2>2. Increasing(Append(Stream(held), n))
    BY <2>1, IncreasingAppend DEF ProxyInv, Given
  <2>3. Range(Append(Stream(held), n)) = Range(Stream(held)) \cup {n}
    <3>S. PICK S : S = 1 .. Notice
      OBVIOUS
    <3>s. PICK s \in Seq(S) : s = Stream(held)
      BY <2>1, <3>S
    <3>0. n \in S
      BY <3>S
    <3>1. Range(Append(s, n)) = Range(s) \cup {n}
      BY <3>0, RangeAppend, Zenon
    <3> QED
      BY <3>s, <3>1, Zenon
  <2>4. Given(held)' = Given(held) \cup {n} /\ Increasing(Stream(held))'
    BY <1>3, <2>2, <2>3 DEF Given, Range, Increasing
  <2> QED
    BY <1>0, <1>2, <1>3, <2>4
<1>4. CASE Stream(held)' = Stream(held) /\ lost' = lost \cup {n}
  <2>1. Given(held)' = Given(held) /\ Increasing(Stream(held))'
    BY <1>4 DEF ProxyInv, Given, Range, Increasing
  <2> QED
    BY <1>0, <1>2, <1>4, <2>1
<1> QED
  BY <1>1, <1>3, <1>4

\* readLoop sends what it has read.
LEMMA SendDataStep == ASSUME ProxyInv, SendData PROVE ProxyInv'
<1>1. /\ ppc = "send" /\ ppc' \in {"read", "notice"} /\ ProxySend(chunks)
      /\ chunks \in 1 .. MaxChunks /\ MaxChunks \in Nat /\ held \in Clients
      /\ UNCHANGED <<tcp, eof, chunks, held, ph, entry, opening, life, recv>>
  BY PortProxyAssumption
     DEF SendData, Resume, ProxySend, clientVars, ProxyInv, ProxyTypes, HubHeld
<1>2. chunks \in 1 .. Notice
  BY <1>1 DEF Notice
<1>3. \A c \in Clients : \A m \in Given(c) : m < chunks
  BY <1>1 DEF ProxyInv, GivenBefore, Busy
<1>4. /\ \A c \in Clients : Increasing(Stream(c))'
      /\ \A c \in Clients \ {held} : Given(c)' = Given(c)
      /\ \/ Given(held)' = Given(held) \cup {chunks} /\ lost' = lost
         \/ Given(held)' = Given(held) /\ lost' = lost \cup {chunks}
  BY <1>1, <1>2, <1>3, GivenStep
<1>5. ProxyTypes' /\ HubHeld'
  <2>1. queue' \in [Clients -> Seq(1 .. Notice)] /\ lost' \subseteq 1 .. Notice
    BY <1>1, <1>2, ProxySendStep DEF ProxyInv
  <2> QED
    BY <1>1, <2>1 DEF ProxyInv, ProxyTypes, HubHeld, Notice
<1>6. Busy = {chunks} /\ Busy' = {} /\ chunks' = chunks
  BY <1>1 DEF Busy
<1>7. GivenBefore'
  BY <1>1, <1>4, <1>6 DEF ProxyInv, GivenBefore, Notice
<1>8. \A c, d \in Clients : c # d => Given(c)' \cap Given(d)' \subseteq {Notice}
  <2>1. chunks \in Int /\ \A c \in Clients : chunks \notin Given(c)
    BY <1>1, <1>3
  <2> QED
    BY <1>1, <1>4, <2>1 DEF ProxyInv, Notice
<1>9. /\ \A n \in lost' : n \in 1 .. chunks \/ n = Notice
      /\ \A n \in 1 .. chunks : n \in lost' \/ \E c \in Clients : n \in Given(c)'
  BY <1>1, <1>4, <1>6 DEF ProxyInv
<1> QED
  BY <1>4, <1>5, <1>6, <1>7, <1>8, <1>9 DEF ProxyInv, Notice

\* readLoop tells that the target is gone, after all chunks.
LEMMA SendNoticeStep == ASSUME ProxyInv, SendNotice PROVE ProxyInv'
<1>1. /\ ppc = "tell" /\ ppc' = "close" /\ ProxySend(Notice)
      /\ chunks \in 0 .. MaxChunks /\ MaxChunks \in Nat /\ held \in Clients
      /\ UNCHANGED <<tcp, eof, chunks, held, ph, entry, opening, life, recv>>
  BY PortProxyAssumption DEF SendNotice, ProxySend, clientVars, ProxyInv, ProxyTypes, HubHeld
<1>2. Notice \in 1 .. Notice
  BY <1>1 DEF Notice
<1>3. \A c \in Clients : \A m \in Given(c) : m < Notice
  BY <1>1 DEF ProxyInv, GivenBefore, Notice
<1>4. /\ \A c \in Clients : Increasing(Stream(c))'
      /\ \A c \in Clients \ {held} : Given(c)' = Given(c)
      /\ \/ Given(held)' = Given(held) \cup {Notice} /\ lost' = lost
         \/ Given(held)' = Given(held) /\ lost' = lost \cup {Notice}
  BY <1>1, <1>2, <1>3, GivenStep
<1>5. ProxyTypes' /\ HubHeld'
  <2>1. queue' \in [Clients -> Seq(1 .. Notice)] /\ lost' \subseteq 1 .. Notice
    BY <1>1, <1>2, ProxySendStep DEF ProxyInv
  <2> QED
    BY <1>1, <2>1 DEF ProxyInv, ProxyTypes, HubHeld, Notice
<1>6. Busy = {} /\ Busy' = {} /\ chunks' = chunks
  BY <1>1 DEF Busy
<1>7. GivenBefore'
  BY <1>1, <1>4, <1>6 DEF ProxyInv, GivenBefore, Notice
<1>8. \A c, d \in Clients : c # d => Given(c)' \cap Given(d)' \subseteq {Notice}
  BY <1>1, <1>4 DEF ProxyInv, Notice
<1>9. /\ \A n \in lost' : n \in 1 .. chunks \/ n = Notice
      /\ \A n \in 1 .. chunks : n \in lost' \/ \E c \in Clients : n \in Given(c)'
  BY <1>1, <1>4, <1>6 DEF ProxyInv
<1> QED
  BY <1>4, <1>5, <1>6, <1>7, <1>8, <1>9 DEF ProxyInv, Notice
\* The other steps of readLoop send nothing.
LEMMA LoopStep ==
  ASSUME ProxyInv, ProxyRead \/ ProxyReadFails \/ ProxyLook \/ LookForNotice \/ LoopCloses
  PROVE  ProxyInv'
<1>0. /\ MaxChunks \in Nat /\ chunks \in 0 .. MaxChunks
      /\ UNCHANGED <<ph, entry, opening, life, recv, queue>>
  BY PortProxyAssumption DEF ProxyInv, ProxyTypes, ProxyRead, ProxyReadFails, ProxyLook,
    LookForNotice, LoopCloses, clientVars
<1>1. \A c \in Clients : Given(c)' = Given(c) /\ Increasing(Stream(c))'
  BY <1>0 DEF ProxyInv, Given, Stream, Increasing, Range
<1>2. CASE ProxyRead
  <2>0. /\ ppc = "read" /\ ppc' = "look" /\ chunks' = chunks + 1 /\ chunks' \in 1 .. MaxChunks
        /\ UNCHANGED <<held, lost>>
    BY <1>0, <1>2 DEF ProxyRead
  <2>1. eof' \in BOOLEAN
    BY <1>2, Zenon DEF ProxyRead
  <2>2. ProxyTypes' /\ HubHeld'
    BY <1>0, <2>0, <2>1 DEF ProxyInv, ProxyTypes, HubHeld, Notice
  <2>3. Busy = {} /\ Busy' = {chunks + 1}
    BY <2>0 DEF Busy
  <2>4. GivenBefore'
    BY <1>0, <1>1, <2>0, <2>3 DEF ProxyInv, GivenBefore, Notice
  <2>5. \A n \in 1 .. (chunks + 1) : n \in 1 .. chunks \/ n = chunks + 1
    BY <1>0
  <2>6. \A n \in lost' : n \in 1 .. chunks' \/ n = Notice
    BY <1>0, <2>0 DEF ProxyInv, Notice
  <2> QED
    BY <1>1, <2>0, <2>2, <2>3, <2>4, <2>5, <2>6 DEF ProxyInv, Notice
<1>3. CASE ProxyLook
  <2>0. /\ ppc = "look" /\ held' = ph /\ UNCHANGED <<chunks, eof>>
        /\ \/ ph # NoClient /\ ppc' = "send" /\ lost' = lost
           \/ ph = NoClient /\ ppc' \in {"read", "notice"} /\ lost' = lost \cup {chunks}
    BY <1>3 DEF ProxyLook, Resume
  <2>1. chunks \in 1 .. MaxChunks /\ chunks \in 1 .. Notice
    BY <1>0, <2>0 DEF ProxyInv, HubHeld, Notice
  <2>2. ProxyTypes' /\ HubHeld'
    BY <1>0, <2>0, <2>1 DEF ProxyInv, ProxyTypes, HubHeld, Notice
  <2>3. Busy = {chunks} /\ Busy' = IF ph = NoClient THEN {} ELSE {chunks}
    BY <2>0 DEF Busy
  <2>4. GivenBefore'
    BY <1>1, <2>0, <2>3 DEF ProxyInv, GivenBefore, Notice
  <2> QED
    BY <1>1, <2>0, <2>1, <2>2, <2>3, <2>4 DEF ProxyInv, Notice
<1>4. CASE ProxyReadFails \/ LookForNotice \/ LoopCloses
  <2>0. /\ \/ ppc = "read" /\ ppc' = "notice" /\ held' = held
           \/ ppc = "notice" /\ ppc' = "tell" /\ held' = ph /\ ph # NoClient
           \/ ppc = "notice" /\ ppc' = "close" /\ held' = ph
           \/ ppc = "close" /\ ppc' = "done" /\ held' = held
        /\ UNCHANGED <<chunks, lost>>
    BY <1>4 DEF ProxyReadFails, LookForNotice, LoopCloses
  <2>1. eof' \in BOOLEAN
    BY <1>4, Zenon DEF ProxyInv, ProxyTypes, ProxyReadFails, LookForNotice, LoopCloses
  <2>2. ProxyTypes' /\ HubHeld'
    BY <1>0, <2>0, <2>1 DEF ProxyInv, ProxyTypes, HubHeld, Notice
  <2>3. Busy = {} /\ Busy' = {}
    BY <2>0 DEF Busy
  <2>4. GivenBefore'
    BY <1>1, <2>0, <2>3 DEF ProxyInv, GivenBefore, Notice
  <2> QED
    BY <1>1, <2>0, <2>2, <2>3, <2>4 DEF ProxyInv, Notice
<1> QED
  BY <1>2, <1>3, <1>4

\* Connections that come, go and replace one another move no chunk to another.
LEMMA NextProxyInv == ProxyInv /\ [ProxyNext]_proxyVars => ProxyInv'
<1> SUFFICES ASSUME ProxyInv, [ProxyNext]_proxyVars PROVE ProxyInv'
  OBVIOUS
<1>1. CASE readLoop
  BY <1>1, SendDataStep, SendNoticeStep, LoopStep DEF readLoop
<1>2. ASSUME NEW c \in Clients, HubWrites(c) PROVE ProxyInv'
  <2>0. /\ recv'[c] = Append(recv[c], Head(queue[c])) /\ queue'[c] = Tail(queue[c])
        /\ \A d \in Clients \ {c} : recv'[d] = recv[d] /\ queue'[d] = queue[d]
        /\ queue[c] # << >>
        /\ UNCHANGED <<ppc, chunks, held, lost, eof, ph, opening>>
    BY <1>2 DEF HubWrites, loopVars, ProxyInv, ProxyTypes
  <2>S. PICK S : S = 1 .. Notice
    OBVIOUS
  <2>r. PICK r \in Seq(S) : r = recv[c]
    BY <2>S DEF ProxyInv, ProxyTypes
  <2>q. PICK q \in Seq(S) : q = queue[c]
    BY <2>S DEF ProxyInv, ProxyTypes
  <2>n. q # << >>
    BY <2>0, <2>q
  <2>1. /\ Append(r, Head(q)) \o Tail(q) = r \o q
        /\ Append(r, Head(q)) \in Seq(S) /\ Tail(q) \in Seq(S)
    BY <2>n, PassHead, Zenon
  <2>2. recv' \in [Clients -> Seq(1 .. Notice)] /\ queue' \in [Clients -> Seq(1 .. Notice)]
    BY <1>2, <2>1, <2>S, <2>r, <2>q DEF HubWrites, ProxyInv, ProxyTypes
  <2>3. ProxyTypes'
    BY <2>0, <2>2 DEF ProxyInv, ProxyTypes, Notice
  <2>4. Stream(c)' = Stream(c)
    BY <2>0, <2>1, <2>r, <2>q, Zenon DEF Stream
  <2>5. \A d \in Clients : Stream(d)' = Stream(d)
    BY <2>0, <2>4 DEF Stream
  <2> QED
    BY <2>0, <2>3, <2>5, ProxyIdle
<1>3. ASSUME UNCHANGED <<ppc, chunks, held, lost, eof, queue, recv>>,
             ph' \in Clients \cup {NoClient}, opening' \subseteq Clients
      PROVE  ProxyInv'
  <2>1. ProxyTypes'
    BY <1>3 DEF ProxyInv, ProxyTypes, Notice
  <2>2. \A d \in Clients : Stream(d)' = Stream(d)
    BY <1>3 DEF Stream
  <2> QED
    BY <1>3, <2>1, <2>2, ProxyIdle
<1>4. CASE TargetEnds \/ CloseProxy \/ RemoveProxy \/ UNCHANGED proxyVars
  BY <1>3, <1>4 DEF TargetEnds, CloseProxy, RemoveProxy, proxyVars, loopVars, clientVars,
    ProxyInv, ProxyTypes
<1>5. ASSUME NEW c \in Clients,
             \/ ClientConnects(c) \/ OpenProxy(c) \/ AttachProxy(c) \/ ClientGoes(c)
             \/ DetachProxies(c)
      PROVE  ProxyInv'
  BY <1>3, <1>5 DEF ClientConnects, OpenProxy, AttachProxy, ClientGoes, DetachProxies, loopVars,
    ProxyInv, ProxyTypes
<1> QED
  BY <1>1, <1>2, <1>4, <1>5 DEF ProxyNext

\* What the target of a TCP proxy sends goes to one connection each, in order and
\* before the notice of its end, or there was no client or no room for it; however
\* OpenProxy, reconnects and teardowns replace ps.h between readLoop's look at it
\* and its Send.
THEOREM ChunksGoOnce == ProxyInit /\ [][ProxyNext]_proxyVars => []ChunksOnce
<1>1. ProxyInit => ProxyInv
  <2> SUFFICES ASSUME ProxyInit PROVE ProxyInv
    OBVIOUS
  <2>1. << >> \o << >> = << >> /\ Len(<< >>) = 0 /\ DOMAIN << >> = {} /\ << >> \in Seq(1 .. Notice)
    OBVIOUS
  <2>2. \A c \in Clients : Stream(c) = << >> /\ Given(c) = {} /\ Increasing(Stream(c))
    BY <2>1 DEF ProxyInit, Stream, Given, Range, Increasing
  <2>3. ProxyTypes
    <3>1. chunks \in 0 .. MaxChunks /\ ph \in Clients /\ held = NoClient
      BY PortProxyAssumption DEF ProxyInit
    <3>2. eof \in BOOLEAN /\ lost = {} /\ opening = {} /\ ppc = "read"
      BY Zenon DEF ProxyInit
    <3>3. queue \in [Clients -> Seq(1 .. Notice)] /\ recv \in [Clients -> Seq(1 .. Notice)]
      BY <2>1 DEF ProxyInit
    <3> QED
      BY <3>1, <3>2, <3>3 DEF ProxyTypes
  <2> QED
    BY <2>2, <2>3 DEF ProxyInit, ProxyInv, HubHeld, GivenBefore, Busy
<1>2. ProxyInv => ChunksOnce
  <2> SUFFICES ASSUME ProxyInv PROVE ChunksOnce
    OBVIOUS
  <2> DEFINE given == [c \in Clients |-> Range(Stream(c)) \ {Notice}]
  <2>1. \A c \in Clients : \A i \in 2 .. Len(Stream(c)) : Stream(c)[i - 1] < Stream(c)[i]
    BY DEF ProxyInv, Increasing
  <2>2. \A c, d \in Clients : c # d => given[c] \cap given[d] = {}
    BY DEF ProxyInv, Given
  <2>3. 1 .. chunks = Busy \cup (lost \ {Notice}) \cup UNION {given[c] : c \in Clients}
    <3>1. MaxChunks \in Nat /\ chunks \in 0 .. MaxChunks /\ Notice \notin 1 .. chunks
          /\ Busy \subseteq 1 .. chunks
      BY PortProxyAssumption DEF ProxyInv, ProxyTypes, HubHeld, Busy, Notice
    <3>2. \A n : n \in UNION {given[c] : c \in Clients}
                   <=> \E c \in Clients : n \in Given(c) /\ n # Notice
      BY DEF Given
    <3>3. \A c \in Clients : \A n \in Given(c) : n # Notice => n \in 1 .. chunks
      BY DEF ProxyInv, GivenBefore
    <3>u. PICK u : u = UNION {given[c] : c \in Clients}
      OBVIOUS
    <3>4. u \subseteq 1 .. chunks
      BY <3>2, <3>3, <3>u
    <3>5. lost \ {Notice} \subseteq 1 .. chunks
      BY DEF ProxyInv
    <3>6. \A n \in 1 .. chunks : n \in Busy \/ n \in lost \/ n \in u
      BY <3>1, <3>2, <3>u DEF ProxyInv
    <3>7. 1 .. chunks = Busy \cup (lost \ {Notice}) \cup u
      BY <3>1, <3>4, <3>5, <3>6
    <3> QED
      BY <3>u, <3>7
  <2> QED
    BY <2>1, <2>2, <2>3 DEF ChunksOnce, Busy
<1> QED
  BY <1>1, <1>2, NextProxyInv, PTL
-----------------------------------------------------------------------------
(* The relay of a WebSocket *)

\* All that has come from s, in the order of its way to the other side.
Relayed(s) == got[Other(s)] \o Unread(s)

Numbered(b) == \A i \in DOMAIN b : b[i] = i

RelayTypes ==
  /\ in \in [Sides -> Seq(Nat)] /\ got \in [Sides -> Seq(Nat)] /\ brBuf \in Seq(Nat)

\* The HTTP server's buffer is handed over once, when the relay begins.
HandedOver == hpc \notin {"relay", "done"} => brBuf = << >>

RelayInv == RelayTypes /\ HandedOver /\ \A s \in Sides : Numbered(Relayed(s))

\* Two sides, each the other of the other.
LEMMA TwoSides ==
  /\ Sides = {"browser", "app"}
  /\ Other("browser") = "app" /\ Other("app") = "browser"
BY DEF Sides, Other

\* What is unread begins with what is first unread.
LEMMA HeadOfTwo ==
  ASSUME NEW S, NEW q \in Seq(S), NEW r \in Seq(S), q # << >>
  PROVE  Head(q \o r) = Head(q) /\ Tail(q \o r) = Tail(q) \o r
<1>1. Head(q) \in S /\ Tail(q) \in Seq(S) /\ <<Head(q)>> \in Seq(S)
  OBVIOUS
<1>2. q = <<Head(q)>> \o Tail(q)
  OBVIOUS
<1>3. q \o r = <<Head(q)>> \o (Tail(q) \o r)
  <2>1. (<<Head(q)>> \o Tail(q)) \o r = <<Head(q)>> \o (Tail(q) \o r)
    BY <1>1, ConcatAssociative
  <2> QED
    BY <1>2, <2>1, Zenon
<1>4. \A x \in S, t \in Seq(S) : Head(<<x>> \o t) = x /\ Tail(<<x>> \o t) = t
  OBVIOUS
<1>5. Tail(q) \o r \in Seq(S)
  BY <1>1, ConcatProperties
<1> QED
  BY <1>1, <1>3, <1>4, <1>5, Zenon

\* The types of what has come from each side.
LEMMA RelayedType ==
  ASSUME RelayTypes
  PROVE  /\ Unread("browser") = brBuf \o in["browser"] /\ Unread("app") = in["app"]
         /\ \A s \in Sides : /\ Unread(s) \in Seq(Nat) /\ got[Other(s)] \in Seq(Nat)
                             /\ Relayed(s) \in Seq(Nat)
<1>1. /\ in["browser"] \in Seq(Nat) /\ in["app"] \in Seq(Nat)
      /\ got["browser"] \in Seq(Nat) /\ got["app"] \in Seq(Nat) /\ brBuf \in Seq(Nat)
  BY TwoSides DEF RelayTypes
<1>2. Unread("browser") = brBuf \o in["browser"]
  BY DEF Unread
<1>3. Unread("app") = in["app"]
  BY <1>1, ConcatEmptySeq DEF Unread
<1>4. Unread("browser") \in Seq(Nat)
  BY <1>1, <1>2, ConcatProperties
<1>5. /\ got["app"] \o Unread("browser") \in Seq(Nat)
      /\ got["browser"] \o Unread("app") \in Seq(Nat)
  BY <1>1, <1>3, <1>4, ConcatProperties
<1> QED
  BY <1>1, <1>2, <1>3, <1>4, <1>5, TwoSides DEF Relayed
\* The peer of s sends its next byte.
LEMMA PeerSendsStep == ASSUME RelayInv, NEW s \in Sides, PeerSends(s) PROVE RelayInv'
<1>n. PICK n : n = Len(Relayed(s))
  OBVIOUS
<1>0. /\ in' = [in EXCEPT ![s] = Append(@, n + 1)]
      /\ UNCHANGED <<hpc, got, brBuf>>
  BY <1>n DEF PeerSends, Relayed
<1>1. RelayTypes /\ RelayTypes' /\ n \in Nat
  <2>1. RelayTypes /\ n \in Nat
    BY <1>n, RelayedType DEF RelayInv
  <2>2. Append(in[s], n + 1) \in Seq(Nat)
    BY <2>1 DEF RelayTypes
  <2>3. in' \in [Sides -> Seq(Nat)]
    BY <1>0, <2>1, <2>2 DEF RelayTypes
  <2> QED
    BY <1>0, <2>1, <2>3 DEF RelayTypes
<1>2. Relayed(s)' = Append(Relayed(s), n + 1)
  <2>1. in'[s] = Append(in[s], n + 1)
    BY <1>0, <1>1 DEF RelayTypes
  <2>2. Unread(s)' = Append(Unread(s), n + 1)
    <3>b. PICK b \in Seq(Nat) : b = IF s = "browser" THEN brBuf ELSE << >>
      <4>1. << >> \in Seq(Nat) /\ brBuf \in Seq(Nat)
        BY <1>1, EmptySeq DEF RelayTypes
      <4> QED
        BY <4>1, Zenon
    <3>q. PICK q \in Seq(Nat) : q = in[s]
      BY <1>1 DEF RelayTypes
    <3>m. PICK m \in Nat : m = n + 1
      BY <1>1
    <3>1. b \o Append(q, m) = Append(b \o q, m)
      BY PutLast
    <3>2. Unread(s)' = b \o Append(q, m) /\ Unread(s) = b \o q
      BY <1>0, <2>1, <3>b, <3>q, <3>m DEF Unread
    <3> QED
      BY <3>1, <3>2, <3>m, Zenon
  <2>3. got[Other(s)] \o Append(Unread(s), n + 1) = Append(got[Other(s)] \o Unread(s), n + 1)
    <3>r. PICK r \in Seq(Nat) : r = got[Other(s)]
      BY <1>1, RelayedType
    <3>q. PICK q \in Seq(Nat) : q = Unread(s)
      BY <1>1, RelayedType
    <3>m. PICK m \in Nat : m = n + 1
      BY <1>1
    <3>1. r \o Append(q, m) = Append(r \o q, m)
      BY PutLast
    <3> QED
      BY <3>1, <3>r, <3>q, <3>m, Zenon
  <2> QED
    BY <1>0, <2>2, <2>3 DEF Relayed
<1>3. \A u \in Sides \ {s} : Relayed(u)' = Relayed(u)
  BY <1>0, <1>1 DEF Relayed, Unread, RelayTypes
<1>4. Numbered(Append(Relayed(s), n + 1))
  <2>r. PICK r \in Seq(Nat) : r = Relayed(s)
    BY <1>1, RelayedType
  <2>1. Numbered(r) /\ n = Len(r)
    BY <1>n, <2>r DEF RelayInv
  <2>2. Numbered(Append(r, n + 1))
    BY <1>1, <2>1 DEF Numbered
  <2> QED
    BY <2>r, <2>2
<1>5. \A u \in Sides : Numbered(Relayed(u))'
  BY <1>2, <1>3, <1>4 DEF RelayInv, Numbered
<1> QED
  BY <1>0, <1>1, <1>5 DEF RelayInv, HandedOver

\* A step after which the same bytes have come from each side.
LEMMA RelaySame ==
  ASSUME RelayInv, RelayTypes', HandedOver', \A s \in Sides : Relayed(s)' = Relayed(s)
  PROVE  RelayInv'
BY DEF RelayInv, Numbered

\* The buffer is handed over with the first unread bytes in it.
LEMMA HijackStep == ASSUME RelayInv, Hijack PROVE RelayInv'
<1>1. hpc = "hijack" /\ hpc' = "relay" /\ got' = got /\ brBuf = << >> /\ RelayTypes
  BY DEF Hijack, Goes, RelayInv, HandedOver
<1>q. PICK q \in Seq(Nat) : q = in["browser"]
  BY <1>1, TwoSides DEF RelayTypes
<1>2. PICK n \in 0 .. Len(q) :
        /\ brBuf' = SubSeq(q, 1, n)
        /\ in' = [in EXCEPT !["browser"] = SubSeq(q, n + 1, Len(q))]
  BY <1>q DEF Hijack
<1>3. /\ brBuf' \in Seq(Nat) /\ SubSeq(q, n + 1, Len(q)) \in Seq(Nat)
      /\ SubSeq(q, 1, n) \o SubSeq(q, n + 1, Len(q)) = q
  <2>1. Len(q) \in Nat /\ n \in Nat /\ n <= Len(q)
    OBVIOUS
  <2>2. SubSeq(q, 1, n) \in Seq(Nat) /\ SubSeq(q, n + 1, Len(q)) \in Seq(Nat)
    BY <2>1
  <2>3. SubSeq(q, 1, n) \o SubSeq(q, n + 1, Len(q)) = SubSeq(q, 1, Len(q))
    <3>1. /\ 1 \in 1 .. Len(q) + 1 /\ n \in (1 - 1) .. Len(q)
          /\ Len(q) \in n .. Len(q)
      BY <2>1
    <3> QED
      BY <3>1, ConcatAdjacentSubSeq, Zenon
  <2>4. SubSeq(q, 1, Len(q)) = q
    BY SubSeqFull
  <2> QED
    BY <1>2, <2>2, <2>3, <2>4
<1>4. RelayTypes'
  BY <1>1, <1>2, <1>3, TwoSides DEF RelayTypes
<1>5. Unread("browser")' = q /\ Unread("browser") = q
  <2>1. in'["browser"] = SubSeq(q, n + 1, Len(q))
    BY <1>1, <1>2, TwoSides DEF RelayTypes
  <2>2. << >> \o q = q
    BY ConcatEmptySeq
  <2> QED
    BY <1>1, <1>2, <1>3, <1>q, <2>1, <2>2 DEF Unread
<1>6. Unread("app")' = Unread("app")
  BY <1>1, <1>2, TwoSides DEF Unread, RelayTypes
<1> QED
  BY <1>1, <1>4, <1>5, <1>6, TwoSides, RelaySame DEF Relayed, HandedOver

\* io.Copy passes on the first byte that is unread.
LEMMA CopyStep == ASSUME RelayInv, NEW s \in Sides, Copy(s) PROVE RelayInv'
<1>1. RelayTypes /\ Unread(s) # << >> /\ hpc' = hpc
  BY DEF Copy, RelayInv
<1>g. PICK g \in Seq(Nat) : g = got[Other(s)]
  BY <1>1, RelayedType
<1>u. PICK u \in Seq(Nat) : u = Unread(s)
  BY <1>1, RelayedType
<1>2. /\ Append(g, Head(u)) \o Tail(u) = g \o u
      /\ Append(g, Head(u)) \in Seq(Nat) /\ Tail(u) \in Seq(Nat)
  <2>1. u # << >>
    BY <1>1, <1>u
  <2> QED
    BY <2>1, PassHead, Zenon
<1>3. /\ got' = [got EXCEPT ![Other(s)] = Append(g, Head(u))]
      /\ got'[Other(s)] = Append(g, Head(u))
      /\ \A t \in Sides \ {s} : got'[Other(t)] = got[Other(t)]
  BY <1>1, <1>g, <1>u, TwoSides DEF Copy, RelayTypes
<1>4. got' \in [Sides -> Seq(Nat)]
  BY <1>1, <1>2, <1>3 DEF RelayTypes
<1>5. /\ in' \in [Sides -> Seq(Nat)] /\ brBuf' \in Seq(Nat) /\ (brBuf = << >> => brBuf' = << >>)
      /\ Unread(s)' = Tail(u)
      /\ \A t \in Sides \ {s} : Unread(t)' = Unread(t)
  <2>1. CASE s = "browser" /\ brBuf # << >>
    <3>1. brBuf' = Tail(brBuf) /\ in' = in
      BY <2>1 DEF Copy
    <3>b. PICK b \in Seq(Nat) : b = brBuf
      BY <1>1 DEF RelayTypes
    <3>q. PICK q \in Seq(Nat) : q = in["browser"]
      BY <1>1, TwoSides DEF RelayTypes
    <3>2. b # << >> /\ u = b \o q
      BY <1>u, <2>1, <3>b, <3>q DEF Unread
    <3>3. Tail(b \o q) = Tail(b) \o q
      BY <3>2, HeadOfTwo, Zenon
    <3>4. Tail(b) \in Seq(Nat)
      BY <3>2
    <3>5. Unread(s)' = Tail(b) \o q
      BY <2>1, <3>1, <3>b, <3>q DEF Unread
    <3>6. Unread(s)' = Tail(u)
      BY <3>2, <3>3, <3>5, Zenon
    <3> QED
      BY <1>1, <2>1, <3>1, <3>4, <3>6, <3>b, TwoSides DEF RelayTypes, Unread
  <2>2. CASE ~(s = "browser" /\ brBuf # << >>)
    <3>1. brBuf' = brBuf /\ in' = [in EXCEPT ![s] = Tail(@)]
      BY <2>2 DEF Copy
    <3>q. PICK q \in Seq(Nat) : q = in[s]
      BY <1>1 DEF RelayTypes
    <3>2. << >> \o q = q
      BY ConcatEmptySeq
    <3>3. u = q /\ q # << >>
      BY <1>1, <1>u, <2>2, <3>q, <3>2 DEF Unread
    <3>4. Tail(q) \in Seq(Nat) /\ << >> \o Tail(q) = Tail(q)
      BY <3>3, ConcatEmptySeq
    <3>5. in'[s] = Tail(q) /\ in' \in [Sides -> Seq(Nat)]
      BY <1>1, <3>1, <3>q, <3>4 DEF RelayTypes
    <3>6. Unread(s)' = Tail(u)
      BY <2>2, <3>1, <3>3, <3>4, <3>5 DEF Unread
    <3>7. \A t \in Sides \ {s} : Unread(t)' = Unread(t)
      BY <1>1, <3>1 DEF RelayTypes, Unread
    <3> QED
      BY <1>1, <3>1, <3>5, <3>6, <3>7 DEF RelayTypes
  <2> QED
    BY <2>1, <2>2
<1>6. \A t \in Sides : Relayed(t)' = Relayed(t)
  <2>1. Relayed(s)' = Relayed(s)
    BY <1>2, <1>3, <1>5, <1>g, <1>u, Zenon DEF Relayed
  <2> QED
    BY <1>3, <1>5, <2>1 DEF Relayed
<1>7. RelayTypes' /\ HandedOver'
  BY <1>1, <1>4, <1>5 DEF RelayTypes, RelayInv, HandedOver
<1> QED
  BY <1>6, <1>7, RelaySame
\* Every step of the handler, the peers and the two copies.
LEMMA NextRelayInv == RelayInv /\ [HTTPNext]_httpVars => RelayInv'
<1> SUFFICES ASSUME RelayInv, [HTTPNext]_httpVars PROVE RelayInv'
  OBVIOUS
<1>1. ASSUME UNCHANGED bytesVars, hpc \in {"relay", "done"} => hpc' \in {"relay", "done"}
      PROVE  RelayInv'
  <2>1. RelayTypes' /\ \A s \in Sides : Relayed(s)' = Relayed(s)
    BY <1>1 DEF bytesVars, RelayInv, RelayTypes, Relayed, Unread
  <2>2. HandedOver'
    BY <1>1 DEF bytesVars, RelayInv, HandedOver
  <2> QED
    BY <2>1, <2>2, RelaySame
<1>2. ASSUME NEW r \in Requests, Request(r) PROVE RelayInv'
  BY <1>1, <1>2 DEF Request, Goes
<1>3. CASE Unauthorized \/ BadPath \/ Forward \/ ForwardFails \/ Dial \/ DialFails
  BY <1>1, <1>3 DEF Unauthorized, BadPath, Forward, ForwardFails, Dial, DialFails, Goes, relayVars
<1>4. ASSUME NEW a \in Answers, Respond(a) PROVE RelayInv'
  BY <1>1, <1>4 DEF Respond, Goes, relayVars
<1>5. CASE WriteRequest \/ WriteRequestFails \/ BadUpstreamRequest \/ HijackFails \/ RelayReturns
  BY <1>1, <1>5 DEF WriteRequest, WriteRequestFails, BadUpstreamRequest, HijackFails, RelayReturns, Goes, relayVars
<1>6. ASSUME NEW s \in Sides, PeerEnds(s) \/ PeerStalls(s) \/ CopyEnds(s) PROVE RelayInv'
  BY <1>1, <1>6 DEF PeerEnds, PeerStalls, CopyEnds, CopyReturns
<1>7. CASE UNCHANGED httpVars
  BY <1>1, <1>7 DEF httpVars, relayVars
<1> QED
  BY <1>2, <1>3, <1>4, <1>5, <1>6, <1>7, PeerSendsStep, HijackStep, CopyStep DEF HTTPNext

\* The relay of a WebSocket passes on what each side has sent, from the first byte
\* and in order, for any number of bytes, wherever the HTTP server's read-ahead ends
\* as the connection is hijacked (proxyWebSocket).
THEOREM RelayDelivers == HTTPInit /\ [][HTTPNext]_httpVars => []RelayFaithful
<1>1. HTTPInit => RelayInv
  <2> SUFFICES ASSUME HTTPInit PROVE RelayInv
    OBVIOUS
  <2>1. << >> \in Seq(Nat) /\ << >> \o << >> = << >> /\ DOMAIN << >> = {}
    OBVIOUS
  <2>2. RelayTypes
    BY <2>1 DEF HTTPInit, RelayTypes
  <2>3. \A s \in Sides : Relayed(s) = << >>
    BY <2>1, TwoSides DEF HTTPInit, Relayed, Unread
  <2> QED
    BY <2>1, <2>2, <2>3 DEF HTTPInit, RelayInv, HandedOver, Numbered
<1>2. RelayInv => RelayFaithful
  <2> SUFFICES ASSUME RelayInv, NEW s \in Sides
               PROVE  Relayed(s) = [i \in DOMAIN Relayed(s) |-> i]
    BY DEF RelayFaithful, Relayed
  <2>r. PICK r \in Seq(Nat) : r = Relayed(s)
    BY RelayedType DEF RelayInv
  <2>1. r = [i \in DOMAIN r |-> r[i]] /\ \A i \in DOMAIN r : r[i] = i
    BY <2>r DEF RelayInv, Numbered
  <2> QED
    BY <2>r, <2>1
<1> QED
  BY <1>1, <1>2, NextRelayInv, PTL

-----------------------------------------------------------------------------
(* Induction, in a form that can be cited: the theorems of the library have  *)
(* an operator for a parameter, those here a set.                            *)

\* A set of natural numbers that is not empty has a least element.
LEMMA LeastNatural ==
  ASSUME NEW T \in SUBSET Nat, T # {}
  PROVE  \E m \in T : \A k \in T : m <= k
<1> DEFINE R == OpToRel(<, Nat)
<1>1. IsWellFoundedOn(R, Nat)
  BY NatLessThanWellFounded
<1>2. \A x, y \in Nat : y < x => <<y, x>> \in R
  BY DEF OpToRel
<1> HIDE DEF R
<1>3. PICK m \in T : \A k \in T : <<k, m>> \notin R
  BY <1>1, WFMin
<1>4. ASSUME NEW k \in T PROVE m <= k
  <2>1. m \in Nat /\ k \in Nat
    OBVIOUS
  <2>2. ~(k < m)
    BY <1>2, <1>3, <2>1
  <2> QED
    BY <2>1, <2>2
<1> QED
  BY <1>4

\* Induction over the natural numbers, stated of a set so that it can be cited.
LEMMA NaturalsIn ==
  ASSUME NEW T, 0 \in T, \A n \in Nat : n \in T => n + 1 \in T
  PROVE  Nat \subseteq T
<1> DEFINE U == Nat \ T
<1>1. SUFFICES ASSUME U # {} PROVE FALSE
  OBVIOUS
<1>2. PICK m \in U : \A k \in U : m <= k
  BY <1>1, LeastNatural
<1>3. m # 0 /\ m - 1 \in Nat /\ m - 1 \notin U
  BY <1>2
<1> QED
  BY <1>3

\* FiniteSetsExt!Min
LEMMA LeastOf ==
  ASSUME NEW I \in SUBSET Nat, I # {}
  PROVE  Min(I) \in I /\ \A k \in I : Min(I) <= k
<1>1. \E m \in I : \A k \in I : m <= k
  BY LeastNatural
<1> QED
  BY <1>1 DEF Min

-----------------------------------------------------------------------------
(* The HTTP proxy: what is left out of a list.  The loop that computes it is *)
(* a recursive function, which is a CHOOSE: that there is one, that it is    *)
(* the one that is meant, and what it has done after n rounds are            *)
(* inductions over n.                                                        *)

\* One round of the loop of Without, from what g says of the one before.
KeptStep(g, s, X, n) ==
  IF n = 0 THEN << >> ELSE IF s[n] \in X THEN g[n - 1] ELSE Append(g[n - 1], s[n])

\* g is what the loop computes in its first m rounds.
KeptUntil(g, S, s, X, m) ==
  g \in [0 .. m -> Seq(S)] /\ \A i \in 0 .. m : g[i] = KeptStep(g, s, X, i)

\* One more round: kept = append(kept, p), or nothing.
LEMMA KeptNext ==
  ASSUME NEW S, NEW s \in Seq(S), NEW X, NEW m \in Nat, m + 1 <= Len(s), NEW g, KeptUntil(g, S, s, X, m)
  PROVE  \E h : KeptUntil(h, S, s, X, m + 1)
<1> DEFINE new == KeptStep(g, s, X, m + 1)
           h == [i \in 0 .. (m + 1) |-> IF i = m + 1 THEN new ELSE g[i]]
<1>1. m + 1 \in 1 .. Len(s) /\ s[m + 1] \in S
  BY ElementOfSeq, LenProperties
<1>2. new \in Seq(S)
  BY <1>1 DEF KeptStep, KeptUntil
<1>3. h \in [0 .. (m + 1) -> Seq(S)]
  BY <1>2 DEF KeptUntil
<1>4. \A i \in 0 .. m : h[i] = g[i]
  OBVIOUS
<1>5. h[m + 1] = new
  OBVIOUS
<1> HIDE DEF new, h
<1>6. ASSUME NEW i \in 0 .. m PROVE h[i] = KeptStep(h, s, X, i)
  <2>1. g[i] = KeptStep(g, s, X, i)
    BY DEF KeptUntil
  <2>2. i # 0 => h[i - 1] = g[i - 1]
    BY <1>4
  <2> QED
    BY <1>4, <2>1, <2>2 DEF KeptStep
<1>7. h[m + 1] = KeptStep(h, s, X, m + 1)
  BY <1>4, <1>5 DEF KeptStep, new
<1>8. \A i \in 0 .. (m + 1) : i \in 0 .. m \/ i = m + 1
  OBVIOUS
<1> QED
  BY <1>3, <1>6, <1>7, <1>8 DEF KeptUntil

\* The loop can run to the end of every list.
LEMMA KeptExists ==
  ASSUME NEW S, NEW s \in Seq(S), NEW X
  PROVE  \E g : KeptUntil(g, S, s, X, Len(s))
<1> DEFINE Reached(m) == m <= Len(s) => \E g : KeptUntil(g, S, s, X, m)
           T == {m \in Nat : Reached(m)}
<1>1. Reached(0)
  <2> DEFINE g == [i \in 0 .. 0 |-> << >>]
  <2>1. g \in [0 .. 0 -> Seq(S)]
    OBVIOUS
  <2>2. \A i \in 0 .. 0 : g[i] = KeptStep(g, s, X, i)
    BY DEF KeptStep
  <2> HIDE DEF g
  <2> QED
    BY <2>1, <2>2 DEF KeptUntil
<1>2. ASSUME NEW m \in Nat, Reached(m) PROVE Reached(m + 1)
  <2> SUFFICES ASSUME m + 1 <= Len(s) PROVE \E h : KeptUntil(h, S, s, X, m + 1)
    OBVIOUS
  <2>1. m <= Len(s)
    BY LenProperties
  <2> QED
    BY <1>2, <2>1, KeptNext
<1> HIDE DEF Reached
<1>3. 0 \in T /\ \A m \in Nat : m \in T => m + 1 \in T
  BY <1>1, <1>2
<1> HIDE DEF T
<1>4. Nat \subseteq T
  BY <1>3, NaturalsIn
<1>5. Reached(Len(s))
  BY <1>4, LenProperties DEF T
<1> QED
  BY <1>5, LenProperties DEF Reached

\* Without is what the loop of stripProxyCookie and removeCSPDirective leaves.
LEMMA WithoutLoop ==
  ASSUME NEW S, NEW s \in Seq(S), NEW X
  PROVE  \E g : Without(s, X) = g[Len(s)] /\ KeptUntil(g, S, s, X, Len(s))
<1> DEFINE Rec(g) == g = [n \in 0 .. Len(s) |-> KeptStep(g, s, X, n)]
           kept == CHOOSE g : Rec(g)
<1>1. Without(s, X) = kept[Len(s)]
  BY DEF Without, KeptStep
<1>2. PICK f : KeptUntil(f, S, s, X, Len(s))
  BY KeptExists
<1>3. Rec(f)
  BY <1>2 DEF KeptUntil
<1>4. Rec(kept)
  BY <1>3, Zenon
<1> HIDE DEF kept
<1> DEFINE Same(n) == n <= Len(s) => kept[n] = f[n]
           T == {n \in Nat : Same(n)}
<1>5. Same(0)
  <2>1. 0 \in 0 .. Len(s)
    BY LenProperties
  <2> QED
    BY <1>2, <1>4, <2>1 DEF KeptStep, KeptUntil
<1>6. ASSUME NEW n \in Nat, Same(n) PROVE Same(n + 1)
  <2> SUFFICES ASSUME n + 1 <= Len(s) PROVE kept[n + 1] = f[n + 1]
    OBVIOUS
  <2>1. n + 1 \in 0 .. Len(s) /\ n + 1 # 0 /\ n <= Len(s) /\ n + 1 - 1 = n
    BY LenProperties
  <2>2. kept[n + 1] = KeptStep(kept, s, X, n + 1)
    BY <1>4, <2>1
  <2>3. f[n + 1] = KeptStep(f, s, X, n + 1)
    BY <1>2, <2>1 DEF KeptUntil
  <2> QED
    BY <1>6, <2>1, <2>2, <2>3 DEF KeptStep
<1> HIDE DEF Same
<1>7. 0 \in T /\ \A n \in Nat : n \in T => n + 1 \in T
  BY <1>5, <1>6
<1> HIDE DEF T
<1>8. Nat \subseteq T
  BY <1>7, NaturalsIn
<1>9. kept[Len(s)] = f[Len(s)]
  BY <1>8, LenProperties DEF T, Same
<1> QED
  BY <1>1, <1>2, <1>9

\* The first n elements of s without those in X are t; place says where they are in s.
RestAt(place, t, s, X, n) ==
  /\ place \in [1 .. Len(t) -> 1 .. n]
  /\ \A j \in 1 .. n : s[j] \notin X <=> \E i \in 1 .. Len(t) : place[i] = j
  /\ \A i, j \in 1 .. Len(t) : i < j => place[i] < place[j]
  /\ \A i \in 1 .. Len(t) : t[i] = s[place[i]]

\* A round of the loop appends the next element at the next place, unless it is in X.
LEMMA RestNext ==
  ASSUME NEW S, NEW s \in Seq(S), NEW X, NEW n \in Nat, n + 1 <= Len(s),
         NEW t \in Seq(S), NEW u, u = IF s[n + 1] \in X THEN t ELSE Append(t, s[n + 1]),
         NEW place, RestAt(place, t, s, X, n)
  PROVE  \E p : RestAt(p, u, s, X, n + 1)
<1> DEFINE k == Len(t)
<1>1. k \in Nat /\ n + 1 \in 1 .. Len(s) /\ s[n + 1] \in S
  BY LenProperties, ElementOfSeq
<1>2. /\ place \in [1 .. k -> 1 .. n]
      /\ \A j \in 1 .. n : s[j] \notin X <=> \E i \in 1 .. k : place[i] = j
      /\ \A i, j \in 1 .. k : i < j => place[i] < place[j]
      /\ \A i \in 1 .. k : t[i] = s[place[i]]
  BY DEF RestAt
<1>3. \A j \in 1 .. (n + 1) : j \in 1 .. n \/ j = n + 1
  OBVIOUS
<1>4. CASE s[n + 1] \in X
  <2>1. u = t
    BY <1>4
  <2>2. place \in [1 .. k -> 1 .. (n + 1)]
    BY <1>2
  <2>3. \A i \in 1 .. k : place[i] \in 1 .. n /\ place[i] # n + 1
    BY <1>2
  <2>4. \A j \in 1 .. (n + 1) : s[j] \notin X <=> \E i \in 1 .. k : place[i] = j
    BY <1>2, <1>3, <1>4, <2>3
  <2> QED
    BY <1>2, <2>1, <2>2, <2>4 DEF RestAt
<1>5. CASE s[n + 1] \notin X
  <2> DEFINE p == [i \in 1 .. (k + 1) |-> IF i = k + 1 THEN n + 1 ELSE place[i]]
  <2>1. /\ u = Append(t, s[n + 1]) /\ Len(u) = k + 1
        /\ u[k + 1] = s[n + 1] /\ \A i \in 1 .. k : u[i] = t[i]
    BY <1>1, <1>5, AppendProperties
  <2>2. \A i \in 1 .. (k + 1) : i \in 1 .. k \/ i = k + 1
    BY <1>1
  <2>3. p \in [1 .. (k + 1) -> 1 .. (n + 1)]
    BY <1>1, <1>2, <2>2
  <2>4. /\ p[k + 1] = n + 1 /\ k + 1 \in 1 .. (k + 1)
        /\ \A i \in 1 .. k : p[i] = place[i] /\ p[i] \in 1 .. n /\ i \in 1 .. (k + 1)
    BY <1>1, <1>2
  <2> HIDE DEF p
  <2>5. ASSUME NEW j \in 1 .. (n + 1)
        PROVE  s[j] \notin X <=> \E i \in 1 .. (k + 1) : p[i] = j
    <3>1. CASE j = n + 1
      BY <1>5, <2>4, <3>1
    <3>2. CASE j \in 1 .. n
      <4>1. j # n + 1
        BY <3>2
      <4> QED
        BY <1>2, <2>2, <2>4, <3>2, <4>1
    <3> QED
      BY <1>3, <3>1, <3>2
  <2>6. ASSUME NEW i \in 1 .. (k + 1), NEW j \in 1 .. (k + 1), i < j PROVE p[i] < p[j]
    <3>1. i \in 1 .. k
      BY <1>1, <2>6
    <3> QED
      BY <1>2, <2>2, <2>4, <2>6, <3>1
  <2>7. \A i \in 1 .. (k + 1) : u[i] = s[p[i]]
    BY <1>2, <2>1, <2>2, <2>4
  <2> HIDE DEF k
  <2>8. RestAt(p, u, s, X, n + 1)
    BY <2>1, <2>3, <2>5, <2>6, <2>7 DEF RestAt
  <2> QED
    BY <2>8
<1> QED
  BY <1>4, <1>5

\* stripProxyCookie and removeCSPDirective leave out X, and nothing else.
LEMMA WithoutRest ==
  ASSUME NEW S, NEW s \in Seq(S), NEW X
  PROVE  /\ Without(s, X) \in Seq(S)
         /\ \A i \in DOMAIN Without(s, X) : Without(s, X)[i] \notin X
         /\ IsRest(Without(s, X), s, X)
<1>1. PICK g : Without(s, X) = g[Len(s)] /\ KeptUntil(g, S, s, X, Len(s))
  BY WithoutLoop
<1>2. /\ g \in [0 .. Len(s) -> Seq(S)]
      /\ \A n \in 0 .. Len(s) : g[n] = KeptStep(g, s, X, n)
  BY <1>1 DEF KeptUntil
<1>3. Len(s) \in Nat /\ DOMAIN s = 1 .. Len(s)
  BY LenProperties
<1> DEFINE Done(n) == n <= Len(s) => \E p : RestAt(p, g[n], s, X, n)
           T == {n \in Nat : Done(n)}
<1>4. Done(0)
  <2>1. g[0] = << >> /\ Len(g[0]) = 0
    BY <1>2, <1>3 DEF KeptStep
  <2>2. RestAt(<< >>, g[0], s, X, 0)
    BY <2>1 DEF RestAt
  <2> QED
    BY <2>2
<1>5. ASSUME NEW n \in Nat, Done(n) PROVE Done(n + 1)
  <2> SUFFICES ASSUME n + 1 <= Len(s) PROVE \E p : RestAt(p, g[n + 1], s, X, n + 1)
    OBVIOUS
  <2>1. n \in 0 .. Len(s) /\ n + 1 \in 0 .. Len(s) /\ n + 1 # 0 /\ n <= Len(s) /\ n + 1 - 1 = n
    BY <1>3
  <2>2. g[n] \in Seq(S)
    BY <1>2, <2>1
  <2>3. g[n + 1] = IF s[n + 1] \in X THEN g[n] ELSE Append(g[n], s[n + 1])
    <3>1. g[n + 1] = KeptStep(g, s, X, n + 1)
      BY <1>2, <2>1
    <3> QED
      BY <2>1, <3>1 DEF KeptStep
  <2>4. PICK place : RestAt(place, g[n], s, X, n)
    BY <1>5, <2>1
  <2> QED
    BY <2>2, <2>3, <2>4, RestNext
<1> HIDE DEF Done
<1>6. 0 \in T /\ \A n \in Nat : n \in T => n + 1 \in T
  BY <1>4, <1>5
<1> HIDE DEF T
<1>7. Nat \subseteq T
  BY <1>6, NaturalsIn
<1> DEFINE t == Without(s, X)
<1>8. t = g[Len(s)] /\ t \in Seq(S) /\ DOMAIN t = 1 .. Len(t)
  BY <1>1, <1>2, <1>3
<1>9. PICK place : RestAt(place, t, s, X, Len(s))
  BY <1>3, <1>7, <1>8 DEF T, Done
<1> HIDE DEF t
<1>10. place \in [DOMAIN t -> DOMAIN s] /\ \A i \in DOMAIN t : place[i] \in DOMAIN s
  BY <1>3, <1>8, <1>9 DEF RestAt
<1>11. {place[i] : i \in DOMAIN t} = {j \in DOMAIN s : s[j] \notin X}
  <2>1. \A j \in DOMAIN s : s[j] \notin X <=> \E i \in DOMAIN t : place[i] = j
    BY <1>3, <1>8, <1>9 DEF RestAt
  <2> QED
    BY <1>10, <2>1
<1>12. \A i \in DOMAIN t : t[i] = s[place[i]] /\ s[place[i]] \notin X
  <2>1. \A i \in DOMAIN t : t[i] = s[place[i]]
    BY <1>8, <1>9 DEF RestAt
  <2>2. \A i \in DOMAIN t : place[i] \in {j \in DOMAIN s : s[j] \notin X}
    BY <1>11
  <2> QED
    BY <2>1, <2>2
<1>13. \A i \in DOMAIN t : t[i] \notin X
  BY <1>12
<1>14. IsRest(t, s, X)
  BY <1>8, <1>9, <1>10, <1>11, <1>12 DEF IsRest, RestAt
<1> QED
  BY <1>8, <1>13, <1>14 DEF t

-----------------------------------------------------------------------------
(* The HTTP proxy: messages.  The handler forwards what it makes of the      *)
(* request it is at, and answers by itself or with what it makes of the      *)
(* answer to that.                                                           *)

Forwarded ==
  \/ sent = NoRequest
  \/ rq.kind = "http" /\ sent = Outgoing
  \/ rq.kind = "ws" /\ \E path : sent = Upgrading(path)

HTTPMessages ==
  /\ hpc # "idle" => rq \in Requests
  /\ hpc = "idle" => sent = NoRequest
  /\ hpc = "write" => rq.kind = "ws"
  /\ Forwarded
  /\ hpc = "forward" => rq.kind = "http" /\ sent = Outgoing
  /\ \/ \E n \in Nat \ {200} : reply = [NoReply EXCEPT !.status = n]
     \/ /\ hpc = "done" /\ sent = Outgoing
        /\ answer \in Answers /\ reply = ModifyResponse(answer, sent.path)

\* The strings; those the handler adds are named, since the provers do not know
\* that a literal is one of them.
Words == STRING \cup {Blank, "_proxy", "BASE", Port}
WordSeq == Seq(Words)

\* What the module assumes of paths, cookies and tags, for the larger set.
LEMMA PartsAreWords == Parts \subseteq WordSeq
BY SeqMonotonic DEF Parts, Words, WordSeq

\* A list of one.
LEMMA OneElement ==
  ASSUME NEW S, NEW w \in S
  PROVE  <<w>> \in Seq(S) /\ Len(<<w>>) = 1 /\ <<w>>[1] = w /\ <<w>> # << >>
OBVIOUS

\* What is forwarded: all cookies but the token, and "/" for no path.
LEMMA OutgoingType ==
  ASSUME rq \in Requests
  PROVE  /\ rq.cookies \in Seq(Cookies)
         /\ Outgoing.cookies = stripProxyCookie(rq.cookies)
         /\ \A path : Upgrading(path).cookies = RelayedCookies(rq.cookies)
         /\ Outgoing.path \in WordSeq /\ Outgoing.path # << >>
<1>1. rq \in [kind : {"http", "ws", "badpath"}, auth : {"good", "bad"}, cookies : Seq(Cookies), path : Parts]
  BY HTTPAssumption
<1>2. Outgoing.cookies = stripProxyCookie(rq.cookies)
  BY <1>1 DEF Outgoing
<1>3. Outgoing.path = IF rq.path = << >> THEN Root ELSE rq.path
  BY <1>1 DEF Outgoing, Rest
<1>4. rq.cookies \in Seq(Cookies) /\ rq.path \in Parts
  BY <1>1
<1>5. Blank \in Words
  BY DEF Words
<1>6. Root \in WordSeq /\ Root # << >>
  BY <1>5, OneElement DEF WordSeq, Root
<1>7. Outgoing.path \in WordSeq /\ Outgoing.path # << >>
  BY <1>3, <1>4, <1>6, PartsAreWords
<1>8. \A path : Upgrading(path).cookies = RelayedCookies(rq.cookies)
  BY <1>1 DEF Upgrading
<1> QED
  BY <1>2, <1>4, <1>7, <1>8

\* Every step of the handler, and every one of the relay, which leaves the messages alone.
LEMMA NextMessages == HTTPMessages /\ [HTTPNext]_httpVars => HTTPMessages'
<1> SUFFICES ASSUME HTTPMessages, [HTTPNext]_httpVars PROVE HTTPMessages'
  OBVIOUS
<1> USE DEF HTTPMessages, Goes
<1>0. UNCHANGED <<rq, sent>> => Forwarded' /\ Outgoing' = Outgoing
  <2> SUFFICES ASSUME UNCHANGED <<rq, sent>> PROVE Forwarded' /\ Outgoing' = Outgoing
    OBVIOUS
  <2>1. Outgoing' = Outgoing /\ \A path : Upgrading(path)' = Upgrading(path)
    BY DEF Outgoing, Upgrading, Rest
  <2> QED
    BY <2>1, Zenon DEF Forwarded
<1>1. ASSUME NEW r \in Requests, Request(r) PROVE HTTPMessages'
  BY <1>1 DEF Request, Forwarded
<1>2. ASSUME hpc' = "done", hpc # "idle", hpc # "done", NEW n \in Nat \ {200}, ReplyStatus(n) PROVE HTTPMessages'
  BY <1>0, <1>2 DEF ReplyStatus
<1>3. CASE Unauthorized \/ BadPath \/ ForwardFails \/ DialFails \/ WriteRequestFails \/ BadUpstreamRequest
  BY <1>2, <1>3 DEF Unauthorized, BadPath, ForwardFails, DialFails, WriteRequestFails, BadUpstreamRequest
<1>4. CASE Forward
  BY <1>4 DEF Forward, Forwarded, Outgoing, Rest
<1>5. CASE WriteRequest
  <2>1. PICK path : sent' = Upgrading(path)
    BY <1>5 DEF WriteRequest
  <2>2. /\ hpc = "write" /\ hpc' = "hijack" /\ rq' = rq /\ answer' = answer /\ reply' = reply
    BY <1>5 DEF WriteRequest
  <2>3. sent' = Upgrading(path)'
    BY <2>1, <2>2 DEF Upgrading
  <2> QED
    BY <2>2, <2>3 DEF Forwarded
<1>6. CASE Dial \/ Hijack \/ HijackFails \/ RelayReturns
  BY <1>0, <1>6 DEF Dial, Hijack, HijackFails, RelayReturns, msgVars
<1>7. ASSUME NEW a \in Answers, Respond(a) PROVE HTTPMessages'
  BY <1>0, <1>7 DEF Respond
<1>8. ASSUME UNCHANGED <<hpc, msgVars>> PROVE HTTPMessages'
  BY <1>0, <1>8 DEF msgVars
<1>9. ASSUME NEW s \in Sides, PeerSends(s) \/ PeerEnds(s) \/ PeerStalls(s) \/ Copy(s) \/ CopyEnds(s)
      PROVE  HTTPMessages'
  BY <1>8, <1>9 DEF PeerSends, PeerEnds, PeerStalls, Copy, CopyEnds, CopyReturns
<1>10. CASE UNCHANGED httpVars
  BY <1>8, <1>10 DEF httpVars
<1> QED
  BY <1>1, <1>3, <1>4, <1>5, <1>6, <1>7, <1>9, <1>10 DEF HTTPNext

\* The messages belong together as long as the handler runs, and after.
LEMMA MessagesAlways == HTTPInit /\ [][HTTPNext]_httpVars => []HTTPMessages
<1>1. HTTPInit => HTTPMessages
  <2> SUFFICES ASSUME HTTPInit PROVE HTTPMessages
    OBVIOUS
  <2>1. NoReply = [NoReply EXCEPT !.status = 0]
    BY DEF NoReply
  <2> QED
    BY <2>1 DEF HTTPInit, HTTPMessages, Forwarded
<1> QED
  BY <1>1, NextMessages, PTL

\* r.Cookies() changes neither the number of cookies nor a name.
LEMMA UnquotedType ==
  ASSUME NEW c \in Seq(Cookies)
  PROVE  Unquoted(c) \in Seq(Cookies)
<1>1. \A i \in DOMAIN c : c[i] \in Cookies
  OBVIOUS
<1>2. Unquoted(c) \in [1 .. Len(c) -> Cookies]
  BY <1>1 DEF Unquoted, Cookies, Forms
<1> QED
  BY <1>2

\* The token that opens the desktop reaches no application, by HTTP or WebSocket,
\* whatever cookies there are; the others get there in order (stripProxyCookie), with
\* an upgrade those that r.Cookies() finds, without their quotes (proxyWebSocket).
THEOREM TokenStripped == HTTPInit /\ [][HTTPNext]_httpVars => []TokenStays
<1>1. HTTPMessages => TokenStays
  <2> SUFFICES ASSUME HTTPMessages, sent # NoRequest
               PROVE  /\ \A i \in DOMAIN sent.cookies : sent.cookies[i].name # Token
                      /\ rq.kind = "http" => IsRest(sent.cookies, rq.cookies, TokenParts)
                      /\ rq.kind = "ws" =>
                           IsRest(sent.cookies, Unquoted(rq.cookies), TokenParts \cup OddParts)
    BY DEF TokenStays
  <2>1. rq \in Requests
    BY DEF HTTPMessages
  <2>2. ASSUME NEW t \in Seq(Cookies), NEW X, TokenParts \subseteq X, \A i \in DOMAIN t : t[i] \notin X
        PROVE  \A i \in DOMAIN t : t[i].name # Token
    <3>1. \A c \in Cookies : c.name = Token => c \in TokenParts
      BY DEF Cookies, TokenParts
    <3>2. \A i \in DOMAIN t : t[i] \in Cookies
      OBVIOUS
    <3> QED
      BY <2>2, <3>1, <3>2
  <2>3. CASE rq.kind = "http" /\ sent = Outgoing
    <3>1. rq.cookies \in Seq(Cookies) /\ sent.cookies = Without(rq.cookies, TokenParts)
      BY <2>1, <2>3, OutgoingType DEF stripProxyCookie
    <3>2. /\ sent.cookies \in Seq(Cookies)
          /\ \A i \in DOMAIN sent.cookies : sent.cookies[i] \notin TokenParts
          /\ IsRest(sent.cookies, rq.cookies, TokenParts)
      BY <3>1, WithoutRest
    <3>3. \A i \in DOMAIN sent.cookies : sent.cookies[i].name # Token
      BY <2>2, <3>2
    <3> QED
      BY <2>3, <3>2, <3>3
  <2>4. CASE rq.kind = "ws" /\ \E path : sent = Upgrading(path)
    <3> DEFINE X == TokenParts \cup OddParts
    <3>0. TokenParts \subseteq X
      OBVIOUS
    <3>1. /\ Unquoted(rq.cookies) \in Seq(Cookies)
          /\ sent.cookies = Without(Unquoted(rq.cookies), X)
      BY <2>1, <2>4, OutgoingType, UnquotedType DEF RelayedCookies
    <3> HIDE DEF X
    <3>2. /\ sent.cookies \in Seq(Cookies)
          /\ \A i \in DOMAIN sent.cookies : sent.cookies[i] \notin X
          /\ IsRest(sent.cookies, Unquoted(rq.cookies), X)
      BY <3>1, WithoutRest
    <3>3. \A i \in DOMAIN sent.cookies : sent.cookies[i].name # Token
      BY <2>2, <3>0, <3>2
    <3> QED
      BY <2>4, <3>2, <3>3 DEF X
  <2> QED
    BY <2>3, <2>4 DEF HTTPMessages, Forwarded
<1> QED
  BY <1>1, MessagesAlways, PTL

\* What an application sets.
SetCookieType == [ok : BOOLEAN, domain : BOOLEAN, path : Parts]

\* The types of an application's answer.
LEMMA AnswerTypes ==
  ASSUME NEW a \in Answers
  PROVE  /\ a.cookies \in Seq(SetCookieType) /\ a.csp \in Seq(WordSeq)
         /\ a.location.path \in WordSeq /\ a.location.ups \in Nat /\ a.location.abs \in BOOLEAN
         /\ a.location.host # "none" => a.location.abs
         /\ a.html \in BOOLEAN
         /\ a.body \in WordSeq /\ ~Contains(a.body, "BASE")
<1>1. /\ a.cookies \in Seq([ok : BOOLEAN, domain : BOOLEAN, path : Parts]) /\ a.csp \in Seq(Parts)
      /\ a.location \in [ok : BOOLEAN, host : {"none", "self", "other"}, abs : BOOLEAN, ups : Nat, path : Parts]
      /\ a.location.host # "none" => a.location.abs
      /\ a.html \in BOOLEAN
      /\ a.body \in Parts /\ ~Contains(a.body, "BASE")
  BY HTTPAssumption
<1>2. a.csp \in Seq(WordSeq) /\ a.body \in WordSeq
  BY <1>1, PartsAreWords, SeqMonotonic
<1>3. a.location.path \in Parts /\ a.location.ups \in Nat /\ a.location.abs \in BOOLEAN
  BY <1>1
<1> QED
  BY <1>1, <1>2, <1>3, PartsAreWords DEF SetCookieType

\* ModifyResponse, field by field.
LEMMA ModifiedFields ==
  ASSUME NEW a, NEW rest
  PROVE  /\ ModifyResponse(a, rest).cookies = [i \in DOMAIN a.cookies |-> rewriteSetCookie(a.cookies[i])]
         /\ ModifyResponse(a, rest).location = RewriteLocation(a.location, rest)
         /\ ModifyResponse(a, rest).csp = RewriteCSP(a.csp)
         /\ ModifyResponse(a, rest).frame = FALSE
         /\ ModifyResponse(a, rest).body = IF a.html THEN injectBaseHref(a.body) ELSE a.body
BY DEF ModifyResponse

-----------------------------------------------------------------------------
(* The HTTP proxy: cookie paths.  Matching is compared position by position, *)
(* the mount point being the first two.                                      *)

\* SequencesExt!IsPrefix
LEMMA IsPrefixAt ==
  ASSUME NEW S, NEW s \in Seq(S), NEW t \in Seq(S)
  PROVE  IsPrefix(s, t) <=> Len(s) <= Len(t) /\ \A i \in 1 .. Len(s) : s[i] = t[i]
<1>1. Len(s) \in Nat /\ Len(t) \in Nat /\ SubSeq(s, 1, Len(s)) = s
  BY SubSeqFull, LenProperties
<1>2. ASSUME Len(s) <= Len(t)
      PROVE  s = SubSeq(t, 1, Len(s)) <=> \A i \in 1 .. Len(s) : s[i] = t[i]
  <2>1. /\ SubSeq(t, 1, Len(s)) \in Seq(S) /\ Len(SubSeq(t, 1, Len(s))) = Len(s)
        /\ \A i \in 1 .. Len(s) : SubSeq(t, 1, Len(s))[i] = t[i]
    BY <1>1, <1>2
  <2> QED
    BY <2>1, SeqEqual
<1> QED
  BY <1>1, <1>2 DEF IsPrefix

\* The part of a cookie's path that a request's path must begin with.
DirLen(c) == IF c # << >> /\ c[Len(c)] = Blank THEN Len(c) - 1 ELSE Len(c)

\* A path that ends with "/" counts without its last, empty part.
LEMMA DirLenIs ==
  ASSUME NEW S, NEW c \in Seq(S)
  PROVE  /\ Len(c) >= 1 /\ c[Len(c)] = Blank => DirLen(c) = Len(c) - 1
         /\ Len(c) = 0 \/ c[Len(c)] # Blank => DirLen(c) = Len(c)
<1>1. Len(c) \in Nat /\ (c # << >> <=> Len(c) >= 1)
  BY LenProperties, EmptySeq
<1>2. ASSUME Len(c) >= 1, c[Len(c)] = Blank PROVE DirLen(c) = Len(c) - 1
  <2>1. c # << >> /\ c[Len(c)] = Blank
    BY <1>1, <1>2
  <2> QED
    BY <2>1 DEF DirLen
<1>3. ASSUME Len(c) = 0 \/ c[Len(c)] # Blank PROVE DirLen(c) = Len(c)
  <2>1. ~(c # << >> /\ c[Len(c)] = Blank)
    BY <1>1, <1>3
  <2> QED
    BY <2>1 DEF DirLen
<1> QED
  BY <1>2, <1>3

\* PathMatch, position by position.
LEMMA PathMatchAt ==
  ASSUME NEW S, NEW c \in Seq(S), NEW path \in Seq(S)
  PROVE  PathMatch(c, path) <=> Len(c) <= Len(path) /\ \A i \in 1 .. DirLen(c) : c[i] = path[i]
<1> DEFINE dir == IF c # << >> /\ Last(c) = Blank THEN Front(c) ELSE c
<1>1. Len(c) \in Nat /\ Len(path) \in Nat /\ (c # << >> => Len(c) >= 1)
  BY LenProperties, EmptySeq
<1>2. /\ dir \in Seq(S) /\ Len(dir) = DirLen(c) /\ DirLen(c) <= Len(c)
      /\ \A i \in 1 .. DirLen(c) : dir[i] = c[i]
  <2>1. CASE Len(c) >= 1 /\ c[Len(c)] = Blank
    <3> DEFINE n == Len(c) - 1
    <3>1. n \in Nat /\ 1 <= n + 1 /\ n <= Len(c) /\ DirLen(c) = n
      BY <1>1, <2>1, DirLenIs
    <3>2. dir = SubSeq(c, 1, n)
      BY <1>1, <2>1 DEF Last, Front
    <3> HIDE DEF n, dir
    <3>3. /\ SubSeq(c, 1, n) \in Seq(S) /\ Len(SubSeq(c, 1, n)) = n
          /\ \A i \in 1 .. n : SubSeq(c, 1, n)[i] = c[i]
      BY <1>1, <3>1
    <3> QED
      BY <3>1, <3>2, <3>3
  <2>2. CASE Len(c) = 0 \/ c[Len(c)] # Blank
    <3>1. dir = c
      BY <1>1, <2>2 DEF Last
    <3> QED
      BY <1>1, <2>2, <3>1, DirLenIs
  <2> QED
    BY <1>1, <2>1, <2>2
<1>3. PathMatch(c, path) <=> Len(path) >= Len(c) /\ IsPrefix(dir, path)
  BY DEF PathMatch
<1> HIDE DEF dir
<1>4. IsPrefix(dir, path) <=> Len(dir) <= Len(path) /\ \A i \in 1 .. Len(dir) : dir[i] = path[i]
  BY <1>2, IsPrefixAt
<1> QED
  BY <1>1, <1>2, <1>3, <1>4

\* Below the mount point everything is two positions further.
LEMMA UnderPrefix ==
  ASSUME NEW p \in WordSeq
  PROVE  /\ Prefix \o p \in WordSeq /\ Len(Prefix \o p) = Len(p) + 2
         /\ (Prefix \o p)[1] = "_proxy" /\ (Prefix \o p)[2] = Port
         /\ \A i \in 1 .. Len(p) : (Prefix \o p)[i + 2] = p[i]
         /\ Prefix \in WordSeq /\ Len(Prefix) = 2 /\ Prefix[1] = "_proxy" /\ Prefix[2] = Port
<1>1. "_proxy" \in Words /\ Port \in Words
  BY DEF Words
<1>2. Prefix \in Seq(Words) /\ Len(Prefix) = 2 /\ Prefix[1] = "_proxy" /\ Prefix[2] = Port
  BY <1>1 DEF Prefix
<1>3. p \in Seq(Words) /\ Len(p) \in Nat
  BY LenProperties DEF WordSeq
<1>4. Prefix \o p \in Seq(Words) /\ Len(Prefix \o p) = Len(p) + 2
  BY <1>2, <1>3, ConcatProperties
<1>5. \A i \in 1 .. (Len(Prefix) + Len(p)) :
        (Prefix \o p)[i] = IF i <= Len(Prefix) THEN Prefix[i] ELSE p[i - Len(Prefix)]
  BY <1>2, <1>3, ConcatProperties
<1>6. (Prefix \o p)[1] = "_proxy" /\ (Prefix \o p)[2] = Port
  <2>1. \A i \in {1, 2} : i \in 1 .. (Len(Prefix) + Len(p)) /\ i <= Len(Prefix)
    BY <1>2, <1>3
  <2>2. \A i \in {1, 2} : (Prefix \o p)[i] = Prefix[i]
    BY <1>5, <2>1
  <2> QED
    BY <1>2, <2>2
<1>7. ASSUME NEW i \in 1 .. Len(p) PROVE (Prefix \o p)[i + 2] = p[i]
  <2>1. i + 2 \in 1 .. (Len(Prefix) + Len(p)) /\ ~(i + 2 <= Len(Prefix)) /\ i + 2 - Len(Prefix) = i
    BY <1>2, <1>3
  <2> QED
    BY <1>5, <2>1
<1> QED
  BY <1>2, <1>4, <1>6, <1>7 DEF WordSeq

\* At the application and below the mount point a path matches the same requests.
LEMMA MatchUnderPrefix ==
  ASSUME NEW c \in WordSeq, c # << >>, NEW p \in WordSeq
  PROVE  PathMatch(Prefix \o c, Prefix \o p) <=> PathMatch(c, p)
<1> DEFINE cc == Prefix \o c
           pp == Prefix \o p
<1>1. /\ Len(c) \in Nat /\ Len(p) \in Nat /\ Len(c) >= 1
      /\ c \in Seq(Words) /\ p \in Seq(Words)
  BY LenProperties, EmptySeq DEF WordSeq
<1>2. /\ cc \in WordSeq /\ Len(cc) = Len(c) + 2 /\ cc[1] = "_proxy" /\ cc[2] = Port
      /\ \A i \in 1 .. Len(c) : cc[i + 2] = c[i]
      /\ pp \in WordSeq /\ Len(pp) = Len(p) + 2 /\ pp[1] = "_proxy" /\ pp[2] = Port
      /\ \A i \in 1 .. Len(p) : pp[i + 2] = p[i]
  BY UnderPrefix
<1> HIDE DEF cc, pp
<1>3. DirLen(cc) = DirLen(c) + 2 /\ DirLen(c) \in Nat /\ DirLen(c) <= Len(c)
  <2>1. cc[Len(cc)] = c[Len(c)] /\ Len(cc) \in Nat /\ Len(cc) >= 1
    BY <1>1, <1>2
  <2>2. cc \in Seq(Words)
    BY <1>2 DEF WordSeq
  <2> QED
    BY <1>1, <1>2, <2>1, <2>2, DirLenIs
<1>4. PathMatch(cc, pp) <=> Len(cc) <= Len(pp) /\ \A i \in 1 .. DirLen(cc) : cc[i] = pp[i]
  <2>1. cc \in Seq(Words) /\ pp \in Seq(Words)
    BY <1>2 DEF WordSeq
  <2> QED
    BY <2>1, PathMatchAt
<1>5. PathMatch(c, p) <=> Len(c) <= Len(p) /\ \A i \in 1 .. DirLen(c) : c[i] = p[i]
  BY <1>1, PathMatchAt
<1>6. ASSUME PathMatch(cc, pp) PROVE PathMatch(c, p)
  <2>1. Len(c) <= Len(p)
    BY <1>1, <1>2, <1>4, <1>6
  <2>2. ASSUME NEW i \in 1 .. DirLen(c) PROVE c[i] = p[i]
    <3>1. i + 2 \in 1 .. DirLen(cc) /\ i \in 1 .. Len(c) /\ i \in 1 .. Len(p)
      BY <1>1, <1>3, <2>1
    <3> QED
      BY <1>2, <1>4, <1>6, <3>1
  <2> QED
    BY <1>5, <2>1, <2>2
<1>7. ASSUME PathMatch(c, p) PROVE PathMatch(cc, pp)
  <2>1. Len(c) <= Len(p) /\ Len(cc) <= Len(pp)
    BY <1>1, <1>2, <1>5, <1>7
  <2>2. ASSUME NEW i \in 1 .. DirLen(cc) PROVE cc[i] = pp[i]
    <3>1. CASE i \in {1, 2}
      BY <1>2, <3>1
    <3>2. CASE i \notin {1, 2}
      <4>1. PICK j \in 1 .. DirLen(c) : i = j + 2
        <5>1. i - 2 \in 1 .. DirLen(c) /\ i = (i - 2) + 2
          BY <1>3, <3>2
        <5> QED
          BY <5>1
      <4>2. j \in 1 .. Len(c) /\ j \in 1 .. Len(p)
        BY <1>1, <1>3, <2>1
      <4> QED
        BY <1>2, <1>5, <1>7, <4>1, <4>2
    <3> QED
      BY <3>1, <3>2
  <2> QED
    BY <1>4, <2>1, <2>2
<1> QED
  BY <1>6, <1>7 DEF cc, pp

\* A path below one mount point matches no request for another.
LEMMA NoOtherMount ==
  ASSUME NEW c \in WordSeq, Len(c) >= 2, c[1] = "_proxy", c[2] = Port,
         NEW q \in OtherPorts, NEW p \in WordSeq
  PROVE  ~PathMatch(c, <<"_proxy", q>> \o p)
<1> DEFINE S == Words \cup OtherPorts
           other == <<"_proxy", q>> \o p
<1>1. Port \notin OtherPorts /\ Port # Blank
  BY HTTPAssumption
<1>2. "_proxy" \in S /\ q \in S
  BY DEF Words
<1>3. c \in Seq(S) /\ p \in Seq(S)
  BY SeqMonotonic DEF WordSeq
<1> HIDE DEF S
<1>4. <<"_proxy", q>> \in Seq(S) /\ Len(<<"_proxy", q>>) = 2 /\ <<"_proxy", q>>[2] = q
  BY <1>2
<1>5. other \in Seq(S) /\ other[2] = q
  BY <1>3, <1>4, ConcatProperties
<1> HIDE DEF other
<1>6. 2 \in 1 .. DirLen(c)
  <2> DEFINE n == Len(c)
             d == DirLen(c)
  <2>1. n \in Nat /\ n >= 2 /\ (n = 2 => c[n] # Blank)
    BY <1>1, LenProperties DEF WordSeq
  <2>2. d = n - 1 \/ d = n
    BY <1>3, <2>1, DirLenIs
  <2>3. n = 2 => d = 2
    BY <1>3, <2>1, DirLenIs
  <2> HIDE DEF n, d
  <2>4. 2 \in 1 .. d
    BY <2>1, <2>2, <2>3
  <2> QED
    BY <2>4 DEF d
<1>7. PathMatch(c, other) => c[2] = other[2]
  BY <1>3, <1>5, <1>6, PathMatchAt
<1>8. c[2] # other[2]
  BY <1>1, <1>5
<1> QED
  BY <1>7, <1>8 DEF other

\* A cookie for "/" is sent with every request.
LEMMA RootMatches ==
  ASSUME NEW p \in WordSeq, p # << >>
  PROVE  PathMatch(Root, p) /\ Root \in WordSeq /\ Len(Root) = 1
<1>1. Root \in Seq(Words) /\ Len(Root) = 1 /\ Root[1] = Blank
  BY OneElement DEF Root, Words
<1>2. DirLen(Root) = 0
  <2>1. Len(Root) >= 1 /\ Root[Len(Root)] = Blank
    BY <1>1
  <2> QED
    BY <1>1, <2>1, DirLenIs
<1>3. p \in Seq(Words) /\ Len(p) >= 1
  BY LenProperties, EmptySeq DEF WordSeq
<1>4. PathMatch(Root, p) <=> Len(Root) <= Len(p) /\ \A i \in 1 .. DirLen(Root) : Root[i] = p[i]
  BY <1>1, <1>3, PathMatchAt
<1> QED
  BY <1>1, <1>2, <1>3, <1>4 DEF WordSeq

\* A cookie for the mount point itself is sent with every request below it.
LEMMA PrefixMatches ==
  ASSUME NEW p \in WordSeq
  PROVE  PathMatch(Prefix, Prefix \o p)
<1> DEFINE pp == Prefix \o p
<1>1. /\ pp \in Seq(Words) /\ Len(pp) = Len(p) + 2 /\ pp[1] = "_proxy" /\ pp[2] = Port
      /\ Prefix \in Seq(Words) /\ Len(Prefix) = 2 /\ Prefix[1] = "_proxy" /\ Prefix[2] = Port
  BY UnderPrefix DEF WordSeq
<1> HIDE DEF pp
<1>2. Len(Prefix) <= Len(pp)
  BY <1>1, LenProperties DEF WordSeq
<1>3. DirLen(Prefix) = 2
  <2>1. Prefix[Len(Prefix)] # Blank
    BY <1>1, HTTPAssumption
  <2> QED
    BY <1>1, <2>1, DirLenIs
<1>4. \A i \in 1 .. 2 : Prefix[i] = pp[i]
  <2>1. \A i \in 1 .. 2 : i = 1 \/ i = 2
    OBVIOUS
  <2> QED
    BY <1>1, <2>1
<1>5. PathMatch(Prefix, pp) <=> Len(Prefix) <= Len(pp) /\ \A i \in 1 .. DirLen(Prefix) : Prefix[i] = pp[i]
  BY <1>1, PathMatchAt
<1> QED
  BY <1>2, <1>3, <1>4, <1>5 DEF pp

\* The application expects a cookie with the path old along with a request for p.
Expects(old, p) == old = << >> \/ PathMatch(old, IF p = << >> THEN Root ELSE p)

\* What rewriteCookiePath makes of a cookie's path is below the mount point, and
\* matches below it what the path matched at the application.
LEMMA RewrittenPath ==
  ASSUME NEW old \in WordSeq, ~LooksMounted(old)
  PROVE  LET new == rewriteCookiePath(old)
         IN /\ new \in WordSeq /\ Len(new) >= 2 /\ new[1] = "_proxy" /\ new[2] = Port
            /\ \A p \in WordSeq :
                 PathMatch(new, Prefix \o p)
                   <=> IF KnowsMount(old) THEN PathMatch(old, Prefix \o p) ELSE Expects(old, p)
<1> DEFINE new == rewriteCookiePath(old)
<1>1. Len(old) \in Nat /\ old \in Seq(Words)
  BY LenProperties DEF WordSeq
<1>2. /\ Prefix \in WordSeq /\ Len(Prefix) >= 2 /\ Prefix[1] = "_proxy" /\ Prefix[2] = Port
      /\ \A p \in WordSeq : PathMatch(Prefix, Prefix \o p)
  BY <1>1, UnderPrefix, PrefixMatches
<1>3. \A c, path \in Seq(Words) :
        PathMatch(c, path) <=> Len(c) <= Len(path) /\ \A i \in 1 .. DirLen(c) : c[i] = path[i]
  BY PathMatchAt
<1>4. CASE old = << >>
  <2>1. ~KnowsMount(old) /\ new = Prefix /\ \A p \in WordSeq : Expects(old, p)
    <3>1. ~(Len(old) >= 2)
      BY <1>4
    <3> QED
      BY <1>4, <3>1 DEF KnowsMount, rewriteCookiePath, Expects
  <2> HIDE DEF new
  <2> QED
    BY <1>2, <2>1 DEF new
<1>5. CASE old = Root
  <2>1. ~KnowsMount(old) /\ new = Prefix
    <3>1. ~(Len(old) >= 2)
      BY <1>5 DEF Root
    <3> QED
      BY <1>5, <3>1 DEF KnowsMount, rewriteCookiePath
  <2>2. ASSUME NEW p \in WordSeq PROVE Expects(old, p)
    <3>1. Root \in WordSeq /\ Root # << >>
      BY OneElement DEF Root, Words, WordSeq
    <3>2. PathMatch(Root, IF p = << >> THEN Root ELSE p)
      BY <3>1, RootMatches
    <3> QED
      BY <1>5, <3>2 DEF Expects
  <2> HIDE DEF new
  <2> QED
    BY <1>2, <2>1, <2>2 DEF new
<1>6. CASE old \notin {<< >>, Root} /\ HasPrefix(old)
  <2>1. KnowsMount(old) /\ new = old
    BY <1>6 DEF LooksMounted, rewriteCookiePath
  <2> HIDE DEF new
  <2> QED
    BY <2>1 DEF KnowsMount, new
<1>7. CASE old \notin {<< >>, Root} /\ ~HasPrefix(old)
  <2>1. ~KnowsMount(old) /\ new = Prefix \o old
    BY <1>7 DEF KnowsMount, HasPrefix, rewriteCookiePath
  <2> HIDE DEF new
  <2>2. /\ new \in WordSeq /\ Len(new) >= 2 /\ new[1] = "_proxy" /\ new[2] = Port
    BY <1>1, <2>1, UnderPrefix
  <2>3. ASSUME NEW p \in WordSeq PROVE PathMatch(new, Prefix \o p) <=> Expects(old, p)
    <3>1. PathMatch(new, Prefix \o p) <=> PathMatch(old, p)
      BY <1>7, <2>1, MatchUnderPrefix
    <3>2. CASE p # << >>
      BY <1>7, <3>1, <3>2 DEF Expects
    <3>3. CASE p = << >>
      <4>1. Len(old) >= 1 /\ Len(p) = 0 /\ p \in Seq(Words)
        BY <1>1, <1>7, <3>3, EmptySeq
      <4>2. ~PathMatch(old, p)
        <5>1. ~(Len(old) <= Len(p))
          BY <1>1, <4>1
        <5>2. PathMatch(old, p) => Len(old) <= Len(p)
          BY <1>1, <1>3, <4>1
        <5> QED
          BY <5>1, <5>2
      <4>3. ~PathMatch(old, Root)
        <5>1. Root \in Seq(Words) /\ Len(Root) = 1 /\ Root[1] = Blank
          BY OneElement DEF Root, Words
        <5>2. PathMatch(old, Root)
                <=> Len(old) <= Len(Root) /\ \A i \in 1 .. DirLen(old) : old[i] = Root[i]
          BY <1>1, <1>3, <5>1
        <5>3. SUFFICES ASSUME Len(old) = 1 PROVE \E i \in 1 .. DirLen(old) : old[i] # Root[i]
          BY <1>1, <4>1, <5>1, <5>2
        <5>4. old[1] # Blank
          <6>1. old[1] = Blank => old = Root
            BY <1>1, <5>1, <5>3, SeqEqual
          <6> QED
            BY <1>7, <6>1
        <5>5. DirLen(old) = 1
          BY <1>1, <5>3, <5>4, DirLenIs
        <5> QED
          BY <5>1, <5>4, <5>5
      <4> QED
        BY <1>7, <3>1, <3>3, <4>2, <4>3 DEF Expects
    <3> QED
      BY <3>2, <3>3
  <2> QED
    BY <2>1, <2>2, <2>3 DEF new
<1> QED
  BY <1>4, <1>5, <1>6, <1>7

\* rewriteSetCookieHeaders rewrites every cookie's path that way; the paths of those
\* that have none are below the mount point, whatever directory they were meant for.
LEMMA CookiesReach ==
  ASSUME answer \in Answers, NEW rest, reply = ModifyResponse(answer, rest)
  PROVE  CookieReach
<1> SUFFICES ASSUME NEW i \in DOMAIN reply.cookies,
                    answer.cookies[i].ok, ~LooksMounted(answer.cookies[i].path)
             PROVE  LET old == answer.cookies[i]
                        new == reply.cookies[i]
                        own == IF old.path = << >> THEN DefaultPath(sent.path) ELSE old.path
                        expects(p) == IF KnowsMount(old.path) THEN PathMatch(own, Prefix \o p)
                                      ELSE PathMatch(own, IF p = << >> THEN Root ELSE p)
                        gets(p) == ~new.domain /\ PathMatch(new.path, Prefix \o p)
                    IN /\ \A p \in Paths \cup {<< >>} : expects(p) => gets(p)
                       /\ old.path # << >> => \A p \in Paths \cup {<< >>} : gets(p) => expects(p)
                       /\ \A q \in OtherPorts, p \in Paths : ~PathMatch(new.path, <<"_proxy", q>> \o p)
  BY Zenon DEF CookieReach
<1> DEFINE old == answer.cookies[i].path
           new == reply.cookies[i].path
<1>1. i \in DOMAIN answer.cookies /\ new = rewriteCookiePath(old) /\ reply.cookies[i].domain = FALSE
  <2>1. reply.cookies = [k \in DOMAIN answer.cookies |-> rewriteSetCookie(answer.cookies[k])]
    BY ModifiedFields
  <2>2. i \in DOMAIN answer.cookies /\ reply.cookies[i] = rewriteSetCookie(answer.cookies[i])
    BY <2>1
  <2>3. reply.cookies[i] = [ok |-> TRUE, domain |-> FALSE, path |-> rewriteCookiePath(old)]
    BY <2>2 DEF rewriteSetCookie
  <2> QED
    BY <2>2, <2>3
<1>2. old \in WordSeq
  <2>1. answer.cookies[i] \in SetCookieType
    BY <1>1, AnswerTypes, ElementOfSeq, LenProperties
  <2> QED
    BY <2>1, PartsAreWords DEF SetCookieType
<1>3. Paths \subseteq WordSeq /\ << >> \in WordSeq
  BY HTTPAssumption, PartsAreWords, EmptySeq DEF WordSeq
<1>4. /\ new \in WordSeq /\ Len(new) >= 2 /\ new[1] = "_proxy" /\ new[2] = Port
      /\ \A p \in WordSeq :
           PathMatch(new, Prefix \o p)
             <=> IF KnowsMount(old) THEN PathMatch(old, Prefix \o p) ELSE Expects(old, p)
  BY <1>1, <1>2, RewrittenPath
<1>5. ~KnowsMount(<< >>)
  BY DEF KnowsMount
<1>6. \A q \in OtherPorts, p \in Paths : ~PathMatch(new, <<"_proxy", q>> \o p)
  BY <1>3, <1>4, NoOtherMount
<1> HIDE DEF old, new
<1>7. CASE old = << >>
  <2>1. \A p \in WordSeq : PathMatch(new, Prefix \o p)
    BY <1>4, <1>5, <1>7 DEF Expects
  <2> QED
    BY <1>1, <1>3, <1>6, <1>7, <2>1 DEF old, new
<1>8. CASE old # << >>
  <2>1. \A p \in WordSeq :
          PathMatch(new, Prefix \o p)
            <=> IF KnowsMount(old) THEN PathMatch(old, Prefix \o p)
                ELSE PathMatch(old, IF p = << >> THEN Root ELSE p)
    BY <1>4, <1>8 DEF Expects
  <2> QED
    BY <1>1, <1>3, <1>6, <1>8, <2>1 DEF old, new
<1> QED
  BY <1>7, <1>8

-----------------------------------------------------------------------------
(* The HTTP proxy: redirects and policies.                                   *)

\* The directory n levels above that of a path.
Above(path, n) == SubSeq(path, 1, IF Len(path) - 1 - n < 0 THEN 0 ELSE Len(path) - 1 - n)

\* One ".." more is one directory less, until there is none.
LEMMA AboveNext ==
  ASSUME NEW S, NEW path \in Seq(S), path # << >>
  PROVE  /\ Above(path, 0) = Front(path)
         /\ \A n \in Nat : Above(path, n + 1) = IF Above(path, n) = << >> THEN << >> ELSE Front(Above(path, n))
<1> DEFINE len == Len(path)
<1>1. len \in Nat /\ len >= 1
  BY LenProperties, EmptySeq
<1>2. Above(path, 0) = SubSeq(path, 1, len - 1)
  <2>1. len - 1 - 0 = len - 1 /\ ~(len - 1 < 0)
    BY <1>1
  <2> QED
    BY <2>1 DEF Above
<1>3. ASSUME NEW n \in Nat
      PROVE  Above(path, n + 1) = IF Above(path, n) = << >> THEN << >> ELSE Front(Above(path, n))
  <2>1. CASE len - 1 - n <= 0
    <3>1. Above(path, n) = SubSeq(path, 1, 0) /\ Above(path, n + 1) = SubSeq(path, 1, 0)
      <4> HIDE DEF len
      <4>1. (IF len - 1 - n < 0 THEN 0 ELSE len - 1 - n) = 0
        BY <1>1, <2>1
      <4>2. (IF len - 1 - (n + 1) < 0 THEN 0 ELSE len - 1 - (n + 1)) = 0
        BY <1>1, <2>1
      <4> QED
        BY <4>1, <4>2 DEF Above, len
    <3>2. SubSeq(path, 1, 0) = << >>
      OBVIOUS
    <3> QED
      BY <3>1, <3>2
  <2>2. CASE len - 1 - n > 0
    <3> DEFINE k == len - 1 - n
               up == SubSeq(path, 1, k)
    <3>1. Above(path, n) = up /\ Above(path, n + 1) = SubSeq(path, 1, k - 1)
      <4>1. (IF k < 0 THEN 0 ELSE k) = k
        BY <1>1, <2>2
      <4>2. (IF len - 1 - (n + 1) < 0 THEN 0 ELSE len - 1 - (n + 1)) = k - 1
        BY <1>1, <2>2
      <4> QED
        BY <4>1, <4>2 DEF Above
    <3>2. k \in Nat /\ k >= 1 /\ k <= len
      BY <1>1, <2>2
    <3> HIDE DEF k
    <3>3. up \in Seq(S) /\ Len(up) = k /\ \A i \in 1 .. k : up[i] = path[i]
      BY <1>1, <3>2
    <3>4. up # << >>
      BY <3>2, <3>3
    <3> HIDE DEF up
    <3>5. /\ SubSeq(path, 1, k - 1) \in Seq(S) /\ Len(SubSeq(path, 1, k - 1)) = k - 1
          /\ \A i \in 1 .. (k - 1) : SubSeq(path, 1, k - 1)[i] = path[i]
      BY <1>1, <3>2
    <3>6. /\ SubSeq(up, 1, k - 1) \in Seq(S) /\ Len(SubSeq(up, 1, k - 1)) = k - 1
          /\ \A i \in 1 .. (k - 1) : SubSeq(up, 1, k - 1)[i] = up[i]
      BY <3>2, <3>3
    <3>7. SubSeq(path, 1, k - 1) = SubSeq(up, 1, k - 1)
      BY <3>2, <3>3, <3>5, <3>6, SeqEqual
    <3>8. Front(up) = SubSeq(up, 1, k - 1)
      BY <3>3 DEF Front
    <3> QED
      BY <3>1, <3>4, <3>7, <3>8
  <2> QED
    BY <1>1, <2>1, <2>2
<1> QED
  BY <1>2, <1>3 DEF Front

\* The closed form of the recursion in Meant, which climbs one level at a time.
LEMMA MeantIs ==
  ASSUME NEW S, NEW path \in Seq(S), path # << >>, NEW loc, loc.ups \in Nat
  PROVE  Meant(loc, path) = IF loc.abs THEN loc.path ELSE Above(path, loc.ups) \o loc.path
<1> DEFINE Rec(g) == g = [n \in Nat |-> IF n = 0 THEN Front(path)
                                        ELSE IF g[n - 1] = << >> THEN << >> ELSE Front(g[n - 1])]
           climb == CHOOSE g : Rec(g)
           above == [n \in Nat |-> Above(path, n)]
<1>1. Meant(loc, path) = IF loc.abs THEN loc.path ELSE climb[loc.ups] \o loc.path
  BY DEF Meant
<1>2. /\ Above(path, 0) = Front(path)
      /\ \A n \in Nat : Above(path, n + 1) = IF Above(path, n) = << >> THEN << >> ELSE Front(Above(path, n))
  BY AboveNext
<1>3. ASSUME NEW n \in Nat
      PROVE  Above(path, n) = IF n = 0 THEN Front(path)
                              ELSE IF above[n - 1] = << >> THEN << >> ELSE Front(above[n - 1])
  <2>1. CASE n = 0
    BY <1>2, <2>1
  <2>2. CASE n # 0
    <3>1. n - 1 \in Nat /\ n - 1 + 1 = n /\ above[n - 1] = Above(path, n - 1)
      BY <2>2
    <3>2. Above(path, n - 1 + 1) = IF Above(path, n - 1) = << >> THEN << >> ELSE Front(Above(path, n - 1))
      BY <1>2, <3>1
    <3> HIDE DEF above
    <3> QED
      BY <2>2, <3>1, <3>2
  <2> QED
    BY <2>1, <2>2
<1>4. Rec(above)
  BY <1>3
<1>5. Rec(climb)
  BY <1>4, Zenon
<1> HIDE DEF climb
<1> DEFINE T == {n \in Nat : climb[n] = Above(path, n)}
<1>6. climb[0] = Above(path, 0)
  BY <1>2, <1>5
<1>7. ASSUME NEW n \in Nat, climb[n] = Above(path, n) PROVE climb[n + 1] = Above(path, n + 1)
  <2>1. n + 1 \in Nat /\ n + 1 # 0 /\ n + 1 - 1 = n
    OBVIOUS
  <2>2. climb[n + 1] = IF climb[n] = << >> THEN << >> ELSE Front(climb[n])
    BY <1>5, <2>1
  <2> QED
    BY <1>2, <1>7, <2>2
<1>8. 0 \in T /\ \A n \in Nat : n \in T => n + 1 \in T
  BY <1>6, <1>7
<1> HIDE DEF T
<1>9. climb[loc.ups] = Above(path, loc.ups)
  BY <1>8, NaturalsIn DEF T
<1> QED
  BY <1>1, <1>9

\* ResolveReference cuts off at once what Meant climbs over.
LEMMA RedirectsLand ==
  ASSUME answer \in Answers, sent.path \in WordSeq, sent.path # << >>,
         reply = ModifyResponse(answer, sent.path)
  PROVE  RedirectLands
<1> DEFINE loc == answer.location
           rest == sent.path
<1>1. reply.location = RewriteLocation(loc, rest)
  BY ModifiedFields
<1>2. loc.ups \in Nat /\ (loc.host # "none" => loc.abs) /\ loc.abs \in BOOLEAN
  BY AnswerTypes
<1>3. Meant(loc, rest) = IF loc.abs THEN loc.path ELSE Above(rest, loc.ups) \o loc.path
  BY <1>2, MeantIs DEF WordSeq
<1>4. Resolve(rest, loc.ups, loc.path) = Above(rest, loc.ups) \o loc.path
  BY DEF Resolve, Above
<1>5. loc # NoLocation /\ loc.ok => reply.location = Prefix \o Meant(loc, rest)
  BY <1>1, <1>2, <1>3, <1>4 DEF RewriteLocation
<1>6. loc = NoLocation => reply.location = << >>
  BY <1>1 DEF RewriteLocation
<1> QED
  BY <1>5, <1>6 DEF RedirectLands

\* removeCSPDirective takes out one directive of the policy that Header.Get sees.
LEMMA PolicyEmbeddable ==
  ASSUME answer \in Answers, NEW rest, reply = ModifyResponse(answer, rest)
  PROVE  Embeddable
<1> DEFINE fa == "frame-ancestors"
           p == answer.csp[1]
<1>1. reply.csp = RewriteCSP(answer.csp) /\ ~reply.frame /\ answer.csp \in Seq(WordSeq)
  BY ModifiedFields, AnswerTypes
<1>2. CASE answer.csp = << >>
  <2>1. Len(answer.csp) = 0
    BY <1>2
  <2> QED
    BY <1>1, <1>2, <2>1 DEF Embeddable
<1>3. CASE answer.csp # << >>
  <2>1. p \in Seq(Words)
    BY <1>1, <1>3, ElementOfSeq, LenProperties, EmptySeq DEF WordSeq
  <2> DEFINE w == Without(p, {fa})
  <2>2. (\A i \in DOMAIN w : w[i] # fa) /\ w \in Seq(Words) /\ IsRest(w, p, {fa})
    <3> DEFINE X == {fa}
    <3>1. \A x : x \notin X <=> x # fa
      OBVIOUS
    <3> HIDE DEF X
    <3>2. /\ \A i \in DOMAIN Without(p, X) : Without(p, X)[i] \notin X
          /\ Without(p, X) \in Seq(Words) /\ IsRest(Without(p, X), p, X)
      BY <2>1, WithoutRest
    <3> QED
      BY <3>1, <3>2 DEF X
  <2>3. CASE p # << >>
    <3>1. reply.csp = <<w>>
      BY <1>1, <1>3, <2>3 DEF RewriteCSP, removeCSPDirective
    <3>2. ~Contains(w, fa)
      BY <2>2 DEF Contains
    <3> HIDE DEF w, p
    <3>3. Len(reply.csp) = 1 /\ reply.csp[1] = w /\ \A i \in DOMAIN reply.csp : i = 1
      BY <3>1
    <3> QED
      BY <1>1, <2>2, <3>2, <3>3 DEF Embeddable, p
  <2>4. CASE p = << >>
    <3>1. reply.csp = answer.csp /\ reply.csp[1] = p
      BY <1>1, <2>4 DEF RewriteCSP
    <3>2. IsRest(p, p, {fa})
      <4>1. DOMAIN p = {} /\ p \in [DOMAIN p -> DOMAIN p]
        BY <2>4
      <4>2. {p[i] : i \in DOMAIN p} = {j \in DOMAIN p : p[j] \notin {fa}}
        BY <4>1
      <4> HIDE DEF p
      <4>3. /\ \A i, j \in DOMAIN p : i < j => p[i] < p[j]
            /\ \A i \in DOMAIN p : p[i] = p[p[i]]
        BY <4>1
      <4> QED
        BY <4>1, <4>2, <4>3, Zenon DEF IsRest
    <3> QED
      BY <1>1, <2>4, <3>1, <3>2 DEF Embeddable
  <2> QED
    BY <2>3, <2>4
<1> QED
  BY <1>2, <1>3

-----------------------------------------------------------------------------
(* The HTTP proxy: the base tag.                                             *)

\* The least element is the one that is at most every other.
LEMMA MinIs ==
  ASSUME NEW I \in SUBSET Nat, NEW m \in I, \A k \in I : m <= k
  PROVE  Min(I) = m
<1>1. Min(I) \in I /\ \A k \in I : Min(I) <= k
  BY LeastOf
<1>2. m \in Nat /\ Min(I) \in Nat /\ m <= Min(I) /\ Min(I) <= m
  BY <1>1
<1> QED
  BY <1>2

\* What an insertion makes of a list: what is before, e, and what comes after.
LEMMA ThreeParts ==
  ASSUME NEW S, NEW s \in Seq(S), NEW e \in S, NEW n \in 1 .. (Len(s) + 1)
  PROVE  LET r == InsertAt(s, n, e)
         IN /\ r \in Seq(S) /\ Len(r) = Len(s) + 1 /\ r[n] = e
            /\ \A i \in 1 .. (n - 1) : r[i] = s[i]
            /\ \A i \in (n + 1) .. (Len(s) + 1) : r[i] = s[i - 1]
<1> DEFINE len == Len(s)
           l == SubSeq(s, 1, n - 1)
           m == <<e>>
           u == SubSeq(s, n, len)
<1>1. len \in Nat /\ n \in Nat /\ 1 <= n /\ n <= len + 1
  BY LenProperties
<1>2. l \in Seq(S) /\ Len(l) = n - 1 /\ \A i \in 1 .. (n - 1) : l[i] = s[i]
  BY <1>1
<1>3. m \in Seq(S) /\ Len(m) = 1 /\ m[1] = e
  BY OneElement
<1>4. u \in Seq(S) /\ Len(u) = len - n + 1 /\ \A i \in 1 .. (len - n + 1) : u[i] = s[n + i - 1]
  BY <1>1, SubSeqProperties
<1>5. InsertAt(s, n, e) = (l \o m) \o u
  BY DEF InsertAt
<1> HIDE DEF len, l, m, u
<1> DEFINE lm == l \o m
           r == lm \o u
<1>6. lm \in Seq(S) /\ Len(lm) = n /\ \A i \in 1 .. n : lm[i] = IF i <= n - 1 THEN l[i] ELSE m[i - (n - 1)]
  <2>1. /\ lm \in Seq(S) /\ Len(lm) = Len(l) + Len(m)
        /\ \A i \in 1 .. (Len(l) + Len(m)) : lm[i] = IF i <= Len(l) THEN l[i] ELSE m[i - Len(l)]
    BY <1>2, <1>3, ConcatProperties
  <2>2. Len(l) + Len(m) = n
    BY <1>1, <1>2, <1>3
  <2> QED
    BY <1>2, <2>1, <2>2
<1> HIDE DEF lm
<1>7. /\ r \in Seq(S) /\ Len(r) = len + 1
      /\ \A i \in 1 .. (len + 1) : r[i] = IF i <= n THEN lm[i] ELSE u[i - n]
  <2>1. /\ r \in Seq(S) /\ Len(r) = Len(lm) + Len(u)
        /\ \A i \in 1 .. (Len(lm) + Len(u)) : r[i] = IF i <= Len(lm) THEN lm[i] ELSE u[i - Len(lm)]
    BY <1>4, <1>6, ConcatProperties
  <2>2. Len(lm) + Len(u) = len + 1
    BY <1>1, <1>4, <1>6
  <2> QED
    BY <1>6, <2>1, <2>2
<1> HIDE DEF r
<1>8. r[n] = e
  <2>1. n \in 1 .. n /\ n \in 1 .. (len + 1) /\ n - (n - 1) = 1 /\ ~(n <= n - 1) /\ n <= n
    BY <1>1
  <2>2. r[n] = lm[n]
    BY <1>7, <2>1
  <2>3. lm[n] = m[n - (n - 1)]
    BY <1>6, <2>1
  <2> QED
    BY <1>3, <2>1, <2>2, <2>3
<1>9. ASSUME NEW i \in 1 .. (n - 1) PROVE r[i] = s[i]
  <2>1. i \in 1 .. n /\ i \in 1 .. (len + 1) /\ i <= n - 1 /\ i <= n
    BY <1>1
  <2> QED
    BY <1>2, <1>6, <1>7, <2>1
<1>10. ASSUME NEW i \in (n + 1) .. (len + 1) PROVE r[i] = s[i - 1]
  <2>1. i \in 1 .. (len + 1) /\ ~(i <= n) /\ i - n \in 1 .. (len - n + 1) /\ n + (i - n) - 1 = i - 1
    BY <1>1
  <2>2. r[i] = u[i - n]
    BY <1>7, <2>1
  <2>3. u[i - n] = s[n + (i - n) - 1]
    BY <1>4, <2>1
  <2> QED
    BY <2>1, <2>2, <2>3
<1> QED
  BY <1>5, <1>7, <1>8, <1>9, <1>10 DEF r, lm, len

\* An element that was not in a list is found where it was inserted, and taking it
\* out restores the list.
LEMMA InsertedMarker ==
  ASSUME NEW S, NEW s \in Seq(S), NEW e \in S, NEW n \in 1 .. (Len(s) + 1),
         \A i \in 1 .. Len(s) : s[i] # e
  PROVE  /\ SelectInSeq(InsertAt(s, n, e), LAMBDA x : x = e) = n
         /\ RemoveAt(InsertAt(s, n, e), n) = s
<1> DEFINE len == Len(s)
           r == InsertAt(s, n, e)
<1>1. len \in Nat /\ n \in Nat /\ 1 <= n /\ n <= len + 1
  BY LenProperties
<1>2. /\ r \in Seq(S) /\ Len(r) = len + 1 /\ r[n] = e
      /\ \A i \in 1 .. (n - 1) : r[i] = s[i]
      /\ \A i \in (n + 1) .. (len + 1) : r[i] = s[i - 1]
  BY ThreeParts
<1> HIDE DEF r
<1>3. SelectInSeq(r, LAMBDA x : x = e) = n
  <2> DEFINE I == {i \in 1 .. Len(r) : r[i] = e}
  <2>1. I \in SUBSET Nat /\ n \in I
    BY <1>1, <1>2
  <2>2. ASSUME NEW k \in I PROVE n <= k
    <3>1. k \in 1 .. (len + 1) /\ r[k] = e
      BY <1>2
    <3>2. k \in 1 .. (n - 1) => k \in 1 .. len
      BY <1>1
    <3>3. k \notin 1 .. (n - 1)
      BY <1>2, <3>1, <3>2
    <3> HIDE DEF len
    <3> QED
      BY <1>1, <3>1, <3>3
  <2>3. SelectInSeq(r, LAMBDA x : x = e) = IF I # {} THEN Min(I) ELSE 0
    BY DEF SelectInSeq
  <2> HIDE DEF I
  <2>4. Min(I) = n
    BY <2>1, <2>2, MinIs
  <2> QED
    BY <2>1, <2>3, <2>4
<1>4. RemoveAt(r, n) = s
  <2> DEFINE a == SubSeq(r, 1, n - 1)
             b == SubSeq(r, n + 1, len + 1)
             t == a \o b
  <2>1. a \in Seq(S) /\ Len(a) = n - 1 /\ \A i \in 1 .. (n - 1) : a[i] = r[i]
    BY <1>1, <1>2
  <2>2. b \in Seq(S) /\ Len(b) = len + 1 - n /\ \A i \in 1 .. (len + 1 - n) : b[i] = r[n + i]
    <3>1. /\ n + 1 \in 1 .. (Len(r) + 1) /\ len + 1 \in n .. Len(r)
          /\ len + 1 - (n + 1) + 1 = len + 1 - n
      BY <1>1, <1>2
    <3>2. /\ b \in Seq(S) /\ Len(b) = IF n + 1 <= len + 1 THEN len + 1 - (n + 1) + 1 ELSE 0
          /\ \A i \in 1 .. (len + 1 - (n + 1) + 1) : b[i] = r[n + 1 + i - 1]
      BY <1>1, <1>2, <3>1, SubSeqProperties
    <3> HIDE DEF b, len
    <3>3. Len(b) = len + 1 - n
      BY <1>1, <3>2
    <3>4. \A i \in 1 .. (len + 1 - n) : b[i] = r[n + i]
      BY <1>1, <3>2
    <3> QED
      BY <3>2, <3>3, <3>4
  <2>3. RemoveAt(r, n) = t
    BY <1>2 DEF RemoveAt
  <2> HIDE DEF a, b, len
  <2>4. /\ t \in Seq(S) /\ Len(t) = Len(a) + Len(b)
        /\ \A i \in 1 .. (Len(a) + Len(b)) : t[i] = IF i <= Len(a) THEN a[i] ELSE b[i - Len(a)]
    BY <2>1, <2>2, ConcatProperties
  <2>5. Len(a) + Len(b) = len
    BY <1>1, <2>1, <2>2
  <2> HIDE DEF t
  <2>6. ASSUME NEW i \in 1 .. len PROVE t[i] = s[i]
    <3>1. CASE i <= n - 1
      <4>1. i \in 1 .. (n - 1)
        BY <1>1, <3>1
      <4>2. t[i] = a[i]
        BY <2>1, <2>4, <2>5, <3>1
      <4> QED
        BY <1>2, <2>1, <4>1, <4>2
    <3>2. CASE ~(i <= n - 1)
      <4>1. /\ i - (n - 1) \in 1 .. (len + 1 - n) /\ n + (i - (n - 1)) = i + 1
            /\ i + 1 \in (n + 1) .. (len + 1) /\ i + 1 - 1 = i
        BY <1>1, <3>2
      <4>2. t[i] = b[i - (n - 1)]
        BY <2>1, <2>4, <2>5, <3>2
      <4>3. t[i] = r[i + 1]
        BY <2>2, <4>1, <4>2
      <4>4. r[i + 1] = s[i + 1 - 1]
        BY <1>2, <4>1 DEF len
      <4> QED
        BY <4>1, <4>3, <4>4
    <3> QED
      BY <3>1, <3>2
  <2>7. t = s
    BY <1>1, <2>4, <2>5, <2>6, SeqEqual DEF len
  <2> QED
    BY <2>3, <2>7
<1> QED
  BY <1>3, <1>4 DEF r

\* The first position of a set, or 0.
FirstIn(I) == IF I # {} THEN Min(I) ELSE 0

\* The position of the first tag of a kind, or that there is none.
LEMMA FirstInIs ==
  ASSUME NEW I \in SUBSET (Nat \ {0})
  PROVE  \/ FirstIn(I) = 0 /\ I = {}
         \/ FirstIn(I) \in I /\ \A k \in I : FirstIn(I) <= k
<1>1. CASE I = {}
  BY <1>1 DEF FirstIn
<1>2. CASE I # {}
  <2>1. Min(I) \in I /\ \A k \in I : Min(I) <= k
    BY <1>2, LeastOf
  <2> QED
    BY <1>2, <2>1 DEF FirstIn
<1> QED
  BY <1>1, <1>2

\* In front of the page is the first place to insert something.
LEMMA AtFront ==
  ASSUME NEW S, NEW s \in Seq(S), NEW e \in S
  PROVE  <<e>> \o s = InsertAt(s, 1, e) /\ 1 \in 1 .. (Len(s) + 1)
<1>1. SubSeq(s, 1, 1 - 1) = << >> /\ SubSeq(s, 1, Len(s)) = s /\ Len(s) \in Nat
  BY SubSeqFull, SubSeqEmpty, LenProperties
<1>2. << >> \o <<e>> = <<e>>
  BY OneElement, ConcatEmptySeq
<1> QED
  BY <1>1, <1>2 DEF InsertAt

\* injectBaseHref inserts the tag after the first head, and in front of a page
\* that has none.
LEMMA PagesBased ==
  ASSUME answer \in Answers, NEW rest, reply = ModifyResponse(answer, rest)
  PROVE  BaseFirst
<1> DEFINE b == answer.body
           heads == {i \in 1 .. Len(b) : IsHead(b[i])}
           head == {i \in 1 .. Len(b) : b[i] = "head"}
           first == FirstIn(heads)
           ends == {i \in first .. Len(b) : b[i] # "cut"}
           end == FirstIn(ends)
           own == SelectInSeq(reply.body, LAMBDA tag : tag = "BASE")
<1>0. reply.body = IF answer.html THEN injectBaseHref(b) ELSE b
  BY ModifiedFields
<1>1. SUFFICES ASSUME answer.html, ~Contains(b, "base")
               PROVE  /\ own # 0 /\ RemoveAt(reply.body, own) = b
                      /\ FirstIn(head) # 0 /\ FirstIn(head) = first => own = FirstIn(head) + 1
                      /\ first = 0 => own = 1
  BY <1>0 DEF BaseFirst, FirstIn, SelectInSeq
<1>2. b \in Seq(Words) /\ "BASE" \in Words /\ \A i \in 1 .. Len(b) : b[i] # "BASE"
  BY AnswerTypes DEF WordSeq, Words, Contains
<1>3. Len(b) \in Nat
  BY <1>2, LenProperties
<1>4. reply.body = IF first = 0 \/ end = 0 THEN <<"BASE">> \o b ELSE InsertAt(b, end + 1, "BASE")
  <2>1. reply.body = injectBaseHref(b)
    BY <1>0, <1>1
  <2> QED
    BY <1>1, <2>1 DEF injectBaseHref, SelectInSeq, SelectInSubSeq, FirstIn
<1>5. \/ first = 0 /\ heads = {}
      \/ first \in heads /\ \A k \in heads : first <= k
  BY FirstInIs
<1>6. \/ FirstIn(head) = 0 /\ head = {}
      \/ FirstIn(head) \in head /\ \A k \in head : FirstIn(head) <= k
  BY FirstInIs
<1>7. first # 0 => \/ end = 0 /\ ends = {}
                   \/ end \in ends /\ \A k \in ends : end <= k
  <2> SUFFICES ASSUME first # 0 PROVE ends \in SUBSET (Nat \ {0})
    BY FirstInIs
  <2>1. first \in 1 .. Len(b)
    BY <1>5
  <2> HIDE DEF first, b
  <2> QED
    BY <1>3, <2>1
<1> HIDE DEF b, first, end
<1>8. FirstIn(head) # 0 /\ FirstIn(head) = first => first # 0 /\ end = first
  <2> SUFFICES ASSUME FirstIn(head) # 0, FirstIn(head) = first PROVE first # 0 /\ end = first
    OBVIOUS
  <2>1. first \in 1 .. Len(b) /\ b[first] = "head"
    BY <1>6
  <2>2. first \in ends
    BY <1>3, <2>1
  <2>3. end \in ends /\ end <= first
    BY <1>7, <2>2
  <2>4. first \in Nat /\ end \in first .. Len(b)
    BY <2>1, <2>3
  <2> HIDE DEF ends
  <2> QED
    BY <2>3, <2>4
<1>9. CASE first = 0 \/ end = 0
  <2>1. reply.body = InsertAt(b, 1, "BASE") /\ 1 \in 1 .. (Len(b) + 1)
    BY <1>2, <1>4, <1>9, AtFront
  <2>2. SelectInSeq(InsertAt(b, 1, "BASE"), LAMBDA tag : tag = "BASE") = 1 /\ RemoveAt(InsertAt(b, 1, "BASE"), 1) = b
    BY <1>2, <2>1, InsertedMarker
  <2>3. own = 1 /\ RemoveAt(reply.body, own) = b
    BY <2>1, <2>2
  <2> HIDE DEF own
  <2> QED
    BY <1>8, <1>9, <2>3
<1>10. CASE first # 0 /\ end # 0
  <2>1. end \in 1 .. Len(b)
    <3>1. first \in 1 .. Len(b) /\ end \in first .. Len(b)
      BY <1>5, <1>7, <1>10
    <3> QED
      BY <1>3, <3>1
  <2>2. reply.body = InsertAt(b, end + 1, "BASE") /\ end + 1 \in 1 .. (Len(b) + 1)
    BY <1>3, <1>4, <1>10, <2>1
  <2>3. /\ SelectInSeq(InsertAt(b, end + 1, "BASE"), LAMBDA tag : tag = "BASE") = end + 1
        /\ RemoveAt(InsertAt(b, end + 1, "BASE"), end + 1) = b
    BY <1>2, <2>2, InsertedMarker
  <2>4. own = end + 1 /\ RemoveAt(reply.body, own) = b
    BY <2>2, <2>3
  <2> HIDE DEF own
  <2> QED
    BY <1>8, <1>10, <2>1, <2>4
<1> QED
  BY <1>9, <1>10

\* A handler that answers by itself rewrites nothing.
LEMMA NothingToMean ==
  ASSUME NEW n \in Nat \ {200}, reply = [NoReply EXCEPT !.status = n]
  PROVE  AnswerMeant
<1>1. reply.cookies = << >> /\ reply.location = << >> /\ reply.status # 200
  BY DEF NoReply
<1>2. CookieReach
  BY <1>1 DEF CookieReach
<1>3. RedirectLands /\ BaseFirst /\ Embeddable
  BY <1>1 DEF RedirectLands, BaseFirst, Embeddable
<1> QED
  BY <1>2, <1>3 DEF AnswerMeant

\* What an application answers means below the mount point what it means at the
\* application: cookies, redirects, the policy and the page (ModifyResponse).
THEOREM AnswersMeant == HTTPInit /\ [][HTTPNext]_httpVars => []AnswerMeant
<1>1. HTTPMessages => AnswerMeant
  <2> SUFFICES ASSUME HTTPMessages PROVE AnswerMeant
    OBVIOUS
  <2>1. CASE \E n \in Nat \ {200} : reply = [NoReply EXCEPT !.status = n]
    BY <2>1, NothingToMean
  <2>2. CASE /\ hpc = "done" /\ sent = Outgoing
             /\ answer \in Answers /\ reply = ModifyResponse(answer, sent.path)
    <3>1. sent.path \in WordSeq /\ sent.path # << >>
      BY <2>2, OutgoingType DEF HTTPMessages
    <3> QED
      BY <2>2, <3>1, CookiesReach, RedirectsLand, PolicyEmbeddable, PagesBased DEF AnswerMeant
  <2> QED
    BY <2>1, <2>2 DEF HTTPMessages
<1> QED
  BY <1>1, MessagesAlways, PTL
=============================================================================
