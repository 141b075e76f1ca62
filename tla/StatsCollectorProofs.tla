----------------------- MODULE StatsCollectorProofs -----------------------
(***************************************************************************)
(* Count, senders and loops of the collector agree, and the first frame    *)
(* of a connection that loses none is full, for any number of connections. *)
(***************************************************************************)
EXTENDS StatsCollector, FiniteSetTheorems, TLAPS

Started == {i \in Loop : loop[i] # "none"}
Joined == {h \in Hub : conn[h] # "new"}

\* A sender is registered between its Add and its Remove.
SendersAdded == \A h \in senders : conn[h] = "added"

\* Goroutines are started one after the other, no more of them than calls of Add.
LoopsInTurn == \E n \in 0 .. Cardinality(Joined) : Started = 1 .. n

\* The loop that c.cancel stops is running, and there is one while there are senders.
LoopAlive ==
  /\ cancel # None => Running(cancel)
  /\ cancelled \subseteq Started
  /\ senders # {} => cancel # None

OneLoop == \A i, j \in Started : i = j

\* In the life of the first loop: a snapshot comes from it, and an open sender that
\* has been sent no frame yet is about to be sent the full one, which the loop has
\* in hand.
FirstFull ==
  OneLoop =>
    /\ \A h \in Hub \ lossy : first[h] # "delta"
    /\ hasLast => Started # {}
    /\ \A i \in Loop : loop[i] = "send" => hasLast
    /\ \A h \in (senders \ closed) \ lossy :
         hasLast /\ first[h] = "none" => \E i \in Loop : loop[i] = "send" /\ full[i]

IInv ==
  /\ TypeOK /\ RefsCount /\ SendersAdded /\ LoopsInTurn
  /\ LoopAlive /\ LoopOnlyWhileUsed /\ FirstFull
-----------------------------------------------------------------------------
\* Sets of connections are finite.
LEMMA HubsFinite ==
  ASSUME NEW S \in SUBSET Hub
  PROVE  IsFiniteSet(S) /\ Cardinality(S) \in Nat /\ Cardinality(S) <= Cardinality(Hub)
         /\ Cardinality(Hub) \in Nat
  BY HubAssumption, FS_Subset, FS_CardinalityType

\* A connection that has not joined yet finds a goroutine that has not been started:
\* the one after those that have.
LEMMA NextIsFree ==
  ASSUME TypeOK, LoopsInTurn, NEW h \in Hub, conn[h] = "new"
  PROVE  /\ NextLoop \in Loop /\ NextLoop \notin Started
         /\ \E n \in 0 .. Cardinality(Joined \cup {h}) : Started \cup {NextLoop} = 1 .. n
         /\ 0 .. Cardinality(Joined) \subseteq 0 .. Cardinality(Joined \cup {h})
<1>1. PICK n \in 0 .. Cardinality(Joined) : Started = 1 .. n
  BY DEF LoopsInTurn
<1>2. /\ Cardinality(Joined \cup {h}) = Cardinality(Joined) + 1
      /\ Cardinality(Joined \cup {h}) <= Cardinality(Hub)
      /\ Cardinality(Joined) \in Nat /\ Cardinality(Hub) \in Nat
  <2>1. Joined \in SUBSET Hub /\ Joined \cup {h} \in SUBSET Hub /\ h \notin Joined
    BY DEF Joined
  <2> QED
    BY <2>1, HubsFinite, FS_AddElement
<1>3. n + 1 \in Loop
  BY <1>1, <1>2 DEF Loop
<1>4. \A i \in Loop : loop[i] = "none" <=> i > n
  BY <1>1 DEF Started, Loop
<1>5. NextLoop = n + 1
  <2> DEFINE Free(i) == loop[i] = "none" /\ \A j \in Loop : loop[j] = "none" => i <= j
  <2>1. Free(n + 1)
    BY <1>3, <1>4 DEF Loop
  <2>2. \A i \in Loop : Free(i) => i = n + 1
    BY <1>3, <1>4 DEF Loop
  <2> QED
    BY <1>3, <2>1, <2>2 DEF NextLoop
<1> QED
  <2>1. n + 1 \in 0 .. Cardinality(Joined \cup {h}) /\ n + 1 \notin Started
    BY <1>1, <1>2
  <2>2. Started \cup {n + 1} = 1 .. n + 1
    BY <1>1
  <2>3. 0 .. Cardinality(Joined) \subseteq 0 .. Cardinality(Joined \cup {h})
    BY <1>2
  <2> QED
    BY <1>3, <1>5, <2>1, <2>2, <2>3

\* The count follows the set, for each of the three ways in which it changes.
LEMMA CountStep ==
  ASSUME TypeOK, RefsCount
  PROVE  /\ \A h \in Hub \ senders : refs + 1 = Cardinality(senders \cup {h})
         /\ \A h \in senders : refs - 1 = Cardinality(senders \ {h}) /\ refs - 1 \in Nat
         /\ /\ refs - Cardinality(senders \cap closed) = Cardinality(senders \ closed)
            /\ refs - Cardinality(senders \cap closed) \in Nat
         /\ refs = 0 <=> senders = {}
         /\ \A h \in senders : refs = 1 <=> senders = {h}
<1>1. IsFiniteSet(senders) /\ refs = Cardinality(senders)
  BY HubsFinite DEF TypeOK, RefsCount
<1>2. \A h \in Hub \ senders : refs + 1 = Cardinality(senders \cup {h})
  BY <1>1, FS_AddElement
<1>3. \A h \in senders : refs - 1 = Cardinality(senders \ {h}) /\ refs - 1 \in Nat
  BY <1>1, FS_RemoveElement, FS_CardinalityType
<1>4. /\ refs - Cardinality(senders \cap closed) = Cardinality(senders \ closed)
      /\ refs - Cardinality(senders \cap closed) \in Nat
  BY <1>1, FS_Difference, FS_CardinalityType
<1>5. refs = 0 <=> senders = {}
  BY <1>1, FS_EmptySet
<1>6. \A h \in senders : refs = 1 <=> senders = {h}
  BY <1>1, FS_Singleton
<1> QED
  BY <1>2, <1>3, <1>4, <1>5, <1>6

\* Send, hub by hub: refused, dropped, or in the queue.
LEMMA SendEach ==
  ASSUME TypeOK, NEW S \in SUBSET Hub, NEW isFull \in BOOLEAN, SendTo(S, isFull)
  PROVE  /\ first' \in [Hub -> {"none", "full", "delta"}] /\ lossy' \subseteq Hub
         /\ lossy \subseteq lossy'
         /\ \A h \in Hub : first'[h] \in {first[h], Frame(isFull)}
         /\ \A h \in (S \ closed) \ lossy' :
              first'[h] = IF first[h] = "none" THEN Frame(isFull) ELSE first[h]
         /\ \A h \in Hub : first[h] # "none" \/ h \notin S \ closed => first'[h] = first[h]
<1>1. PICK dropped \in SUBSET (S \ closed) :
        /\ lossy' = lossy \cup dropped
        /\ first' = [h \in Hub |-> IF h \in (S \ closed) \ dropped /\ first[h] = "none"
                                  THEN Frame(isFull) ELSE first[h]]
  BY DEF SendTo
<1> QED
  BY <1>1 DEF TypeOK, Frame

-----------------------------------------------------------------------------
\* Add: the first sender starts a loop, a later one is sent the last snapshot.
LEMMA AddStep == ASSUME IInv, NEW h \in Hub, Add(h) PROVE IInv'
<1> USE DEF IInv
<1>1. /\ NextLoop \in Loop /\ NextLoop \notin Started
      /\ \E n \in 0 .. Cardinality(Joined \cup {h}) : Started \cup {NextLoop} = 1 .. n
      /\ 0 .. Cardinality(Joined) \subseteq 0 .. Cardinality(Joined \cup {h})
  BY NextIsFree DEF Add
<1>2. h \in Hub \ senders /\ refs + 1 = Cardinality(senders \cup {h}) /\ (refs = 0 <=> senders = {})
  BY CountStep DEF Add, SendersAdded
<1>3. /\ conn' = [conn EXCEPT ![h] = "added"]
      /\ senders' = senders \cup {h} /\ refs' = refs + 1
      /\ UNCHANGED <<closed, hasLast, cancelled, full, emptied>>
  BY DEF Add
<1>4. Joined' = Joined \cup {h}
  BY <1>3 DEF Joined, TypeOK
<1>5. RefsCount' /\ SendersAdded'
  BY <1>2, <1>3 DEF RefsCount, SendersAdded, TypeOK
<1>6. CASE refs = 0
  <2> DEFINE n == NextLoop
  <2>1. loop' = [loop EXCEPT ![n] = "wait"] /\ cancel' = n /\ first' = first /\ lossy' = lossy
    BY <1>6 DEF Add
  <2>2. n \in Loop /\ n \notin Started /\ senders = {}
    BY <1>1, <1>2, <1>6
  <2> HIDE DEF n
  <2>3. TypeOK'
    BY <1>3, <2>1, <2>2 DEF TypeOK
  <2>4. Started' = Started \cup {n}
    BY <2>1, <2>2 DEF Started, TypeOK
  <2>5. LoopsInTurn'
    BY <1>1, <1>4, <2>4 DEF LoopsInTurn, n
  <2>6. /\ n \notin cancelled
        /\ \A i \in Loop : loop'[i] = IF i = n THEN "wait" ELSE loop[i]
    BY <2>1, <2>2 DEF LoopAlive, TypeOK
  <2>7. LoopAlive' /\ LoopOnlyWhileUsed'
    BY <1>3, <2>1, <2>2, <2>4, <2>6, HubAssumption
    DEF LoopAlive, LoopOnlyWhileUsed, Running, TypeOK
  <2>8. FirstFull'
    <3>1. SUFFICES ASSUME OneLoop' PROVE FirstFull'
      BY DEF FirstFull
    <3>2. Started = {} /\ OneLoop
      BY <2>2, <2>4, <3>1 DEF OneLoop
    <3>3. \A i \in Loop : loop[i] # "send"
      BY <3>2 DEF Started
    <3> QED
      BY <1>3, <2>1, <2>4, <2>6, <3>2, <3>3 DEF FirstFull
  <2> QED
    BY <1>5, <2>3, <2>5, <2>7, <2>8
<1>7. CASE refs # 0
  <2>1. /\ loop' = loop /\ cancel' = cancel
        /\ (first' = first /\ lossy' = lossy) \/ SendTo({h}, TRUE)
        /\ hasLast => SendTo({h}, TRUE)
    BY <1>7 DEF Add
  <2>2. /\ \A g \in Hub : first'[g] = first[g] \/ first'[g] = "full"
        /\ lossy \subseteq lossy' /\ lossy' \subseteq Hub
        /\ first' \in [Hub -> {"none", "full", "delta"}]
        /\ hasLast /\ h \notin closed \cup lossy' => first'[h] # "none"
        /\ \A g \in Hub \ {h} : first'[g] = first[g]
    <3>1. {h} \in SUBSET Hub /\ TRUE \in BOOLEAN /\ Frame(TRUE) = "full"
      BY DEF Frame
    <3>2. CASE SendTo({h}, TRUE)
      BY <3>1, <3>2, SendEach
    <3>3. CASE ~SendTo({h}, TRUE)
      BY <2>1, <3>3 DEF TypeOK
    <3> QED
      BY <3>2, <3>3
  <2>3. TypeOK'
    <3>1. UNCHANGED <<closed, cancel, hasLast, loop, cancelled, full, emptied>>
      BY <1>3, <2>1
    <3>2. conn' \in [Hub -> {"new", "added", "removed"}] /\ senders' \subseteq Hub /\ refs' \in Nat
      BY <1>3 DEF TypeOK
    <3> QED
      BY <2>2, <3>1, <3>2 DEF TypeOK
  <2>4. LoopsInTurn'
    BY <1>4, <1>1, <2>1 DEF LoopsInTurn, Started
  <2>5. LoopAlive' /\ LoopOnlyWhileUsed'
    BY <1>2, <1>3, <1>7, <2>1 DEF LoopAlive, LoopOnlyWhileUsed, Running, Started
  <2>6. FirstFull'
    BY <1>3, <2>1, <2>2 DEF FirstFull, OneLoop, Started, TypeOK
  <2> QED
    BY <1>5, <2>3, <2>4, <2>5, <2>6
<1> QED
  BY <1>6, <1>7

\* Remove: the last sender to leave stops the loop.
LEMMA RemoveStep == ASSUME IInv, NEW h \in Hub, Remove(h) PROVE IInv'
<1> USE DEF IInv
<1>1. /\ conn[h] = "added" /\ h \in closed
      /\ conn' = [conn EXCEPT ![h] = "removed"]
      /\ UNCHANGED <<closed, hasLast, loop, full, first, lossy, emptied>>
  BY DEF Remove
<1>2. Joined' = Joined /\ Started' = Started
  BY <1>1 DEF Joined, Started, TypeOK
<1>3. LoopsInTurn'
  BY <1>2 DEF LoopsInTurn
<1>4. CASE h \notin senders
  <2>1. UNCHANGED <<senders, refs, cancel, cancelled>>
    BY <1>4 DEF Remove
  <2>2. TypeOK' /\ RefsCount' /\ SendersAdded'
    BY <1>1, <1>4, <2>1 DEF TypeOK, RefsCount, SendersAdded
  <2>3. LoopAlive' /\ LoopOnlyWhileUsed' /\ FirstFull'
    BY <1>1, <1>2, <2>1 DEF LoopAlive, LoopOnlyWhileUsed, FirstFull, OneLoop, Running
  <2> QED
    BY <1>3, <2>2, <2>3
<1>5. CASE h \in senders
  <2>1. /\ senders' = senders \ {h} /\ refs' = refs - 1
        /\ \/ refs = 1 /\ cancel # None /\ cancelled' = cancelled \cup {cancel} /\ cancel' = None
           \/ ~(refs = 1 /\ cancel # None) /\ UNCHANGED <<cancelled, cancel>>
    BY <1>5 DEF Remove
  <2>2. refs - 1 = Cardinality(senders \ {h}) /\ refs - 1 \in Nat /\ (refs = 1 <=> senders = {h})
    BY <1>5, CountStep
  <2>3. RefsCount' /\ SendersAdded'
    BY <1>1, <2>1, <2>2 DEF RefsCount, SendersAdded, TypeOK
  <2>4. TypeOK'
    BY <1>1, <2>1, <2>2 DEF TypeOK
  <2>5. FirstFull'
    BY <1>1, <1>2, <2>1 DEF FirstFull, OneLoop
  <2>6. CASE refs = 1
    <3>1. /\ senders' = {} /\ cancel # None
          /\ cancelled' = cancelled \cup {cancel} /\ cancel' = None
      BY <1>5, <2>1, <2>2, <2>6 DEF LoopAlive
    <3> QED
      BY <1>1, <1>2, <1>3, <2>3, <2>4, <2>5, <3>1
      DEF LoopAlive, LoopOnlyWhileUsed, Running, Started, TypeOK
  <2>7. CASE refs # 1
    <3>1. senders' # {} /\ senders # {} /\ UNCHANGED <<cancelled, cancel>>
      BY <1>5, <2>1, <2>2, <2>7
    <3> QED
      BY <1>1, <1>2, <1>3, <2>3, <2>4, <2>5, <3>1 DEF LoopAlive, LoopOnlyWhileUsed, Running
  <2> QED
    BY <2>6, <2>7
<1> QED
  BY <1>4, <1>5

\* HubClose: a sender that is closed waits for no frame.
LEMMA HubCloseStep == ASSUME IInv, NEW h \in Hub, HubClose(h) PROVE IInv'
<1> USE DEF IInv
<1>1. /\ closed' = closed \cup {h}
      /\ UNCHANGED <<conn, senders, refs, cancel, hasLast, loop, cancelled, full, first, lossy, emptied>>
  BY DEF HubClose, loopVars
<1>2. TypeOK' /\ RefsCount' /\ SendersAdded'
  BY <1>1 DEF TypeOK, RefsCount, SendersAdded
<1>3. LoopsInTurn' /\ LoopAlive' /\ LoopOnlyWhileUsed'
  BY <1>1 DEF LoopsInTurn, Started, Joined, LoopAlive, LoopOnlyWhileUsed, Running
<1>4. FirstFull'
  BY <1>1 DEF FirstFull, OneLoop, Started
<1> QED
  BY <1>2, <1>3, <1>4

\* A loop goroutine stays a loop goroutine.
LEMMA GoStep ==
  ASSUME IInv, NEW i \in Loop, NEW to \in {"wait", "collect", "send", "ended"},
         loop[i] \notin {"none", "ended"}, loop' = [loop EXCEPT ![i] = to],
         to = "ended" => i \in cancelled, UNCHANGED <<conn, cancelled>>
  PROVE  /\ Started' = Started /\ Joined' = Joined /\ LoopsInTurn'
         /\ i \in Started
         /\ \A j \in Loop : Running(j)' <=> Running(j)
         /\ \A j \in Loop : loop'[j] = IF j = i THEN to ELSE loop[j]
         /\ loop' \in [Loop -> {"none", "wait", "collect", "send", "ended"}]
<1>1. /\ \A j \in Loop : loop'[j] = IF j = i THEN to ELSE loop[j]
      /\ loop' \in [Loop -> {"none", "wait", "collect", "send", "ended"}]
  BY DEF IInv, TypeOK
<1>2. Started' = Started /\ Joined' = Joined /\ i \in Started
  BY <1>1 DEF Started, Joined
<1>3. LoopsInTurn'
  BY <1>2 DEF IInv, LoopsInTurn
<1> QED
  BY <1>1, <1>2, <1>3 DEF Running

\* Tick, Cancelled and CollectFails: the goroutine goes on, or ends when it has been told to.
LEMMA WaitStep ==
  ASSUME IInv, NEW i \in Loop, Tick(i) \/ Cancelled(i) \/ CollectFails(i)
  PROVE  IInv'
<1>1. PICK to \in {"wait", "collect", "ended"} :
        /\ loop' = [loop EXCEPT ![i] = to] /\ loop[i] \in {"wait", "collect"}
        /\ to = "ended" => i \in cancelled
        /\ UNCHANGED <<conn, closed, senders, refs, cancel, hasLast, cancelled, full, first, lossy,
                       emptied>>
  BY DEF Tick, Cancelled, CollectFails, Go
<1>2. /\ Started' = Started /\ LoopsInTurn'
      /\ \A j \in Loop : Running(j)' <=> Running(j)
      /\ \A j \in Loop : loop'[j] = IF j = i THEN to ELSE loop[j]
      /\ loop' \in [Loop -> {"none", "wait", "collect", "send", "ended"}]
  BY <1>1, GoStep
<1>3. TypeOK' /\ RefsCount' /\ SendersAdded'
  BY <1>1, <1>2 DEF IInv, TypeOK, RefsCount, SendersAdded
<1>4. LoopAlive' /\ LoopOnlyWhileUsed'
  BY <1>1, <1>2 DEF IInv, LoopAlive, LoopOnlyWhileUsed, TypeOK
<1>5. FirstFull'
  BY <1>1, <1>2 DEF IInv, FirstFull, OneLoop
<1> QED
  BY <1>2, <1>3, <1>4, <1>5 DEF IInv

\* Collect: without a last snapshot, the frame in hand is a full one.
LEMMA CollectStep == ASSUME IInv, NEW i \in Loop, Collect(i) PROVE IInv'
<1>1. /\ loop[i] = "collect" /\ loop' = [loop EXCEPT ![i] = "send"]
      /\ full' = [full EXCEPT ![i] = ~hasLast] /\ hasLast' = TRUE
      /\ UNCHANGED <<conn, closed, senders, refs, cancel, cancelled, first, lossy, emptied>>
  BY DEF Collect, Go
<1>2. /\ Started' = Started /\ LoopsInTurn' /\ i \in Started
      /\ \A j \in Loop : Running(j)' <=> Running(j)
      /\ \A j \in Loop : loop'[j] = IF j = i THEN "send" ELSE loop[j]
      /\ loop' \in [Loop -> {"none", "wait", "collect", "send", "ended"}]
  BY <1>1, GoStep
<1>3. TypeOK' /\ RefsCount' /\ SendersAdded'
  <2>1. full' \in [Loop -> BOOLEAN]
    BY <1>1 DEF IInv, TypeOK
  <2>2. hasLast' \in BOOLEAN /\ emptied' \in BOOLEAN
    BY <1>1 DEF IInv, TypeOK
  <2> QED
    BY <1>1, <1>2, <2>1, <2>2 DEF IInv, TypeOK, RefsCount, SendersAdded
<1>4. LoopAlive' /\ LoopOnlyWhileUsed'
  BY <1>1, <1>2 DEF IInv, LoopAlive, LoopOnlyWhileUsed, TypeOK
<1>5. FirstFull'
  <2>1. SUFFICES ASSUME OneLoop, OneLoop' PROVE FirstFull'
    BY <1>2 DEF FirstFull, OneLoop
  <2>2. \A j \in Loop : loop[j] # "send"
    BY <1>1, <2>1, <1>2 DEF OneLoop, Started
  <2>3. full'[i] <=> ~hasLast
    BY <1>1 DEF IInv, TypeOK
  <2> QED
    BY <1>1, <1>2, <2>1, <2>2, <2>3 DEF IInv, FirstFull
<1> QED
  BY <1>2, <1>3, <1>4, <1>5 DEF IInv

\* Broadcast: senders that refuse the frame are taken out and off the count.
LEMMA BroadcastStep == ASSUME IInv, NEW i \in Loop, Broadcast(i) PROVE IInv'
<1>1. /\ loop[i] = "send" /\ loop' = [loop EXCEPT ![i] = "wait"]
      /\ SendTo(senders, full[i])
      /\ senders' = senders \ closed /\ refs' = refs - Cardinality(senders \cap closed)
      /\ UNCHANGED <<conn, closed, cancel, hasLast, cancelled, full>>
  BY DEF Broadcast, Go
<1>2. /\ Started' = Started /\ LoopsInTurn' /\ i \in Started
      /\ \A j \in Loop : Running(j)' <=> Running(j)
      /\ \A j \in Loop : loop'[j] = IF j = i THEN "wait" ELSE loop[j]
      /\ loop' \in [Loop -> {"none", "wait", "collect", "send", "ended"}]
  BY <1>1, GoStep
<1>3. /\ emptied' \in BOOLEAN
      /\ ~emptied' => ~emptied /\ (senders' = {} => senders = {})
  <2>1. emptied' = (emptied \/ (senders # {} /\ senders' = {}))
    BY DEF Broadcast
  <2> QED
    BY <2>1, Zenon
<1>4. /\ first' \in [Hub -> {"none", "full", "delta"}] /\ lossy' \subseteq Hub
      /\ lossy \subseteq lossy'
      /\ \A h \in Hub : first'[h] \in {first[h], Frame(full[i])}
      /\ \A h \in (senders \ closed) \ lossy' :
           first'[h] = IF first[h] = "none" THEN Frame(full[i]) ELSE first[h]
      /\ \A h \in Hub : first[h] # "none" \/ h \notin senders \ closed => first'[h] = first[h]
  <2>1. senders \in SUBSET Hub /\ full[i] \in BOOLEAN /\ TypeOK
    BY DEF IInv, TypeOK
  <2> QED
    BY <1>1, <2>1, SendEach
<1>5. TypeOK' /\ RefsCount' /\ SendersAdded'
  <2>1. RefsCount' /\ refs' \in Nat
    BY <1>1, CountStep DEF IInv, RefsCount
  <2>2. TypeOK'
    BY <1>1, <1>2, <1>3, <1>4, <2>1 DEF IInv, TypeOK
  <2> QED
    BY <1>1, <2>1, <2>2 DEF IInv, SendersAdded
<1>6. LoopAlive' /\ LoopOnlyWhileUsed'
  BY <1>1, <1>2, <1>3 DEF IInv, LoopAlive, LoopOnlyWhileUsed, TypeOK
<1>7. FirstFull'
  <2>1. SUFFICES ASSUME OneLoop, OneLoop' PROVE FirstFull'
    BY <1>2 DEF FirstFull, OneLoop
  <2>2. hasLast /\ \A j \in Loop : loop[j] = "send" => j = i
    BY <1>1, <1>2, <2>1 DEF IInv, FirstFull, OneLoop, Started
  <2>3. \A h \in (senders \ closed) \ lossy : first[h] = "none" => full[i]
    BY <2>1, <2>2 DEF IInv, FirstFull
  <2>4. \A h \in Hub \ lossy' : first'[h] # "delta"
    <3> SUFFICES ASSUME NEW h \in Hub \ lossy' PROVE first'[h] # "delta"
      OBVIOUS
    <3>1. first[h] # "delta" /\ h \notin lossy
      BY <1>4, <2>1 DEF IInv, FirstFull
    <3>2. CASE h \in senders \ closed /\ first[h] = "none"
      BY <1>4, <2>3, <3>1, <3>2 DEF Frame
    <3>3. CASE ~(h \in senders \ closed /\ first[h] = "none")
      BY <1>4, <3>1, <3>3
    <3> QED
      BY <3>2, <3>3
  <2>5. \A h \in (senders \ closed) \ lossy' : first'[h] # "none"
    BY <1>4 DEF Frame
  <2> QED
    BY <1>1, <1>2, <1>4, <2>1, <2>2, <2>4, <2>5 DEF IInv, FirstFull, TypeOK
<1> QED
  BY <1>2, <1>5, <1>6, <1>7 DEF IInv

-----------------------------------------------------------------------------
\* The inductive invariant.
THEOREM Invariance == Spec => []IInv
<1>1. Init => IInv
  <2> SUFFICES ASSUME Init PROVE IInv
    OBVIOUS
  <2> USE DEF Init
  <2>1. TypeOK
    <3>1. hasLast \in BOOLEAN /\ emptied \in BOOLEAN
      OBVIOUS
    <3> QED
      BY <3>1 DEF TypeOK
  <2>2. Started = {} /\ Joined = {}
    BY DEF Started, Joined
  <2>3. LoopsInTurn /\ RefsCount
    BY <2>2, FS_EmptySet DEF LoopsInTurn, RefsCount
  <2>4. SendersAdded /\ LoopAlive /\ LoopOnlyWhileUsed
    BY DEF SendersAdded, LoopAlive, LoopOnlyWhileUsed, Running
  <2>5. FirstFull
    BY DEF FirstFull
  <2> QED
    BY <2>1, <2>3, <2>4, <2>5 DEF IInv
<1>2. IInv /\ [Next]_vars => IInv'
  <2> SUFFICES ASSUME IInv, [Next]_vars PROVE IInv'
    OBVIOUS
  <2>1. ASSUME NEW h \in Hub, Add(h) \/ HubClose(h) \/ Remove(h) PROVE IInv'
    BY <2>1, AddStep, HubCloseStep, RemoveStep
  <2>2. ASSUME NEW i \in Loop, LoopStep(i) PROVE IInv'
    BY <2>2, WaitStep, CollectStep, BroadcastStep DEF LoopStep
  <2>3. CASE UNCHANGED vars
    <3>1. TypeOK' /\ RefsCount' /\ SendersAdded'
      BY <2>3 DEF vars, IInv, TypeOK, RefsCount, SendersAdded
    <3>2. LoopsInTurn' /\ LoopAlive' /\ LoopOnlyWhileUsed'
      BY <2>3 DEF vars, IInv, LoopsInTurn, Started, Joined, LoopAlive, LoopOnlyWhileUsed, Running
    <3>3. FirstFull'
      BY <2>3 DEF vars, IInv, FirstFull, OneLoop, Started
    <3> QED
      BY <3>1, <3>2, <3>3 DEF IInv
  <2> QED
    BY <2>1, <2>2, <2>3 DEF Next
<1> QED
  BY <1>1, <1>2, PTL DEF Spec

\* Count, senders and running loops agree (Add, Remove and broadcast each change them
\* under c.mu in a critical section of their own).
THEOREM LoopsAndSendersMatch == Spec => []LoopsMatchSenders
<1>1. IInv => LoopsMatchSenders
  BY DEF IInv, LoopsMatchSenders, SendersServed, LoopAlive, TypeOK
<1> QED
  BY <1>1, Invariance, PTL

\* Until a second loop is started, the first frame that goes to a connection is a
\* full one, unless its full queue has dropped one (Add and run in collector.go,
\* Send in hub.go).
THEOREM FirstFrameFull == Spec => []FullFrameFirst
<1>1. IInv => FullFrameFirst
  <2> SUFFICES ASSUME IInv, NEW h \in Hub \ lossy, first[h] = "delta" PROVE Cardinality(Started) > 1
    BY DEF FullFrameFirst, Started
  <2>1. PICK i, j \in Started : i # j
    BY DEF IInv, FirstFull, OneLoop
  <2>2. PICK n \in 0 .. Cardinality(Joined) : Started = 1 .. n
    BY DEF IInv, LoopsInTurn
  <2>3. Cardinality(Joined) \in Nat
    BY HubsFinite DEF Joined
  <2>4. n \in Nat /\ n > 1
    BY <2>1, <2>2, <2>3
  <2>5. Cardinality(Started) = n
    BY <2>2, <2>4, FS_Interval
  <2> QED
    BY <2>4, <2>5
<1> QED
  BY <1>1, Invariance, PTL
=============================================================================
