--------------------------- MODULE StatsCollector ---------------------------
(***************************************************************************)
(* internal/stats/collector.go: the reference-counted broadcast of system  *)
(* statistics.  Every connection adds its hub and removes it when handleWS *)
(* ends; the loop goroutine that Add starts ticks once a second, compares  *)
(* a new snapshot with the last one and sends the difference to all.       *)
(*                                                                         *)
(* A snapshot is abstracted to what its frames differ in: the kernel and   *)
(* host name, which a frame carries only when the previous snapshot, the   *)
(* collector's and not the client's, did not have them.                    *)
(***************************************************************************)
EXTENDS Integers, FiniteSets

CONSTANTS Hub,   \* senders, one per connection
          None

\* Every Add may start a loop, so there are at most as many as connections.
Loop == 1 .. Cardinality(Hub)

ASSUME HubAssumption == IsFiniteSet(Hub) /\ None \notin Loop

VARIABLES
  conn,       \* of each hub: "new", "added", "removed" (Remove has been called)
  closed,     \* hubs that are closed: Send returns an error
  senders,    \* c.senders
  refs,       \* c.refs
  cancel,     \* the loop c.cancel stops, or None
  hasLast,    \* c.last holds a snapshot
  loop,       \* of each goroutine: "none", "wait", "collect", "send", "ended"
  cancelled,  \* loops whose context is cancelled
  full,       \* per loop: the frame about to be sent has all fields
  first,      \* of each hub: the first frame in its queue: "none", "full", "delta"
  lossy,      \* history: hubs whose full queue has dropped a frame
  emptied     \* history: a broadcast has taken out the last sender

vars == <<conn, closed, senders, refs, cancel, hasLast, loop, cancelled, full, first, lossy,
          emptied>>
loopVars == <<loop, cancelled, full>>

TypeOK ==
  /\ conn \in [Hub -> {"new", "added", "removed"}]
  /\ closed \subseteq Hub /\ senders \subseteq Hub
  /\ refs \in Nat
  /\ cancel \in Loop \cup {None}
  /\ hasLast \in BOOLEAN
  /\ loop \in [Loop -> {"none", "wait", "collect", "send", "ended"}]
  /\ cancelled \subseteq Loop
  /\ full \in [Loop -> BOOLEAN]
  /\ first \in [Hub -> {"none", "full", "delta"}]
  /\ lossy \subseteq Hub
  /\ emptied \in BOOLEAN

Init ==
  /\ conn = [h \in Hub |-> "new"]
  /\ closed = {} /\ senders = {} /\ refs = 0 /\ cancel = None /\ hasLast = FALSE
  /\ loop = [i \in Loop |-> "none"]
  /\ cancelled = {}
  /\ full = [i \in Loop |-> FALSE]
  /\ first = [h \in Hub |-> "none"] /\ lossy = {}
  /\ emptied = FALSE

Frame(isFull) == IF isFull THEN "full" ELSE "delta"

\* Send of a frame to the hubs in S. One that is closed returns an error; one whose
\* queue is full drops the frame and returns nil.
SendTo(S, isFull) ==
  \E dropped \in SUBSET (S \ closed) :
    /\ lossy' = lossy \cup dropped
    /\ first' = [h \in Hub |-> IF h \in (S \ closed) \ dropped /\ first[h] = "none"
                              THEN Frame(isFull) ELSE first[h]]

\* Goroutines that have not been started yet are interchangeable.
NextLoop == CHOOSE i \in Loop : loop[i] = "none" /\ \A j \in Loop : loop[j] = "none" => i <= j
-----------------------------------------------------------------------------
\* Seeded bug: a client that joins later is not sent the last snapshot.
AddNoSnapshot(h) ==
  /\ conn[h] = "new"
  /\ conn' = [conn EXCEPT ![h] = "added"]
  /\ senders' = senders \cup {h}
  /\ refs' = refs + 1
  /\ IF refs = 0
     THEN loop' = [loop EXCEPT ![NextLoop] = "wait"] /\ cancel' = NextLoop
     ELSE UNCHANGED <<loop, cancel>>
  /\ UNCHANGED <<closed, hasLast, cancelled, full, first, lossy, emptied>>

Add(h) ==
  /\ conn[h] = "new"
  /\ conn' = [conn EXCEPT ![h] = "added"]
  /\ senders' = senders \cup {h}
  /\ refs' = refs + 1
  /\ IF refs = 0
     THEN /\ loop' = [loop EXCEPT ![NextLoop] = "wait"]
          /\ cancel' = NextLoop
          /\ UNCHANGED <<first, lossy>>
     ELSE /\ IF hasLast THEN SendTo({h}, TRUE) ELSE UNCHANGED <<first, lossy>>
          /\ UNCHANGED <<loop, cancel>>
  /\ UNCHANGED <<closed, hasLast, cancelled, full, emptied>>

\* The hub's connection ends.
HubClose(h) ==
  /\ conn[h] = "added" /\ h \notin closed
  /\ closed' = closed \cup {h}
  /\ UNCHANGED <<conn, senders, refs, cancel, hasLast, loopVars, first, lossy, emptied>>

\* Deferred in handleWS, so after the hub has closed; nothing to do for a sender the
\* loop has already removed.
Remove(h) ==
  /\ conn[h] = "added" /\ h \in closed
  /\ conn' = [conn EXCEPT ![h] = "removed"]
  /\ IF h \notin senders
     THEN UNCHANGED <<senders, refs, cancel, cancelled>>
     ELSE /\ senders' = senders \ {h}
          /\ refs' = refs - 1
          /\ IF refs = 1 /\ cancel # None
             THEN cancelled' = cancelled \cup {cancel} /\ cancel' = None
             ELSE UNCHANGED <<cancelled, cancel>>
  /\ UNCHANGED <<closed, hasLast, loop, full, first, lossy, emptied>>
-----------------------------------------------------------------------------
(* The loop goroutine *)

Go(i, from, to) == loop[i] = from /\ loop' = [loop EXCEPT ![i] = to]

\* The select: the ticker fires, which may win over a cancelled context, ...
Tick(i) ==
  /\ Go(i, "wait", "collect")
  /\ UNCHANGED <<conn, closed, senders, refs, cancel, hasLast, cancelled, full, first, lossy, emptied>>

\* ... or the goroutine returns.
Cancelled(i) ==
  /\ i \in cancelled
  /\ Go(i, "wait", "ended")
  /\ UNCHANGED <<conn, closed, senders, refs, cancel, hasLast, cancelled, full, first, lossy, emptied>>

\* Seeded bug: return in place of continue.
CollectGivesUp(i) ==
  /\ Go(i, "collect", "ended")
  /\ UNCHANGED <<conn, closed, senders, refs, cancel, hasLast, cancelled, full, first, lossy, emptied>>

\* A reader of /proc fails: no frame on this tick.
CollectFails(i) ==
  /\ Go(i, "collect", "wait")
  /\ UNCHANGED <<conn, closed, senders, refs, cancel, hasLast, cancelled, full, first, lossy, emptied>>

\* Under c.mu: the difference to the last snapshot, which is replaced.
Collect(i) ==
  /\ Go(i, "collect", "send")
  /\ full' = [full EXCEPT ![i] = ~hasLast]
  /\ hasLast' = TRUE
  /\ UNCHANGED <<conn, closed, senders, refs, cancel, cancelled, first, lossy, emptied>>

\* Seeded bug: a sender is removed and still counted.
BroadcastUncounted(i) ==
  /\ Go(i, "send", "wait")
  /\ SendTo(senders, full[i])
  /\ senders' = senders \ closed
  /\ UNCHANGED <<conn, closed, refs, cancel, hasLast, cancelled, full, emptied>>

\* Under c.mu again: senders that refuse the frame are removed, here without a
\* look at whether any is left.
Broadcast(i) ==
  /\ Go(i, "send", "wait")
  /\ SendTo(senders, full[i])
  /\ senders' = senders \ closed
  /\ refs' = refs - Cardinality(senders \cap closed)
  /\ emptied' = (emptied \/ (senders # {} /\ senders' = {}))
  /\ UNCHANGED <<conn, closed, cancel, hasLast, cancelled, full>>

LoopStep(i) == Tick(i) \/ Cancelled(i) \/ CollectFails(i) \/ Collect(i) \/ Broadcast(i)

Next ==
  \/ \E h \in Hub : Add(h) \/ HubClose(h) \/ Remove(h)
  \/ \E i \in Loop : LoopStep(i)

Spec == Init /\ [][Next]_vars

\* The ticker fires, select is fair between its two cases over time, /proc can be
\* read in the end, and handleWS runs its deferred call.
Fairness ==
  /\ \A h \in Hub : WF_vars(Remove(h))
  /\ \A i \in Loop : /\ WF_vars(Tick(i)) /\ SF_vars(Cancelled(i))
                     /\ SF_vars(Collect(i)) /\ WF_vars(Broadcast(i))

FairSpec == Spec /\ Fairness
-----------------------------------------------------------------------------
Running(i) == loop[i] \notin {"none", "ended"} /\ i \notin cancelled

\* The count is the number of senders, although both Remove and the broadcast take
\* a sender out, in either order.
RefsCount == refs = Cardinality(senders)

\* While anyone is registered, a loop that nobody has cancelled serves them.
SendersServed == senders # {} => \E i \in Loop : Running(i)

\* collector.go: "the background goroutine runs only while at least one sender is
\* registered, and stops automatically when the last one leaves".  There is one loop
\* that is not cancelled, with a sender to serve, until a broadcast has taken out the
\* last sender: that one leaves the loop running, and the next Add starts another.
LoopOnlyWhileUsed == ~emptied => \A i \in Loop : Running(i) => i = cancel /\ senders # {}

\* Count, senders and loops agree, although Add, Remove and the broadcast change
\* them in critical sections of their own.
LoopsMatchSenders == TypeOK /\ RefsCount /\ SendersServed /\ LoopOnlyWhileUsed

\* collector.go: "The first frame a client receives is always a full Snapshot".  It
\* holds until the collector has been idle and a second loop is started, which finds
\* the snapshot of the first one: a client that joins between a tick's two critical
\* sections, or between ticks, is sent the last snapshot by Add. And it holds of
\* what is sent: the hub may drop that frame, and no later one makes up for it.
FullFrameFirst ==
  (\E h \in Hub \ lossy : first[h] = "delta") => Cardinality({i \in Loop : loop[i] # "none"}) > 1

\* A connection that stays up is sent statistics, although readings of /proc fail
\* and loops end and start; it gets them unless its queue is full.
FramesArrive ==
  \A h \in Hub : conn[h] = "added" ~> (first[h] # "none" \/ h \in closed \/ h \in lossy)
=============================================================================
