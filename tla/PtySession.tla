----------------------------- MODULE PtySession -----------------------------
(***************************************************************************)
(* internal/pty/session.go: one terminal, its reader goroutine, and the    *)
(* WebSocket connections (hubs) it streams to.                             *)
(*                                                                         *)
(* The shell's output is a sequence of bytes known by their positions      *)
(* 1, 2, 3 ...; a frame carries a range of them.  The ring buffer holds    *)
(* the newest RingCap positions (module RingBuf shows that it does), so    *)
(* the count of bytes written to it is all the state it needs here.        *)
(*                                                                         *)
(* A hub is seen from the session: Send puts a frame in a bounded queue,   *)
(* drops it when the queue is full, refuses it when the hub is closed; the *)
(* writer goroutine empties the queue towards the client.  The inside of a *)
(* hub is module Hub.  The server (server.go) attaches a hub when its read *)
(* goroutine handles an OpenPTY frame and detaches when handleWS ends.     *)
(***************************************************************************)
EXTENDS Integers, Sequences

CONSTANTS Hub,       \* the connections of this terminal's user
          None,      \* no hub attached
          RingCap,   \* DefaultRingCap, in bytes
          QueueCap,  \* writeChanSize
          MaxRead,   \* most bytes one Read of the ptmx returns
          MaxOut,    \* bound: bytes the shell writes in a behaviour
          MaxOpens   \* bound: OpenPTY frames for this terminal in a behaviour

ASSUME NoneAssumption == None \notin Hub
ASSUME BoundAssumption ==
  /\ RingCap \in Nat \ {0} /\ QueueCap \in Nat \ {0}
  /\ MaxRead \in Nat \ {0} /\ MaxOut \in Nat /\ MaxOpens \in Nat

VARIABLES
  shell,    \* "running", "exited" or "reaped"
  mapped,   \* the session is in the user's map of terminals
  closing,  \* how far Close has come: "no", "done", "killed", "shut", "closed"
  reader,   \* the reader goroutine: at the "top" of its loop, in "read",
            \* about to "deliver" what it read, or it has "exited"
  got,      \* bytes read and not yet written to the ring
  eof,      \* whether that Read also returned an error
  logged,   \* bytes written to the ring so far
  sender,   \* s.sender
  life,     \* of each hub: "new", "open", "closed", "gone" (handleWS ended)
  opening,  \* hubs whose read goroutine is in handleOpenPTY, before Attach
  opens,    \* OpenPTY frames handled so far
  queue,    \* writeCh of each hub, the frames of this terminal
  recv,     \* what each hub's client has received
  upto,     \* history: highest position offered to the hub
  dropped   \* history: a Send to the hub failed after the last one accepted

ptyVars == <<shell, mapped, closing, reader, got, eof, logged, sender>>
hubVars == <<life, opening, opens, queue, recv, upto, dropped>>
vars == <<ptyVars, hubVars>>

Frame == [lo : Nat \ {0}, hi : Nat, replay : BOOLEAN, afterDrop : BOOLEAN]

TypeOK ==
  /\ shell \in {"running", "exited", "reaped"}
  /\ mapped \in BOOLEAN
  /\ closing \in {"no", "done", "killed", "shut", "closed"}
  /\ reader \in {"top", "read", "deliver", "exited"}
  /\ got \in Nat
  /\ eof \in BOOLEAN
  /\ logged \in Nat
  /\ sender \in Hub \cup {None}
  /\ life \in [Hub -> {"new", "open", "closed", "gone"}]
  /\ opening \in SUBSET Hub
  /\ opens \in Nat
  /\ queue \in [Hub -> Seq(Frame)]
  /\ recv \in [Hub -> Seq(Frame)]
  /\ upto \in [Hub -> Nat]
  /\ dropped \in [Hub -> BOOLEAN]

\* New: the shell is spawned, the reader goroutine started, no sender yet.
Init ==
  /\ shell = "running" /\ mapped = TRUE /\ closing = "no"
  /\ reader = "top" /\ got = 0 /\ eof = FALSE /\ logged = 0
  /\ sender = None
  /\ life = [h \in Hub |-> "new"]
  /\ opening = {}
  /\ opens = 0
  /\ queue = [h \in Hub |-> << >>]
  /\ recv = [h \in Hub |-> << >>]
  /\ upto = [h \in Hub |-> 0]
  /\ dropped = [h \in Hub |-> FALSE]
-----------------------------------------------------------------------------
(* Sending *)

\* Seeded bug: a full queue drops its oldest frame to make room.
SendEvict(h, lo, hi, isReplay) ==
  LET f == [lo |-> lo, hi |-> hi, replay |-> isReplay, afterDrop |-> dropped[h]]
      room == IF Len(queue[h]) < QueueCap THEN queue[h] ELSE Tail(queue[h])
      accept == life[h] = "open"
  IN /\ queue' = IF accept THEN [queue EXCEPT ![h] = Append(room, f)] ELSE queue
     /\ dropped' = [dropped EXCEPT ![h] = ~accept]
     /\ upto' = [upto EXCEPT ![h] = hi]

\* Hub.Send of positions lo .. hi to h: queued, dropped because the queue is
\* full, or refused because the hub is closed.  The caller ignores the outcome.
Send(h, lo, hi, isReplay) ==
  LET f == [lo |-> lo, hi |-> hi, replay |-> isReplay, afterDrop |-> dropped[h]]
      accept == life[h] = "open" /\ Len(queue[h]) < QueueCap
  IN /\ queue' = IF accept THEN [queue EXCEPT ![h] = Append(@, f)] ELSE queue
     /\ dropped' = [dropped EXCEPT ![h] = ~accept]
     /\ upto' = [upto EXCEPT ![h] = hi]

NoSend == UNCHANGED <<queue, dropped, upto>>

RingLowShort == IF logged > RingCap THEN logged - RingCap + 2 ELSE 1

\* The oldest position in the ring buffer.
RingLow == IF logged > RingCap THEN logged - RingCap + 1 ELSE 1
-----------------------------------------------------------------------------
(* The reader goroutine *)

\* The select at the top of the loop.
ReaderTop ==
  /\ reader = "top"
  /\ reader' = IF closing = "no" THEN "read" ELSE "exited"
  /\ UNCHANGED <<shell, mapped, closing, got, eof, logged, sender, hubVars>>

\* s.ptmx.Read returns n bytes; with an error too when the shell is gone.
ReaderRead(n) ==
  /\ reader = "read"
  /\ closing \notin {"shut", "closed"}
  /\ logged + n <= MaxOut
  /\ got' = n
  /\ eof' \in {FALSE, shell # "running"}
  /\ reader' = "deliver"
  /\ UNCHANGED <<shell, mapped, closing, logged, sender, hubVars>>

\* Read fails without data: the shell has exited or Close has closed the ptmx.
ReaderFail ==
  /\ reader = "read"
  /\ shell # "running" \/ closing \in {"shut", "closed"}
  /\ reader' = "exited"
  /\ UNCHANGED <<shell, mapped, closing, got, eof, logged, sender, hubVars>>

\* Under senderMu: write to the ring, and forward when a sender is attached.
ReaderDeliver ==
  /\ reader = "deliver"
  /\ logged' = logged + got
  /\ IF sender # None THEN Send(sender, logged + 1, logged + got, FALSE) ELSE NoSend
  /\ got' = 0 /\ eof' = FALSE
  /\ reader' = IF eof THEN "exited" ELSE "top"
  /\ UNCHANGED <<shell, mapped, closing, sender, life, opening, opens, recv>>

Reader == ReaderTop \/ (\E n \in 1 .. MaxRead : ReaderRead(n)) \/ ReaderFail \/ ReaderDeliver
-----------------------------------------------------------------------------
(* The shell process and Close *)

ShellExit ==
  /\ shell = "running"
  /\ shell' = "exited"
  /\ UNCHANGED <<mapped, closing, reader, got, eof, logged, sender, hubVars>>

\* removePTY takes the session out of the map before it closes it; when the hub
\* had a handler for the channel, Unregister has closed it already.
RemovePTY ==
  /\ mapped
  /\ mapped' = FALSE
  /\ UNCHANGED <<shell, closing, reader, got, eof, logged, sender, hubVars>>

\* Close runs once: close(done), kill the process group, close the ptmx, reap.
CloseDone ==
  /\ closing = "no"
  /\ closing' = "done"
  /\ UNCHANGED <<shell, mapped, reader, got, eof, logged, sender, hubVars>>

\* Seeded bug: the process group is not killed.
CloseNoKill ==
  /\ closing = "done"
  /\ closing' = "killed"
  /\ UNCHANGED <<shell, mapped, reader, got, eof, logged, sender, hubVars>>

CloseKill ==
  /\ closing = "done"
  /\ closing' = "killed"
  /\ shell' = "exited"
  /\ UNCHANGED <<mapped, reader, got, eof, logged, sender, hubVars>>

ClosePtmx ==
  /\ closing = "killed"
  /\ closing' = "shut"
  /\ UNCHANGED <<shell, mapped, reader, got, eof, logged, sender, hubVars>>

\* cmd.Wait blocks until the process has exited.
CloseWait ==
  /\ closing = "shut"
  /\ shell = "exited"
  /\ closing' = "closed"
  /\ shell' = "reaped"
  /\ UNCHANGED <<mapped, reader, got, eof, logged, sender, hubVars>>

Close == CloseDone \/ CloseKill \/ ClosePtmx \/ CloseWait
-----------------------------------------------------------------------------
(* The hubs of the user's connections *)

Connect(h) ==
  /\ life[h] = "new"
  /\ life' = [life EXCEPT ![h] = "open"]
  /\ UNCHANGED <<ptyVars, opening, opens, queue, recv, upto, dropped>>

\* The hub's read goroutine takes an OpenPTY frame for this terminal and finds
\* the session in the user's map.
OpenPTY(h) ==
  /\ life[h] = "open"
  /\ mapped
  /\ h \notin opening
  /\ opens < MaxOpens
  /\ opens' = opens + 1
  /\ opening' = opening \cup {h}
  /\ UNCHANGED <<ptyVars, life, queue, recv, upto, dropped>>

\* Seeded bug: becomes the sender without replaying the ring.
AttachNoReplay(h) ==
  /\ h \in opening
  /\ NoSend
  /\ sender' = h
  /\ opening' = opening \ {h}
  /\ UNCHANGED <<shell, mapped, closing, reader, got, eof, logged, life, opens, recv>>

\* Attach, under senderMu: replay the ring as one frame, then become the sender.
\* The goroutine may get here after the hub has been closed by its writer.
Attach(h) ==
  /\ h \in opening
  /\ IF logged > 0 THEN Send(h, RingLow, logged, TRUE) ELSE NoSend
  /\ sender' = h
  /\ opening' = opening \ {h}
  /\ UNCHANGED <<shell, mapped, closing, reader, got, eof, logged, life, opens, recv>>

\* Seeded bug: the writer returns after its first frame.
WriterReturns(h) ==
  /\ life[h] = "open"
  /\ queue[h] # << >> /\ recv[h] = << >>
  /\ recv' = [recv EXCEPT ![h] = Append(@, Head(queue[h]))]
  /\ queue' = [queue EXCEPT ![h] = Tail(@)]
  /\ UNCHANGED <<ptyVars, life, opening, opens, upto, dropped>>

\* The writer goroutine writes the oldest queued frame to the client.
Writer(h) ==
  /\ life[h] = "open"
  /\ queue[h] # << >>
  /\ recv' = [recv EXCEPT ![h] = Append(@, Head(queue[h]))]
  /\ queue' = [queue EXCEPT ![h] = Tail(@)]
  /\ UNCHANGED <<ptyVars, life, opening, opens, upto, dropped>>

\* The connection fails: the hub closes, what is queued is never written.
HubClose(h) ==
  /\ life[h] = "open"
  /\ life' = [life EXCEPT ![h] = "closed"]
  /\ UNCHANGED <<ptyVars, opening, opens, queue, recv, upto, dropped>>

\* handleWS of h returns from Run and calls detachHub, which detaches every
\* terminal in the map, whichever hub it is attached to.
Teardown(h) ==
  /\ life[h] = "closed"
  /\ life' = [life EXCEPT ![h] = "gone"]
  /\ sender' = IF mapped THEN None ELSE sender
  /\ UNCHANGED <<shell, mapped, closing, reader, got, eof, logged, opening, opens, queue, recv, upto, dropped>>

HubStep(h) ==
  Connect(h) \/ OpenPTY(h) \/ Attach(h) \/ Writer(h) \/ HubClose(h) \/ Teardown(h)

Next == Reader \/ ShellExit \/ RemovePTY \/ Close \/ \E h \in Hub : HubStep(h)

Spec == Init /\ [][Next]_vars

\* Goroutines that can run do run; removePTY goes on to Close and Close runs to its
\* end once called; nothing makes the shell write, the user close the terminal or a connection fail.
Fairness ==
  /\ WF_vars(ReaderTop) /\ WF_vars(ReaderFail) /\ WF_vars(ReaderDeliver)
  /\ WF_vars(~mapped /\ CloseDone) /\ WF_vars(CloseKill) /\ WF_vars(ClosePtmx) /\ WF_vars(CloseWait)
  /\ \A h \in Hub : WF_vars(Attach(h)) /\ WF_vars(Writer(h)) /\ WF_vars(Teardown(h))

FairSpec == Spec /\ Fairness
-----------------------------------------------------------------------------
(* Correctness *)

\* Everything accepted for h's client, in order.
Stream(h) == recv[h] \o queue[h]

\* What the sender has been offered is all that is in the ring: a replay and the
\* live frames after it meet without a gap or an overlap, because Attach and the
\* reader hold senderMu for both the ring and the sender.
SenderCurrent == sender # None => upto[sender] = logged

\* The last position of a stream, 0 when it is empty.
LastHi(s) == IF Len(s) = 0 THEN 0 ELSE s[Len(s)].hi

\* Every frame but a replay, or the first one accepted after a Send that failed,
\* starts right after the frame before it.
Contiguous(s) ==
  \A i \in 1 .. Len(s) :
    s[i].replay \/ s[i].afterDrop \/ s[i].lo = IF i = 1 THEN 1 ELSE s[i - 1].hi + 1

\* A client sees a contiguous stream: live frames follow a replay, or one another,
\* without a hole or a repetition, and a client that gets no replay starts at the
\* first byte; only a Send that failed (queue full) leaves a hole.
StreamContiguous == \A h \in Hub : Contiguous(Stream(h))

\* A hub to which the latest Send succeeded has been given all it was offered.
LastOffered == \A h \in Hub : ~dropped[h] => LastHi(Stream(h)) = upto[h]

\* No hub is offered output that is not in the ring yet.
OfferedLogged == \A h \in Hub : upto[h] <= logged

\* Frames arrive in the order of the output, and a replay never comes up short: it
\* reaches back to what the client saw last or holds a whole ring of bytes.
ReplayReachesBack ==
  \A h \in Hub : \A i \in 2 .. Len(Stream(h)) :
    LET f == Stream(h)[i]
        e == Stream(h)[i - 1]
    IN /\ e.hi <= f.hi
       /\ f.replay => f.lo <= e.hi + 1 \/ f.hi - f.lo + 1 = RingCap

\* A terminal that is closed or removed ends its reader and reaps its shell, even
\* when Close runs while the reader is blocked in Read or about to deliver.
CloseEnds == (closing # "no" \/ ~mapped) ~> (reader = "exited" /\ shell = "reaped")

\* What the shell wrote reaches the attached client, unless the client loses its
\* connection, loses the terminal to another hub or a teardown, or a Send fails.
OutputArrives ==
  \A h \in Hub : \A n \in 1 .. MaxOut :
    (sender = h /\ logged >= n)
      ~> \/ \E i \in 1 .. Len(recv[h]) : recv[h][i].hi >= n
         \/ life[h] # "open" \/ dropped[h]
=============================================================================
