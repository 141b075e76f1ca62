-------------------------------- MODULE Hub --------------------------------
(***************************************************************************)
(* internal/hub/hub.go: the goroutines of one WebSocket connection.        *)
(*                                                                         *)
(*   run     handleWS's goroutine: registers the handlers, then Hub.Run    *)
(*   read    the goroutine Run starts: ReadMessage, look up the handler,   *)
(*           HandleFrame                                                   *)
(*   writer  the goroutine New starts: queued frames and pings             *)
(*   senders other goroutines that call Send (PTY readers, the stats loop) *)
(*                                                                         *)
(* Close runs in whichever of run and writer calls it first (closeOnce);   *)
(* the other one waits for it.  The control handler, which runs in the     *)
(* read goroutine, registers and unregisters handlers while the other      *)
(* goroutines close the hub.                                               *)
(***************************************************************************)
EXTENDS Integers, FiniteSets

CONSTANTS Handler,     \* handler objects: PTY and proxy sessions, the control handler
          Control,     \* the control handler, on channel 0
          ChanOf,      \* the channel each handler serves
          None,
          Sender,      \* goroutines that call Send
          QueueCap,    \* writeChanSize
          MaxSends,    \* bound: calls of Send per sender
          MaxFrames,   \* bound: frames read from the client
          MaxBuffered  \* bound: whole frames the connection's read buffer can hold

Chan == {ChanOf[x] : x \in Handler}

ASSUME HandlerAssumption ==
  /\ Control \in Handler /\ None \notin Handler
  /\ \A x \in Handler \ {Control} : ChanOf[x] # ChanOf[Control]
ASSUME SizeAssumption == QueueCap \in Nat \ {0} /\ MaxSends \in Nat /\ MaxFrames \in Nat
                          /\ MaxBuffered \in Nat

VARIABLES
  peer,      \* "up"; "silent": does not answer, but its kernel takes what is
             \* written; "gone": closed or broken
  ctx,       \* the context of the request has been cancelled
  done,      \* h.done is closed
  conn,      \* our end of the connection: "open" or "closed"
  handlers,  \* h.handlers: channel -> handler or None
  queue,     \* number of frames in h.writeCh
  once,      \* closeOnce: how far Close is: "idle", "doneClosed", "connClosed", "complete"
  closer,    \* the goroutine that runs Close, or None
  run,       \* "setup", "select", "closing", "returned"
  readErr,   \* the buffered channel readErr holds an error
  read,      \* "notStarted", "read", "lookup", "handle", "blocked", "failed", "exited"
  frame,     \* channel of the frame being dispatched
  current,   \* handler whose HandleFrame is running
  buffered,  \* whole frames already in the connection's read buffer
  frames,    \* frames read so far
  writer,    \* "select", "closing", "exited"
  send,      \* per sender: "idle", "second" (between the two selects)
  late,      \* per sender: done was closed when its latest Send was called
  result,    \* per sender: what its latest Send returned: "none", "nil", "err"
  sends      \* per sender: calls so far

connVars == <<peer, ctx>>
closeVars == <<done, conn, once, closer>>
readVars == <<readErr, read, frame, current, buffered, frames>>
sendVars == <<send, late, result, sends>>
vars == <<connVars, closeVars, handlers, queue, run, readVars, writer, sendVars>>

Goroutine == {"run", "writer"}

TypeOK ==
  /\ peer \in {"up", "silent", "gone"} /\ ctx \in BOOLEAN /\ done \in BOOLEAN
  /\ conn \in {"open", "closed"}
  /\ handlers \in [Chan -> Handler \cup {None}]
  /\ queue \in 0 .. QueueCap
  /\ once \in {"idle", "doneClosed", "connClosed", "complete"}
  /\ closer \in Goroutine \cup {None}
  /\ run \in {"setup", "select", "closing", "returned"}
  /\ readErr \in BOOLEAN
  /\ read \in {"notStarted", "read", "lookup", "handle", "blocked", "failed", "exited"}
  /\ frame \in Chan /\ current \in Handler \cup {None}
  /\ buffered \in 0 .. MaxBuffered /\ frames \in 0 .. MaxFrames
  /\ writer \in {"select", "closing", "exited"}
  /\ send \in [Sender -> {"idle", "second"}]
  /\ late \in [Sender -> BOOLEAN]
  /\ result \in [Sender -> {"none", "nil", "err"}]
  /\ sends \in [Sender -> 0 .. MaxSends]

\* After New: the writer runs, nothing is registered yet.
Init ==
  /\ peer = "up" /\ ctx = FALSE /\ done = FALSE /\ conn = "open" /\ once = "idle" /\ closer = None
  /\ handlers = [c \in Chan |-> None]
  /\ queue = 0
  /\ run = "setup" /\ readErr = FALSE
  /\ read = "notStarted" /\ frame = ChanOf[Control] /\ current = None
  /\ buffered = 0 /\ frames = 0
  /\ writer = "select"
  /\ send = [s \in Sender |-> "idle"]
  /\ late = [s \in Sender |-> FALSE]
  /\ result = [s \in Sender |-> "none"]
  /\ sends = [s \in Sender |-> 0]

\* A read or write on the connection may fail, and must when the peer is gone.
Broken == conn = "closed" \/ peer # "up"
Lost == conn = "closed" \/ peer = "gone"
-----------------------------------------------------------------------------
(* The environment *)

PeerDown ==
  /\ peer # "gone" /\ peer' \in {"silent", "gone"}
  /\ UNCHANGED <<ctx, closeVars, handlers, queue, run, readVars, writer, sendVars>>

CancelCtx ==
  /\ ~ctx /\ ctx' = TRUE
  /\ UNCHANGED <<peer, closeVars, handlers, queue, run, readVars, writer, sendVars>>
-----------------------------------------------------------------------------
(* Close, called by g, which is at "closing" *)

CloseStart(g) ==
  /\ once = "idle"
  /\ once' = "doneClosed" /\ closer' = g
  /\ done' = TRUE
  /\ UNCHANGED <<conn, handlers, run, writer>>

CloseConn(g) ==
  /\ once = "doneClosed" /\ closer = g
  /\ once' = "connClosed"
  /\ conn' = "closed"
  /\ UNCHANGED <<done, closer, handlers, run, writer>>

\* Seeded bug: the map of handlers is left as it is.
KeepHandlers(g) ==
  /\ once = "connClosed" /\ closer = g
  /\ once' = "complete"
  /\ UNCHANGED <<done, conn, closer, handlers, run, writer>>

\* The handlers are forgotten, not closed: they outlive the connection.
CloseHandlers(g) ==
  /\ once = "connClosed" /\ closer = g
  /\ once' = "complete"
  /\ handlers' = [c \in Chan |-> None]
  /\ UNCHANGED <<done, conn, closer, run, writer>>

\* Seeded bug: a closed flag in place of sync.Once, the second caller does not wait.
ReturnEarly(g) ==
  /\ once = "complete" \/ (once # "idle" /\ closer # g)
  /\ run' = IF g = "run" THEN "returned" ELSE run
  /\ writer' = IF g = "writer" THEN "exited" ELSE writer
  /\ UNCHANGED <<closeVars, handlers>>

\* Do returns, at once for a second caller when the first has finished.
CloseReturn(g) ==
  /\ once = "complete"
  /\ run' = IF g = "run" THEN "returned" ELSE run
  /\ writer' = IF g = "writer" THEN "exited" ELSE writer
  /\ UNCHANGED <<closeVars, handlers>>

Closing(g) ==
  /\ (g = "run" /\ run = "closing") \/ (g = "writer" /\ writer = "closing")
  /\ CloseStart(g) \/ CloseConn(g) \/ CloseHandlers(g) \/ CloseReturn(g)
  /\ UNCHANGED <<connVars, queue, readVars, sendVars>>
-----------------------------------------------------------------------------
(* handleWS registers the control handler and those of the user's sessions, and
   calls Run, which starts the read goroutine.  The writer may close the hub before. *)

Setup ==
  /\ run = "setup"
  /\ \E m \in [Chan -> Handler \cup {None}] :
       /\ m[ChanOf[Control]] = Control
       /\ \A c \in Chan : m[c] # None => ChanOf[m[c]] = c
       /\ handlers' = m
  /\ run' = "select"
  /\ read' = "read"
  /\ UNCHANGED <<connVars, closeVars, queue, readErr, frame, current, buffered, frames, writer,
                 sendVars>>

(* Run's select; every way out runs the deferred Close *)

RunSelect ==
  /\ run = "select"
  /\ ctx \/ readErr \/ done
  /\ run' = "closing"
  /\ readErr' \in IF ctx \/ done THEN {readErr, FALSE} ELSE {FALSE}
  /\ UNCHANGED <<connVars, closeVars, handlers, queue, read, frame, current, buffered, frames,
                 writer, sendVars>>
-----------------------------------------------------------------------------
(* The read goroutine *)

\* ReadMessage returns a message: from the read buffer, which outlives the
\* connection, or from the network, when the same read may bring in more.
ReadMessage ==
  /\ read = "read"
  /\ frames < MaxFrames
  /\ frames' = frames + 1
  /\ \/ buffered > 0 /\ buffered' = buffered - 1
     \/ buffered = 0 /\ conn = "open" /\ buffered' \in 0 .. MaxBuffered
  /\ UNCHANGED <<connVars, closeVars, handlers, queue, run, readErr, current, writer, sendVars>>

\* A frame for channel c.
ReadFrame(c) == ReadMessage /\ frame' = c /\ read' = "lookup"

\* A text message, or one that does not decode, is ignored.
ReadIgnored == ReadMessage /\ UNCHANGED <<frame, read>>

\* ReadMessage fails: closed at either end, or the read deadline passed (pongWait).
ReadFail ==
  /\ read = "read"
  /\ Broken /\ (buffered = 0 \/ frames = MaxFrames)
  /\ read' = "failed"
  /\ UNCHANGED <<connVars, closeVars, handlers, queue, run, readErr, frame, current, buffered,
                 frames, writer, sendVars>>

\* Seeded bug: readErr has no buffer, and nobody receives once Run has left its select.
ReportUnbuffered ==
  /\ read = "failed"
  /\ ~readErr /\ run = "select"
  /\ readErr' = TRUE
  /\ read' = "exited"
  /\ UNCHANGED <<connVars, closeVars, handlers, queue, run, frame, current, buffered, frames,
                 writer, sendVars>>

\* readErr <- err does not block: the channel has room for one error.
ReadReport ==
  /\ read = "failed"
  /\ ~readErr
  /\ readErr' = TRUE
  /\ read' = "exited"
  /\ UNCHANGED <<connVars, closeVars, handlers, queue, run, frame, current, buffered, frames,
                 writer, sendVars>>

\* Look the handler up under the read lock; discard the frame when there is none.
ReadLookup ==
  /\ read = "lookup"
  /\ current' = handlers[frame]
  /\ read' = IF handlers[frame] = None THEN "read" ELSE "handle"
  /\ UNCHANGED <<connVars, closeVars, handlers, queue, run, readErr, frame, buffered, frames,
                 writer, sendVars>>

\* HandleFrame waits: the shell or the target of a proxy does not take its input,
\* which is written without a deadline.
HandlerBlocks ==
  /\ read = "handle"
  /\ read' = "blocked"
  /\ UNCHANGED <<connVars, closeVars, handlers, queue, run, readErr, frame, current, buffered,
                 frames, writer, sendVars>>

\* HandleFrame returns, and the loop goes on.
HandlerReturns ==
  /\ read \in {"handle", "blocked"}
  /\ read' = "read" /\ current' = None
  /\ UNCHANGED <<connVars, closeVars, queue, run, readErr, frame, buffered, frames, writer,
                 sendVars>>

HandleOther == HandlerReturns /\ UNCHANGED handlers

\* The control handler opened or found session x: h.Register(chan, x), also on a
\* hub that has been closed meanwhile.
HandleRegister(x) ==
  /\ HandlerReturns /\ current = Control /\ x # Control
  /\ handlers' = [handlers EXCEPT ![ChanOf[x]] = x]

\* The control handler closes channel c: h.Unregister(c).  The Close of the
\* handler itself is in UserSession.
HandleUnregister(c) ==
  /\ HandlerReturns /\ current = Control
  /\ handlers' = [handlers EXCEPT ![c] = None]

Handle ==
  \/ HandleOther
  \/ \E x \in Handler : HandleRegister(x)
  \/ \E c \in Chan : HandleUnregister(c)

Read ==
  \/ \E c \in Chan : ReadFrame(c)
  \/ ReadIgnored \/ ReadFail \/ ReadReport \/ ReadLookup \/ HandlerBlocks \/ Handle
-----------------------------------------------------------------------------
(* The writer goroutine *)

\* case <-h.done: a close message is attempted and the goroutine ends.
WriterDone ==
  /\ writer = "select"
  /\ done
  /\ writer' = "exited"
  /\ UNCHANGED <<connVars, closeVars, handlers, queue, run, readVars, sendVars>>

\* Seeded bug: the return is outside the error branch.
WriterOnce ==
  /\ writer = "select"
  /\ queue > 0
  /\ queue' = queue - 1
  /\ \/ conn = "open" /\ writer' = "exited"
     \/ Broken /\ writer' = "closing"
  /\ UNCHANGED <<connVars, closeVars, handlers, run, readVars, sendVars>>

\* case data := <-h.writeCh: written, or Close and end.
WriterData ==
  /\ writer = "select"
  /\ queue > 0
  /\ queue' = queue - 1
  /\ \/ conn = "open" /\ UNCHANGED writer
     \/ Broken /\ writer' = "closing"
  /\ UNCHANGED <<connVars, closeVars, handlers, run, readVars, sendVars>>

\* case <-ticker.C: a ping that fails closes the hub.
WriterPing ==
  /\ writer = "select"
  /\ Broken
  /\ writer' = "closing"
  /\ UNCHANGED <<connVars, closeVars, handlers, queue, run, readVars, sendVars>>

Writer == WriterDone \/ WriterData \/ WriterPing
-----------------------------------------------------------------------------
(* Send, called by goroutine s *)

\* The first select: a closed hub refuses at once.
SendFirst(s) ==
  /\ send[s] = "idle"
  /\ sends[s] < MaxSends
  /\ sends' = [sends EXCEPT ![s] = @ + 1]
  /\ late' = [late EXCEPT ![s] = done]
  /\ IF done THEN result' = [result EXCEPT ![s] = "err"] /\ UNCHANGED send
             ELSE send' = [send EXCEPT ![s] = "second"] /\ UNCHANGED result
  /\ UNCHANGED <<connVars, closeVars, handlers, queue, run, readVars, writer>>

\* The second select: queue the frame or refuse, either one when both can go;
\* drop it when neither can.  A drop also returns nil.
SendSecond(s) ==
  /\ send[s] = "second"
  /\ send' = [send EXCEPT ![s] = "idle"]
  /\ \/ queue < QueueCap /\ queue' = queue + 1 /\ result' = [result EXCEPT ![s] = "nil"]
     \/ done /\ result' = [result EXCEPT ![s] = "err"] /\ UNCHANGED queue
     \/ queue = QueueCap /\ ~done /\ result' = [result EXCEPT ![s] = "nil"] /\ UNCHANGED queue
  /\ UNCHANGED <<connVars, closeVars, handlers, run, readVars, writer, late, sends>>
-----------------------------------------------------------------------------
Next ==
  \/ PeerDown \/ CancelCtx
  \/ Setup \/ RunSelect \/ Read \/ Writer
  \/ \E g \in Goroutine : Closing(g)
  \/ \E s \in Sender : SendFirst(s) \/ SendSecond(s)

Spec == Init /\ [][Next]_vars

\* Every goroutine that can take a step takes one: a ready select proceeds, a read
\* fails by its deadline when the peer is silent, a ping when the peer is gone. A
\* handler that waits for a shell or a target need not return.
Fairness ==
  /\ WF_vars(Setup \/ RunSelect)
  /\ WF_vars(read # "blocked" /\ Read)
  /\ WF_vars(WriterDone \/ WriterData \/ (Lost /\ WriterPing))
  /\ \A g \in Goroutine : WF_vars(Closing(g))

FairSpec == Spec /\ Fairness
-----------------------------------------------------------------------------
\* Once Close has completed, no control frame is dispatched any more, although the
\* read goroutine may still take frames out of the read buffer: a client's OpenPTY
\* is not carried out on a connection that is gone.  (A handler that was already
\* running goes on: see PtySession.)
NoControlAfterClose ==
  [][once = "complete" /\ read = "lookup" => current' # Control]_vars

\* A call of Send that starts on a closed hub returns an error: the second select
\* alone could pick the queue at random and report success (hub.go, Send).
LateSendFails == \A s \in Sender : late[s] /\ send[s] = "idle" => result[s] = "err"

\* The close sequence is never half done when Run returns: handleWS may detach the
\* user's sessions knowing that nothing is written to this connection any more.
ReturnedMeansClosed ==
  run = "returned" => done /\ conn = "closed" /\ once = "complete"

\* A hub that is closed is closed for good, for callers of Send and for handleWS.
CloseIsFinal == TypeOK /\ LateSendFails /\ ReturnedMeansClosed

Ended == run = "returned" /\ writer = "exited"

\* A dead connection is torn down. If the peer is gone, Run returns to handleWS
\* and the writer ends, whatever handler the read goroutine waits for. If the peer
\* is only silent, the read goroutine must notice; as long as no handler holds it
\* up, it does, and in any case it is not left behind either.
DeadConnectionEnds ==
  /\ (peer = "gone" \/ ctx \/ done) ~> Ended
  /\ (peer # "up" \/ ctx \/ done) ~> ((Ended /\ read = "exited") \/ read = "blocked")

\* What is queued is written as long as the hub stays open.
QueueDrains == queue > 0 ~> (queue = 0 \/ done)
=============================================================================
