------------------------------ MODULE WSClient ------------------------------
(***************************************************************************)
(* frontend/src/lib/client.ts: the browser's end of the connection.        *)
(*                                                                         *)
(* One action per event the browser's event loop delivers: calls of        *)
(* connect and disconnect, a socket's open, message and close events, the  *)
(* three timers, and the answer to the /validate request that the close    *)
(* event awaits.  The store in session.svelte.ts keeps `connected' from    *)
(* the client's callbacks, and logout calls disconnect and drops the       *)
(* client, so nobody calls connect afterwards.                             *)
(***************************************************************************)
EXTENDS Integers, FiniteSets

CONSTANTS MaxSockets,   \* bound: WebSockets created in a behaviour
          None

Socket == 1 .. MaxSockets

ASSUME SocketAssumption == MaxSockets \in Nat \ {0} /\ None \notin Socket

VARIABLES
  ws,          \* this.ws
  sock,        \* of each socket: "new", "connecting", "open", "closing", "closed"
  opened,      \* sockets whose open event has been handled
  server,      \* of each socket: the server "answers" or is "silent"
  should,      \* this.shouldReconnect
  validating,  \* sockets whose close event awaits the answer of /validate
  timers,      \* sockets whose close event has started a reconnect timer that runs
  timerRef,    \* this.reconnectTimer
  hb,          \* heartbeat: "off", "timer" (until the next ping), "awaiting" a pong
  connected,   \* session.connected
  started,     \* connect has been called
  gone         \* disconnect has been called

sockVars == <<ws, sock, opened, server>>
timerVars == <<validating, timers, timerRef>>
userVars == <<started, gone>>
vars == <<sockVars, timerVars, should, hb, connected, userVars>>

TypeOK ==
  /\ ws \in Socket \cup {None}
  /\ sock \in [Socket -> {"new", "connecting", "open", "closing", "closed"}]
  /\ opened \subseteq Socket
  /\ server \in [Socket -> {"answers", "silent"}]
  /\ should \in BOOLEAN
  /\ validating \subseteq Socket /\ timers \subseteq Socket
  /\ timerRef \in Socket \cup {None}
  /\ hb \in {"off", "timer", "awaiting"}
  /\ connected \in BOOLEAN /\ started \in BOOLEAN /\ gone \in BOOLEAN

Init ==
  /\ ws = None
  /\ sock = [i \in Socket |-> "new"]
  /\ opened = {}
  /\ server = [i \in Socket |-> "answers"]
  /\ should = TRUE
  /\ validating = {} /\ timers = {} /\ timerRef = None
  /\ hb = "off" /\ connected = FALSE
  /\ started = FALSE /\ gone = FALSE

Unused == {i \in Socket : sock[i] = "new"}

\* Seeded bug: no look at whether there is a socket already.
OpenSocketAlways ==
  \E i \in Unused : /\ \A j \in Unused : i <= j
                    /\ ws' = i
                    /\ sock' = [sock EXCEPT ![i] = "connecting"]

\* _openSocket: does nothing while there is a socket.
OpenSocket ==
  IF ws # None
  THEN UNCHANGED <<ws, sock>>
  ELSE \E i \in Unused : /\ \A j \in Unused : i <= j
                         /\ ws' = i
                         /\ sock' = [sock EXCEPT ![i] = "connecting"]
-----------------------------------------------------------------------------
(* Calls *)

\* The desktop page connects whenever it is mounted.
Connect ==
  /\ ~gone
  /\ should' = TRUE
  /\ started' = TRUE
  /\ OpenSocket
  /\ UNCHANGED <<opened, server, timerVars, hb, connected, gone>>

\* disconnect, called by logout, which also resets the store.
Disconnect ==
  /\ started /\ ~gone
  /\ gone' = TRUE
  /\ should' = FALSE
  /\ timers' = timers \ {timerRef}
  /\ timerRef' = None
  /\ sock' = IF ws = None THEN sock ELSE [sock EXCEPT ![ws] = "closing"]
  /\ ws' = None
  /\ hb' = "off"
  /\ connected' = FALSE
  /\ UNCHANGED <<opened, server, validating, started>>
-----------------------------------------------------------------------------
(* Events of socket i *)

\* onOpen and _startHeartbeat.
SockOpen(i) ==
  /\ sock[i] = "connecting"
  /\ sock' = [sock EXCEPT ![i] = "open"]
  /\ opened' = opened \cup {i}
  /\ connected' = TRUE
  /\ hb' = "timer"
  /\ UNCHANGED <<ws, server, timerVars, should, userVars>>

\* The server, or the network to it, stops without a close.
ServerSilent(i) ==
  /\ sock[i] = "open" /\ server[i] = "answers"
  /\ server' = [server EXCEPT ![i] = "silent"]
  /\ UNCHANGED <<ws, sock, opened, timerVars, should, hb, connected, userVars>>

\* Any frame, a pong included: onBackendActivity and a new heartbeat period.
SockMessage(i) ==
  /\ sock[i] = "open" /\ server[i] = "answers"
  /\ connected' = TRUE
  /\ hb' = "timer"
  /\ UNCHANGED <<sockVars, timerVars, should, userVars>>

\* Seeded bug: a socket that never opened is not retried.
SockCloseFinal(i) ==
  /\ sock[i] \in {"connecting", "open", "closing"}
  /\ sock' = [sock EXCEPT ![i] = "closed"]
  /\ ws' = None
  /\ hb' = "off"
  /\ connected' = FALSE
  /\ timers' = IF should /\ i \in opened THEN timers \cup {i} ELSE timers
  /\ timerRef' = IF should /\ i \in opened THEN i ELSE timerRef
  /\ UNCHANGED <<opened, server, should, validating, userVars>>

\* The close event.  A socket that never opened asks /validate why.
SockClose(i) ==
  /\ sock[i] \in {"connecting", "open", "closing"}
  /\ sock' = [sock EXCEPT ![i] = "closed"]
  /\ ws' = None
  /\ hb' = "off"
  /\ connected' = FALSE
  /\ validating' = IF should /\ i \notin opened THEN validating \cup {i} ELSE validating
  /\ timers' = IF should /\ i \in opened THEN timers \cup {i} ELSE timers
  /\ timerRef' = IF should /\ i \in opened THEN i ELSE timerRef
  /\ UNCHANGED <<opened, server, should, userVars>>

\* /validate answers anything but 401, fails or times out: the handler goes on.
ValidateRetry(i) ==
  /\ i \in validating
  /\ validating' = validating \ {i}
  /\ timers' = timers \cup {i}
  /\ timerRef' = i
  /\ UNCHANGED <<sockVars, should, hb, connected, userVars>>

\* 401: onAuthError logs out.
ValidateRejects(i) ==
  /\ i \in validating
  /\ validating' = validating \ {i}
  /\ should' = FALSE
  /\ gone' = TRUE
  /\ timers' = timers \ {timerRef}
  /\ timerRef' = None
  /\ sock' = IF ws = None THEN sock ELSE [sock EXCEPT ![ws] = "closing"]
  /\ ws' = None
  /\ hb' = "off"
  /\ connected' = FALSE
  /\ UNCHANGED <<opened, server, started>>
-----------------------------------------------------------------------------
(* Timers *)

\* RECONNECT_DELAY_MS after a close.
Reconnect(i) ==
  /\ i \in timers
  /\ timers' = timers \ {i}
  /\ timerRef' = None
  /\ OpenSocket
  /\ UNCHANGED <<opened, server, validating, should, hb, connected, userVars>>

\* HEARTBEAT_INTERVAL_MS after the last frame: ping, when the socket is open.
HeartbeatTimer ==
  /\ hb = "timer"
  /\ hb' = IF ws # None /\ sock[ws] = "open" THEN "awaiting" ELSE "off"
  /\ UNCHANGED <<sockVars, timerVars, should, connected, userVars>>

\* Seeded bug: the page is told, the socket left as it is.
TimeoutKeepsSocket ==
  /\ hb = "awaiting"
  /\ hb' = "timer"
  /\ connected' = FALSE
  /\ UNCHANGED <<sockVars, timerVars, should, userVars>>

\* HEARTBEAT_TIMEOUT_MS without a frame: give the socket up.
HeartbeatTimeout ==
  /\ hb = "awaiting"
  /\ hb' = "off"
  /\ connected' = FALSE
  /\ sock' = IF ws # None /\ sock[ws] = "open" THEN [sock EXCEPT ![ws] = "closing"] ELSE sock
  /\ UNCHANGED <<ws, opened, server, timerVars, should, userVars>>
-----------------------------------------------------------------------------
Next ==
  \/ Connect \/ Disconnect \/ HeartbeatTimer \/ HeartbeatTimeout
  \/ \E i \in Socket : \/ SockOpen(i) \/ ServerSilent(i) \/ SockMessage(i) \/ SockClose(i)
                       \/ ValidateRetry(i) \/ ValidateRejects(i) \/ Reconnect(i)

Spec == Init /\ [][Next]_vars

\* Timers fire, a request is answered or aborted, a socket that is connecting opens
\* or fails, one that closes has its close event.  Nothing makes an open socket
\* close, a server answer, or a user log out.
Fairness ==
  /\ WF_vars(HeartbeatTimer) /\ WF_vars(HeartbeatTimeout)
  /\ \A i \in Socket :
       /\ WF_vars(sock[i] # "open" /\ (SockOpen(i) \/ SockClose(i)))
       /\ WF_vars(ValidateRetry(i) \/ ValidateRejects(i))
       /\ WF_vars(Reconnect(i))

FairSpec == Spec /\ Fairness
-----------------------------------------------------------------------------
\* Until logout there is never a second live socket, however close events, retries
\* after /validate, timers and further calls of connect interleave: two would leave
\* the user's sessions to be fought over by two hubs.
OneSocket == ~gone => \A i \in Socket : sock[i] \in {"connecting", "open"} => ws = i

\* The heartbeat runs for every open socket, so that no timer of an earlier socket
\* or frame in between leaves a silent server unnoticed.
HeartbeatRuns == ~gone => \A i \in Socket : sock[i] = "open" => hb # "off"

\* The page shows "Connected" only with an open socket.
ConnectedMeansOpen == ~gone /\ connected => ws # None /\ sock[ws] = "open"

\* The client has one connection, watches it, and tells the page about it.
OneWatchedSocket == OneSocket /\ HeartbeatRuns /\ ConnectedMeansOpen

\* A silent server is given up: the socket is closed, which leads to a new one.
SilentServerLeft == \A i \in Socket : server[i] = "silent" ~> (sock[i] = "closed" \/ gone)

\* A client that has lost its socket tries again, unless it is logged out.  (The
\* bound on sockets ends the behaviour, not the code.)
TriesAgain == (started /\ ws = None) ~> (ws # None \/ gone \/ Unused = {})
=============================================================================
