---------------------------- MODULE UserSession ----------------------------
(***************************************************************************)
(* internal/server/server.go: what the connections of one user do to the   *)
(* user's terminals and port proxies.                                      *)
(*                                                                         *)
(* Every connection has two goroutines here: `main' runs handleWS, which   *)
(* registers the existing sessions with the new hub, runs the hub, and     *)
(* detaches all sessions when Run returns; `pc' is the hub's read          *)
(* goroutine, in the control handler.  They share us.ptys and us.proxies   *)
(* under us.mu, which is released between the steps below.  The inside of  *)
(* a hub is module Hub, that of a terminal PtySession.                     *)
(*                                                                         *)
(* Terminals and proxies have channels of their own: the client takes all  *)
(* of them from one counter (nextChannelID) and closes a channel with the  *)
(* frame of its kind.                                                      *)
(***************************************************************************)
EXTENDS Integers, FiniteSets

CONSTANTS Hub,          \* connections
          PtyChan,      \* channels of terminals
          ProxyChan,    \* channels of port proxies
          Session,      \* objects: ptySession.Session and PortProxySession
          ChanOf,       \* the channel each object is created for
          None,
          MaxFrames     \* bound: control frames per connection

Chan == PtyChan \cup ProxyChan

ASSUME ChanAssumption ==
  Chan # {} /\ PtyChan \cap ProxyChan = {} /\ ChanOf \in [Session -> Chan]
ASSUME NoneAssumption == None \notin Session \cup Hub
ASSUME BoundAssumption == MaxFrames \in Nat

VARIABLES
  table,   \* us.ptys and us.proxies: channel -> session or None
  state,   \* of a session: "unused", "live", "exited" (the shell), "closed"
  sender,  \* of a session: the hub it streams to, or None
  open,    \* hubs whose done is not closed
  routes,  \* per hub: h.handlers but for the control handler
  main,    \* per hub: where handleWS is
  todo,    \* per hub: sessions its detach loop has yet to detach
  pc,      \* per hub: where the read goroutine is
  chan,    \* per hub: the channel of the control frame in progress
  ses,     \* per hub: the local variable existing, sess, ps, handler or s
  frames,  \* per hub: control frames taken so far
  overlap  \* history: a client has connected before the user's earlier connections
           \* had come to their end

sessionVars == <<table, state, sender>>
mainVars == <<open, main, todo, overlap>>
readVars == <<pc, chan, ses, frames>>
vars == <<sessionVars, mainVars, readVars, routes>>

Step == {"idle", "open", "closedCheck", "new", "add", "register", "attach", "attachProxy",
         "registerProxy", "close", "closeHandler", "remove", "closeSession"}
MainStep == {"none", "registerPTYs", "registerProxies", "sync", "run", "detachPTYs",
             "detachProxies", "gone"}

TypeOK ==
  /\ table \in [Chan -> Session \cup {None}]
  /\ state \in [Session -> {"unused", "live", "exited", "closed"}]
  /\ sender \in [Session -> Hub \cup {None}]
  /\ open \subseteq Hub
  /\ routes \in [Hub -> [Chan -> Session \cup {None}]]
  /\ main \in [Hub -> MainStep]
  /\ todo \in [Hub -> SUBSET Session]
  /\ pc \in [Hub -> Step]
  /\ chan \in [Hub -> Chan]
  /\ ses \in [Hub -> Session \cup {None}]
  /\ frames \in [Hub -> 0 .. MaxFrames]
  /\ overlap \in BOOLEAN

Init ==
  /\ table = [c \in Chan |-> None]
  /\ state = [s \in Session |-> "unused"]
  /\ sender = [s \in Session |-> None]
  /\ open = {}
  /\ routes = [h \in Hub |-> [c \in Chan |-> None]]
  /\ main = [h \in Hub |-> "none"]
  /\ todo = [h \in Hub |-> {}]
  /\ pc = [h \in Hub |-> "idle"]
  /\ chan \in [Hub -> {CHOOSE c \in Chan : TRUE}]
  /\ ses = [h \in Hub |-> None]
  /\ frames = [h \in Hub |-> 0]
  /\ overlap = FALSE

IsPty(s) == ChanOf[s] \in PtyChan
Listed(S) == {table[c] : c \in S} \ {None}

\* handleWS of h has returned and its read goroutine is not in a handler.
Ended(h) == main[h] = "gone" /\ pc[h] = "idle"
-----------------------------------------------------------------------------
(* handleWS *)

GoMain(h, from, to) == main[h] = from /\ main' = [main EXCEPT ![h] = to]

\* The upgrade: a new hub, with the control handler on channel 0.
Connect(h) ==
  /\ GoMain(h, "none", "registerPTYs")
  /\ overlap' = (overlap \/ \E g \in Hub : main[g] # "none" /\ ~Ended(g))
  /\ open' = open \cup {h}
  /\ UNCHANGED <<sessionVars, todo, readVars, routes>>

\* registerHandlers: input for existing terminals, under us.mu.
RegisterHandlers(h) ==
  /\ GoMain(h, "registerPTYs", "registerProxies")
  /\ routes' = [routes EXCEPT ![h] = [c \in Chan |->
                  IF c \in PtyChan /\ table[c] # None THEN table[c] ELSE @[c]]]
  /\ UNCHANGED <<sessionVars, open, todo, overlap, readVars>>

\* Seeded bug: attached and not registered.
AttachProxiesOnly(h) ==
  /\ GoMain(h, "registerProxies", "sync")
  /\ sender' = [s \in Session |-> IF s \in Listed(ProxyChan) THEN h ELSE sender[s]]
  /\ UNCHANGED <<table, state, open, todo, overlap, readVars, routes>>

\* registerProxyHandlers: proxies are attached as well.
RegisterProxyHandlers(h) ==
  /\ GoMain(h, "registerProxies", "sync")
  /\ routes' = [routes EXCEPT ![h] = [c \in Chan |->
                  IF c \in ProxyChan /\ table[c] # None THEN table[c] ELSE @[c]]]
  /\ sender' = [s \in Session |-> IF s \in Listed(ProxyChan) THEN h ELSE sender[s]]
  /\ UNCHANGED <<table, state, open, todo, overlap, readVars>>

\* The session sync frame lists the channels of both maps; then Run.
SessionSync(h) ==
  /\ GoMain(h, "sync", "run")
  /\ UNCHANGED <<sessionVars, open, todo, overlap, readVars, routes>>

\* Hub.Close: by the writer at any time from New on, or as Run returns.
HubClose(h) ==
  /\ h \in open
  /\ open' = open \ {h}
  /\ routes' = [routes EXCEPT ![h] = [c \in Chan |-> None]]
  /\ UNCHANGED <<sessionVars, main, todo, overlap, readVars>>

\* Run returns, and detachHub copies the list of terminals under us.mu, ...
DetachHub(h) ==
  /\ h \notin open
  /\ GoMain(h, "run", "detachPTYs")
  /\ todo' = [todo EXCEPT ![h] = Listed(PtyChan)]
  /\ UNCHANGED <<sessionVars, open, overlap, readVars, routes>>

\* ... then detaches one after the other: whichever hub each is attached to.
Detach(h, s) ==
  /\ main[h] \in {"detachPTYs", "detachProxies"}
  /\ s \in todo[h]
  /\ sender' = [sender EXCEPT ![s] = None]
  /\ todo' = [todo EXCEPT ![h] = @ \ {s}]
  /\ UNCHANGED <<table, state, open, main, overlap, readVars, routes>>

DetachProxies(h) ==
  /\ todo[h] = {}
  /\ GoMain(h, "detachPTYs", "detachProxies")
  /\ todo' = [todo EXCEPT ![h] = Listed(ProxyChan)]
  /\ UNCHANGED <<sessionVars, open, overlap, readVars, routes>>

Gone(h) ==
  /\ todo[h] = {}
  /\ GoMain(h, "detachProxies", "gone")
  /\ UNCHANGED <<sessionVars, open, todo, overlap, readVars, routes>>

Main(h) ==
  \/ Connect(h) \/ RegisterHandlers(h) \/ RegisterProxyHandlers(h) \/ SessionSync(h)
  \/ HubClose(h) \/ DetachHub(h) \/ (\E s \in Session : Detach(h, s))
  \/ DetachProxies(h) \/ Gone(h)
-----------------------------------------------------------------------------
(* The read goroutine in the control handler *)

Go(h, from, to) == pc[h] = from /\ pc' = [pc EXCEPT ![h] = to]

\* The handler returns; its local variables are gone.
Return(h, from) == Go(h, from, "idle") /\ ses' = [ses EXCEPT ![h] = None]

\* A control frame for channel c is dispatched, which a closed hub no longer does
\* (Hub!NoControlAfterClose); whether the handler still finds it open is another matter.
Frame(h, op, c) ==
  /\ main[h] = "run" /\ h \in open
  /\ frames[h] < MaxFrames
  /\ frames' = [frames EXCEPT ![h] = @ + 1]
  /\ Go(h, "idle", op)
  /\ chan' = [chan EXCEPT ![h] = c]
  /\ UNCHANGED <<sessionVars, mainVars, routes, ses>>

\* The channel's session is looked up under us.mu.
OpenPTY(h) ==
  /\ chan[h] \in PtyChan
  /\ Go(h, "open", IF table[chan[h]] = None THEN "new" ELSE "register")
  /\ ses' = [ses EXCEPT ![h] = table[chan[h]]]
  /\ UNCHANGED <<sessionVars, mainVars, routes, chan, frames>>

OpenProxy(h) ==
  /\ chan[h] \in ProxyChan
  /\ Go(h, "open", IF table[chan[h]] = None THEN "new" ELSE "closedCheck")
  /\ ses' = [ses EXCEPT ![h] = table[chan[h]]]
  /\ UNCHANGED <<sessionVars, mainVars, routes, chan, frames>>

\* A proxy whose connection has ended is replaced.
ClosedCheck(h) ==
  /\ Go(h, "closedCheck", IF state[ses[h]] = "closed" THEN "new" ELSE "attachProxy")
  /\ UNCHANGED <<sessionVars, mainVars, routes, chan, ses, frames>>

\* ptySession.New, or newPortProxySession, which is attached from the start.
New(h, s) ==
  /\ state[s] = "unused" /\ ChanOf[s] = chan[h]
  /\ Go(h, "new", "add")
  /\ state' = [state EXCEPT ![s] = "live"]
  /\ ses' = [ses EXCEPT ![h] = s]
  /\ sender' = IF IsPty(s) THEN sender ELSE [sender EXCEPT ![s] = h]
  /\ UNCHANGED <<table, mainVars, routes, chan, frames>>

\* The shell cannot be started or the target not be dialled: an error frame.
NewFails(h) ==
  /\ Return(h, "new")
  /\ UNCHANGED <<sessionVars, mainVars, routes, chan, frames>>

\* addPTY and addProxy overwrite what the map holds by now.
Add(h) ==
  /\ Go(h, "add", IF IsPty(ses[h]) THEN "register" ELSE "registerProxy")
  /\ table' = [table EXCEPT ![chan[h]] = ses[h]]
  /\ UNCHANGED <<state, sender, mainVars, routes, chan, ses, frames>>

Register(h) ==
  /\ \/ Go(h, "register", "attach") /\ UNCHANGED ses
     \/ Return(h, "registerProxy")
  /\ routes' = [routes EXCEPT ![h][chan[h]] = ses[h]]
  /\ UNCHANGED <<sessionVars, mainVars, chan, frames>>

\* Session.Attach after Register; PortProxySession.Attach before it.
Attach(h) ==
  /\ \/ Return(h, "attach")
     \/ Go(h, "attachProxy", "registerProxy") /\ UNCHANGED ses
  /\ sender' = [sender EXCEPT ![ses[h]] = h]
  /\ UNCHANGED <<table, state, mainVars, routes, chan, frames>>

\* Seeded bug: the handler stays registered.
UnregisterKeep(h) ==
  /\ Go(h, "close", IF routes[h][chan[h]] = None THEN "remove" ELSE "closeHandler")
  /\ ses' = [ses EXCEPT ![h] = routes[h][chan[h]]]
  /\ UNCHANGED <<sessionVars, mainVars, routes, chan, frames>>

\* handleClosePTY, handleCloseProxy: Unregister takes the hub's handler, ...
Unregister(h) ==
  /\ Go(h, "close", IF routes[h][chan[h]] = None THEN "remove" ELSE "closeHandler")
  /\ ses' = [ses EXCEPT ![h] = routes[h][chan[h]]]
  /\ routes' = [routes EXCEPT ![h][chan[h]] = None]
  /\ UNCHANGED <<sessionVars, mainVars, chan, frames>>

\* Seeded bug: the map keeps the session it closes.
RemoveKeep(h) ==
  /\ Go(h, "remove", IF table[chan[h]] = None THEN "idle" ELSE "closeSession")
  /\ ses' = [ses EXCEPT ![h] = table[chan[h]]]
  /\ UNCHANGED <<sessionVars, mainVars, routes, chan, frames>>

\* ... closes it after h.mu is released; removePTY (removeProxy) then takes the
\* map's session, ...
Remove(h) ==
  /\ Go(h, "remove", IF table[chan[h]] = None THEN "idle" ELSE "closeSession")
  /\ ses' = [ses EXCEPT ![h] = table[chan[h]]]
  /\ table' = [table EXCEPT ![chan[h]] = None]
  /\ UNCHANGED <<state, sender, mainVars, routes, chan, frames>>

\* ... and closes it after us.mu is released.
Close(h) ==
  /\ \/ Go(h, "closeHandler", "remove") /\ UNCHANGED ses
     \/ Return(h, "closeSession")
  /\ state' = [state EXCEPT ![ses[h]] = "closed"]
  /\ UNCHANGED <<table, sender, mainVars, routes, chan, frames>>

Control(h) ==
  \/ \E op \in {"open", "close"}, c \in Chan : Frame(h, op, c)
  \/ OpenPTY(h) \/ OpenProxy(h) \/ ClosedCheck(h) \/ (\E s \in Session : New(h, s))
  \/ NewFails(h) \/ Add(h) \/ Register(h) \/ Attach(h)
  \/ Unregister(h) \/ Remove(h) \/ Close(h)
-----------------------------------------------------------------------------
\* The shell exits, its session stays as it is; the proxy's connection ends, and
\* readLoop closes the proxy.  Neither leaves its map.
SessionEnds(s) ==
  /\ state[s] = "live"
  /\ state' = [state EXCEPT ![s] = IF IsPty(s) THEN "exited" ELSE "closed"]
  /\ UNCHANGED <<table, sender, mainVars, readVars, routes>>

Next == (\E h \in Hub : Main(h) \/ Control(h)) \/ (\E s \in Session : SessionEnds(s))

Spec == Init /\ [][Next]_vars
-----------------------------------------------------------------------------
\* Output and input take the same way: a session in the map that streams to an open
\* hub gets that hub's frames for its channel, after a reconnect (registerHandlers)
\* and after every OpenPTY and OpenProxy, whatever other connections do.
InputReachesSession ==
  \A h \in open : \A c \in Chan :
    LET s == table[c] IN
    (s # None /\ sender[s] = h /\ pc[h] = "idle" /\ main[h] = "run" /\ state[s] # "closed")
      => routes[h][c] = s

\* A closed terminal leaves us.ptys: a later OpenPTY of the channel gets a new shell
\* and not the remains of the old one.  While the frame that closes it is handled
\* the map still holds it.
ClosedLeavesMap ==
  \A c \in PtyChan :
    table[c] # None /\ state[table[c]] = "closed"
      => \E h \in Hub : chan[h] = c /\ pc[h] = "remove"

\* Every running shell and open proxy connection can be reached to be closed: it is
\* in a map, or a handler that is about to put it there or to close it holds it.
NoOrphan ==
  \A s \in Session :
    state[s] = "live" => \/ table[ChanOf[s]] = s
                         \/ \E h \in Hub : ses[h] = s /\ pc[h] \in {"add", "closeHandler", "closeSession"}

\* Input for a terminal goes to one that is not closed.
RoutedAlive ==
  \A h \in open : \A c \in PtyChan :
    (pc[h] = "idle" /\ routes[h][c] # None) => state[routes[h][c]] # "closed"

\* With one connection at a time no shell and no proxied connection is lost, and
\* what the client types reaches a terminal that it has not closed: the steps of
\* opening and closing, each under its own lock, leave nothing half done.
AloneInOrder == ~overlap => NoOrphan /\ RoutedAlive
=============================================================================
