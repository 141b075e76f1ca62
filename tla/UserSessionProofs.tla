-------------------------- MODULE UserSessionProofs --------------------------
(***************************************************************************)
(* What the connections of a user leave behind of terminals and proxies,   *)
(* for any number of connections, channels, sessions and control frames,   *)
(* and what they carry of files, for any number of transfers.              *)
(***************************************************************************)
EXTENDS UserSession, FileTransfer, SequenceTheorems, FiniteSetTheorems, TLAPS
-----------------------------------------------------------------------------
(* Terminals and proxies *)

\* The steps of the control handler that use the session in their local variable.
Holds == {"closedCheck", "add", "register", "attach", "attachProxy", "registerProxy",
          "closeHandler", "closeSession"}

\* Maps, handlers and local variables keep a session on its own channel.
OnItsChannel ==
  /\ \A c \in Chan : table[c] # None => ChanOf[table[c]] = c
  /\ \A h \in Hub, c \in Chan : routes[h][c] # None => ChanOf[routes[h][c]] = c
  /\ \A h \in Hub : pc[h] \in Holds => ses[h] \in Session /\ ChanOf[ses[h]] = chan[h]
  /\ \A h \in Hub :
       pc[h] \in {"closedCheck", "attachProxy", "registerProxy"} => chan[h] \in ProxyChan

\* Control frames are read between the registration of the sessions and the end of
\* handleWS, and nothing is attached before.
InOrder ==
  \A h \in Hub :
    /\ pc[h] # "idle" => main[h] \notin {"none", "registerPTYs", "registerProxies", "sync"}
    /\ h \in open => main[h] \in {"registerPTYs", "registerProxies", "sync", "run"}
    /\ main[h] \in {"none", "registerPTYs", "registerProxies"} => \A s \in Session : sender[s] # h
    /\ main[h] = "none" => \A c \in Chan : routes[h][c] = None

\* Session s is in no map and on no hub; no hub but those of G has or feeds it.
Unknown(s, G) ==
  /\ \A c \in Chan : table[c] # s
  /\ \A h \in Hub, c \in Chan : routes[h][c] # s
  /\ \A h \in Hub \ G : ses[h] # s /\ sender[s] # h

\* A session that has not been created is unknown to all, ...
UnusedUnknown == \A s \in Session : state[s] = "unused" => Unknown(s, {})

\* ... and one that is not in its map yet to all but its creator.
NewUnknown ==
  \A h \in Hub : pc[h] = "add" =>
    /\ Unknown(ses[h], {h})
    /\ state[ses[h]] # "unused" /\ (IsPty(ses[h]) => state[ses[h]] # "closed")

\* A session in the map that streams to an open hub has its handler there, or is
\* about to get it, or is about to be closed.
Routed ==
  \A h \in open : \A s \in Session :
    (table[ChanOf[s]] = s /\ sender[s] = h /\ state[s] # "closed") =>
      \/ routes[h][ChanOf[s]] = s
      \/ ses[h] = s /\ pc[h] \in {"register", "registerProxy"}
      \/ chan[h] = ChanOf[s] /\ pc[h] \in {"closeHandler", "remove"}

\* A handler about to register the session it has looked up takes the place of no
\* session in the map that streams to its hub.
TakesNoPlace ==
  \A h \in open : pc[h] \in {"closedCheck", "attachProxy", "register", "registerProxy"} =>
    LET s == table[chan[h]] IN s # None /\ s # ses[h] /\ state[s] # "closed" => sender[s] # h

\* Attach comes after Register (terminals).
RegisteredFirst ==
  \A h \in open : pc[h] = "attach" => routes[h][chan[h]] = ses[h]

\* A session that is taken out of its map stays out.
StaysOut == \A h \in Hub : pc[h] = "closeSession" => table[chan[h]] # ses[h]

\* While a channel is closed, the hub has no handler on it.
Unregistered ==
  \A h \in Hub : pc[h] \in {"closeHandler", "remove", "closeSession"} => routes[h][chan[h]] = None

Active(h) == main[h] # "none" /\ ~Ended(h)

\* One connection at a time: only it acts, ...
OneActive == ~overlap => \A g, h \in Hub : Active(g) /\ Active(h) => g = h

\* ... it finds the place of a new session free, so that none is lost, ...
PlaceFree ==
  ~overlap =>
    /\ \A h \in Hub : pc[h] \in {"new", "add"} /\ table[chan[h]] # None =>
         state[table[chan[h]]] # "live"
    /\ \A h \in Hub : pc[h] = "closedCheck" => table[chan[h]] = ses[h]
NoneLost == ~overlap => NoOrphan

\* ... and the terminals it routes input to, or is about to, are not closed.
RoutesAlive ==
  ~overlap =>
    /\ \A h \in open : \A c \in PtyChan : routes[h][c] # None => state[routes[h][c]] # "closed"
    /\ \A h \in Hub : pc[h] = "register" /\ IsPty(ses[h]) => state[ses[h]] # "closed"

IInv ==
  /\ TypeOK /\ OnItsChannel /\ InOrder /\ UnusedUnknown /\ NewUnknown
  /\ Routed /\ TakesNoPlace /\ RegisteredFirst
  /\ ClosedLeavesMap /\ StaysOut /\ Unregistered
  /\ OneActive /\ PlaceFree /\ NoneLost /\ RoutesAlive
-----------------------------------------------------------------------------
\* The types as the steps below use them, value by value.
Typed ==
  /\ \A s \in Session : ChanOf[s] \in Chan /\ sender[s] \in Hub \cup {None}
  /\ \A c \in Chan : table[c] \in Session \cup {None}
  /\ \A h \in Hub : /\ chan[h] \in Chan /\ ses[h] \in Session \cup {None}
                    /\ \A c \in Chan : routes[h][c] \in Session \cup {None}
  /\ open \subseteq Hub /\ PtyChan \subseteq Chan /\ ProxyChan \subseteq Chan
  /\ \A c \in Chan : c \in ProxyChan <=> c \notin PtyChan

\* They follow from TypeOK.
LEMMA Types == TypeOK => Typed
  BY ChanAssumption DEF TypeOK, Typed, Chan

\* The types, for each action.
LEMMA TypeStep == IInv /\ [Next]_vars => TypeOK'
<1> SUFFICES ASSUME TypeOK, OnItsChannel, [Next]_vars PROVE TypeOK'
  BY DEF IInv
<1> USE ChanAssumption, NoneAssumption, BoundAssumption
    DEF TypeOK, sessionVars, mainVars, readVars, GoMain, Go, Return, Step, MainStep
<1>0. \A S \in SUBSET Chan : Listed(S) \in SUBSET Session
  BY DEF Listed
<1>1. ASSUME NEW h \in Hub, Main(h) PROVE TypeOK'
  <2>1. CASE Connect(h)
    <3>1. overlap' \in BOOLEAN
      BY <2>1, Zenon DEF Connect
    <3> QED
      BY <2>1, <3>1 DEF Connect
  <2>2. CASE RegisterHandlers(h)
    BY <2>2 DEF RegisterHandlers
  <2>3. CASE RegisterProxyHandlers(h)
    BY <2>3 DEF RegisterProxyHandlers
  <2>4. CASE SessionSync(h)
    BY <2>4 DEF SessionSync
  <2>5. CASE HubClose(h)
    BY <2>5 DEF HubClose
  <2>6. CASE DetachHub(h)
    BY <1>0, <2>6 DEF DetachHub, Chan
  <2>7. ASSUME NEW s \in Session, Detach(h, s) PROVE TypeOK'
    BY <2>7 DEF Detach
  <2>8. CASE DetachProxies(h)
    BY <1>0, <2>8 DEF DetachProxies, Chan
  <2>9. CASE Gone(h)
    BY <2>9 DEF Gone
  <2> QED
    BY <1>1, <2>1, <2>2, <2>3, <2>4, <2>5, <2>6, <2>7, <2>8, <2>9 DEF Main
<1>2. ASSUME NEW h \in Hub, Control(h) PROVE TypeOK'
  <2>0. pc[h] \in Holds => ses[h] \in Session
    BY DEF OnItsChannel
  <2>1. ASSUME NEW op \in {"open", "close"}, NEW c \in Chan, Frame(h, op, c) PROVE TypeOK'
    BY <2>1 DEF Frame
  <2>2. CASE OpenPTY(h)
    BY <2>2 DEF OpenPTY
  <2>3. CASE OpenProxy(h)
    BY <2>3 DEF OpenProxy
  <2>4. CASE ClosedCheck(h)
    BY <2>4 DEF ClosedCheck
  <2>5. ASSUME NEW s \in Session, New(h, s) PROVE TypeOK'
    BY <2>5 DEF New
  <2>6. CASE NewFails(h)
    BY <2>6 DEF NewFails
  <2>7. CASE Add(h)
    BY <2>7 DEF Add
  <2>8. CASE Register(h)
    BY <2>8 DEF Register
  <2>9. CASE Attach(h)
    BY <2>9 DEF Attach
  <2>10. CASE Unregister(h)
    BY <2>10 DEF Unregister
  <2>11. CASE Remove(h)
    BY <2>11 DEF Remove
  <2>12. CASE Close(h)
    BY <2>12 DEF Close
  <2> QED
    BY <1>2, <2>1, <2>2, <2>3, <2>4, <2>5, <2>6, <2>7, <2>8, <2>9, <2>10, <2>11, <2>12 DEF Control
<1>3. ASSUME NEW s \in Session, SessionEnds(s) PROVE TypeOK'
  BY <1>3 DEF SessionEnds
<1>4. CASE UNCHANGED vars
  BY <1>4 DEF vars
<1> QED
  BY <1>1, <1>2, <1>3, <1>4 DEF Next
\* The upgrade: the new connection is alone, or the overlap is noted.
LEMMA ConnectStep == ASSUME IInv, TypeOK', NEW h \in Hub, Connect(h) PROVE IInv'
<1>0. /\ main[h] = "none"
      /\ \A g \in Hub : main'[g] = IF g = h THEN "registerPTYs" ELSE main[g]
      /\ open' = open \cup {h}
      /\ ~overlap' => ~overlap /\ \A g \in Hub : main[g] # "none" => Ended(g)
      /\ UNCHANGED <<table, state, sender, routes, pc, chan, ses>>
  BY DEF IInv, TypeOK, sessionVars, mainVars, readVars, GoMain, Go, Return, Connect
<1> USE <1>0, Types, NoneAssumption DEF IInv, Typed
<1>1. OnItsChannel' /\ InOrder'
  BY DEF OnItsChannel, Holds, InOrder
<1>2. UnusedUnknown' /\ NewUnknown'
  BY DEF UnusedUnknown, Unknown, NewUnknown, OnItsChannel, Holds, IsPty
<1>3. Routed' /\ TakesNoPlace' /\ RegisteredFirst'
  BY DEF Routed, InOrder, TakesNoPlace, RegisteredFirst
<1>4. ClosedLeavesMap' /\ StaysOut' /\ Unregistered'
  BY DEF ClosedLeavesMap, StaysOut, Unregistered, InOrder
<1>5. OneActive' /\ PlaceFree' /\ NoneLost' /\ RoutesAlive'
  BY DEF OneActive, Active, Ended, InOrder, PlaceFree, NoneLost, NoOrphan, RoutesAlive
<1> QED
  BY <1>1, <1>2, <1>3, <1>4, <1>5

\* registerHandlers: terminals in the map take input from the new connection.
LEMMA RegisterHandlersStep == ASSUME IInv, TypeOK', NEW h \in Hub, RegisterHandlers(h) PROVE IInv'
<1>0. /\ main[h] = "registerPTYs"
      /\ \A g \in Hub : main'[g] = IF g = h THEN "registerProxies" ELSE main[g]
      /\ \A g \in Hub, c \in Chan : routes'[g][c] =
           IF g = h /\ c \in PtyChan /\ table[c] # None THEN table[c] ELSE routes[g][c]
      /\ UNCHANGED <<table, state, sender, open, overlap, pc, chan, ses>>
  BY DEF IInv, TypeOK, sessionVars, mainVars, readVars, GoMain, Go, Return, RegisterHandlers
<1> USE <1>0, Types, NoneAssumption DEF IInv, Typed
<1>1. OnItsChannel' /\ InOrder'
  BY DEF OnItsChannel, Holds, InOrder
<1>2. UnusedUnknown' /\ NewUnknown'
  BY DEF UnusedUnknown, Unknown, NewUnknown, OnItsChannel, Holds, IsPty
<1>3. Routed' /\ TakesNoPlace' /\ RegisteredFirst'
  BY DEF Routed, TakesNoPlace, InOrder, RegisteredFirst
<1>4. ClosedLeavesMap' /\ StaysOut' /\ Unregistered'
  BY DEF ClosedLeavesMap, StaysOut, Unregistered, InOrder
<1>5. OneActive' /\ PlaceFree' /\ NoneLost' /\ RoutesAlive'
  BY DEF OneActive, Active, Ended, InOrder, PlaceFree, NoneLost, NoOrphan, RoutesAlive,
    ClosedLeavesMap
<1> QED
  BY <1>1, <1>2, <1>3, <1>4, <1>5

\* registerProxyHandlers: proxies in the map are attached and registered at once.
LEMMA RegisterProxyHandlersStep ==
  ASSUME IInv, TypeOK', NEW h \in Hub, RegisterProxyHandlers(h)
  PROVE IInv'
<1>0. /\ main[h] = "registerProxies"
      /\ \A g \in Hub : main'[g] = IF g = h THEN "sync" ELSE main[g]
      /\ \A g \in Hub, c \in Chan : routes'[g][c] =
           IF g = h /\ c \in ProxyChan /\ table[c] # None THEN table[c] ELSE routes[g][c]
      /\ \A s \in Session : sender'[s] = IF s \in Listed(ProxyChan) THEN h ELSE sender[s]
      /\ UNCHANGED <<table, state, open, overlap, pc, chan, ses>>
  BY DEF IInv, TypeOK, sessionVars, mainVars, readVars, GoMain, Go, Return, RegisterProxyHandlers
<1> USE <1>0, Types, NoneAssumption DEF IInv, Typed
<1>1. OnItsChannel' /\ InOrder'
  BY DEF OnItsChannel, Holds, InOrder
<1>2. UnusedUnknown'
  <2>1. \A s \in Session : s \in Listed(ProxyChan) <=> ChanOf[s] \in ProxyChan /\ table[ChanOf[s]] = s
    BY DEF Listed, OnItsChannel
  <2> QED
    BY <2>1 DEF UnusedUnknown, Unknown
<1>3. NewUnknown'
  <2>1. \A s \in Session : s \in Listed(ProxyChan) <=> ChanOf[s] \in ProxyChan /\ table[ChanOf[s]] = s
    BY DEF Listed, OnItsChannel
  <2> QED
    BY <2>1 DEF NewUnknown, Unknown, InOrder, OnItsChannel, Holds
<1>4. TakesNoPlace' /\ RegisteredFirst'
  BY DEF TakesNoPlace, InOrder, RegisteredFirst
<1>5. Routed'
  <2>1. \A s \in Session : s \in Listed(ProxyChan) <=> ChanOf[s] \in ProxyChan /\ table[ChanOf[s]] = s
    BY DEF Listed, OnItsChannel
  <2> QED
    BY <2>1 DEF Routed, InOrder, OnItsChannel
<1>6. ClosedLeavesMap' /\ StaysOut' /\ Unregistered'
  BY DEF ClosedLeavesMap, StaysOut, Unregistered, InOrder
<1>7. OneActive' /\ PlaceFree' /\ NoneLost' /\ RoutesAlive'
  BY DEF OneActive, Active, Ended, InOrder, PlaceFree, NoneLost, NoOrphan, RoutesAlive
<1> QED
  BY <1>1, <1>2, <1>3, <1>4, <1>5, <1>6, <1>7

\* The session sync changes nothing but where handleWS is.
LEMMA SessionSyncStep == ASSUME IInv, TypeOK', NEW h \in Hub, SessionSync(h) PROVE IInv'
<1>0. /\ main[h] = "sync"
      /\ \A g \in Hub : main'[g] = IF g = h THEN "run" ELSE main[g]
      /\ UNCHANGED <<table, state, sender, open, routes, overlap, pc, chan, ses>>
  BY DEF IInv, TypeOK, sessionVars, mainVars, readVars, GoMain, Go, Return, SessionSync
<1> USE <1>0, Types, NoneAssumption DEF IInv, Typed
<1>1. OnItsChannel' /\ InOrder'
  BY DEF OnItsChannel, Holds, InOrder
<1>2. UnusedUnknown' /\ NewUnknown'
  BY DEF UnusedUnknown, Unknown, NewUnknown, OnItsChannel, Holds, IsPty
<1>3. Routed' /\ TakesNoPlace' /\ RegisteredFirst'
  BY DEF Routed, TakesNoPlace, RegisteredFirst
<1>4. ClosedLeavesMap' /\ StaysOut' /\ Unregistered'
  BY DEF ClosedLeavesMap, StaysOut, Unregistered
<1>5. OneActive' /\ PlaceFree' /\ NoneLost' /\ RoutesAlive'
  BY DEF OneActive, Active, Ended, InOrder, PlaceFree, NoneLost, NoOrphan, RoutesAlive
<1> QED
  BY <1>1, <1>2, <1>3, <1>4, <1>5

\* Hub.Close forgets the handlers of a hub that is open no more.
LEMMA HubCloseStep == ASSUME IInv, TypeOK', NEW h \in Hub, HubClose(h) PROVE IInv'
<1>0. /\ h \in open /\ open' = open \ {h}
      /\ \A g \in Hub, c \in Chan : routes'[g][c] = IF g = h THEN None ELSE routes[g][c]
      /\ UNCHANGED <<table, state, sender, main, overlap, pc, chan, ses>>
  BY DEF IInv, TypeOK, sessionVars, mainVars, readVars, GoMain, Go, Return, HubClose
<1> USE <1>0, Types, NoneAssumption DEF IInv, Typed
<1>1. OnItsChannel' /\ InOrder'
  BY DEF OnItsChannel, Holds, InOrder
<1>2. UnusedUnknown' /\ NewUnknown'
  BY DEF UnusedUnknown, Unknown, NewUnknown, OnItsChannel, Holds, IsPty
<1>3. Routed' /\ TakesNoPlace' /\ RegisteredFirst'
  BY DEF Routed, TakesNoPlace, RegisteredFirst
<1>4. ClosedLeavesMap' /\ StaysOut' /\ Unregistered'
  BY DEF ClosedLeavesMap, StaysOut, Unregistered
<1>5. OneActive' /\ PlaceFree' /\ NoneLost' /\ RoutesAlive'
  BY DEF OneActive, Active, Ended, InOrder, PlaceFree, NoneLost, NoOrphan, RoutesAlive
<1> QED
  BY <1>1, <1>2, <1>3, <1>4, <1>5

\* detachHub lists the terminals.
LEMMA DetachHubStep == ASSUME IInv, TypeOK', NEW h \in Hub, DetachHub(h) PROVE IInv'
<1>0. /\ main[h] = "run"
      /\ \A g \in Hub : main'[g] = IF g = h THEN "detachPTYs" ELSE main[g]
      /\ h \notin open
      /\ UNCHANGED <<table, state, sender, open, routes, overlap, pc, chan, ses>>
  BY DEF IInv, TypeOK, sessionVars, mainVars, readVars, GoMain, Go, Return, DetachHub
<1> USE <1>0, Types, NoneAssumption DEF IInv, Typed
<1>1. OnItsChannel' /\ InOrder'
  BY DEF OnItsChannel, Holds, InOrder
<1>2. UnusedUnknown' /\ NewUnknown'
  BY DEF UnusedUnknown, Unknown, NewUnknown, OnItsChannel, Holds, IsPty
<1>3. Routed' /\ TakesNoPlace' /\ RegisteredFirst'
  BY DEF Routed, TakesNoPlace, RegisteredFirst
<1>4. ClosedLeavesMap' /\ StaysOut' /\ Unregistered'
  BY DEF ClosedLeavesMap, StaysOut, Unregistered
<1>5. OneActive' /\ PlaceFree' /\ NoneLost' /\ RoutesAlive'
  BY DEF OneActive, Active, Ended, InOrder, PlaceFree, NoneLost, NoOrphan, RoutesAlive
<1> QED
  BY <1>1, <1>2, <1>3, <1>4, <1>5

\* Detaching leaves a session without a hub.
LEMMA DetachStep ==
  ASSUME IInv, TypeOK', NEW h \in Hub, NEW s \in Session, Detach(h, s)
  PROVE IInv'
<1>0. /\ main[h] \in {"detachPTYs", "detachProxies"}
      /\ \A t \in Session : sender'[t] = IF t = s THEN None ELSE sender[t]
      /\ UNCHANGED <<table, state, open, routes, main, overlap, pc, chan, ses>>
  BY DEF IInv, TypeOK, sessionVars, mainVars, readVars, GoMain, Go, Return, Detach
<1> USE <1>0, Types, NoneAssumption DEF IInv, Typed
<1>1. OnItsChannel' /\ InOrder'
  BY DEF OnItsChannel, Holds, InOrder
<1>2. UnusedUnknown' /\ NewUnknown'
  BY DEF UnusedUnknown, Unknown, NewUnknown, OnItsChannel, Holds, IsPty
<1>3. Routed' /\ TakesNoPlace' /\ RegisteredFirst'
  BY DEF Routed, TakesNoPlace, RegisteredFirst
<1>4. ClosedLeavesMap' /\ StaysOut' /\ Unregistered'
  BY DEF ClosedLeavesMap, StaysOut, Unregistered
<1>5. OneActive' /\ PlaceFree' /\ NoneLost' /\ RoutesAlive'
  BY DEF OneActive, Active, Ended, InOrder, PlaceFree, NoneLost, NoOrphan, RoutesAlive
<1> QED
  BY <1>1, <1>2, <1>3, <1>4, <1>5

\* detachProxies lists the proxies.
LEMMA DetachProxiesStep == ASSUME IInv, TypeOK', NEW h \in Hub, DetachProxies(h) PROVE IInv'
<1>0. /\ main[h] = "detachPTYs"
      /\ \A g \in Hub : main'[g] = IF g = h THEN "detachProxies" ELSE main[g]
      /\ UNCHANGED <<table, state, sender, open, routes, overlap, pc, chan, ses>>
  BY DEF IInv, TypeOK, sessionVars, mainVars, readVars, GoMain, Go, Return, DetachProxies
<1> USE <1>0, Types, NoneAssumption DEF IInv, Typed
<1>1. OnItsChannel' /\ InOrder'
  BY DEF OnItsChannel, Holds, InOrder
<1>2. UnusedUnknown' /\ NewUnknown'
  BY DEF UnusedUnknown, Unknown, NewUnknown, OnItsChannel, Holds, IsPty
<1>3. Routed' /\ TakesNoPlace' /\ RegisteredFirst'
  BY DEF Routed, TakesNoPlace, RegisteredFirst
<1>4. ClosedLeavesMap' /\ StaysOut' /\ Unregistered'
  BY DEF ClosedLeavesMap, StaysOut, Unregistered
<1>5. OneActive' /\ PlaceFree' /\ NoneLost' /\ RoutesAlive'
  BY DEF OneActive, Active, Ended, InOrder, PlaceFree, NoneLost, NoOrphan, RoutesAlive
<1> QED
  BY <1>1, <1>2, <1>3, <1>4, <1>5

\* handleWS returns.
LEMMA GoneStep == ASSUME IInv, TypeOK', NEW h \in Hub, Gone(h) PROVE IInv'
<1>0. /\ main[h] = "detachProxies"
      /\ \A g \in Hub : main'[g] = IF g = h THEN "gone" ELSE main[g]
      /\ UNCHANGED <<table, state, sender, open, routes, overlap, pc, chan, ses>>
  BY DEF IInv, TypeOK, sessionVars, mainVars, readVars, GoMain, Go, Return, Gone
<1> USE <1>0, Types, NoneAssumption DEF IInv, Typed
<1>1. OnItsChannel' /\ InOrder'
  BY DEF OnItsChannel, Holds, InOrder
<1>2. UnusedUnknown' /\ NewUnknown'
  BY DEF UnusedUnknown, Unknown, NewUnknown, OnItsChannel, Holds, IsPty
<1>3. Routed' /\ TakesNoPlace' /\ RegisteredFirst'
  BY DEF Routed, TakesNoPlace, RegisteredFirst
<1>4. ClosedLeavesMap' /\ StaysOut' /\ Unregistered'
  BY DEF ClosedLeavesMap, StaysOut, Unregistered
<1>5. OneActive' /\ PlaceFree' /\ NoneLost' /\ RoutesAlive'
  BY DEF OneActive, Active, Ended, InOrder, PlaceFree, NoneLost, NoOrphan, RoutesAlive
<1> QED
  BY <1>1, <1>2, <1>3, <1>4, <1>5

\* A control frame is dispatched while the hub is open and Run has not returned.
LEMMA FrameStep ==
  ASSUME IInv, TypeOK', NEW h \in Hub, NEW op \in {"open", "close"}, NEW c \in Chan, Frame(h, op, c)
  PROVE IInv'
<1>0. /\ main[h] = "run" /\ h \in open /\ pc[h] = "idle"
      /\ \A g \in Hub : pc'[g] = IF g = h THEN op ELSE pc[g]
      /\ \A g \in Hub : chan'[g] = IF g = h THEN c ELSE chan[g]
      /\ UNCHANGED <<table, state, sender, open, routes, main, overlap, ses>>
  BY DEF IInv, TypeOK, sessionVars, mainVars, readVars, GoMain, Go, Return, Frame
<1> USE <1>0, Types, NoneAssumption DEF IInv, Typed
<1>1. OnItsChannel' /\ InOrder'
  BY DEF OnItsChannel, Holds, InOrder
<1>2. UnusedUnknown' /\ NewUnknown'
  BY DEF UnusedUnknown, Unknown, NewUnknown, OnItsChannel, Holds, IsPty
<1>3. Routed' /\ TakesNoPlace' /\ RegisteredFirst'
  BY DEF Routed, TakesNoPlace, RegisteredFirst
<1>4. ClosedLeavesMap' /\ StaysOut' /\ Unregistered'
  BY DEF ClosedLeavesMap, StaysOut, Unregistered
<1>5. OneActive' /\ PlaceFree' /\ NoneLost' /\ RoutesAlive'
  BY DEF OneActive, Active, Ended, InOrder, PlaceFree, NoneLost, NoOrphan, RoutesAlive
<1> QED
  BY <1>1, <1>2, <1>3, <1>4, <1>5

\* handleOpenPTY looks the terminal up: what it is about to register is in the map.
LEMMA OpenPTYStep == ASSUME IInv, TypeOK', NEW h \in Hub, OpenPTY(h) PROVE IInv'
<1>0. /\ pc[h] = "open" /\ chan[h] \in PtyChan
      /\ \A g \in Hub :
           pc'[g] = IF g = h THEN (IF table[chan[h]] = None THEN "new" ELSE "register") ELSE pc[g]
      /\ \A g \in Hub : ses'[g] = IF g = h THEN table[chan[h]] ELSE ses[g]
      /\ UNCHANGED <<table, state, sender, open, routes, main, overlap, chan>>
  BY DEF IInv, TypeOK, sessionVars, mainVars, readVars, GoMain, Go, Return, OpenPTY
<1> USE <1>0, Types, NoneAssumption DEF IInv, Typed
<1>1. OnItsChannel' /\ InOrder'
  BY DEF OnItsChannel, Holds, InOrder
<1>2. UnusedUnknown' /\ NewUnknown'
  BY DEF UnusedUnknown, Unknown, NewUnknown, OnItsChannel, Holds, IsPty
<1>3. Routed' /\ TakesNoPlace' /\ RegisteredFirst'
  BY DEF Routed, TakesNoPlace, RegisteredFirst
<1>4. ClosedLeavesMap' /\ StaysOut' /\ Unregistered'
  BY DEF ClosedLeavesMap, StaysOut, Unregistered
<1>5. OneActive' /\ PlaceFree' /\ NoneLost' /\ RoutesAlive'
  BY DEF OneActive, Active, Ended, InOrder, PlaceFree, NoneLost, NoOrphan, RoutesAlive,
    ClosedLeavesMap
<1> QED
  BY <1>1, <1>2, <1>3, <1>4, <1>5

\* handleOpenProxy looks the proxy up.
LEMMA OpenProxyStep == ASSUME IInv, TypeOK', NEW h \in Hub, OpenProxy(h) PROVE IInv'
<1>0. /\ pc[h] = "open" /\ chan[h] \in ProxyChan
      /\ \A g \in Hub :
           pc'[g] = IF g = h THEN (IF table[chan[h]] = None THEN "new" ELSE "closedCheck") ELSE pc[g]
      /\ \A g \in Hub : ses'[g] = IF g = h THEN table[chan[h]] ELSE ses[g]
      /\ UNCHANGED <<table, state, sender, open, routes, main, overlap, chan>>
  BY DEF IInv, TypeOK, sessionVars, mainVars, readVars, GoMain, Go, Return, OpenProxy
<1> USE <1>0, Types, NoneAssumption DEF IInv, Typed
<1>1. OnItsChannel' /\ InOrder'
  BY DEF OnItsChannel, Holds, InOrder
<1>2. UnusedUnknown' /\ NewUnknown'
  BY DEF UnusedUnknown, Unknown, NewUnknown, OnItsChannel, Holds, IsPty
<1>3. Routed' /\ TakesNoPlace' /\ RegisteredFirst'
  BY DEF Routed, TakesNoPlace, RegisteredFirst
<1>4. ClosedLeavesMap' /\ StaysOut' /\ Unregistered'
  BY DEF ClosedLeavesMap, StaysOut, Unregistered
<1>5. OneActive' /\ PlaceFree' /\ NoneLost' /\ RoutesAlive'
  BY DEF OneActive, Active, Ended, InOrder, PlaceFree, NoneLost, NoOrphan, RoutesAlive
<1> QED
  BY <1>1, <1>2, <1>3, <1>4, <1>5

\* Only a proxy that is closed is replaced.
LEMMA ClosedCheckStep == ASSUME IInv, TypeOK', NEW h \in Hub, ClosedCheck(h) PROVE IInv'
<1>0. /\ pc[h] = "closedCheck"
      /\ \A g \in Hub :
           pc'[g] = IF g = h THEN (IF state[ses[h]] = "closed" THEN "new" ELSE "attachProxy") ELSE pc[g]
      /\ UNCHANGED <<table, state, sender, open, routes, main, overlap, chan, ses>>
  BY DEF IInv, TypeOK, sessionVars, mainVars, readVars, GoMain, Go, Return, ClosedCheck
<1> USE <1>0, Types, NoneAssumption DEF IInv, Typed
<1>1. OnItsChannel' /\ InOrder'
  BY DEF OnItsChannel, Holds, InOrder
<1>2. UnusedUnknown' /\ NewUnknown'
  BY DEF UnusedUnknown, Unknown, NewUnknown, OnItsChannel, Holds, IsPty
<1>3. Routed' /\ TakesNoPlace' /\ RegisteredFirst'
  BY DEF Routed, TakesNoPlace, RegisteredFirst
<1>4. ClosedLeavesMap' /\ StaysOut' /\ Unregistered'
  BY DEF ClosedLeavesMap, StaysOut, Unregistered
<1>5. OneActive' /\ PlaceFree' /\ NoneLost' /\ RoutesAlive'
  BY DEF OneActive, Active, Ended, InOrder, PlaceFree, NoneLost, NoOrphan, RoutesAlive
<1> QED
  BY <1>1, <1>2, <1>3, <1>4, <1>5

\* A new session is known to its creator only.
LEMMA NewStep == ASSUME IInv, TypeOK', NEW h \in Hub, NEW s \in Session, New(h, s) PROVE IInv'
<1>0. /\ pc[h] = "new" /\ state[s] = "unused" /\ ChanOf[s] = chan[h]
      /\ \A g \in Hub : pc'[g] = IF g = h THEN "add" ELSE pc[g]
      /\ \A g \in Hub : ses'[g] = IF g = h THEN s ELSE ses[g]
      /\ \A t \in Session : state'[t] = IF t = s THEN "live" ELSE state[t]
      /\ \A t \in Session : sender'[t] = IF t = s /\ ~IsPty(s) THEN h ELSE sender[t]
      /\ UNCHANGED <<table, open, routes, main, overlap, chan>>
  BY DEF IInv, TypeOK, sessionVars, mainVars, readVars, GoMain, Go, Return, New
<1> USE <1>0, Types, NoneAssumption DEF IInv, Typed
<1>1. OnItsChannel' /\ InOrder'
  BY DEF OnItsChannel, Holds, InOrder
<1>2. UnusedUnknown' /\ NewUnknown'
  BY DEF UnusedUnknown, Unknown, NewUnknown, OnItsChannel, Holds, IsPty
<1>3. Routed' /\ TakesNoPlace' /\ RegisteredFirst'
  BY DEF Routed, UnusedUnknown, Unknown, TakesNoPlace, RegisteredFirst
<1>4. ClosedLeavesMap' /\ StaysOut' /\ Unregistered'
  BY DEF ClosedLeavesMap, StaysOut, Unregistered
<1>5. OneActive' /\ PlaceFree' /\ NoneLost' /\ RoutesAlive'
  BY DEF OneActive, Active, Ended, InOrder, PlaceFree, UnusedUnknown, Unknown, NoneLost,
    NoOrphan, RoutesAlive
<1> QED
  BY <1>1, <1>2, <1>3, <1>4, <1>5

\* No session is created.
LEMMA NewFailsStep == ASSUME IInv, TypeOK', NEW h \in Hub, NewFails(h) PROVE IInv'
<1>0. /\ pc[h] = "new"
      /\ \A g \in Hub : pc'[g] = IF g = h THEN "idle" ELSE pc[g]
      /\ \A g \in Hub : ses'[g] = IF g = h THEN None ELSE ses[g]
      /\ UNCHANGED <<table, state, sender, open, routes, main, overlap, chan>>
  BY DEF IInv, TypeOK, sessionVars, mainVars, readVars, GoMain, Go, Return, NewFails
<1> USE <1>0, Types, NoneAssumption DEF IInv, Typed
<1>1. OnItsChannel' /\ InOrder'
  BY DEF OnItsChannel, Holds, InOrder
<1>2. UnusedUnknown' /\ NewUnknown'
  BY DEF UnusedUnknown, Unknown, NewUnknown, OnItsChannel, Holds, IsPty
<1>3. Routed' /\ TakesNoPlace' /\ RegisteredFirst'
  BY DEF Routed, TakesNoPlace, RegisteredFirst
<1>4. ClosedLeavesMap' /\ StaysOut' /\ Unregistered'
  BY DEF ClosedLeavesMap, StaysOut, Unregistered
<1>5. OneActive' /\ PlaceFree' /\ NoneLost' /\ RoutesAlive'
  BY DEF OneActive, Active, Ended, InOrder, PlaceFree, NoneLost, NoOrphan, RoutesAlive
<1> QED
  BY <1>1, <1>2, <1>3, <1>4, <1>5

\* The map takes a session that nobody else knows and, if a terminal, nobody has closed.
LEMMA AddStep == ASSUME IInv, TypeOK', NEW h \in Hub, Add(h) PROVE IInv'
<1>0. /\ pc[h] = "add"
      /\ \A g \in Hub :
           pc'[g] = IF g = h THEN (IF IsPty(ses[h]) THEN "register" ELSE "registerProxy") ELSE pc[g]
      /\ \A c \in Chan : table'[c] = IF c = chan[h] THEN ses[h] ELSE table[c]
      /\ UNCHANGED <<state, sender, open, routes, main, overlap, chan, ses>>
  BY DEF IInv, TypeOK, sessionVars, mainVars, readVars, GoMain, Go, Return, Add
<1> USE <1>0, Types, NoneAssumption DEF IInv, Typed
<1>1. OnItsChannel' /\ InOrder'
  BY DEF OnItsChannel, Holds, IsPty, InOrder
<1>2. UnusedUnknown' /\ NewUnknown'
  BY DEF UnusedUnknown, Unknown, NewUnknown, OnItsChannel, Holds, IsPty
<1>3. Routed' /\ TakesNoPlace' /\ RegisteredFirst'
  BY DEF Routed, OnItsChannel, Holds, NewUnknown, Unknown, TakesNoPlace, RegisteredFirst
<1>4. StaysOut' /\ Unregistered'
  BY DEF StaysOut, OnItsChannel, Holds, NewUnknown, Unknown, Unregistered
<1>5. ClosedLeavesMap'
  <2>1. chan[h] \in PtyChan => state[ses[h]] # "closed"
    BY DEF OnItsChannel, Holds, NewUnknown, IsPty
  <2>2. ASSUME NEW c \in PtyChan, table'[c] # None, state[table'[c]] = "closed"
        PROVE  \E g \in Hub : chan[g] = c /\ pc'[g] = "remove"
    <3>1. c # chan[h] /\ table'[c] = table[c]
      BY <2>1, <2>2
    <3>2. PICK g \in Hub : chan[g] = c /\ pc[g] = "remove"
      BY <2>2, <3>1 DEF ClosedLeavesMap
    <3> QED
      BY <3>2
  <2> QED
    BY <2>2 DEF ClosedLeavesMap
<1>6. OneActive'
  BY DEF OneActive, Active, Ended, InOrder
<1>7. PlaceFree'
  BY DEF PlaceFree, OneActive, Active, Ended, InOrder
<1>8. NoneLost'
  BY DEF NoneLost, NoOrphan, OneActive, Active, Ended, InOrder, PlaceFree, OnItsChannel, Holds,
    NewUnknown
<1>9. RoutesAlive'
  <2>1. ASSUME NEW g \in Hub, ~overlap, pc'[g] = "register", IsPty(ses[g])
        PROVE  state[ses[g]] # "closed"
    <3>1. CASE g = h
      BY <2>1, <3>1 DEF NewUnknown
    <3>2. CASE g # h
      <4>1. pc'[g] = pc[g]
        BY <3>2
      <4> QED
        BY <2>1, <4>1 DEF RoutesAlive
    <3> QED
      BY <3>1, <3>2
  <2>2. ASSUME NEW g \in open, NEW c \in PtyChan, ~overlap, routes[g][c] # None
        PROVE  state[routes[g][c]] # "closed"
    BY <2>2 DEF RoutesAlive
  <2> QED
    BY <2>1, <2>2 DEF RoutesAlive, IsPty
<1> QED
  BY <1>1, <1>2, <1>3, <1>4, <1>5, <1>6, <1>7, <1>8, <1>9

\* What is registered takes the place of nothing that streams to this hub.
LEMMA RegisterStep == ASSUME IInv, TypeOK', NEW h \in Hub, Register(h) PROVE IInv'
<1>0. /\ pc[h] \in {"register", "registerProxy"}
      /\ \A g \in Hub :
           pc'[g] = IF g = h THEN (IF pc[h] = "register" THEN "attach" ELSE "idle") ELSE pc[g]
      /\ \A g \in Hub :
           ses'[g] = IF g = h THEN (IF pc[h] = "register" THEN ses[h] ELSE None) ELSE ses[g]
      /\ \A g \in Hub, c \in Chan : routes'[g][c] =
           IF g = h /\ c = chan[h] THEN ses[h] ELSE routes[g][c]
      /\ UNCHANGED <<table, state, sender, open, main, overlap, chan>>
  BY DEF IInv, TypeOK, sessionVars, mainVars, readVars, GoMain, Go, Return, Register
<1> USE <1>0, Types, NoneAssumption DEF IInv, Typed
<1>1. OnItsChannel' /\ InOrder'
  BY DEF OnItsChannel, Holds, InOrder
<1>2. UnusedUnknown' /\ NewUnknown'
  BY DEF UnusedUnknown, Unknown, NewUnknown, OnItsChannel, Holds, IsPty
<1>3. Routed' /\ TakesNoPlace' /\ RegisteredFirst'
  BY DEF Routed, OnItsChannel, Holds, TakesNoPlace, RegisteredFirst
<1>4. ClosedLeavesMap' /\ StaysOut' /\ Unregistered'
  BY DEF ClosedLeavesMap, StaysOut, Unregistered
<1>5. OneActive' /\ PlaceFree' /\ NoneLost' /\ RoutesAlive'
  BY DEF OneActive, Active, Ended, InOrder, PlaceFree, NoneLost, NoOrphan, RoutesAlive,
    OnItsChannel, Holds, IsPty
<1> QED
  BY <1>1, <1>2, <1>3, <1>4, <1>5

\* What is attached has been registered, or is about to be.
LEMMA AttachStep == ASSUME IInv, TypeOK', NEW h \in Hub, Attach(h) PROVE IInv'
<1>0. /\ pc[h] \in {"attach", "attachProxy"}
      /\ \A g \in Hub :
           pc'[g] = IF g = h THEN (IF pc[h] = "attach" THEN "idle" ELSE "registerProxy") ELSE pc[g]
      /\ \A g \in Hub :
           ses'[g] = IF g = h THEN (IF pc[h] = "attach" THEN None ELSE ses[h]) ELSE ses[g]
      /\ \A s \in Session : sender'[s] = IF s = ses[h] THEN h ELSE sender[s]
      /\ UNCHANGED <<table, state, open, routes, main, overlap, chan>>
  BY DEF IInv, TypeOK, sessionVars, mainVars, readVars, GoMain, Go, Return, Attach
<1> USE <1>0, Types, NoneAssumption DEF IInv, Typed
<1>1. OnItsChannel' /\ InOrder'
  BY DEF OnItsChannel, Holds, InOrder
<1>2. UnusedUnknown' /\ NewUnknown'
  BY DEF UnusedUnknown, Unknown, NewUnknown, OnItsChannel, Holds, IsPty
<1>3. Routed' /\ TakesNoPlace' /\ RegisteredFirst'
  BY DEF Routed, OnItsChannel, Holds, RegisteredFirst, TakesNoPlace
<1>4. ClosedLeavesMap' /\ StaysOut' /\ Unregistered'
  BY DEF ClosedLeavesMap, StaysOut, Unregistered
<1>5. OneActive' /\ PlaceFree' /\ NoneLost' /\ RoutesAlive'
  BY DEF OneActive, Active, Ended, InOrder, PlaceFree, NoneLost, NoOrphan, RoutesAlive
<1> QED
  BY <1>1, <1>2, <1>3, <1>4, <1>5

\* The handler is taken from the hub before it is closed.
LEMMA UnregisterStep == ASSUME IInv, TypeOK', NEW h \in Hub, Unregister(h) PROVE IInv'
<1>0. /\ pc[h] = "close"
      /\ \A g \in Hub :
           pc'[g] = IF g = h THEN (IF routes[h][chan[h]] = None THEN "remove" ELSE "closeHandler") ELSE pc[g]
      /\ \A g \in Hub : ses'[g] = IF g = h THEN routes[h][chan[h]] ELSE ses[g]
      /\ \A g \in Hub, c \in Chan : routes'[g][c] =
           IF g = h /\ c = chan[h] THEN None ELSE routes[g][c]
      /\ UNCHANGED <<table, state, sender, open, main, overlap, chan>>
  BY DEF IInv, TypeOK, sessionVars, mainVars, readVars, GoMain, Go, Return, Unregister
<1> USE <1>0, Types, NoneAssumption DEF IInv, Typed
<1>1. OnItsChannel' /\ InOrder'
  BY DEF OnItsChannel, Holds, InOrder
<1>2. UnusedUnknown' /\ NewUnknown'
  BY DEF UnusedUnknown, Unknown, NewUnknown, OnItsChannel, Holds, IsPty
<1>3. Routed' /\ TakesNoPlace' /\ RegisteredFirst'
  BY DEF Routed, TakesNoPlace, RegisteredFirst
<1>4. ClosedLeavesMap' /\ StaysOut' /\ Unregistered'
  BY DEF ClosedLeavesMap, StaysOut, Unregistered
<1>5. OneActive' /\ PlaceFree' /\ NoneLost' /\ RoutesAlive'
  BY DEF OneActive, Active, Ended, InOrder, PlaceFree, NoneLost, NoOrphan, RoutesAlive
<1> QED
  BY <1>1, <1>2, <1>3, <1>4, <1>5

\* The session is taken out of the map before it is closed.
LEMMA RemoveStep == ASSUME IInv, TypeOK', NEW h \in Hub, Remove(h) PROVE IInv'
<1>0. /\ pc[h] = "remove"
      /\ \A g \in Hub :
           pc'[g] = IF g = h THEN (IF table[chan[h]] = None THEN "idle" ELSE "closeSession") ELSE pc[g]
      /\ \A g \in Hub : ses'[g] = IF g = h THEN table[chan[h]] ELSE ses[g]
      /\ \A c \in Chan : table'[c] = IF c = chan[h] THEN None ELSE table[c]
      /\ UNCHANGED <<state, sender, open, routes, main, overlap, chan>>
  BY DEF IInv, TypeOK, sessionVars, mainVars, readVars, GoMain, Go, Return, Remove
<1> USE <1>0, Types, NoneAssumption DEF IInv, Typed
<1>1. OnItsChannel' /\ InOrder'
  BY DEF OnItsChannel, Holds, InOrder
<1>2. UnusedUnknown' /\ NewUnknown'
  BY DEF UnusedUnknown, Unknown, NewUnknown, OnItsChannel, Holds, IsPty
<1>3. Routed' /\ TakesNoPlace' /\ RegisteredFirst'
  BY DEF Routed, TakesNoPlace, RegisteredFirst
<1>4. ClosedLeavesMap' /\ StaysOut' /\ Unregistered'
  BY DEF ClosedLeavesMap, StaysOut, OnItsChannel, Holds, Unregistered
<1>5. OneActive' /\ PlaceFree' /\ NoneLost' /\ RoutesAlive'
  BY DEF OneActive, Active, Ended, InOrder, PlaceFree, NoneLost, NoOrphan, RoutesAlive
<1> QED
  BY <1>1, <1>2, <1>3, <1>4, <1>5

\* What is closed is in the map only until the next step of the same handler.
LEMMA CloseStep == ASSUME IInv, TypeOK', NEW h \in Hub, Close(h) PROVE IInv'
<1>0. /\ pc[h] \in {"closeHandler", "closeSession"}
      /\ \A g \in Hub :
           pc'[g] = IF g = h THEN (IF pc[h] = "closeHandler" THEN "remove" ELSE "idle") ELSE pc[g]
      /\ \A g \in Hub :
           ses'[g] = IF g = h THEN (IF pc[h] = "closeHandler" THEN ses[h] ELSE None) ELSE ses[g]
      /\ \A s \in Session : state'[s] = IF s = ses[h] THEN "closed" ELSE state[s]
      /\ UNCHANGED <<table, sender, open, routes, main, overlap, chan>>
  BY DEF IInv, TypeOK, sessionVars, mainVars, readVars, GoMain, Go, Return, Close
<1> USE <1>0, Types, NoneAssumption DEF IInv, Typed
<1>1. OnItsChannel' /\ InOrder'
  BY DEF OnItsChannel, Holds, InOrder
<1>2. UnusedUnknown' /\ NewUnknown'
  BY DEF UnusedUnknown, Unknown, NewUnknown, OnItsChannel, Holds, IsPty
<1>3. Routed' /\ TakesNoPlace' /\ RegisteredFirst'
  BY DEF Routed, TakesNoPlace, RegisteredFirst
<1>4. ClosedLeavesMap' /\ StaysOut' /\ Unregistered'
  BY DEF ClosedLeavesMap, OnItsChannel, Holds, StaysOut, Unregistered
<1>5. OneActive' /\ PlaceFree' /\ NoneLost' /\ RoutesAlive'
  BY DEF OneActive, Active, Ended, InOrder, PlaceFree, NoneLost, NoOrphan, RoutesAlive,
    OnItsChannel, Holds, Unregistered
<1> QED
  BY <1>1, <1>2, <1>3, <1>4, <1>5

\* A shell that exits is not closed; a proxy whose connection ends is.
LEMMA SessionEndsStep == ASSUME IInv, TypeOK', NEW s \in Session, SessionEnds(s) PROVE IInv'
<1>0. /\ state[s] = "live"
      /\ \A t \in Session : state'[t] =
           IF t = s THEN (IF IsPty(s) THEN "exited" ELSE "closed") ELSE state[t]
      /\ UNCHANGED <<table, sender, open, routes, main, overlap, pc, chan, ses>>
  BY DEF IInv, TypeOK, sessionVars, mainVars, readVars, GoMain, Go, Return, SessionEnds
<1> USE <1>0, Types, NoneAssumption DEF IInv, Typed
<1>1. OnItsChannel' /\ InOrder'
  BY DEF OnItsChannel, Holds, InOrder
<1>2. UnusedUnknown' /\ NewUnknown'
  BY DEF UnusedUnknown, Unknown, NewUnknown, OnItsChannel, Holds, IsPty
<1>3. Routed' /\ TakesNoPlace' /\ RegisteredFirst'
  BY DEF Routed, TakesNoPlace, RegisteredFirst
<1>4. ClosedLeavesMap' /\ StaysOut' /\ Unregistered'
  BY DEF ClosedLeavesMap, OnItsChannel, IsPty, StaysOut, Unregistered
<1>5. OneActive' /\ PlaceFree' /\ NoneLost' /\ RoutesAlive'
  BY DEF OneActive, Active, Ended, InOrder, PlaceFree, NoneLost, NoOrphan, RoutesAlive,
    OnItsChannel, Holds, IsPty
<1> QED
  BY <1>1, <1>2, <1>3, <1>4, <1>5

-----------------------------------------------------------------------------
\* The inductive invariant.
THEOREM Invariance == Spec => []IInv
<1>1. Init => IInv
  <2> SUFFICES ASSUME Init PROVE IInv
    OBVIOUS
  <2>1. TypeOK
    <3>1. (CHOOSE c \in Chan : TRUE) \in Chan
      BY ChanAssumption
    <3>2. chan \in [Hub -> Chan]
      BY <3>1 DEF Init
    <3>3. overlap \in BOOLEAN
      BY DEF Init
    <3> QED
      BY <3>2, <3>3, BoundAssumption DEF Init, TypeOK, Step, MainStep
  <2>2. \A h \in Hub : pc[h] = "idle" /\ main[h] = "none" /\ ses[h] = None
    BY DEF Init
  <2>3. /\ \A c \in Chan : table[c] = None
        /\ \A s \in Session : state[s] = "unused" /\ sender[s] = None
        /\ \A h \in Hub, c \in Chan : routes[h][c] = None
    BY DEF Init
  <2>4. open = {}
    BY DEF Init
  <2> USE <2>1, <2>2, <2>3, <2>4, Types, NoneAssumption DEF Typed
  <2>5. OnItsChannel /\ InOrder /\ UnusedUnknown /\ NewUnknown
    BY DEF OnItsChannel, Holds, InOrder, UnusedUnknown, NewUnknown, Unknown
  <2>6. Routed /\ TakesNoPlace /\ RegisteredFirst /\ ClosedLeavesMap /\ StaysOut /\ Unregistered
    BY DEF Routed, TakesNoPlace, RegisteredFirst, ClosedLeavesMap, StaysOut, Unregistered
  <2>7. OneActive /\ PlaceFree /\ NoneLost /\ RoutesAlive
    BY DEF OneActive, Active, PlaceFree, NoneLost, NoOrphan, RoutesAlive
  <2> QED
    BY <2>5, <2>6, <2>7 DEF IInv
<1>2. IInv /\ [Next]_vars => IInv'
  <2> SUFFICES ASSUME IInv, TypeOK', [Next]_vars PROVE IInv'
    BY TypeStep
  <2>1. ASSUME NEW h \in Hub, Main(h) PROVE IInv'
    BY <2>1, ConnectStep, RegisterHandlersStep, RegisterProxyHandlersStep, SessionSyncStep,
      HubCloseStep, DetachHubStep, DetachStep, DetachProxiesStep, GoneStep DEF Main
  <2>2. ASSUME NEW h \in Hub, Control(h) PROVE IInv'
    BY <2>2, FrameStep, OpenPTYStep, OpenProxyStep, ClosedCheckStep, NewStep, NewFailsStep,
      AddStep,
      RegisterStep, AttachStep, UnregisterStep, RemoveStep, CloseStep DEF Control
  <2>3. ASSUME NEW s \in Session, SessionEnds(s) PROVE IInv'
    BY <2>3, SessionEndsStep
  <2>4. CASE UNCHANGED vars
    BY <2>4 DEF vars, sessionVars, mainVars, readVars, IInv, TypeOK, OnItsChannel, Holds, InOrder,
      UnusedUnknown, NewUnknown, Unknown, Routed, TakesNoPlace, RegisteredFirst, ClosedLeavesMap,
      StaysOut, Unregistered, OneActive, Active, Ended, PlaceFree, NoneLost, NoOrphan, RoutesAlive
  <2> QED
    BY <2>1, <2>2, <2>3, <2>4 DEF Next
<1> QED
  BY <1>1, <1>2, PTL DEF Spec

\* A session that streams to an open connection takes its input from it, after a
\* reconnect and after every OpenPTY and OpenProxy, whatever the user's other
\* connections do in between.
THEOREM InputFollowsOutput == Spec => []InputReachesSession
<1>1. IInv => InputReachesSession
  <2> SUFFICES ASSUME IInv, NEW h \in open, NEW c \in Chan, table[c] # None, sender[table[c]] = h,
                      pc[h] = "idle", state[table[c]] # "closed"
               PROVE  routes[h][c] = table[c]
    BY DEF InputReachesSession
  <2>1. table[c] \in Session /\ ChanOf[table[c]] = c /\ h \in Hub
    BY Types DEF IInv, OnItsChannel, Typed
  <2> QED
    BY <2>1 DEF IInv, Routed
<1> QED
  BY <1>1, Invariance, PTL

\* A closed terminal leaves the map, also when two connections close and open the
\* same channel at once (handleClosePTY, removePTY, addPTY).
THEOREM ClosedTerminalsLeave == Spec => []ClosedLeavesMap
<1>1. IInv => ClosedLeavesMap
  BY DEF IInv
<1> QED
  BY <1>1, Invariance, PTL

\* One connection at a time loses no session and routes no input to a closed terminal.
THEOREM NothingLostAlone == Spec => []AloneInOrder
<1>1. IInv => AloneInOrder
  BY DEF IInv, AloneInOrder, NoneLost, RoutesAlive, RoutedAlive
<1> QED
  BY <1>1, Invariance, PTL

-----------------------------------------------------------------------------
(* File transfers *)

\* The frames of each kind.
UploadFrame == [type : {"upload"}, id : Upload, off : Nat]
RequestFrame == [type : {"downloadReq"}, id : Download]
ProgressFrame == [type : {"progress"}, id : Upload \cup Download, sent : Nat, total : Nat]
ChunkFrame == [type : {"chunk"}, id : Download, off : Nat, cell : FileCell]
ErrorFrame == [type : {"error"}, id : Download]
UpFrame == UploadFrame \cup RequestFrame
DownFrame == ProgressFrame \cup ChunkFrame \cup ErrorFrame

Streamer == [pc : {"none", "open", "read", "progress", "ended"},
             conn : Nat, off : Nat, total : Seq(FileCell)]

\* What each variable holds.
ConnTyped ==
  /\ sock \in 0..conns /\ conns \in Conn
  /\ hub \in [Conn -> {"new", "open", "closed"}] /\ \A c \in Conn : hub[c] # "new" => c <= conns
  /\ up \in [Conn -> Seq(UpFrame)]
  /\ down \in [Conn -> Seq(DownFrame)]
  /\ \A c \in Conn : Len(down[c]) <= QueueCap
  /\ handler \in [Conn -> UploadFrame \cup {<<>>}]
UploadTyped ==
  /\ sent \in [Upload -> Nat] /\ \A u \in Upload : sent[u] <= Chunks(u)
  /\ toast \in [Upload -> {"none", "uploading", "done"}]
  /\ file \in [Path -> Seq(FileCell) \cup {Absent}]
  /\ \A c \in Conn : handler[c] # <<>> => file[PathOf[handler[c].id]] # Absent
DownloadTyped ==
  /\ stream \in [Download -> Streamer]
  /\ \A d \in Download : /\ stream[d].pc # "none" => stream[d].conn \in 1..conns
                         /\ stream[d].pc \in {"read", "progress"} => file[PathOf[d]] # Absent
  /\ dl \in [Download -> {"none", "waiting", "saved", "failed"}]
  /\ DOMAIN chunks = Download /\ DOMAIN saved = Download
  /\ spoiled \subseteq Upload \cup Download
TransferTyped == ConnTyped /\ UploadTyped /\ DownloadTyped

\* What a frame is about.
IsRequest(f, d) == f.type = "downloadReq" /\ f.id = d
IsUpload(f, u) == f.type = "upload" /\ f.id = u
IsChunk(f, d, o) == f.type = "chunk" /\ f.id = d /\ f.off = o
InHand(c, u) == handler[c] # <<>> /\ handler[c].id = u

\* A download is asked for once, and nothing arrives of it before its file is open.
Asked(d) == \E c \in Conn : \E i \in 1..Len(up[c]) : IsRequest(up[c][i], d)
OneRequest(d) ==
  /\ \A b, c \in Conn : \A i \in 1..Len(up[b]), j \in 1..Len(up[c]) :
       IsRequest(up[b][i], d) /\ IsRequest(up[c][j], d) => b = c /\ i = j
  /\ dl[d] = "none" \/ stream[d].pc # "none" => ~Asked(d)
  /\ dl[d] = "none" => stream[d].pc = "none"
Unopened(d) ==
  stream[d].pc \in {"none", "open"} =>
    /\ \A c \in Conn : \A i \in 1..Len(down[c]) : down[c][i].id # d
    /\ DOMAIN chunks[d] = {} /\ stream[d].off = 0
Requested == \A d \in Download : OneRequest(d) /\ Unopened(d)

\* Each queue of r is what is left of the one of q.
Shrunk(q, r) ==
  \A c \in Conn : \E k \in Nat :
    Len(q[c]) = Len(r[c]) + k /\ \A i \in 1..Len(r[c]) : r[c][i] = q[c][i + k]

\* The chunks that the goroutine has sent.
Produced(d) == IF stream[d].pc = "progress" THEN stream[d].off + 1 ELSE stream[d].off

\* The chunk at offset o has been received, or is one of the first n frames of q.
Came(d, o, q, n, got) == o \in DOMAIN got \/ \E j \in 1..n : IsChunk(q[j], d, o)

\* What is received and what is on its way are the first p chunks of t; the
\* progress reports are behind what they report.
Flow(d, q, got, t, p) ==
  /\ p \in Nat /\ p <= Len(t)
  /\ \A o \in DOMAIN got : o \in 0..p-1 /\ got[o] = t[o + 1]
  /\ \A i \in 1..Len(q) :
       /\ q[i].type = "chunk" /\ q[i].id = d => q[i].off \in 0..p-1 /\ q[i].cell = t[q[i].off + 1]
       /\ q[i].type = "progress" /\ q[i].id = d =>
            /\ q[i].total = Len(t) /\ q[i].sent <= p
            /\ \A o \in 0..q[i].sent - 1 : Came(d, o, q, i - 1, got)
  /\ \A o \in 0..p-1 : Came(d, o, q, Len(q), got)

\* A download that nothing interferes with: one connection, one content, and all
\* of it that was sent is on its way or received.
Streams(d) ==
  /\ sock # 0
  /\ stream[d].pc # "none" => stream[d].conn = sock
  /\ \A c \in Conn : \A i \in 1..Len(up[c]) : IsRequest(up[c][i], d) => c = sock
  /\ stream[d].pc \in {"read", "progress"} => file[PathOf[d]] = stream[d].total
  /\ Flow(d, down[sock], chunks[d], stream[d].total, Produced(d))
Streaming(d) == dl[d] = "waiting" /\ d \notin spoiled => Streams(d)
\* A download is saved once, with all of its content.
Saved(d) ==
  /\ dl[d] # "saved" => saved[d] = Absent
  /\ dl[d] = "saved" => stream[d].pc \notin {"none", "open"}
  /\ dl[d] = "saved" /\ d \notin spoiled => saved[d] = stream[d].total

\* Nothing of upload u is on its way to the server on connection c.
Calm(c, u) == ~InHand(c, u) /\ \A i \in 1..Len(up[c]) : ~IsUpload(up[c][i], u)
Quiet(u) == \A c \in Conn : Calm(c, u)
Alone(u) == \A v \in Upload \ {u} : PathOf[v] = PathOf[u] => toast[v] = "none"
\* Nothing of an upload is anywhere before its first chunk.
Unsent(u) ==
  /\ toast[u] = "none" => sent[u] = 0
  /\ sent[u] = 0 => Quiet(u) /\ \A c \in Conn : \A i \in 1..Len(down[c]) : down[c][i].id # u

\* The file after w chunks.
First(u, w) == [i \in 1..(IF w < Size[u] THEN w ELSE Size[u]) |-> <<u, i>>]

\* The chunks of u in queue q are those from n up to k, in order.
Pending(u, q, n, k) ==
  /\ \A i \in 1..Len(q) : IsUpload(q[i], u) => q[i].off \in n..k-1
  /\ \A i, j \in 1..Len(q) : i < j /\ IsUpload(q[i], u) /\ IsUpload(q[j], u) => q[i].off < q[j].off
  /\ \A o \in n..k-1 : \E i \in 1..Len(q) : IsUpload(q[i], u) /\ q[i].off = o

\* w chunks have been written; one more may be in hand.
Opened(u, w) == IF InHand(sock, u) THEN w + 1 ELSE w
Written(u, w) ==
  /\ InHand(sock, u) => handler[sock].off = w
  /\ Opened(u, w) <= sent[u]
  /\ Opened(u, w) > 0 => file[PathOf[u]] = First(u, w)
  /\ Pending(u, up[sock], Opened(u, w), sent[u])
  /\ \A c \in Conn : \A i \in 1..Len(down[c]) : down[c][i].id = u => down[c][i].sent <= w
\* An upload that nothing interferes with: one connection, and a file that has the
\* chunks that were written and nothing else.
Uploads(u) ==
  /\ sock # 0
  /\ \A c \in Conn \ {sock} : Calm(c, u)
  /\ \E w \in Nat : Written(u, w)
Uploading(u) == toast[u] = "uploading" /\ sent[u] > 0 /\ u \notin spoiled /\ Alone(u) => Uploads(u)
Uploaded(u) ==
  toast[u] = "done" /\ u \notin spoiled /\ Alone(u) =>
    Quiet(u) /\ sent[u] = Chunks(u) /\ file[PathOf[u]] = Content(u)
\* The loop of the page runs at least once.
LEMMA ChunksPositive == ASSUME NEW u \in Upload PROVE Chunks(u) \in Nat \ {0} /\ Size[u] \in Nat
BY TransferAssumption DEF Chunks

\* A handler that holds a frame is not idle.
LEMMA FrameThere == ASSUME NEW f \in UploadFrame PROVE f # <<>>
BY DEF UploadFrame

\* What is opened is a file.
LEMMA OpenFileTyped ==
  ASSUME NEW s \in Seq(FileCell) \cup {Absent}, NEW off \in Nat
  PROVE OpenFile(s, off) \in Seq(FileCell) /\ OpenFile(s, off) # Absent
<1>1. <<>> \in Seq(FileCell) OBVIOUS
<1>2. Absent \notin Seq(FileCell) BY TransferAssumption
<1>3. OpenFile(s, off) \in {<<>>, s} /\ (s = Absent => OpenFile(s, off) = <<>>) BY DEF OpenFile
<1> QED BY <1>1, <1>2, <1>3

\* What has been written to is a file.
LEMMA WriteAtTyped ==
  ASSUME NEW s \in Seq(FileCell), NEW off \in Nat, NEW data \in Seq(FileCell)
  PROVE WriteAt(s, off, data) \in Seq(FileCell) /\ WriteAt(s, off, data) # Absent
<1> DEFINE n == IF off + Len(data) > Len(s) THEN off + Len(data) ELSE Len(s)
           g(i) == IF i > off /\ i <= off + Len(data) THEN data[i - off]
                   ELSE IF i <= Len(s) THEN s[i] ELSE Hole
<1>1. n \in Nat OBVIOUS
<1>2. \A i \in 1..n : g(i) \in FileCell BY DEF FileCell
<1>3. WriteAt(s, off, data) = [i \in 1..n |-> g(i)] BY DEF WriteAt
<1> HIDE DEF n, g
<1>4. [i \in 1..n |-> g(i)] \in Seq(FileCell) BY <1>1, <1>2
<1> QED BY <1>3, <1>4, TransferAssumption

\* A chunk carries one cell, and the one of an empty file none.
LEMMA DataTyped ==
  ASSUME NEW f \in UploadFrame
  PROVE Data(f) \in Seq(FileCell) /\ Len(Data(f)) \in 0 .. 1 /\ (Len(Data(f)) = 1 <=> f.off < Size[f.id])
<1>1. f.id \in Upload /\ f.off + 1 \in Nat /\ Size[f.id] \in Nat
  BY TransferAssumption DEF UploadFrame
<1>2. <<f.id, f.off + 1>> \in FileCell BY <1>1 DEF FileCell
<1> HIDE DEF FileCell
<1> QED BY <1>1, <1>2 DEF Data

\* The types hold at the start.
LEMMA TypedInit == TransferInit => TransferTyped
<1> SUFFICES ASSUME TransferInit PROVE TransferTyped OBVIOUS
<1>1. 1 \in Conn BY TransferAssumption DEF Conn
<1>2. ConnTyped
  BY <1>1, TransferAssumption DEF TransferInit, ConnTyped, Conn
<1>3. Stored \subseteq Seq(FileCell) \cup {Absent} BY TransferAssumption DEF FileCell
<1>4. UploadTyped
  BY <1>3, ChunksPositive DEF TransferInit, UploadTyped
<1>5. [pc |-> "none", conn |-> 0, off |-> 0, total |-> <<>>] \in Streamer BY DEF Streamer
<1>6. DownloadTyped BY <1>5 DEF TransferInit, DownloadTyped
<1> QED BY <1>2, <1>4, <1>6 DEF TransferTyped

\* Append to one of the queues.
LEMMA Put ==
  ASSUME NEW F, NEW q \in [Conn -> Seq(F)], NEW c, NEW f \in F
  PROVE /\ [q EXCEPT ![c] = Append(@, f)] \in [Conn -> Seq(F)]
        /\ \A b \in Conn : Len([q EXCEPT ![c] = Append(@, f)][b]) = IF b = c THEN Len(q[b]) + 1 ELSE Len(q[b])
<1> DEFINE r == [q EXCEPT ![c] = Append(@, f)]
<1>1. \A b \in Conn : r[b] = IF b = c THEN Append(q[b], f) ELSE q[b] OBVIOUS
<1>2. \A b \in Conn : /\ Append(q[b], f) \in Seq(F) /\ Len(Append(q[b], f)) = Len(q[b]) + 1
  OBVIOUS
<1>3. r = [b \in Conn |-> r[b]] OBVIOUS
<1> HIDE DEF r
<1>4. r \in [Conn -> Seq(F)] BY <1>1, <1>2, <1>3
<1>5. \A b \in Conn : Len(r[b]) = IF b = c THEN Len(q[b]) + 1 ELSE Len(q[b]) BY <1>1, <1>2
<1> QED BY <1>4, <1>5 DEF r

\* What ClientSend leaves is typed.
LEMMA SentTyped ==
  ASSUME TransferTyped, NEW f \in UpFrame, ClientSend(f)
  PROVE up' \in [Conn -> Seq(UpFrame)] /\ spoiled' \subseteq Upload \cup Download
<1>1. up \in [Conn -> Seq(UpFrame)] /\ spoiled \subseteq Upload \cup Download
  BY DEF TransferTyped, ConnTyped, DownloadTyped
<1>2. f.id \in Upload \cup Download BY DEF UpFrame, UploadFrame, RequestFrame
<1>3. up' = up \/ up' = [up EXCEPT ![sock] = Append(@, f)] BY DEF ClientSend
<1>4. spoiled' \subseteq Upload \cup Download BY <1>1, <1>2 DEF ClientSend
<1>5. [up EXCEPT ![sock] = Append(@, f)] \in [Conn -> Seq(UpFrame)] BY <1>1, Put
<1> QED BY <1>1, <1>3, <1>4, <1>5

\* What Send leaves is typed.
LEMMA SendTyped ==
  ASSUME TransferTyped, NEW c, NEW f \in DownFrame, NEW lost,
         Send(c, f, lost)
  PROVE /\ down' \in [Conn -> Seq(DownFrame)]
        /\ \A b \in Conn : Len(down'[b]) <= QueueCap
        /\ lost \subseteq Download => spoiled' \subseteq Upload \cup Download
<1>1. down \in [Conn -> Seq(DownFrame)] /\ (\A b \in Conn : Len(down[b]) <= QueueCap)
      /\ spoiled \subseteq Upload \cup Download
  BY DEF TransferTyped, ConnTyped, DownloadTyped
<1>2. f.id \in Upload \cup Download BY DEF DownFrame, ProgressFrame, ChunkFrame, ErrorFrame
<1>3. lost \subseteq Download => spoiled' \subseteq Upload \cup Download BY <1>1, <1>2 DEF Send
<1>4. down' = down \/ (Len(down[c]) < QueueCap /\ down' = [down EXCEPT ![c] = Append(@, f)]) BY DEF Send
<1>5. CASE down' = down BY <1>1, <1>3, <1>5
<1>6. CASE Len(down[c]) < QueueCap /\ down' = [down EXCEPT ![c] = Append(@, f)]
  <2>1. down' \in [Conn -> Seq(DownFrame)] BY <1>1, <1>6, Put
  <2>2. \A b \in Conn : Len(down'[b]) = IF b = c THEN Len(down[b]) + 1 ELSE Len(down[b])
    BY <1>1, <1>6, Put
  <2>3. \A b \in Conn : Len(down[b]) \in Nat BY <1>1
  <2>4. \A b \in Conn : Len(down'[b]) <= QueueCap
    BY <1>1, <2>2, <2>3, <1>6, TransferAssumption
  <2> QED BY <1>3, <2>1, <2>4
<1> QED BY <1>4, <1>5, <1>6

\* The same where nothing else is lost.
LEMMA SendsTyped ==
  ASSUME TransferTyped, NEW c, NEW f \in DownFrame, Send(c, f, {})
  PROVE /\ down' \in [Conn -> Seq(DownFrame)]
        /\ \A b \in Conn : Len(down'[b]) <= QueueCap
        /\ spoiled' \subseteq Upload \cup Download
<1> DEFINE lost == {}
<1>1. Send(c, f, lost) /\ lost \subseteq Download OBVIOUS
<1> HIDE DEF lost
<1> QED BY <1>1, SendTyped

\* Taking the head of one queue, or clearing it, leaves the rest as it was.
LEMMA Take ==
  ASSUME NEW F, NEW q \in [Conn -> Seq(F)], NEW c \in Conn, q[c] # <<>>
  PROVE /\ Head(q[c]) \in F
        /\ [q EXCEPT ![c] = Tail(@)] \in [Conn -> Seq(F)]
        /\ \A b \in Conn : Len([q EXCEPT ![c] = Tail(@)][b]) <= Len(q[b])
<1> DEFINE r == [q EXCEPT ![c] = Tail(@)]
<1>1. \A b \in Conn : r[b] = IF b = c THEN Tail(q[b]) ELSE q[b] OBVIOUS
<1>2. Head(q[c]) \in F /\ Tail(q[c]) \in Seq(F) /\ Len(Tail(q[c])) <= Len(q[c]) OBVIOUS
<1>3. r = [b \in Conn |-> r[b]] OBVIOUS
<1>4. \A b \in Conn : Len(q[b]) \in Nat OBVIOUS
<1> HIDE DEF r
<1>5. r \in [Conn -> Seq(F)] BY <1>1, <1>2, <1>3
<1>6. \A b \in Conn : Len(r[b]) <= Len(q[b])
  <2>1. r[c] = Tail(q[c]) /\ \A b \in Conn \ {c} : r[b] = q[b] BY <1>1
  <2>2. Len(r[c]) <= Len(q[c]) BY <1>2, <2>1
  <2> QED BY <1>4, <2>1, <2>2
<1> QED BY <1>2, <1>5, <1>6 DEF r

\* The parts of a download goroutine, and what they are changed to.
LEMMA StreamParts ==
  ASSUME NEW s \in Streamer
  PROVE /\ s.pc \in {"none", "open", "read", "progress", "ended"} /\ s.conn \in Nat
        /\ s.off \in Nat /\ s.total \in Seq(FileCell) /\ Len(s.total) \in Nat
        /\ \A t \in Seq(FileCell) : /\ [s EXCEPT !.pc = "read", !.total = t] \in Streamer
                                    /\ [s EXCEPT !.pc = "read", !.total = t].conn = s.conn
        /\ \A o \in Nat : /\ [s EXCEPT !.pc = "read", !.off = o] \in Streamer
                          /\ [s EXCEPT !.pc = "read", !.off = o].conn = s.conn
<1>1. /\ s.pc \in {"none", "open", "read", "progress", "ended"} /\ s.conn \in Nat
      /\ s.off \in Nat /\ s.total \in Seq(FileCell)
  BY DEF Streamer
<1>2. Len(s.total) \in Nat BY <1>1
<1>3. ASSUME NEW t \in Seq(FileCell) PROVE /\ [s EXCEPT !.pc = "read", !.total = t] \in Streamer
                                    /\ [s EXCEPT !.pc = "read", !.total = t].conn = s.conn
  BY DEF Streamer
<1>4. ASSUME NEW o \in Nat PROVE /\ [s EXCEPT !.pc = "read", !.off = o] \in Streamer
                          /\ [s EXCEPT !.pc = "read", !.off = o].conn = s.conn
  BY DEF Streamer
<1> QED BY <1>1, <1>2, <1>3, <1>4

\* A goroutine changes to a state that it may be in.
LEMMA StreamTyped ==
  ASSUME DownloadTyped, NEW d \in Download, NEW s \in Streamer, stream' = [stream EXCEPT ![d] = s],
         s.pc # "none" => s.conn \in 1..conns,
         s.pc \in {"read", "progress"} => file[PathOf[d]] # Absent,
         UNCHANGED <<conns, file, dl, chunks, saved>>, spoiled' \subseteq Upload \cup Download
  PROVE DownloadTyped'
<1>1. stream' \in [Download -> Streamer] BY DEF DownloadTyped
<1>2. stream'[d] = s /\ \A e \in Download \ {d} : stream'[e] = stream[e] BY DEF DownloadTyped
<1> HIDE DEF Streamer
<1> QED BY <1>1, <1>2 DEF DownloadTyped

\* A download goroutine goes to its next step.
LEMMA StreamGoes ==
  ASSUME DownloadTyped, NEW d \in Download, NEW k \in {"progress", "ended"},
         stream[d].pc \in {"open", "read"}, k = "progress" => stream[d].pc = "read",
         stream' = [stream EXCEPT ![d] = [@ EXCEPT !.pc = k]],
         UNCHANGED <<conns, file, dl, chunks, saved>>, spoiled' \subseteq Upload \cup Download
  PROVE DownloadTyped'
<1> DEFINE s == [stream[d] EXCEPT !.pc = k]
<1>1. stream[d] \in Streamer BY DEF DownloadTyped
<1>2. s \in Streamer /\ s.pc = k /\ s.conn = stream[d].conn BY <1>1 DEF Streamer
<1>3. stream' = [stream EXCEPT ![d] = s] OBVIOUS
<1>4. stream[d].conn \in 1..conns /\ (k = "progress" => file[PathOf[d]] # Absent) BY DEF DownloadTyped
<1> HIDE DEF s
<1> QED BY <1>2, <1>3, <1>4, StreamTyped

\* Every step keeps the types.
LEMMA TypedStep == TransferTyped /\ [TransferNext]_transferVars => TransferTyped'
<1> SUFFICES ASSUME TransferTyped, [TransferNext]_transferVars PROVE TransferTyped' OBVIOUS
<1>1. ConnTyped /\ UploadTyped /\ DownloadTyped BY DEF TransferTyped
<1> SUFFICES ConnTyped' /\ UploadTyped' /\ DownloadTyped' BY DEF TransferTyped
<1>2. ASSUME NEW u \in Upload, StartUpload(u) PROVE ConnTyped' /\ UploadTyped' /\ DownloadTyped'
  BY <1>1, <1>2 DEF StartUpload, ConnTyped, UploadTyped, DownloadTyped, connVars
<1>3. ASSUME NEW u \in Upload, SendChunk(u) PROVE ConnTyped' /\ UploadTyped' /\ DownloadTyped'
  <2> DEFINE f == [type |-> "upload", id |-> u, off |-> sent[u]]
  <2>1. f \in UpFrame BY <1>1 DEF UpFrame, UploadFrame, UploadTyped
  <2>2. ClientSend(f) BY <1>3 DEF SendChunk
  <2>3. /\ up' \in [Conn -> Seq(UpFrame)]
        /\ spoiled' \subseteq Upload \cup Download
    BY <1>1, <2>1, <2>2, SentTyped
  <2>4. ConnTyped' /\ DownloadTyped'
    BY <1>1, <1>3, <2>3 DEF SendChunk, ConnTyped, DownloadTyped, connVars
  <2>5. UploadTyped' BY <1>1, <1>3, ChunksPositive DEF SendChunk, UploadTyped, Chunks
  <2> QED BY <2>4, <2>5
<1>4. ASSUME NEW d \in Download, StartDownload(d) PROVE ConnTyped' /\ UploadTyped' /\ DownloadTyped'
  <2> DEFINE f == [type |-> "downloadReq", id |-> d]
  <2>1. f \in UpFrame BY DEF UpFrame, RequestFrame
  <2>2. ClientSend(f) BY <1>4 DEF StartDownload
  <2>3. /\ up' \in [Conn -> Seq(UpFrame)]
        /\ spoiled' \subseteq Upload \cup Download
    BY <1>1, <2>1, <2>2, SentTyped
  <2> QED BY <1>1, <1>4, <2>3 DEF StartDownload, ConnTyped, UploadTyped, DownloadTyped, connVars, Chunks
<1>5. ASSUME NEW d \in Download, StreamOpen(d) PROVE ConnTyped' /\ UploadTyped' /\ DownloadTyped'
  <2>1. PathOf[d] \in Path BY TransferAssumption
  <2>2. CASE file[PathOf[d]] = Absent
    <3> DEFINE f == [type |-> "error", id |-> d]
    <3>1. f \in DownFrame BY DEF DownFrame, ErrorFrame
    <3>2. Send(stream[d].conn, f, {}) BY <1>5, <2>2 DEF StreamOpen
    <3>3. /\ down' \in [Conn -> Seq(DownFrame)]
          /\ \A b \in Conn : Len(down'[b]) <= QueueCap
          /\ spoiled' \subseteq Upload \cup Download
      BY <3>1, <3>2, SendsTyped
    <3>4. stream' = [stream EXCEPT ![d] = [@ EXCEPT !.pc = "ended"]] /\ stream[d].pc = "open"
      BY <1>5, <2>2 DEF StreamOpen
    <3>5. ConnTyped' /\ UploadTyped'
      BY <1>1, <1>5, <3>3 DEF StreamOpen, ConnTyped, UploadTyped, connVars, pageVars, Chunks
    <3>6. UNCHANGED <<conns, file, dl, chunks, saved>>
      BY <1>5 DEF StreamOpen, connVars, pageVars
    <3> QED BY <1>1, <3>3, <3>4, <3>5, <3>6, StreamGoes
  <2>3. CASE file[PathOf[d]] # Absent
    <3>1. file[PathOf[d]] \in Seq(FileCell) BY <1>1, <2>1, <2>3 DEF UploadTyped
    <3>2. /\ stream' = [stream EXCEPT ![d].pc = "read", ![d].total = file[PathOf[d]]]
          /\ UNCHANGED <<down, spoiled>>
      BY <1>5, <2>3 DEF StreamOpen
    <3>3. ConnTyped' /\ UploadTyped'
      BY <1>1, <1>5, <3>2 DEF StreamOpen, ConnTyped, UploadTyped, connVars, pageVars, Chunks
    <3>4. stream' = [stream EXCEPT ![d] = [@ EXCEPT !.pc = "read", !.total = file[PathOf[d]]]]
      BY <1>1, <3>2 DEF DownloadTyped
    <3>5. stream[d] \in Streamer /\ stream[d].conn \in 1..conns
      BY <1>1, <1>5 DEF DownloadTyped, StreamOpen
    <3> DEFINE s == [stream[d] EXCEPT !.pc = "read", !.total = file[PathOf[d]]]
    <3>6. s \in Streamer /\ s.conn = stream[d].conn BY <3>1, <3>5, StreamParts
    <3>7. stream' = [stream EXCEPT ![d] = s] BY <3>4
    <3>8. spoiled' \subseteq Upload \cup Download BY <1>1, <3>2 DEF DownloadTyped
    <3> HIDE DEF s
    <3>9. UNCHANGED <<conns, file, dl, chunks, saved>>
      BY <1>5 DEF StreamOpen, connVars, pageVars
    <3> QED BY <1>1, <2>3, <3>3, <3>5, <3>9, <3>6, <3>7, <3>8, StreamTyped
  <2> QED BY <2>2, <2>3
<1>6. ASSUME NEW d \in Download, StreamRead(d) PROVE ConnTyped' /\ UploadTyped' /\ DownloadTyped'
  <2> DEFINE content == file[PathOf[d]]
             f == [type |-> "chunk", id |-> d, off |-> stream[d].off,
                   cell |-> content[stream[d].off + 1]]
             ends == hub[stream[d].conn] = "closed" \/ stream[d].off >= Len(content)
  <2>1. stream[d] \in Streamer BY <1>1 DEF DownloadTyped
  <2>2. PathOf[d] \in Path /\ stream[d].pc = "read" /\ stream[d].off \in Nat
    BY <1>6, <2>1, StreamParts, TransferAssumption DEF StreamRead
  <2>3. content \in Seq(FileCell) BY <1>1, <2>2 DEF UploadTyped, DownloadTyped
  <2>4. CASE ends
    <3>1. stream' = [stream EXCEPT ![d].pc = "ended"] /\ UNCHANGED <<down, spoiled>>
      BY <1>6, <2>4 DEF StreamRead
    <3>2. ConnTyped' /\ UploadTyped'
      BY <1>1, <1>6, <3>1 DEF StreamRead, ConnTyped, UploadTyped, connVars, pageVars, Chunks
    <3>3. stream' = [stream EXCEPT ![d] = [@ EXCEPT !.pc = "ended"]] BY <3>1
    <3>4. stream[d].pc = "read" /\ spoiled' \subseteq Upload \cup Download
      BY <1>1, <2>2, <3>1 DEF DownloadTyped
    <3>5. UNCHANGED <<conns, file, dl, chunks, saved>> BY <1>6 DEF StreamRead, connVars, pageVars
    <3> QED BY <1>1, <3>2, <3>3, <3>5, <3>4, StreamGoes
  <2>5. CASE ~ends
    <3>1. f \in DownFrame BY <2>2, <2>3, <2>5 DEF DownFrame, ChunkFrame
    <3>2. Send(stream[d].conn, f, {}) /\ stream' = [stream EXCEPT ![d].pc = "progress"]
      BY <1>6, <2>5 DEF StreamRead
    <3> HIDE DEF f, ends, content
    <3>3. /\ down' \in [Conn -> Seq(DownFrame)]
          /\ \A b \in Conn : Len(down'[b]) <= QueueCap
          /\ spoiled' \subseteq Upload \cup Download
      BY <1>1, <3>1, <3>2, SendsTyped
    <3>4. ConnTyped' /\ UploadTyped'
      BY <1>1, <1>6, <3>3 DEF StreamRead, ConnTyped, UploadTyped, connVars, pageVars, Chunks
    <3>5. stream' = [stream EXCEPT ![d] = [@ EXCEPT !.pc = "progress"]] BY <3>2
    <3>6. UNCHANGED <<conns, file, dl, chunks, saved>> BY <1>6 DEF StreamRead, connVars, pageVars
    <3> QED BY <1>1, <2>2, <3>3, <3>4, <3>5, <3>6, StreamGoes
  <2> QED BY <2>4, <2>5
<1>7. ASSUME NEW d \in Download, StreamProgress(d) PROVE ConnTyped' /\ UploadTyped' /\ DownloadTyped'
  <2> DEFINE f == [type |-> "progress", id |-> d, sent |-> stream[d].off + 1,
                   total |-> Len(stream[d].total)]
             s == [stream[d] EXCEPT !.pc = "read", !.off = stream[d].off + 1]
  <2>1. stream[d] \in Streamer BY <1>1 DEF DownloadTyped
  <2>2. stream[d].off \in Nat /\ Len(stream[d].total) \in Nat BY <2>1, StreamParts
  <2>3. stream[d].off + 1 \in Nat /\ Len(stream[d].total) \in Nat BY <2>2
  <2>4. f \in DownFrame BY <2>3 DEF DownFrame, ProgressFrame
  <2>5. Send(stream[d].conn, f, {}) BY <1>7 DEF StreamProgress
  <2>6. stream' = [stream EXCEPT ![d] = s] BY <1>7 DEF StreamProgress
  <2>7. s \in Streamer /\ s.conn = stream[d].conn BY <2>1, <2>3, StreamParts
  <2>8. UNCHANGED <<conns, file, dl, chunks, saved>> /\ stream[d].pc = "progress"
    BY <1>7 DEF StreamProgress, connVars, pageVars
  <2>9. stream[d].conn \in 1..conns /\ file[PathOf[d]] # Absent BY <1>1, <2>8 DEF DownloadTyped
  <2> HIDE DEF f, s
  <2>10. /\ down' \in [Conn -> Seq(DownFrame)]
         /\ \A b \in Conn : Len(down'[b]) <= QueueCap
         /\ spoiled' \subseteq Upload \cup Download
    BY <2>4, <2>5, SendsTyped
  <2>11. ConnTyped' /\ UploadTyped'
    BY <1>1, <1>7, <2>10 DEF StreamProgress, ConnTyped, UploadTyped, connVars, pageVars, Chunks
  <2> QED BY <1>1, <2>6, <2>7, <2>8, <2>9, <2>10, <2>11, StreamTyped
<1>8. ASSUME NEW d \in Download, StreamFails(d) PROVE ConnTyped' /\ UploadTyped' /\ DownloadTyped'
  <2>1. ConnTyped' /\ UploadTyped'
    BY <1>1, <1>8 DEF StreamFails, ConnTyped, UploadTyped, connVars, pageVars, Chunks
  <2>2. /\ UNCHANGED <<conns, file, dl, chunks, saved>> /\ spoiled' = spoiled \cup {d}
        /\ stream' = [stream EXCEPT ![d] = [@ EXCEPT !.pc = "ended"]]
        /\ stream[d].pc \in {"open", "read"}
    BY <1>8 DEF StreamFails, connVars, pageVars
  <2>3. spoiled' \subseteq Upload \cup Download BY <1>1, <2>2 DEF DownloadTyped
  <2> QED BY <1>1, <2>1, <2>2, <2>3, StreamGoes
<1>9. ASSUME NEW c \in Conn, NEW k, Reads(c, k) PROVE
        /\ Head(up[c]) \in UpFrame
        /\ up' \in [Conn -> Seq(UpFrame)]
  BY <1>1, <1>9, Take DEF Reads, ConnTyped
<1>10. ASSUME NEW c \in Conn, handler[c] # <<>> PROVE
          /\ handler[c] \in UploadFrame /\ handler[c].id \in Upload /\ handler[c].off \in Nat
          /\ PathOf[handler[c].id] \in Path
          /\ file[PathOf[handler[c].id]] \in Seq(FileCell)
          /\ Data(handler[c]) \in Seq(FileCell)
          /\ \A p : Touched(p) \subseteq Download
  <2>1. handler[c] \in UploadFrame BY <1>1, <1>10 DEF ConnTyped
  <2>2. handler[c].id \in Upload /\ handler[c].off \in Nat BY <2>1 DEF UploadFrame
  <2>3. PathOf[handler[c].id] \in Path BY <1>1, <2>2, TransferAssumption
  <2>4. file[PathOf[handler[c].id]] # Absent BY <1>1, <1>10 DEF UploadTyped
  <2>5. file[PathOf[handler[c].id]] \in Seq(FileCell) BY <1>1, <2>3, <2>4 DEF UploadTyped
  <2> QED BY <2>1, <2>2, <2>3, <2>5, DataTyped DEF Touched
<1>11. ASSUME NEW c \in Conn, UploadOpen(c) PROVE ConnTyped' /\ UploadTyped' /\ DownloadTyped'
  <2> DEFINE f == Head(up[c]) p == PathOf[f.id]
  <2>1. Reads(c, "upload") BY <1>11 DEF UploadOpen
  <2>2. f \in UploadFrame /\ f.id \in Upload /\ f.off \in Nat
    BY <1>9, <2>1 DEF Reads, UpFrame, UploadFrame, RequestFrame
  <2>3. p \in Path BY <1>1, <2>2, TransferAssumption
  <2>4. OpenFile(file[p], f.off) \in Seq(FileCell) /\ OpenFile(file[p], f.off) # Absent
    BY <1>1, <2>2, <2>3, OpenFileTyped DEF UploadTyped
  <2>5. /\ handler' = [handler EXCEPT ![c] = f]
        /\ file' = [file EXCEPT ![p] = OpenFile(@, f.off)]
        /\ spoiled' = spoiled \cup Touched(p)
    BY <1>11 DEF UploadOpen
  <2> HIDE DEF f, p
  <2>6. ConnTyped'
    BY <1>1, <1>9, <1>11, <2>1, <2>2, <2>5 DEF UploadOpen, ConnTyped, connVars
  <2>7. UploadTyped'
    BY <1>1, <1>10, <1>11, <2>2, <2>3, <2>4, <2>5 DEF UploadOpen, ConnTyped, UploadTyped, pageVars, Chunks, p
  <2>8. DownloadTyped'
    BY <1>1, <1>11, <2>3, <2>4, <2>5 DEF UploadOpen, DownloadTyped, UploadTyped, pageVars, connVars, Touched
  <2> QED BY <2>6, <2>7, <2>8
<1>12. ASSUME NEW c \in Conn, UploadOpenFails(c) PROVE ConnTyped' /\ UploadTyped' /\ DownloadTyped'
  <2>1. Reads(c, "upload") BY <1>12 DEF UploadOpenFails
  <2>2. Head(up[c]).id \in Upload \cup Download BY <1>9, <2>1 DEF UpFrame, UploadFrame, RequestFrame
  <2>3. ConnTyped' /\ UploadTyped'
    BY <1>1, <1>9, <1>12, <2>1 DEF UploadOpenFails, ConnTyped, UploadTyped, pageVars, connVars, Chunks
  <2> QED BY <1>1, <1>12, <2>2, <2>3 DEF UploadOpenFails, DownloadTyped, pageVars, connVars
<1>13. ASSUME NEW c \in Conn, UploadWrite(c) PROVE ConnTyped' /\ UploadTyped' /\ DownloadTyped'
  <2> DEFINE h == handler[c] p == PathOf[h.id]
             f == [type |-> "progress", id |-> h.id, sent |-> h.off + Len(Data(h)),
                   total |-> Size[h.id]]
  <2>1. handler[c] # <<>> BY <1>13 DEF UploadWrite
  <2>2. /\ h \in UploadFrame /\ h.id \in Upload /\ h.off \in Nat /\ p \in Path
        /\ file[p] \in Seq(FileCell) /\ Data(h) \in Seq(FileCell)
        /\ Touched(p) \subseteq Download
    BY <1>10, <2>1
  <2>3. f \in DownFrame BY <2>2, TransferAssumption DEF DownFrame, ProgressFrame
  <2>4. /\ Send(c, f, Touched(p)) /\ handler' = [handler EXCEPT ![c] = <<>>]
        /\ file' = [file EXCEPT ![p] = WriteAt(@, h.off, Data(h))]
    BY <1>13 DEF UploadWrite
  <2>5. /\ down' \in [Conn -> Seq(DownFrame)]
        /\ \A b \in Conn : Len(down'[b]) <= QueueCap
        /\ spoiled' \subseteq Upload \cup Download
    <3> HIDE DEF f, h, p
    <3> QED BY <2>2, <2>3, <2>4, SendTyped
  <2>6. WriteAt(file[p], h.off, Data(h)) \in Seq(FileCell) /\ WriteAt(file[p], h.off, Data(h)) # Absent
    BY <2>2, WriteAtTyped
  <2> HIDE DEF h, p, f
  <2>7. ConnTyped' BY <1>1, <1>13, <2>4, <2>5 DEF UploadWrite, ConnTyped, connVars
  <2>8. UploadTyped'
    <3>1. file' \in [Path -> Seq(FileCell) \cup {Absent}] BY <1>1, <2>2, <2>4, <2>6 DEF UploadTyped
    <3>2. ASSUME NEW b \in Conn, handler'[b] # <<>> PROVE file'[PathOf[handler'[b].id]] # Absent
      <4>1. handler[b] # <<>> /\ handler'[b] = handler[b] BY <1>1, <2>4, <3>2 DEF ConnTyped
      <4> QED BY <1>1, <1>10, <2>2, <2>4, <2>6, <4>1 DEF UploadTyped
    <3> QED BY <1>1, <1>13, <3>1, <3>2 DEF UploadWrite, UploadTyped, pageVars, Chunks
  <2>9. DownloadTyped'
    BY <1>1, <1>13, <2>2, <2>4, <2>5, <2>6 DEF UploadWrite, DownloadTyped, UploadTyped, pageVars, connVars
  <2> QED BY <2>7, <2>8, <2>9
<1>14. ASSUME NEW c \in Conn, UploadWriteFails(c) PROVE ConnTyped' /\ UploadTyped' /\ DownloadTyped'
  <2> DEFINE h == handler[c] p == PathOf[h.id]
  <2>1. handler[c] # <<>> BY <1>14 DEF UploadWriteFails
  <2>2. /\ h \in UploadFrame /\ h.id \in Upload /\ h.off \in Nat /\ p \in Path
        /\ file[p] \in Seq(FileCell) /\ Touched(p) \subseteq Download /\ file[p] # Absent
    BY <1>1, <1>10, <2>1 DEF UploadTyped
  <2>3. PICK data \in {<<>>, <<Torn>>} :
          file' = [file EXCEPT ![p] = IF data = <<>> THEN @ ELSE WriteAt(@, h.off, data)]
    BY <1>14 DEF UploadWriteFails
  <2>4. spoiled' = spoiled \cup Touched(p) \cup {h.id} /\ handler' = [handler EXCEPT ![c] = <<>>]
    BY <1>14 DEF UploadWriteFails
  <2> DEFINE new == IF data = <<>> THEN file[p] ELSE WriteAt(file[p], h.off, data)
  <2>5. new \in Seq(FileCell) /\ new # Absent
    <3>1. Torn \in FileCell BY DEF FileCell
    <3>2. <<>> \in Seq(FileCell) /\ <<Torn>> \in Seq(FileCell) BY <3>1
    <3>3. data \in Seq(FileCell) BY <3>2
    <3> QED BY <2>2, <3>3, WriteAtTyped
  <2>6. file' = [file EXCEPT ![p] = new] BY <2>3
  <2> HIDE DEF h, p, new
  <2>7. ConnTyped' BY <1>1, <1>14, <2>4 DEF UploadWriteFails, ConnTyped, connVars
  <2>8. UploadTyped'
    BY <1>1, <1>10, <1>14, <2>2, <2>4, <2>5, <2>6 DEF UploadWriteFails, ConnTyped, UploadTyped, pageVars, Chunks
  <2>9. DownloadTyped'
    BY <1>1, <1>14, <2>2, <2>4, <2>5, <2>6 DEF UploadWriteFails, DownloadTyped, UploadTyped, pageVars, connVars
  <2> QED BY <2>7, <2>8, <2>9
<1>15. ASSUME NEW c \in Conn, DownloadReq(c) PROVE ConnTyped' /\ UploadTyped' /\ DownloadTyped'
  <2>1. Reads(c, "downloadReq") BY <1>15 DEF DownloadReq
  <2>2. Head(up[c]).id \in Download BY <1>9, <2>1 DEF Reads, UpFrame, UploadFrame, RequestFrame
  <2>3. c \in 1..conns /\ c \in Nat
    BY <1>1, <2>1 DEF Reads, ConnTyped, Conn
  <2>4. stream' = [stream EXCEPT ![Head(up[c]).id].pc = "open", ![Head(up[c]).id].conn = c]
    BY <1>15 DEF DownloadReq
  <2>5. ConnTyped' /\ UploadTyped'
    BY <1>1, <1>9, <1>15, <2>1 DEF DownloadReq, ConnTyped, UploadTyped, pageVars, connVars, Chunks
  <2> DEFINE d == Head(up[c]).id s == [stream[d] EXCEPT !.pc = "open", !.conn = c]
  <2>6. stream' = [stream EXCEPT ![d] = s] BY <1>1, <2>2, <2>4 DEF DownloadTyped
  <2>7. stream[d] \in Streamer BY <1>1, <2>2 DEF DownloadTyped
  <2>8. c \in Nat BY <2>3
  <2>9. s \in Streamer /\ s.pc = "open" /\ s.conn = c
    <3> HIDE DEF d
    <3> QED BY <2>7, <2>8 DEF Streamer
  <2>10. UNCHANGED <<conns, file, dl, chunks, saved, spoiled>>
    BY <1>15 DEF DownloadReq, connVars, pageVars
  <2>11. spoiled' \subseteq Upload \cup Download BY <1>1, <2>10 DEF DownloadTyped
  <2> HIDE DEF d, s
  <2>12. d \in Download BY <2>2 DEF d
  <2> QED BY <1>1, <2>3, <2>5, <2>6, <2>9, <2>10, <2>11, <2>12, StreamTyped
<1>16. ASSUME NEW c \in Conn, Writer(c) PROVE ConnTyped' /\ UploadTyped' /\ DownloadTyped'
  <2> DEFINE f == Head(down[c])
  <2>1. /\ down[c] # <<>> /\ down' = [down EXCEPT ![c] = Tail(@)]
        /\ UNCHANGED <<connVars, up, handler, file, sent, stream>>
    BY <1>16 DEF Writer
  <2>2. /\ f \in DownFrame
        /\ down' \in [Conn -> Seq(DownFrame)]
        /\ \A b \in Conn : Len(down'[b]) <= Len(down[b])
    BY <1>1, <2>1, Take DEF ConnTyped
  <2>3. \A b \in Conn : Len(down'[b]) <= QueueCap
    BY <1>1, <2>2, TransferAssumption DEF ConnTyped
  <2>4. f.id \in Upload \cup Download BY <2>2 DEF DownFrame, ProgressFrame, ChunkFrame, ErrorFrame
  <2>5. ConnTyped' BY <1>1, <2>1, <2>2, <2>3 DEF ConnTyped, connVars
  <2> HIDE DEF f
  <2>6. /\ toast' \in [Upload -> {"none", "uploading", "done"}]
        /\ dl' \in [Download -> {"none", "waiting", "saved", "failed"}]
        /\ DOMAIN chunks' = Download /\ DOMAIN saved' = Download
        /\ spoiled' \subseteq Upload \cup Download
    <3>1. toast \in [Upload -> {"none", "uploading", "done"}] BY <1>1 DEF UploadTyped
    <3>2. /\ dl \in [Download -> {"none", "waiting", "saved", "failed"}]
          /\ DOMAIN chunks = Download /\ DOMAIN saved = Download
          /\ spoiled \subseteq Upload \cup Download
      BY <1>1 DEF DownloadTyped
    <3>3. CASE sock # c BY <1>16, <2>4, <3>1, <3>2, <3>3 DEF Writer, f
    <3>4. CASE sock = c
      <4>1. /\ \/ OnChunk(f) \/ OnDownloadProgress(f) \/ OnUploadProgress(f) \/ OnError(f)
            /\ UNCHANGED spoiled
        BY <1>16, <3>4 DEF Writer, f
      <4>2. CASE OnChunk(f) BY <3>1, <3>2, <4>1, <4>2 DEF OnChunk
      <4>3. CASE OnDownloadProgress(f) BY <3>1, <3>2, <4>1, <4>3 DEF OnDownloadProgress
      <4>4. CASE OnUploadProgress(f) BY <3>1, <3>2, <4>1, <4>4 DEF OnUploadProgress
      <4>5. CASE OnError(f) BY <3>1, <3>2, <4>1, <4>5 DEF OnError
      <4> QED BY <1>1, <4>1, <4>2, <4>3, <4>4, <4>5
    <3> QED BY <3>3, <3>4
  <2>7. UploadTyped' BY <1>1, <2>1, <2>6 DEF UploadTyped, Chunks
  <2>8. DownloadTyped' BY <1>1, <2>1, <2>6 DEF DownloadTyped, connVars
  <2> QED BY <2>5, <2>7, <2>8
<1>17. ASSUME NEW c \in Conn, TransferHubClose(c) PROVE ConnTyped' /\ UploadTyped' /\ DownloadTyped'
  <2>1. ConnTyped'
    BY <1>1, <1>17, TransferAssumption DEF TransferHubClose, ConnTyped
  <2>2. UNCHANGED pageVars BY <1>17 DEF TransferHubClose
  <2> QED BY <1>1, <1>17, <2>1, <2>2 DEF TransferHubClose, UploadTyped, DownloadTyped, pageVars, UnderWay, Chunks
<1>18. CASE SockClose
  BY <1>1, <1>18 DEF SockClose, ConnTyped, UploadTyped, DownloadTyped, pageVars, UnderWay, Chunks, Conn
<1>19. CASE Reconnect
  <2>1. conns + 1 \in Conn /\ conns \in Nat /\ conns' = conns + 1
    BY <1>1, <1>19, TransferAssumption DEF Reconnect, ConnTyped, Conn
  <2>2. ConnTyped' BY <1>1, <1>19, <2>1 DEF Reconnect, ConnTyped, Conn
  <2>3. UploadTyped' BY <1>1, <1>19 DEF Reconnect, UploadTyped, pageVars, Chunks
  <2> QED BY <1>1, <1>19, <2>1, <2>2, <2>3 DEF Reconnect, DownloadTyped, pageVars
<1>20. CASE UNCHANGED transferVars
  BY <1>1, <1>20 DEF transferVars, ConnTyped, UploadTyped, DownloadTyped, connVars, pageVars, Chunks
<1> QED
  BY <1>2, <1>3, <1>4, <1>5, <1>6, <1>7, <1>8, <1>11, <1>12, <1>13, <1>14, <1>15, <1>16, <1>17, <1>18, <1>19, <1>20
     DEF TransferNext, Reader, Stream

\* A reader takes the head of a queue.
LEMMA TakenShrunk ==
  ASSUME NEW F, NEW q \in [Conn -> Seq(F)], NEW c \in Conn, q[c] # <<>>,
         NEW r, r = [q EXCEPT ![c] = Tail(@)]
  PROVE /\ Shrunk(q, r)
        /\ Len(q[c]) = Len(r[c]) + 1 /\ Len(r[c]) \in Nat
        /\ q[c][1] = Head(q[c]) /\ \A i \in 1..Len(r[c]) : r[c][i] = q[c][i + 1]
        /\ \A b \in Conn \ {c} : r[b] = q[b]
<1>1. r[c] = Tail(q[c]) /\ \A b \in Conn \ {c} : r[b] = q[b] OBVIOUS
<1>2. q[c] \in Seq(F) /\ q[c] # <<>> OBVIOUS
<1>3. /\ Len(q[c]) = Len(r[c]) + 1 /\ Len(r[c]) \in Nat
      /\ q[c][1] = Head(q[c]) /\ \A i \in 1..Len(r[c]) : r[c][i] = q[c][i + 1]
  BY <1>1, <1>2
<1>4. ASSUME NEW b \in Conn \ {c}
      PROVE Len(q[b]) = Len(r[b]) + 0 /\ \A i \in 1..Len(r[b]) : r[b][i] = q[b][i + 0]
  BY <1>1
<1>5. Shrunk(q, r)
  <2> SUFFICES ASSUME NEW b \in Conn
      PROVE \E k \in Nat : Len(q[b]) = Len(r[b]) + k /\ \A i \in 1..Len(r[b]) : r[b][i] = q[b][i + k]
    BY DEF Shrunk
  <2>1. CASE b = c BY <1>3, <2>1
  <2>2. CASE b # c BY <1>4, <2>2
  <2> QED BY <2>1, <2>2
<1> QED BY <1>1, <1>3, <1>5

\* A queue that is left alone.
LEMMA SameShrunk ==
  ASSUME NEW F, NEW q \in [Conn -> Seq(F)] PROVE Shrunk(q, q)
<1> SUFFICES ASSUME NEW c \in Conn
    PROVE \E k \in Nat : Len(q[c]) = Len(q[c]) + k /\ \A i \in 1..Len(q[c]) : q[c][i] = q[c][i + k]
  BY DEF Shrunk
<1>1. Len(q[c]) = Len(q[c]) + 0 /\ \A i \in 1..Len(q[c]) : q[c][i] = q[c][i + 0] OBVIOUS
<1> QED BY <1>1

\* A closed hub drops its queue.
LEMMA ClearedShrunk ==
  ASSUME NEW F, NEW q \in [Conn -> Seq(F)], NEW c \in Conn, NEW r, r = [q EXCEPT ![c] = <<>>]
  PROVE Shrunk(q, r) /\ r[c] = <<>> /\ \A b \in Conn \ {c} : r[b] = q[b]
<1>1. r[c] = <<>> /\ \A b \in Conn \ {c} : r[b] = q[b] OBVIOUS
<1> SUFFICES ASSUME NEW b \in Conn
    PROVE \E k \in Nat : Len(q[b]) = Len(r[b]) + k /\ \A i \in 1..Len(r[b]) : r[b][i] = q[b][i + k]
  BY <1>1 DEF Shrunk
<1>2. CASE b = c
  <2>1. Len(q[b]) \in Nat /\ Len(q[b]) = Len(r[b]) + Len(q[b]) /\ 1..Len(r[b]) = {} BY <1>1, <1>2
  <2> QED BY <2>1
<1>3. CASE b # c
  <2>1. Len(q[b]) = Len(r[b]) + 0 /\ \A i \in 1..Len(r[b]) : r[b][i] = q[b][i + 0] BY <1>1, <1>3
  <2> QED BY <2>1
<1> QED BY <1>2, <1>3

\* Where a frame is put.
LEMMA PutAt ==
  ASSUME NEW F, NEW q \in [Conn -> Seq(F)], NEW c \in Conn, NEW f \in F,
         NEW r, r = [q EXCEPT ![c] = Append(@, f)]
  PROVE /\ Len(r[c]) = Len(q[c]) + 1 /\ Len(q[c]) \in Nat
        /\ r[c][Len(q[c]) + 1] = f /\ \A i \in 1..Len(q[c]) : r[c][i] = q[c][i]
        /\ \A b \in Conn \ {c} : r[b] = q[b]
<1>1. r[c] = Append(q[c], f) /\ \A b \in Conn \ {c} : r[b] = q[b] OBVIOUS
<1>2. q[c] \in Seq(F) OBVIOUS
<1> QED BY <1>1, <1>2

\* Only the page adds frames for the server, ...
LEMMA UpShrinks ==
  ASSUME TransferTyped, [TransferNext]_transferVars,
         \A u \in Upload : ~SendChunk(u), \A d \in Download : ~StartDownload(d)
  PROVE Shrunk(up, up')
<1>1. up \in [Conn -> Seq(UpFrame)] BY DEF TransferTyped, ConnTyped
<1>2. CASE UNCHANGED up BY <1>1, <1>2, SameShrunk
<1>3. ASSUME NEW c \in Conn, NEW k, Reads(c, k) PROVE Shrunk(up, up')
  BY <1>1, <1>3, TakenShrunk DEF Reads
<1>4. ASSUME NEW c \in Conn, TransferHubClose(c) PROVE Shrunk(up, up')
  BY <1>1, <1>4, ClearedShrunk DEF TransferHubClose
<1>5. UNCHANGED up \/ (\E c \in Conn : \E k \in {"upload", "downloadReq"} : Reads(c, k))
        \/ \E c \in Conn : TransferHubClose(c)
  BY DEF TransferNext, transferVars, StartUpload, Stream, StreamOpen, StreamRead, StreamProgress,
         StreamFails, Reader, UploadOpen, UploadOpenFails, UploadWrite, UploadWriteFails, DownloadReq,
         Writer, SockClose, Reconnect
<1> QED BY <1>2, <1>3, <1>4, <1>5

\* ... and only the handlers and the download goroutines those for the page.
LEMMA DownShrinks ==
  ASSUME TransferTyped, [TransferNext]_transferVars,
         \A c \in Conn : ~UploadWrite(c),
         \A d \in Download : ~StreamOpen(d) /\ ~StreamRead(d) /\ ~StreamProgress(d)
  PROVE Shrunk(down, down')
<1>1. down \in [Conn -> Seq(DownFrame)] BY DEF TransferTyped, ConnTyped
<1>2. CASE UNCHANGED down BY <1>1, <1>2, SameShrunk
<1>3. ASSUME NEW c \in Conn, Writer(c) PROVE Shrunk(down, down')
  BY <1>1, <1>3, TakenShrunk DEF Writer
<1>4. ASSUME NEW c \in Conn, TransferHubClose(c) PROVE Shrunk(down, down')
  BY <1>1, <1>4, ClearedShrunk DEF TransferHubClose
<1>5. UNCHANGED down \/ (\E c \in Conn : Writer(c)) \/ \E c \in Conn : TransferHubClose(c)
  BY DEF TransferNext, transferVars, StartUpload, SendChunk, StartDownload, Stream, StreamFails,
         Reader, UploadOpen, UploadOpenFails, UploadWriteFails, DownloadReq,
         SockClose, Reconnect
<1> QED BY <1>2, <1>3, <1>4, <1>5

\* A queue that only shrinks has no new frames.
LEMMA ShrunkFrames ==
  ASSUME NEW F, NEW q \in [Conn -> Seq(F)], NEW r \in [Conn -> Seq(F)], Shrunk(q, r), NEW c \in Conn
  PROVE /\ \A i \in 1..Len(r[c]) : \E j \in 1..Len(q[c]) : r[c][i] = q[c][j]
        /\ Len(q[c]) \in Nat /\ Len(r[c]) \in Nat
<1>1. PICK k \in Nat : Len(q[c]) = Len(r[c]) + k /\ \A i \in 1..Len(r[c]) : r[c][i] = q[c][i + k]
  BY DEF Shrunk
<1>2. Len(q[c]) \in Nat /\ Len(r[c]) \in Nat OBVIOUS
<1>3. ASSUME NEW i \in 1..Len(r[c]) PROVE \E j \in 1..Len(q[c]) : r[c][i] = q[c][j]
  <2>1. i + k \in 1..Len(q[c]) /\ r[c][i] = q[c][i + k] BY <1>1, <1>2
  <2> QED BY <2>1
<1> QED BY <1>2, <1>3

\* Who changes what.
LEMMA Changes ==
  ASSUME [TransferNext]_transferVars
  PROVE /\ UNCHANGED <<dl, chunks, saved>> \/ (\E d \in Download : StartDownload(d)) \/ \E c \in Conn : Writer(c)
        /\ UNCHANGED toast \/ (\E u \in Upload : StartUpload(u)) \/ \E c \in Conn : Writer(c)
        /\ UNCHANGED sent \/ \E u \in Upload : SendChunk(u)
        /\ UNCHANGED stream \/ (\E d \in Download : Stream(d)) \/ \E c \in Conn : DownloadReq(c)
        /\ UNCHANGED file \/ \E c \in Conn : UploadOpen(c) \/ UploadWrite(c) \/ UploadWriteFails(c)
        /\ UNCHANGED handler \/ \E c \in Conn : UploadOpen(c) \/ UploadWrite(c) \/ UploadWriteFails(c)
        /\ UNCHANGED sock \/ SockClose \/ Reconnect
BY DEF TransferNext, transferVars, StartUpload, SendChunk, StartDownload, Stream, StreamOpen, StreamRead,
       StreamProgress, StreamFails, Reader, UploadOpen, UploadOpenFails, UploadWrite, UploadWriteFails,
       DownloadReq, Writer, SockClose, Reconnect, TransferHubClose, pageVars, connVars

\* What a download goroutine goes through.
LEMMA StreamMoves ==
  ASSUME TransferTyped, NEW d \in Download, Stream(d)
  PROVE /\ stream[d].pc \in {"open", "read", "progress"} /\ stream'[d].pc \in {"read", "progress", "ended"}
        /\ stream'[d].conn = stream[d].conn
<1>1. stream \in [Download -> Streamer] /\ stream[d] \in Streamer BY DEF TransferTyped, DownloadTyped
<1>2. CASE StreamOpen(d) BY <1>1, <1>2 DEF StreamOpen, Streamer
<1>3. CASE StreamRead(d) BY <1>1, <1>3 DEF StreamRead, Streamer
<1>4. CASE StreamProgress(d) BY <1>1, <1>4 DEF StreamProgress, Streamer
<1>5. CASE StreamFails(d) BY <1>1, <1>5 DEF StreamFails, Streamer
<1> QED BY <1>2, <1>3, <1>4, <1>5 DEF Stream

\* A download that has been started stays started, and its goroutine goes forward.
LEMMA DownloadGoesOn ==
  ASSUME TransferTyped, [TransferNext]_transferVars, NEW d \in Download
  PROVE /\ dl'[d] = dl[d] \/ (dl[d] = "none" /\ StartDownload(d)) \/ (dl[d] = "waiting" /\ \E c \in Conn : Writer(c))
        /\ dl'[d] = "none" => dl[d] = "none"
        /\ \/ stream'[d] = stream[d]
           \/ Stream(d) /\ stream[d].pc \in {"open", "read", "progress"}
                        /\ stream'[d].pc \in {"read", "progress", "ended"}
           \/ \E c \in Conn : DownloadReq(c) /\ Head(up[c]).id = d
<1>1. dl \in [Download -> {"none", "waiting", "saved", "failed"}] /\ stream \in [Download -> Streamer]
  BY DEF TransferTyped, DownloadTyped
<1>2. ASSUME NEW e \in Download, StartDownload(e)
      PROVE dl'[d] = dl[d] \/ (dl[d] = "none" /\ StartDownload(d) /\ dl'[d] = "waiting")
  BY <1>1, <1>2 DEF StartDownload
<1>3. ASSUME NEW c \in Conn, Writer(c) PROVE dl'[d] = dl[d] \/ (dl[d] = "waiting" /\ dl'[d] # "none")
  BY <1>1, <1>3 DEF Writer, OnChunk, OnDownloadProgress, OnUploadProgress, OnError
<1>4. ASSUME NEW e \in Download, Stream(e), d # e PROVE stream'[d] = stream[d]
  BY <1>1, <1>4 DEF Stream, StreamOpen, StreamRead, StreamProgress, StreamFails
<1>5. ASSUME NEW c \in Conn, DownloadReq(c), Head(up[c]).id # d PROVE stream'[d] = stream[d]
  BY <1>1, <1>5 DEF DownloadReq
<1>6. dl'[d] = dl[d] \/ (dl[d] = "none" /\ StartDownload(d)) \/ (dl[d] = "waiting" /\ \E c \in Conn : Writer(c))
  BY <1>2, <1>3, Changes
<1>7. dl'[d] = "none" => dl[d] = "none" BY <1>2, <1>3, Changes
<1>8. \/ stream'[d] = stream[d]
      \/ Stream(d) /\ stream[d].pc \in {"open", "read", "progress"}
                   /\ stream'[d].pc \in {"read", "progress", "ended"}
      \/ \E c \in Conn : DownloadReq(c) /\ Head(up[c]).id = d
  BY <1>4, <1>5, Changes, StreamMoves
<1> QED BY <1>6, <1>7, <1>8

\* What ClientSend and Send do to the queues.
LEMMA ClientSends ==
  ASSUME TransferTyped, NEW f \in UpFrame, ClientSend(f)
  PROVE \/ /\ sock \in Conn /\ UNCHANGED spoiled
           /\ Len(up'[sock]) = Len(up[sock]) + 1 /\ Len(up[sock]) \in Nat
           /\ up'[sock][Len(up[sock]) + 1] = f
           /\ \A i \in 1..Len(up[sock]) : up'[sock][i] = up[sock][i]
           /\ \A b \in Conn \ {sock} : up'[b] = up[b]
        \/ up' = up /\ spoiled' = spoiled \cup {f.id}
<1>1. up \in [Conn -> Seq(UpFrame)] BY DEF TransferTyped, ConnTyped
<1>2. CASE sock # 0 /\ hub[sock] = "open"
  <2>1. sock \in 0..conns /\ conns \in Conn BY DEF TransferTyped, ConnTyped
  <2>2. sock \in Conn BY <1>2, <2>1, TransferAssumption DEF Conn
  <2>3. up' = [up EXCEPT ![sock] = Append(@, f)] /\ UNCHANGED spoiled BY <1>2 DEF ClientSend
  <2> QED BY <1>1, <2>2, <2>3, PutAt
<1>3. CASE ~(sock # 0 /\ hub[sock] = "open") BY <1>3 DEF ClientSend
<1> QED BY <1>2, <1>3

\* A frame in the queue of the server was there, or is the one sent.
LEMMA ClientSentFrames ==
  ASSUME TransferTyped, NEW f \in UpFrame, ClientSend(f), NEW c \in Conn, NEW i \in 1..Len(up'[c])
  PROVE \/ i \in 1..Len(up[c]) /\ up'[c][i] = up[c][i]
        \/ c = sock /\ i = Len(up[sock]) + 1 /\ up'[c][i] = f
BY ClientSends

\* What Send does to the queues: it appends, or drops what it spoils.
LEMMA Sends ==
  ASSUME TransferTyped, NEW c \in Conn, NEW f \in DownFrame, NEW lost, Send(c, f, lost)
  PROVE /\ spoiled \cup lost \subseteq spoiled'
        /\ \/ /\ Len(down'[c]) = Len(down[c]) + 1 /\ Len(down[c]) \in Nat
              /\ down'[c][Len(down[c]) + 1] = f
              /\ \A i \in 1..Len(down[c]) : down'[c][i] = down[c][i]
              /\ \A b \in Conn \ {c} : down'[b] = down[b]
           \/ down' = down /\ (f.type # "progress" => f.id \in spoiled')
<1>1. down \in [Conn -> Seq(DownFrame)] BY DEF TransferTyped, ConnTyped
<1>2. CASE hub[c] = "open" /\ Len(down[c]) < QueueCap
  <2>1. down' = [down EXCEPT ![c] = Append(@, f)] /\ spoiled' = spoiled \cup lost BY <1>2 DEF Send
  <2> QED BY <1>1, <2>1, PutAt
<1>3. CASE ~(hub[c] = "open" /\ Len(down[c]) < QueueCap) BY <1>3 DEF Send, Matters
<1> QED BY <1>2, <1>3

\* What the read goroutine takes.
LEMMA Reading ==
  ASSUME TransferTyped, NEW c \in Conn, NEW k, Reads(c, k)
  PROVE /\ Head(up[c]) = up[c][1] /\ up[c][1] \in UpFrame /\ up[c][1].type = k
        /\ handler[c] = <<>>
        /\ Len(up[c]) = Len(up'[c]) + 1 /\ Len(up'[c]) \in Nat
        /\ \A i \in 1..Len(up'[c]) : up'[c][i] = up[c][i + 1]
        /\ \A b \in Conn \ {c} : up'[b] = up[b]
<1>1. up \in [Conn -> Seq(UpFrame)] BY DEF TransferTyped, ConnTyped
<1>2. up[c] # <<>> /\ up' = [up EXCEPT ![c] = Tail(@)] /\ handler[c] = <<>>
      /\ Head(up[c]).type = k
  BY DEF Reads
<1>3. Head(up[c]) \in UpFrame BY <1>1, <1>2
<1> QED BY <1>1, <1>2, <1>3, TakenShrunk

\* Nothing has been asked for at the start.
LEMMA RequestInit == TransferInit => Requested
BY DEF TransferInit, Requested, OneRequest, Unopened, Asked

\* A download is asked for once, and answered by one goroutine.
LEMMA OneRequestStep ==
  ASSUME TransferTyped, TransferTyped', Requested, [TransferNext]_transferVars, NEW d \in Download
  PROVE OneRequest(d)'
<1>1. OneRequest(d) BY DEF Requested
<1>2. up \in [Conn -> Seq(UpFrame)] /\ up' \in [Conn -> Seq(UpFrame)] BY DEF TransferTyped, ConnTyped
<1>3. ASSUME NEW u \in Upload, SendChunk(u) PROVE OneRequest(d)'
  <2> DEFINE f == [type |-> "upload", id |-> u, off |-> sent[u]]
  <2>1. f \in UpFrame BY DEF UpFrame, UploadFrame, TransferTyped, UploadTyped
  <2>2. ~IsRequest(f, d) BY DEF IsRequest
  <2>3. ClientSend(f) /\ dl' = dl /\ stream' = stream BY <1>3 DEF SendChunk
  <2> HIDE DEF f
  <2>4. \A c \in Conn : \A i \in 1..Len(up'[c]) :
          IsRequest(up'[c][i], d) => i \in 1..Len(up[c]) /\ IsRequest(up[c][i], d)
    BY <2>1, <2>2, <2>3, ClientSentFrames
  <2> QED BY <1>1, <2>3, <2>4 DEF OneRequest, Asked
<1>4. ASSUME NEW e \in Download, StartDownload(e) PROVE OneRequest(d)'
  <2> DEFINE f == [type |-> "downloadReq", id |-> e]
  <2>1. f \in UpFrame BY DEF UpFrame, RequestFrame
  <2>2. IsRequest(f, d) => e = d BY DEF IsRequest
  <2>3. ClientSend(f) /\ stream' = stream /\ dl[e] = "none" /\ dl' = [dl EXCEPT ![e] = "waiting"]
    BY <1>4 DEF StartDownload
  <2> HIDE DEF f
  <2>4. dl'[d] = IF d = e THEN "waiting" ELSE dl[d] BY <2>3 DEF TransferTyped, DownloadTyped
  <2>5. CASE d = e
    <3>1. ~Asked(d) /\ stream[d].pc = "none" BY <1>1, <2>3, <2>5 DEF OneRequest
    <3>2. \A c \in Conn : \A i \in 1..Len(up'[c]) :
            IsRequest(up'[c][i], d) => c = sock /\ i = Len(up[sock]) + 1
      BY <2>1, <2>3, <3>1, ClientSentFrames DEF Asked
    <3> QED BY <2>3, <2>4, <2>5, <3>1, <3>2 DEF OneRequest
  <2>6. CASE d # e
    <3>1. \A c \in Conn : \A i \in 1..Len(up'[c]) :
            IsRequest(up'[c][i], d) => i \in 1..Len(up[c]) /\ IsRequest(up[c][i], d)
      BY <2>1, <2>2, <2>3, <2>6, ClientSentFrames
    <3> QED BY <1>1, <2>3, <2>4, <2>6, <3>1 DEF OneRequest, Asked
  <2> QED BY <2>5, <2>6
<1>5. CASE (\A u \in Upload : ~SendChunk(u)) /\ \A e \in Download : ~StartDownload(e)
  <2>1. Shrunk(up, up') BY <1>5, UpShrinks
  <2>2. ASSUME NEW c \in Conn
        PROVE /\ \A i \in 1..Len(up'[c]) : \E j \in 1..Len(up[c]) : up'[c][i] = up[c][j]
              /\ Len(up[c]) \in Nat /\ Len(up'[c]) \in Nat
    BY <1>2, <2>1, ShrunkFrames
  <2>3. \A b, c \in Conn : \A i \in 1..Len(up'[b]), j \in 1..Len(up'[c]) :
          IsRequest(up'[b][i], d) /\ IsRequest(up'[c][j], d) => b = c /\ i = j
    <3> SUFFICES ASSUME NEW b \in Conn, NEW c \in Conn, NEW i \in 1..Len(up'[b]), NEW j \in 1..Len(up'[c]),
                        IsRequest(up'[b][i], d), IsRequest(up'[c][j], d)
                 PROVE b = c /\ i = j
      OBVIOUS
    <3>1. PICK k \in Nat : Len(up[b]) = Len(up'[b]) + k /\ \A x \in 1..Len(up'[b]) : up'[b][x] = up[b][x + k]
      BY <2>1 DEF Shrunk
    <3>2. PICK l \in Nat : Len(up[c]) = Len(up'[c]) + l /\ \A x \in 1..Len(up'[c]) : up'[c][x] = up[c][x + l]
      BY <2>1 DEF Shrunk
    <3>3. Len(up'[b]) \in Nat /\ Len(up'[c]) \in Nat BY <2>2
    <3>4. i + k \in 1..Len(up[b]) /\ j + l \in 1..Len(up[c]) BY <3>1, <3>2, <3>3
    <3>5. b = c /\ i + k = j + l BY <1>1, <3>1, <3>2, <3>4 DEF OneRequest
    <3>6. k = l BY <3>1, <3>2, <3>3, <3>5
    <3> QED BY <3>5, <3>6
  <2>4. dl'[d] = "none" => dl[d] = "none" BY DownloadGoesOn
  <2>5. ASSUME NEW c \in Conn, DownloadReq(c) PROVE OneRequest(d)'
    <3>1. Reads(c, "downloadReq") /\ dl' = dl
      BY <2>5 DEF DownloadReq, pageVars
    <3>2. /\ Head(up[c]) = up[c][1] /\ up[c][1] \in UpFrame /\ up[c][1].type = "downloadReq"
          /\ Len(up[c]) = Len(up'[c]) + 1 /\ Len(up'[c]) \in Nat
          /\ \A i \in 1..Len(up'[c]) : up'[c][i] = up[c][i + 1]
          /\ \A b \in Conn \ {c} : up'[b] = up[b]
      BY <3>1, Reading
    <3>3. CASE up[c][1].id = d
      <4>1. IsRequest(up[c][1], d) /\ 1 \in 1..Len(up[c]) BY <3>2, <3>3 DEF IsRequest
      <4>2. ASSUME NEW b \in Conn, NEW i \in 1..Len(up'[b]) PROVE ~IsRequest(up'[b][i], d)
        <5>1. CASE b = c
          <6>1. i + 1 \in 1..Len(up[c]) /\ i + 1 # 1 /\ up'[b][i] = up[c][i + 1] BY <3>2, <5>1
          <6> QED BY <1>1, <4>1, <6>1 DEF OneRequest
        <5>2. CASE b # c
          <6>1. up'[b] = up[b] BY <3>2, <5>2
          <6> QED BY <1>1, <4>1, <5>2, <6>1 DEF OneRequest
        <5> QED BY <5>1, <5>2
      <4>3. dl[d] # "none" BY <1>1, <4>1 DEF OneRequest, Asked
      <4> QED BY <2>3, <3>1, <4>2, <4>3 DEF OneRequest, Asked
    <3>4. CASE up[c][1].id # d
      <4>1. stream'[d] = stream[d] BY <2>5, <3>2, <3>4 DEF DownloadReq, TransferTyped, DownloadTyped
      <4> QED BY <1>1, <2>2, <2>3, <3>1, <4>1 DEF OneRequest, Asked
    <3> QED BY <3>3, <3>4
  <2>6. CASE \A c \in Conn : ~DownloadReq(c)
    <3>1. stream'[d].pc = stream[d].pc \/ (stream[d].pc # "none" /\ stream'[d].pc # "none")
      BY <2>6, DownloadGoesOn
    <3>2. Asked(d)' => Asked(d) BY <2>2 DEF Asked
    <3>3. dl[d] = "none" \/ stream[d].pc # "none" => ~Asked(d) BY <1>1 DEF OneRequest
    <3>4. dl[d] = "none" => stream[d].pc = "none" BY <1>1 DEF OneRequest
    <3>5. dl'[d] = "none" \/ stream'[d].pc # "none" => ~Asked(d)' BY <2>4, <3>1, <3>2, <3>3
    <3>6. dl'[d] = "none" => stream'[d].pc = "none" BY <2>4, <3>1, <3>4
    <3> QED BY <2>3, <3>5, <3>6 DEF OneRequest
  <2> QED BY <2>5, <2>6
<1> QED BY <1>3, <1>4, <1>5

\* A frame in a queue of the page was there, or is the one sent.
LEMMA SentFrames ==
  ASSUME TransferTyped, NEW c \in Conn, NEW f \in DownFrame, NEW lost, Send(c, f, lost),
         NEW b \in Conn, NEW i \in 1..Len(down'[b])
  PROVE \/ i \in 1..Len(down[b]) /\ down'[b][i] = down[b][i]
        \/ b = c /\ i = Len(down[c]) + 1 /\ down'[b][i] = f
BY Sends

\* The frames that a goroutine sends are about its download.
LEMMA StreamSends ==
  ASSUME TransferTyped, NEW d \in Download, Stream(d)
  PROVE \/ down' = down
        \/ \E f \in DownFrame : f.id = d /\ stream[d].conn \in Conn /\ Send(stream[d].conn, f, {})
<1>1. stream[d] \in Streamer BY DEF TransferTyped, DownloadTyped
<1>2. stream[d].pc # "none" => stream[d].conn \in Conn
  <2>1. stream[d].pc # "none" => stream[d].conn \in 1..conns BY DEF TransferTyped, DownloadTyped
  <2>2. conns \in 1..MaxConns /\ MaxConns \in Nat
    BY TransferAssumption DEF TransferTyped, ConnTyped, Conn
  <2> QED BY <2>1, <2>2 DEF Conn
<1>3. CASE StreamOpen(d)
  <2> DEFINE f == [type |-> "error", id |-> d]
  <2>1. f \in DownFrame /\ f.id = d BY DEF DownFrame, ErrorFrame
  <2>2. Send(stream[d].conn, f, {}) \/ down' = down BY <1>3 DEF StreamOpen
  <2>3. stream[d].pc # "none" BY <1>3 DEF StreamOpen
  <2> HIDE DEF f
  <2> QED BY <1>2, <2>1, <2>2, <2>3
<1>4. CASE StreamRead(d)
  <2> DEFINE content == file[PathOf[d]]
             f == [type |-> "chunk", id |-> d, off |-> stream[d].off,
                   cell |-> content[stream[d].off + 1]]
             ends == hub[stream[d].conn] = "closed" \/ stream[d].off >= Len(content)
  <2>1. stream[d].pc = "read" /\ PathOf[d] \in Path BY <1>4, TransferAssumption DEF StreamRead
  <2>2. content \in Seq(FileCell) BY <2>1 DEF TransferTyped, UploadTyped, DownloadTyped
  <2>3. stream[d].off \in Nat BY <1>1, StreamParts
  <2>4. CASE ends BY <1>4, <2>4 DEF StreamRead
  <2>5. CASE ~ends
    <3>1. f \in DownFrame /\ f.id = d BY <2>2, <2>3, <2>5 DEF DownFrame, ChunkFrame
    <3>2. Send(stream[d].conn, f, {}) BY <1>4, <2>5 DEF StreamRead
    <3> HIDE DEF f
    <3> QED BY <1>2, <2>1, <3>1, <3>2
  <2> QED BY <2>4, <2>5
<1>5. CASE StreamProgress(d)
  <2> DEFINE f == [type |-> "progress", id |-> d, sent |-> stream[d].off + 1,
                   total |-> Len(stream[d].total)]
  <2>1. stream[d].off \in Nat /\ Len(stream[d].total) \in Nat BY <1>1, StreamParts
  <2>2. f \in DownFrame /\ f.id = d BY <2>1 DEF DownFrame, ProgressFrame
  <2>3. Send(stream[d].conn, f, {}) /\ stream[d].pc # "none" BY <1>5 DEF StreamProgress
  <2> HIDE DEF f
  <2> QED BY <1>2, <2>2, <2>3
<1>6. CASE StreamFails(d) BY <1>6 DEF StreamFails
<1> QED BY <1>3, <1>4, <1>5, <1>6 DEF Stream

\* What handleFileUpload reports.
LEMMA WriteSends ==
  ASSUME TransferTyped, NEW c \in Conn, UploadWrite(c)
  PROVE \E f \in DownFrame :
          /\ f = [type |-> "progress", id |-> handler[c].id,
                  sent |-> handler[c].off + Len(Data(handler[c])), total |-> Size[handler[c].id]]
          /\ handler[c].id \in Upload
          /\ Send(c, f, Touched(PathOf[handler[c].id]))
<1>1. handler[c] \in UploadFrame BY DEF UploadWrite, TransferTyped, ConnTyped
<1>2. handler[c].id \in Upload /\ handler[c].off \in Nat BY <1>1 DEF UploadFrame
<1>3. Len(Data(handler[c])) \in Nat /\ Size[handler[c].id] \in Nat
  BY <1>1, <1>2, DataTyped, TransferAssumption
<1> DEFINE f == [type |-> "progress", id |-> handler[c].id,
                 sent |-> handler[c].off + Len(Data(handler[c])), total |-> Size[handler[c].id]]
<1>4. f \in DownFrame BY <1>2, <1>3 DEF DownFrame, ProgressFrame
<1>5. Send(c, f, Touched(PathOf[handler[c].id])) BY DEF UploadWrite
<1> QED BY <1>2, <1>4, <1>5

\* Where a frame for the page comes from.
LEMMA FromWhom ==
  ASSUME TransferTyped, TransferTyped', [TransferNext]_transferVars, NEW b \in Conn, NEW i \in 1..Len(down'[b])
  PROVE \/ \E j \in 1..Len(down[b]) : down'[b][i] = down[b][j]
        \/ \E d \in Download : Stream(d) /\ down'[b][i].id = d
        \/ \E c \in Conn : UploadWrite(c) /\ down'[b][i].id = handler[c].id
<1>1. ASSUME NEW d \in Download, Stream(d)
      PROVE (\E j \in 1..Len(down[b]) : down'[b][i] = down[b][j]) \/ down'[b][i].id = d
  BY <1>1, StreamSends, SentFrames
<1>2. ASSUME NEW c \in Conn, UploadWrite(c)
      PROVE (\E j \in 1..Len(down[b]) : down'[b][i] = down[b][j]) \/ down'[b][i].id = handler[c].id
  BY <1>2, WriteSends, SentFrames
<1>3. CASE /\ \A c \in Conn : ~UploadWrite(c)
           /\ \A d \in Download : ~Stream(d)
  <2>1. Shrunk(down, down') BY <1>3, DownShrinks DEF Stream
  <2>2. down \in [Conn -> Seq(DownFrame)] /\ down' \in [Conn -> Seq(DownFrame)]
    BY DEF TransferTyped, ConnTyped
  <2>3. /\ \A k \in 1..Len(down'[b]) : \E j \in 1..Len(down[b]) : down'[b][k] = down[b][j]
        /\ Len(down[b]) \in Nat /\ Len(down'[b]) \in Nat
    BY <2>1, <2>2, ShrunkFrames
  <2> QED BY <2>3
<1> QED BY <1>1, <1>2, <1>3

\* The listener changes only what the frame is about.
LEMMA Listens ==
  ASSUME TransferTyped, NEW c \in Conn, Writer(c), NEW x \in Upload \cup Download, x # Head(down[c]).id
  PROVE /\ x \in Download => dl'[x] = dl[x] /\ chunks'[x] = chunks[x] /\ saved'[x] = saved[x]
        /\ x \in Upload => toast'[x] = toast[x]
<1> DEFINE f == Head(down[c])
<1>1. /\ toast \in [Upload -> {"none", "uploading", "done"}]
      /\ dl \in [Download -> {"none", "waiting", "saved", "failed"}]
      /\ DOMAIN chunks = Download /\ DOMAIN saved = Download
  BY DEF TransferTyped, UploadTyped, DownloadTyped
<1>2. \/ UNCHANGED <<toast, dl, chunks, saved>>
      \/ OnChunk(f) \/ OnDownloadProgress(f) \/ OnUploadProgress(f) \/ OnError(f)
  BY DEF Writer
<1>3. x # f.id OBVIOUS
<1> HIDE DEF f
<1>4. CASE OnChunk(f) BY <1>1, <1>3, <1>4 DEF OnChunk
<1>5. CASE OnDownloadProgress(f) BY <1>1, <1>3, <1>5 DEF OnDownloadProgress
<1>6. CASE OnUploadProgress(f) BY <1>1, <1>3, <1>6 DEF OnUploadProgress
<1>7. CASE OnError(f) BY <1>1, <1>3, <1>7 DEF OnError
<1> QED BY <1>2, <1>4, <1>5, <1>6, <1>7

\* Nothing arrives of a download before its file is opened.
LEMMA UnopenedStep ==
  ASSUME TransferTyped, TransferTyped', Requested, [TransferNext]_transferVars, NEW d \in Download
  PROVE Unopened(d)'
<1> SUFFICES ASSUME stream'[d].pc \in {"none", "open"}
    PROVE /\ \A c \in Conn : \A i \in 1..Len(down'[c]) : down'[c][i].id # d
          /\ DOMAIN chunks'[d] = {} /\ stream'[d].off = 0
  BY DEF Unopened
<1>1. OneRequest(d) /\ Unopened(d) BY DEF Requested
<1>2. stream'[d] = stream[d] \/ \E c \in Conn : DownloadReq(c) /\ Head(up[c]).id = d
  BY DownloadGoesOn
<1>3. stream[d].pc \in {"none", "open"} /\ stream'[d].off = stream[d].off
  <2>1. CASE stream'[d] = stream[d] BY <2>1
  <2>2. ASSUME NEW c \in Conn, DownloadReq(c), Head(up[c]).id = d
        PROVE stream[d].pc = "none" /\ stream'[d].off = stream[d].off
    <3>1. Reads(c, "downloadReq") BY <2>2 DEF DownloadReq
    <3>2. IsRequest(up[c][1], d) /\ 1 \in 1..Len(up[c]) BY <2>2, <3>1, Reading DEF IsRequest
    <3>3. stream[d].pc = "none" BY <1>1, <3>2 DEF OneRequest, Asked
    <3>4. stream \in [Download -> Streamer] BY DEF TransferTyped, DownloadTyped
    <3>5. stream' = [stream EXCEPT ![d].pc = "open", ![d].conn = c] BY <2>2 DEF DownloadReq
    <3> QED BY <3>3, <3>4, <3>5 DEF Streamer
  <2> QED BY <1>2, <2>1, <2>2
<1>4. /\ \A c \in Conn : \A i \in 1..Len(down[c]) : down[c][i].id # d
      /\ DOMAIN chunks[d] = {} /\ stream[d].off = 0
  BY <1>1, <1>3 DEF Unopened
<1>5. ~Stream(d) BY StreamMoves
<1>6. ASSUME NEW c \in Conn, NEW i \in 1..Len(down'[c]) PROVE down'[c][i].id # d
  <2>1. \A b \in Conn : UploadWrite(b) => handler[b].id \in Upload BY WriteSends
  <2> QED BY <1>4, <1>5, <2>1, FromWhom, TransferAssumption
<1>7. chunks'[d] = chunks[d]
  <2>1. CASE UNCHANGED chunks BY <2>1
  <2>2. ASSUME NEW c \in Conn, Writer(c) PROVE chunks'[d] = chunks[d]
    <3>1. Head(down[c]) = down[c][1] /\ 1 \in 1..Len(down[c])
      BY <2>2 DEF Writer, TransferTyped, ConnTyped
    <3> QED BY <1>4, <2>2, <3>1, Listens
  <2> QED BY <2>1, <2>2, Changes DEF StartDownload
<1> QED BY <1>3, <1>4, <1>6, <1>7

\* Both parts for all downloads.
LEMMA RequestedStep ==
  TransferTyped /\ TransferTyped' /\ Requested /\ [TransferNext]_transferVars => Requested'
BY OneRequestStep, UnopenedStep DEF Requested

\* Nothing is on its way at the start of a download.
LEMMA FlowEmpty ==
  ASSUME NEW d, NEW q \in Seq(DownFrame), NEW got, NEW t \in Seq(FileCell), DOMAIN got = {},
         \A i \in 1..Len(q) : q[i].id # d
  PROVE Flow(d, q, got, t, 0)
BY DEF Flow

\* A frame of another transfer does not disturb a download.
LEMMA FlowOther ==
  ASSUME NEW d, NEW q \in Seq(DownFrame), NEW got, NEW t \in Seq(FileCell), NEW p, Flow(d, q, got, t, p),
         NEW f \in DownFrame, f.id # d
  PROVE Flow(d, Append(q, f), got, t, p)
<1> DEFINE r == Append(q, f)
<1>1. /\ Len(r) = Len(q) + 1 /\ Len(q) \in Nat /\ r[Len(q) + 1] = f
      /\ \A i \in 1..Len(q) : r[i] = q[i]
  OBVIOUS
<1> HIDE DEF r
<1>2. \A o, n : n \in 0..Len(q) /\ Came(d, o, q, n, got) => Came(d, o, r, n, got)
  BY <1>1 DEF Came
<1>3. \A o : Came(d, o, r, Len(q), got) => Came(d, o, r, Len(r), got) BY <1>1 DEF Came
<1>4. \A i \in 1..Len(r) : r[i].id = d => i \in 1..Len(q) /\ r[i] = q[i] /\ i - 1 \in 0..Len(q)
  BY <1>1
<1>5. Len(q) \in 0..Len(q) BY <1>1
<1> QED BY <1>2, <1>3, <1>4, <1>5 DEF Flow, r

\* The next chunk is sent.
LEMMA FlowChunk ==
  ASSUME NEW d, NEW q \in Seq(DownFrame), NEW got, NEW t \in Seq(FileCell), NEW p, Flow(d, q, got, t, p),
         p < Len(t), NEW f \in DownFrame, f.type = "chunk", f.id = d, f.off = p, f.cell = t[p + 1]
  PROVE Flow(d, Append(q, f), got, t, p + 1)
<1> DEFINE r == Append(q, f)
<1>1. /\ Len(r) = Len(q) + 1 /\ Len(q) \in Nat /\ r[Len(q) + 1] = f
      /\ \A i \in 1..Len(q) : r[i] = q[i]
  OBVIOUS
<1>2. p \in Nat /\ Len(t) \in Nat BY DEF Flow
<1> HIDE DEF r
<1>3. \A o, n : n \in 0..Len(q) /\ Came(d, o, q, n, got) => Came(d, o, r, n, got)
  BY <1>1 DEF Came
<1>4. \A o : Came(d, o, r, Len(q), got) => Came(d, o, r, Len(r), got) BY <1>1 DEF Came
<1>5. Came(d, p, r, Len(r), got)
  <2>1. IsChunk(r[Len(r)], d, p) /\ Len(r) \in 1..Len(r) BY <1>1 DEF IsChunk
  <2> QED BY <2>1 DEF Came
<1>6. \A o \in 0..(p + 1) - 1 : Came(d, o, r, Len(r), got)
  <2> SUFFICES ASSUME NEW o \in 0..(p + 1) - 1, o # p PROVE Came(d, o, r, Len(r), got) BY <1>5
  <2>1. o \in 0..p-1 BY <1>2
  <2>2. Came(d, o, q, Len(q), got) /\ Len(q) \in 0..Len(q) BY <1>1, <2>1 DEF Flow
  <2> QED BY <1>3, <1>4, <2>2
<1>7. ASSUME NEW i \in 1..Len(r)
      PROVE /\ r[i].type = "chunk" /\ r[i].id = d => r[i].off \in 0..(p + 1)-1 /\ r[i].cell = t[r[i].off + 1]
            /\ r[i].type = "progress" /\ r[i].id = d =>
                 /\ r[i].total = Len(t) /\ r[i].sent <= p + 1
                 /\ \A o \in 0..r[i].sent - 1 : Came(d, o, r, i - 1, got)
  <2>1. CASE i = Len(q) + 1 BY <1>1, <1>2, <2>1
  <2>2. CASE i # Len(q) + 1
    <3>1. i \in 1..Len(q) /\ r[i] = q[i] /\ i - 1 \in 0..Len(q) BY <1>1, <2>2
    <3>2. CASE r[i].type = "chunk" /\ r[i].id = d
      <4>1. r[i].off \in 0..p-1 /\ r[i].cell = t[r[i].off + 1] BY <3>1, <3>2 DEF Flow
      <4> QED BY <1>2, <3>2, <4>1
    <3>3. CASE r[i].type = "progress" /\ r[i].id = d
      <4>1. /\ r[i].total = Len(t) /\ r[i].sent <= p
            /\ \A o \in 0..r[i].sent - 1 : Came(d, o, q, i - 1, got)
        BY <3>1, <3>3 DEF Flow
      <4>2. r[i].sent \in Nat BY <3>1, <3>3 DEF DownFrame, ProgressFrame, ChunkFrame, ErrorFrame
      <4>3. r[i].sent <= p + 1 BY <1>2, <4>1, <4>2
      <4>4. \A o \in 0..r[i].sent - 1 : Came(d, o, r, i - 1, got) BY <1>3, <3>1, <4>1
      <4> QED BY <3>3, <4>1, <4>3, <4>4
    <3> QED BY <3>2, <3>3
  <2> QED BY <2>1, <2>2
<1>8. \A o \in DOMAIN got : o \in 0..(p + 1)-1 /\ got[o] = t[o + 1] BY <1>2 DEF Flow
<1>9. p + 1 \in Nat /\ p + 1 <= Len(t) BY <1>2
<1> QED BY <1>6, <1>7, <1>8, <1>9 DEF Flow, r

\* What has been sent is reported, behind it.
LEMMA FlowProgress ==
  ASSUME NEW d, NEW q \in Seq(DownFrame), NEW got, NEW t \in Seq(FileCell), NEW p, Flow(d, q, got, t, p),
         NEW f \in DownFrame, f.type = "progress", f.id = d, f.sent = p, f.total = Len(t)
  PROVE Flow(d, Append(q, f), got, t, p)
<1> DEFINE r == Append(q, f)
<1>1. /\ Len(r) = Len(q) + 1 /\ Len(q) \in Nat /\ r[Len(q) + 1] = f
      /\ \A i \in 1..Len(q) : r[i] = q[i]
  OBVIOUS
<1>2. p \in Nat /\ Len(t) \in Nat BY DEF Flow
<1> HIDE DEF r
<1>3. \A o, n : n \in 0..Len(q) /\ Came(d, o, q, n, got) => Came(d, o, r, n, got)
  BY <1>1 DEF Came
<1>4. \A o : Came(d, o, r, Len(q), got) => Came(d, o, r, Len(r), got) BY <1>1 DEF Came
<1>5. \A o \in 0..p-1 : Came(d, o, r, Len(q), got)
  <2>1. Len(q) \in 0..Len(q) BY <1>1
  <2> QED BY <1>3, <2>1 DEF Flow
<1>6. ASSUME NEW i \in 1..Len(r)
      PROVE /\ r[i].type = "chunk" /\ r[i].id = d => r[i].off \in 0..p-1 /\ r[i].cell = t[r[i].off + 1]
            /\ r[i].type = "progress" /\ r[i].id = d =>
                 /\ r[i].total = Len(t) /\ r[i].sent <= p
                 /\ \A o \in 0..r[i].sent - 1 : Came(d, o, r, i - 1, got)
  <2>1. CASE i = Len(q) + 1
    <3>1. r[i] = f /\ i - 1 = Len(q) BY <1>1, <2>1
    <3> QED BY <1>2, <1>5, <3>1
  <2>2. CASE i # Len(q) + 1
    <3>1. i \in 1..Len(q) /\ r[i] = q[i] /\ i - 1 \in 0..Len(q) BY <1>1, <2>2
    <3> QED BY <1>3, <3>1 DEF Flow
  <2> QED BY <2>1, <2>2
<1> QED BY <1>4, <1>5, <1>6 DEF Flow, r

\* The listener takes the first frame; `rest' is the queue after it.
LEMMA FlowTail ==
  ASSUME NEW d, NEW q \in Seq(DownFrame), q # <<>>, NEW got, NEW t \in Seq(FileCell), NEW p,
         Flow(d, q, got, t, p), NEW new,
         \A o \in DOMAIN new : o \in 0..p-1 /\ new[o] = t[o + 1],
         \A o : o \in DOMAIN got \/ IsChunk(q[1], d, o) => o \in DOMAIN new
  PROVE Flow(d, Tail(q), new, t, p)
<1> DEFINE r == Tail(q)
<1>1. /\ Len(q) = Len(r) + 1 /\ Len(r) \in Nat
      /\ \A i \in 1..Len(r) : r[i] = q[i + 1]
  OBVIOUS
<1> HIDE DEF r
<1>2. ASSUME NEW o, NEW n \in 0..Len(r), Came(d, o, q, n + 1, got) PROVE Came(d, o, r, n, new)
  <2>1. CASE o \in DOMAIN got BY <2>1 DEF Came
  <2>2. CASE o \notin DOMAIN got
    <3>1. PICK j \in 1..(n + 1) : IsChunk(q[j], d, o) BY <1>2, <2>2 DEF Came
    <3>2. CASE j = 1 BY <3>1, <3>2 DEF Came
    <3>3. CASE j # 1
      <4>1. j - 1 \in 1..n /\ j - 1 \in 1..Len(r) /\ r[j - 1] = q[j] BY <1>1, <3>3
      <4> QED BY <3>1, <4>1 DEF Came
    <3> QED BY <3>2, <3>3
  <2> QED BY <2>1, <2>2
<1>3. ASSUME NEW i \in 1..Len(r)
      PROVE /\ r[i].type = "chunk" /\ r[i].id = d => r[i].off \in 0..p-1 /\ r[i].cell = t[r[i].off + 1]
            /\ r[i].type = "progress" /\ r[i].id = d =>
                 /\ r[i].total = Len(t) /\ r[i].sent <= p
                 /\ \A o \in 0..r[i].sent - 1 : Came(d, o, r, i - 1, new)
  <2>1. i + 1 \in 1..Len(q) /\ r[i] = q[i + 1] /\ i - 1 \in 0..Len(r) /\ (i + 1) - 1 = (i - 1) + 1
    BY <1>1
  <2> QED BY <1>2, <2>1 DEF Flow
<1>4. \A o \in 0..p-1 : Came(d, o, r, Len(r), new)
  <2>1. Len(r) \in 0..Len(r) BY <1>1
  <2> QED BY <1>1, <1>2, <2>1 DEF Flow
<1> QED BY <1>3, <1>4 DEF Flow, r

\* When the end is reported, all chunks have been received.
LEMMA FlowEnds ==
  ASSUME NEW d, NEW q \in Seq(DownFrame), q # <<>>, NEW got, NEW t \in Seq(FileCell), NEW p,
         Flow(d, q, got, t, p), q[1].type = "progress", q[1].id = d, q[1].sent >= q[1].total
  PROVE DOMAIN got = 0..Len(t)-1 /\ \A o \in DOMAIN got : got[o] = t[o + 1]
<1>1. 1 \in 1..Len(q) /\ Len(q) \in Nat /\ Len(t) \in Nat /\ p \in Nat BY DEF Flow
<1>2. q[1] \in DownFrame BY <1>1
<1>3. q[1].sent \in Nat BY <1>2 DEF DownFrame, ProgressFrame, ChunkFrame, ErrorFrame
<1>4. /\ q[1].total = Len(t) /\ q[1].sent <= p /\ p <= Len(t)
      /\ \A o \in 0..q[1].sent - 1 : Came(d, o, q, 1 - 1, got)
  BY <1>1 DEF Flow
<1>5. q[1].sent = Len(t) /\ p = Len(t) BY <1>1, <1>3, <1>4
<1>6. \A o \in 0..Len(t) - 1 : o \in DOMAIN got BY <1>4, <1>5 DEF Came
<1> QED BY <1>5, <1>6 DEF Flow

\* There are n offsets below n.
LEMMA Below ==
  ASSUME NEW n \in Nat PROVE Cardinality(0..n-1) = n
<1>1. 0 \in Int /\ n - 1 \in Int OBVIOUS
<1>2. Cardinality(0..n-1) = IF 0 > n - 1 THEN 0 ELSE (n - 1) - 0 + 1 BY <1>1, FS_Interval
<1> QED BY <1>2

\* The chunks, put together by offset, are the content.
LEMMA Assembled ==
  ASSUME NEW t \in Seq(FileCell), NEW got, DOMAIN got = 0..Len(t)-1,
         \A o \in DOMAIN got : got[o] = t[o + 1]
  PROVE Assemble(got) = t
<1>1. Len(t) \in Nat OBVIOUS
<1>2. Cardinality(0..Len(t)-1) = Len(t) BY <1>1, Below
<1>3. ASSUME NEW i \in 1..Len(t)
      PROVE (CHOOSE o \in DOMAIN got : Cardinality({k \in DOMAIN got : k < o}) = i - 1) = i - 1
  <2>1. ASSUME NEW o \in DOMAIN got PROVE Cardinality({k \in DOMAIN got : k < o}) = o
    <3>1. o \in Nat /\ {k \in DOMAIN got : k < o} = 0..o-1 BY <1>1
    <3>2. Cardinality(0..o-1) = o BY <3>1, Below
    <3> QED BY <3>1, <3>2
  <2>2. i - 1 \in DOMAIN got BY <1>1
  <2> QED BY <2>1, <2>2
<1> DEFINE at(i) == CHOOSE o \in DOMAIN got : Cardinality({k \in DOMAIN got : k < o}) = i - 1
<1>4. Assemble(got) = [i \in 1..Len(t) |-> got[at(i)]] BY <1>2 DEF Assemble
<1>5. \A i \in 1..Len(t) : at(i) = i - 1 BY <1>3
<1> HIDE DEF at
<1>6. Assemble(got) = [i \in 1..Len(t) |-> got[i - 1]] BY <1>4, <1>5
<1>7. \A i \in 1..Len(t) : got[i - 1] = t[i] BY <1>1
<1>8. [i \in 1..Len(t) |-> got[i - 1]] = [i \in 1..Len(t) |-> t[i]] BY <1>7
<1>9. t = [i \in 1..Len(t) |-> t[i]] OBVIOUS
<1> QED BY <1>6, <1>8, <1>9

\* A transfer that was interfered with stays so.
LEMMA SpoiledStays == [TransferNext]_transferVars => spoiled \subseteq spoiled'
BY DEF TransferNext, transferVars, StartUpload, SendChunk, StartDownload, Stream, StreamOpen, StreamRead,
       StreamProgress, StreamFails, Reader, UploadOpen, UploadOpenFails, UploadWrite, UploadWriteFails,
       DownloadReq, Writer, SockClose, Reconnect, TransferHubClose, ClientSend, Send

\* What happens to the queue of a connection whose writer is at rest.
LEMMA DownGrows ==
  ASSUME TransferTyped, [TransferNext]_transferVars, NEW c \in Conn, ~Writer(c), ~TransferHubClose(c)
  PROVE \/ down'[c] = down[c]
        \/ \E f \in DownFrame : /\ down'[c] = Append(down[c], f)
                                /\ f.id \in Upload \/ \E d \in Download : Stream(d) /\ f.id = d
<1>1. down \in [Conn -> Seq(DownFrame)] BY DEF TransferTyped, ConnTyped
<1>2. ASSUME NEW b \in Conn, NEW f \in DownFrame, NEW lost, Send(b, f, lost)
      PROVE down'[c] = down[c] \/ down'[c] = Append(down[c], f)
  BY <1>1, <1>2 DEF Send
<1>3. ASSUME NEW d \in Download, Stream(d)
      PROVE down'[c] = down[c] \/ \E f \in DownFrame : down'[c] = Append(down[c], f) /\ f.id = d
  BY <1>2, <1>3, StreamSends
<1>4. ASSUME NEW b \in Conn, UploadWrite(b)
      PROVE down'[c] = down[c] \/ \E f \in DownFrame : down'[c] = Append(down[c], f) /\ f.id \in Upload
  BY <1>2, <1>4, WriteSends
<1>5. ASSUME NEW b \in Conn, Writer(b) PROVE down'[c] = down[c]
  BY <1>1, <1>5 DEF Writer
<1>6. ASSUME NEW b \in Conn, TransferHubClose(b) PROVE down'[c] = down[c]
  BY <1>1, <1>6 DEF TransferHubClose
<1>7. \/ down' = down \/ (\E d \in Download : Stream(d))
      \/ \E b \in Conn : UploadWrite(b) \/ Writer(b) \/ TransferHubClose(b)
  BY DEF TransferNext, transferVars, StartUpload, SendChunk, StartDownload,
         Reader, UploadOpen, UploadOpenFails, UploadWriteFails, DownloadReq, SockClose, Reconnect
<1> QED BY <1>3, <1>4, <1>5, <1>6, <1>7

\* Where a frame for the server comes from.
LEMMA UpFromWhom ==
  ASSUME TransferTyped, TransferTyped', [TransferNext]_transferVars, NEW c \in Conn, NEW i \in 1..Len(up'[c])
  PROVE \/ \E j \in 1..Len(up[c]) : up'[c][i] = up[c][j]
        \/ \E u \in Upload : /\ SendChunk(u) /\ c = sock
                             /\ up'[c][i] = [type |-> "upload", id |-> u, off |-> sent[u]]
        \/ \E d \in Download : /\ StartDownload(d) /\ c = sock
                               /\ up'[c][i] = [type |-> "downloadReq", id |-> d]
<1>1. ASSUME NEW u \in Upload, SendChunk(u)
      PROVE \/ \E j \in 1..Len(up[c]) : up'[c][i] = up[c][j]
            \/ c = sock /\ up'[c][i] = [type |-> "upload", id |-> u, off |-> sent[u]]
  <2> DEFINE f == [type |-> "upload", id |-> u, off |-> sent[u]]
  <2>1. f \in UpFrame BY DEF UpFrame, UploadFrame, TransferTyped, UploadTyped
  <2>2. ClientSend(f) BY <1>1 DEF SendChunk
  <2> HIDE DEF f
  <2>3. \/ \E j \in 1..Len(up[c]) : up'[c][i] = up[c][j]
        \/ c = sock /\ up'[c][i] = f
    BY <2>1, <2>2, ClientSentFrames
  <2> QED BY <2>3 DEF f
<1>2. ASSUME NEW d \in Download, StartDownload(d)
      PROVE \/ \E j \in 1..Len(up[c]) : up'[c][i] = up[c][j]
            \/ c = sock /\ up'[c][i] = [type |-> "downloadReq", id |-> d]
  <2> DEFINE f == [type |-> "downloadReq", id |-> d]
  <2>1. f \in UpFrame BY DEF UpFrame, RequestFrame
  <2>2. ClientSend(f) BY <1>2 DEF StartDownload
  <2> HIDE DEF f
  <2>3. \/ \E j \in 1..Len(up[c]) : up'[c][i] = up[c][j]
        \/ c = sock /\ up'[c][i] = f
    BY <2>1, <2>2, ClientSentFrames
  <2> QED BY <2>3 DEF f
<1>3. CASE (\A u \in Upload : ~SendChunk(u)) /\ \A d \in Download : ~StartDownload(d)
  <2>1. Shrunk(up, up') BY <1>3, UpShrinks
  <2>2. up \in [Conn -> Seq(UpFrame)] /\ up' \in [Conn -> Seq(UpFrame)] BY DEF TransferTyped, ConnTyped
  <2>3. /\ \A k \in 1..Len(up'[c]) : \E j \in 1..Len(up[c]) : up'[c][k] = up[c][j]
        /\ Len(up[c]) \in Nat /\ Len(up'[c]) \in Nat
    BY <2>1, <2>2, ShrunkFrames
  <2> QED BY <2>3
<1> QED BY <1>1, <1>2, <1>3

\* A file that a download reads does not change without spoiling it.
LEMMA FileStays ==
  ASSUME TransferTyped, [TransferNext]_transferVars, NEW d \in Download, d \notin spoiled',
         stream[d].pc \in {"read", "progress"}
  PROVE file'[PathOf[d]] = file[PathOf[d]]
<1>1. file \in [Path -> Seq(FileCell) \cup {Absent}] BY DEF TransferTyped, UploadTyped
<1>2. ASSUME NEW p, Touched(p) \subseteq spoiled' PROVE p # PathOf[d] BY <1>2 DEF Touched
<1>3. ASSUME NEW c \in Conn, UploadOpen(c) PROVE file'[PathOf[d]] = file[PathOf[d]]
  BY <1>1, <1>2, <1>3 DEF UploadOpen
<1>4. ASSUME NEW c \in Conn, UploadWrite(c) PROVE file'[PathOf[d]] = file[PathOf[d]]
  BY <1>1, <1>2, <1>4 DEF UploadWrite, Send
<1>5. ASSUME NEW c \in Conn, UploadWriteFails(c) PROVE file'[PathOf[d]] = file[PathOf[d]]
  BY <1>1, <1>2, <1>5 DEF UploadWriteFails
<1> QED BY <1>3, <1>4, <1>5, Changes

\* A goroutine sends what it reads, and reports it after.
LEMMA StreamFlow ==
  ASSUME TransferTyped, NEW d \in Download, Stream(d), d \notin spoiled', Unopened(d), Streams(d)
  PROVE /\ stream'[d].pc \in {"read", "progress"} => file[PathOf[d]] = stream'[d].total
        /\ Flow(d, down'[sock], chunks[d], stream'[d].total, Produced(d)')
<1>1. stream \in [Download -> Streamer] /\ stream[d] \in Streamer BY DEF TransferTyped, DownloadTyped
<1>2. down \in [Conn -> Seq(DownFrame)] BY DEF TransferTyped, ConnTyped
<1>3. /\ stream[d].off \in Nat /\ stream[d].total \in Seq(FileCell) /\ Len(stream[d].total) \in Nat
  BY <1>1, StreamParts
<1>4. stream[d].conn = sock /\ sock \in Conn
  <2>1. stream[d].pc # "none" BY StreamMoves
  <2>2. stream[d].conn \in 1..conns BY <2>1 DEF TransferTyped, DownloadTyped
  <2>3. conns \in 1..MaxConns /\ MaxConns \in Nat
    BY TransferAssumption DEF TransferTyped, ConnTyped, Conn
  <2> QED BY <2>1, <2>2, <2>3 DEF Streams, Conn
<1>5. Flow(d, down[sock], chunks[d], stream[d].total, Produced(d)) BY DEF Streams
<1>6. CASE StreamOpen(d)
  <2>1. /\ stream[d].pc = "open" BY <1>6 DEF StreamOpen
  <2>2. DOMAIN chunks[d] = {} /\ stream[d].off = 0 /\ \A i \in 1..Len(down[sock]) : down[sock][i].id # d
    BY <1>4, <2>1 DEF Unopened
  <2>3. CASE file[PathOf[d]] = Absent
    <3> DEFINE f == [type |-> "error", id |-> d]
    <3>1. f \in DownFrame /\ f.type = "error" BY DEF DownFrame, ErrorFrame
    <3>2. Send(sock, f, {}) /\ stream' = [stream EXCEPT ![d].pc = "ended"] BY <1>4, <1>6, <2>3 DEF StreamOpen
    <3>3. stream'[d].pc = "ended" /\ stream'[d].off = 0 /\ stream'[d].total = stream[d].total
      BY <1>1, <2>2, <3>2 DEF Streamer
    <3>4. Produced(d)' = 0 BY <3>3 DEF Produced
    <3> HIDE DEF f
    <3>5. down'[sock] = down[sock] \/ down'[sock] = Append(down[sock], f) BY <1>2, <1>4, <3>2 DEF Send
    <3>6. Flow(d, down'[sock], chunks[d], stream[d].total, 0)
      <4>1. down'[sock] \in Seq(DownFrame)
        <5>1. down[sock] \in Seq(DownFrame) BY <1>2, <1>4
        <5>2. Append(down[sock], f) \in Seq(DownFrame) BY <3>1, <5>1
        <5> QED BY <3>5, <5>1, <5>2
      <4>2. \A i \in 1..Len(down'[sock]) :
              /\ down'[sock][i].type = "error" \/ down'[sock][i].id # d
        <5>1. CASE down'[sock] = down[sock] BY <2>2, <5>1
        <5>2. CASE down'[sock] = Append(down[sock], f)
          <6>1. down[sock] \in Seq(DownFrame) BY <1>2, <1>4
          <6>2. \A i \in 1..Len(down'[sock]) :
                  \/ i \in 1..Len(down[sock]) /\ down'[sock][i] = down[sock][i]
                  \/ down'[sock][i] = f
            BY <5>2, <6>1
          <6> QED BY <2>2, <3>1, <6>2
        <5> QED BY <3>5, <5>1, <5>2
      <4> QED BY <1>3, <2>2, <4>1, <4>2 DEF Flow
    <3> QED BY <3>3, <3>4, <3>6
  <2>4. CASE file[PathOf[d]] # Absent
    <3>1. file[PathOf[d]] \in Seq(FileCell)
      BY <2>4, TransferAssumption DEF TransferTyped, UploadTyped
    <3>2. /\ stream' = [stream EXCEPT ![d].pc = "read", ![d].total = file[PathOf[d]]]
          /\ down' = down
      BY <1>6, <2>4 DEF StreamOpen
    <3>3. stream'[d].pc = "read" /\ stream'[d].off = 0 /\ stream'[d].total = file[PathOf[d]]
      BY <1>1, <2>2, <3>2 DEF Streamer
    <3>4. Produced(d)' = 0 BY <3>3 DEF Produced
    <3>5. Flow(d, down[sock], chunks[d], file[PathOf[d]], 0) BY <1>2, <1>4, <2>2, <3>1, FlowEmpty
    <3> QED BY <3>2, <3>3, <3>4, <3>5
  <2> QED BY <2>3, <2>4
<1>7. CASE StreamRead(d)
  <2> DEFINE content == file[PathOf[d]]
             f == [type |-> "chunk", id |-> d, off |-> stream[d].off,
                   cell |-> content[stream[d].off + 1]]
             ends == hub[stream[d].conn] = "closed" \/ stream[d].off >= Len(content)
  <2>1. stream[d].pc = "read" BY <1>7 DEF StreamRead
  <2>2. content = stream[d].total /\ Produced(d) = stream[d].off BY <2>1 DEF Streams, Produced
  <2>3. CASE ends
    <3>1. stream' = [stream EXCEPT ![d].pc = "ended"] /\ down' = down BY <1>7, <2>3 DEF StreamRead
    <3>2. stream'[d].pc = "ended" /\ stream'[d].off = stream[d].off /\ stream'[d].total = stream[d].total
      BY <1>1, <3>1 DEF Streamer
    <3>3. Produced(d)' = stream[d].off BY <3>2 DEF Produced
    <3> QED BY <1>5, <2>2, <3>1, <3>2, <3>3
  <2>4. CASE ~ends
    <3>1. stream[d].off < Len(stream[d].total) BY <1>3, <2>2, <2>4
    <3>2. stream[d].total[stream[d].off + 1] \in FileCell BY <1>3, <3>1
    <3>3. f \in DownFrame /\ f.id = d /\ f.type = "chunk" /\ f.off = stream[d].off
          /\ f.cell = stream[d].total[stream[d].off + 1]
      BY <1>3, <2>2, <3>2 DEF DownFrame, ChunkFrame
    <3>4. Send(sock, f, {}) /\ stream' = [stream EXCEPT ![d].pc = "progress"]
      BY <1>4, <1>7, <2>4 DEF StreamRead
    <3>5. stream'[d].pc = "progress" /\ stream'[d].off = stream[d].off /\ stream'[d].total = stream[d].total
      BY <1>1, <3>4 DEF Streamer
    <3>6. Produced(d)' = stream[d].off + 1 BY <3>5 DEF Produced
    <3> HIDE DEF f, ends, content
    <3>7. down'[sock] = Append(down[sock], f)
      BY <1>2, <1>4, <3>3, <3>4 DEF Send, Matters
    <3>8. Flow(d, down'[sock], chunks[d], stream[d].total, stream[d].off + 1)
      BY <1>2, <1>3, <1>4, <1>5, <2>2, <3>1, <3>3, <3>7, FlowChunk
    <3> QED BY <2>2, <3>5, <3>6, <3>8 DEF content
  <2> QED BY <2>3, <2>4
<1>8. CASE StreamProgress(d)
  <2> DEFINE f == [type |-> "progress", id |-> d, sent |-> stream[d].off + 1,
                   total |-> Len(stream[d].total)]
  <2>1. stream[d].pc = "progress" BY <1>8 DEF StreamProgress
  <2>2. file[PathOf[d]] = stream[d].total /\ Produced(d) = stream[d].off + 1 BY <2>1 DEF Streams, Produced
  <2>3. /\ f \in DownFrame /\ f.id = d /\ f.type = "progress" /\ f.sent = stream[d].off + 1
        /\ f.total = Len(stream[d].total)
    BY <1>3 DEF DownFrame, ProgressFrame
  <2>4. Send(sock, f, {}) /\ stream' = [stream EXCEPT ![d].pc = "read", ![d].off = @ + 1]
    BY <1>4, <1>8 DEF StreamProgress
  <2>5. stream'[d].pc = "read" /\ stream'[d].off = stream[d].off + 1 /\ stream'[d].total = stream[d].total
    BY <1>1, <2>4 DEF Streamer
  <2>6. Produced(d)' = stream[d].off + 1 BY <2>5 DEF Produced
  <2> HIDE DEF f
  <2>7. down'[sock] = down[sock] \/ down'[sock] = Append(down[sock], f) BY <1>2, <1>4, <2>4 DEF Send
  <2>8. Flow(d, down'[sock], chunks[d], stream[d].total, stream[d].off + 1)
    BY <1>2, <1>3, <1>4, <1>5, <2>2, <2>3, <2>7, FlowProgress
  <2> QED BY <2>2, <2>5, <2>6, <2>8
<1>9. CASE StreamFails(d) BY <1>9 DEF StreamFails
<1> QED BY <1>6, <1>7, <1>8, <1>9 DEF Stream

\* The listener of the page takes a frame from its own connection.
LEMMA ListenFlow ==
  ASSUME TransferTyped, NEW d \in Download, Writer(sock), dl[d] = "waiting", dl'[d] = "waiting",
         d \notin spoiled', Streams(d)
  PROVE Flow(d, down'[sock], chunks'[d], stream[d].total, Produced(d))
<1> DEFINE q == down[sock] f == Head(q)
<1>1. /\ toast \in [Upload -> {"none", "uploading", "done"}]
      /\ dl \in [Download -> {"none", "waiting", "saved", "failed"}]
      /\ DOMAIN chunks = Download /\ DOMAIN saved = Download
  BY DEF TransferTyped, UploadTyped, DownloadTyped
<1>2. sock \in Conn
  <2>1. sock \in 0..conns /\ conns \in 1..MaxConns /\ MaxConns \in Nat
    BY TransferAssumption DEF TransferTyped, ConnTyped, Conn
  <2> QED BY <2>1 DEF Streams, Conn
<1>3. q \in Seq(DownFrame) /\ q # <<>> /\ down' = [down EXCEPT ![sock] = Tail(@)]
  BY <1>2 DEF Writer, TransferTyped, ConnTyped
<1>4. down'[sock] = Tail(q) BY <1>2, <1>3 DEF TransferTyped, ConnTyped
<1>5. f = q[1] /\ 1 \in 1..Len(q) /\ f \in DownFrame BY <1>3
<1>6. stream[d].total \in Seq(FileCell) BY StreamParts DEF TransferTyped, DownloadTyped
<1>7. Flow(d, q, chunks[d], stream[d].total, Produced(d)) BY DEF Streams
<1>8. \/ f.type = "chunk" /\ OnChunk(f)
      \/ f.type = "progress" /\ f.id \in Download /\ OnDownloadProgress(f)
      \/ f.type = "progress" /\ f.id \in Upload /\ OnUploadProgress(f)
      \/ f.type = "error" /\ OnError(f)
  BY DEF Writer
<1>9. CASE f.type = "chunk" /\ f.id = d
  <2>1. chunks'[d] = [o \in DOMAIN chunks[d] \cup {f.off} |-> IF o = f.off THEN f.cell ELSE chunks[d][o]]
    BY <1>1, <1>8, <1>9 DEF OnChunk
  <2>2. f.off \in 0..Produced(d)-1 /\ f.cell = stream[d].total[f.off + 1]
    BY <1>5, <1>7, <1>9 DEF Flow
  <2>3. \A o \in DOMAIN chunks'[d] : o \in 0..Produced(d)-1 /\ chunks'[d][o] = stream[d].total[o + 1]
    BY <1>7, <2>1, <2>2 DEF Flow
  <2>4. \A o : o \in DOMAIN chunks[d] \/ IsChunk(q[1], d, o) => o \in DOMAIN chunks'[d]
    BY <1>5, <2>1 DEF IsChunk
  <2> HIDE DEF q, f
  <2> QED BY <1>3, <1>4, <1>6, <1>7, <2>3, <2>4, FlowTail
<1>10. CASE ~(f.type = "chunk" /\ f.id = d)
  <2>1. chunks'[d] = chunks[d]
    <3>1. CASE f.id # d BY <1>2, <3>1, Listens
    <3>2. CASE f.id = d
      <4>1. d \notin Upload BY TransferAssumption
      <4>2. OnDownloadProgress(f) \/ OnError(f)
        BY <1>8, <1>10, <3>2, <4>1
      <4> QED BY <1>1, <3>2, <4>2 DEF OnDownloadProgress, OnError
    <3> QED BY <3>1, <3>2
  <2>2. \A o : ~IsChunk(q[1], d, o) BY <1>5, <1>10 DEF IsChunk
  <2>3. \A o \in DOMAIN chunks[d] : o \in 0..Produced(d)-1 /\ chunks[d][o] = stream[d].total[o + 1]
    BY <1>7 DEF Flow
  <2> HIDE DEF q, f
  <2>4. Flow(d, Tail(q), chunks[d], stream[d].total, Produced(d))
    BY <1>3, <1>6, <1>7, <2>2, <2>3, FlowTail
  <2> QED BY <1>4, <2>1, <2>4
<1> QED BY <1>9, <1>10

\* A download that nothing interferes with keeps all that was read of its file.
LEMMA StreamingStep ==
  ASSUME TransferTyped, TransferTyped', Requested, [TransferNext]_transferVars, NEW d \in Download,
         Streaming(d)
  PROVE Streaming(d)'
<1> SUFFICES ASSUME dl'[d] = "waiting", d \notin spoiled' PROVE Streams(d)' BY DEF Streaming
<1>1. d \notin spoiled /\ OneRequest(d) /\ Unopened(d) BY SpoiledStays DEF Requested
<1>2. /\ stream \in [Download -> Streamer] /\ stream[d] \in Streamer
      /\ dl \in [Download -> {"none", "waiting", "saved", "failed"}]
      /\ down \in [Conn -> Seq(DownFrame)] /\ down' \in [Conn -> Seq(DownFrame)]
      /\ DOMAIN chunks = Download
  BY DEF TransferTyped, DownloadTyped, ConnTyped
<1>3. stream[d].total \in Seq(FileCell) BY <1>2, StreamParts
<1>4. CASE dl[d] = "none"
  <2> DEFINE f == [type |-> "downloadReq", id |-> d]
  <2>1. StartDownload(d) BY <1>4, DownloadGoesOn
  <2>2. f \in UpFrame /\ f.id = d BY DEF UpFrame, RequestFrame
  <2>3. ClientSend(f) /\ UNCHANGED <<sock, down, file, chunks, stream>>
    BY <2>1 DEF StartDownload, connVars
  <2>4. stream[d].pc = "none" /\ ~Asked(d) BY <1>1, <1>4 DEF OneRequest
  <2>5. DOMAIN chunks[d] = {} /\ stream[d].off = 0
        /\ \A c \in Conn : \A i \in 1..Len(down[c]) : down[c][i].id # d
    BY <1>1, <2>4 DEF Unopened
  <2> HIDE DEF f
  <2>6. sock \in Conn /\ sock # 0 BY <2>2, <2>3, ClientSends DEF Conn
  <2>7. \A c \in Conn : \A i \in 1..Len(up'[c]) : IsRequest(up'[c][i], d) => c = sock
    BY <2>2, <2>3, <2>4, ClientSentFrames DEF Asked
  <2>8. Flow(d, down[sock], chunks[d], stream[d].total, 0) BY <1>2, <1>3, <2>5, <2>6, FlowEmpty
  <2>9. Produced(d)' = 0 BY <2>3, <2>4, <2>5 DEF Produced
  <2> QED BY <2>3, <2>4, <2>6, <2>7, <2>8, <2>9 DEF Streams
<1>5. CASE dl[d] = "waiting"
  <2>1. Streams(d) BY <1>1, <1>5 DEF Streaming
  <2>2. sock' = sock /\ sock \in Conn
    <3>1. ~SockClose BY <1>5 DEF SockClose, UnderWay
    <3>2. ~Reconnect BY <2>1 DEF Reconnect, Streams
    <3>3. sock \in 0..conns /\ conns \in 1..MaxConns /\ MaxConns \in Nat
      BY TransferAssumption DEF TransferTyped, ConnTyped, Conn
    <3> QED BY <2>1, <3>1, <3>2, <3>3, Changes DEF Streams, Conn
  <2>3. \A c \in Conn : \A i \in 1..Len(up'[c]) : IsRequest(up'[c][i], d) => c = sock
    <3> SUFFICES ASSUME NEW c \in Conn, NEW i \in 1..Len(up'[c]), IsRequest(up'[c][i], d) PROVE c = sock
      OBVIOUS
    <3>1. \/ \E j \in 1..Len(up[c]) : up'[c][i] = up[c][j]
          \/ c = sock
      BY UpFromWhom
    <3> QED BY <2>1, <3>1 DEF Streams
  <2>4. ASSUME NEW c \in Conn, DownloadReq(c), Head(up[c]).id = d
        PROVE c = sock /\ stream[d].pc = "none" /\ UNCHANGED <<down, chunks>>
              /\ stream'[d].pc = "open" /\ stream'[d].conn = c
              /\ stream'[d].off = stream[d].off /\ stream'[d].total = stream[d].total
    <3>1. Reads(c, "downloadReq") BY <2>4 DEF DownloadReq
    <3>2. IsRequest(up[c][1], d) /\ 1 \in 1..Len(up[c]) BY <2>4, <3>1, Reading DEF IsRequest
    <3>3. stream[d].pc = "none" /\ c = sock BY <1>1, <2>1, <3>2 DEF OneRequest, Asked, Streams
    <3>4. stream' = [stream EXCEPT ![d].pc = "open", ![d].conn = c] /\ UNCHANGED <<down, chunks>>
      BY <2>4 DEF DownloadReq, pageVars
    <3> QED BY <1>2, <3>3, <3>4 DEF Streamer
  <2>5. stream'[d].pc # "none" => stream'[d].conn = sock
    BY <2>1, <2>4, StreamMoves, DownloadGoesOn DEF Streams
  <2>6. ~TransferHubClose(sock) BY <1>5 DEF TransferHubClose, UnderWay
  <2>7. CASE Stream(d)
    <3>1. stream[d].pc \in {"read", "progress"} => file'[PathOf[d]] = file[PathOf[d]] BY FileStays
    <3>2. file' = file /\ chunks' = chunks
      BY <2>7 DEF Stream, StreamOpen, StreamRead, StreamProgress, StreamFails, pageVars
    <3> QED BY <1>1, <2>1, <2>2, <2>3, <2>5, <2>7, <3>2, StreamFlow DEF Streams
  <2>8. CASE ~Stream(d)
    <3>1. /\ Produced(d)' = Produced(d) /\ stream'[d].total = stream[d].total
          /\ stream'[d].pc \in {"read", "progress"} => stream[d].pc = stream'[d].pc
      <4>1. CASE stream'[d] = stream[d] BY <4>1 DEF Produced
      <4>2. ASSUME NEW c \in Conn, DownloadReq(c), Head(up[c]).id = d
            PROVE /\ Produced(d)' = Produced(d) /\ stream'[d].total = stream[d].total
                  /\ stream'[d].pc = "open"
        BY <2>4, <4>2 DEF Produced
      <4> QED BY <2>8, <4>1, <4>2, DownloadGoesOn
    <3>2. stream'[d].pc \in {"read", "progress"} => file'[PathOf[d]] = stream'[d].total
      BY <2>1, <3>1, FileStays DEF Streams
    <3>3. Flow(d, down'[sock], chunks'[d], stream[d].total, Produced(d))
      <4>1. CASE Writer(sock) BY <1>5, <2>1, <4>1, ListenFlow
      <4>2. CASE ~Writer(sock)
        <5>1. chunks'[d] = chunks[d]
          <6>1. CASE UNCHANGED chunks BY <6>1
          <6>2. ASSUME NEW c \in Conn, Writer(c) PROVE chunks'[d] = chunks[d]
            BY <4>2, <6>2 DEF Writer
          <6> QED BY <6>1, <6>2, Changes DEF StartDownload
        <5>2. \/ down'[sock] = down[sock]
              \/ \E f \in DownFrame : down'[sock] = Append(down[sock], f) /\ f.id # d
          BY <2>2, <2>6, <2>8, <4>2, DownGrows, TransferAssumption
        <5>3. Flow(d, down[sock], chunks[d], stream[d].total, Produced(d)) /\ down[sock] \in Seq(DownFrame)
          BY <1>2, <2>1, <2>2 DEF Streams
        <5>4. ASSUME NEW f \in DownFrame, f.id # d
              PROVE Flow(d, Append(down[sock], f), chunks[d], stream[d].total, Produced(d))
          BY <1>3, <5>3, <5>4, FlowOther
        <5> QED BY <5>1, <5>2, <5>3, <5>4
      <4> QED BY <4>1, <4>2
    <3> QED BY <2>1, <2>2, <2>3, <2>5, <3>1, <3>2, <3>3 DEF Streams
  <2> QED BY <2>7, <2>8
<1> QED BY <1>2, <1>4, <1>5, DownloadGoesOn

\* A download is saved with the content of its file.
LEMMA SavedStep ==
  ASSUME TransferTyped, TransferTyped', Requested, [TransferNext]_transferVars, NEW d \in Download,
         Streaming(d), Saved(d)
  PROVE Saved(d)'
<1>1. OneRequest(d) /\ Unopened(d) BY DEF Requested
<1>2. /\ stream \in [Download -> Streamer] /\ stream[d] \in Streamer
      /\ dl \in [Download -> {"none", "waiting", "saved", "failed"}]
      /\ down \in [Conn -> Seq(DownFrame)]
      /\ DOMAIN chunks = Download /\ DOMAIN saved = Download
      /\ toast \in [Upload -> {"none", "uploading", "done"}]
  BY DEF TransferTyped, UploadTyped, DownloadTyped, ConnTyped
<1>3. stream[d].total \in Seq(FileCell) BY <1>2, StreamParts
<1>4. spoiled \subseteq spoiled' BY SpoiledStays
<1>5. CASE \E c \in Conn : Writer(c) /\ (saved'[d] # saved[d] \/ dl'[d] # dl[d])
  <2>1. PICK c \in Conn : Writer(c) /\ (saved'[d] # saved[d] \/ dl'[d] # dl[d]) BY <1>5
  <2> DEFINE f == Head(down[c])
  <2>2. f = down[c][1] /\ 1 \in 1..Len(down[c]) /\ down[c] \in Seq(DownFrame) /\ down[c] # <<>>
    BY <1>2, <2>1 DEF Writer
  <2>3. f.id = d BY <2>1, Listens
  <2>4. /\ sock = c /\ UNCHANGED <<spoiled, stream>>
        /\ \/ f.type = "chunk" /\ OnChunk(f)
           \/ f.type = "progress" /\ OnDownloadProgress(f)
           \/ f.type = "error" /\ OnError(f)
    BY <2>1, <2>3, TransferAssumption DEF Writer
  <2>5. stream[d].pc \notin {"none", "open"} BY <1>1, <2>2, <2>3 DEF Unopened
  <2>6. CASE OnChunk(f) BY <2>1, <2>6 DEF OnChunk
  <2>7. CASE OnError(f)
    BY <1>2, <2>1, <2>3, <2>4, <2>5, <2>7 DEF OnError, Saved
  <2>8. CASE f.type = "progress" /\ OnDownloadProgress(f)
    <3>1. /\ dl[d] = "waiting" /\ f.sent >= f.total
          /\ saved' = [saved EXCEPT ![d] = Assemble(chunks[d])] /\ dl' = [dl EXCEPT ![d] = "saved"]
      BY <2>1, <2>3, <2>8 DEF OnDownloadProgress
    <3>2. ASSUME d \notin spoiled' PROVE saved'[d] = stream[d].total
      <4>1. Flow(d, down[c], chunks[d], stream[d].total, Produced(d))
        BY <2>4, <3>1, <3>2 DEF Streaming, Streams
      <4>2. /\ DOMAIN chunks[d] = 0..Len(stream[d].total)-1
            /\ \A o \in DOMAIN chunks[d] : chunks[d][o] = stream[d].total[o + 1]
        <5> HIDE DEF f
        <5>1. down[c][1].type = "progress" /\ down[c][1].id = d /\ down[c][1].sent >= down[c][1].total
          BY <2>2, <2>3, <2>8, <3>1
        <5> DEFINE q == down[c]
                   got == chunks[d]
                   t == stream[d].total
                   p == Produced(d)
        <5>2. /\ q \in Seq(DownFrame) /\ q # <<>> /\ t \in Seq(FileCell) /\ Flow(d, q, got, t, p)
              /\ q[1].type = "progress" /\ q[1].id = d /\ q[1].sent >= q[1].total
          BY <1>3, <2>2, <4>1, <5>1
        <5> HIDE DEF q, got, t, p
        <5>3. DOMAIN got = 0..Len(t)-1 /\ \A o \in DOMAIN got : got[o] = t[o + 1]
          BY <5>2, FlowEnds
        <5> QED BY <5>3 DEF got, t
      <4>3. Assemble(chunks[d]) = stream[d].total BY <1>3, <4>2, Assembled
      <4> QED BY <1>2, <3>1, <4>3
    <3>3. dl'[d] = "saved" BY <1>2, <3>1
    <3> QED BY <2>4, <2>5, <3>2, <3>3 DEF Saved
  <2> QED BY <2>4, <2>6, <2>7, <2>8
<1>6. CASE ~ \E c \in Conn : Writer(c) /\ (saved'[d] # saved[d] \/ dl'[d] # dl[d])
  <2>1. saved'[d] = saved[d] /\ (dl'[d] = "saved" <=> dl[d] = "saved")
    <3>1. CASE UNCHANGED <<dl, saved>> BY <3>1
    <3>2. ASSUME NEW e \in Download, StartDownload(e)
          PROVE saved'[d] = saved[d] /\ (dl'[d] = "saved" <=> dl[d] = "saved")
      BY <1>2, <3>2 DEF StartDownload
    <3>3. ASSUME NEW c \in Conn, Writer(c)
          PROVE saved'[d] = saved[d] /\ (dl'[d] = "saved" <=> dl[d] = "saved")
      BY <1>6, <3>3
    <3> QED BY <3>1, <3>2, <3>3, Changes
  <2>2. stream[d].pc \notin {"none", "open"} =>
          stream'[d].pc \notin {"none", "open"} /\ stream'[d].total = stream[d].total
    <3> SUFFICES ASSUME stream[d].pc \notin {"none", "open"}
                 PROVE stream'[d].pc \notin {"none", "open"} /\ stream'[d].total = stream[d].total
      OBVIOUS
    <3>1. CASE stream'[d] = stream[d] BY <3>1
    <3>2. CASE Stream(d)
      <4>1. ~StreamOpen(d) BY DEF StreamOpen
      <4>2. stream'[d].total = stream[d].total
        BY <1>2, <3>2, <4>1 DEF Stream, StreamRead, StreamProgress, StreamFails, Streamer
      <4> QED BY <3>2, <4>2, StreamMoves
    <3>3. ASSUME NEW c \in Conn, DownloadReq(c), Head(up[c]).id = d PROVE FALSE
      <4>1. Reads(c, "downloadReq") BY <3>3 DEF DownloadReq
      <4>2. IsRequest(up[c][1], d) /\ 1 \in 1..Len(up[c]) BY <3>3, <4>1, Reading DEF IsRequest
      <4> QED BY <1>1, <4>2 DEF OneRequest, Asked
    <3> QED BY <3>1, <3>2, <3>3, DownloadGoesOn
  <2> QED BY <1>4, <2>1, <2>2 DEF Saved
<1> QED BY <1>5, <1>6

\* A frame that is not of this upload is sent.
LEMMA PendingOther ==
  ASSUME NEW u, NEW q \in Seq(UpFrame), NEW n \in Nat, NEW k \in Nat, Pending(u, q, n, k),
         NEW f \in UpFrame, ~IsUpload(f, u)
  PROVE Pending(u, Append(q, f), n, k)
<1> DEFINE r == Append(q, f)
<1>1. /\ Len(r) = Len(q) + 1 /\ Len(q) \in Nat /\ r[Len(q) + 1] = f
      /\ \A i \in 1..Len(q) : r[i] = q[i]
  OBVIOUS
<1> HIDE DEF r
<1>2. \A i \in 1..Len(r) : IsUpload(r[i], u) => i \in 1..Len(q) /\ r[i] = q[i] BY <1>1
<1>3. \A i \in 1..Len(q) : i \in 1..Len(r) /\ r[i] = q[i] BY <1>1
<1> QED BY <1>2, <1>3 DEF Pending, r

\* The next chunk of this upload is sent.
LEMMA PendingNext ==
  ASSUME NEW u, NEW q \in Seq(UpFrame), NEW n \in Nat, NEW k \in Nat, n <= k, Pending(u, q, n, k),
         NEW f \in UpFrame, IsUpload(f, u), f.off = k
  PROVE Pending(u, Append(q, f), n, k + 1)
<1> DEFINE r == Append(q, f)
<1>1. /\ Len(r) = Len(q) + 1 /\ Len(q) \in Nat /\ r[Len(q) + 1] = f
      /\ \A i \in 1..Len(q) : r[i] = q[i]
  OBVIOUS
<1> HIDE DEF r
<1>2. \A i \in 1..Len(r) : i = Len(q) + 1 \/ (i \in 1..Len(q) /\ r[i] = q[i]) BY <1>1
<1>3. \A i \in 1..Len(r) : IsUpload(r[i], u) => r[i].off \in n..(k + 1)-1 BY <1>1, <1>2 DEF Pending
<1>4. ASSUME NEW i \in 1..Len(r), NEW j \in 1..Len(r), i < j, IsUpload(r[i], u), IsUpload(r[j], u)
      PROVE r[i].off < r[j].off
  <2>1. i \in 1..Len(q) /\ r[i] = q[i] BY <1>1, <1>2, <1>4
  <2>2. r[i].off \in n..k-1 BY <1>4, <2>1 DEF Pending
  <2>3. CASE j = Len(q) + 1 BY <1>1, <2>2, <2>3
  <2>4. CASE j # Len(q) + 1
    <3>1. j \in 1..Len(q) /\ r[j] = q[j] BY <1>2, <2>4
    <3> QED BY <1>4, <2>1, <3>1 DEF Pending
  <2> QED BY <2>3, <2>4
<1>5. ASSUME NEW o \in n..(k + 1)-1 PROVE \E i \in 1..Len(r) : IsUpload(r[i], u) /\ r[i].off = o
  <2>1. CASE o = k
    <3>1. Len(q) + 1 \in 1..Len(r) BY <1>1
    <3> QED BY <1>1, <2>1, <3>1
  <2>2. CASE o # k
    <3>1. o \in n..k-1 BY <2>2
    <3>2. PICK i \in 1..Len(q) : IsUpload(q[i], u) /\ q[i].off = o BY <3>1 DEF Pending
    <3> QED BY <1>1, <3>2
  <2> QED BY <2>1, <2>2
<1> QED BY <1>3, <1>4, <1>5 DEF Pending, r

\* A frame that is not of this upload is read.
LEMMA PendingTail ==
  ASSUME NEW u, NEW q \in Seq(UpFrame), q # <<>>, NEW n \in Nat, NEW k \in Nat, Pending(u, q, n, k),
         ~IsUpload(q[1], u)
  PROVE Pending(u, Tail(q), n, k)
<1> DEFINE r == Tail(q)
<1>1. /\ Len(q) = Len(r) + 1 /\ Len(r) \in Nat
      /\ \A i \in 1..Len(r) : r[i] = q[i + 1]
  OBVIOUS
<1> HIDE DEF r
<1>2. \A i \in 1..Len(r) : i + 1 \in 1..Len(q) /\ r[i] = q[i + 1] BY <1>1
<1>3. \A i \in 1..Len(r) : IsUpload(r[i], u) => r[i].off \in n..k-1 BY <1>2 DEF Pending
<1>4. ASSUME NEW i \in 1..Len(r), NEW j \in 1..Len(r), i < j, IsUpload(r[i], u), IsUpload(r[j], u)
      PROVE r[i].off < r[j].off
  <2>1. i + 1 < j + 1 BY <1>4
  <2> QED BY <1>2, <1>4, <2>1 DEF Pending
<1>5. ASSUME NEW o \in n..k-1 PROVE \E i \in 1..Len(r) : IsUpload(r[i], u) /\ r[i].off = o
  <2>1. PICK i \in 1..Len(q) : IsUpload(q[i], u) /\ q[i].off = o BY DEF Pending
  <2>2. i - 1 \in 1..Len(r) /\ r[i - 1] = q[i] BY <1>1, <2>1
  <2> QED BY <2>1, <2>2
<1> QED BY <1>3, <1>4, <1>5 DEF Pending, r

\* The frame that is read is the next chunk.
LEMMA PendingHead ==
  ASSUME NEW u, NEW q \in Seq(UpFrame), q # <<>>, NEW n \in Nat, NEW k \in Nat, Pending(u, q, n, k),
         IsUpload(q[1], u)
  PROVE q[1].off = n /\ n < k /\ Pending(u, Tail(q), n + 1, k)
<1> DEFINE r == Tail(q)
<1>1. /\ Len(q) = Len(r) + 1 /\ Len(r) \in Nat
      /\ \A i \in 1..Len(r) : r[i] = q[i + 1]
  OBVIOUS
<1> HIDE DEF r
<1>2. \A i \in 1..Len(r) : i + 1 \in 1..Len(q) /\ r[i] = q[i + 1] BY <1>1
<1>3. 1 \in 1..Len(q) BY <1>1
<1>4. q[1].off \in n..k-1 BY <1>3 DEF Pending
<1>5. \A i \in 1..Len(q) : i # 1 /\ IsUpload(q[i], u) => q[1].off < q[i].off
  BY <1>1, <1>3 DEF Pending
<1>6. q[1].off = n /\ n < k
  <2>1. n \in n..k-1 BY <1>4
  <2>2. PICK i \in 1..Len(q) : IsUpload(q[i], u) /\ q[i].off = n BY <2>1 DEF Pending
  <2> QED BY <1>4, <1>5, <2>2
<1>7. ASSUME NEW i \in 1..Len(r), IsUpload(r[i], u) PROVE r[i].off \in (n + 1)..k-1
  <2>1. q[i + 1].off \in n..k-1 BY <1>2, <1>7 DEF Pending
  <2>2. i + 1 # 1 OBVIOUS
  <2> QED BY <1>2, <1>5, <1>6, <1>7, <2>1, <2>2
<1>8. ASSUME NEW i \in 1..Len(r), NEW j \in 1..Len(r), i < j, IsUpload(r[i], u), IsUpload(r[j], u)
      PROVE r[i].off < r[j].off
  <2>1. i + 1 < j + 1 BY <1>8
  <2> QED BY <1>2, <1>8, <2>1 DEF Pending
<1>9. ASSUME NEW o \in (n + 1)..k-1 PROVE \E i \in 1..Len(r) : IsUpload(r[i], u) /\ r[i].off = o
  <2>1. o \in n..k-1 /\ o # n OBVIOUS
  <2>2. PICK i \in 1..Len(q) : IsUpload(q[i], u) /\ q[i].off = o BY <2>1 DEF Pending
  <2>3. i - 1 \in 1..Len(r) /\ r[i - 1] = q[i] BY <1>1, <1>6, <2>1, <2>2
  <2> QED BY <2>2, <2>3
<1> QED BY <1>6, <1>7, <1>8, <1>9 DEF Pending, r

\* All chunks that were sent have been read.
LEMMA PendingNothing ==
  ASSUME NEW u, NEW q, NEW n \in Nat, Pending(u, q, n, n), NEW i \in 1..Len(q)
  PROVE ~IsUpload(q[i], u)
BY DEF Pending

\* writeFileChunk adds the next chunk to the file.
LEMMA WriteNext ==
  ASSUME NEW u \in Upload, NEW w \in Nat, w < Chunks(u)
  PROVE WriteAt(First(u, w), w, Data([type |-> "upload", id |-> u, off |-> w])) = First(u, w + 1)
<1> DEFINE s == First(u, w)
           data == Data([type |-> "upload", id |-> u, off |-> w])
<1>1. Size[u] \in Nat BY ChunksPositive
<1>2. CASE w < Size[u]
  <2>1. s = [i \in 1..w |-> <<u, i>>] BY <1>2 DEF First
  <2>2. data = << <<u, w + 1>> >> BY <1>2 DEF Data
  <2>3. First(u, w + 1) = [i \in 1..w + 1 |-> <<u, i>>]
    <3>1. (IF w + 1 < Size[u] THEN w + 1 ELSE Size[u]) = w + 1 BY <1>1, <1>2
    <3> QED BY <3>1 DEF First
  <2>4. Len(s) = w /\ Len(data) = 1 /\ data[1] = <<u, w + 1>> /\ \A i \in 1..w : s[i] = <<u, i>>
    BY <2>1, <2>2
  <2> HIDE DEF s, data
  <2>5. WriteAt(s, w, data) = [i \in 1..w + 1 |-> IF i > w /\ i <= w + 1 THEN data[i - w]
                                                ELSE IF i <= w THEN s[i] ELSE Hole]
    BY <2>4 DEF WriteAt
  <2>6. \A i \in 1..w + 1 : (IF i > w /\ i <= w + 1 THEN data[i - w] ELSE IF i <= w THEN s[i] ELSE Hole)
                              = <<u, i>>
    <3> SUFFICES ASSUME NEW i \in 1..w + 1
          PROVE (IF i > w /\ i <= w + 1 THEN data[i - w] ELSE IF i <= w THEN s[i] ELSE Hole) = <<u, i>>
      OBVIOUS
    <3>1. CASE i = w + 1
      <4>1. i - w = 1 /\ i > w BY <3>1
      <4> QED BY <2>4, <3>1, <4>1
    <3>2. CASE i # w + 1
      <4>1. i \in 1..w /\ ~(i > w) BY <3>2
      <4> QED BY <2>4, <4>1
    <3> QED BY <3>1, <3>2
  <2>7. WriteAt(s, w, data) = [i \in 1..w + 1 |-> <<u, i>>] BY <2>5, <2>6
  <2> QED BY <2>3, <2>7 DEF s, data
<1>3. CASE ~(w < Size[u])
  <2>1. w = 0 /\ Size[u] = 0 BY <1>1, <1>3 DEF Chunks
  <2>2. data = <<>> BY <2>1 DEF Data
  <2>3. First(u, 0) = <<>> /\ First(u, 1) = <<>> BY <2>1 DEF First
  <2>4. s = <<>> BY <2>1, <2>3
  <2>5. WriteAt(<<>>, 0, <<>>) = <<>> BY DEF WriteAt
  <2> QED BY <2>1, <2>2, <2>3, <2>4, <2>5
<1> QED BY <1>2, <1>3

\* All chunks are the whole content.
LEMMA FirstAll == ASSUME NEW u \in Upload PROVE First(u, Chunks(u)) = Content(u)
BY ChunksPositive DEF First, Chunks, Content

\* No chunks are an empty file.
LEMMA FirstNone == ASSUME NEW u \in Upload PROVE First(u, 0) = <<>>
<1>1. (IF 0 < Size[u] THEN 0 ELSE Size[u]) = 0 BY ChunksPositive
<1> QED BY <1>1 DEF First

\* A file that is being uploaded is there.
LEMMA FirstThere == ASSUME NEW u \in Upload, NEW w \in Nat PROVE First(u, w) # Absent
<1> DEFINE n == IF w < Size[u] THEN w ELSE Size[u]
<1>1. n \in Nat BY ChunksPositive
<1>2. \A i \in 1..n : <<u, i>> \in FileCell BY DEF FileCell
<1>3. First(u, w) = [i \in 1..n |-> <<u, i>>] BY DEF First
<1> HIDE DEF n
<1>4. First(u, w) \in Seq(FileCell) BY <1>1, <1>2, <1>3
<1> QED BY <1>4, TransferAssumption

\* What is on its way for an upload comes from the loop of the page.
LEMMA CalmStays ==
  ASSUME TransferTyped, TransferTyped', [TransferNext]_transferVars, NEW u \in Upload, NEW c \in Conn,
         Calm(c, u), ~(SendChunk(u) /\ c = sock)
  PROVE Calm(c, u)'
<1>1. handler \in [Conn -> UploadFrame \cup {<<>>}] BY DEF TransferTyped, ConnTyped
<1>2. ~InHand(c, u)'
  <2>1. CASE handler'[c] = handler[c] BY <2>1 DEF Calm, InHand
  <2>2. ASSUME NEW b \in Conn, UploadOpen(b) PROVE ~InHand(c, u)'
    <3>1. Reads(b, "upload") /\ handler' = [handler EXCEPT ![b] = Head(up[b])] BY <2>2 DEF UploadOpen
    <3>2. Head(up[b]) = up[b][1] /\ up[b][1].type = "upload" /\ 1 \in 1..Len(up[b]) BY <3>1, Reading
    <3>3. b = c => Head(up[b]).id # u BY <3>2 DEF Calm, IsUpload
    <3> QED BY <1>1, <2>1, <3>1, <3>3 DEF InHand
  <2>3. ASSUME NEW b \in Conn, UploadWrite(b) \/ UploadWriteFails(b) PROVE ~InHand(c, u)'
    <3>1. handler' = [handler EXCEPT ![b] = <<>>] BY <2>3 DEF UploadWrite, UploadWriteFails
    <3> QED BY <1>1, <2>1, <3>1 DEF InHand
  <2> QED BY <2>1, <2>2, <2>3, Changes
<1>3. ASSUME NEW i \in 1..Len(up'[c]) PROVE ~IsUpload(up'[c][i], u)
  <2>1. ASSUME NEW v \in Upload, SendChunk(v), c = sock,
               up'[c][i] = [type |-> "upload", id |-> v, off |-> sent[v]]
        PROVE ~IsUpload(up'[c][i], u)
    <3>1. v # u BY <2>1
    <3> QED BY <2>1, <3>1 DEF IsUpload
  <2>2. ASSUME NEW d \in Download, up'[c][i] = [type |-> "downloadReq", id |-> d]
        PROVE ~IsUpload(up'[c][i], u)
    BY <2>2 DEF IsUpload
  <2> QED BY <2>1, <2>2, UpFromWhom DEF Calm
<1> QED BY <1>2, <1>3 DEF Calm

\* What becomes of an upload, for the page.
LEMMA UploadGoesOn ==
  ASSUME TransferTyped, [TransferNext]_transferVars, NEW u \in Upload
  PROVE /\ toast'[u] = "none" => toast[u] = "none"
        /\ toast[u] = "none" => toast'[u] \in {"none", "uploading"}
        /\ toast'[u] = "uploading" /\ toast[u] # "uploading" => toast[u] = "none"
        /\ ~SendChunk(u) => sent'[u] = sent[u]
        /\ SendChunk(u) => toast[u] # "none" /\ sent'[u] = sent[u] + 1 /\ sent[u] < Chunks(u)
        /\ Alone(u)' => Alone(u)
<1>1. toast \in [Upload -> {"none", "uploading", "done"}] /\ sent \in [Upload -> Nat]
  BY DEF TransferTyped, UploadTyped
<1>2. ASSUME NEW v \in Upload
      PROVE \/ toast'[v] = toast[v]
            \/ toast[v] = "none" /\ toast'[v] = "uploading"
            \/ toast[v] = "uploading" /\ toast'[v] = "done"
  <2>1. ASSUME NEW x \in Upload, StartUpload(x) PROVE toast'[v] = toast[v] \/ (toast[v] = "none" /\ toast'[v] = "uploading")
    BY <1>1, <2>1 DEF StartUpload
  <2>2. ASSUME NEW c \in Conn, Writer(c) PROVE toast'[v] = toast[v] \/ (toast[v] = "uploading" /\ toast'[v] = "done")
    BY <1>1, <2>2 DEF Writer, OnChunk, OnDownloadProgress, OnUploadProgress, OnError
  <2> QED BY <2>1, <2>2, Changes
<1>3. toast[u] \in {"none", "uploading", "done"} BY <1>1
<1>4. ASSUME NEW v \in Upload, SendChunk(v), v # u PROVE sent'[u] = sent[u] BY <1>1, <1>4 DEF SendChunk
<1>5. ~SendChunk(u) => sent'[u] = sent[u] BY <1>4, Changes
<1>6. SendChunk(u) => toast[u] # "none" /\ sent'[u] = sent[u] + 1 /\ sent[u] < Chunks(u)
  BY <1>1 DEF SendChunk
<1>7. Alone(u)' => Alone(u) BY <1>2 DEF Alone
<1> QED BY <1>2, <1>3, <1>5, <1>6, <1>7

\* Nothing of an upload is anywhere before its first chunk is sent.
LEMMA UnsentStep ==
  ASSUME TransferTyped, TransferTyped', [TransferNext]_transferVars, NEW u \in Upload, Unsent(u)
  PROVE Unsent(u)'
<1>1. sent[u] \in Nat BY DEF TransferTyped, UploadTyped
<1>2. toast'[u] = "none" => sent'[u] = 0 BY UploadGoesOn DEF Unsent
<1>3. ASSUME sent'[u] = 0 PROVE Quiet(u)' /\ \A c \in Conn : \A i \in 1..Len(down'[c]) : down'[c][i].id # u
  <2>1. ~SendChunk(u) /\ sent[u] = 0 BY <1>1, <1>3, UploadGoesOn
  <2>2. Quiet(u) /\ \A c \in Conn : \A i \in 1..Len(down[c]) : down[c][i].id # u BY <2>1 DEF Unsent
  <2>3. Quiet(u)' BY <2>1, <2>2, CalmStays DEF Quiet
  <2>4. ASSUME NEW b \in Conn, NEW i \in 1..Len(down'[b]) PROVE down'[b][i].id # u
    <3>1. \A d \in Download : d # u BY TransferAssumption
    <3>2. \A c \in Conn : UploadWrite(c) => handler[c].id # u BY <2>2 DEF Quiet, Calm, InHand, UploadWrite
    <3> QED BY <2>2, <3>1, <3>2, FromWhom
  <2> QED BY <2>3, <2>4
<1> QED BY <1>2, <1>3 DEF Unsent

\* Nobody else writes to the file of an upload that is alone.
LEMMA FileAlone ==
  ASSUME TransferTyped, [TransferNext]_transferVars, NEW u \in Upload, \A v \in Upload : Unsent(v),
         Alone(u), u \notin spoiled',
         \A c \in Conn : UploadOpen(c) => Head(up[c]).id # u,
         \A c \in Conn : UploadWrite(c) => handler[c].id # u
  PROVE file'[PathOf[u]] = file[PathOf[u]]
<1>1. file \in [Path -> Seq(FileCell) \cup {Absent}] BY DEF TransferTyped, UploadTyped
<1>2. ASSUME NEW v \in Upload, v # u, NEW c \in Conn, ~Calm(c, v) PROVE PathOf[v] # PathOf[u]
  <2>1. sent[v] # 0 /\ toast[v] # "none" BY <1>2 DEF Unsent, Quiet
  <2> QED BY <1>2, <2>1 DEF Alone
<1>3. ASSUME NEW c \in Conn, UploadOpen(c) PROVE file'[PathOf[u]] = file[PathOf[u]]
  <2> DEFINE v == Head(up[c]).id
  <2>1. Reads(c, "upload") BY <1>3 DEF UploadOpen
  <2>2. IsUpload(up[c][1], v) /\ 1 \in 1..Len(up[c]) /\ v \in Upload
    BY <2>1, Reading DEF IsUpload, UpFrame, UploadFrame, RequestFrame
  <2>3. ~Calm(c, v) /\ v # u BY <1>3, <2>2 DEF Calm
  <2>4. file' = [file EXCEPT ![PathOf[v]] = OpenFile(@, Head(up[c]).off)] BY <1>3 DEF UploadOpen
  <2> HIDE DEF v
  <2>5. PathOf[v] # PathOf[u] BY <1>2, <2>2, <2>3
  <2> QED BY <1>1, <2>4, <2>5
<1>4. ASSUME NEW c \in Conn, UploadWrite(c) \/ UploadWriteFails(c) PROVE file'[PathOf[u]] = file[PathOf[u]]
  <2> DEFINE v == handler[c].id
  <2>1. handler[c] # <<>> BY <1>4 DEF UploadWrite, UploadWriteFails
  <2>2. v \in Upload BY <2>1 DEF TransferTyped, ConnTyped, UploadFrame
  <2>3. ~Calm(c, v) BY <2>1 DEF Calm, InHand
  <2>4. v # u BY <1>4 DEF UploadWriteFails
  <2>5. \E s : file' = [file EXCEPT ![PathOf[v]] = s]
    <3>1. CASE UploadWrite(c) BY <3>1 DEF UploadWrite
    <3>2. CASE UploadWriteFails(c) BY <3>2 DEF UploadWriteFails
    <3> QED BY <1>4, <3>1, <3>2
  <2> HIDE DEF v
  <2>6. PathOf[v] # PathOf[u] BY <1>2, <2>2, <2>3, <2>4
  <2> QED BY <1>1, <2>5, <2>6
<1> QED BY <1>3, <1>4, Changes

\* What happens to the queue of the page's connection.
LEMMA UpGoes ==
  ASSUME TransferTyped, [TransferNext]_transferVars, NEW c \in Conn, ~TransferHubClose(c)
  PROVE \/ up'[c] = up[c]
        \/ \E u \in Upload : /\ SendChunk(u) /\ c = sock
                             /\ up'[c] = Append(up[c], [type |-> "upload", id |-> u, off |-> sent[u]])
        \/ \E d \in Download : up'[c] = Append(up[c], [type |-> "downloadReq", id |-> d])
        \/ /\ up[c] # <<>> /\ up'[c] = Tail(up[c])
           /\ up[c][1].type = "upload" => /\ UploadOpen(c) \/ up[c][1].id \in spoiled'
                                          /\ Head(up[c]) = up[c][1]
<1>1. up \in [Conn -> Seq(UpFrame)] /\ up[c] \in Seq(UpFrame) BY DEF TransferTyped, ConnTyped
<1>2. ASSUME NEW f \in UpFrame, ClientSend(f)
      PROVE up'[c] = up[c] \/ (c = sock /\ up'[c] = Append(up[c], f))
  BY <1>1, <1>2 DEF ClientSend
<1>3. ASSUME NEW u \in Upload, SendChunk(u)
      PROVE up'[c] = up[c] \/ (c = sock /\ up'[c] = Append(up[c], [type |-> "upload", id |-> u, off |-> sent[u]]))
  <2> DEFINE f == [type |-> "upload", id |-> u, off |-> sent[u]]
  <2>1. f \in UpFrame BY DEF UpFrame, UploadFrame, TransferTyped, UploadTyped
  <2>2. ClientSend(f) BY <1>3 DEF SendChunk
  <2> HIDE DEF f
  <2>3. up'[c] = up[c] \/ (c = sock /\ up'[c] = Append(up[c], f)) BY <2>1, <2>2, <1>2
  <2> QED BY <2>3 DEF f
<1>4. ASSUME NEW d \in Download, StartDownload(d)
      PROVE up'[c] = up[c] \/ up'[c] = Append(up[c], [type |-> "downloadReq", id |-> d])
  <2> DEFINE f == [type |-> "downloadReq", id |-> d]
  <2>1. f \in UpFrame BY DEF UpFrame, RequestFrame
  <2>2. ClientSend(f) BY <1>4 DEF StartDownload
  <2> HIDE DEF f
  <2>3. up'[c] = up[c] \/ up'[c] = Append(up[c], f) BY <2>1, <2>2, <1>2
  <2> QED BY <2>3 DEF f
<1>5. ASSUME NEW b \in Conn, NEW k, Reads(b, k)
      PROVE \/ up'[c] = up[c]
            \/ b = c /\ up[c] # <<>> /\ up'[c] = Tail(up[c]) /\ up[c][1].type = k /\ Head(up[c]) = up[c][1]
  BY <1>1, <1>5, Reading DEF Reads
<1>6. ASSUME NEW b \in Conn, UploadOpen(b) \/ UploadOpenFails(b) \/ DownloadReq(b)
      PROVE \/ up'[c] = up[c]
            \/ /\ up[c] # <<>> /\ up'[c] = Tail(up[c])
               /\ up[c][1].type = "upload" => /\ UploadOpen(c) \/ up[c][1].id \in spoiled'
                                              /\ Head(up[c]) = up[c][1]
  <2>1. CASE UploadOpen(b) BY <1>5, <2>1 DEF UploadOpen
  <2>2. CASE UploadOpenFails(b)
    <3>1. Reads(b, "upload") /\ Head(up[b]).id \in spoiled' BY <2>2 DEF UploadOpenFails
    <3> QED BY <1>5, <3>1
  <2>3. CASE DownloadReq(b)
    <3>1. Reads(b, "downloadReq") BY <2>3 DEF DownloadReq
    <3> QED BY <1>5, <3>1
  <2> QED BY <1>6, <2>1, <2>2, <2>3
<1>7. ASSUME NEW b \in Conn, TransferHubClose(b) PROVE up'[c] = up[c] BY <1>1, <1>7 DEF TransferHubClose
<1>8. \/ up' = up \/ (\E u \in Upload : SendChunk(u)) \/ (\E d \in Download : StartDownload(d))
      \/ \E b \in Conn : UploadOpen(b) \/ UploadOpenFails(b) \/ DownloadReq(b) \/ TransferHubClose(b)
  BY DEF TransferNext, transferVars, StartUpload, Stream, StreamOpen, StreamRead, StreamProgress, StreamFails,
         Reader, UploadWrite, UploadWriteFails, Writer, SockClose, Reconnect
<1> QED BY <1>3, <1>4, <1>6, <1>7, <1>8

\* The first chunk of an upload.
LEMMA UploadStarts ==
  ASSUME TransferTyped, TransferTyped', [TransferNext]_transferVars, NEW u \in Upload, Unsent(u),
         sent[u] = 0, sent'[u] > 0, u \notin spoiled'
  PROVE Uploads(u)'
<1> DEFINE f == [type |-> "upload", id |-> u, off |-> sent[u]]
<1>1. SendChunk(u) /\ sent'[u] = 1 BY UploadGoesOn
<1>2. ClientSend(f) /\ UNCHANGED <<sock, down, handler>> BY <1>1 DEF SendChunk, connVars
<1>3. f \in UpFrame /\ f.id = u /\ f.off = 0 /\ IsUpload(f, u)
  BY DEF UpFrame, UploadFrame, TransferTyped, UploadTyped, IsUpload
<1>4. Quiet(u) /\ \A c \in Conn : \A i \in 1..Len(down[c]) : down[c][i].id # u BY DEF Unsent
<1> HIDE DEF f
<1>5. /\ sock \in Conn
      /\ Len(up'[sock]) = Len(up[sock]) + 1 /\ Len(up[sock]) \in Nat
      /\ up'[sock][Len(up[sock]) + 1] = f
      /\ \A i \in 1..Len(up[sock]) : up'[sock][i] = up[sock][i]
  BY <1>2, <1>3, ClientSends
<1>6. \A c \in Conn \ {sock} : Calm(c, u)' BY <1>4, CalmStays DEF Quiet
<1>7. Pending(u, up'[sock], 0, 1)
  <2>1. \A i \in 1..Len(up'[sock]) : IsUpload(up'[sock][i], u) => i = Len(up[sock]) + 1
    BY <1>4, <1>5 DEF Quiet, Calm
  <2>2. Len(up[sock]) + 1 \in 1..Len(up'[sock]) BY <1>5
  <2>3. \A o \in 0..1-1 : o = 0 OBVIOUS
  <2> QED BY <1>3, <1>5, <2>1, <2>2, <2>3 DEF Pending
<1>8. ~InHand(sock, u)' BY <1>2, <1>4, <1>5 DEF Quiet, Calm, InHand
<1>9. Opened(u, 0)' = 0 BY <1>2, <1>8 DEF Opened
<1>10. Written(u, 0)' BY <1>1, <1>2, <1>4, <1>7, <1>8, <1>9 DEF Written
<1>11. sock' # 0 BY <1>2, <1>5 DEF Conn
<1> QED BY <1>2, <1>6, <1>10, <1>11 DEF Uploads

\* The server opens the file for the next chunk.
LEMMA UploadTaken ==
  ASSUME TransferTyped, [TransferNext]_transferVars, NEW u \in Upload, NEW w \in Nat, Written(u, w),
         sock \in Conn, UploadOpen(sock), Head(up[sock]).id = u
  PROVE Written(u, w)'
<1> DEFINE f == Head(up[sock])
<1>1. Reads(sock, "upload") BY DEF UploadOpen
<1>2. up[sock] \in Seq(UpFrame) /\ up[sock] # <<>> /\ up'[sock] = Tail(up[sock])
  BY <1>1 DEF Reads, TransferTyped, ConnTyped
<1>3. f = up[sock][1] /\ IsUpload(up[sock][1], u) /\ ~InHand(sock, u) BY <1>1, Reading DEF IsUpload, InHand
<1>4. f \in UploadFrame BY <1>2, <1>3 DEF IsUpload, UpFrame, UploadFrame, RequestFrame
<1>5. sent[u] \in Nat BY DEF TransferTyped, UploadTyped
<1>6. Opened(u, w) = w /\ Pending(u, up[sock], w, sent[u]) BY <1>3 DEF Opened, Written
<1>7. f.off = w /\ w < sent[u] /\ Pending(u, up'[sock], w + 1, sent[u])
  BY <1>2, <1>3, <1>5, <1>6, PendingHead
<1>8. /\ handler' = [handler EXCEPT ![sock] = f]
      /\ file' = [file EXCEPT ![PathOf[f.id]] = OpenFile(@, f.off)]
      /\ UNCHANGED <<sock, sent, down>>
  BY DEF UploadOpen, connVars, pageVars
<1>9. handler'[sock] = f BY <1>8 DEF TransferTyped, ConnTyped
<1>10. PathOf[u] \in Path /\ file'[PathOf[u]] = OpenFile(file[PathOf[u]], w)
  BY <1>7, <1>8, TransferAssumption DEF TransferTyped, UploadTyped
<1>11. file'[PathOf[u]] = First(u, w)
  <2>1. CASE w = 0 BY <1>10, <2>1, FirstNone DEF OpenFile
  <2>2. CASE w # 0
    <3>1. file[PathOf[u]] = First(u, w) BY <1>6, <2>2 DEF Written
    <3> QED BY <1>10, <2>2, <3>1, FirstThere DEF OpenFile
  <2> QED BY <2>1, <2>2
<1>12. InHand(sock, u)' BY <1>4, <1>8, <1>9, FrameThere DEF InHand
<1>13. Opened(u, w)' = w + 1 BY <1>12 DEF Opened
<1>14. Pending(u, up'[sock'], w + 1, sent'[u]) BY <1>7, <1>8
<1>15. handler'[sock'].off = w /\ w + 1 <= sent'[u] BY <1>5, <1>7, <1>8, <1>9
<1> HIDE DEF f
<1>16. \A c \in Conn : \A i \in 1..Len(down'[c]) : down'[c][i].id = u => down'[c][i].sent <= w
  BY <1>8 DEF Written
<1> QED BY <1>11, <1>13, <1>14, <1>15, <1>16 DEF Written

\* The server writes the chunk and reports it.
LEMMA UploadAdvances ==
  ASSUME TransferTyped, [TransferNext]_transferVars, NEW u \in Upload, NEW w \in Nat, Written(u, w),
         sock \in Conn, UploadWrite(sock), handler[sock].id = u
  PROVE Written(u, w + 1)'
<1> DEFINE f == handler[sock]
<1>1. f \in UploadFrame /\ f # <<>> BY DEF UploadWrite, TransferTyped, ConnTyped
<1>2. InHand(sock, u) /\ f.off = w BY <1>1 DEF InHand, Written
<1>3. Opened(u, w) = w + 1 BY <1>2 DEF Opened
<1>4. /\ w + 1 <= sent[u] /\ file[PathOf[u]] = First(u, w) /\ Pending(u, up[sock], w + 1, sent[u])
  BY <1>3 DEF Written
<1>5. sent[u] \in Nat /\ sent[u] <= Chunks(u) /\ Chunks(u) \in Nat
  BY ChunksPositive DEF TransferTyped, UploadTyped
<1>6. f = [type |-> "upload", id |-> u, off |-> w] BY <1>1, <1>2 DEF UploadFrame
<1>7. /\ file' = [file EXCEPT ![PathOf[f.id]] = WriteAt(@, f.off, Data(f))]
      /\ handler' = [handler EXCEPT ![sock] = <<>>]
      /\ UNCHANGED <<sock, sent, up>>
  BY DEF UploadWrite, connVars, pageVars
<1>8. file'[PathOf[u]] = First(u, w + 1)
  <2>1. PathOf[u] \in Path BY TransferAssumption
  <2>2. file'[PathOf[u]] = WriteAt(First(u, w), w, Data(f))
    BY <1>2, <1>4, <1>7, <2>1 DEF TransferTyped, UploadTyped
  <2>3. w < Chunks(u) BY <1>4, <1>5
  <2> QED BY <1>6, <2>2, <2>3, WriteNext
<1>9. ~InHand(sock, u)' /\ Opened(u, w + 1)' = w + 1
  BY <1>7 DEF InHand, Opened, TransferTyped, ConnTyped
<1>10. Len(Data(f)) \in 0 .. 1 BY <1>1, DataTyped
<1>11. PICK g \in DownFrame :
         /\ g = [type |-> "progress", id |-> f.id, sent |-> f.off + Len(Data(f)), total |-> Size[f.id]]
         /\ Send(sock, g, Touched(PathOf[f.id]))
  BY WriteSends
<1>12. g.sent <= w + 1
  <2> DEFINE n == Len(Data(f))
  <2>1. n \in 0 .. 1 /\ g.sent = f.off + n BY <1>10, <1>11
  <2> HIDE DEF n, f
  <2> QED BY <1>2, <2>1 DEF f
<1>13. \A c \in Conn : \A i \in 1..Len(down'[c]) : down'[c][i].id = u => down'[c][i].sent <= w + 1
  <2> SUFFICES ASSUME NEW c \in Conn, NEW i \in 1..Len(down'[c]), down'[c][i].id = u
               PROVE down'[c][i].sent <= w + 1
    OBVIOUS
  <2>1. \/ i \in 1..Len(down[c]) /\ down'[c][i] = down[c][i]
        \/ down'[c][i] = g
    BY <1>11, SentFrames
  <2>2. CASE i \in 1..Len(down[c]) /\ down'[c][i] = down[c][i]
    <3>1. down[c][i].sent <= w BY <2>2 DEF Written
    <3>2. down[c][i] \in DownFrame BY <2>2 DEF TransferTyped, ConnTyped
    <3>3. down[c][i].sent \in Nat
      <4>1. down[c][i].id \notin Download BY <2>2, TransferAssumption
      <4> QED BY <3>2, <4>1 DEF DownFrame, ProgressFrame, ChunkFrame, ErrorFrame
    <3> QED BY <2>2, <3>1, <3>3
  <2>3. CASE down'[c][i] = g BY <1>12, <2>3
  <2> QED BY <2>1, <2>2, <2>3
<1>14. Pending(u, up'[sock'], w + 1, sent'[u]) /\ w + 1 <= sent'[u] BY <1>4, <1>7
<1> QED BY <1>8, <1>9, <1>13, <1>14 DEF Written

\* A step that is not about u leaves what the server has of it alone.
LEMMA UploadWaits ==
  ASSUME TransferTyped, TransferTyped', [TransferNext]_transferVars, NEW u \in Upload,
         \A v \in Upload : Unsent(v), Alone(u), u \notin spoiled', Uploads(u), sent[u] > 0,
         NEW w \in Nat, Written(u, w), sock \in Conn, sock' = sock, ~TransferHubClose(sock),
         UploadOpen(sock) => Head(up[sock]).id # u, UploadWrite(sock) => handler[sock].id # u
  PROVE Written(u, w)'
<1>1. sent[u] \in Nat /\ sent'[u] \in Nat BY DEF TransferTyped, UploadTyped
<1>2. handler \in [Conn -> UploadFrame \cup {<<>>}] BY DEF TransferTyped, ConnTyped
<1>3. up[sock] \in Seq(UpFrame) /\ down \in [Conn -> Seq(DownFrame)] BY DEF TransferTyped, ConnTyped
<1>4. ASSUME NEW c \in Conn PROVE /\ UploadOpen(c) => Head(up[c]).id # u
                                  /\ UploadWrite(c) => handler[c].id # u
  <2>1. CASE c = sock BY <2>1
  <2>2. CASE c # sock
    <3>1. Calm(c, u) BY <2>2 DEF Uploads
    <3>2. UploadWrite(c) => handler[c].id # u BY <3>1 DEF Calm, InHand, UploadWrite
    <3>3. UploadOpen(c) => Head(up[c]).id # u
      <4>1. SUFFICES ASSUME UploadOpen(c) PROVE Head(up[c]).id # u OBVIOUS
      <4>2. Reads(c, "upload") BY <4>1 DEF UploadOpen
      <4>3. Head(up[c]) = up[c][1] /\ up[c][1].type = "upload" /\ 1 \in 1..Len(up[c]) BY <4>2, Reading
      <4> QED BY <3>1, <4>3 DEF Calm, IsUpload
    <3> QED BY <3>2, <3>3
  <2> QED BY <2>1, <2>2
<1>5. file'[PathOf[u]] = file[PathOf[u]] BY <1>4, FileAlone
<1>6. /\ InHand(sock, u)' <=> InHand(sock, u)
      /\ InHand(sock, u) => handler'[sock] = handler[sock]
  <2>1. CASE handler'[sock] = handler[sock] BY <2>1 DEF InHand
  <2>2. ASSUME NEW c \in Conn, UploadOpen(c)
        PROVE handler'[sock] = handler[sock] \/ (~InHand(sock, u)' /\ ~InHand(sock, u))
    <3>1. handler' = [handler EXCEPT ![c] = Head(up[c])] /\ Reads(c, "upload") BY <2>2 DEF UploadOpen
    <3>2. CASE c = sock
      <4>1. Head(up[sock]).id # u BY <2>2, <3>2
      <4>2. handler[sock] = <<>> BY <3>1, <3>2 DEF Reads
      <4> QED BY <1>2, <3>1, <3>2, <4>1, <4>2 DEF InHand
    <3>3. CASE c # sock BY <1>2, <3>1, <3>3
    <3> QED BY <3>2, <3>3
  <2>3. ASSUME NEW c \in Conn, UploadWrite(c) \/ UploadWriteFails(c)
        PROVE handler'[sock] = handler[sock] \/ (~InHand(sock, u)' /\ ~InHand(sock, u))
    <3>1. handler' = [handler EXCEPT ![c] = <<>>] BY <2>3 DEF UploadWrite, UploadWriteFails
    <3>2. CASE c = sock
      <4>1. handler[sock].id # u BY <2>3, <3>2 DEF UploadWriteFails
      <4> QED BY <1>2, <3>1, <3>2, <4>1 DEF InHand
    <3>3. CASE c # sock BY <1>2, <3>1, <3>3
    <3> QED BY <3>2, <3>3
  <2> QED BY <2>1, <2>2, <2>3, Changes DEF InHand
<1>7. Opened(u, w)' = Opened(u, w) /\ Opened(u, w) \in Nat BY <1>6 DEF Opened
<1>8. Opened(u, w) <= sent[u] /\ Pending(u, up[sock], Opened(u, w), sent[u]) BY DEF Written
<1>9. Opened(u, w) <= sent'[u] /\ Pending(u, up'[sock], Opened(u, w), sent'[u])
  <2> DEFINE n == Opened(u, w) q == up[sock] k == sent[u]
  <2>1. n \in Nat /\ k \in Nat /\ n <= k /\ Pending(u, q, n, k) /\ q \in Seq(UpFrame)
    BY <1>1, <1>3, <1>7, <1>8
  <2>2. CASE SendChunk(u)
    <3> DEFINE f == [type |-> "upload", id |-> u, off |-> k]
    <3>1. f \in UpFrame /\ IsUpload(f, u) /\ f.off = k /\ f.id = u
      BY <2>1 DEF UpFrame, UploadFrame, IsUpload
    <3>2. ClientSend(f) BY <2>2 DEF SendChunk
    <3> HIDE DEF f
    <3>3. up' = [up EXCEPT ![sock] = Append(@, f)] BY <3>1, <3>2 DEF ClientSend
    <3>4. up'[sock] = Append(q, f) BY <3>3 DEF TransferTyped, ConnTyped
    <3>5. sent'[u] = k + 1 BY <2>2, UploadGoesOn
    <3> HIDE DEF n, q, k
    <3>6. Pending(u, Append(q, f), n, k + 1) BY <2>1, <3>1, PendingNext
    <3>7. n <= k + 1 BY <2>1
    <3> QED BY <3>4, <3>5, <3>6, <3>7 DEF n
  <2>3. CASE ~SendChunk(u)
    <3>1. sent'[u] = k BY <2>3, UploadGoesOn
    <3>2. ASSUME NEW f \in UpFrame, up'[sock] = Append(q, f), ~IsUpload(f, u)
          PROVE Pending(u, up'[sock], n, k)
      <4> HIDE DEF n, q, k
      <4> QED BY <2>1, <3>2, PendingOther
    <3>3. ASSUME NEW v \in Upload, SendChunk(v),
                 up'[sock] = Append(q, [type |-> "upload", id |-> v, off |-> sent[v]])
          PROVE Pending(u, up'[sock], n, k)
      <4> DEFINE f == [type |-> "upload", id |-> v, off |-> sent[v]]
      <4>1. f \in UpFrame BY DEF UpFrame, UploadFrame, TransferTyped, UploadTyped
      <4>2. v # u BY <2>3, <3>3
      <4>3. ~IsUpload(f, u) BY <4>2 DEF IsUpload
      <4> HIDE DEF f
      <4>4. up'[sock] = Append(q, f) BY <3>3 DEF f
      <4> QED BY <3>2, <4>1, <4>3, <4>4
    <3>4. ASSUME NEW d \in Download, up'[sock] = Append(q, [type |-> "downloadReq", id |-> d])
          PROVE Pending(u, up'[sock], n, k)
      <4> DEFINE f == [type |-> "downloadReq", id |-> d]
      <4>1. f \in UpFrame /\ ~IsUpload(f, u) BY DEF UpFrame, RequestFrame, IsUpload
      <4> HIDE DEF f
      <4>2. up'[sock] = Append(q, f) BY <3>4 DEF f
      <4> QED BY <3>2, <4>1, <4>2
    <3>5. ASSUME q # <<>>, up'[sock] = Tail(q),
                 q[1].type = "upload" => /\ UploadOpen(sock) \/ q[1].id \in spoiled'
                                         /\ Head(q) = q[1]
          PROVE Pending(u, up'[sock], n, k)
      <4>1. ~IsUpload(q[1], u) BY <3>5 DEF IsUpload
      <4> HIDE DEF n, q, k
      <4> QED BY <2>1, <3>5, <4>1, PendingTail
    <3>6. Pending(u, up'[sock], n, k) BY <2>1, <3>3, <3>4, <3>5, UpGoes
    <3> QED BY <2>1, <3>1, <3>6
  <2> QED BY <2>2, <2>3
<1>10. \A c \in Conn : \A i \in 1..Len(down'[c]) : down'[c][i].id = u => down'[c][i].sent <= w
  <2>1. \A d \in Download : d # u BY TransferAssumption
  <2>2. \A c \in Conn : UploadWrite(c) => handler[c].id # u BY <1>4
  <2> QED BY <2>1, <2>2, FromWhom DEF Written
<1>11. Pending(u, up'[sock'], Opened(u, w)', sent'[u]) /\ Opened(u, w)' <= sent'[u] BY <1>7, <1>9
<1>12. InHand(sock, u)' => handler'[sock'].off = w BY <1>6 DEF Written
<1>13. Opened(u, w)' > 0 => file'[PathOf[u]] = First(u, w) BY <1>5, <1>7 DEF Written
<1> QED BY <1>10, <1>11, <1>12, <1>13 DEF Written

\* Every step keeps what holds of an upload that is under way.
LEMMA UploadingStep ==
  ASSUME TransferTyped, TransferTyped', [TransferNext]_transferVars, NEW u \in Upload,
         \A v \in Upload : Unsent(v), Uploading(u)
  PROVE Uploading(u)'
<1> SUFFICES ASSUME toast'[u] = "uploading", sent'[u] > 0, u \notin spoiled', Alone(u)' PROVE Uploads(u)'
  BY DEF Uploading
<1>1. sent[u] \in Nat /\ sent'[u] \in Nat BY DEF TransferTyped, UploadTyped
<1>2. CASE sent[u] = 0 BY <1>2, UploadStarts
<1>3. CASE sent[u] # 0
  <2>1. toast[u] = "uploading" /\ Alone(u) BY <1>3, UploadGoesOn DEF Unsent
  <2>2. u \notin spoiled /\ sent[u] > 0 BY <1>1, <1>3, SpoiledStays
  <2>3. Uploads(u) BY <2>1, <2>2 DEF Uploading
  <2>4. sock' = sock /\ sock \in Conn /\ ~TransferHubClose(sock)
    <3>1. ~SockClose BY <2>1, <2>2 DEF SockClose, UnderWay
    <3>2. ~Reconnect BY <2>3 DEF Reconnect, Uploads
    <3>3. sock \in 0..conns /\ conns \in 1..MaxConns /\ MaxConns \in Nat
      BY TransferAssumption DEF TransferTyped, ConnTyped, Conn
    <3>4. ~TransferHubClose(sock) BY <2>1, <2>2 DEF TransferHubClose, UnderWay
    <3> QED BY <2>3, <3>1, <3>2, <3>3, <3>4, Changes DEF Uploads, Conn
  <2>5. \A c \in Conn \ {sock} : Calm(c, u)' BY <2>3, CalmStays DEF Uploads
  <2>6. PICK w \in Nat : Written(u, w) BY <2>3 DEF Uploads
  <2>7. \E x \in Nat : Written(u, x)'
    <3>1. CASE UploadOpen(sock) /\ Head(up[sock]).id = u BY <2>4, <2>6, <3>1, UploadTaken
    <3>2. CASE UploadWrite(sock) /\ handler[sock].id = u
      <4>1. Written(u, w + 1)' BY <2>4, <2>6, <3>2, UploadAdvances
      <4> QED BY <4>1
    <3>3. CASE /\ UploadOpen(sock) => Head(up[sock]).id # u
               /\ UploadWrite(sock) => handler[sock].id # u
      BY <2>1, <2>2, <2>3, <2>4, <2>6, <3>3, UploadWaits
    <3> QED BY <3>1, <3>2, <3>3
  <2> QED BY <2>3, <2>4, <2>5, <2>7 DEF Uploads
<1> QED BY <1>2, <1>3

\* An upload is reported as done when its file has all its chunks, and stays there.
LEMMA UploadedStep ==
  ASSUME TransferTyped, TransferTyped', [TransferNext]_transferVars, NEW u \in Upload,
         \A v \in Upload : Unsent(v), Uploading(u), Uploaded(u)
  PROVE Uploaded(u)'
<1> SUFFICES ASSUME toast'[u] = "done", u \notin spoiled', Alone(u)'
             PROVE Quiet(u)' /\ sent'[u] = Chunks(u) /\ file'[PathOf[u]] = Content(u)
  BY DEF Uploaded
<1>1. sent[u] \in Nat /\ sent[u] <= Chunks(u) /\ Chunks(u) \in Nat \ {0}
  BY ChunksPositive DEF TransferTyped, UploadTyped
<1>2. u \notin spoiled /\ Alone(u) BY SpoiledStays, UploadGoesOn
<1>3. CASE toast[u] = "done"
  <2>1. Quiet(u) /\ sent[u] = Chunks(u) /\ file[PathOf[u]] = Content(u) BY <1>2, <1>3 DEF Uploaded
  <2>2. ~SendChunk(u) BY <1>1, <2>1 DEF SendChunk
  <2>3. Quiet(u)' BY <2>1, <2>2, CalmStays DEF Quiet
  <2>4. sent'[u] = sent[u] BY <2>2, UploadGoesOn
  <2>5. ASSUME NEW c \in Conn
        PROVE (UploadOpen(c) => Head(up[c]).id # u) /\ (UploadWrite(c) => handler[c].id # u)
    <3>1. Calm(c, u) BY <2>1 DEF Quiet
    <3>2. UploadWrite(c) => handler[c].id # u BY <3>1 DEF Calm, InHand, UploadWrite
    <3>3. UploadOpen(c) => Head(up[c]).id # u
      <4>1. SUFFICES ASSUME UploadOpen(c) PROVE Head(up[c]).id # u OBVIOUS
      <4>2. Reads(c, "upload") BY <4>1 DEF UploadOpen
      <4>3. Head(up[c]) = up[c][1] /\ up[c][1].type = "upload" /\ 1 \in 1..Len(up[c]) BY <4>2, Reading
      <4> QED BY <3>1, <4>3 DEF Calm, IsUpload
    <3> QED BY <3>2, <3>3
  <2>6. file'[PathOf[u]] = file[PathOf[u]] BY <1>2, <2>5, FileAlone
  <2> QED BY <2>1, <2>3, <2>4, <2>6
<1>4. CASE toast[u] # "done"
  <2>1. PICK c \in Conn : Writer(c)
    <3>1. ~UNCHANGED toast BY <1>4
    <3>2. \A v \in Upload : StartUpload(v) => toast'[u] # "done"
      BY <1>4 DEF StartUpload, TransferTyped, UploadTyped
    <3> QED BY <3>1, <3>2, Changes
  <2> DEFINE f == Head(down[c])
  <2>2. f = down[c][1] /\ 1 \in 1..Len(down[c]) /\ f.id = u
    <3>1. f.id = u BY <1>4, <2>1, Listens
    <3> QED BY <2>1, <3>1 DEF Writer, TransferTyped, ConnTyped
  <2>3. toast[u] = "uploading" /\ f.sent >= Chunks(u)
    <3>1. toast \in [Upload -> {"none", "uploading", "done"}] BY DEF TransferTyped, UploadTyped
    <3> QED BY <1>4, <2>1, <2>2, <3>1 DEF Writer, OnChunk, OnDownloadProgress, OnUploadProgress, OnError
  <2>4. sent[u] > 0 BY <1>1, <2>2 DEF Unsent
  <2>5. Uploads(u) BY <1>2, <2>3, <2>4 DEF Uploading
  <2>6. PICK w \in Nat : Written(u, w) BY <2>5 DEF Uploads
  <2>7. f.sent \in Nat /\ f.sent <= w
    <3>1. f \in DownFrame BY <2>2 DEF TransferTyped, ConnTyped
    <3>2. u \notin Download BY TransferAssumption
    <3>3. f.sent \in Nat BY <2>2, <3>1, <3>2 DEF DownFrame, ProgressFrame, ChunkFrame, ErrorFrame
    <3> QED BY <2>2, <2>6, <3>3 DEF Written
  <2>8. ~InHand(sock, u) /\ Opened(u, w) = w /\ w = sent[u] /\ w = Chunks(u)
    <3>1. Opened(u, w) <= sent[u] /\ Opened(u, w) = IF InHand(sock, u) THEN w + 1 ELSE w
      BY <2>6 DEF Written, Opened
    <3> HIDE DEF f
    <3> QED BY <1>1, <2>3, <2>7, <3>1
  <2>9. Pending(u, up[sock], w, w) /\ file[PathOf[u]] = First(u, w) BY <1>1, <2>6, <2>8 DEF Written
  <2>10. Calm(sock, u) BY <2>8, <2>9, PendingNothing DEF Calm
  <2>11. Quiet(u) BY <2>5, <2>10 DEF Quiet, Uploads
  <2>12. UNCHANGED <<up, handler, file, sent>> BY <2>1 DEF Writer
  <2>13. Quiet(u)' BY <2>11, <2>12 DEF Quiet, Calm, InHand
  <2> QED BY <2>8, <2>9, <2>12, <2>13, FirstAll
<1> QED BY <1>3, <1>4

\* No transfer has begun at the start.
LEMMA TransfersInit ==
  ASSUME TransferInit
  PROVE /\ \A d \in Download : Streaming(d) /\ Saved(d)
        /\ \A u \in Upload : Unsent(u) /\ Uploading(u) /\ Uploaded(u)
BY DEF TransferInit, Streaming, Saved, Unsent, Uploading, Uploaded, Quiet, Calm, InHand

\* The inductive invariant: what a transfer has on its way, and where, is what its
\* file, its goroutine and the page have not got of it yet.
TransfersInvariant ==
  /\ TransferTyped /\ Requested
  /\ \A d \in Download : Streaming(d) /\ Saved(d)
  /\ \A u \in Upload : Unsent(u) /\ Uploading(u) /\ Uploaded(u)

\* writeFileChunk and uploadSingleFile, streamFileDownload and the listener: an upload
\* that is reported as done has put exactly its data into its file, and a download is
\* saved with what the file held when it was opened, for any number of transfers,
\* connections, chunks and frames in the queues, unless one of the failures that
\* `spoiled' records has interfered.
THEOREM TransfersStayExact == TransferSpec => []TransfersExact
<1>1. TransferInit => TransfersInvariant
  BY TypedInit, RequestInit, TransfersInit DEF TransfersInvariant
<1>2. TransfersInvariant /\ [TransferNext]_transferVars => TransfersInvariant'
  <2> SUFFICES ASSUME TransfersInvariant, [TransferNext]_transferVars PROVE TransfersInvariant' OBVIOUS
  <2>1. TransferTyped /\ TransferTyped' BY TypedStep DEF TransfersInvariant
  <2>2. Requested' BY <2>1, RequestedStep DEF TransfersInvariant
  <2>3. ASSUME NEW d \in Download PROVE (Streaming(d) /\ Saved(d))'
    BY <2>1, StreamingStep, SavedStep DEF TransfersInvariant
  <2>4. ASSUME NEW u \in Upload PROVE (Unsent(u) /\ Uploading(u) /\ Uploaded(u))'
    BY <2>1, UnsentStep, UploadingStep, UploadedStep DEF TransfersInvariant
  <2> QED BY <2>1, <2>2, <2>3, <2>4 DEF TransfersInvariant
<1>3. TransfersInvariant => TransfersExact
  <2> SUFFICES ASSUME TransfersInvariant PROVE TransfersExact OBVIOUS
  <2>1. TransferTypeOK
    <3>1. ConnTyped /\ UploadTyped /\ DownloadTyped BY DEF TransfersInvariant, TransferTyped
    <3>2. ASSUME NEW u \in Upload PROVE sent[u] \in 0..Chunks(u) /\ toast[u] \in {"none", "uploading", "done"}
      BY <3>1, ChunksPositive DEF UploadTyped
    <3>3. ASSUME NEW d \in Download
          PROVE /\ stream[d].pc \in {"none", "open", "read", "progress", "ended"}
                /\ stream[d].pc # "none" => stream[d].conn \in 1..conns
                /\ dl[d] \in {"none", "waiting", "saved", "failed"}
      BY <3>1, StreamParts DEF DownloadTyped
    <3> QED BY <3>1, <3>2, <3>3 DEF ConnTyped, DownloadTyped, TransferTypeOK
  <2>2. UploadExact BY DEF TransfersInvariant, Uploaded, Alone, UploadExact
  <2>3. IntactDownload BY DEF TransfersInvariant, Saved, IntactDownload
  <2> QED BY <2>1, <2>2, <2>3 DEF TransfersExact
<1> QED BY <1>1, <1>2, <1>3, PTL DEF TransferSpec
=============================================================================
