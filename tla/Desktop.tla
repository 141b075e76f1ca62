------------------------------- MODULE Desktop -------------------------------
(***************************************************************************)
(* The terminals of a desktop page (session.svelte.ts, routes/desktop,     *)
(* Terminal.svelte) and of the server (server.go), which are to agree      *)
(* although the page is reloaded and its connection breaks and comes back. *)
(*                                                                         *)
(* The page keeps tabs by channel number; a tab's terminal asks the server *)
(* to open its channel when it is ready and whenever a socket opens.  The  *)
(* server greets every connection with the channels it has.                *)
(***************************************************************************)
EXTENDS Integers, FiniteSets, SequencesExt

CONSTANTS MaxChan,    \* bound: channel numbers
          MaxConns,   \* bound: connections
          MaxLoads,   \* bound: loads of the page
          MaxCloses,  \* bound: tabs closed by the user
          NoChannel

Chan == 1..MaxChan
Conn == 1..MaxConns

ASSUME DesktopAssumption ==
  /\ MaxChan \in Nat /\ MaxConns \in Nat /\ MaxLoads \in Nat \ {0}
  /\ MaxCloses \in Nat /\ NoChannel \notin Chan

VARIABLES
  loads,    \* loads of the page so far
  closes,   \* tabs closed so far
  tabs,     \* session.ptyChannels
  activeChannel,  \* session.activeChannel
  nextID,   \* session._nextID
  timer,    \* the timer of onMount, 500 ms after the page is mounted, runs
  ready,    \* tabs whose terminal has been created (termRef is set)
  opened,   \* session.connectCount > 0
  sock,     \* the page's open socket, 0 if there is none
  conns,    \* connections so far
  srv,      \* per connection: "new", "greet" (before the session sync), "run", "closed"
  frames,   \* per connection: control frames sent and not yet handled
  sync,     \* session sync on its way to the page's socket, <<>> if there is none
  ptys,     \* us.ptys: the channels that have a session
  failed,   \* history: channels whose latest OpenPTY could not start a shell
  overlap   \* history: a frame of a connection was handled after a newer one opened

bounds == <<loads, closes>>
pageVars == <<tabs, activeChannel, nextID, timer, ready, opened>>
connVars == <<sock, conns, srv, frames, sync>>
serverVars == <<ptys, failed, overlap>>
tabsVars == <<bounds, pageVars, connVars, serverVars>>

Tabs == {tabs[i] : i \in DOMAIN tabs}
InAnyOrder(S) == Bijection(1..Cardinality(S), S)
Frame == [type : {"open", "close"}, chan : Chan]

TabsTypeOK ==
  /\ loads \in 1..MaxLoads /\ closes \in 0..MaxCloses
  /\ conns \in 0..MaxConns /\ sock \in {0, conns}
  /\ tabs \in Seq(Chan) /\ IsInjective(tabs)
  /\ activeChannel \in Chan \cup {NoChannel} /\ nextID \in 1..MaxChan + 1
  /\ timer \in BOOLEAN /\ opened \in BOOLEAN /\ ready \subseteq Tabs
  /\ srv \in [Conn -> {"new", "greet", "run", "closed"}]
  /\ frames \in [Conn -> Seq(Frame)] /\ sync \in Seq(SUBSET Chan)
  /\ ptys \subseteq Chan /\ failed \subseteq Chan /\ overlap \in BOOLEAN

\* A page as it is loaded: a new store, and onMount up to its timer.
FreshPage ==
  /\ tabs' = <<>> /\ activeChannel' = NoChannel /\ nextID' = 1
  /\ timer' = TRUE /\ ready' = {} /\ opened' = FALSE

TabsInit ==
  /\ loads = 1 /\ closes = 0
  /\ tabs = <<>> /\ activeChannel = NoChannel /\ nextID = 1
  /\ timer = TRUE /\ ready = {} /\ opened = FALSE
  /\ sock = 0 /\ conns = 0 /\ srv = [k \in Conn |-> "new"]
  /\ frames = [k \in Conn |-> <<>>] /\ sync = <<>>
  /\ ptys = {} /\ failed = {} /\ overlap = FALSE

\* WSClient.send: without an open socket the frame is dropped.
ClientSend(type, c) ==
  frames' = IF sock # 0 /\ srv[sock] # "closed"
              THEN [frames EXCEPT ![sock] = Append(@, [type |-> type, chan |-> c])]
              ELSE frames
-----------------------------------------------------------------------------
(* The store *)

AddPTYChannel(c) == tabs' = IF c \in Tabs THEN tabs ELSE Append(tabs, c)

\* For a channel that has a tab, and it has only one.
RemovePTYChannel(c) ==
  /\ \E i \in DOMAIN tabs : tabs[i] = c /\ tabs' = RemoveAt(tabs, i)
  /\ activeChannel' = IF activeChannel # c THEN activeChannel
                      ELSE IF tabs' = <<>> THEN NoChannel ELSE Head(tabs')

\* openNewTerminal.
NewTerminal ==
  /\ nextID \in Chan
  /\ nextID' = nextID + 1
  /\ AddPTYChannel(nextID)
  /\ activeChannel' = nextID
-----------------------------------------------------------------------------
(* Events of the page *)

\* A reload, or a logout and a login: the page is replaced, its socket goes.
Load ==
  /\ loads < MaxLoads
  /\ loads' = loads + 1
  /\ FreshPage
  /\ sock' = 0 /\ sync' = <<>>
  /\ UNCHANGED <<closes, conns, srv, frames, serverVars>>

\* The timer of onMount.
FirstTerminal ==
  /\ timer /\ timer' = FALSE
  /\ IF tabs = <<>> THEN NewTerminal ELSE UNCHANGED <<tabs, activeChannel, nextID>>
  /\ UNCHANGED <<bounds, ready, opened, connVars, serverVars>>

OpenNewTerminal ==
  /\ NewTerminal
  /\ UNCHANGED <<bounds, timer, ready, opened, connVars, serverVars>>

SelectChannel(c) ==
  /\ c \in Tabs /\ activeChannel # c
  /\ activeChannel' = c
  /\ UNCHANGED <<bounds, tabs, nextID, timer, ready, opened, connVars, serverVars>>

\* closeTerminal.  The tab goes also when the frame is dropped.
CloseTerminal(c) ==
  /\ c \in Tabs /\ closes < MaxCloses
  /\ closes' = closes + 1
  /\ ClientSend("close", c)
  /\ RemovePTYChannel(c)
  /\ ready' = ready \ {c}
  /\ UNCHANGED <<loads, nextID, timer, opened, sock, conns, srv, sync, serverVars>>

\* Terminal.svelte: init has loaded xterm and set termRef, and the reconnect
\* effect runs.
TermReady(c) ==
  /\ c \in Tabs \ ready
  /\ ready' = ready \cup {c}
  /\ IF opened THEN ClientSend("open", c) ELSE UNCHANGED frames
  /\ UNCHANGED <<bounds, tabs, activeChannel, nextID, timer, opened, sock, conns, srv, sync, serverVars>>

\* A socket opens: connectCount grows, and the reconnect effect of every ready
\* terminal opens its channel.
SockOpen ==
  /\ sock = 0 /\ conns < MaxConns
  /\ sock' = conns + 1 /\ conns' = conns + 1
  /\ opened' = TRUE
  /\ srv' = [srv EXCEPT ![conns + 1] = "greet"]
  /\ \E order \in InAnyOrder(ready) :
       frames' = [frames EXCEPT ![conns + 1] =
                    [i \in DOMAIN order |-> [type |-> "open", chan |-> order[i]]]]
  /\ UNCHANGED <<bounds, tabs, activeChannel, nextID, timer, ready, sync, serverVars>>

SockClose ==
  /\ sock # 0
  /\ sock' = 0 /\ sync' = <<>>
  /\ UNCHANGED <<bounds, pageVars, conns, srv, frames, serverVars>>

\* Seeded bug: the channels of the server are ignored while the page has tabs.
SyncFirstOnly ==
  /\ sync # <<>> /\ sync' = <<>>
  /\ \E order \in InAnyOrder(IF tabs = <<>> THEN Head(sync) ELSE {}) : tabs' = tabs \o order
  /\ activeChannel' = IF tabs' # <<>> /\ activeChannel = NoChannel THEN Head(tabs') ELSE activeChannel
  /\ UNCHANGED <<bounds, nextID, timer, ready, opened, sock, conns, srv, frames, serverVars>>

\* The listener 'session-sync': a tab for every channel of the server, in the
\* order of the frame, which is that of a Go map.
SessionSync ==
  /\ sync # <<>> /\ sync' = <<>>
  /\ \E order \in InAnyOrder(Head(sync) \ Tabs) : tabs' = tabs \o order
  /\ activeChannel' = IF tabs' # <<>> /\ activeChannel = NoChannel THEN Head(tabs') ELSE activeChannel
  /\ UNCHANGED <<bounds, nextID, timer, ready, opened, sock, conns, srv, frames, serverVars>>
-----------------------------------------------------------------------------
(* The server *)

\* handleWS before Run.
Greet(k) ==
  /\ srv[k] = "greet"
  /\ srv' = [srv EXCEPT ![k] = "run"]
  /\ sync' = IF k = sock THEN <<ptys>> ELSE sync
  /\ UNCHANGED <<bounds, pageVars, sock, conns, frames, serverVars>>

Handle(k, type) ==
  /\ srv[k] = "run" /\ frames[k] # <<>> /\ Head(frames[k]).type = type
  /\ frames' = [frames EXCEPT ![k] = Tail(@)]
  /\ overlap' = (overlap \/ k # conns)
  /\ UNCHANGED <<bounds, pageVars, sock, conns, srv, sync>>

\* Seeded bug: a session is only re-attached.
OpenExistingOnly(k) ==
  /\ Handle(k, "open")
  /\ UNCHANGED <<ptys, failed>>

\* handleOpenPTY: a new session, or the one that exists.
OpenPTY(k) ==
  /\ Handle(k, "open")
  /\ ptys' = ptys \cup {Head(frames[k]).chan}
  /\ failed' = failed \ {Head(frames[k]).chan}

\* ... or no shell can be started.
OpenPTYFails(k) ==
  /\ Handle(k, "open")
  /\ Head(frames[k]).chan \notin ptys
  /\ failed' = failed \cup {Head(frames[k]).chan}
  /\ UNCHANGED ptys

\* handleClosePTY.
ClosePTY(k) ==
  /\ Handle(k, "close")
  /\ ptys' = ptys \ {Head(frames[k]).chan}
  /\ UNCHANGED failed

\* Hub.Close: frames that have not been handled are lost; a session sync that has
\* been written may still arrive.
HubClose(k) ==
  /\ srv[k] \in {"greet", "run"}
  /\ srv' = [srv EXCEPT ![k] = "closed"]
  /\ frames' = [frames EXCEPT ![k] = <<>>]
  /\ UNCHANGED <<bounds, pageVars, sock, conns, sync, serverVars>>

Reader(k) == Greet(k) \/ OpenPTY(k) \/ OpenPTYFails(k) \/ ClosePTY(k)

TabsNext ==
  \/ Load \/ FirstTerminal \/ OpenNewTerminal \/ SockOpen \/ SockClose \/ SessionSync
  \/ \E c \in Chan : SelectChannel(c) \/ CloseTerminal(c) \/ TermReady(c)
  \/ \E k \in Conn : Reader(k) \/ HubClose(k)

TabsSpec == TabsInit /\ [][TabsNext]_tabsVars

\* The browser loads xterm, delivers frames and connects again; a socket whose
\* other end is closed closes; the server's goroutines go on.
Fairness ==
  /\ WF_tabsVars(SockOpen) /\ WF_tabsVars(SessionSync)
  /\ WF_tabsVars(sock # 0 /\ srv[sock] = "closed" /\ SockClose)
  /\ \A c \in Chan : WF_tabsVars(TermReady(c))
  /\ \A k \in Conn : WF_tabsVars(Reader(k))

FairSpec == TabsSpec /\ Fairness
-----------------------------------------------------------------------------
\* Nothing is under way: the page has had its session sync and loaded its
\* terminals, and all frames have been handled.
Settled ==
  /\ sock # 0 /\ srv[sock] = "run" /\ sync = <<>>
  /\ \A k \in Conn : frames[k] = <<>>
  /\ Tabs = ready

\* However closes, new terminals, lost frames, reconnects and reloads interleave,
\* when the page and the server have come to rest the tabs are exactly the
\* sessions of the server (save those whose shell could not be started), as long
\* as no frame of an old connection was handled after a newer one had opened.
TabsMatchSessions ==
  Settled /\ ~overlap => ptys \subseteq Tabs /\ Tabs \subseteq ptys \cup failed

\* The page shows a terminal whenever it has one.
ActiveIsTab == IF tabs = <<>> THEN activeChannel = NoChannel ELSE activeChannel \in Tabs

\* The tabs are right: one per channel, one of them active, one per session.
TabsRight == TabsTypeOK /\ ActiveIsTab /\ TabsMatchSessions

\* The bound on connections ends the behaviour, not the code.
CutOff == sock = 0 /\ conns = MaxConns

\* Every tab gets its session, at the latest over the next connection.
TabGetsSession ==
  \A c \in Chan : c \in Tabs ~> (c \in ptys \cup failed \/ c \notin Tabs \/ CutOff \/ overlap)

\* A session never stays hidden from the page: a tab shows it, or it is closed.
SessionGetsTab ==
  \A c \in Chan : c \in ptys ~> (c \in Tabs \/ c \notin ptys \/ CutOff \/ overlap)

\* The page and the server come to agree again after every loss and reload.
TabsAndSessionsMeet == TabGetsSession /\ SessionGetsTab
=============================================================================
