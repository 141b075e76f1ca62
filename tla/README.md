# webdesktopd in TLA+

webdesktopd serves a desktop in the browser: terminals, a file manager, port
proxies and system statistics, multiplexed over one WebSocket per page.
Terminals and proxies outlive the WebSocket; a page that comes back is
re-attached to them. This directory holds TLA+ models of the parts that are hard
to get right in that design, the TLC configurations that check them on small
instances, and TLAPS proofs of the results that matter most. `PROJECT.json` is
the machine-readable index: components, runs, the source lines behind every
definition, hazards, theorems.

To repeat the checks: `tlc -config MCHub.cfg MCHub` (one line per run in
`PROJECT.json`) and `tlapm M.tla` for each module `M` of proofs: `RingBufProofs`,
`PtySessionProofs`, `ServerProofs`, `UserSessionProofs`, `StatsCollectorProofs`,
`ConnectionProofs`, `DesktopStateProofs`, `PageProofs`.

## The system

| Component | Source | State | Operations | Talks to |
|---|---|---|---|---|
| Ring buffer | `internal/ringbuf` | bytes, head, tail, size | Write, Bytes, Reset | called by the PTY session |
| PTY session | `internal/pty` | shell, ptmx, ring, attached sender | reader goroutine, Attach, Detach, Resize, HandleFrame, Close | sends frames to a hub |
| Hub | `internal/hub` | handlers by channel, write queue, done | Run (read goroutine), writer, Send, Register, Unregister, Close | calls the handlers' HandleFrame and Close |
| User session, connections | `internal/server/server.go` | maps of PTY and proxy sessions per user | handleWS, control handler: OpenPTY, ClosePTY, OpenProxy, CloseProxy, files, port scan | hubs, sessions, collector |
| Port proxy session | `internal/server/proxy.go` | TCP connection, attached hub | readLoop, Attach, Detach, HandleFrame, Close | sends frames to a hub |
| Statistics collector | `internal/stats` | senders, reference count, last snapshot | Add, Remove, loop goroutine | sends frames to all hubs |
| File operations | `internal/server/fileops.go` | files, desktop state | list, rename, delete, copy, chunked download and upload, save and load state | sends frames to a hub |
| Frame codec | `internal/hub/frame.go`, `lib/protocol.ts` | none | encode, decode | both ends |
| HTTP reverse proxy | `internal/server/server.go` | the two connections of a relayed WebSocket | forward, rewrite headers, cookies and HTML, relay | applications on this host |
| Port scan | `internal/server/portscan.go` | none | list listening ports and their processes | `/proc` |
| Authentication | `internal/auth`, login page | signing secret, token of a page | SSH login, issue and validate a JWT | sshd |
| Main program, deployment | `main.go`, `cmd/deploy` | the secret and its file on the remote host | start, stop, find or generate the secret, ship | the server process |
| WebSocket client | `frontend/src/lib/client.ts` | socket, timers, flags | connect, disconnect, socket events, heartbeat, retry | the hub, the session store |
| Session store, desktop page | `session.svelte.ts`, `routes/desktop` | tabs, channel counter, wallpaper, names, pins | session sync, open and close a tab, delayed save | the client |
| File manager | `FileManager.svelte` | panels, listing, selection, clipboard, transfers | navigate, select, paste, rename, delete, upload, download | the client |

What is hard here: PTY readers, hub goroutines, the statistics loop and several
connections of the same user act concurrently on shared sessions; connections
fail at any moment and are replaced before the old one has been torn down; Send
drops frames when its queue is full; the browser's close handler awaits a request
while timers and calls go on; deployments and saves fail half-way; answers arrive
when the page shows something else already.

What makes each part correct: the ring returns the newest bytes in order; a
client sees a terminal's output without a hole or a repetition across replay and
live frames; a connection closes once and leaves no goroutine behind; every
session stays reachable until it is closed, and input and output of a channel
belong to the same session; every registered client is served by a loop; the
browser holds one live socket and gets back to the server; tokens survive a
redeploy; a proxied application works below its path as it does at the root; the
saved desktop is always one whole state; an operation on files is on the files
the user saw.

## Modules

| Module | Models | Notes |
|---|---|---|
| `BoundedLog` | what a ring buffer promises | a write is one step; `arg` and `out` are what callers pass and get |
| `RingBuf` | `ringbuf.go` | one step per byte of Write's loop; `pending` is what the loop has yet to copy, non-empty exactly while the mutex is held |
| `RingBufProofs` | | theorems about `RingBuf`, `FrameCodec` and `PortScan`, which are checked together as `MCRingBuf` |
| `PtySession` | `session.go`, with the hubs of one user as it sees them | output is a sequence of positions, a frame a range of them |
| `PtySessionProofs` | | theorems about `PtySession` |
| `Hub` | `hub.go` | the goroutines of one connection: run, read, writer, and callers of Send |
| `UserSession` | `server.go`, `proxy.go` | handleWS and the control handler of several connections, step by step between locks |
| `UserSessionProofs` | | theorems about `UserSession` and `FileTransfer` |
| `StatsCollector` | `collector.go` | reference count, loops, what a frame contains |
| `StatsCollectorProofs` | | theorems about `StatsCollector` |
| `WSClient` | `client.ts` | one action per event of the browser's event loop |
| `FileTransfer` | upload and download in `FileManager.svelte`, `server.go`, `fileops.go` | a chunk of 64 KB is one cell of a file |
| `Desktop` | `session.svelte.ts`, the desktop page, `Terminal.svelte`, and `server.go` as they see it | terminals of the page and of the server across reloads and reconnects |
| `FrameCodec` | `frame.go`, `protocol.ts`, `decodeFromBytes` in `hub.go` | operators; the base of a byte is a parameter |
| `PortScan` | `portscan.go` | the scan, and the sockets that change under it; tables and processes it cannot read |
| `Tokens` | `auth.go`, `main.go`, `cmd/deploy`, the handlers of `/auth`, `/validate`, `/ws` | the secret of the server, the tokens of pages, deployments step by step |
| `ServerProofs` | | theorems about `Hub` and `Tokens` |
| `HTTPProxy` | `handleHTTPProxy`, `proxyWebSocket` and what they call | rewriting as operators; one request from its arrival to its end |
| `PortProxy` | `proxy.go`, with the hubs of one user as it sees them | a chunk of what the target sends is a number |
| `DesktopState` | `saveState`, opening and closing of terminals and the session sync of the page, `saveDesktopState` and `loadDesktopState` | a part of the desktop is the number of the change it is from |
| `FileBrowser` | panels, listings and operations in `FileManager.svelte`, `handleFileList`, `handleFileOp`, `fileops.go` | a path is a directory and a name |
| `ConnectionProofs` | | theorems about `WSClient`, `PortProxy` and `HTTPProxy` |
| `DesktopStateProofs` | | theorems about `DesktopState` |
| `PageProofs` | | theorems about `FileBrowser` and `Desktop` |
| `MC...` | | instances for TLC |

`PtySession` sees a hub as a bounded queue and a life cycle; `Hub` models its
inside. `UserSession` takes from `Hub` that no control frame is dispatched once
the hub is closed (`NoControlAfterClose`), and models what the handlers do to the
sessions and who is attached, but not the bytes; `PtySession` models the bytes.

Definitions keep the names of the code where possible. Definitions introduced by
"Seeded bug" are not part of any specification: each is a mutated version of the
definition below it, with which the property named for it in `PROJECT.json` must
fail.

### RingBuf

`buf`, `head`, `tail`, `size` are the fields. `WriteBulk` is the path for a
payload of at least the capacity, `WriteLoop` enters the loop, `WriteByte` is one
iteration, `Bytes` and `Reset` the other methods. Every method takes `rb.mu`
(`MuFree`). `LogView` is the refinement mapping: the stored bytes in logical
order, with the pending ones appended and as many dropped from the front, so that
a write takes effect when the mutex is taken.

### PtySession

`ReaderTop`, `ReaderRead`, `ReaderFail`, `ReaderDeliver` are the reader
goroutine; the last one is its critical section under `senderMu`. `Attach` is one
step because it holds `senderMu` throughout. `CloseDone`, `CloseKill`,
`ClosePtmx`, `CloseWait` are the body of Close. `OpenPTY(h)` and `Attach(h)` are
separate steps: the hub may fail, and its `Teardown` run, in between. `Teardown`
detaches whatever hub is attached, as `detachHub` does. `recv` is what the client
has received, `upto` and `dropped` are history.

### Hub

`Setup` is the part of handleWS before Run; the writer runs already and may close
the hub before it. `CloseStart`, `CloseConn`, `CloseHandlers`, `CloseReturn` are
`closeOnce.Do`, with the second caller waiting. The read goroutine gets messages
from the network or from the read buffer of the connection, which still holds
messages after the connection is closed. The peer is up, silent or gone; timeouts
(ping, read deadline, write deadline) are the possibility that an operation on a
connection to a peer that is not up fails. `HandlerBlocks` is a handler that waits
for a shell or a target that does not read (session.go:196, proxy.go:102): it need
never return.

### UserSession

`main` is handleWS: `registerHandlers`, `registerProxyHandlers`, the session sync,
Run, `detachHub`, `detachProxies`, the last two with the snapshot taken under
`us.mu` and the loop after it. `pc` is the control handler with every release of
`us.mu` or `h.mu` as a step boundary: look up, start or dial, add, register,
attach; unregister, close, remove, close. The terminals' map and the proxies' map
are one function because their channels are assumed to be different; hazard
`session.svelte.ts:128` says when a browser breaks this assumption.

### StatsCollector

A snapshot is abstracted to whether it has been taken, a frame to whether it has
all fields. `Add`, `Remove`, and the parts of the loop's body between its locks are
the actions. `SendTo` may deliver a frame, drop it on a full queue, which the
collector is not told (hub.go:83), or fail; `lossy` is history: the hubs that have
dropped one. Loops that were cancelled while they were past their select, or that
nobody cancels, go on.

### WSClient

`timers` are the reconnect timers that run, `timerRef` the one the field
remembers; `validating` are close handlers that await `/validate`.

### FileTransfer

The page sends the chunks of an upload one by one (`SendChunk`), the read
goroutine opens (`UploadOpen`, which truncates for the first chunk) and writes
(`UploadWrite`) the file and reports the bytes; a download has a goroutine that
sends a chunk and a report in turn (`StreamRead`, `StreamProgress`) through the
hub's queue, and the page assembles what it has when the report reaches the total.
The page has one socket at a time, but the handler of an earlier connection may
still be busy. `spoiled` is history: the transfers a lost connection, a dropped
frame, a failed system call or a write to the file being read has interfered with.

### Desktop

`tabs`, `active` and `nextID` are the store's fields. A tab's terminal is `ready`
when xterm has been loaded; it opens its channel then, if a socket has ever been
open, and whenever one opens (`TermReady`, `SockOpen`: the reconnect effect). Frames
to the server wait in `frames`, also those of a connection that the page has left. The
server is its set of channels: `UserSession` shows what is behind it, and its steps
between locks. `Load` replaces the page; the server keeps its terminals and greets
the new page with them (`Greet`, `SessionSync`). `overlap` and `failed` are history.

### Tokens

A secret is a number, a token the secret it was signed with and the time it
expires. `dpc` and `dsec` are a run of `cmd/deploy`: `Kill`, `ReadSecret`,
`WriteSecret`, `Ship`, `Start`, each of which may fail in the way the tool lets it
fail: errors of pkill and of reading are ignored, the others end the run where it
is. `~` in the path of the secret's file is quoted and so the name of a directory,
but the same one for reading and writing. `page` is where a page is between login
and desktop. `spoiled` is history: the secret was misread or lost, deployments
overlapped, or a server was started without one.

### FrameCodec and PortScan

`Encode` and three decoders (`Decode` of `frame.go`, `decodeFromBytes`, which the
hub reads with and which refuses bytes behind the payload, and `decodeFrame` of the
page) are checked against each other (`ReplayFrameArrives`) on every frame that
carries what the ring returns, for all types and channels; a byte has two values
there, so that lengths and channels take more than one. `PortScan` has one step for
each of the tables, for each process, and for the result. A table that cannot be
opened and a process whose descriptors cannot be read are skipped: the daemon that
`architecture.md` describes has no right to read the processes of other users.
`kept`, `had`, `tabs` and `known` are history: what was true all through the scan, or
at any time during it, and what could be read.

### HTTPProxy

A path is the sequence of its parts, a page of HTML a sequence of tags, so that the
rewriting functions are short and can be compared with what a browser makes of
their result (`IsRest`, `PathMatch`, `DefaultPath`, `Meant`). A request has two ways
through the handler. `Outgoing` is that of `ReverseProxy`; on that of an upgrade
`RelayedCookies` puts the cookies together from `r.Cookies()`, which drops odd ones
and the quotes of values, and `Reparsed` is the second parsing of a path that has
been decoded already. A request has one Cookie header, as browsers send it.
`ModifyResponse` includes what is not rewritten because it cannot be parsed. The
handler is followed through all its early returns; after `Hijack` the two copies,
`closeBoth` and the peers are processes of their own, a peer may stop reading
(`PeerStalls`), and `brBuf` holds the bytes that the HTTP server had read ahead.

### PortProxy

`readLoop` is split where it releases `hubMu`: `ProxyLook` and `SendData`,
`LookForNotice` and `SendNotice`. Connections are opened (`ClientConnects` and
`OpenProxy` attach), fail and are torn down (`DetachProxies`, whoever is attached)
at any point in between. `lost` is history: chunks for which there was no
connection, or no room in its queue.

### DesktopState

A state of the desktop has for each part (wallpaper, pins, the name of each terminal)
the number of the change it is from, and the terminals it has names of. `SaveState`
is the timer's function; every change starts the timer anew (`Edit`), but opening
and closing a terminal changes names and pins without it (`NewTab`, `CloseTab`), and
`unsaved` is history: the parts of a page that were changed so. The session sync
brings wallpaper and pins, and names only to terminals of the page (`Shown`). Frames of
a connection wait in `up` and are handled in order, but connections independently
of one another; a save is three steps (`CreateTemp`, `WriteTemp`, `Rename`), each
of which may fail, and a `Crash` may come between them. `trouble` is history:
whatever may legitimately keep a change from the file.

### FileBrowser

The page asks for its first listing before it connects, so that this request is
always lost (`Init`); what it shows is right once the server has answered a later one
(`spoiled`). `shown` is the list of entries with (history) the directory it came from, `sel` the
selected names with the directory they were seen in: the code has only the names.
`FileOps` sends one frame per path and starts a timer for a new listing, which asks
for the directory that is current by then. `renaming` is a rename whose new name is
still being typed; `astray` is history: the page has gone to another directory
since. The server's side is `Effect` with what
rename, delete, mkdir, touch and copy do to the files, and `FileOpFails`, where a
copy may have emptied its target.

## Runs

| Run | Shows |
|---|---|
| `ringbuf` | `IndexInv`; `ImplementsLog`: refinement of `BoundedLog`. Capacity 3 with all payloads of 1 to 4 bits: shorter than, as long as and longer than the buffer, at every wrap-around. `ReplayFrameArrives` for what was read. `ScanRight` with two sockets, two processes and two ports, so that sockets share a port and processes a socket, and any tables and processes unreadable. |
| `pty` | `SenderCurrent`, `StreamContiguous`, `ReplayReachesBack`, `CloseEnds`, `OutputArrives` with two connections and two attachments, a queue of one frame, so that it overflows, and a ring of one byte, so that output falls off. |
| `hub` | `CloseIsFinal` (`LateSendFails`, `ReturnedMeansClosed`), `NoControlAfterClose`, `DeadConnectionEnds`, `QueueDrains` with a control handler and one session, whose handler may wait for ever, three messages of which two may be buffered, one sender, a queue of one. |
| `user` | `InputReachesSession`, `ClosedLeavesMap`, and for connections that do not overlap `AloneInOrder` (`NoOrphan`, `RoutedAlive`). Two connections, two control frames each, a terminal channel and a proxy channel with two objects each, so that a second object can replace or shadow the first. |
| `stats` | `LoopsMatchSenders` (`RefsCount`, `SendersServed`, `LoopOnlyWhileUsed`), `FullFrameFirst`, `FramesArrive` with two connections, hence up to two loops; any frame may meet a full queue. |
| `wsclient` | `OneWatchedSocket` (`OneSocket`, `HeartbeatRuns`, `ConnectedMeansOpen`), `SilentServerLeft`, `TriesAgain` with four sockets: a connection and three attempts to get it back. |
| `files` | `TransfersExact` (`UploadExact`, `IntactDownload`), `TransfersComplete` with an upload of two chunks and a download of the same path, which is absent, empty or two chunks long at the start; two connections, so that frames are under way on both; a queue of one frame, so that it overflows. |
| `desktop` | `TabsRight` (`TabsMatchSessions`, `ActiveIsTab`), `TabsAndSessionsMeet` with two channels, a reload, two connections and one tab closed by the user: a frame can be lost, a session sync be overtaken by a change of the tabs, and a closed tab come back. |
| `tokens` | `TokensSurvive`, `Settles` with two deployments and a page; three secrets, so that one can be replaced twice, and a token that expires within the run. |
| `ports` | HTTP: `TokenStays`, `AnswerMeant` (`CookieReach`, `RedirectLands`, `Embeddable`, `BaseFirst`), `RelayFaithful`, `RelayEnds` with paths of up to two parts, three ports of which one begins like another, up to two cookies of three forms, two policies and three tags, and what cannot be parsed; two bytes in each direction, between peers that may stop reading. TCP: `ChunksOnce`, `EndPassedOn` with two connections, two chunks and a queue of one. |
| `desktop_state` | `FileSound` (`FileWhole`, `QuietMeansSaved`), `FileForward`, `Persisted` with two pages, wallpaper, pins and one terminal, two connections, and two changes, openings or closings. |
| `file_browser` | `SelectionSeen`, `ViewTrue` (`QuietMeansTrue`), `DataKept` with two directories that hold files of the same name, two names, three panels and three things that the user does, on a page whose first request is lost. |

An invariant that stands for several (in brackets) also contains the module's
`TypeOK`, where it has one that is not proved. The systems may come to rest (all
connections gone), so deadlock is not checked, except in `ringbuf`, which never
rests. The models are symmetric in the identity of connections; the bounds leave
room for one connection to act between any two steps of another, which is what the
properties are about. Parts that share no state and have small models share a run
(`ringbuf`, `ports`): a behaviour of such a run is one of either.

## Fairness

A goroutine that can go on does so (weak fairness of its steps): the Go
scheduler guarantees it. A read on a dead connection fails by its deadline (60
s), and a ping once TCP has given up on the peer, so `ReadFail` is included, and
`WriterPing` for a peer that is gone. A handler returns unless it waits for a shell
or a target (`HandlerBlocks`): nothing brings it back then. In the browser, timers fire and a request is answered or
aborted (3 s). It also loads xterm, delivers frames, connects again, and closes
a socket whose other end is closed (`Desktop`). The statistics loop's select is
fair between its cases over time (strong fairness of `Cancelled`), and `/proc`
can be read in the end (`Collect`). Nothing is assumed of users, shells, peers
or the network: they may stop for ever.

In `Tokens` a page's socket opens or fails, and a server that stays up and is asked
again and again answers within the page's three seconds at some point (strong
fairness of `Connect` and `ValidateRejects`). In `HTTPProxy` and `PortProxy` a read
returns once there is something to return, a write once there is room for it: no
peer of a relay has to read, and its writes have no deadline; in `DesktopState` timers fire and frames
are handled.

## Proofs

Every theorem holds for any number of processes, connections, files and values and
for any bounds, under the assumptions named `...Assumption` in the modules, which
the runs evaluate. They ask that numbers are numbers, that capacities are positive,
that `None` and its like are none of the values they stand beside, and that what is
finite on any machine is: sockets, directories, names. `Chan` and `Fields` are not
empty; no file of `Full` has the name of one of the special contents. In `HTTPProxy`
cookies, paths and pages are sequences of strings, of any length; the port of the
request is a number and not one of the others; a redirect that names a host has an
absolute path; and `"BASE"` stands for the tag that is added, so that no page has it.
Where a property is an invariant, the argument is always the same: an inductive invariant,
`IInv` or named for its part, that holds at the start, that every step preserves,
and that implies the property. What it adds to the property is why the property
holds.

`RingBufProofs`:

- `IndexInvariance`: `Spec => []IndexInv`. The invariant relates the three index
  fields (`TailFollows`) and bounds the pending bytes; it is inductive as it is.
- `RingBufImplementsLog`: `Spec => ImplementsLog`. `WritePut` shows that taking the
  mutex appends the payload to the log, `WriteByteStutters` that an iteration of
  the loop leaves it alone, full buffer or not, `CopyCorrect` that the one or two
  copies in Bytes yield the log.
- `FramesRoundTrip`: the three decoders invert the encoder, for every base of a byte
  and every payload whose length four of them express.
- `ReplayArrives`: `ReplayFrameArrives` for every capacity that a length field
  expresses; what Bytes returns is no longer than the ring (`ReplayShort`).
- `ScanIsRight`: `ScanRight`, from what the maps hold half-way: a port that was
  there all along, in a table that could be opened, is in the map of sockets or its
  table has not been read
  (`KeptThere`), a process that kept a socket is found or still to be visited
  (`KeptFound`), and what is found was held at some time (`FoundHeld`).

`PtySessionProofs`:

- `SenderNeverBehind`, `ClientStreamContiguous`. `StreamContiguous` alone is not
  inductive: a live frame continues the stream of the sender because the sender has
  been offered all that is logged (`SenderCurrent`) and, unless its last Send failed,
  has accepted it (`LastOffered`); a connection that attaches to an empty ring has
  been offered nothing beyond it (`OfferedLogged`).
- `ReplaysReachBack`: a replay ends at the newest byte and is as long as the ring, or
  starts at the first byte there was; no client has got more than its hub was
  offered (`SeenOffered`), and so nothing beyond that.

`ServerProofs`:

- `ClosedForGood`, `ControlStops`: how far Close has come is what everyone else sees
  of it (`CloseOrder`), a Send that began late has failed (`LateFailed`), and the
  control handler is gone after Close unless `handleWS` registers it on a hub that
  the writer has closed, where nothing can be read any more (`ControlGone`).
- `TokensSurviveDeploys`: the server, every deployment that has chosen its secret and
  every token use the secret in the file (`SecretKept`), and a deployment that is
  about to write found none and is alone (`WriterAlone`): without the second part
  the write would take away the secret of others.

`UserSessionProofs`, for connections that overlap in any way:

- `InputFollowsOutput`: a handler may replace another one between the look-up and
  `Register`, so the invariant says where a session that streams to a hub has its
  handler at each point of the control handler (`Routed`, `TakesNoPlace`,
  `RegisteredFirst`), and that a session not yet in the map is known to its creator
  only (`NewUnknown`).
- `ClosedTerminalsLeave`, for which a session taken out of the map must stay out
  (`StaysOut`).
- `NothingLostAlone`: as long as connections do not overlap, only one acts
  (`OneActive`), and it finds the place of a new session free (`PlaceFree`).
- `TransfersStayExact`, about `FileTransfer`. Of a download that nothing has interfered
  with, what the page has received and what is in the queue are together the chunks
  that the goroutine has sent, and a report is behind all it reports (`Flow`); so at
  the last one all is there, and `Assembled` shows that in order it is the content. Of
  an upload, a number of chunks is in the file, at most one more in the hands of the
  read goroutine, and the rest in the queue in order (`Written`, `Pending`); nothing
  the page is told exceeds that number, and nothing of the upload is on any other
  connection (`Calm`). Before the first chunk nothing of it is anywhere (`Unsent`), so
  that uploads that have not begun cannot disturb one to the same path.

`StatsCollectorProofs`:

- `LoopsAndSendersMatch`: the count, the set and the loops are changed in critical
  sections of their own; that they agree needs that a sender is registered exactly
  between its Add and its Remove (`SendersAdded`) and that what `c.cancel` stops is
  running (`LoopAlive`). Calls of Add bound the goroutines (`LoopsInTurn`).
- `FirstFrameFull`: in the life of the first loop an open sender without a frame is
  about to get the full one, or its queue drops it (`FirstFull`).

`ConnectionProofs`, over the initial states and steps of each of its three parts:

- `SocketWatched`: until logout no socket but `this.ws` is alive, one that is closing
  included (`WatchedOnly`); otherwise the close event of an old one would forget the
  live one.
- `ChunksGoOnce`: a chunk is given to nobody before `readLoop` has it nor while it is
  in its hands (`GivenBefore`), so that it may be given to whoever is attached.
- `RelayDelivers`: each direction keeps the bytes the server had read ahead, those in
  the kernel and those delivered in one order.
- `TokenStripped`, `AnswersMeant`: at every step what has been sent is what the
  handler makes of the request it is at, on either way, and the reply is one of its own or what
  `ModifyResponse` makes of the answer to that (`HTTPMessages`). The rest is about the
  rewriting, for sequences of any length. `WithoutRest`: the loop over cookies or
  directives leaves out one name and nothing else, by induction over its rounds
  (`RestNext`). `RewrittenPath`: a rewritten cookie path matches below the mount
  point what the old one matched at the application (`MatchUnderPrefix`), and nothing
  below another one (`NoOtherMount`). `MeantIs`: climbing directory by directory, as a
  browser does, ends where `ResolveReference` cuts. `InsertedMarker`: the base tag is
  found where it was inserted, and without it the page is what it was.

The induction theorems of the library take an operator as a parameter, which the
provers cannot instantiate. `NaturalsIn` states induction of a set instead, and can be
cited; it follows from the theorem that `<` is well-founded. With it a recursive
function, which is a `CHOOSE`, is shown to exist and to be what it should
(`KeptExists`, `WithoutLoop`, `MeantIs`).

`DesktopStateProofs`:

- `FileGoesForward`: the file, the save in progress, the saves on their way and the
  page are in order, part by part (`Ordered`), and without trouble only the page that
  made the last change has something on its way (`OnItsWay`).
- `FileStaysSound`: a temporary file is whole when it is renamed (`TempWhole`), and the
  last save of that page is of what it shows, but for the terminals it has opened or closed
  since (`UpToDate`).

`PageProofs`:

- `SelectionsSeen`: inductive as it is (`Seen`).
- `ViewsTrue`: frames are under way only while there is a connection, and unless a
  timer will ask again the last of them asks for the current directory (`Asked`). So
  the server's last answer is the truth and ends what was lost before; it is the
  last on its way, or is shown (`Informed`).
- `NoDataLost`: `Spec => DataKept`, case by case of what an operation does to the files.
- `TabsStayRight`: what the frames under way mean for a channel is its last word: to be
  closed (`Closing`) or to be open (`Wanted`). A session that the page does not show
  is in the session sync or will be closed (`NoneHidden`), a terminal that is ready has
  its session or asks for it (`ReadyServed`), and what will be open has a tab
  (`WantedHasTab`), since closing a tab has the last word. At rest nothing is under
  way, and the two sides agree.

Model-checked only:

- Liveness, `CloseEnds` and the like, which the prover cannot derive from fairness.
  Every safety property of the runs has a theorem.

## Deviations

The models do what the code does, also where a comment, a document or a reader
would expect something else. The properties exclude these cases by name.

Connections and sessions. `handleWS` detaches all of the user's terminals when it
ends (server.go:445), also those that a newer connection has attached. Two
connections that open a channel at the same time start two shells; the first one
can never be closed (server.go:510, `NoOrphan` without `~overlap`). A terminal may
stay attached to a hub that is gone when `Attach` comes after `Teardown`
(session.go:53). Ended proxies stay in the map and in the session sync
(server.go:42). An OpenPTY or ClosePTY of an old connection that is handled after
the new one was greeted is not shown to the page (server.go:500). A client that is attached to a proxy after `readLoop` has looked for the
last time is not told of its end, and output read while no client is attached is
dropped (proxy.go:71).

A handler that writes to a shell or a proxy target that does not read holds the read
goroutine of its connection, which is then past all deadlines: a peer that is only
silent is not noticed, and the goroutine stays (session.go:196, proxy.go:102).

Statistics. A broadcast that takes out the last sender leaves the loop running, and
the next connection starts another (collector.go:179). The first frame after an
idle period of the collector lacks kernel and host name (collector.go:166). A full
queue drops the first frame, the one with all fields, without an error, and the
collector sends changes from then on (hub.go:83).

Port scan. A port that a process of another user holds is reported without a process
(portscan.go:69), and a table that cannot be opened is empty.

Page. Channels are counted from 1 in every page, so that after a reload the button
for a new terminal only selects one that is there (session.svelte.ts:128). A logout
while `/validate` is awaited does not stop the retry (client.ts:167).

Files. A chunk that the hub's full queue drops is missing from the file that the
page saves; nothing compares the bytes received with the total (fileops.go:90). A
chunk of an upload that cannot be written is not reported, and the upload ends as
done with a hole in the file (server.go:642); so does one whose connection is
replaced half-way. `architecture.md` has uploads written to a temporary file that is
renamed (architecture.md:285, 484), and an error sent when a directory cannot be
written (478-479): the code writes in place and sends nothing. An empty file's upload and download never end
(FileManager.svelte:385). A copy pasted onto itself empties the file, because the
target is truncated first (fileops.go:214); pasting over a file of the same name
does not ask. A listing that answers an older request ends the loading state, and
the old entries can be selected under the new path (FileManager.svelte:498); a
request that is sent while offline leaves it loading until the next one, as the first
of every page does until the home directory is known or the user acts
(FileManager.svelte:575); what was selected before the home directory is known stays
selected in it. A rename that is pending outlives the closing of its panel, and then
renames an entry of that name in the directory of the panel that is left
(FileManager.svelte:96).

Desktop state. Opening or closing a terminal saves nothing (+page.svelte:217, 225): the
name and the pin of a closed one stay in the file until the next change, and are
given to a later terminal with its number. A change made before the session sync arrives is undone by it; a
save that is due while the page is offline is skipped and not repeated; two pages
save each other's older parts; a file that was emptied from outside leaves a new connection
without session sync, since it is not JSON (server.go:426).

HTTP proxy. With an upgrade, cookies that `r.Cookies()` does not accept are lost and
values lose their quotes (server.go:939), and the path is parsed a second time
without being encoded again: a `?` or `#` in it cuts it, a `%` makes it another path or
an error (server.go:921). A cookie that cannot be parsed keeps its path and its
domain, so that it may reach other applications (server.go:1027); one without a path
goes to the whole application and not to the directory of the request only
(server.go:1037). A redirect that is no URL stays as it is (server.go:854). A peer that
stops reading keeps both connections of a relay and its goroutines, also when the
other one has hung up (server.go:977, 981). A cookie path of `/_proxy/800` set by port 80 is taken for one below
`/_proxy/80` (server.go:1036); of several Content-Security-Policy headers only the
first survives, and when the first is empty the others stay as they are
(server.go:845); a redirect that contains the mount point gets it
twice, one to another host loses the host (server.go:850); `<header` is taken for
`<head`, and `<base` anywhere in the page suppresses the injection
(server.go:1049).

Deployment. A failed command is taken for a missing secret, which is then replaced
(deploy/main.go:169); a full disk empties the secret's file without an error; two
deployments at a time generate two secrets; the tool reports a running server
without looking.

## Not modelled

Input to the shell, window sizes, the look-up of users and shells; JSON and its
errors; the parsers and the arithmetic of `/proc` in `collector.go`; SSH and the
signature of a JWT (libraries: they succeed or fail); chmod, which the page does
not use; trees of directories in copies and deletions; serving the assets and CORS;
proxy tabs and the service worker; the remembered login of the login page; layout
and rendering in the browser; `cmd/tunnel`, a development tool whose relay is that
of `HTTPProxy` in small, and packaging.

## Plan

1. In `Desktop`: proxy tabs, which take their channels from the same counter, composed
   with `UserSession` without its assumption on channels.
2. The remembered login (`login-storage.ts`) as part of `Tokens`.
