---------------------------- MODULE FileTransfer ----------------------------
(***************************************************************************)
(* Chunked uploads and downloads: the file manager of the page             *)
(* (FileManager.svelte), the read goroutine and the download goroutines of *)
(* the server (server.go, fileops.go), over connections that break and are *)
(* replaced (client.ts, hub.go).                                           *)
(*                                                                         *)
(* A chunk of 64 KB is one cell of a file; offsets count cells.  The page  *)
(* has one socket at a time, but the handler of an earlier connection may  *)
(* still be busy with frames that it has received.                         *)
(***************************************************************************)
EXTENDS Integers, Sequences, FiniteSets

CONSTANTS Upload,      \* uploads of the page, each started at most once
          Download,    \* downloads of the page
          Path,
          PathOf,      \* the path of each upload and download
          Size,        \* length of each uploaded file; may be 0
          Cell,        \* what a chunk of a file may hold before any upload
          Stored,      \* contents, or Absent, that a path may have at the start
          Absent,
          QueueCap,    \* writeChanSize
          MaxConns     \* bound: connections

\* What a file holds where nothing, or a part of a chunk, has been written.
Hole == <<"hole">>
Torn == <<"torn">>

\* The i-th chunk of an upload is <<u, i>>.
FileCell == Cell \cup Upload \X Nat \cup {Hole, Torn}

ASSUME TransferAssumption ==
  /\ Upload \cap Download = {}
  /\ PathOf \in [Upload \cup Download -> Path]
  /\ Size \in [Upload -> Nat]
  /\ Stored \subseteq Seq(Cell) \cup {Absent} /\ Absent \notin Seq(FileCell)
  /\ QueueCap \in Nat \ {0} /\ MaxConns \in Nat \ {0}

Conn == 1..MaxConns

VARIABLES
  sock,     \* the page's open socket, 0 if there is none
  conns,    \* connections made so far
  hub,      \* per connection: "new", "open", "closed"
  up,       \* per connection: frames sent by the page and not yet read
  down,     \* per connection: h.writeCh
  handler,  \* per connection: the upload frame whose file is open, or <<>>
  file,     \* the files
  sent,     \* per upload: chunks the page has sent
  toast,    \* per upload: "none", "uploading", "done"
  stream,   \* per download: the goroutine of streamFileDownload
  dl,       \* per download: its entry in `downloads`, "saved" or "failed" once deleted
  chunks,   \* per download: offset -> cell
  saved,    \* per download: what the browser was given to save
  spoiled   \* history: transfers a failure or a change of the file has interfered with

connVars == <<sock, conns, hub>>
pageVars == <<sent, toast, dl, chunks, saved>>
transferVars == <<connVars, up, down, handler, file, pageVars, stream, spoiled>>

\* The page's loop runs at least once, for an empty file too.
Chunks(u) == IF Size[u] = 0 THEN 1 ELSE Size[u]
Content(u) == [i \in 1..Size[u] |-> <<u, i>>]

TransferInit ==
  /\ sock = 1 /\ conns = 1
  /\ hub = [c \in Conn |-> IF c = 1 THEN "open" ELSE "new"]
  /\ up = [c \in Conn |-> <<>>] /\ down = [c \in Conn |-> <<>>]
  /\ handler = [c \in Conn |-> <<>>]
  /\ file \in [Path -> Stored]
  /\ sent = [u \in Upload |-> 0] /\ toast = [u \in Upload |-> "none"]
  /\ stream = [d \in Download |-> [pc |-> "none", conn |-> 0, off |-> 0, total |-> <<>>]]
  /\ dl = [d \in Download |-> "none"]
  /\ chunks = [d \in Download |-> <<>>] /\ saved = [d \in Download |-> Absent]
  /\ spoiled = {}

(***************************************************************************)
(* The page sends.                                                         *)
(***************************************************************************)

\* WSClient.send: without an open socket the frame is dropped.
ClientSend(f) ==
  IF sock # 0 /\ hub[sock] = "open"
    THEN up' = [up EXCEPT ![sock] = Append(@, f)] /\ UNCHANGED spoiled
    ELSE spoiled' = spoiled \cup {f.id} /\ UNCHANGED up

\* uploadFiles, and uploadSingleFile up to its loop.
StartUpload(u) ==
  /\ toast[u] = "none"
  /\ toast' = [toast EXCEPT ![u] = "uploading"]
  /\ UNCHANGED <<connVars, up, down, handler, file, sent, dl, chunks, saved, stream, spoiled>>

\* One iteration of the loop; setTimeout lets other events run after each.
SendChunk(u) ==
  /\ toast[u] # "none" /\ sent[u] < Chunks(u)
  /\ sent' = [sent EXCEPT ![u] = @ + 1]
  /\ ClientSend([type |-> "upload", id |-> u, off |-> sent[u]])
  /\ UNCHANGED <<connVars, down, handler, file, toast, dl, chunks, saved, stream>>

\* downloadSelected.
StartDownload(d) ==
  /\ dl[d] = "none"
  /\ dl' = [dl EXCEPT ![d] = "waiting"]
  /\ ClientSend([type |-> "downloadReq", id |-> d])
  /\ UNCHANGED <<connVars, down, handler, file, sent, toast, chunks, saved, stream>>

(***************************************************************************)
(* The server: control handler and download goroutines.                    *)
(***************************************************************************)

\* The frames without which the page does not learn the content or the end.
Matters(f) == f.type = "progress" => f.sent >= f.total

\* Hub.Send: an error if the hub is closed, dropped if the queue is full.
\* `lost` are transfers that the caller spoils.
Send(c, f, lost) ==
  IF hub[c] = "open" /\ Len(down[c]) < QueueCap
    THEN down' = [down EXCEPT ![c] = Append(@, f)] /\ spoiled' = spoiled \cup lost
    ELSE /\ spoiled' = spoiled \cup lost \cup (IF Matters(f) THEN {f.id} ELSE {})
         /\ UNCHANGED down

\* The downloads that read path p while it changes.
Touched(p) == {d \in Download : PathOf[d] = p /\ stream[d].pc \in {"read", "progress"}}

\* The read goroutine of c has a frame of this type and is not in a handler.
Reads(c, type) ==
  /\ hub[c] = "open" /\ handler[c] = <<>>
  /\ up[c] # <<>> /\ Head(up[c]).type = type
  /\ up' = [up EXCEPT ![c] = Tail(@)]

\* Seeded bug: every chunk truncates the file.
OpenTruncates(s, off) == <<>>

\* os.OpenFile in writeFileChunk: O_CREATE, and O_TRUNC for the first chunk.
OpenFile(s, off) == IF off = 0 \/ s = Absent THEN <<>> ELSE s

\* Seek and Write.
WriteAt(s, off, data) ==
  [i \in 1..(IF off + Len(data) > Len(s) THEN off + Len(data) ELSE Len(s)) |->
     IF i > off /\ i <= off + Len(data) THEN data[i - off]
     ELSE IF i <= Len(s) THEN s[i] ELSE Hole]

\* The payload of a frame; an empty file has one frame, without data.
Data(f) == IF f.off < Size[f.id] THEN <<<<f.id, f.off + 1>>>> ELSE <<>>

\* handleFileUpload up to os.OpenFile.
UploadOpen(c) ==
  /\ Reads(c, "upload")
  /\ LET f == Head(up[c]) p == PathOf[f.id] IN
       /\ handler' = [handler EXCEPT ![c] = f]
       /\ file' = [file EXCEPT ![p] = OpenFile(@, f.off)]
       /\ spoiled' = spoiled \cup Touched(p)
  /\ UNCHANGED <<connVars, down, pageVars, stream>>

\* MkdirAll or OpenFile fails: logged, and nothing is sent.
UploadOpenFails(c) ==
  /\ Reads(c, "upload")
  /\ spoiled' = spoiled \cup {Head(up[c]).id}
  /\ UNCHANGED <<connVars, down, handler, file, pageVars, stream>>

\* The rest of handleFileUpload: write, then report the bytes written.
UploadWrite(c) ==
  /\ handler[c] # <<>>
  /\ LET f == handler[c] p == PathOf[f.id] IN
       /\ file' = [file EXCEPT ![p] = WriteAt(@, f.off, Data(f))]
       /\ Send(c, [type |-> "progress", id |-> f.id, sent |-> f.off + Len(Data(f)),
                   total |-> Size[f.id]], Touched(p))
  /\ handler' = [handler EXCEPT ![c] = <<>>]
  /\ UNCHANGED <<connVars, up, pageVars, stream>>

\* Write fails, after a part of the chunk or before: logged, and nothing is sent.
UploadWriteFails(c) ==
  /\ handler[c] # <<>>
  /\ LET f == handler[c] p == PathOf[f.id] IN
       /\ \E data \in {<<>>, <<Torn>>} :
            file' = [file EXCEPT ![p] = IF data = <<>> THEN @ ELSE WriteAt(@, f.off, data)]
       /\ spoiled' = spoiled \cup Touched(p) \cup {f.id}
  /\ handler' = [handler EXCEPT ![c] = <<>>]
  /\ UNCHANGED <<connVars, up, down, pageVars, stream>>

\* handleFileDownloadReq starts the goroutine.
DownloadReq(c) ==
  /\ Reads(c, "downloadReq")
  /\ stream' = [stream EXCEPT ![Head(up[c]).id].pc = "open", ![Head(up[c]).id].conn = c]
  /\ UNCHANGED <<connVars, down, handler, file, pageVars, spoiled>>

\* streamFileDownload: open and stat.  `total` keeps the content of the
\* moment (history); the code keeps its length.
StreamOpen(d) ==
  /\ stream[d].pc = "open"
  /\ IF file[PathOf[d]] = Absent
       THEN /\ Send(stream[d].conn, [type |-> "error", id |-> d], {})
            /\ stream' = [stream EXCEPT ![d].pc = "ended"]
       ELSE /\ stream' = [stream EXCEPT ![d].pc = "read", ![d].total = file[PathOf[d]]]
            /\ UNCHANGED <<down, spoiled>>
  /\ UNCHANGED <<connVars, up, handler, file, pageVars>>

\* An iteration up to the Send of the chunk; ends at the end of the file, or
\* when the hub is closed (ctx is cancelled or Send fails).
StreamRead(d) ==
  /\ stream[d].pc = "read"
  /\ LET s == stream[d] content == file[PathOf[d]] IN
       IF hub[s.conn] = "closed" \/ s.off >= Len(content)
         THEN stream' = [stream EXCEPT ![d].pc = "ended"] /\ UNCHANGED <<down, spoiled>>
         ELSE /\ Send(s.conn, [type |-> "chunk", id |-> d, off |-> s.off,
                               cell |-> content[s.off + 1]], {})
              /\ stream' = [stream EXCEPT ![d].pc = "progress"]
  /\ UNCHANGED <<connVars, up, handler, file, pageVars>>

\* The rest of the iteration: advance and report.
StreamProgress(d) ==
  /\ stream[d].pc = "progress"
  /\ LET s == stream[d] IN
       Send(s.conn, [type |-> "progress", id |-> d, sent |-> s.off + 1,
                     total |-> Len(s.total)], {})
  /\ stream' = [stream EXCEPT ![d].pc = "read", ![d].off = @ + 1]
  /\ UNCHANGED <<connVars, up, handler, file, pageVars>>

\* Stat or Read fails: logged, and nothing is sent.
StreamFails(d) ==
  /\ stream[d].pc \in {"open", "read"}
  /\ stream' = [stream EXCEPT ![d].pc = "ended"]
  /\ spoiled' = spoiled \cup {d}
  /\ UNCHANGED <<connVars, up, down, handler, file, pageVars>>

(***************************************************************************)
(* The page receives: the broadcast listener of the file manager.          *)
(***************************************************************************)

\* The chunks by increasing offset.
Assemble(f) ==
  [i \in 1..Cardinality(DOMAIN f) |->
     f[CHOOSE o \in DOMAIN f : Cardinality({p \in DOMAIN f : p < o}) = i - 1]]

OnChunk(f) ==
  /\ chunks' = IF dl[f.id] = "waiting"
                 THEN [chunks EXCEPT ![f.id] =
                        [o \in DOMAIN @ \cup {f.off} |-> IF o = f.off THEN f.cell ELSE @[o]]]
                 ELSE chunks
  /\ UNCHANGED <<toast, dl, saved>>

\* Seeded bug: waits for a byte beyond the end.
OnDownloadProgressStrict(f) ==
  /\ IF dl[f.id] = "waiting" /\ f.total > 0 /\ f.sent > f.total
       THEN /\ saved' = [saved EXCEPT ![f.id] = Assemble(chunks[f.id])]
            /\ dl' = [dl EXCEPT ![f.id] = "saved"]
            /\ chunks' = [chunks EXCEPT ![f.id] = <<>>]
       ELSE UNCHANGED <<saved, dl, chunks>>
  /\ UNCHANGED toast

OnDownloadProgress(f) ==
  /\ IF dl[f.id] = "waiting" /\ f.total > 0 /\ f.sent >= f.total
       THEN /\ saved' = [saved EXCEPT ![f.id] = Assemble(chunks[f.id])]
            /\ dl' = [dl EXCEPT ![f.id] = "saved"]
            /\ chunks' = [chunks EXCEPT ![f.id] = <<>>]
       ELSE UNCHANGED <<saved, dl, chunks>>
  /\ UNCHANGED toast

\* uploadSizes holds at least 1, so that an empty file is never complete.
OnUploadProgress(f) ==
  /\ toast' = IF toast[f.id] = "uploading" /\ f.sent >= Chunks(f.id)
                THEN [toast EXCEPT ![f.id] = "done"] ELSE toast
  /\ UNCHANGED <<dl, chunks, saved>>

OnError(f) ==
  /\ dl' = IF dl[f.id] = "waiting" THEN [dl EXCEPT ![f.id] = "failed"] ELSE dl
  /\ chunks' = [chunks EXCEPT ![f.id] = <<>>]
  /\ UNCHANGED <<toast, saved>>

\* The hub's writer writes a frame; the page handles it if this is still its socket.
Writer(c) ==
  /\ hub[c] = "open" /\ down[c] # <<>>
  /\ down' = [down EXCEPT ![c] = Tail(@)]
  /\ LET f == Head(down[c]) IN
       IF sock # c
         THEN /\ spoiled' = spoiled \cup {f.id} /\ UNCHANGED <<toast, dl, chunks, saved>>
         ELSE /\ \/ f.type = "chunk" /\ OnChunk(f)
                 \/ f.type = "progress" /\ f.id \in Download /\ OnDownloadProgress(f)
                 \/ f.type = "progress" /\ f.id \in Upload /\ OnUploadProgress(f)
                 \/ f.type = "error" /\ OnError(f)
              /\ UNCHANGED spoiled
  /\ UNCHANGED <<connVars, up, handler, file, sent, stream>>

(***************************************************************************)
(* Connections.                                                            *)
(***************************************************************************)

\* What is under way on the page's connection when it breaks.
UnderWay == {u \in Upload : toast[u] = "uploading" /\ sent[u] > 0}
              \cup {d \in Download : dl[d] = "waiting"}

\* Hub.Close, after a failure that the server notices.
TransferHubClose(c) ==
  /\ hub[c] = "open"
  /\ hub' = [hub EXCEPT ![c] = "closed"]
  /\ up' = [up EXCEPT ![c] = <<>>] /\ down' = [down EXCEPT ![c] = <<>>]
  /\ spoiled' = IF c = sock THEN spoiled \cup UnderWay ELSE spoiled
  /\ UNCHANGED <<sock, conns, handler, file, pageVars, stream>>

\* The page's socket closes; the server may not know yet.
SockClose ==
  /\ sock # 0
  /\ sock' = 0
  /\ spoiled' = spoiled \cup UnderWay
  /\ UNCHANGED <<conns, hub, up, down, handler, file, pageVars, stream>>

\* The retry of client.ts; uploads and downloads go on as if nothing happened.
Reconnect ==
  /\ sock = 0 /\ conns < MaxConns
  /\ sock' = conns + 1 /\ conns' = conns + 1
  /\ hub' = [hub EXCEPT ![conns + 1] = "open"]
  /\ UNCHANGED <<up, down, handler, file, pageVars, stream, spoiled>>

Reader(c) == UploadOpen(c) \/ UploadOpenFails(c) \/ UploadWrite(c) \/ UploadWriteFails(c)
               \/ DownloadReq(c)
Stream(d) == StreamOpen(d) \/ StreamRead(d) \/ StreamProgress(d) \/ StreamFails(d)

TransferNext ==
  \/ \E u \in Upload : StartUpload(u) \/ SendChunk(u)
  \/ \E d \in Download : StartDownload(d) \/ Stream(d)
  \/ \E c \in Conn : Reader(c) \/ Writer(c) \/ TransferHubClose(c)
  \/ SockClose \/ Reconnect

TransferSpec == TransferInit /\ [][TransferNext]_transferVars

\* Goroutines and the page's loop go on; nothing is assumed of users, the
\* network or the file system.
Fairness ==
  /\ \A u \in Upload : WF_transferVars(SendChunk(u))
  /\ \A d \in Download : WF_transferVars(Stream(d))
  /\ \A c \in Conn : WF_transferVars(Reader(c)) /\ WF_transferVars(Writer(c))

FairTransferSpec == TransferSpec /\ Fairness
-----------------------------------------------------------------------------
(***************************************************************************)
(* Properties.                                                             *)
(***************************************************************************)

\* The queue stays within its capacity, a saved download is a sequence of
\* cells, and a goroutine streams only over a connection that was made.
TransferTypeOK ==
  /\ sock \in 0..conns /\ conns \in Conn
  /\ \A c \in Conn : Len(down[c]) <= QueueCap
  /\ \A u \in Upload : sent[u] \in 0..Chunks(u) /\ toast[u] \in {"none", "uploading", "done"}
  /\ \A d \in Download : /\ stream[d].pc \in {"none", "open", "read", "progress", "ended"}
                         /\ stream[d].pc # "none" => stream[d].conn \in 1..conns
                         /\ dl[d] \in {"none", "waiting", "saved", "failed"}
  /\ spoiled \subseteq Upload \cup Download

\* writeFileChunk, uploadSingleFile: an upload reported as done, all on one
\* connection, with no failure of the file system and nobody else uploading to
\* the path, has put exactly its data into the file, whatever other transfers
\* were interleaved with it.
UploadExact ==
  \A u \in Upload :
    /\ toast[u] = "done" /\ u \notin spoiled
    /\ \A v \in Upload \ {u} : PathOf[v] = PathOf[u] => toast[v] = "none"
    => file[PathOf[u]] = Content(u)

\* streamFileDownload and the listener: a download is saved only when all its
\* chunks have been received, as long as none was dropped and nobody wrote to
\* the file: the browser gets what the file held when it was opened.
IntactDownload ==
  \A d \in Download : saved[d] # Absent /\ d \notin spoiled => saved[d] = stream[d].total

\* Transfers that nothing interferes with are exact in both directions, also an
\* upload and a download of the same file at the same time.
TransfersExact == TransferTypeOK /\ UploadExact /\ IntactDownload

\* An upload that is not empty ends with its toast done, unless a failure or a
\* dropped frame interferes.
UploadCompletes ==
  \A u \in Upload :
    toast[u] = "uploading" /\ Size[u] > 0 ~> toast[u] = "done" \/ u \in spoiled

\* A download ends: its entry is deleted from `downloads`, unless a failure or
\* a dropped frame interferes or the file is empty.
DownloadCompletes ==
  \A d \in Download :
    dl[d] = "waiting" ~> \/ dl[d] # "waiting" \/ d \in spoiled
                         \/ stream[d].pc = "ended" /\ stream[d].total = <<>>

\* Transfers end, in both directions.
TransfersComplete == UploadCompletes /\ DownloadCompletes
=============================================================================
