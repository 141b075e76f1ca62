----------------------------- MODULE PortProxy -----------------------------
(***************************************************************************)
(* internal/server/proxy.go: what a TCP target sends is passed on to the   *)
(* connection that is attached, while connections come and go. What the    *)
(* client sends is written to the target at once and keeps no state here;  *)
(* how proxies are opened and looked up is module UserSession.             *)
(*                                                                         *)
(* What one Read returns is a chunk, known by its number; the notice that  *)
(* the target is gone counts as the chunk after the last.                  *)
(***************************************************************************)
EXTENDS Integers, Sequences, Functions

CONSTANTS Clients,      \* connections of the user
          First,        \* the one that opened the proxy
          NoClient,     \* stands for a nil hub
          WriteQueue,   \* writeChanSize
          MaxChunks     \* bound on the chunks

ASSUME PortProxyAssumption ==
  /\ First \in Clients /\ NoClient \notin Clients
  /\ WriteQueue \in Nat \ {0} /\ MaxChunks \in Nat

Notice == MaxChunks + 1

VARIABLES tcp,       \* "open", "ended" by the target, "closed"
          ppc, eof,  \* where readLoop is, and whether its Read returned an error
          chunks,    \* number of the last chunk read
          ph,        \* ps.h
          held,      \* readLoop's variable h
          entry,     \* of the session in the user's map: "there", "closing", "gone"
          opening,   \* clients whose OpenProxy has found the session open
          life,      \* of each client: "new", "open", "closed", "gone"
          queue,     \* what waits in its hub
          recv,      \* what it got
          lost       \* history: chunks for which there was no client, or no room

loopVars == <<tcp, ppc, eof, chunks, held>>
clientVars == <<entry, opening, life, recv>>
proxyVars == <<loopVars, ph, clientVars, queue, lost>>

ProxyInit ==
  /\ tcp = "open" /\ ppc = "read" /\ eof = FALSE /\ chunks = 0 /\ held = NoClient
  /\ ph = First /\ entry = "there" /\ opening = {}
  /\ life = [c \in Clients |-> IF c = First THEN "open" ELSE "new"]
  /\ queue = [c \in Clients |-> << >>] /\ recv = [c \in Clients |-> << >>] /\ lost = {}

-----------------------------------------------------------------------------
(* readLoop                                                                *)

\* Data, perhaps together with the end.
ProxyRead ==
  /\ ppc = "read" /\ tcp # "closed" /\ chunks < MaxChunks
  /\ chunks' = chunks + 1 /\ ppc' = "look"
  /\ eof' \in {FALSE, tcp = "ended"}
  /\ UNCHANGED <<tcp, held, ph, clientVars, queue, lost>>

ProxyReadFails ==
  /\ ppc = "read" /\ tcp # "open" /\ ppc' = "notice" /\ eof' = TRUE
  /\ UNCHANGED <<tcp, chunks, held, ph, clientVars, queue, lost>>

Resume == IF eof THEN "notice" ELSE "read"

\* Seeded bug: the error is looked at before the data.
ProxyLookEOF ==
  /\ ppc = "look" /\ held' = ph
  /\ ppc' = IF eof \/ ph = NoClient THEN Resume ELSE "send"
  /\ lost' = IF ph = NoClient THEN lost \cup {chunks} ELSE lost
  /\ UNCHANGED <<tcp, eof, chunks, ph, clientVars, queue>>

\* Under hubMu the hub is looked up; while there is none, data are dropped.
ProxyLook ==
  /\ ppc = "look" /\ held' = ph
  /\ ppc' = IF ph = NoClient THEN Resume ELSE "send"
  /\ lost' = IF ph = NoClient THEN lost \cup {chunks} ELSE lost
  /\ UNCHANGED <<tcp, eof, chunks, ph, clientVars, queue>>

\* The hub may have been detached or closed since it was looked up.
ProxySend(n) ==
  LET room == life[held] = "open" /\ Len(queue[held]) < WriteQueue
  IN /\ queue' = IF room THEN [queue EXCEPT ![held] = Append(@, n)] ELSE queue
     /\ lost' = IF room THEN lost ELSE lost \cup {n}
     /\ UNCHANGED <<tcp, eof, chunks, held, ph, clientVars>>

SendData == ppc = "send" /\ ppc' = Resume /\ ProxySend(chunks)

\* Seeded bug: the hub of the last chunk is not looked up again.
LookForNoticeStale ==
  /\ ppc = "notice" /\ ppc' = IF held = NoClient THEN "close" ELSE "tell"
  /\ UNCHANGED <<tcp, eof, chunks, held, ph, clientVars, queue, lost>>

LookForNotice ==
  /\ ppc = "notice" /\ held' = ph
  /\ ppc' = IF ph = NoClient THEN "close" ELSE "tell"
  /\ UNCHANGED <<tcp, eof, chunks, ph, clientVars, queue, lost>>

SendNotice == ppc = "tell" /\ ppc' = "close" /\ ProxySend(Notice)

LoopCloses ==
  /\ ppc = "close" /\ ppc' = "done" /\ tcp' = "closed"
  /\ UNCHANGED <<eof, chunks, held, ph, clientVars, queue, lost>>

readLoop ==
  ProxyRead \/ ProxyReadFails \/ ProxyLook \/ SendData \/ LookForNotice \/ SendNotice \/ LoopCloses

-----------------------------------------------------------------------------
(* The target and the connections                                          *)

TargetEnds ==
  /\ tcp = "open" /\ tcp' = "ended"
  /\ UNCHANGED <<ppc, eof, chunks, held, ph, clientVars, queue, lost>>

\* handleCloseProxy: Unregister closes the session, then it leaves the map.
CloseProxy ==
  /\ entry = "there" /\ entry' = "closing" /\ tcp' = "closed"
  /\ \E c \in Clients : life[c] = "open"
  /\ UNCHANGED <<ppc, eof, chunks, held, ph, opening, life, recv, queue, lost>>

RemoveProxy ==
  /\ entry = "closing" /\ entry' = "gone"
  /\ UNCHANGED <<loopVars, ph, opening, life, recv, queue, lost>>

\* registerProxyHandlers attaches what is in the map, open or closed.
ClientConnects(c) ==
  /\ life[c] = "new" /\ life' = [life EXCEPT ![c] = "open"]
  /\ ph' = IF entry = "gone" THEN ph ELSE c
  /\ UNCHANGED <<loopVars, entry, opening, recv, queue, lost>>

\* handleOpenProxy finds the session and sees that it is not closed.
OpenProxy(c) ==
  /\ life[c] = "open" /\ c \notin opening /\ entry # "gone" /\ tcp # "closed" /\ ph # c
  /\ opening' = opening \cup {c}
  /\ UNCHANGED <<loopVars, ph, entry, life, recv, queue, lost>>

AttachProxy(c) ==
  /\ c \in opening /\ opening' = opening \ {c} /\ ph' = c
  /\ UNCHANGED <<loopVars, entry, life, recv, queue, lost>>

HubWrites(c) ==
  /\ life[c] = "open" /\ queue[c] # << >>
  /\ recv' = [recv EXCEPT ![c] = Append(@, Head(queue[c]))]
  /\ queue' = [queue EXCEPT ![c] = Tail(@)]
  /\ UNCHANGED <<loopVars, ph, entry, opening, life, lost>>

ClientGoes(c) ==
  /\ life[c] = "open" /\ life' = [life EXCEPT ![c] = "closed"]
  /\ UNCHANGED <<loopVars, ph, entry, opening, recv, queue, lost>>

\* handleWS ends with detachProxies, whoever is attached by then.
DetachProxies(c) ==
  /\ life[c] = "closed" /\ life' = [life EXCEPT ![c] = "gone"]
  /\ ph' = IF entry = "gone" THEN ph ELSE NoClient
  /\ UNCHANGED <<loopVars, entry, opening, recv, queue, lost>>

ProxyNext ==
  \/ readLoop \/ TargetEnds \/ CloseProxy \/ RemoveProxy
  \/ \E c \in Clients :
       \/ ClientConnects(c) \/ OpenProxy(c) \/ AttachProxy(c)
       \/ HubWrites(c) \/ ClientGoes(c) \/ DetachProxies(c)

\* The goroutine and the writers go on, once Read has something to return; the
\* target and the clients need not do anything.
ProxyFairness ==
  /\ WF_proxyVars((ppc # "read" \/ tcp # "open") /\ readLoop)
  /\ \A c \in Clients : WF_proxyVars(HubWrites(c))

-----------------------------------------------------------------------------
Stream(c) == recv[c] \o queue[c]

\* However connections replace one another, what the target sends goes to one of
\* them, in order, and nothing comes after the notice of its end; what is
\* missing is what there was no client or no room for (readLoop takes ps.h
\* under hubMu and sends after releasing it).
ChunksOnce ==
  LET given == [c \in Clients |-> Range(Stream(c)) \ {Notice}]
      busy == IF ppc \in {"look", "send"} THEN {chunks} ELSE {}
  IN /\ \A c \in Clients : \A i \in 2 .. Len(Stream(c)) : Stream(c)[i - 1] < Stream(c)[i]
     /\ \A c, d \in Clients : c # d => given[c] \cap given[d] = {}
     /\ 1 .. chunks = busy \cup (lost \ {Notice}) \cup UNION {given[c] : c \in Clients}

\* A proxy whose target has gone, or that is closed, leaves neither a goroutine
\* nor a connection behind, also when Close runs while readLoop is in Read.
ProxyEnds == tcp # "open" ~> (tcp = "closed" /\ ppc = "done")

\* "TCP connection closes (server sends 0x10)": the client that is attached is
\* told, unless it is replaced or leaves, or its queue is full. Excluded: one
\* that is attached after readLoop has looked for the last time.
NoticeArrives ==
  \A c \in Clients :
    (tcp # "open" /\ ph = c /\ life[c] = "open" /\ ppc \notin {"tell", "close", "done"})
      ~> (Notice \in Range(recv[c]) \cup lost \/ ph # c \/ life[c] # "open")

\* The end of the target, or of the proxy, comes to its end everywhere.
EndPassedOn == ProxyEnds /\ NoticeArrives
=============================================================================
