---------------------------- MODULE ServerProofs ----------------------------
(***************************************************************************)
(* A hub that is closed stays closed, for any handlers and channels, any   *)
(* number of senders, any size of the queue and of the read buffer; tokens *)
(* survive redeploys, for any number of deployers and pages, any lifetime  *)
(* of a token and any number of secrets.                                   *)
(***************************************************************************)
EXTENDS Hub, Tokens, TLAPS
-----------------------------------------------------------------------------
(* The hub *)


\* How far Close has come is what the other goroutines see of it.
CloseOrder ==
  /\ once = "idle" <=> ~done
  /\ conn = "closed" <=> once \in {"connClosed", "complete"}
  /\ run = "returned" => once = "complete"

\* A Send that began on a closed hub has failed, and is not between its selects.
LateFailed == \A s \in Sender : late[s] => send[s] = "idle" /\ result[s] = "err"

\* A handler is registered on its own channel only.
HandlersPlaced == \A c \in Chan : handlers[c] # None => ChanOf[handlers[c]] = c

\* Before Run nothing has been read.
SetupFirst == run = "setup" => read = "notStarted" /\ buffered = 0

\* After Close the control handler is not registered; or handleWS has registered
\* it on a hub that its writer had already closed, and then no frame can be read.
ControlGone ==
  once = "complete" =>
    \/ handlers[ChanOf[Control]] # Control
    \/ buffered = 0 /\ read \in {"notStarted", "read", "failed", "exited"}

\* A handler runs while its frame is handled, and at no other time.
HandlerRuns == current # None => read \in {"handle", "blocked"}

IInv ==
  /\ TypeOK /\ CloseOrder /\ LateFailed
  /\ HandlersPlaced /\ SetupFirst /\ ControlGone /\ HandlerRuns
-----------------------------------------------------------------------------
\* Channels of handlers are channels.
LEMMA ChanIn == \A x \in Handler : ChanOf[x] \in Chan
  BY DEF Chan

\* The types, for each action of the hub's goroutines.
LEMMA TypeStep == TypeOK /\ [Next]_vars => TypeOK'
<1> SUFFICES ASSUME TypeOK, [Next]_vars PROVE TypeOK'
  OBVIOUS
<1> USE HandlerAssumption, SizeAssumption, ChanIn
    DEF TypeOK, connVars, closeVars, readVars, sendVars
<1>1. CASE PeerDown
  BY <1>1 DEF PeerDown
<1>1a. CASE CancelCtx
  BY <1>1a DEF CancelCtx
<1>2. CASE Setup
  BY <1>2 DEF Setup
<1>3. CASE RunSelect
  <2>1. /\ run' = "closing"
        /\ UNCHANGED <<peer, ctx, done, conn, once, closer, handlers, queue, read, frame, current,
                       buffered, frames, writer, send, late, result, sends>>
    BY <1>3 DEF RunSelect
  <2>2. readErr' \in BOOLEAN
    BY <1>3, Zenon DEF RunSelect
  <2> QED
    BY <2>1, <2>2
<1>4. CASE Read
  <2>1. ASSUME NEW c \in Chan, ReadFrame(c) PROVE TypeOK'
    BY <2>1 DEF ReadFrame, ReadMessage
  <2>2. CASE ReadIgnored
    BY <2>2 DEF ReadIgnored, ReadMessage
  <2>3. CASE ReadFail
    BY <2>3 DEF ReadFail
  <2>3a. CASE ReadReport
    BY <2>3a DEF ReadReport
  <2>4. CASE ReadLookup
    BY <2>4 DEF ReadLookup
  <2>4a. CASE HandlerBlocks
    BY <2>4a DEF HandlerBlocks
  <2>5. CASE HandleOther
    BY <2>5 DEF HandleOther, HandlerReturns
  <2>6. ASSUME NEW x \in Handler, HandleRegister(x) PROVE TypeOK'
    BY <2>6 DEF HandleRegister, HandlerReturns
  <2>7. ASSUME NEW c \in Chan, HandleUnregister(c) PROVE TypeOK'
    BY <2>7 DEF HandleUnregister, HandlerReturns
  <2> QED
    BY <1>4, <2>1, <2>2, <2>3, <2>3a, <2>4, <2>4a, <2>5, <2>6, <2>7 DEF Read, Handle
<1>5. CASE Writer
  <2>1. CASE WriterDone
    BY <2>1 DEF WriterDone
  <2>2. CASE WriterData
    BY <2>2 DEF WriterData
  <2>3. CASE WriterPing
    BY <2>3 DEF WriterPing
  <2> QED
    BY <1>5, <2>1, <2>2, <2>3 DEF Writer
<1>6. ASSUME NEW g \in Goroutine, Closing(g) PROVE TypeOK'
  <2> USE DEF Goroutine
  <2>1. CASE CloseStart(g)
    BY <1>6, <2>1 DEF Closing, CloseStart
  <2>2. CASE CloseConn(g)
    BY <1>6, <2>2 DEF Closing, CloseConn
  <2>3. CASE CloseHandlers(g)
    BY <1>6, <2>3 DEF Closing, CloseHandlers
  <2>4. CASE CloseReturn(g)
    BY <1>6, <2>4 DEF Closing, CloseReturn
  <2> QED
    BY <1>6, <2>1, <2>2, <2>3, <2>4 DEF Closing
<1>7. ASSUME NEW s \in Sender, SendFirst(s) PROVE TypeOK'
  BY <1>7 DEF SendFirst
<1>8. ASSUME NEW s \in Sender, SendSecond(s) PROVE TypeOK'
  BY <1>8 DEF SendSecond
<1>9. CASE UNCHANGED vars
  BY <1>9 DEF vars
<1> QED
  BY <1>1, <1>1a, <1>2, <1>3, <1>4, <1>5, <1>6, <1>7, <1>8, <1>9 DEF Next

\* Close is one sequence of steps, whoever runs it, and only its end lets Run return.
LEMMA CloseOrderStep == TypeOK /\ CloseOrder /\ [Next]_vars => CloseOrder'
<1> SUFFICES ASSUME TypeOK, CloseOrder, [Next]_vars PROVE CloseOrder'
  OBVIOUS
<1> USE DEF CloseOrder, connVars, closeVars, readVars, sendVars
<1>1. CASE UNCHANGED <<done, once, conn>> /\ (run' = "returned" => run = "returned")
  BY <1>1
<1>2. ASSUME NEW g \in Goroutine, Closing(g) PROVE CloseOrder'
  <2>1. CASE CloseStart(g)
    BY <2>1 DEF CloseStart
  <2>2. CASE CloseConn(g)
    BY <2>2 DEF CloseConn, TypeOK
  <2>3. CASE CloseHandlers(g)
    BY <2>3 DEF CloseHandlers
  <2>4. CASE CloseReturn(g)
    BY <2>4 DEF CloseReturn
  <2> QED
    BY <1>2, <2>1, <2>2, <2>3, <2>4 DEF Closing
<1>3. CASE PeerDown \/ CancelCtx \/ Setup \/ RunSelect \/ Writer
  BY <1>1, <1>3 DEF PeerDown, CancelCtx, Setup, RunSelect, Writer, WriterDone, WriterData, WriterPing
<1>4. CASE Read
  BY <1>1, <1>4 DEF Read, ReadFrame, ReadMessage, ReadIgnored, ReadFail, ReadReport, ReadLookup,
    HandlerBlocks, Handle, HandleOther, HandlerReturns, HandleRegister, HandleUnregister
<1>5. ASSUME NEW s \in Sender, SendFirst(s) \/ SendSecond(s) PROVE CloseOrder'
  BY <1>1, <1>5 DEF SendFirst, SendSecond
<1>6. CASE UNCHANGED vars
  BY <1>1, <1>6 DEF vars
<1> QED
  BY <1>2, <1>3, <1>4, <1>5, <1>6 DEF Next

\* What a late Send has returned stays its result until the sender calls it again.
LEMMA LateStep == TypeOK /\ LateFailed /\ [Next]_vars => LateFailed'
<1> SUFFICES ASSUME TypeOK, LateFailed, [Next]_vars PROVE LateFailed'
  OBVIOUS
<1> USE DEF LateFailed, connVars, closeVars, readVars, sendVars
<1>1. CASE UNCHANGED <<send, late, result>>
  BY <1>1
<1>2. ASSUME NEW s \in Sender, SendFirst(s) PROVE LateFailed'
  <2>1. CASE done
    BY <1>2, <2>1 DEF SendFirst, TypeOK
  <2>2. CASE ~done
    <3>1. late' = [late EXCEPT ![s] = FALSE]
      BY <1>2, <2>2 DEF SendFirst, TypeOK
    <3>2. \A t \in Sender \ {s} : send'[t] = send[t] /\ result'[t] = result[t]
      BY <1>2, <2>2 DEF SendFirst, TypeOK
    <3> QED
      BY <3>1, <3>2 DEF TypeOK
  <2> QED
    BY <2>1, <2>2
<1>3. ASSUME NEW s \in Sender, SendSecond(s) PROVE LateFailed'
  <2>1. ~late[s] /\ late' = late
    BY <1>3 DEF SendSecond
  <2>2. \A t \in Sender \ {s} : send'[t] = send[t] /\ result'[t] = result[t]
    BY <1>3 DEF SendSecond, TypeOK
  <2> QED
    BY <2>1, <2>2
<1>4. CASE PeerDown \/ CancelCtx \/ Setup \/ RunSelect \/ Writer
  BY <1>1, <1>4 DEF PeerDown, CancelCtx, Setup, RunSelect, Writer, WriterDone, WriterData, WriterPing
<1>5. CASE Read
  BY <1>1, <1>5 DEF Read, ReadFrame, ReadMessage, ReadIgnored, ReadFail, ReadReport, ReadLookup,
    HandlerBlocks, Handle, HandleOther, HandlerReturns, HandleRegister, HandleUnregister
<1>6. ASSUME NEW g \in Goroutine, Closing(g) PROVE LateFailed'
  BY <1>1, <1>6 DEF Closing
<1>7. CASE UNCHANGED vars
  BY <1>1, <1>7 DEF vars
<1> QED
  BY <1>2, <1>3, <1>4, <1>5, <1>6, <1>7 DEF Next

\* Registrations keep to the handlers' channels.  Between Close and the end of the
\* read goroutine, which may go on with buffered frames, none brings the control
\* handler back.
LEMMA ControlStep ==
  IInv /\ [Next]_vars => HandlersPlaced' /\ SetupFirst' /\ ControlGone' /\ HandlerRuns'
<1> DEFINE P == HandlersPlaced /\ SetupFirst /\ ControlGone /\ HandlerRuns
<1> SUFFICES ASSUME TypeOK, CloseOrder, P, [Next]_vars PROVE P'
  BY DEF IInv
<1> USE HandlerAssumption, ChanIn
    DEF HandlersPlaced, SetupFirst, ControlGone, HandlerRuns, connVars, closeVars, readVars, sendVars
<1>1. CASE UNCHANGED <<once, handlers, run, read, buffered, current>>
  BY <1>1
<1>2. CASE Setup
  BY <1>2 DEF Setup, TypeOK
<1>3. CASE RunSelect
  BY <1>3 DEF RunSelect
<1>4. CASE Read
  <2>1. ASSUME ReadMessage, UNCHANGED current, read' = read \/ read' = "lookup" PROVE P'
    BY <2>1 DEF ReadMessage, CloseOrder
  <2>2. CASE ReadFail
    BY <2>2 DEF ReadFail
  <2>3. CASE ReadReport
    BY <2>3 DEF ReadReport
  <2>4. CASE ReadLookup
    BY <2>4 DEF ReadLookup
  <2>4a. CASE HandlerBlocks
    BY <2>4a DEF HandlerBlocks
  <2>5. CASE HandleOther
    BY <2>5 DEF HandleOther, HandlerReturns
  <2>6. ASSUME NEW x \in Handler, HandleRegister(x) PROVE P'
    BY <2>6 DEF HandleRegister, HandlerReturns, TypeOK
  <2>7. ASSUME NEW c \in Chan, HandleUnregister(c) PROVE P'
    BY <2>7 DEF HandleUnregister, HandlerReturns, TypeOK
  <2> QED
    BY <1>4, <2>1, <2>2, <2>3, <2>4, <2>4a, <2>5, <2>6, <2>7
    DEF Read, ReadFrame, ReadIgnored, ReadMessage, Handle
<1>5. CASE Writer \/ PeerDown \/ CancelCtx
  BY <1>1, <1>5 DEF Writer, WriterDone, WriterData, WriterPing, PeerDown, CancelCtx
<1>6. ASSUME NEW g \in Goroutine, Closing(g) PROVE P'
  <2>1. CASE CloseStart(g)
    BY <1>6, <2>1 DEF CloseStart, Closing
  <2>2. CASE CloseConn(g)
    BY <1>6, <2>2 DEF CloseConn, Closing
  <2>3. CASE CloseHandlers(g)
    BY <1>6, <2>3 DEF CloseHandlers, Closing
  <2>4. CASE CloseReturn(g)
    BY <1>6, <2>4 DEF CloseReturn, Closing
  <2> QED
    BY <1>6, <2>1, <2>2, <2>3, <2>4 DEF Closing
<1>7. ASSUME NEW s \in Sender, SendFirst(s) \/ SendSecond(s) PROVE P'
  BY <1>1, <1>7 DEF SendFirst, SendSecond
<1>8. CASE UNCHANGED vars
  BY <1>1, <1>8 DEF vars
<1> QED
  BY <1>2, <1>3, <1>4, <1>5, <1>6, <1>7, <1>8 DEF Next

\* The inductive invariant.
THEOREM Invariance == Spec => []IInv
<1>1. Init => IInv
  <2> USE HandlerAssumption, SizeAssumption, ChanIn DEF Init
  <2>1. Init => TypeOK
    <3>1. Init => ctx \in BOOLEAN /\ done \in BOOLEAN /\ readErr \in BOOLEAN
      OBVIOUS
    <3> QED
      BY <3>1 DEF TypeOK
  <2>2. Init => CloseOrder /\ LateFailed
    BY DEF CloseOrder, LateFailed
  <2>3. Init => HandlersPlaced /\ SetupFirst /\ ControlGone /\ HandlerRuns
    BY DEF HandlersPlaced, SetupFirst, ControlGone, HandlerRuns
  <2> QED
    BY <2>1, <2>2, <2>3 DEF IInv
<1>2. IInv /\ [Next]_vars => IInv'
  BY TypeStep, CloseOrderStep, LateStep, ControlStep DEF IInv
<1> QED
  BY <1>1, <1>2, PTL DEF Spec

\* A hub that is closed is closed for good: a Send that starts on it reports an
\* error, and Run has not returned before Close is complete (hub.go, Send and Run).
THEOREM ClosedForGood == Spec => []CloseIsFinal
<1>1. IInv => CloseIsFinal
  BY DEF IInv, CloseOrder, LateFailed, CloseIsFinal, LateSendFails, ReturnedMeansClosed
<1> QED
  BY <1>1, Invariance, PTL

\* After Close no control frame is dispatched, however many frames are left in the
\* read buffer and however late handleWS registers the handlers.
THEOREM ControlStops == Spec => NoControlAfterClose
<1>1. IInv /\ [Next]_vars => [once = "complete" /\ read = "lookup" => current' # Control]_vars
  <2> SUFFICES ASSUME IInv, Next, once = "complete", read = "lookup", current' = Control
               PROVE  UNCHANGED vars
    OBVIOUS
  <2> USE HandlerAssumption DEF IInv, TypeOK, connVars, closeVars, readVars, sendVars
  <2>1. current' = current \/ current' = handlers[frame]
    BY DEF Next, PeerDown, CancelCtx, Setup, RunSelect, Read, ReadFrame, ReadMessage, ReadIgnored,
      ReadFail, ReadReport, ReadLookup, HandlerBlocks, Handle, HandleOther, HandleRegister, HandleUnregister,
      HandlerReturns, Writer, WriterDone, WriterData, WriterPing, Closing, SendFirst, SendSecond
  <2> QED
    BY <2>1 DEF ControlGone, HandlersPlaced, HandlerRuns
<1> QED
  BY <1>1, Invariance, PTL DEF Spec, NoControlAfterClose
-----------------------------------------------------------------------------
(* Tokens *)

\* The server, every deployer that is past the choice of the secret and every
\* token use the secret that the next deploy will find in the file.
SecretKept ==
  spoiled = {} => /\ Up => server = file
                  /\ \A d \in Deployers : dpc[d] \in {"ship", "start"} => dsec[d] = file
                  /\ \A p \in Pages : Holds(p) => tok[p].sec = file

\* Only a deployer that found no secret generates one, and no other one deploys
\* meanwhile, so that it takes the place of none.
WriterAlone ==
  spoiled = {} => /\ \A d \in Deployers : dpc[d] = "write" => file = 0
                  /\ \A d, e \in Deployers : dpc[d] # "idle" /\ dpc[e] # "idle" => d = e

\* The inductive invariant of the tokens.
TokensInv == TokensTypeOK /\ SecretKept /\ WriterAlone

-----------------------------------------------------------------------------
\* Every step of the server, of cmd/deploy and of a page keeps the types: the
\* secret of a token is one that was generated, its end at most a lifetime away.
LEMMA TokensTypeStep == TokensTypeOK /\ [TokensNext]_tokensVars => TokensTypeOK'
<1> SUFFICES ASSUME TokensTypeOK, [TokensNext]_tokensVars PROVE TokensTypeOK'
  OBVIOUS
<1> USE TokensAssumption
<1> USE DEF TokensTypeOK, DeployTo, PageTo, ServerEnds, Up, NoToken, deployVars, pageVars, serverVars
<1>1. CASE Crash
  BY <1>1 DEF Crash
<1>2. CASE StartRandom
  BY <1>2 DEF StartRandom
<1>3. CASE Tick
  BY <1>3 DEF Tick
<1>4. ASSUME NEW d \in Deployers, Deploy(d) PROVE TokensTypeOK'
  <2>1. CASE DeployBegin(d)
    BY <2>1 DEF DeployBegin
  <2>2. CASE Kill(d)
    BY <2>2 DEF Kill
  <2>3. CASE KillFails(d)
    BY <2>3 DEF KillFails
  <2>4. CASE ReadSecret(d)
    BY <2>4 DEF ReadSecret
  <2>5. CASE ReadSecretFails(d)
    BY <2>5 DEF ReadSecretFails
  <2>6. CASE WriteSecret(d)
    BY <2>6 DEF WriteSecret
  <2>7. CASE WriteSecretLost(d)
    BY <2>7 DEF WriteSecretLost
  <2>8. CASE WriteSecretFails(d)
    BY <2>8 DEF WriteSecretFails
  <2>9. CASE Ship(d)
    BY <2>9 DEF Ship
  <2>10. CASE DeployFails(d)
    BY <2>10 DEF DeployFails
  <2>11. CASE Start(d)
    BY <2>11 DEF Start
  <2> QED
    BY <1>4, <2>1, <2>2, <2>3, <2>4, <2>5, <2>6, <2>7, <2>8, <2>9, <2>10, <2>11 DEF Deploy
<1>5. ASSUME NEW p \in Pages, Page(p) PROVE TokensTypeOK'
  <2>1. ASSUME NEW s \in {"login", "auth", "reply", "desk", "check", "open"},
               NEW t \in [sec : 0..MaxSecrets, exp : 0..(MaxClock + TTL)], PageTo(p, s, t)
        PROVE TokensTypeOK'
    BY <2>1
  <2>2. NoToken \in [sec : 0..MaxSecrets, exp : 0..(MaxClock + TTL)]
    OBVIOUS
  <2>3. tok[p] \in [sec : 0..MaxSecrets, exp : 0..(MaxClock + TTL)]
    OBVIOUS
  <2>4. [sec |-> server, exp |-> now + TTL] \in [sec : 0..MaxSecrets, exp : 0..(MaxClock + TTL)]
    OBVIOUS
  <2> HIDE DEF TokensTypeOK, PageTo, NoToken
  <2> QED
    BY <1>5, <2>1, <2>2, <2>3, <2>4
    DEF Page, Submit, AuthIssues, AuthFails, Login, Connect, Refused, ValidateRejects,
        ValidateRetry, ConnectionLost, Logout
<1>6. CASE UNCHANGED tokensVars
  BY <1>6 DEF tokensVars
<1> QED
  BY <1>1, <1>2, <1>3, <1>4, <1>5, <1>6 DEF TokensNext

\* SecretKept and WriterAlone support each other: a new secret takes the place of
\* none because there is no other deployer, no token and no server without one.
LEMMA SecretStep == TokensInv /\ [TokensNext]_tokensVars => SecretKept' /\ WriterAlone'
<1> SUFFICES ASSUME TokensInv, [TokensNext]_tokensVars, spoiled' = {}
             PROVE  SecretKept' /\ WriterAlone'
  BY DEF SecretKept, WriterAlone
<1>0. spoiled = {} /\ TokensTypeOK
  <2>1. TokensTypeOK
    BY DEF TokensInv
  <2>2. CASE UNCHANGED tokensVars
    BY <2>1, <2>2 DEF tokensVars
  <2>3. CASE Crash \/ StartRandom \/ Tick
    BY <2>1, <2>3 DEF Crash, StartRandom, Tick
  <2>4. ASSUME NEW d \in Deployers, Deploy(d) PROVE spoiled = {}
    BY <2>4 DEF Deploy, DeployBegin, Kill, KillFails, ReadSecret, ReadSecretFails, WriteSecret,
      WriteSecretLost, WriteSecretFails, Ship, DeployFails, Start
  <2>5. ASSUME NEW p \in Pages, Page(p) PROVE spoiled = {}
    BY <2>5 DEF Page, PageTo, Submit, AuthIssues, AuthFails, Login, Connect, Refused,
      ValidateRejects, ValidateRetry, ConnectionLost, Logout
  <2> QED
    BY <2>1, <2>2, <2>3, <2>4, <2>5 DEF TokensNext
<1>k. /\ server # 0 => server = file
      /\ \A d \in Deployers : dpc[d] \in {"ship", "start"} => dsec[d] = file
      /\ \A p \in Pages : tok[p].sec # 0 => tok[p].sec = file
      /\ \A d \in Deployers : dpc[d] = "write" => file = 0
      /\ \A d, e \in Deployers : dpc[d] # "idle" /\ dpc[e] # "idle" => d = e
  BY <1>0 DEF TokensInv, SecretKept, WriterAlone, Up, Holds
<1> HIDE DEF TokensInv
<1> USE DEF SecretKept, WriterAlone, Up, Holds, TokensTypeOK
<1>1. CASE Crash
  BY <1>0, <1>k, <1>1 DEF Crash, ServerEnds
<1>2. CASE StartRandom
  BY <1>0, <1>2 DEF StartRandom
<1>3. CASE Tick
  BY <1>0, <1>k, <1>3 DEF Tick, deployVars, pageVars
<1>4. ASSUME NEW d \in Deployers, Deploy(d) PROVE SecretKept' /\ WriterAlone'
  <2> USE <1>0, <1>k DEF DeployTo, serverVars, pageVars
  <2>1. CASE DeployBegin(d)
    BY <2>1 DEF DeployBegin
  <2>2. CASE Kill(d)
    BY <2>2 DEF Kill, ServerEnds
  <2>3. CASE KillFails(d)
    BY <2>3 DEF KillFails
  <2>4. CASE ReadSecret(d)
    BY <2>4 DEF ReadSecret
  <2>5. CASE ReadSecretFails(d)
    BY <2>5 DEF ReadSecretFails
  <2>6. CASE WriteSecret(d)
    BY <2>6 DEF WriteSecret
  <2>7. CASE WriteSecretLost(d)
    BY <2>7 DEF WriteSecretLost
  <2>8. CASE WriteSecretFails(d)
    BY <2>8 DEF WriteSecretFails
  <2>9. CASE Ship(d)
    BY <2>9 DEF Ship
  <2>10. CASE DeployFails(d)
    BY <2>10 DEF DeployFails
  <2>11. CASE Start(d)
    BY <2>11 DEF Start
  <2> QED
    BY <1>4, <2>1, <2>2, <2>3, <2>4, <2>5, <2>6, <2>7, <2>8, <2>9, <2>10, <2>11 DEF Deploy
<1>5. ASSUME NEW p \in Pages, Page(p) PROVE SecretKept' /\ WriterAlone'
  <2>1. ASSUME NEW s, NEW t, PageTo(p, s, t), t.sec # 0 => t.sec = file
        PROVE  SecretKept' /\ WriterAlone'
    BY <1>0, <1>k, <2>1 DEF PageTo
  <2>2. NoToken.sec = 0 /\ [sec |-> server, exp |-> now + TTL].sec = server
    BY DEF NoToken
  <2>3. /\ NoToken.sec # 0 => NoToken.sec = file
        /\ tok[p].sec # 0 => tok[p].sec = file
        /\ [sec |-> server, exp |-> now + TTL].sec # 0 => [sec |-> server, exp |-> now + TTL].sec = file
    BY <1>k, <2>2
  <2> HIDE DEF SecretKept, WriterAlone, TokensTypeOK, Up
  <2> QED
    BY <1>5, <2>1, <2>3
    DEF Page, Submit, AuthIssues, AuthFails, Login, Connect, Refused, ValidateRejects,
        ValidateRetry, ConnectionLost, Logout
<1>6. CASE UNCHANGED tokensVars
  BY <1>0, <1>k, <1>6 DEF tokensVars
<1> QED
  BY <1>1, <1>2, <1>3, <1>4, <1>5, <1>6 DEF TokensNext

\* The inductive invariant.
THEOREM TokensInvariance == TokensSpec => []TokensInv
<1>1. TokensInit => TokensInv
  BY TokensAssumption DEF TokensInit, TokensInv, TokensTypeOK, SecretKept, WriterAlone, Up, Holds, NoToken
<1>2. TokensInv /\ [TokensNext]_tokensVars => TokensInv'
  BY TokensTypeStep, SecretStep DEF TokensInv
<1> QED
  BY <1>1, <1>2, PTL DEF TokensSpec

\* The state of the server, the deployers and the pages keeps its types.
THEOREM TypeCorrect == TokensSpec => []TokensTypeOK
<1>1. TokensInv => TokensTypeOK
  BY DEF TokensInv
<1> QED
  BY <1>1, TokensInvariance, PTL

\* A running server accepts every token that has not expired, whatever deploys,
\* failed deploys and crashes came before (cmd/deploy keeps the secret).
THEOREM TokensSurviveDeploys == TokensSpec => []TokensSurvive
<1>1. TokensInv => TokensSurvive
  BY DEF TokensInv, SecretKept, TokensSurvive, Holds, Accepts, Up
<1> QED
  BY <1>1, TokensInvariance, PTL
=============================================================================
