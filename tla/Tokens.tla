------------------------------- MODULE Tokens -------------------------------
(***************************************************************************)
(* Who is let in, and for how long: the signing secret of the server       *)
(* (main.go), the tokens it issues and accepts (auth.go, the handlers of   *)
(* /auth, /validate and /ws), the deployment tool that stops a server,     *)
(* finds its secret on the remote host and starts the next one with it     *)
(* (cmd/deploy), and the page that holds a token.                          *)
(*                                                                         *)
(* A secret is a number, 0 stands for none; a token is the secret it was   *)
(* signed with and the time it expires.                                    *)
(***************************************************************************)
EXTENDS Naturals, FiniteSets

CONSTANTS Deployers,     \* runs of cmd/deploy, by several people
          Pages,         \* browser pages
          TTL,           \* lifetime of a token
          MaxClock,      \* bound on the clock
          MaxSecrets     \* bound on the secrets generated

ASSUME TokensAssumption ==
         /\ TTL \in Nat \ {0}
         /\ MaxClock \in Nat
         /\ MaxSecrets \in Nat

VARIABLES now,        \* the clock
          server,     \* secret of the running server, 0: none runs
          file,       \* secret in ~/.config/webdesktopd/env, 0: no line of it
          fresh,      \* the last secret generated
          dpc,        \* where a deployer is in main
          dsec,       \* its variable jwtSecret
          page,       \* where a page is
          tok,        \* its token
          spoiled     \* history: what has come between a token and its server

serverVars == <<now, server, fresh>>
deployVars == <<dpc, dsec>>
pageVars == <<page, tok>>
tokensVars == <<now, server, file, fresh, dpc, dsec, page, tok, spoiled>>

NoToken == [sec |-> 0, exp |-> 0]
Up == server # 0
Accepts(s, t) == s # 0 /\ t.sec = s /\ now < t.exp

TokensTypeOK ==
  /\ now \in 0..MaxClock
  /\ {server, file, fresh} \subseteq 0..MaxSecrets
  /\ dpc \in [Deployers -> {"idle", "kill", "read", "write", "ship", "start"}]
  /\ dsec \in [Deployers -> 0..MaxSecrets]
  /\ page \in [Pages -> {"login", "auth", "reply", "desk", "check", "open"}]
  /\ tok \in [Pages -> [sec : 0..MaxSecrets, exp : 0..(MaxClock + TTL)]]
  /\ spoiled \subseteq {"misread", "lost", "overlap", "random"}

TokensInit ==
  /\ now = 0
  /\ server = 0 /\ file = 0 /\ fresh = 0
  /\ dpc = [d \in Deployers |-> "idle"] /\ dsec = [d \in Deployers |-> 0]
  /\ page = [p \in Pages |-> "login"] /\ tok = [p \in Pages |-> NoToken]
  /\ spoiled = {}

-----------------------------------------------------------------------------
(* The server                                                              *)

\* The end of a server closes its connections and fails the requests it is
\* working on.
ServerEnds ==
  /\ server' = 0
  /\ page' = [p \in Pages |-> IF page[p] = "open" THEN "desk"
                             ELSE IF page[p] = "auth" THEN "login" ELSE page[p]]

Crash ==
  /\ Up /\ ServerEnds
  /\ UNCHANGED <<now, file, fresh, dpc, dsec, tok, spoiled>>

\* Started without JWT_SECRET, the server makes up a secret of its own.
StartRandom ==
  /\ ~Up /\ fresh < MaxSecrets
  /\ fresh' = fresh + 1
  /\ server' = fresh'
  /\ spoiled' = spoiled \cup {"random"}
  /\ UNCHANGED <<now, file, deployVars, pageVars>>

Tick ==
  /\ now < MaxClock
  /\ now' = now + 1
  /\ UNCHANGED <<server, file, fresh, deployVars, pageVars, spoiled>>

-----------------------------------------------------------------------------
(* cmd/deploy                                                              *)

\* Deployer d goes on to step s with jwtSecret = k.
DeployTo(d, s, k) ==
  /\ dpc' = [dpc EXCEPT ![d] = s]
  /\ dsec' = [dsec EXCEPT ![d] = k]

\* Connected, architecture known.
DeployBegin(d) ==
  /\ dpc[d] = "idle"
  /\ DeployTo(d, "kill", 0)
  /\ spoiled' = IF \E e \in Deployers : dpc[e] # "idle" THEN spoiled \cup {"overlap"} ELSE spoiled
  /\ UNCHANGED <<serverVars, file, pageVars>>

Kill(d) ==
  /\ dpc[d] = "kill"
  /\ DeployTo(d, "read", 0)
  /\ ServerEnds
  /\ UNCHANGED <<now, fresh, file, tok, spoiled>>

\* runRemoteIgnoreErr: without a session nothing is killed, and nobody told.
KillFails(d) ==
  /\ dpc[d] = "kill"
  /\ DeployTo(d, "read", 0)
  /\ UNCHANGED <<serverVars, file, pageVars, spoiled>>

ReadSecret(d) ==
  /\ dpc[d] = "read"
  /\ DeployTo(d, IF file = 0 THEN "write" ELSE "ship", file)
  /\ UNCHANGED <<serverVars, file, pageVars, spoiled>>

\* A command that could not be run looks like a file that is not there.
ReadSecretFails(d) ==
  /\ dpc[d] = "read"
  /\ DeployTo(d, "write", 0)
  /\ spoiled' = IF file = 0 THEN spoiled ELSE spoiled \cup {"misread"}
  /\ UNCHANGED <<serverVars, file, pageVars>>

\* Seeded bug: the secret is generated and used, but not persisted.
WriteSecretForgets(d) ==
  /\ dpc[d] = "write" /\ fresh < MaxSecrets
  /\ fresh' = fresh + 1
  /\ DeployTo(d, "ship", fresh')
  /\ UNCHANGED <<now, server, file, pageVars, spoiled>>

WriteSecret(d) ==
  /\ dpc[d] = "write" /\ fresh < MaxSecrets
  /\ fresh' = fresh + 1
  /\ file' = fresh'
  /\ DeployTo(d, "ship", fresh')
  /\ UNCHANGED <<now, server, pageVars, spoiled>>

\* The disk is full: printf fails after the shell has emptied the file, and the
\* exit status is that of the chmod after it.
WriteSecretLost(d) ==
  /\ dpc[d] = "write" /\ fresh < MaxSecrets
  /\ fresh' = fresh + 1
  /\ file' = 0
  /\ DeployTo(d, "ship", fresh')
  /\ spoiled' = spoiled \cup {"lost"}
  /\ UNCHANGED <<now, server, pageVars>>

\* log.Fatalf; the script may have come to its end all the same.
WriteSecretFails(d) ==
  /\ dpc[d] = "write" /\ fresh < MaxSecrets
  /\ fresh' = fresh + 1
  /\ file' \in {file, 0, fresh'}
  /\ DeployTo(d, "idle", 0)
  /\ UNCHANGED <<now, server, pageVars, spoiled>>

\* Build, upload and chmod.
Ship(d) ==
  /\ dpc[d] = "ship"
  /\ DeployTo(d, "start", dsec[d])
  /\ UNCHANGED <<serverVars, file, pageVars, spoiled>>

\* log.Fatalf in one of the other steps; what is done is not undone.
DeployFails(d) ==
  /\ dpc[d] \in {"kill", "ship", "start"}
  /\ DeployTo(d, "idle", 0)
  /\ UNCHANGED <<serverVars, file, pageVars, spoiled>>

\* A second server cannot listen on the port and exits; the tool says that
\* webdesktopd is running in any case.
Start(d) ==
  /\ dpc[d] = "start"
  /\ DeployTo(d, "idle", 0)
  /\ server' = IF Up THEN server ELSE dsec[d]
  /\ UNCHANGED <<now, fresh, file, pageVars, spoiled>>

-----------------------------------------------------------------------------
(* The page                                                                *)

PageTo(p, s, t) ==
  /\ page' = [page EXCEPT ![p] = s]
  /\ tok' = [tok EXCEPT ![p] = t]
  /\ UNCHANGED <<now, server, file, fresh, dpc, dsec, spoiled>>

Submit(p) == page[p] = "login" /\ PageTo(p, IF Up THEN "auth" ELSE "login", NoToken)

\* sshd accepts the credentials; the token is on its way.
AuthIssues(p) ==
  page[p] = "auth" /\ Up /\ PageTo(p, "reply", [sec |-> server, exp |-> now + TTL])

\* sshd refuses, cannot be reached, or ten seconds have passed.
AuthFails(p) == page[p] = "auth" /\ PageTo(p, "login", NoToken)

Login(p) == page[p] = "reply" /\ PageTo(p, "desk", tok[p])

\* handleWS accepts the token: from now on nothing looks at it any more.
Connect(p) == page[p] = "desk" /\ Accepts(server, tok[p]) /\ PageTo(p, "open", tok[p])

\* The socket closes before it has been open: no server, a refusal, a fault.
Refused(p) == page[p] = "desk" /\ PageTo(p, "check", tok[p])

\* Seeded bug: the answer is taken for an unreachable server.
ValidateIgnored(p) ==
  page[p] = "check" /\ Up /\ ~Accepts(server, tok[p]) /\ PageTo(p, "desk", tok[p])

\* /validate answers 401: the page logs out.
ValidateRejects(p) ==
  page[p] = "check" /\ Up /\ ~Accepts(server, tok[p]) /\ PageTo(p, "login", NoToken)

\* /validate accepts the token or does not answer within three seconds.
ValidateRetry(p) == page[p] = "check" /\ PageTo(p, "desk", tok[p])

ConnectionLost(p) == page[p] = "open" /\ PageTo(p, "desk", tok[p])

Logout(p) == page[p] \in {"desk", "check", "open"} /\ PageTo(p, "login", NoToken)

-----------------------------------------------------------------------------
Deploy(d) ==
  \/ DeployBegin(d) \/ Kill(d) \/ KillFails(d) \/ ReadSecret(d) \/ ReadSecretFails(d)
  \/ WriteSecret(d) \/ WriteSecretLost(d) \/ WriteSecretFails(d) \/ Ship(d)
  \/ DeployFails(d) \/ Start(d)

Page(p) ==
  \/ Submit(p) \/ AuthIssues(p) \/ AuthFails(p) \/ Login(p) \/ Connect(p) \/ Refused(p)
  \/ ValidateRejects(p) \/ ValidateRetry(p) \/ ConnectionLost(p) \/ Logout(p)

TokensNext ==
  \/ Crash \/ StartRandom \/ Tick
  \/ \E d \in Deployers : Deploy(d)
  \/ \E p \in Pages : Page(p)

\* A socket opens or fails and is tried again; a server that is asked again and
\* again answers within the time limit at some point, and lets a good token in.
TokensFairness ==
  \A p \in Pages :
    /\ WF_tokensVars(Refused(p)) /\ WF_tokensVars(ValidateRetry(p))
    /\ SF_tokensVars(Connect(p)) /\ SF_tokensVars(ValidateRejects(p))

TokensSpec == TokensInit /\ [][TokensNext]_tokensVars /\ TokensFairness

-----------------------------------------------------------------------------
\* A token that has been issued, held by a page or on its way to it.
Holds(p) == tok[p].sec # 0

\* Tokens survive redeploys (the comment in deploy's main): whatever deploys,
\* failed deploys and crashes have happened, a server that runs accepts every
\* token that has not expired. Excluded is what really breaks it: the secret
\* could not be read or kept, two deploys at a time, a server started without
\* a secret.
TokensSurvive ==
  (spoiled = {} /\ Up) => \A p \in Pages : Holds(p) /\ now < tok[p].exp => Accepts(server, tok[p])

\* A page that has lost its connection ends up connected or, when its token is
\* not accepted any more, at the login; it does not retry for ever, once a
\* server stays up (the close handler of client.ts and /validate).
Settles ==
  (<>[]Up) => \A p \in Pages : page[p] \in {"desk", "check"} ~> page[p] \in {"open", "login"}
=============================================================================
