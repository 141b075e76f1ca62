------------------------------ MODULE HTTPProxy ------------------------------
(***************************************************************************)
(* /_proxy/{port}/... in internal/server/server.go: what a request to a    *)
(* web application on this host looks like when it gets there, what is     *)
(* done to the answer so that the application works below that path, and   *)
(* the relay of a WebSocket.                                               *)
(*                                                                         *)
(* A path is the sequence of its parts: "/" is <<"">>, "/a/" is <<"a", "">>, *)
(* "" is << >>, so that putting paths together is \o. Headers are reduced  *)
(* to what is rewritten; a page of HTML is a sequence of tags. Requests    *)
(* share nothing, so the module follows one at a time.                     *)
(***************************************************************************)
EXTENDS Integers, FiniteSets, SequencesExt

CONSTANTS Requests,     \* [kind, auth, cookies, path]
          Answers,      \* [cookies, location, csp, frame, html, body] of an application
          Paths,        \* paths in an application
          Port,         \* the port in the path of the request
          OtherPorts,   \* ports of other applications
          Longer,       \* strings that begin with Port, but are longer
          MaxBytes      \* bytes each end sends over a relay

Token == "wdd_token"

\* A cookie as r.Cookies() sees it: an odd one is not there, the value of a quoted
\* one is there without its quotes.
Forms == {"plain", "quoted", "odd"}
Cookies == [name : STRING, form : Forms]
TokenParts == [name : {Token}, form : Forms]
OddParts == [name : STRING, form : {"odd"}]

Prefix == <<"_proxy", Port>>
Blank == ""             \* what comes after the last "/"
Root == <<Blank>>

\* A request for another thing than the proxy never gets here; the port of one
\* that does is a number (proxyPathRe), and one that is let in has a token that
\* r.Cookie finds. In the path of a request a part "?" begins with a decoded ? or #,
\* and a part "%" has a decoded % or control character in it. Of what an application
\* answers, "ok" is FALSE where it cannot be parsed, a domain is its own, and "frame"
\* is X-Frame-Options. A location with a host has no relative path, and "BASE" is
\* the tag that injectBaseHref adds, not one of a page.
Parts == Seq(STRING)
ASSUME HTTPAssumption ==
  /\ Port \in STRING \ ({Blank} \cup OtherPorts) /\ Paths \subseteq Parts \ {<< >>}
  /\ \A r \in Requests :
       /\ r \in [kind : {"http", "ws", "badpath"}, auth : {"good", "bad"}, cookies : Seq(Cookies), path : Parts]
       /\ r.auth = "good" => \E i \in DOMAIN r.cookies : r.cookies[i] \in TokenParts \ OddParts
  /\ \A a \in Answers :
       /\ a.cookies \in Seq([ok : BOOLEAN, domain : BOOLEAN, path : Parts]) /\ a.csp \in Seq(Parts)
       /\ a.location \in [ok : BOOLEAN, host : {"none", "self", "other"}, abs : BOOLEAN, ups : Nat, path : Parts]
       /\ a.location.host # "none" => a.location.abs
       /\ a.frame \in BOOLEAN /\ a.html \in BOOLEAN
       /\ a.body \in Parts /\ ~Contains(a.body, "BASE")

NoLocation == [ok |-> TRUE, host |-> "none", abs |-> FALSE, ups |-> 0, path |-> << >>]
NoAnswer ==
  [cookies |-> << >>, location |-> NoLocation, csp |-> << >>, frame |-> FALSE, html |-> FALSE, body |-> << >>]
NoReply == [status |-> 0, cookies |-> << >>, location |-> << >>, csp |-> << >>, frame |-> FALSE, body |-> << >>]
NoRequest == [kind |-> "none", auth |-> "bad", cookies |-> << >>, path |-> << >>]

VARIABLES hpc,      \* where the handler is
          rq,       \* the request
          sent,     \* cookies and path the application gets
          answer,   \* what the application answered
          reply,    \* what the browser gets
          \* Of the two connections, to the browser and to the application:
          conn,     \* "none", "open", "ended" by the peer, "closed"
          stalled,  \* the peer does not read, and the buffers on the way to it are full
          in,       \* bytes on their way from the peer
          got,      \* bytes the peer got
          copier,   \* the goroutine that copies what comes from it
          brBuf     \* bytes the HTTP server has read ahead

msgVars == <<rq, sent, answer, reply>>
bytesVars == <<in, got, brBuf>>
relayVars == <<conn, stalled, copier, bytesVars>>
httpVars == <<hpc, msgVars, relayVars>>

Sides == {"browser", "app"}
Other(s) == IF s = "browser" THEN "app" ELSE "browser"

-----------------------------------------------------------------------------
(* Rewriting                                                               *)

\* Seeded bug: only the first one is removed.
stripFirstCookie(cookies) ==
  IF \E i \in DOMAIN cookies : cookies[i].name = Token
  THEN RemoveAt(cookies, CHOOSE i \in DOMAIN cookies :
                           cookies[i].name = Token /\ \A j \in 1 .. (i - 1) : cookies[j].name # Token)
  ELSE cookies

\* The loop that appends every part but those of X to kept.
Without(s, X) ==
  LET kept[n \in 0 .. Len(s)] ==
        IF n = 0 THEN << >> ELSE IF s[n] \in X THEN kept[n - 1] ELSE Append(kept[n - 1], s[n])
  IN kept[Len(s)]

stripProxyCookie(cookies) == Without(cookies, TokenParts)

\* What r.Cookies() makes of the ones it does not drop.
Unquoted(cookies) ==
  [i \in DOMAIN cookies |->
     [name |-> cookies[i].name, form |-> IF cookies[i].form = "quoted" THEN "plain" ELSE cookies[i].form]]

\* The loop over r.Cookies() in proxyWebSocket.
RelayedCookies(cookies) == Without(Unquoted(cookies), TokenParts \cup OddParts)

removeCSPDirective(policy) == Without(policy, {"frame-ancestors"})

\* Header.Get sees the first policy, Header.Set replaces them all.
RewriteCSP(csp) == IF csp = << >> \/ csp[1] = << >> THEN csp ELSE <<removeCSPDirective(csp[1])>>

\* strings.HasPrefix compares strings, not parts of a path.
HasPrefix(path) == Len(path) >= 2 /\ path[1] = "_proxy" /\ path[2] \in {Port} \cup Longer

rewriteCookiePath(path) ==
  IF path \in {<< >>, Root} THEN Prefix
  ELSE IF HasPrefix(path) THEN path ELSE Prefix \o path

\* A cookie that ParseSetCookie refuses is passed on as it is.
rewriteSetCookie(c) ==
  IF c.ok THEN [ok |-> TRUE, domain |-> FALSE, path |-> rewriteCookiePath(c.path)] ELSE c

\* url.ResolveReference for a relative reference.
Resolve(base, ups, path) ==
  LET n == Len(base) - 1 - ups IN SubSeq(base, 1, IF n < 0 THEN 0 ELSE n) \o path

\* Seeded bug: a relative redirect is not resolved first.
RewriteAnyLocation(loc, rest) == IF loc = NoLocation THEN << >> ELSE Prefix \o loc.path

\* Scheme and host are dropped, the rest is put below the mount point; what is no
\* URL stays as it is.
RewriteLocation(loc, rest) ==
  IF loc = NoLocation THEN << >>
  ELSE IF ~loc.ok THEN loc.path
  ELSE Prefix \o (IF loc.host = "none" /\ ~loc.abs THEN Resolve(rest, loc.ups, loc.path) ELSE loc.path)

\* "<head" also begins "<header"; "cut" is a "<head" without its ">".
IsHead(tag) == tag \in {"head", "header", "cut"}

injectBaseHref(body) ==
  LET first == SelectInSeq(body, IsHead)
      end == SelectInSubSeq(body, first, Len(body), LAMBDA tag : tag # "cut")
  IN IF Contains(body, "base") THEN body
     ELSE IF first = 0 \/ end = 0 THEN <<"BASE">> \o body
     ELSE InsertAt(body, end + 1, "BASE")

\* Status 200 stands for the one of the application's answer.
ModifyResponse(a, rest) ==
  [status |-> 200,
   cookies |-> [i \in DOMAIN a.cookies |-> rewriteSetCookie(a.cookies[i])],
   location |-> RewriteLocation(a.location, rest),
   csp |-> RewriteCSP(a.csp),
   frame |-> FALSE,
   body |-> IF a.html THEN injectBaseHref(a.body) ELSE a.body]

-----------------------------------------------------------------------------
(* Handling a request                                                      *)

HTTPInit ==
  /\ hpc = "idle" /\ rq = NoRequest /\ sent = NoRequest
  /\ answer = NoAnswer /\ reply = NoReply
  /\ conn = [s \in Sides |-> "none"] /\ copier = [s \in Sides |-> "none"]
  /\ stalled = [s \in Sides |-> FALSE]
  /\ in = [s \in Sides |-> << >>] /\ got = [s \in Sides |-> << >>] /\ brBuf = << >>

\* The handler goes from step a to step b.
Goes(a, b) == hpc = a /\ hpc' = b

ReplyStatus(n) == reply' = [NoReply EXCEPT !.status = n] /\ UNCHANGED <<rq, sent, answer>>

Request(r) ==
  /\ Goes("idle", "check")
  /\ rq' = r
  /\ conn' = [conn EXCEPT !["browser"] = "open"]
  /\ UNCHANGED <<sent, answer, reply, stalled, copier, bytesVars>>

\* No cookie, or a token that is not valid.
Unauthorized ==
  /\ Goes("check", "done") /\ rq.auth = "bad"
  /\ ReplyStatus(401) /\ UNCHANGED relayVars

\* Not /_proxy/{port}/...
BadPath ==
  /\ Goes("check", "done") /\ rq.auth = "good" /\ rq.kind = "badpath"
  /\ ReplyStatus(400) /\ UNCHANGED relayVars

\* The path below the mount point: "" becomes "/".
Rest == IF rq.path = << >> THEN Root ELSE rq.path

\* What the application gets of the request, without and with an upgrade.
Outgoing == [rq EXCEPT !.cookies = stripProxyCookie(@), !.path = Rest]
Upgrading(path) == [rq EXCEPT !.cookies = RelayedCookies(@), !.path = path]

\* http.NewRequest parses the decoded path once more: ? and # end it, and % makes
\* another one of it.
Reparsed(path) ==
  LET cut == SelectInSeq(path, LAMBDA part : part = "?")
      kept == IF cut = 0 THEN path ELSE SubSeq(path, 1, cut - 1) \o Root
  IN IF Contains(kept, "%") THEN Paths ELSE {kept}

Forward ==
  /\ Goes("check", "forward") /\ rq.auth = "good" /\ rq.kind = "http"
  /\ sent' = Outgoing
  /\ UNCHANGED <<rq, answer, reply, relayVars>>

Respond(a) ==
  /\ Goes("forward", "done")
  /\ answer' = a
  /\ reply' = ModifyResponse(a, sent.path)
  /\ UNCHANGED <<rq, sent, relayVars>>

\* No answer, or its body breaks off while it is read for rewriting.
ForwardFails == Goes("forward", "done") /\ ReplyStatus(502) /\ UNCHANGED relayVars

Dial ==
  /\ Goes("check", "write") /\ rq.auth = "good" /\ rq.kind = "ws"
  /\ conn' = [conn EXCEPT !["app"] = "open"]
  /\ UNCHANGED <<msgVars, stalled, copier, bytesVars>>

DialFails ==
  /\ Goes("check", "done") /\ rq.auth = "good" /\ rq.kind = "ws"
  /\ ReplyStatus(502) /\ UNCHANGED relayVars

\* http.NewRequest fails.
BadUpstreamRequest ==
  /\ Goes("write", "done") /\ Contains(Rest, "%")
  /\ conn' = [conn EXCEPT !["app"] = "closed"]
  /\ ReplyStatus(500) /\ UNCHANGED <<stalled, copier, bytesVars>>

\* A request is small enough for the buffers of a connection that is new.
WriteRequest ==
  /\ Goes("write", "hijack")
  /\ \E path \in Reparsed(Rest) : sent' = Upgrading(path)
  /\ UNCHANGED <<rq, answer, reply, relayVars>>

WriteRequestFails ==
  /\ Goes("write", "done")
  /\ conn' = [conn EXCEPT !["app"] = "closed"]
  /\ ReplyStatus(502) /\ UNCHANGED <<stalled, copier, bytesVars>>

\* The HTTP server hands over the connection with what it has read of it.
Hijack ==
  /\ Goes("hijack", "relay")
  /\ copier' = [s \in Sides |-> "copy"]
  /\ \E n \in 0 .. Len(in["browser"]) :
       /\ brBuf' = SubSeq(in["browser"], 1, n)
       /\ in' = [in EXCEPT !["browser"] = SubSeq(@, n + 1, Len(@))]
  /\ UNCHANGED <<msgVars, conn, stalled, got>>

\* Without the browser's connection there is nobody to answer.
HijackFails ==
  /\ Goes("hijack", "done") /\ conn["browser"] = "ended"
  /\ conn' = [conn EXCEPT !["app"] = "closed"]
  /\ UNCHANGED <<msgVars, stalled, copier, bytesVars>>

\* What has come from s and has not been passed on.
Unread(s) == (IF s = "browser" THEN brBuf ELSE << >>) \o in[s]

\* The peers send and hang up at any time; the application speaks when spoken to.
PeerSends(s) ==
  /\ conn[s] = "open" /\ rq.kind = "ws" /\ (s = "app" => sent # NoRequest)
  /\ LET n == Len(got[Other(s)] \o Unread(s))
     IN n < MaxBytes /\ in' = [in EXCEPT ![s] = Append(@, n + 1)]
  /\ UNCHANGED <<hpc, msgVars, conn, stalled, copier, got, brBuf>>

PeerEnds(s) ==
  /\ conn[s] = "open" /\ rq.kind = "ws" /\ conn' = [conn EXCEPT ![s] = "ended"]
  /\ UNCHANGED <<hpc, msgVars, stalled, copier, bytesVars>>

\* A peer stops reading or reads on as it likes; a write to it waits meanwhile.
PeerStalls(s) ==
  /\ conn[s] = "open" /\ conn["app"] # "none" /\ stalled' = [stalled EXCEPT ![s] = ~@]
  /\ UNCHANGED <<hpc, msgVars, conn, copier, bytesVars>>

\* Seeded bug: io.Copy(upConn, brConn), which does not see the buffer.
CopyUnbuffered(s) ==
  /\ copier[s] = "copy" /\ conn[s] # "closed" /\ conn[Other(s)] = "open" /\ ~stalled[Other(s)] /\ in[s] # << >>
  /\ got' = [got EXCEPT ![Other(s)] = Append(@, Head(in[s]))]
  /\ in' = [in EXCEPT ![s] = Tail(@)]
  /\ UNCHANGED <<hpc, msgVars, conn, stalled, copier, brBuf>>

\* io.Copy from s; bytes that are in the buffer come first.
Copy(s) ==
  /\ copier[s] = "copy" /\ conn[s] # "closed" /\ conn[Other(s)] = "open" /\ ~stalled[Other(s)]
  /\ Unread(s) # << >>
  /\ got' = [got EXCEPT ![Other(s)] = Append(@, Head(Unread(s)))]
  /\ IF s = "browser" /\ brBuf # << >>
     THEN brBuf' = Tail(brBuf) /\ UNCHANGED in
     ELSE in' = [in EXCEPT ![s] = Tail(@)] /\ UNCHANGED brBuf
  /\ UNCHANGED <<hpc, msgVars, conn, stalled, copier>>

\* io.Copy returns: its source has ended, one of the connections is closed, or the
\* peer it has to write to has hung up.
CopyReturns(s) ==
  /\ copier[s] = "copy" /\ copier' = [copier EXCEPT ![s] = "end"]
  /\ \/ conn[s] = "closed"
     \/ conn[s] = "ended" /\ Unread(s) = << >>
     \/ Unread(s) # << >> /\ conn[Other(s)] # "open"
  /\ UNCHANGED <<hpc, msgVars, stalled, bytesVars>>

\* Seeded bug: no closeBoth after the copy.
CopyEndsQuietly(s) == CopyReturns(s) /\ UNCHANGED conn

\* closeBoth
CopyEnds(s) == CopyReturns(s) /\ conn' = [t \in Sides |-> "closed"]

\* The handler returns when the copy to the browser has.
RelayReturns ==
  /\ Goes("relay", "done") /\ copier["app"] = "end"
  /\ UNCHANGED <<msgVars, relayVars>>

HTTPNext ==
  \/ \E r \in Requests : Request(r)
  \/ Unauthorized \/ BadPath \/ Forward \/ ForwardFails \/ Dial \/ DialFails
  \/ \E a \in Answers : Respond(a)
  \/ WriteRequest \/ WriteRequestFails \/ BadUpstreamRequest \/ Hijack \/ HijackFails \/ RelayReturns
  \/ \E s \in Sides : PeerSends(s) \/ PeerEnds(s) \/ PeerStalls(s) \/ Copy(s) \/ CopyEnds(s)

\* Reads and writes return once there is something to read, room for what is
\* written or an end to report. Nothing is assumed of the peers: none has to read,
\* and no write has a deadline.
HTTPFairness ==
  /\ WF_httpVars(WriteRequest \/ WriteRequestFails \/ BadUpstreamRequest) /\ WF_httpVars(Hijack \/ HijackFails)
  /\ WF_httpVars(RelayReturns)
  /\ \A s \in Sides : WF_httpVars(Copy(s)) /\ WF_httpVars(CopyEnds(s))

-----------------------------------------------------------------------------
\* t is what s has at the places where it has nothing of X, in the same order.
IsRest(t, s, X) ==
  \E place \in [DOMAIN t -> DOMAIN s] :
    /\ {place[i] : i \in DOMAIN t} = {j \in DOMAIN s : s[j] \notin X}
    /\ \A i, j \in DOMAIN t : i < j => place[i] < place[j]
    /\ \A i \in DOMAIN t : t[i] = s[place[i]]

\* The application gets the browser's cookies in order, but never the token that
\* opens the desktop, on neither way through the handler ("internal auth cookie
\* that must not leak", handleHTTPProxy), however often it is in the header. With an
\* upgrade the cookies are those r.Cookies() finds, without quotes (proxyWebSocket).
TokenStays ==
  sent # NoRequest =>
    /\ \A i \in DOMAIN sent.cookies : sent.cookies[i].name # Token
    /\ rq.kind = "http" => IsRest(sent.cookies, rq.cookies, TokenParts)
    /\ rq.kind = "ws" => IsRest(sent.cookies, Unquoted(rq.cookies), TokenParts \cup OddParts)

\* RFC 6265: the browser sends a cookie with this path along with this request.
PathMatch(c, path) ==
  LET dir == IF c # << >> /\ Last(c) = Blank THEN Front(c) ELSE c
  IN Len(path) >= Len(c) /\ IsPrefix(dir, path)

\* An application that knows the path it is mounted on uses it by itself.
KnowsMount(path) == Len(path) >= 2 /\ path[1] = "_proxy" /\ path[2] = Port

\* A path that only looks like the mount point, compared as a string.
LooksMounted(path) == HasPrefix(path) /\ ~KnowsMount(path)

\* RFC 6265: without a path a cookie has the directory of the request's.
DefaultPath(path) == IF Len(path) = 1 THEN Root ELSE Front(path)

\* rewriteSetCookieHeaders: the browser sends a cookie back with every request that
\* the application expects it with, with no others if the cookie names its path (one
\* without a path goes to the whole application), and with none to another
\* application. Excluded: a cookie that ParseSetCookie refuses, which keeps its path
\* and domain, and one for "/_proxy/800" set by port 80, which is taken for one that
\* is below "/_proxy/80" already. (Paths in cookies begin with "/" or are missing.)
CookieReach ==
  \A i \in DOMAIN reply.cookies :
    LET old == answer.cookies[i]
        new == reply.cookies[i]
        own == IF old.path = << >> THEN DefaultPath(sent.path) ELSE old.path
        expects(p) == IF KnowsMount(old.path) THEN PathMatch(own, Prefix \o p)
                      ELSE PathMatch(own, IF p = << >> THEN Root ELSE p)
        gets(p) == ~new.domain /\ PathMatch(new.path, Prefix \o p)
    IN old.ok /\ ~LooksMounted(old.path) =>
         /\ \A p \in Paths \cup {<< >>} : expects(p) => gets(p)
         /\ old.path # << >> => \A p \in Paths \cup {<< >>} : gets(p) => expects(p)
         /\ \A q \in OtherPorts, p \in Paths : ~PathMatch(new.path, <<"_proxy", q>> \o p)

\* What a reference means at the application itself: ".." goes up one
\* directory, but not above the root.
Meant(loc, path) ==
  LET climb[n \in Nat] == IF n = 0 THEN Front(path)
                          ELSE IF climb[n - 1] = << >> THEN << >> ELSE Front(climb[n - 1])
  IN IF loc.abs THEN loc.path ELSE climb[loc.ups] \o loc.path

\* A redirect leads the browser to the path the application meant, below the
\* mount point ("redirects stay within the proxy path", handleHTTPProxy).
\* Excluded: what is no URL and stays as it is, a redirect to another host, whose
\* name is dropped, and one that contains the mount point already, which is then
\* there twice.
RedirectLands ==
  reply.location # << >> /\ answer.location.ok /\ answer.location.host # "other" /\ ~KnowsMount(answer.location.path)
    => reply.location = Prefix \o Meant(answer.location, sent.path)

\* The page can be shown in a frame, and what else the policy of the application
\* demands still holds (removeCSPDirective). Excluded: a second policy, which
\* is lost, or stays as it is after an empty one.
Embeddable ==
  reply.status = 200 =>
    /\ ~reply.frame
    /\ answer.csp # << >> /\ answer.csp[1] # << >> =>
         \A i \in DOMAIN reply.csp : ~Contains(reply.csp[i], "frame-ancestors")
    /\ Len(answer.csp) = 1 =>
         Len(reply.csp) = 1 /\ IsRest(reply.csp[1], answer.csp[1], {"frame-ancestors"})

\* injectBaseHref changes nothing of a page but for one base tag, which comes
\* before every link the head contains; what is no page stays as it is. Excluded:
\* pages with a base tag of their own, and a header before the head.
BaseFirst ==
  LET own == SelectInSeq(reply.body, LAMBDA tag : tag = "BASE")
      head == SelectInSeq(answer.body, LAMBDA tag : tag = "head")
  IN reply.status = 200 =>
       /\ ~answer.html => reply.body = answer.body
       /\ answer.html /\ ~Contains(answer.body, "base") =>
            /\ own # 0 /\ RemoveAt(reply.body, own) = answer.body
            /\ head # 0 /\ head = SelectInSeq(answer.body, IsHead) => own = head + 1
            /\ SelectInSeq(answer.body, IsHead) = 0 => own = 1

\* What the application meant is what the browser does, below the mount point.
AnswerMeant == CookieReach /\ RedirectLands /\ Embeddable /\ BaseFirst

\* The relay delivers what was sent, from the first byte and in order, also the
\* bytes the HTTP server had read before the connection was taken over.
RelayFaithful ==
  \A s \in Sides : LET bytes == got[Other(s)] \o Unread(s) IN bytes = [i \in DOMAIN bytes |-> i]

\* "Close both connections once either side stops" (proxyWebSocket): no
\* connection and no goroutine is left behind, wherever the peers hang up, unless
\* the other peer stops reading before it has what is on its way to it.
RelayEnds ==
  (conn["app"] # "none" /\ \E s \in Sides : conn[s] = "ended")
    ~> \/ conn["app"] = "closed" /\ hpc = "done" /\ \A s \in Sides : copier[s] # "copy"
       \/ \E s \in Sides : conn[s] = "open" /\ stalled[s] /\ Unread(Other(s)) # << >>
=============================================================================
