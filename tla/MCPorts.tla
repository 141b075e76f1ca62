------------------------------ MODULE MCPorts ------------------------------
(* The HTTP proxy and the TCP proxy, which share no state: a behaviour is    *)
(* one request or the life of one TCP proxy. The answers of the application  *)
(* have one header or a body each, since they are rewritten one by one.      *)
EXTENDS HTTPProxy, PortProxy

Seqs(S, n) == UNION {[1 .. k -> S] : k \in 0 .. n}

MCPaths == {<<"">>, <<"a">>, <<"a", "">>, <<"a", "b">>, <<"ab">>}
Token1 == [name |-> "wdd_token", form |-> "plain"]
App1 == [name |-> "app", form |-> "quoted"]
Headers == {c \in Seqs([name : {"wdd_token", "app"}, form : Forms], 2) :
              \E i \in DOMAIN c : c[i] \in TokenParts \ OddParts}
MCRequests ==
  [kind : {"ws", "badpath"}, auth : {"good", "bad"}, cookies : {<<Token1, App1>>}, path : {<<"a">>}]
    \cup [kind : {"ws"}, auth : {"good"}, 
      cookies : {<<[App1 EXCEPT !.form = "odd"], Token1>>}, path : {<<"a", "?", "b">>, <<"%">>}]
    \cup [kind : {"http"}, auth : {"good"}, cookies : Headers, path : {<< >>}]
    \cup [kind : {"http"}, auth : {"good"}, cookies : {<<Token1>>}, path : MCPaths]

Plain == [NoAnswer EXCEPT !.frame = TRUE]
Mounted == {<<"_proxy", p>> \o q : p \in {"80", "800", "81"}, q \in MCPaths \cup {<< >>}}
Locations ==
  [ok : {TRUE}, host : {"none", "self", "other"}, abs : {TRUE}, ups : {0}, path : MCPaths \cup Mounted]
    \cup [ok : {FALSE}, host : {"none"}, abs : {TRUE}, ups : {0}, path : MCPaths]
    \cup [ok : {TRUE}, host : {"none"}, abs : {FALSE}, ups : 0 .. 2, path : MCPaths]
SetCookies == [ok : BOOLEAN, domain : BOOLEAN, path : MCPaths \cup Mounted \cup {<< >>}]
MCAnswers ==
  {[Plain EXCEPT !.cookies = <<c, [ok |-> TRUE, domain |-> FALSE, path |-> <<"a">>]>>] : c \in SetCookies}
    \cup {[Plain EXCEPT !.location = l] : l \in Locations}
    \cup {[Plain EXCEPT !.csp = c] : c \in Seqs(Seqs({"frame-ancestors", "default-src"}, 2), 2)}
    \cup {[Plain EXCEPT !.html = TRUE, !.body = b] : b \in Seqs({"head", "header", "cut", "link", "base"}, 3)}
    \cup {[Plain EXCEPT !.body = b] : b \in Seqs({"head", "base"}, 1)}

VARIABLE part   \* what the behaviour is about

requesting == part = "http" /\ HTTPNext /\ UNCHANGED <<proxyVars, part>>
tunnelling == part = "tcp" /\ ProxyNext /\ UNCHANGED <<httpVars, part>>

MCInit == HTTPInit /\ ProxyInit /\ part \in {"http", "tcp"}
MCNext == requesting \/ tunnelling

Spec ==
  /\ MCInit
  /\ [][MCNext]_<<httpVars, proxyVars, part>>
  /\ HTTPFairness /\ ProxyFairness
=============================================================================
