------------------------------ MODULE PortScan ------------------------------
(***************************************************************************)
(* internal/server/portscan.go: finding the listening ports and the        *)
(* processes behind them from /proc, while sockets are opened, shared with *)
(* a child and closed. A scan reads the two tables of sockets, then the    *)
(* descriptors of one process after another.                               *)
(***************************************************************************)
EXTENDS Integers, Sequences, FiniteSets

CONSTANTS Inodes,   \* of sockets
          Ports,    \* port numbers
          PIDs      \* process numbers

ASSUME PortScanAssumption ==
  IsFiniteSet(Inodes) /\ Ports \subseteq Nat \ {0} /\ PIDs \subseteq Nat \ {0}

VARIABLES sock,         \* the listening sockets of the host: [port, tab, owners]
          spc,          \* where scanListeningPorts is
          inodePorts,   \* port by inode, 0: not there
          inodePID,     \* process by inode, 0: not there
          procs,        \* processes whose descriptors have not been read yet
          result,       \* what it returned
          tabs, known,  \* history: the tables that could be opened; the processes
                        \* whose descriptors could be read
          kept, had     \* history: who has held which socket all through the scan;
                        \* and which port at any time during it

scanVars == <<sock, spc, inodePorts, inodePID, procs, result, tabs, known, kept, had>>

NoSock == [port |-> 0, tab |-> "tcp", owners |-> {}]
Nothing == [i \in Inodes |-> 0]
Holding == {h \in Inodes \X PIDs : h[2] \in sock[h[1]].owners}
PortsHeld == {<<sock[h[1]].port, h[2]>> : h \in Holding}

ScanInit ==
  /\ sock = [i \in Inodes |-> NoSock]
  /\ spc = "off" /\ procs = {} /\ result = << >>
  /\ inodePorts = Nothing /\ inodePID = Nothing
  /\ tabs = {} /\ known = {} /\ kept = {} /\ had = {}

\* The kernel's table of sockets changes; a socket is gone when nobody holds it.
SetSock(i, s) ==
  /\ sock' = [sock EXCEPT ![i] = IF s.owners = {} THEN NoSock ELSE s]
  /\ kept' = kept \ {<<i, p>> : p \in PIDs \ s.owners}
  /\ had' = IF spc = "off" THEN had ELSE had \cup {<<s.port, p>> : p \in s.owners}
  /\ UNCHANGED <<spc, inodePorts, inodePID, procs, result, tabs, known>>

\* Numbers of inodes are not used again while a scan knows them.
Listen(i, port, tab, p) ==
  /\ sock[i] = NoSock /\ (inodePorts[i] = 0 \/ spc = "done")
  /\ SetSock(i, [port |-> port, tab |-> tab, owners |-> {p}])

Inherit(i, p) ==
  sock[i] # NoSock /\ p \notin sock[i].owners /\ SetSock(i, [sock[i] EXCEPT !.owners = @ \cup {p}])

CloseFd(i, p) == p \in sock[i].owners /\ SetSock(i, [sock[i] EXCEPT !.owners = @ \ {p}])

ScanStart ==
  /\ spc = "off" /\ spc' = "tcp"
  /\ kept' = Holding /\ had' = PortsHeld
  /\ UNCHANGED <<sock, inodePorts, inodePID, procs, result, tabs, known>>

\* One pass over /proc/net/tcp or tcp6, unless the table cannot be opened (there
\* is no tcp6 on a host without IPv6); without a socket there is nothing to do.
ReadTable(tab) ==
  /\ spc = tab
  /\ \E opened \in BOOLEAN :
       /\ tabs' = IF opened THEN tabs \cup {tab} ELSE tabs
       /\ inodePorts' = [i \in Inodes |-> IF opened /\ sock[i].tab = tab /\ inodePorts[i] = 0
                                          THEN sock[i].port ELSE inodePorts[i]]
  /\ spc' = IF tab = "tcp" THEN "tcp6" ELSE IF inodePorts' = Nothing THEN "done" ELSE "walk"
  /\ procs' = IF spc' = "walk" THEN PIDs ELSE {}
  /\ UNCHANGED <<sock, inodePID, result, known, kept, had>>

\* The descriptors of process p. If they may be read, those that are open all
\* along are found, and one that is new may be. The daemon may not read those of
\* other users: Glob then yields none, and what it yields Readlink may refuse.
\* Only sockets of the tables count; the last process wins.
WalkProc(p) ==
  /\ spc = "walk" /\ p \in procs /\ procs' = procs \ {p}
  /\ LET all == {i \in Inodes : p \in sock[i].owners}
     IN \E found \in SUBSET all, readable \in BOOLEAN :
          /\ readable => {i \in all : <<i, p>> \in kept} \subseteq found
          /\ known' = IF readable THEN known \cup {p} ELSE known
          /\ inodePID' = [i \in Inodes |-> IF i \in found /\ inodePorts[i] # 0 THEN p ELSE inodePID[i]]
  /\ UNCHANGED <<sock, spc, inodePorts, result, tabs, kept, had>>

\* Seeded bug: an unknown process replaces a known one.
OwnerOverwritten(port) == {inodePID[i] : i \in {j \in Inodes : inodePorts[j] = port}}

\* The processes an entry for the port may get: the loop over the map runs in any
\* order, and an unknown process never replaces a known one.
Owner(port) ==
  LET pids == {inodePID[i] : i \in {j \in Inodes : inodePorts[j] = port}}
  IN IF pids = {0} THEN {0} ELSE pids \ {0}

\* The ways to list a set of ports in increasing order: there is one.
SortedBy(ports) ==
  {order \in [1 .. Cardinality(ports) -> ports] :
     /\ \A j, k \in DOMAIN order : j < k => order[j] < order[k]
     /\ \A q \in ports : \E k \in DOMAIN order : order[k] = q}

\* One entry per port, sorted by port.
ScanEnds ==
  /\ spc = "walk" /\ procs = {} /\ spc' = "done"
  /\ LET ports == {inodePorts[i] : i \in Inodes} \ {0}
     IN \E order \in SortedBy(ports), pid \in [ports -> PIDs \cup {0}] :
          /\ \A q \in ports : pid[q] \in Owner(q)
          /\ result' = [k \in DOMAIN order |-> [port |-> order[k], pid |-> pid[order[k]]]]
  /\ UNCHANGED <<sock, inodePorts, inodePID, procs, tabs, known, kept, had>>

ScanNext ==
  \/ ScanStart \/ ReadTable("tcp") \/ ReadTable("tcp6") \/ ScanEnds
  \/ \E p \in PIDs :
       \/ WalkProc(p)
       \/ \E i \in Inodes :
            \/ Inherit(i, p) \/ CloseFd(i, p)
            \/ \E port \in Ports, tab \in {"tcp", "tcp6"} : Listen(i, port, tab, p)

-----------------------------------------------------------------------------
\* scanListeningPorts, although /proc changes under it and need not be readable:
\* every port that is listened on all along in a table that could be opened is
\* reported once and in order, and with a process, if one whose descriptors could
\* be read has held it all along; a process that is reported has held the port.
ScanRight ==
  spc = "done" =>
    /\ \A k \in 2 .. Len(result) : result[k - 1].port < result[k].port
    /\ \A h \in kept : sock[h[1]].tab \in tabs =>
         \E k \in DOMAIN result :
           result[k].port = sock[h[1]].port /\ (h[2] \in known => result[k].pid # 0)
    /\ \A k \in DOMAIN result : result[k].pid # 0 => <<result[k].port, result[k].pid>> \in had
=============================================================================
