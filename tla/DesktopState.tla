---------------------------- MODULE DesktopState ----------------------------
(***************************************************************************)
(* The look of the desktop: wallpaper, names and pins of the terminals.    *)
(* The page saves all of it half a second after a change (saveState in     *)
(* routes/desktop/+page.svelte), the server writes it to a temporary file  *)
(* and renames that (saveDesktopState in fileops.go), and every new        *)
(* connection is greeted with the file, which replaces what the page shows *)
(* (handleWS in server.go, the session-sync listener). To open or close a  *)
(* terminal changes names and pins too, and saves nothing.                 *)
(*                                                                         *)
(* Of every part of the desktop, a state has the number of the last change *)
(* with a save that it takes account of, and the terminals it has names of.*)
(***************************************************************************)
EXTENDS Integers, Sequences

CONSTANTS Pages,      \* pages of one user
          Tabs,       \* numbers of terminals
          MaxConns,   \* bound on connections
          MaxEdits    \* bound on changes

ASSUME DesktopStateAssumption == MaxConns \in Nat /\ MaxEdits \in Nat

Conns == 1 .. MaxConns

\* The wallpaper, the list of pinned terminals, and the name of each terminal.
Fields == {"wallpaper", "pins"} \cup Tabs
Plain(n) == [parts |-> [f \in Fields |-> n], tabs |-> {}]
Fresh == Plain(0)      \* a page that has just been loaded
Absent == Plain(-1)    \* no file
Torn == Plain(-2)      \* part of a file
States == [parts : [Fields -> 0 .. MaxEdits], tabs : SUBSET Tabs]

\* State a is older than b in some part.
Outdated(a, b) == \E f \in Fields : a.parts[f] < b.parts[f]

\* States a and b have the same in the parts F.
Same(a, b, F) == \A f \in F : a.parts[f] = b.parts[f] /\ (f \in a.tabs <=> f \in b.tabs)

VARIABLES desk,      \* what a page shows
          timer,     \* its save is pending
          conn,      \* its connection, 0: none
          synced,    \* it has handled the session sync of its connection
          last,      \* number of the last connection
          open,      \* connections the server still reads from
          up,        \* saves on their way to the server
          down,      \* session syncs on their way to the page
          work,      \* step and state of the save a connection is handling
          temp,      \* temporary files of this server, by connection
          file,      \* state.json
          edits,     \* number of the last change
          editor,    \* history: the page that made it
          unsaved,   \* history: parts a page has changed otherwise since it last saved or took them
          trouble    \* history: something may have kept a change from being saved

pageVars == <<desk, timer, conn, synced>>
netVars == <<last, open, up, down>>
diskVars == <<work, temp, file>>
histVars == <<edits, editor, unsaved, trouble>>
vars == <<pageVars, netVars, diskVars, histVars>>

Idle == [step |-> "idle", state |-> Fresh]

TypeOK ==
  /\ desk \in [Pages -> States] /\ timer \in [Pages -> BOOLEAN]
  /\ conn \in [Pages -> 0 .. MaxConns] /\ synced \in [Pages -> BOOLEAN]
  /\ last \in 0 .. MaxConns /\ open \subseteq 1 .. last
  /\ \A c \in Conns : \A i \in DOMAIN up[c] : up[c][i] \in States
  /\ \A c \in Conns : \A i \in DOMAIN down[c] : down[c][i] \in States \cup {Absent}
  /\ work \in [Conns -> [step : {"idle", "write", "rename"}, state : States]]
  /\ temp \in [Conns -> States \cup {Absent, Torn}]
  /\ edits \in 0 .. MaxEdits /\ editor \in SUBSET Pages
  /\ unsaved \in [Pages -> SUBSET Fields] /\ trouble \in BOOLEAN

Init ==
  /\ desk = [p \in Pages |-> Fresh] /\ timer = [p \in Pages |-> FALSE]
  /\ conn = [p \in Pages |-> 0] /\ synced = [p \in Pages |-> FALSE]
  /\ last = 0 /\ open = {}
  /\ up = [c \in Conns |-> << >>] /\ down = [c \in Conns |-> << >>]
  /\ work = [c \in Conns |-> Idle] /\ temp = [c \in Conns |-> Absent]
  /\ file = Absent /\ edits = 0 /\ editor = {}
  /\ unsaved = [p \in Pages |-> {}] /\ trouble = FALSE

\* A change of page p has not reached the file yet.
Busy(p) ==
  \/ timer[p]
  \/ conn[p] # 0 /\ (up[conn[p]] # << >> \/ work[conn[p]] # Idle)

-----------------------------------------------------------------------------
(* The page                                                                *)

\* A new wallpaper, a terminal of the page renamed, pinned or unpinned; saveState
\* starts its timer anew. History: the change may be lost when the page is
\* offline, when the sync is still to come, or when this page or another one has
\* an outdated copy of the other parts.
Edit(p, f) ==
  /\ edits < MaxEdits
  /\ f \in Tabs => f \in desk[p].tabs
  /\ f = "pins" => desk[p].tabs # {}
  /\ edits' = edits + 1
  /\ desk' = [desk EXCEPT ![p].parts[f] = edits']
  /\ timer' = [timer EXCEPT ![p] = TRUE]
  /\ editor' = {p}
  /\ trouble' = \/ trouble \/ conn[p] = 0 \/ ~synced[p] \/ Outdated(desk[p], file)
                \/ \E q \in Pages \ {p} : Busy(q)
  /\ UNCHANGED <<conn, synced, unsaved, netVars, diskVars>>

\* A terminal is opened, under the name every terminal has at first; no timer.
NewTab(p, t) ==
  /\ edits < MaxEdits /\ edits' = edits + 1
  /\ t \notin desk[p].tabs
  /\ desk' = [desk EXCEPT ![p].tabs = @ \cup {t}]
  /\ unsaved' = [unsaved EXCEPT ![p] = @ \cup {t}]
  /\ UNCHANGED <<timer, conn, synced, netVars, diskVars, editor, trouble>>

\* A terminal is closed: its name and, if it was pinned, its pin go; no timer.
CloseTab(p, t) ==
  /\ edits < MaxEdits /\ edits' = edits + 1
  /\ t \in desk[p].tabs
  /\ desk' = [desk EXCEPT ![p].tabs = @ \ {t}]
  /\ unsaved' = [unsaved EXCEPT ![p] = @ \cup {t, "pins"}]
  /\ UNCHANGED <<timer, conn, synced, netVars, diskVars, editor, trouble>>

\* Seeded bug: no second save while one is on its way.
SaveStateOnce(p) ==
  /\ timer[p] /\ timer' = [timer EXCEPT ![p] = FALSE]
  /\ up' = IF conn[p] = 0 \/ up[conn[p]] # << >> THEN up ELSE [up EXCEPT ![conn[p]] = Append(@, desk[p])]
  /\ unsaved' = [unsaved EXCEPT ![p] = {}]
  /\ UNCHANGED <<desk, conn, synced, last, open, down, diskVars, edits, editor, trouble>>

\* The whole desktop is sent, or nothing when the page is not connected.
SaveState(p) ==
  /\ timer[p] /\ timer' = [timer EXCEPT ![p] = FALSE]
  /\ up' = IF conn[p] = 0 THEN up ELSE [up EXCEPT ![conn[p]] = Append(@, desk[p])]
  /\ unsaved' = IF conn[p] = 0 THEN unsaved ELSE [unsaved EXCEPT ![p] = {}]
  /\ UNCHANGED <<desk, conn, synced, last, open, down, diskVars, edits, editor, trouble>>

Connect(p) ==
  /\ conn[p] = 0 /\ last < MaxConns
  /\ last' = last + 1
  /\ conn' = [conn EXCEPT ![p] = last']
  /\ open' = open \cup {last'}
  /\ synced' = [synced EXCEPT ![p] = FALSE]
  /\ UNCHANGED <<desk, timer, up, down, diskVars, histVars>>

\* What a page with desktop d shows when it is sent state and the server has the
\* terminals there: these and its own ones, wallpaper and pins of the file, and the
\* names of the file, where it has one for a terminal of the page.
Own(d, state) == IF state = Absent THEN Fields ELSE d.tabs \ state.tabs
Shown(d, state, there) ==
  [parts |-> [f \in Fields |-> IF f \in Own(d, state) THEN d.parts[f] ELSE state.parts[f]],
   tabs |-> d.tabs \cup there]

\* History: with its terminals the page may differ from the file already.
SessionSync(p) ==
  /\ conn[p] # 0 /\ down[conn[p]] # << >>
  /\ \E there \in SUBSET Tabs :
       LET state == Head(down[conn[p]])
           shown == Shown(desk[p], state, there)
       IN /\ desk' = [desk EXCEPT ![p] = shown]
          /\ unsaved' = [unsaved EXCEPT ![p] = {t \in Tabs : t \in shown.tabs <=> t \notin state.tabs}]
  /\ down' = [down EXCEPT ![conn[p]] = Tail(@)]
  /\ synced' = [synced EXCEPT ![p] = TRUE]
  /\ UNCHANGED <<timer, conn, last, open, up, diskVars, edits, editor, trouble>>

Disconnect(p) ==
  /\ conn[p] # 0 /\ conn' = [conn EXCEPT ![p] = 0]
  /\ trouble' = (trouble \/ Busy(p))
  /\ UNCHANGED <<desk, timer, synced, netVars, diskVars, edits, editor, unsaved>>

\* The page is loaded anew.
Reload(p) ==
  /\ conn' = [conn EXCEPT ![p] = 0]
  /\ desk' = [desk EXCEPT ![p] = Fresh]
  /\ timer' = [timer EXCEPT ![p] = FALSE]
  /\ synced' = [synced EXCEPT ![p] = FALSE]
  /\ unsaved' = [unsaved EXCEPT ![p] = {}]
  /\ trouble' = (trouble \/ Busy(p))
  /\ UNCHANGED <<netVars, diskVars, edits, editor>>

-----------------------------------------------------------------------------
(* The server                                                              *)

\* handleWS loads the file and sends it, once per connection.
Greet(c) ==
  /\ c \in open /\ down[c] = << >> /\ \E p \in Pages : conn[p] = c /\ ~synced[p]
  /\ down' = [down EXCEPT ![c] = <<file>>]
  /\ UNCHANGED <<pageVars, last, open, up, diskVars, histVars>>

\* Connection c goes on with its save.
Saving(c, from, to) ==
  /\ c \in open /\ work[c].step = from
  /\ work' = [work EXCEPT ![c] = to]
  /\ UNCHANGED <<pageVars, last, open, down, histVars>>

\* Seeded bug: every save in a goroutine of its own, so that a later one may come first.
CreateTempAnyOrder(c) ==
  /\ up[c] # << >> /\ up' = [up EXCEPT ![c] = SubSeq(@, 1, Len(@) - 1)]
  /\ Saving(c, "idle", [step |-> "write", state |-> up[c][Len(up[c])]])
  /\ temp' = [temp EXCEPT ![c] = Torn] /\ UNCHANGED file

CreateTemp(c) ==
  /\ up[c] # << >> /\ up' = [up EXCEPT ![c] = Tail(@)]
  /\ Saving(c, "idle", [step |-> "write", state |-> Head(up[c])])
  /\ temp' = [temp EXCEPT ![c] = Torn] /\ UNCHANGED file

\* Seeded bug: the file itself is opened and written.
WriteInPlace(c) ==
  /\ Saving(c, "write", [work[c] EXCEPT !.step = "rename"])
  /\ temp' = [temp EXCEPT ![c] = work[c].state]
  /\ file' = Torn /\ UNCHANGED up

WriteTemp(c) ==
  /\ Saving(c, "write", [work[c] EXCEPT !.step = "rename"])
  /\ temp' = [temp EXCEPT ![c] = work[c].state] /\ UNCHANGED <<up, file>>

Rename(c) ==
  /\ Saving(c, "rename", Idle)
  /\ file' = temp[c]
  /\ temp' = [temp EXCEPT ![c] = Absent] /\ UNCHANGED up

\* CreateTemp, Write, Close or Rename reports an error: the temporary file is
\* removed; that the change is not saved is only logged.
SaveFails(c) ==
  /\ c \in open /\ work[c] # Idle
  /\ work' = [work EXCEPT ![c] = Idle] /\ temp' = [temp EXCEPT ![c] = Absent]
  /\ trouble' = TRUE
  /\ UNCHANGED <<pageVars, netVars, file, edits, editor, unsaved>>

\* The server notices that the page has gone, between two frames.
ConnectionEnds(c) ==
  /\ c \in open /\ (\A p \in Pages : conn[p] # c) /\ work[c] = Idle
  /\ open' = open \ {c}
  /\ up' = [up EXCEPT ![c] = << >>] /\ down' = [down EXCEPT ![c] = << >>]
  /\ UNCHANGED <<pageVars, last, diskVars, histVars>>

\* The server process is killed, and another one started. It does not look for
\* temporary files of the first, which stay where they are.
Crash ==
  /\ open # {} /\ open' = {}
  /\ conn' = [p \in Pages |-> 0]
  /\ up' = [c \in Conns |-> << >>] /\ down' = [c \in Conns |-> << >>]
  /\ work' = [c \in Conns |-> Idle] /\ temp' = [c \in Conns |-> Absent]
  /\ trouble' = TRUE
  /\ UNCHANGED <<desk, timer, synced, last, file, edits, editor, unsaved>>

-----------------------------------------------------------------------------
Save(c) == CreateTemp(c) \/ WriteTemp(c) \/ Rename(c)

Next ==
  \/ \E p \in Pages :
       \/ SaveState(p) \/ Connect(p) \/ SessionSync(p) \/ Disconnect(p) \/ Reload(p)
       \/ \E f \in Fields : Edit(p, f)
       \/ \E t \in Tabs : NewTab(p, t) \/ CloseTab(p, t)
  \/ \E c \in Conns : Greet(c) \/ Save(c) \/ SaveFails(c) \/ ConnectionEnds(c)
  \/ Crash

\* Timers fire, frames arrive, the server handles them.
Fairness ==
  /\ \A p \in Pages : WF_vars(SaveState(p))
  /\ \A c \in Conns : WF_vars(Save(c))

Spec == Init /\ [][Next]_vars /\ Fairness

-----------------------------------------------------------------------------
\* "Write atomically via a temp file" (saveDesktopState): whatever fails and
\* whenever the server is killed, the file is missing or one whole state that a
\* page has saved, and only a killed server leaves temporary files behind.
FileWhole ==
  /\ file \in States \cup {Absent}
  /\ \A c \in Conns : temp[c] # Absent => work[c] # Idle

\* A newer change is never undone by a save of an older one: in `file' every
\* part of the desktop only gets newer, as long as no connection is lost with a
\* change on it, no save fails, and no page changes an outdated copy.
FileForward ==
  [][~trouble' => ~Outdated(file', file)]_vars

\* When nothing is under way, what the page that made the last change shows is
\* what the next one will be greeted with: the session sync has not replaced a
\* change, and the timer has not been stopped for good. Not so the names and pins
\* of terminals opened or closed since: they wait for the next change.
QuietMeansSaved ==
  \A p \in editor : ~trouble /\ ~Busy(p) /\ conn[p] # 0 /\ synced[p]
                      => Same(file, desk[p], Fields \ unsaved[p])

\* The file is sound at every moment and up to date at rest.
FileSound == TypeOK /\ FileWhole /\ QuietMeansSaved

\* The changes of a page are saved in the end (the debounced save), unless there
\* is trouble.
Persisted ==
  \A p \in Pages : timer[p] ~> (trouble \/ ~Outdated(file, desk[p]))
=============================================================================
