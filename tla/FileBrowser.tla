---------------------------- MODULE FileBrowser ----------------------------
(***************************************************************************)
(* The file manager: panels, listings and operations on files             *)
(* (FileManager.svelte), and the handlers that list and change directories *)
(* (handleFileList and handleFileOp in server.go, fileops.go).             *)
(*                                                                         *)
(* A path is a directory and a name. The page works on names only and puts *)
(* its current directory in front of them when it sends an operation.      *)
(***************************************************************************)
EXTENDS Integers, FiniteSets, SequencesExt

CONSTANTS Dirs,        \* directories
          Names,       \* names in them
          Start, Home, \* where the page starts, and where the user is at home
          Nowhere,     \* stands for the directory of an empty list
          Full,        \* the files at the start, with their contents
          MaxPanels, MaxActs   \* bounds on panels and on what the user does

ASSUME FileBrowserAssumption ==
  /\ IsFiniteSet(Dirs) /\ IsFiniteSet(Names)
  /\ {Start, Home} \subseteq Dirs /\ Nowhere \notin Dirs
  /\ DOMAIN Full \subseteq Dirs \X Names /\ Range(Full) \cap {"none", "dir", "empty"} = {}
  /\ MaxPanels \in Nat \ {0} /\ MaxActs \in Nat

Paths == Dirs \X Names

VARIABLES fs,        \* for every path: "none", "dir", the contents of a file or, when
                     \* there is nothing in it or not all of it, "empty"
          cur,       \* currentPath
          shown,     \* entries: the names, and (history) the directory they are from
          loading,   \* a listing is awaited, and no entries are shown
          sel,       \* selected: names, each with (history) the directory it was seen in
          panels, active,   \* the panels and the index of the active one
          renaming,  \* renamingName and renameValue: the entry (with the directory it was
                     \* seen in) and its new name; astray (history): the page has gone
                     \* elsewhere since. At most one
          clip,      \* clipboard
          timers,    \* delayed requests for a listing
          home,      \* the page has been told the home directory
          linked,    \* there is a connection
          up, down,  \* frames on their way to the server and to the page
          acts,      \* what the user has done
          spoiled,   \* history: a request or an answer was lost or failed, and the server
                     \* has answered none since
          misled     \* history: names of the selection are from a list from elsewhere

viewVars == <<cur, shown, sel, panels, active, misled>>
netVars == <<linked, up, down, spoiled>>
vars == <<fs, viewVars, renaming, loading, clip, timers, home, netVars, acts>>

None == [dir |-> Nowhere, names |-> {}]
NoClip == [op |-> "none", paths |-> {}]
ListReq(d) == [op |-> "list", src |-> <<d, d>>, dst |-> <<d, d>>]
List(d) == {n \in Names : fs[<<d, n>>] # "none"}

TypeOK ==
  /\ fs \in [Paths -> {"none", "dir", "empty"} \cup Range(Full)]
  /\ cur \in Dirs /\ loading \in BOOLEAN /\ home \in BOOLEAN /\ linked \in BOOLEAN
  /\ shown \in [dir : Dirs \cup {Nowhere}, names : SUBSET Names] /\ sel \subseteq Paths
  /\ Len(panels) \in 1 .. MaxPanels /\ active \in DOMAIN panels
  /\ timers \in 0 .. MaxActs /\ acts \in 0 .. MaxActs
  /\ clip.op \in {"none", "copy", "rename"} /\ clip.paths \subseteq Paths
  /\ renaming \subseteq [of : Paths, as : Names, astray : BOOLEAN]

\* The effect has run once, before the page connects: its request has been dropped.
Init ==
  /\ fs = [p \in Paths |-> IF p \in DOMAIN Full THEN Full[p] ELSE "none"]
  /\ cur = Start /\ shown = None /\ loading = TRUE /\ sel = {}
  /\ panels = <<[path |-> Start, shown |-> None]>> /\ active = 1
  /\ clip = NoClip /\ timers = 0 /\ home = FALSE
  /\ linked = FALSE /\ up = << >> /\ down = << >>
  /\ renaming = {} /\ acts = 0 /\ spoiled = TRUE /\ misled = FALSE

-----------------------------------------------------------------------------
(* The page                                                                *)

\* client.send: without a connection the frames are dropped, and nobody told.
Send(frames) ==
  /\ up' = IF linked THEN up \o frames ELSE up
  /\ spoiled' = (spoiled \/ ~linked)
  /\ UNCHANGED <<linked, down>>

requestList(d) == loading' = TRUE /\ Send(<<ListReq(d)>>)

UserActs == acts < MaxActs /\ acts' = acts + 1

\* The panel that is left keeps its directory and its entries.
SavedPanels == [panels EXCEPT ![active] = [path |-> cur, shown |-> shown]]

\* Seeded bug: the selection is kept.
NavigateKeeps(d) ==
  /\ UserActs
  /\ cur' = d
  /\ panels' = [panels EXCEPT ![active].path = d]
  /\ requestList(d)
  /\ renaming' = {}
  /\ UNCHANGED <<fs, shown, sel, misled, active, clip, timers, home>>

\* The list of the directory that is left stays until the answer.
Navigate(d) ==
  /\ UserActs
  /\ cur' = d /\ sel' = {} /\ misled' = FALSE /\ renaming' = {}
  /\ panels' = [panels EXCEPT ![active].path = d]
  /\ requestList(d)
  /\ UNCHANGED <<fs, shown, active, clip, timers, home>>

\* Shows panel i of ps, with the entries it had, and asks for new ones.
ShowPanel(ps, i) ==
  /\ panels' = ps /\ active' = i
  /\ cur' = ps[i].path /\ shown' = ps[i].shown /\ sel' = {} /\ misled' = FALSE
  /\ requestList(ps[i].path)
  /\ UNCHANGED <<fs, clip, timers, home>>

\* A pending rename that stays when the page goes to directory d.
Astray(d) == {[r EXCEPT !.astray = @ \/ d # cur] : r \in renaming}

AddPanel ==
  /\ UserActs /\ Len(panels) < MaxPanels
  /\ ShowPanel(Append(SavedPanels, [path |-> cur, shown |-> None]), Len(panels) + 1)
  /\ UNCHANGED renaming

SwitchToPanel(i) == UserActs /\ i # active /\ ShowPanel(SavedPanels, i) /\ renaming' = {}

\* Of the panels that are left, the active one or the one in its place is shown;
\* another panel goes without further ado. A pending rename stays.
ClosePanel(i) ==
  /\ UserActs /\ Len(panels) > 1
  /\ LET left == RemoveAt(panels, i)
         next == IF i > Len(left) THEN Len(left) ELSE i
     IN IF i = active
        THEN ShowPanel(left, next) /\ renaming' = Astray(left[next].path)
        ELSE /\ panels' = left /\ active' = IF i < active THEN active - 1 ELSE active
             /\ UNCHANGED <<fs, cur, shown, sel, misled, renaming, loading, clip, timers, home, netVars>>

\* Entries that are shown are selected, others no longer: a click, with Shift or
\* on the background, or a menu. While a rename is pending, a click on an entry
\* would commit it.
Select(names) ==
  /\ UserActs /\ names \subseteq shown.names
  /\ names # {} => ~loading
  /\ renaming # {} => Cardinality(names) <= 1
  /\ sel' = {shown.dir} \X names
  /\ misled' = (names # {} /\ shown.dir # cur)
  /\ UNCHANGED <<fs, cur, shown, renaming, loading, panels, active, clip, timers, home, netVars>>

\* With Ctrl one entry is added or taken out.
Toggle(n) ==
  /\ UserActs /\ ~loading /\ n \in shown.names /\ renaming = {}
  /\ sel' = LET others == {p \in sel : p[2] # n}
            IN IF others = sel THEN sel \cup {<<shown.dir, n>>} ELSE others
  /\ misled' = (misled \/ shown.dir # cur)
  /\ UNCHANGED <<fs, cur, shown, renaming, loading, panels, active, clip, timers, home, netVars>>

Selected == {<<cur, p[2]>> : p \in sel}

\* An operation on each of some paths, in the order in which they were selected,
\* with its target, and a timer for a new listing.
FileOps(op, paths, target) ==
  /\ \E order \in [1 .. Cardinality(paths) -> paths] :
       /\ \A i, j \in DOMAIN order : i # j => order[i] # order[j]
       /\ Send([i \in DOMAIN order |-> [op |-> op, src |-> order[i], dst |-> target[order[i]]]])
  /\ timers' = timers + 1
  /\ UNCHANGED <<fs, cur, shown, loading, panels, active, home>>

Create(op, n) ==
  UserActs /\ FileOps(op, {<<cur, n>>}, [p \in Paths |-> p]) /\ UNCHANGED <<sel, misled, renaming, clip>>

DeleteSelected ==
  /\ UserActs /\ sel # {} /\ FileOps("delete", Selected, [p \in Paths |-> p])
  /\ sel' = {} /\ misled' = FALSE /\ UNCHANGED <<renaming, clip>>

\* copySelected and cutSelected
ToClipboard(op) ==
  /\ UserActs /\ sel # {}
  /\ clip' = [op |-> op, paths |-> Selected]
  /\ UNCHANGED <<fs, viewVars, renaming, loading, timers, home, netVars>>

Paste ==
  /\ UserActs /\ clip # NoClip
  /\ FileOps(clip.op, clip.paths, [p \in Paths |-> <<cur, p[2]>>])
  /\ clip' = IF clip.op = "rename" THEN NoClip ELSE clip
  /\ UNCHANGED <<sel, misled, renaming>>

\* startRename, on the one entry that is selected. Another name is typed where
\* the entry is shown.
StartRename(m) ==
  /\ UserActs
  /\ \E p \in sel :
       /\ sel = {p}
       /\ m # p[2] => ~loading /\ p[2] \in shown.names
       /\ renaming' = {[of |-> p, as |-> m, astray |-> misled]}
  /\ UNCHANGED <<fs, viewVars, loading, clip, timers, home, netVars>>

\* Enter, or a click on any entry. The old name and the new one are taken to be
\* in the current directory.
CommitRename(r) ==
  /\ UserActs /\ ~loading /\ shown.names # {} /\ r.as # r.of[2]
  /\ FileOps("rename", {<<cur, r.of[2]>>}, [p \in Paths |-> <<cur, r.as>>])
  /\ renaming' = {} /\ UNCHANGED <<sel, misled, clip>>

\* Escape where the entry is shown, or no other name.
CancelRename(r) ==
  /\ UserActs /\ ~loading /\ shown.names # {} /\ (r.of[2] \in shown.names \/ r.as = r.of[2])
  /\ renaming' = {}
  /\ UNCHANGED <<fs, viewVars, loading, clip, timers, home, netVars>>

\* The button that reads the directory again.
Reload ==
  UserActs /\ requestList(cur) /\ UNCHANGED <<fs, viewVars, renaming, clip, timers, home>>

\* Seeded bug: no listing after an operation.
RefreshNot ==
  /\ timers > 0 /\ timers' = timers - 1
  /\ UNCHANGED <<fs, viewVars, renaming, loading, clip, home, netVars, acts>>

\* A timer asks for the directory that is current by then.
Refresh ==
  /\ timers > 0 /\ timers' = timers - 1
  /\ requestList(cur)
  /\ UNCHANGED <<fs, viewVars, renaming, clip, home, acts>>

\* The session sync has brought the home directory: the effect runs again, and
\* starts over with one panel. It leaves the selection and a pending rename alone.
HomeKnown ==
  /\ linked /\ ~home /\ home' = TRUE
  /\ panels' = <<[path |-> Home, shown |-> None]>> /\ active' = 1
  /\ cur' = Home /\ shown' = None
  /\ requestList(Home)
  /\ misled' = (misled \/ (sel # {} /\ cur # Home))
  /\ renaming' = Astray(Home)
  /\ UNCHANGED <<fs, sel, clip, timers, acts>>

\* An answer ends the loading state, whatever it is an answer to.
OnListing ==
  /\ down # << >> /\ down' = Tail(down)
  /\ loading' = FALSE
  /\ shown' = IF Head(down).dir = cur THEN Head(down) ELSE shown
  /\ UNCHANGED <<fs, cur, sel, misled, renaming, panels, active, clip, timers, home, linked, up, spoiled, acts>>

-----------------------------------------------------------------------------
(* The server                                                              *)

\* Seeded bug: the target is written anew, which may fail, and the source removed.
RenameByCopy(s, d) ==
  IF fs[s] = "none" \/ fs[d] = "dir" THEN fs
  ELSE [p \in Paths |-> IF p = d THEN "empty" ELSE IF p = s THEN "none" ELSE fs[p]]

\* os.Rename: over a file, but never over a directory, nor a directory over a file.
RenameFile(s, d) ==
  IF fs[s] = "none" \/ fs[d] = "dir" \/ (fs[s] = "dir" /\ fs[d] # "none") THEN fs
  ELSE [p \in Paths |-> IF p = d THEN fs[s] ELSE IF p = s THEN "none" ELSE fs[p]]

IsFile(p) == fs[p] \notin {"none", "dir"}

\* copyFile empties the target before it reads the source, also when they are
\* the same; copyDir makes a directory.
CopyPath(s, d) ==
  CASE IsFile(s) /\ fs[d] # "dir" -> [fs EXCEPT ![d] = IF s = d THEN "empty" ELSE fs[s]]
    [] fs[s] = "dir" /\ ~IsFile(d) -> [fs EXCEPT ![d] = "dir"]
    [] OTHER -> fs

Effect(f) ==
  CASE f.op = "delete" -> [fs EXCEPT ![f.src] = "none"]
    [] f.op = "mkdir" -> [fs EXCEPT ![f.src] = IF @ = "none" THEN "dir" ELSE @]
    [] f.op = "touch" -> [fs EXCEPT ![f.src] = IF @ = "none" THEN "empty" ELSE @]
    [] f.op = "rename" -> RenameFile(f.src, f.dst)
    [] f.op = "copy" -> CopyPath(f.src, f.dst)

Receive ==
  /\ up # << >> /\ up' = Tail(up)
  /\ UNCHANGED <<viewVars, renaming, loading, clip, timers, home, linked, acts>>

FileOp ==
  /\ Receive /\ Head(up).op # "list"
  /\ fs' = Effect(Head(up)) /\ UNCHANGED <<down, spoiled>>

\* The error is logged; a copy may have emptied its target, or begun to fill it.
FileOpFails ==
  /\ Receive /\ Head(up).op # "list"
  /\ LET f == Head(up)
     IN fs' \in {fs} \cup
          (IF f.op = "copy" /\ IsFile(f.src) /\ fs[f.dst] # "dir" THEN {[fs EXCEPT ![f.dst] = "empty"]} ELSE {})
  /\ UNCHANGED <<down, spoiled>>

FileList ==
  /\ Receive /\ Head(up).op = "list"
  /\ LET d == Head(up).src[1] IN down' = Append(down, [dir |-> d, names |-> List(d)])
  /\ spoiled' = FALSE /\ UNCHANGED fs

\* The directory cannot be read, and the answer is an error without entries; or
\* the queue of the hub is full, and there is no answer.
FileListFails ==
  /\ Receive /\ Head(up).op = "list" /\ spoiled' = TRUE
  /\ down' \in {down, Append(down, [dir |-> Head(up).src[1], names |-> {}])}
  /\ UNCHANGED fs

Disconnect ==
  /\ linked /\ linked' = FALSE
  /\ up' = << >> /\ down' = << >>
  /\ spoiled' = (spoiled \/ up # << >> \/ down # << >>)
  /\ UNCHANGED <<fs, viewVars, renaming, loading, clip, timers, home, acts>>

\* The page connects, for the first time too.
Reconnect ==
  /\ ~linked /\ linked' = TRUE
  /\ UNCHANGED <<fs, viewVars, renaming, loading, clip, timers, home, up, down, spoiled, acts>>

-----------------------------------------------------------------------------
User ==
  \/ \E d \in Dirs : Navigate(d)
  \/ AddPanel \/ \E i \in DOMAIN panels : SwitchToPanel(i) \/ ClosePanel(i)
  \/ \E names \in SUBSET Names : Select(names)
  \/ Reload \/ \E n \in Names : Toggle(n) \/ \E op \in {"mkdir", "touch"} : Create(op, n)
  \/ DeleteSelected \/ \E op \in {"copy", "rename"} : ToClipboard(op)
  \/ Paste \/ \E m \in Names : StartRename(m)
  \/ \E r \in renaming : CommitRename(r) \/ CancelRename(r)

Server == FileOp \/ FileOpFails \/ FileList \/ FileListFails

Next == User \/ Server \/ Refresh \/ HomeKnown \/ OnListing \/ Disconnect \/ Reconnect

Spec == Init /\ [][Next]_vars

-----------------------------------------------------------------------------
\* What is selected, and so deleted, copied or moved, are files of the directory
\* in which the user saw them, and so is the one to be renamed: neither comes along
\* to another directory. Excluded: a selection made in a list that was shown
\* meanwhile or, as a pending rename, before the home directory was known; and a
\* rename that was pending when its panel was closed.
SelectionSeen ==
  /\ ~misled => \A p \in sel : p[1] = cur
  /\ \A r \in renaming : ~r.astray => r.of[1] = cur

\* When nothing is under way the page shows what is in the directory: no
\* operation, panel or late answer leaves an old list behind. That a request or an
\* answer was lost or failed matters until the server answers the next one.
QuietMeansTrue ==
  ~spoiled /\ up = << >> /\ down = << >> /\ timers = 0
    => ~loading /\ shown = [dir |-> cur, names |-> List(cur)]

\* The page and its panels are in order at every moment and true at rest.
ViewTrue == TypeOK /\ QuietMeansTrue

\* No operation loses the contents of a file, whole or half done: the last copy
\* goes only when it is deleted, or when it is where something is put. (A file
\* put onto itself is lost when it is copied: copyFile empties it first.)
DataKept ==
  [][\A contents \in Range(fs) \cap Range(Full) :
       contents \notin Range(fs') =>
         LET f == Head(up)
         IN fs[f.dst] = contents /\ (f.op = "delete" \/ f.op = "copy" \/ f.dst # f.src)]_vars
=============================================================================
