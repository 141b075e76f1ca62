----------------------------- MODULE PageProofs -----------------------------
(***************************************************************************)
(* What the page shows is what the server has: the tabs are the terminals, *)
(* once both are at rest, for any number of channels, connections, reloads *)
(* and closed tabs; the file manager keeps selections in their directory,  *)
(* shows what is there once it is at rest, and loses no contents, for any  *)
(* files, directories and panels and however much the user does.           *)
(***************************************************************************)
EXTENDS FileBrowser, Desktop, SequenceTheorems, FiniteSetTheorems, TLAPS
-----------------------------------------------------------------------------
(* The file manager                                                        *)

Ops == {"delete", "mkdir", "touch", "rename", "copy"}

\* Frames to the server: requests for a listing, and operations; those on one
\* path carry it twice.
Req == {ListReq(d) : d \in Dirs} \cup
       {f \in [op : Ops, src : Paths, dst : Paths] : f.op \notin {"rename", "copy"} => f.dst = f.src}

Listing == [dir : Dirs, names : SUBSET Names]
Shown == Listing \cup {None}
Panel == [path : Dirs, shown : Shown]

\* Renames that are pending.
Pending == [of : Paths, as : Names, astray : BOOLEAN]

\* What each variable holds.
FsTyped == fs \in [Paths -> {"none", "dir", "empty"} \cup Range(Full)]
ViewTyped ==
  /\ cur \in Dirs /\ shown \in Shown /\ sel \subseteq Paths
  /\ panels \in Seq(Panel) /\ Len(panels) \in 1 .. MaxPanels /\ active \in 1 .. Len(panels)
NetTyped ==
  /\ loading \in BOOLEAN /\ linked \in BOOLEAN /\ spoiled \in BOOLEAN
  /\ up \in Seq(Req) /\ down \in Seq(Listing)
RestTyped ==
  /\ home \in BOOLEAN /\ misled \in BOOLEAN
  /\ acts \in 0 .. MaxActs /\ timers \in 0 .. acts
  /\ clip.op \in {"none", "copy", "rename"} /\ clip.paths \subseteq Paths
  /\ clip # NoClip => clip.op # "none"
  /\ renaming \subseteq Pending

Typed == FsTyped /\ ViewTyped /\ NetTyped /\ RestTyped

\* What is selected was seen in the current directory, and what is to be renamed.
Seen ==
  /\ misled \/ \A p \in sel : p[1] = cur
  /\ \A r \in renaming : r.astray \/ r.of[1] = cur

\* Frames are under way while there is a connection; unless the page is going to
\* ask again, it has asked for the current directory last.
Asked ==
  /\ ~linked => up = << >>
  /\ timers = 0 /\ up # << >> => up[Len(up)] = ListReq(cur)

\* What the page will show, or shows.
Truth == [dir |-> cur, names |-> List(cur)]

\* When the server has answered every request, the last answer on its way is the
\* truth, or the page shows the truth.
Informed ==
  ~spoiled /\ timers = 0 /\ up = << >> =>
    IF down # << >> THEN down[Len(down)] = Truth ELSE ~loading /\ shown = Truth

IInv == Typed /\ Seen /\ Asked /\ Informed
-----------------------------------------------------------------------------
(* Types *)

\* The sets of the types have the elements they are built from.
LEMMA Sets ==
  /\ \A d \in Dirs : ListReq(d) \in Req /\ ListReq(d).op = "list" /\ ListReq(d).src[1] = d
  /\ \A f \in Req : f.op = "list" \/ (f.op \in Ops /\ f.src \in Paths /\ f.dst \in Paths
                                     /\ (f.op \notin {"rename", "copy"} => f.dst = f.src))
  /\ \A f \in Req : f.op = "list" => \E d \in Dirs : f = ListReq(d)
  /\ None \in Shown
  /\ \A s \in Shown : s \in [dir : Dirs \cup {Nowhere}, names : SUBSET Names]
  /\ \A d \in Dirs : None # [dir |-> d, names |-> {}] /\ [dir |-> d, names |-> List(d)] \in Listing
BY FileBrowserAssumption DEF Req, ListReq, Ops, None, Shown, Listing, List

\* What Send leaves in up.
LEMMA Sends ==
  ASSUME Typed, NEW more \in Seq(Req), Send(more)
  PROVE  /\ up' \in Seq(Req) /\ spoiled' \in BOOLEAN /\ linked' = linked /\ down' = down
         /\ ~linked => spoiled' /\ up' = up
         /\ linked => /\ Len(up') = Len(up) + Len(more)
                      /\ \A i \in 1 .. Len(more) : up'[Len(up) + i] = more[i]
<1>0. up \in Seq(Req) /\ spoiled \in BOOLEAN /\ linked \in BOOLEAN
  BY DEF Typed, NetTyped
<1>1. CASE linked
  <2>u. PICK u : u = up \o more
    OBVIOUS
  <2>1. /\ Len(u) = Len(up) + Len(more) /\ u \in Seq(Req)
        /\ \A i \in 1 .. Len(up) + Len(more) : u[i] = IF i <= Len(up) THEN up[i] ELSE more[i - Len(up)]
    BY <1>0, <2>u, ConcatProperties
  <2>2. \A i \in 1 .. Len(more) : u[Len(up) + i] = more[i]
    BY <1>0, <2>1
  <2> QED
    BY <1>0, <1>1, <2>u, <2>1, <2>2 DEF Send
<1>2. CASE ~linked
  BY <1>0, <1>2 DEF Send
<1> QED
  BY <1>0, <1>1, <1>2

\* A request for a listing is the last frame in up.
LEMMA Requests ==
  ASSUME Typed, NEW d \in Dirs, requestList(d)
  PROVE  /\ NetTyped' /\ linked' = linked
         /\ ~linked => spoiled' /\ up' = up
         /\ linked => up' # << >> /\ up'[Len(up')] = ListReq(d)
<1>f. PICK more : more = <<ListReq(d)>>
  OBVIOUS
<1>1. more \in Seq(Req) /\ Len(more) = 1 /\ more[1] = ListReq(d)
  BY <1>f, Sets
<1>2. Send(more) /\ loading' = TRUE
  BY <1>f DEF requestList
<1>3. /\ up' \in Seq(Req) /\ spoiled' \in BOOLEAN /\ linked' = linked /\ down' = down
      /\ ~linked => spoiled' /\ up' = up
      /\ linked => /\ Len(up') = Len(up) + Len(more)
                   /\ \A i \in 1 .. Len(more) : up'[Len(up) + i] = more[i]
  BY <1>1, <1>2, Sends
<1>4. linked => Len(up') = Len(up) + 1 /\ up'[Len(up) + 1] = ListReq(d) /\ Len(up) \in Nat
  BY <1>1, <1>3 DEF Typed, NetTyped
<1>5. linked => up' # << >> /\ up'[Len(up')] = ListReq(d)
  BY <1>3, <1>4
<1> QED
  BY <1>2, <1>3, <1>5 DEF Typed, NetTyped

\* Operations are added to up, and one more listing will be asked for.
LEMMA Operations ==
  ASSUME Typed, NEW op \in Ops, NEW paths \in SUBSET Paths, NEW target \in [Paths -> Paths],
         op \notin {"rename", "copy"} => \A p \in Paths : target[p] = p,
         FileOps(op, paths, target)
  PROVE  /\ NetTyped' /\ timers' = timers + 1 /\ linked' = linked
         /\ ~linked => up' = up
<1>1. IsFiniteSet(paths)
  <2>1. IsFiniteSet(Paths)
    BY FileBrowserAssumption, FS_Product DEF Paths
  <2> QED
    BY <2>1, FS_Subset
<1>2. Cardinality(paths) \in Nat
  BY <1>1, FS_CardinalityType
<1>3. PICK order \in [1 .. Cardinality(paths) -> paths] :
        Send([i \in DOMAIN order |-> [op |-> op, src |-> order[i], dst |-> target[order[i]]]])
  BY DEF FileOps
<1>f. PICK more : more = [i \in DOMAIN order |-> [op |-> op, src |-> order[i], dst |-> target[order[i]]]]
  OBVIOUS
<1>4. more \in Seq(Req) /\ Len(more) \in Nat
  <2>1. \A i \in 1 .. Cardinality(paths) : more[i] \in Req
    BY <1>f DEF Req
  <2>2. more \in [1 .. Cardinality(paths) -> Req]
    BY <1>f, <2>1
  <2> QED
    BY <1>2, <2>2
<1>5. Send(more)
  BY <1>3, <1>f
<1> QED
  BY <1>4, <1>5, Sends DEF FileOps, Typed, NetTyped

\* What RemoveAt returns.
LEMMA Removed ==
  ASSUME NEW S, NEW s \in Seq(S), NEW i \in 1 .. Len(s)
  PROVE  RemoveAt(s, i) \in Seq(S) /\ Len(RemoveAt(s, i)) = Len(s) - 1
<1>a. PICK a : a = SubSeq(s, 1, i - 1)
  OBVIOUS
<1>b. PICK b : b = SubSeq(s, i + 1, Len(s))
  OBVIOUS
<1>1. a \in Seq(S) /\ Len(a) = i - 1
  <2>1. \A j \in 1 .. i - 1 : s[j] \in S
    OBVIOUS
  <2> QED
    BY <1>a, <2>1, SubSeqProperties
<1>2. b \in Seq(S) /\ Len(b) = Len(s) - i
  <2>1. \A j \in i + 1 .. Len(s) : s[j] \in S
    OBVIOUS
  <2> QED
    BY <1>b, <2>1, SubSeqProperties
<1>3. Len(a \o b) = Len(a) + Len(b) /\ a \o b \in Seq(S)
  BY <1>1, <1>2, ConcatProperties
<1>4. RemoveAt(s, i) = a \o b
  BY <1>a, <1>b DEF RemoveAt
<1>5. Len(a) + Len(b) = Len(s) - 1
  BY <1>1, <1>2
<1> QED
  BY <1>3, <1>4, <1>5

\* The panel that is left is saved as a panel.
LEMMA SavedTyped == ViewTyped => SavedPanels \in Seq(Panel) /\ Len(SavedPanels) = Len(panels)
<1> SUFFICES ASSUME ViewTyped PROVE SavedPanels \in Seq(Panel) /\ Len(SavedPanels) = Len(panels)
  OBVIOUS
<1>1. [path |-> cur, shown |-> shown] \in Panel
  BY DEF ViewTyped, Panel
<1> QED
  BY <1>1, ExceptSeq DEF ViewTyped, SavedPanels

\* An act of the user sets at most one timer.
LEMMA Acts ==
  ASSUME Typed, UserActs, timers' = timers \/ timers' = timers + 1,
         clip' = clip, home' = home, misled' \in BOOLEAN, renaming' \subseteq Pending
  PROVE  RestTyped'
<1>1. acts \in 0 .. MaxActs /\ timers \in 0 .. acts /\ acts < MaxActs /\ acts' = acts + 1 /\ MaxActs \in Nat
  BY FileBrowserAssumption DEF Typed, RestTyped, UserActs
<1>2. acts' \in 0 .. MaxActs /\ timers' \in 0 .. acts'
  BY <1>1
<1> QED
  BY <1>2 DEF Typed, RestTyped

\* Another panel is shown.
LEMMA Shows ==
  ASSUME Typed, NEW ps \in Seq(Panel), Len(ps) \in 1 .. MaxPanels, NEW i \in 1 .. Len(ps),
         UserActs, ShowPanel(ps, i), renaming' \subseteq Pending
  PROVE  Typed'
<1>1. ps[i] \in Panel
  BY ElementOfSeq
<1>2. ps[i].path \in Dirs /\ ps[i].shown \in Shown
  BY <1>1 DEF Panel
<1>3. NetTyped'
  BY <1>2, Requests DEF ShowPanel
<1>4. ViewTyped'
  BY <1>2 DEF ShowPanel, ViewTyped
<1>5. FsTyped' /\ RestTyped'
  <2>1. fs' = fs /\ timers' = timers /\ clip' = clip /\ home' = home /\ misled' = FALSE
    BY DEF ShowPanel
  <2> QED
    BY <2>1, Acts DEF Typed, FsTyped
<1> QED
  BY <1>3, <1>4, <1>5 DEF ShowPanel, Typed

\* Every step keeps the types.
LEMMA TypeStep == Typed /\ [Next]_vars => Typed'
<1> SUFFICES ASSUME Typed, [Next]_vars PROVE Typed'
  OBVIOUS
<1>n. MaxPanels \in Nat /\ MaxActs \in Nat /\ acts \in Nat /\ timers \in Nat
  BY FileBrowserAssumption DEF Typed, RestTyped
<1>r. \A d : Astray(d) \subseteq Pending
  BY DEF Pending, Astray, Typed, RestTyped
<1>1. ASSUME NEW d \in Dirs, Navigate(d) PROVE Typed'
  <2>1. NetTyped'
    BY <1>1, Requests DEF Navigate
  <2>2. panels' \in Seq(Panel) /\ Len(panels') = Len(panels)
    <3>1. active \in DOMAIN panels /\ panels[active] \in Panel
      BY ElementOfSeq DEF Typed, ViewTyped
    <3>p. PICK p : p = [panels[active] EXCEPT !.path = d]
      OBVIOUS
    <3>2. p \in Panel
      BY <3>1, <3>p DEF Panel
    <3>3. panels' = [panels EXCEPT ![active] = p]
      BY <1>1, <3>p DEF Navigate
    <3> QED
      BY <3>2, <3>3, ExceptSeq DEF Typed, ViewTyped
  <2>3. ViewTyped'
    BY <1>1, <2>2 DEF Navigate, Typed, ViewTyped
  <2>4. FsTyped' /\ RestTyped'
    BY <1>1, Acts DEF Navigate, Typed, FsTyped
  <2> QED
    BY <2>1, <2>3, <2>4 DEF Typed
<1>2. CASE AddPanel
  <2>1. [path |-> cur, shown |-> None] \in Panel
    BY Sets DEF Panel, Typed, ViewTyped
  <2>s. PICK s \in Seq(Panel) : s = SavedPanels /\ Len(s) = Len(panels)
    BY SavedTyped DEF Typed
  <2>a. PICK a : a = Append(s, [path |-> cur, shown |-> None])
    OBVIOUS
  <2>2. a \in Seq(Panel) /\ Len(a) = Len(panels) + 1
    BY <2>1, <2>s, <2>a, AppendProperties
  <2>3. UserActs /\ ShowPanel(a, Len(panels) + 1) /\ Len(panels) < MaxPanels
    BY <1>2, <2>s, <2>a DEF AddPanel
  <2>4. Len(a) \in 1 .. MaxPanels /\ Len(panels) + 1 \in 1 .. Len(a)
    BY <1>n, <2>2, <2>3 DEF Typed, ViewTyped
  <2> QED
    BY <1>2, <2>2, <2>3, <2>4, Shows DEF AddPanel, Typed, RestTyped
<1>3. ASSUME NEW i \in DOMAIN panels, SwitchToPanel(i) PROVE Typed'
  <2>s. PICK s \in Seq(Panel) : s = SavedPanels /\ Len(s) = Len(panels)
    BY SavedTyped DEF Typed
  <2>1. UserActs /\ ShowPanel(s, i)
    BY <1>3, <2>s DEF SwitchToPanel
  <2>2. Len(s) \in 1 .. MaxPanels /\ i \in 1 .. Len(s)
    BY <1>3, <2>s DEF Typed, ViewTyped
  <2> QED
    BY <1>3, <2>1, <2>2, Shows DEF SwitchToPanel
<1>4. ASSUME NEW i \in DOMAIN panels, ClosePanel(i) PROVE Typed'
  <2>0. UserActs /\ Len(panels) > 1 /\ i \in 1 .. Len(panels)
    BY <1>4 DEF ClosePanel, Typed, ViewTyped
  <2>l. PICK left : left = RemoveAt(panels, i)
    OBVIOUS
  <2>1. left \in Seq(Panel) /\ Len(left) = Len(panels) - 1
    BY <2>0, <2>l, Removed DEF Typed, ViewTyped
  <2>2. CASE i = active
    <3>j. PICK j : j = IF i > Len(left) THEN Len(left) ELSE i
      OBVIOUS
    <3>1. ShowPanel(left, j) /\ renaming' = Astray(left[j].path)
      BY <1>4, <2>l, <2>2, <3>j DEF ClosePanel
    <3>2. Len(left) \in 1 .. MaxPanels /\ j \in 1 .. Len(left)
      BY <1>n, <2>0, <2>1, <3>j DEF Typed, ViewTyped
    <3> QED
      BY <2>0, <2>1, <3>1, <3>2, <1>r, Shows
  <2>3. CASE i # active
    <3>1. /\ panels' = left /\ active' = (IF i < active THEN active - 1 ELSE active)
          /\ UNCHANGED <<fs, cur, shown, sel, misled, renaming, loading, clip, timers, home, netVars>>
      BY <1>4, <2>l, <2>3 DEF ClosePanel
    <3>2. ViewTyped'
      BY <1>n, <2>0, <2>1, <2>3, <3>1 DEF Typed, ViewTyped
    <3>3. FsTyped' /\ NetTyped' /\ RestTyped'
      BY <1>n, <2>0, <3>1 DEF UserActs, netVars, Typed, FsTyped, NetTyped, RestTyped
    <3> QED
      BY <3>2, <3>3 DEF Typed
  <2> QED
    BY <2>2, <2>3
<1>5. ASSUME NEW names \in SUBSET Names, Select(names) PROVE Typed'
  <2>1. sel' \subseteq Paths
    <3>1. CASE shown \in Listing
      BY <1>5, <3>1 DEF Select, Paths, Listing
    <3>2. CASE shown = None
      BY <1>5, <3>2 DEF Select, None
    <3> QED
      BY <3>1, <3>2 DEF Typed, ViewTyped, Shown
  <2> QED
    BY <1>5, <2>1, <1>n DEF Select, UserActs, netVars, Typed, FsTyped, ViewTyped, NetTyped, RestTyped
<1>6. CASE Reload
  <2>1. NetTyped'
    BY <1>6, Requests DEF Reload, Typed, ViewTyped
  <2> QED
    BY <1>6, <2>1, <1>n DEF Reload, UserActs, viewVars, Typed, FsTyped, ViewTyped, RestTyped
<1>7. ASSUME NEW n \in Names, Toggle(n) PROVE Typed'
  <2>0. <<shown.dir, n>> \in Paths
    <3>1. shown \in Listing
      BY <1>7 DEF Toggle, None, Typed, ViewTyped, Shown
    <3> QED
      BY <3>1 DEF Listing, Paths
  <2>1. sel' \subseteq Paths
    BY <1>7, <2>0 DEF Toggle, Typed, ViewTyped
  <2> QED
    BY <1>7, <2>1, <1>n DEF Toggle, UserActs, netVars, Typed, FsTyped, ViewTyped, NetTyped, RestTyped
<1>8. ASSUME NEW op \in {"mkdir", "touch"}, NEW n \in Names, Create(op, n) PROVE Typed'
  <2>1. {<<cur, n>>} \in SUBSET Paths /\ [p \in Paths |-> p] \in [Paths -> Paths] /\ op \in Ops
    BY DEF Paths, Ops, Typed, ViewTyped
  <2>2. NetTyped' /\ timers' = timers + 1
    BY <1>8, <2>1, Operations DEF Create
  <2>3. ViewTyped' /\ FsTyped'
    BY <1>8 DEF Create, FileOps, Typed, FsTyped, ViewTyped
  <2>4. RestTyped'
    <3>1. UserActs /\ clip' = clip /\ home' = home /\ misled' = misled /\ renaming' = renaming
      BY <1>8 DEF Create, FileOps
    <3> QED
      BY <2>2, <3>1, Acts DEF Typed, RestTyped
  <2> QED
    BY <2>2, <2>3, <2>4 DEF Typed
<1>9. CASE DeleteSelected
  <2>1. Selected \in SUBSET Paths /\ [p \in Paths |-> p] \in [Paths -> Paths] /\ "delete" \in Ops
    BY DEF Selected, Paths, Ops, Typed, ViewTyped
  <2>2. NetTyped' /\ timers' = timers + 1
    BY <1>9, <2>1, Operations DEF DeleteSelected
  <2>3. ViewTyped' /\ FsTyped'
    BY <1>9 DEF DeleteSelected, FileOps, Typed, FsTyped, ViewTyped
  <2>4. RestTyped'
    <3>1. UserActs /\ clip' = clip /\ home' = home /\ misled' = FALSE /\ renaming' = renaming
      BY <1>9 DEF DeleteSelected, FileOps
    <3> QED
      BY <2>2, <3>1, Acts DEF Typed, RestTyped
  <2> QED
    BY <2>2, <2>3, <2>4 DEF Typed
<1>10. ASSUME NEW op \in {"copy", "rename"}, ToClipboard(op) PROVE Typed'
  <2>1. Selected \subseteq Paths
    BY DEF Selected, Paths, Typed, ViewTyped
  <2> QED
    BY <1>10, <2>1, <1>n DEF ToClipboard, UserActs, viewVars, netVars, Typed, FsTyped, ViewTyped, NetTyped, RestTyped
<1>11. CASE Paste
  <2>1. /\ clip.paths \in SUBSET Paths /\ [p \in Paths |-> <<cur, p[2]>>] \in [Paths -> Paths]
        /\ clip.op \in {"copy", "rename"}
    BY <1>11 DEF Paste, Paths, Typed, ViewTyped, RestTyped
  <2>2. NetTyped' /\ timers' = timers + 1
    BY <1>11, <2>1, Operations DEF Paste, Ops
  <2> QED
    BY <1>11, <2>2, <1>n DEF Paste, FileOps, UserActs, NoClip, Typed, FsTyped, ViewTyped, RestTyped
<1>12. ASSUME NEW r \in renaming, CommitRename(r) PROVE Typed'
  <2>0. r.of \in Paths /\ r.as \in Names
    BY DEF Typed, RestTyped, Pending
  <2>1. /\ {<<cur, r.of[2]>>} \in SUBSET Paths /\ [p \in Paths |-> <<cur, r.as>>] \in [Paths -> Paths]
        /\ "rename" \in Ops
    BY <2>0 DEF Paths, Ops, Typed, ViewTyped
  <2>2. NetTyped' /\ timers' = timers + 1
    BY <1>12, <2>1, Operations DEF CommitRename
  <2>3. ViewTyped' /\ FsTyped'
    BY <1>12 DEF CommitRename, FileOps, Typed, FsTyped, ViewTyped
  <2>4. RestTyped'
    <3>1. UserActs /\ clip' = clip /\ home' = home /\ misled' = misled /\ renaming' = {}
      BY <1>12 DEF CommitRename, FileOps
    <3> QED
      BY <2>2, <3>1, Acts DEF Typed, RestTyped
  <2> QED
    BY <2>2, <2>3, <2>4 DEF Typed
<1>23. ASSUME NEW r \in renaming, CancelRename(r) PROVE Typed'
  BY <1>23, <1>n DEF CancelRename, UserActs, viewVars, netVars, Typed, FsTyped, ViewTyped, NetTyped, RestTyped
<1>24. ASSUME NEW m \in Names, StartRename(m) PROVE Typed'
  <2>1. PICK p \in sel : renaming' = {[of |-> p, as |-> m, astray |-> misled]}
    BY <1>24 DEF StartRename
  <2>2. p \in Paths /\ misled \in BOOLEAN
    BY DEF Typed, ViewTyped, RestTyped
  <2>3. renaming' \subseteq Pending
    BY <2>1, <2>2 DEF Pending
  <2> QED
    BY <1>24, <1>n, <2>3 DEF StartRename, UserActs, viewVars, netVars, Typed, FsTyped, ViewTyped, NetTyped, RestTyped
<1>13. ASSUME Receive PROVE up' \in Seq(Req) /\ Head(up) \in Req /\ ViewTyped' /\ RestTyped'
  <2>1. up \in Seq(Req) /\ up # << >> /\ up' = Tail(up)
    BY <1>13 DEF Receive, Typed, NetTyped
  <2>2. up' \in Seq(Req) /\ Head(up) \in Req
    BY <2>1, HeadTailProperties
  <2> QED
    BY <1>13, <2>2 DEF Receive, viewVars, Typed, ViewTyped, RestTyped
<1>14. CASE FileOp
  <2>1. Head(up).op \in Ops /\ Head(up).src \in Paths /\ Head(up).dst \in Paths
    BY <1>13, <1>14, Sets DEF FileOp
  <2>2. FsTyped'
    BY <1>14, <2>1 DEF FileOp, Effect, RenameFile, CopyPath, Ops, Typed, FsTyped
  <2> QED
    BY <1>13, <1>14, <2>2 DEF FileOp, Receive, Typed, NetTyped
<1>15. CASE FileOpFails
  <2>1. Head(up).op \in Ops /\ Head(up).src \in Paths /\ Head(up).dst \in Paths
    BY <1>13, <1>15, Sets DEF FileOpFails
  <2>2. FsTyped'
    BY <1>15, <2>1 DEF FileOpFails, Typed, FsTyped
  <2> QED
    BY <1>13, <1>15, <2>2 DEF FileOpFails, Receive, Typed, NetTyped
<1>16. CASE FileList \/ FileListFails
  <2>0. Receive /\ Head(up).op = "list" /\ fs' = fs /\ spoiled' \in BOOLEAN
    BY <1>16 DEF FileList, FileListFails, Typed, NetTyped
  <2>d. PICK d \in Dirs : Head(up) = ListReq(d)
    BY <1>13, <2>0, Sets
  <2>1. [dir |-> d, names |-> List(d)] \in Listing /\ [dir |-> d, names |-> {}] \in Listing
    BY Sets DEF Listing
  <2>2. \/ down' = down \/ down' = Append(down, [dir |-> d, names |-> List(d)])
        \/ down' = Append(down, [dir |-> d, names |-> {}])
    BY <1>16, <2>d, Sets DEF FileList, FileListFails
  <2>3. down' \in Seq(Listing)
    BY <2>1, <2>2, AppendProperties DEF Typed, NetTyped
  <2> QED
    BY <1>13, <2>0, <2>3 DEF Receive, Typed, FsTyped, NetTyped
<1>17. CASE Refresh
  <2>1. NetTyped'
    BY <1>17, Requests DEF Refresh, Typed, ViewTyped
  <2> QED
    BY <1>17, <2>1, <1>n DEF Refresh, viewVars, Typed, FsTyped, ViewTyped, RestTyped
<1>18. CASE HomeKnown
  <2>0. Home \in Dirs
    BY FileBrowserAssumption
  <2>1. NetTyped'
    BY <1>18, <2>0, Requests DEF HomeKnown
  <2>p. PICK p \in Panel : p = [path |-> Home, shown |-> None]
    BY <2>0, Sets DEF Panel
  <2>2. panels' \in Seq(Panel) /\ Len(panels') = 1
    BY <1>18, <2>p DEF HomeKnown
  <2>3. ViewTyped'
    BY <1>18, <1>n, <2>0, <2>2, Sets, FileBrowserAssumption DEF HomeKnown, Typed, ViewTyped
  <2> QED
    BY <1>18, <1>r, <2>1, <2>3 DEF HomeKnown, Typed, FsTyped, RestTyped
<1>19. CASE OnListing
  <2>1. down # << >> /\ down \in Seq(Listing) /\ down' = Tail(down)
    BY <1>19 DEF OnListing, Typed, NetTyped
  <2>2. down' \in Seq(Listing) /\ Head(down) \in Shown
    BY <2>1, HeadTailProperties DEF Shown
  <2> QED
    BY <1>19, <2>2 DEF OnListing, Typed, FsTyped, ViewTyped, NetTyped, RestTyped
<1>20. CASE Disconnect
  <2>1. << >> \in Seq(Req) /\ << >> \in Seq(Listing)
    OBVIOUS
  <2>2. NetTyped'
    BY <1>20, <2>1 DEF Disconnect, Typed, NetTyped
  <2> QED
    BY <1>20, <2>2 DEF Disconnect, viewVars, Typed, FsTyped, ViewTyped, RestTyped
<1>21. CASE Reconnect
  BY <1>21 DEF Reconnect, viewVars, Typed, FsTyped, ViewTyped, NetTyped, RestTyped
<1>22. CASE UNCHANGED vars
  BY <1>22 DEF vars, viewVars, netVars, Typed, FsTyped, ViewTyped, NetTyped, RestTyped
<1> QED
  BY <1>1, <1>2, <1>3, <1>4, <1>5, <1>6, <1>7, <1>8, <1>9, <1>10, <1>11, <1>12, <1>14, <1>15,
     <1>16, <1>17, <1>18, <1>19, <1>20, <1>21, <1>22, <1>23, <1>24 DEF Next, User, Server
-----------------------------------------------------------------------------
(* Selections *)

\* A step to another directory marks the pending renames it does not end.
LEMMA Strays ==
  ASSUME Typed, Seen, NEW d, renaming' = Astray(d), cur' = d
  PROVE  \A r \in renaming' : r.astray \/ r.of[1] = cur'
<1> SUFFICES ASSUME NEW r \in renaming', ~r.astray PROVE r.of[1] = d
  OBVIOUS
<1>1. PICK q \in renaming : r = [q EXCEPT !.astray = @ \/ d # cur]
  BY DEF Astray
<1>2. q \in [of : Paths, as : Names, astray : BOOLEAN]
  BY DEF Typed, RestTyped, Pending
<1>3. r.of = q.of /\ r.astray = (q.astray \/ d # cur)
  BY <1>1, <1>2
<1> QED
  BY <1>3 DEF Seen

\* Another panel is shown with nothing selected.
LEMMA ShowsNothing ==
  ASSUME NEW ps, NEW i, ShowPanel(ps, i)
  PROVE  sel' = {} /\ cur' = ps[i].path
BY DEF ShowPanel

\* Every step that goes to another directory leaves the selection and the pending
\* rename, or remembers what it takes along; so does one that selects in a list
\* from elsewhere.
LEMMA SeenStep == Typed /\ Seen /\ [Next]_vars => Seen'
<1> SUFFICES ASSUME Typed, Seen, [Next]_vars PROVE Seen'
  OBVIOUS
<1>m. misled \in BOOLEAN /\ misled' \in BOOLEAN
  BY TypeStep DEF Typed, RestTyped
<1>1. ASSUME NEW d \in Dirs, Navigate(d) PROVE Seen'
  BY <1>1 DEF Navigate, Seen
<1>2. CASE AddPanel
  <2>1. [path |-> cur, shown |-> None] \in Panel
    BY Sets DEF Panel, Typed, ViewTyped
  <2>s. PICK s \in Seq(Panel) : s = SavedPanels /\ Len(s) = Len(panels)
    BY SavedTyped DEF Typed
  <2>a. PICK a : a = Append(s, [path |-> cur, shown |-> None])
    OBVIOUS
  <2>2. a[Len(panels) + 1].path = cur
    BY <2>1, <2>s, <2>a, AppendProperties
  <2>3. sel' = {} /\ cur' = cur /\ renaming' = renaming
    BY <1>2, <2>s, <2>a, <2>2, ShowsNothing DEF AddPanel
  <2> QED
    BY <2>3 DEF Seen
<1>3. ASSUME NEW i \in DOMAIN panels, SwitchToPanel(i) PROVE Seen'
  <2>1. sel' = {} /\ renaming' = {}
    BY <1>3, ShowsNothing DEF SwitchToPanel
  <2> QED
    BY <2>1 DEF Seen
<1>4. ASSUME NEW i \in DOMAIN panels, ClosePanel(i) PROVE Seen'
  <2>1. CASE i = active
    <3>1. PICK ps, j : ShowPanel(ps, j) /\ renaming' = Astray(ps[j].path)
      BY <1>4, <2>1 DEF ClosePanel
    <3>2. sel' = {} /\ cur' = ps[j].path
      BY <3>1, ShowsNothing
    <3>3. \A r \in renaming' : r.astray \/ r.of[1] = cur'
      BY <3>1, <3>2, Strays
    <3> QED
      BY <3>2, <3>3 DEF Seen
  <2>2. CASE i # active
    <3>1. UNCHANGED <<cur, sel, misled, renaming>>
      BY <1>4, <2>2 DEF ClosePanel
    <3> QED
      BY <3>1 DEF Seen
  <2> QED
    BY <2>1, <2>2
<1>5. ASSUME NEW names \in SUBSET Names, Select(names) PROVE Seen'
  <2>1. misled' \/ \A p \in sel' : p[1] = cur'
    <3>1. sel' = {shown.dir} \X names /\ cur' = cur
      BY <1>5 DEF Select
    <3>2. names = {} \/ shown.dir = cur \/ misled'
      BY <1>5 DEF Select
    <3> QED
      BY <3>1, <3>2
  <2>2. cur' = cur /\ renaming' = renaming
    BY <1>5 DEF Select
  <2> QED
    BY <2>1, <2>2 DEF Seen
<1>6. ASSUME NEW n \in Names, Toggle(n) PROVE Seen'
  <2>1. CASE shown.dir = cur /\ ~misled
    <3>1. cur' = cur /\ renaming' = renaming /\ \A p \in sel' : p \in sel \/ p = <<cur, n>>
      BY <1>6, <2>1 DEF Toggle
    <3> QED
      BY <2>1, <3>1 DEF Seen
  <2>2. CASE shown.dir # cur \/ misled
    BY <1>6, <2>2 DEF Toggle, Seen
  <2> QED
    BY <2>1, <2>2
<1>7. CASE HomeKnown
  <2>1. misled' = (misled \/ (sel # {} /\ cur # Home)) /\ sel' = sel /\ cur' = Home /\ renaming' = Astray(Home)
    BY <1>7 DEF HomeKnown
  <2>2. \A r \in renaming' : r.astray \/ r.of[1] = cur'
    BY <2>1, Strays
  <2>3. misled' \/ \A p \in sel' : p[1] = cur'
    BY <2>1, <1>m DEF Seen
  <2> QED
    BY <2>2, <2>3 DEF Seen
<1>8. CASE DeleteSelected
  BY <1>8 DEF DeleteSelected, FileOps, Seen
<1>9. ASSUME NEW m \in Names, StartRename(m) PROVE Seen'
  <2>1. PICK p \in sel : renaming' = {[of |-> p, as |-> m, astray |-> misled]}
    BY <1>9 DEF StartRename
  <2>2. cur' = cur /\ sel' = sel /\ misled' = misled
    BY <1>9 DEF StartRename, viewVars
  <2>3. misled \/ p[1] = cur
    BY DEF Seen
  <2> QED
    BY <2>1, <2>2, <2>3 DEF Seen
<1>10. CASE UNCHANGED <<cur, sel, misled>> /\ (renaming' = renaming \/ renaming' = {})
  BY <1>10 DEF Seen
<1>11. Next => \/ \E d \in Dirs : Navigate(d)
               \/ AddPanel \/ \E i \in DOMAIN panels : SwitchToPanel(i) \/ ClosePanel(i)
               \/ \E names \in SUBSET Names : Select(names)
               \/ \E n \in Names : Toggle(n) \/ StartRename(n)
               \/ HomeKnown \/ DeleteSelected
               \/ UNCHANGED <<cur, sel, misled>> /\ (renaming' = renaming \/ renaming' = {})
  BY DEF Next, User, Server, Reload, Create, FileOps, ToClipboard, Paste, CommitRename, CancelRename,
         FileOp, FileOpFails, FileList, FileListFails, Receive, Refresh, OnListing, Disconnect,
         Reconnect, viewVars
<1> QED
  BY <1>1, <1>2, <1>3, <1>4, <1>5, <1>6, <1>7, <1>8, <1>9, <1>10, <1>11 DEF vars, viewVars
-----------------------------------------------------------------------------
(* Lists *)

Told == Asked /\ Informed

\* Whoever asks for the new current directory has asked for it last; without a
\* connection the request is lost.
LEMMA AskingTells ==
  ASSUME Typed, Asked, NEW d \in Dirs, requestList(d), cur' = d
  PROVE  Told'
<1>1. /\ linked' = linked
      /\ ~linked => spoiled' /\ up' = up
      /\ linked => up' # << >> /\ up'[Len(up')] = ListReq(d)
  BY Requests
<1>2. linked \in BOOLEAN
  BY DEF Typed, NetTyped
<1>3. CASE linked
  BY <1>1, <1>3 DEF Told, Asked, Informed
<1>4. CASE ~linked
  BY <1>1, <1>4 DEF Told, Asked, Informed
<1> QED
  BY <1>2, <1>3, <1>4

\* After an operation a listing will be asked for.
LEMMA OperatingTells ==
  ASSUME Typed, Asked, NEW op \in Ops, NEW paths \in SUBSET Paths, NEW target \in [Paths -> Paths],
         op \notin {"rename", "copy"} => \A p \in Paths : target[p] = p,
         FileOps(op, paths, target)
  PROVE  Told'
<1>1. timers' = timers + 1 /\ linked' = linked /\ (~linked => up' = up)
  BY Operations
<1>2. timers \in Nat
  BY FileBrowserAssumption DEF Typed, RestTyped
<1>3. timers' # 0
  BY <1>1, <1>2
<1> QED
  BY <1>1, <1>3 DEF Told, Asked, Informed

\* A step that leaves alone what the page shows and what is under way tells it
\* nothing else.
LEMMA StillTold ==
  ASSUME Told, UNCHANGED <<fs, cur, shown, loading, timers, up, down, spoiled>>, linked' = linked \/ linked'
  PROVE  Told'
<1>1. Truth' = Truth
  BY DEF Truth, List
<1> QED
  BY <1>1 DEF Told, Asked, Informed

\* What is left of the frames after the first one.
LEMMA Rest ==
  ASSUME NEW S, NEW q \in Seq(S), q # << >>
  PROVE  /\ Tail(q) # << >> => Tail(q)[Len(Tail(q))] = q[Len(q)]
         /\ Tail(q) = << >> => q[Len(q)] = Head(q)
<1>1. Len(q) \in Nat /\ Len(q) >= 1 /\ Head(q) = q[1]
  OBVIOUS
<1>t. PICK t : t = Tail(q)
  OBVIOUS
<1>2. t \in Seq(S) /\ Len(t) = Len(q) - 1 /\ \A i \in 1 .. Len(q) - 1 : t[i] = q[i + 1]
  BY <1>t, HeadTailProperties
<1>3. CASE t = << >>
  <2>1. Len(t) = 0
    BY <1>3
  <2>2. Len(q) = 1
    BY <1>1, <1>2, <2>1
  <2> QED
    BY <1>1, <1>3, <1>t, <2>2
<1>4. CASE t # << >>
  <2>1. Len(t) \in 1 .. Len(q) - 1
    BY <1>1, <1>2, <1>4
  <2>2. t[Len(t)] = q[Len(t) + 1]
    BY <1>2, <2>1
  <2>3. Len(t) + 1 = Len(q)
    BY <1>1, <1>2
  <2> QED
    BY <1>4, <1>t, <2>2, <2>3
<1> QED
  BY <1>3, <1>4

\* A frame that the server takes is not the last request of a page that is not
\* going to ask again, unless it is that request.
LEMMA Taken ==
  ASSUME Typed, Asked, Receive
  PROVE  Asked' /\ (up' = << >> /\ timers' = 0 => Head(up) = ListReq(cur))
<1>1. up \in Seq(Req) /\ up # << >> /\ up' = Tail(up) /\ cur' = cur /\ timers' = timers /\ linked' = linked
  BY DEF Receive, viewVars, Typed, NetTyped
<1>2. /\ up' # << >> => up'[Len(up')] = up[Len(up)]
      /\ up' = << >> => up[Len(up)] = Head(up)
  BY <1>1, Rest
<1>3. linked
  BY <1>1 DEF Asked
<1> QED
  BY <1>1, <1>2, <1>3 DEF Asked, ListReq

\* The server's answer to the last request is the truth.
LEMMA ListingTells ==
  ASSUME Typed, Asked, FileList
  PROVE  Told'
<1>1. Asked' /\ (up' = << >> /\ timers' = 0 => Head(up) = ListReq(cur))
  BY Taken DEF FileList
<1>2. ASSUME up' = << >>, timers' = 0
      PROVE  down' # << >> /\ down'[Len(down')] = Truth'
  <2>1. Head(up).src[1] = cur /\ cur \in Dirs
    BY <1>1, <1>2, Sets DEF Typed, ViewTyped
  <2>2. Truth \in Listing /\ Truth' = Truth /\ down \in Seq(Listing)
    BY <2>1, Sets DEF Truth, List, FileList, Receive, viewVars, Typed, NetTyped
  <2>3. down' = Append(down, Truth)
    BY <2>1 DEF FileList, Truth
  <2>4. Len(down') = Len(down) + 1 /\ down'[Len(down) + 1] = Truth /\ Len(down) \in Nat
    BY <2>2, <2>3, AppendProperties
  <2>5. down' # << >>
    BY <2>4
  <2> QED
    BY <2>2, <2>4, <2>5
<1> QED
  BY <1>1, <1>2 DEF Told, Informed

\* Every step keeps the page told.
LEMMA ToldStep == Typed /\ Typed' /\ Told /\ [Next]_vars => Told'
<1> SUFFICES ASSUME Typed, Typed', Asked, Informed, [Next]_vars PROVE Told'
  BY DEF Told
<1>a. Told
  BY DEF Told
<1>t. cur \in Dirs /\ cur' \in Dirs
  BY DEF Typed, ViewTyped
<1>1. ASSUME NEW d \in Dirs, Navigate(d) PROVE Told'
  BY <1>1, AskingTells DEF Navigate
<1>2. ASSUME NEW ps, NEW i, ShowPanel(ps, i) PROVE Told'
  BY <1>2, <1>t, AskingTells DEF ShowPanel
<1>3. ASSUME NEW i \in DOMAIN panels, ClosePanel(i) PROVE Told'
  <2>1. CASE i = active
    BY <1>2, <1>3, <2>1 DEF ClosePanel
  <2>2. CASE i # active
    BY <1>3, <1>a, <2>2, StillTold DEF ClosePanel, netVars
  <2> QED
    BY <2>1, <2>2
<1>4. CASE Reload
  BY <1>4, <1>t, AskingTells DEF Reload, viewVars
<1>5. CASE Refresh
  BY <1>5, <1>t, AskingTells DEF Refresh, viewVars
<1>6. CASE HomeKnown
  <2>1. Home \in Dirs
    BY FileBrowserAssumption
  <2> QED
    BY <1>6, <2>1, AskingTells DEF HomeKnown
<1>7. ASSUME NEW op \in {"mkdir", "touch"}, NEW n \in Names, Create(op, n) PROVE Told'
  <2>1. {<<cur, n>>} \in SUBSET Paths /\ [p \in Paths |-> p] \in [Paths -> Paths] /\ op \in Ops
    BY <1>t DEF Paths, Ops
  <2> QED
    BY <1>7, <2>1, OperatingTells DEF Create
<1>8. CASE DeleteSelected
  <2>1. Selected \in SUBSET Paths /\ [p \in Paths |-> p] \in [Paths -> Paths] /\ "delete" \in Ops
    BY DEF Selected, Paths, Ops, Typed, ViewTyped
  <2> QED
    BY <1>8, <2>1, OperatingTells DEF DeleteSelected
<1>9. CASE Paste
  <2>1. /\ clip.paths \in SUBSET Paths /\ [p \in Paths |-> <<cur, p[2]>>] \in [Paths -> Paths]
        /\ clip.op \in {"copy", "rename"}
    BY <1>9 DEF Paste, Paths, Typed, ViewTyped, RestTyped
  <2>2. clip.op \in Ops
    BY <2>1 DEF Ops
  <2> QED
    BY <1>9, <2>1, <2>2, OperatingTells DEF Paste
<1>10. ASSUME NEW r \in renaming, CommitRename(r) PROVE Told'
  <2>0. r.of \in Paths /\ r.as \in Names
    BY DEF Typed, RestTyped, Pending
  <2>1. /\ {<<cur, r.of[2]>>} \in SUBSET Paths /\ [p \in Paths |-> <<cur, r.as>>] \in [Paths -> Paths]
        /\ "rename" \in Ops
    BY <2>0 DEF Paths, Ops, Typed, ViewTyped
  <2> QED
    BY <1>10, <2>1, OperatingTells DEF CommitRename
<1>11. CASE FileOp
  <2>1. Asked' /\ (up' = << >> /\ timers' = 0 => Head(up) = ListReq(cur))
    BY <1>11, Taken DEF FileOp
  <2>2. ~(up' = << >> /\ timers' = 0)
    BY <1>11, <1>t, <2>1, Sets DEF FileOp
  <2> QED
    BY <2>1, <2>2 DEF Told, Informed
<1>12. CASE FileOpFails
  <2>1. Asked' /\ (up' = << >> /\ timers' = 0 => Head(up) = ListReq(cur))
    BY <1>12, Taken DEF FileOpFails
  <2>2. ~(up' = << >> /\ timers' = 0)
    BY <1>12, <1>t, <2>1, Sets DEF FileOpFails
  <2> QED
    BY <2>1, <2>2 DEF Told, Informed
<1>13. CASE FileList
  BY <1>13, ListingTells
<1>14. CASE FileListFails
  BY <1>14, Taken DEF FileListFails, Told, Informed
<1>15. CASE OnListing
  <2>0. /\ down \in Seq(Listing) /\ down # << >> /\ down' = Tail(down) /\ loading' = FALSE
        /\ shown' = (IF Head(down).dir = cur THEN Head(down) ELSE shown)
        /\ UNCHANGED <<fs, cur, timers, linked, up, spoiled>>
    BY <1>15 DEF OnListing, Typed, NetTyped
  <2>1. Asked'
    BY <2>0 DEF Asked, ListReq
  <2>2. Truth' = Truth /\ Truth.dir = cur
    BY <2>0 DEF Truth, List
  <2>3. ASSUME ~spoiled, timers = 0, up = << >>
        PROVE  IF down' # << >> THEN down'[Len(down')] = Truth ELSE ~loading' /\ shown' = Truth
    <3>1. down[Len(down)] = Truth
      BY <2>0, <2>3 DEF Informed
    <3>2. /\ down' # << >> => down'[Len(down')] = down[Len(down)]
          /\ down' = << >> => down[Len(down)] = Head(down)
      BY <2>0, Rest
    <3> QED
      BY <2>0, <2>2, <3>1, <3>2
  <2> QED
    BY <2>0, <2>1, <2>2, <2>3 DEF Told, Informed
<1>16. CASE Disconnect
  <2>1. Truth' = Truth
    BY <1>16 DEF Disconnect, viewVars, Truth, List
  <2>2. spoiled' \/ (~spoiled /\ up = << >> /\ down = << >>)
    BY <1>16 DEF Disconnect, Typed, NetTyped
  <2> QED
    BY <1>16, <2>1, <2>2 DEF Disconnect, viewVars, Told, Asked, Informed
<1>17. CASE Reconnect
  BY <1>17, <1>a, StillTold DEF Reconnect, viewVars
<1>18. CASE UNCHANGED <<fs, cur, shown, loading, timers, netVars>>
  BY <1>18, <1>a, StillTold DEF netVars
<1>19. Next => \/ \E d \in Dirs : Navigate(d)
               \/ \E ps, i : ShowPanel(ps, i)
               \/ \E i \in DOMAIN panels : ClosePanel(i)
               \/ Reload \/ Refresh \/ HomeKnown
               \/ \E op \in {"mkdir", "touch"} : \E n \in Names : Create(op, n)
               \/ DeleteSelected \/ Paste \/ \E r \in renaming : CommitRename(r)
               \/ Server \/ OnListing \/ Disconnect \/ Reconnect
               \/ UNCHANGED <<fs, cur, shown, loading, timers, netVars>>
  BY DEF Next, User, AddPanel, SwitchToPanel, Select, Toggle, ToClipboard, StartRename, CancelRename, viewVars
<1> QED
  BY <1>1, <1>2, <1>3, <1>4, <1>5, <1>6, <1>7, <1>8, <1>9, <1>10, <1>11, <1>12, <1>13, <1>14,
     <1>15, <1>16, <1>17, <1>18, <1>19 DEF Server, vars, viewVars
-----------------------------------------------------------------------------
\* The inductive invariant.
THEOREM Invariance == Spec => []IInv
<1>1. Init => IInv
  <2> SUFFICES ASSUME Init PROVE IInv
    OBVIOUS
  <2>0. Start \in Dirs /\ MaxPanels \in Nat /\ MaxPanels >= 1 /\ MaxActs \in Nat
    BY FileBrowserAssumption
  <2>1. FsTyped
    <3>1. \A p \in DOMAIN Full : Full[p] \in Range(Full)
      BY DEF Range
    <3> QED
      BY <3>1 DEF Init, FsTyped
  <2>2. ViewTyped
    <3>p. PICK p \in Panel : p = [path |-> Start, shown |-> None]
      BY <2>0, Sets DEF Panel
    <3>1. <<p>> \in Seq(Panel) /\ Len(<<p>>) = 1
      OBVIOUS
    <3> QED
      BY <2>0, <3>p, <3>1, Sets DEF Init, ViewTyped
  <2>3. NetTyped
    <3>1. << >> \in Seq(Req) /\ << >> \in Seq(Listing)
      OBVIOUS
    <3> QED
      BY <3>1 DEF Init, NetTyped
  <2>4. RestTyped
    <3>1. clip = NoClip /\ acts = 0 /\ timers = 0 /\ home = FALSE /\ misled = FALSE /\ renaming = {}
      BY DEF Init
    <3>2. NoClip.op = "none" /\ NoClip.paths = {}
      BY DEF NoClip
    <3>3. 0 \in 0 .. MaxActs /\ 0 \in 0 .. 0
      BY <2>0
    <3>4. clip.op \in {"none", "copy", "rename"} /\ clip.paths \subseteq Paths
      BY <3>1, <3>2
    <3> QED
      BY <3>1, <3>3, <3>4 DEF RestTyped
  <2>5. Seen
    BY DEF Init, Seen
  <2>6. Asked /\ Informed
    BY DEF Init, Asked, Informed
  <2> QED
    BY <2>1, <2>2, <2>3, <2>4, <2>5, <2>6 DEF IInv, Typed
<1>2. IInv /\ [Next]_vars => IInv'
  BY TypeStep, SeenStep, ToldStep DEF IInv, Told
<1> QED
  BY <1>1, <1>2, PTL DEF Spec

\* What is deleted, copied or moved was selected in the directory it is in, and so
\* was what is renamed; no way to another directory takes a selection along, and
\* only the closing of a panel and the home directory take a pending rename along
\* (FileManager.svelte, selected and renamingName).
THEOREM SelectionsSeen == Spec => []SelectionSeen
<1>1. IInv => SelectionSeen
  BY DEF IInv, Seen, SelectionSeen
<1> QED
  BY <1>1, Invariance, PTL

\* The panels are in order, and a page at rest shows what is in its directory:
\* each way of going there and each operation is followed by a request for the
\* list, and a late answer for another directory is not shown. This holds again as
\* soon as the server has answered a request after one that was lost, as the
\* first one of every page is.
THEOREM ViewsTrue == Spec => []ViewTrue
<1>1. IInv => TypeOK
  <2> SUFFICES ASSUME IInv PROVE TypeOK
    OBVIOUS
  <2>1. shown \in [dir : Dirs \cup {Nowhere}, names : SUBSET Names]
    BY Sets DEF IInv, Typed, ViewTyped
  <2>2. MaxActs \in Nat /\ timers \in 0 .. MaxActs /\ DOMAIN panels = 1 .. Len(panels)
    BY FileBrowserAssumption DEF IInv, Typed, RestTyped, ViewTyped
  <2> QED
    BY <2>1, <2>2 DEF IInv, Typed, FsTyped, ViewTyped, NetTyped, RestTyped, Pending, TypeOK
<1>2. IInv => QuietMeansTrue
  <2> SUFFICES ASSUME IInv, ~spoiled, up = << >>, down = << >>, timers = 0
               PROVE  ~loading /\ shown = [dir |-> cur, names |-> List(cur)]
    BY DEF QuietMeansTrue
  <2> QED
    BY DEF IInv, Informed, Truth
<1> QED
  BY <1>1, <1>2, Invariance, PTL DEF ViewTrue

\* Contents that are in a file, and where a step leaves them.
LEMMA Kept ==
  ASSUME NEW contents, NEW p \in DOMAIN fs', fs'[p] = contents
  PROVE  contents \in Range(fs')
BY DEF Range

\* No operation, whether it succeeds or fails half way, loses the last copy of
\* the contents of a file, but a deletion of that file or an operation that puts
\* something in its place (fileops.go, RenameFile and CopyPath).
THEOREM NoDataLost == Spec => DataKept
<1>1. ASSUME Typed, [Next]_vars
      PROVE  [\A contents \in Range(fs) \cap Range(Full) :
                contents \notin Range(fs') =>
                  LET f == Head(up)
                  IN fs[f.dst] = contents /\ (f.op = "delete" \/ f.op = "copy" \/ f.dst # f.src)]_vars
  <2> SUFFICES ASSUME NEW contents \in Range(fs) \cap Range(Full), contents \notin Range(fs')
               PROVE  /\ fs[Head(up).dst] = contents
                      /\ Head(up).op = "delete" \/ Head(up).op = "copy" \/ Head(up).dst # Head(up).src
    OBVIOUS
  <2>0. fs \in [Paths -> {"none", "dir", "empty"} \cup Range(Full)]
    BY <1>1 DEF Typed, FsTyped
  <2>1. PICK p \in Paths : fs[p] = contents
    BY <2>0 DEF Range
  <2>2. contents \notin {"none", "dir", "empty"}
    BY FileBrowserAssumption
  <2>3. fs' # fs
    OBVIOUS
  <2>4. FileOp \/ FileOpFails
    BY <1>1, <2>3 DEF Next, vars, User, Server, Navigate, AddPanel, SwitchToPanel, ClosePanel, ShowPanel,
       Select, Toggle, Reload, Create, DeleteSelected, ToClipboard, Paste, StartRename, CommitRename, CancelRename, FileOps,
       FileList, FileListFails, Refresh, HomeKnown, OnListing, Disconnect, Reconnect
  <2>5. up \in Seq(Req) /\ up # << >> /\ Head(up).op # "list"
    BY <1>1, <2>4 DEF FileOp, FileOpFails, Receive, Typed, NetTyped
  <2>f. PICK f \in Req : f = Head(up)
    BY <2>5, HeadTailProperties
  <2>6. /\ f.op \in Ops /\ f.src \in Paths /\ f.dst \in Paths
        /\ f.op \notin {"rename", "copy"} => f.dst = f.src
    BY <2>5, <2>f, Sets
  <2>7. DOMAIN fs' = Paths
    <3>1. Typed'
      BY <1>1, TypeStep
    <3> QED
      BY <3>1 DEF Typed, FsTyped
  <2>8. \A q \in Paths : fs'[q] # contents
    BY <2>7, Kept
  <2>9. CASE FileOp
    <3>1. fs' = Effect(f)
      BY <2>9, <2>f DEF FileOp
    <3>2. CASE f.op \in {"delete", "mkdir", "touch"}
      <4>1. p = f.src
        BY <2>0, <2>1, <2>6, <2>8, <3>1, <3>2 DEF Effect
      <4>2. f.op = "delete"
        BY <2>0, <2>1, <2>2, <2>6, <2>8, <3>1, <3>2, <4>1 DEF Effect
      <4> QED
        BY <2>1, <2>6, <2>f, <3>2, <4>1, <4>2
    <3>3. CASE f.op = "rename"
      <4>1. fs' = [q \in Paths |-> IF q = f.dst THEN fs[f.src] ELSE IF q = f.src THEN "none" ELSE fs[q]]
        BY <2>3, <3>1, <3>3 DEF Effect, RenameFile
      <4>2. p = f.dst
        BY <2>1, <2>6, <2>8, <4>1
      <4>3. f.dst # f.src
        BY <2>1, <2>6, <2>8, <4>1, <4>2
      <4> QED
        BY <2>1, <2>f, <4>2, <4>3
    <3>4. CASE f.op = "copy"
      <4>1. fs' = CopyPath(f.src, f.dst)
        BY <3>1, <3>4 DEF Effect
      <4>2. p = f.dst
        BY <2>0, <2>1, <2>6, <2>8, <4>1 DEF CopyPath
      <4> QED
        BY <2>1, <2>f, <3>4, <4>2
    <3> QED
      BY <2>6, <3>2, <3>3, <3>4 DEF Ops
  <2>10. CASE FileOpFails
    <3>1. f.op = "copy" /\ fs' = [fs EXCEPT ![f.dst] = "empty"]
      BY <2>3, <2>10, <2>f DEF FileOpFails
    <3>2. p = f.dst
      BY <2>0, <2>1, <2>8, <3>1
    <3> QED
      BY <2>1, <2>f, <3>1, <3>2
  <2> QED
    BY <2>4, <2>9, <2>10
<1>2. IInv => Typed
  BY DEF IInv
<1> QED
  BY <1>1, <1>2, Invariance, PTL DEF Spec, DataKept
-----------------------------------------------------------------------------
(* The terminals of the desktop page                                       *)

OpenFrame(c) == [type |-> "open", chan |-> c]
CloseFrame(c) == [type |-> "close", chan |-> c]

\* What frames that wait for the server mean for channel c: it is to be closed, ...
ClosedAfter(q, i, c) == \E j \in i + 1 .. Len(q) : q[j] = CloseFrame(c)
Closing(q, c) == ClosedAfter(q, 0, c)

\* ... and it is to be opened, and not closed again.
Wanted(q, c) == \E i \in 1 .. Len(q) : q[i] = OpenFrame(c) /\ ~ClosedAfter(q, i, c)

\* The server serves the page's socket.
Served == sock # 0 /\ srv[sock] \in {"greet", "run"}

\* A socket that the page has open has been counted and greeted, or will be.
SockCounted == sock # 0 => opened /\ srv[sock] # "new"

\* What will be open has a tab: closing the tab sends the frame that closes it.
WantedHasTab == Served => \A c \in Chan : Wanted(frames[sock], c) => c \in Tabs

\* A session the page does not show is in its session sync, or will be closed.
NoneHidden ==
  ~overlap /\ Served /\ srv[sock] = "run" =>
    \A c \in ptys : \/ c \in Tabs
                    \/ sync # << >> /\ c \in Head(sync)
                    \/ Closing(frames[sock], c)

\* A terminal that is ready has its session, or asks for it.
ReadyServed ==
  ~overlap /\ Served =>
    \A c \in ready : \/ c \in ptys \cup failed /\ ~Closing(frames[sock], c)
                     \/ Wanted(frames[sock], c)

TabsInv ==
  /\ TabsTypeOK /\ ActiveIsTab /\ SockCounted
  /\ WantedHasTab /\ NoneHidden /\ ReadyServed

\* An empty queue means nothing.
LEMMA EmptyQueue == \A c : ~Closing(<< >>, c) /\ ~Wanted(<< >>, c)
  BY DEF Closing, ClosedAfter, Wanted

\* One more frame: it is the latest word about its channel.
LEMMA AppendQueue ==
  ASSUME NEW q \in Seq(Frame), NEW f \in Frame, NEW c
  PROVE  /\ Closing(Append(q, f), c) <=> Closing(q, c) \/ f = CloseFrame(c)
         /\ Wanted(Append(q, f), c) <=>
              f = OpenFrame(c) \/ (Wanted(q, c) /\ f # CloseFrame(c))
<1> DEFINE r == Append(q, f)
           n == Len(q)
<1>1. /\ n \in Nat /\ Len(r) = n + 1 /\ r[n + 1] = f
      /\ \A i \in 1 .. n : r[i] = q[i]
  OBVIOUS
<1>2. OpenFrame(c) # CloseFrame(c)
  BY DEF OpenFrame, CloseFrame
<1> HIDE DEF r, n
<1>3. \A i \in 0 .. n : ClosedAfter(r, i, c) <=> ClosedAfter(q, i, c) \/ f = CloseFrame(c)
  <2> SUFFICES ASSUME NEW i \in 0 .. n
               PROVE  ClosedAfter(r, i, c) <=> ClosedAfter(q, i, c) \/ f = CloseFrame(c)
    OBVIOUS
  <2>1. i + 1 .. Len(r) = (i + 1 .. n) \cup {n + 1}
    BY <1>1
  <2>2. \A j \in i + 1 .. n : r[j] = q[j]
    BY <1>1
  <2> QED
    BY <1>1, <2>1, <2>2 DEF ClosedAfter, n
<1>4. ~ClosedAfter(r, n + 1, c)
  BY <1>1 DEF ClosedAfter
<1>5. Closing(r, c) <=> Closing(q, c) \/ f = CloseFrame(c)
  BY <1>1, <1>3 DEF Closing
<1>6. Wanted(r, c) <=> f = OpenFrame(c) \/ (Wanted(q, c) /\ f # CloseFrame(c))
  <2>1. 1 .. Len(r) = (1 .. n) \cup {n + 1}
    BY <1>1
  <2>2. Wanted(r, c) <=> \/ \E i \in 1 .. n : q[i] = OpenFrame(c) /\ ~ClosedAfter(r, i, c)
                         \/ f = OpenFrame(c)
    BY <1>1, <1>4, <2>1 DEF Wanted
  <2>3. Wanted(q, c) <=> \E i \in 1 .. n : q[i] = OpenFrame(c) /\ ~ClosedAfter(q, i, c)
    BY DEF Wanted, n
  <2>4. \A i \in 1 .. n : i \in 0 .. n
    BY <1>1
  <2> QED
    BY <1>2, <1>3, <2>2, <2>3, <2>4
<1> QED
  BY <1>5, <1>6 DEF r

\* One frame less: what it meant, unless there is a later word.
LEMMA TailQueue ==
  ASSUME NEW q \in Seq(Frame), q # << >>, NEW c
  PROVE  /\ Closing(q, c) <=> Closing(Tail(q), c) \/ Head(q) = CloseFrame(c)
         /\ Wanted(q, c) <=>
              Wanted(Tail(q), c) \/ (Head(q) = OpenFrame(c) /\ ~Closing(Tail(q), c))
<1> DEFINE r == Tail(q)
           n == Len(r)
<1>1. /\ n \in Nat /\ Len(q) = n + 1 /\ q[1] = Head(q)
      /\ \A i \in 1 .. n : r[i] = q[i + 1]
  OBVIOUS
<1> HIDE DEF r, n
<1>3. \A i \in 0 .. n : ClosedAfter(q, i + 1, c) <=> ClosedAfter(r, i, c)
  <2> SUFFICES ASSUME NEW i \in 0 .. n
               PROVE  ClosedAfter(q, i + 1, c) <=> ClosedAfter(r, i, c)
    OBVIOUS
  <2>1. \A j \in i + 2 .. n + 1 : j - 1 \in i + 1 .. n /\ q[j] = r[j - 1]
    BY <1>1
  <2>2. \A j \in i + 1 .. n : j + 1 \in i + 2 .. n + 1 /\ r[j] = q[j + 1]
    BY <1>1
  <2>3. (i + 1) + 1 = i + 2
    OBVIOUS
  <2> QED
    BY <1>1, <2>1, <2>2, <2>3 DEF ClosedAfter, n
<1>4. Closing(q, c) <=> Closing(r, c) \/ Head(q) = CloseFrame(c)
  <2>1. 0 + 1 .. Len(q) = {1} \cup (2 .. n + 1) /\ 1 + 1 .. Len(q) = 2 .. n + 1
    BY <1>1
  <2>2. Closing(q, c) <=> q[1] = CloseFrame(c) \/ ClosedAfter(q, 1, c)
    BY <2>1 DEF Closing, ClosedAfter
  <2>3. ClosedAfter(q, 1, c) <=> ClosedAfter(r, 0, c)
    BY <1>1, <1>3
  <2> QED
    BY <1>1, <2>2, <2>3 DEF Closing
<1>5. Wanted(q, c) <=> Wanted(r, c) \/ (Head(q) = OpenFrame(c) /\ ~Closing(r, c))
  <2>1. 1 .. Len(q) = {1} \cup {i + 1 : i \in 1 .. n}
    <3>1. \A j \in 1 .. n + 1 : j = 1 \/ (j - 1 \in 1 .. n /\ j = (j - 1) + 1)
      BY <1>1
    <3>2. \A i \in 1 .. n : i + 1 \in 1 .. n + 1
      BY <1>1
    <3> QED
      BY <1>1, <3>1, <3>2
  <2>2. ClosedAfter(q, 1, c) <=> Closing(r, c)
    BY <1>1, <1>3 DEF Closing
  <2>3. Wanted(q, c) <=>
          \/ q[1] = OpenFrame(c) /\ ~ClosedAfter(q, 1, c)
          \/ \E i \in 1 .. n : q[i + 1] = OpenFrame(c) /\ ~ClosedAfter(q, i + 1, c)
    BY <2>1 DEF Wanted
  <2>4. \A i \in 1 .. n : i \in 0 .. n
    BY <1>1
  <2>5. Wanted(r, c) <=> \E i \in 1 .. n : r[i] = OpenFrame(c) /\ ~ClosedAfter(r, i, c)
    BY DEF Wanted, n
  <2>6. \A i \in 1 .. n :
          q[i + 1] = OpenFrame(c) /\ ~ClosedAfter(q, i + 1, c)
            <=> r[i] = OpenFrame(c) /\ ~ClosedAfter(r, i, c)
    BY <1>1, <1>3, <2>4
  <2> QED
    BY <1>1, <2>2, <2>3, <2>5, <2>6
<1> QED
  BY <1>4, <1>5 DEF r

\* A socket that has just opened asks for all terminals that are ready.
LEMMA FirstQueue ==
  ASSUME NEW S, NEW order \in InAnyOrder(S), Cardinality(S) \in Nat, NEW c
  PROVE  LET q == [i \in DOMAIN order |-> OpenFrame(order[i])]
         IN  ~Closing(q, c) /\ (Wanted(q, c) <=> c \in S)
<1> DEFINE n == Cardinality(S)
           q == [i \in DOMAIN order |-> OpenFrame(order[i])]
<1>1. /\ order \in [1 .. n -> S] /\ n \in Nat
      /\ \A x \in S : \E i \in 1 .. n : order[i] = x
  BY DEF InAnyOrder, Bijection, Surjection, Injection
<1> HIDE DEF n
<1>2. Len(q) = n /\ \A i \in 1 .. n : q[i] = OpenFrame(order[i])
  BY <1>1
<1>3. \A d, e : OpenFrame(d) # CloseFrame(e) /\ (OpenFrame(d) = OpenFrame(e) => d = e)
  BY DEF OpenFrame, CloseFrame
<1> HIDE DEF q
<1>4. \A i \in 0 .. n : ~ClosedAfter(q, i, c)
  <2>1. \A i \in 0 .. n : \A j \in i + 1 .. n : j \in 1 .. n
    BY <1>1
  <2> QED
    BY <1>2, <1>3, <2>1 DEF ClosedAfter
<1>5. ~Closing(q, c)
  BY <1>1, <1>4 DEF Closing
<1>6. Wanted(q, c) <=> \E i \in 1 .. n : q[i] = OpenFrame(c)
  <2>1. \A i \in 1 .. n : i \in 0 .. n
    BY <1>1
  <2> QED
    BY <1>2, <1>4, <2>1 DEF Wanted
<1>7. Wanted(q, c) <=> c \in S
  BY <1>1, <1>2, <1>3, <1>6
<1> QED
  BY <1>5, <1>7 DEF q

\* Sets of channels are finite.
LEMMA ChanFinite == \A S \in SUBSET Chan : Cardinality(S) \in Nat
<1>1. IsFiniteSet(Chan)
  BY DesktopAssumption, FS_Interval DEF Chan
<1> QED
  BY <1>1, FS_Subset, FS_CardinalityType

\* A channel gets one tab.
LEMMA AddTab ==
  ASSUME tabs \in Seq(Chan), IsInjective(tabs), NEW c \in Chan, AddPTYChannel(c)
  PROVE  /\ tabs' \in Seq(Chan) /\ IsInjective(tabs') /\ tabs' # << >>
         /\ Tabs' = Tabs \cup {c}
<1>0. DOMAIN tabs = 1 .. Len(tabs) /\ Len(tabs) \in Nat /\ \A i \in 1 .. Len(tabs) : tabs[i] \in Chan
  OBVIOUS
<1>1. CASE c \in Tabs
  BY <1>0, <1>1 DEF AddPTYChannel, Tabs
<1>2. CASE c \notin Tabs
  <2>1. /\ tabs' = Append(tabs, c) /\ tabs' \in Seq(Chan) /\ Len(tabs') = Len(tabs) + 1
        /\ DOMAIN tabs' = (1 .. Len(tabs)) \cup {Len(tabs) + 1}
        /\ tabs'[Len(tabs) + 1] = c /\ \A i \in 1 .. Len(tabs) : tabs'[i] = tabs[i]
    BY <1>0, <1>2 DEF AddPTYChannel
  <2>2. \A i \in 1 .. Len(tabs) : tabs[i] # c
    BY <1>0, <1>2 DEF Tabs
  <2>3. IsInjective(tabs')
    BY <1>0, <2>1, <2>2 DEF IsInjective
  <2>4. Tabs' = Tabs \cup {c}
    BY <1>0, <2>1 DEF Tabs
  <2>5. tabs' # << >>
    BY <1>0, <2>1
  <2> QED
    BY <2>1, <2>3, <2>4, <2>5
<1> QED
  BY <1>1, <1>2

\* Closing a tab removes that tab.
LEMMA RemoveTab ==
  ASSUME tabs \in Seq(Chan), IsInjective(tabs), NEW c, RemovePTYChannel(c)
  PROVE  /\ tabs' \in Seq(Chan) /\ IsInjective(tabs') /\ Tabs' = Tabs \ {c}
         /\ tabs' # << >> => Head(tabs') \in Tabs'
         /\ tabs' = << >> => Tabs' = {}
<1> DEFINE n == Len(tabs)
<1>0. DOMAIN tabs = 1 .. n /\ n \in Nat /\ \A i \in 1 .. n : tabs[i] \in Chan
  OBVIOUS
<1>1. PICK k \in 1 .. n : tabs[k] = c /\ tabs' = SubSeq(tabs, 1, k - 1) \o SubSeq(tabs, k + 1, n)
  BY <1>0 DEF RemovePTYChannel, RemoveAt
<1>2. /\ SubSeq(tabs, 1, k - 1) \in Seq(Chan) /\ Len(SubSeq(tabs, 1, k - 1)) = k - 1
      /\ \A i \in 1 .. k - 1 : SubSeq(tabs, 1, k - 1)[i] = tabs[i]
  BY <1>0
<1>3. /\ SubSeq(tabs, k + 1, n) \in Seq(Chan) /\ Len(SubSeq(tabs, k + 1, n)) = n - k
      /\ \A i \in 1 .. n - k : SubSeq(tabs, k + 1, n)[i] = tabs[k + i]
  <2> HIDE DEF n
  <2>0. \A i \in k + 1 .. n : tabs[i] \in Chan
    <3>1. \A i \in k + 1 .. n : i \in 1 .. n
      BY <1>0
    <3> QED
      BY <1>0, <3>1
  <2>1. /\ k + 1 \in Int /\ n \in Int /\ n - (k + 1) + 1 = n - k
        /\ (k + 1 <= n \/ n - k = 0)
        /\ \A i \in 1 .. n - k : (k + 1) + i - 1 = k + i
    BY <1>0
  <2>2. /\ SubSeq(tabs, k + 1, n) \in Seq(Chan)
        /\ Len(SubSeq(tabs, k + 1, n)) = IF k + 1 <= n THEN n - (k + 1) + 1 ELSE 0
        /\ \A i \in 1 .. n - (k + 1) + 1 : SubSeq(tabs, k + 1, n)[i] = tabs[(k + 1) + i - 1]
    BY <2>0, <2>1, SubSeqProperties
  <2> QED
    BY <1>0, <2>1, <2>2
<1>4. /\ tabs' \in Seq(Chan) /\ Len(tabs') = n - 1
      /\ \A i \in 1 .. n - 1 : tabs'[i] = IF i < k THEN tabs[i] ELSE tabs[i + 1]
  <2>1. /\ tabs' \in Seq(Chan) /\ Len(tabs') = (k - 1) + (n - k)
        /\ \A i \in 1 .. (k - 1) + (n - k) :
             tabs'[i] = IF i <= k - 1 THEN SubSeq(tabs, 1, k - 1)[i]
                        ELSE SubSeq(tabs, k + 1, n)[i - (k - 1)]
    <3> DEFINE a == SubSeq(tabs, 1, k - 1)
               b == SubSeq(tabs, k + 1, n)
    <3>1. a \in Seq(Chan) /\ b \in Seq(Chan) /\ Len(a) = k - 1 /\ Len(b) = n - k /\ tabs' = a \o b
      BY <1>1, <1>2, <1>3
    <3> HIDE DEF a, b, n
    <3>2. /\ a \o b \in Seq(Chan) /\ Len(a \o b) = Len(a) + Len(b)
          /\ \A i \in 1 .. Len(a) + Len(b) : (a \o b)[i] = IF i <= Len(a) THEN a[i] ELSE b[i - Len(a)]
      BY <3>1, ConcatProperties
    <3>3. /\ tabs' \in Seq(Chan) /\ Len(tabs') = (k - 1) + (n - k)
          /\ \A i \in 1 .. (k - 1) + (n - k) : tabs'[i] = IF i <= k - 1 THEN a[i] ELSE b[i - (k - 1)]
      BY <3>1, <3>2
    <3> QED
      BY <3>3 DEF a, b
  <2>2. (k - 1) + (n - k) = n - 1
    BY <1>0
  <2>3. ASSUME NEW i \in 1 .. n - 1, ~(i < k)
        PROVE  /\ i - (k - 1) \in 1 .. n - k /\ k + (i - (k - 1)) = i + 1 /\ ~(i <= k - 1)
    BY <1>0, <2>3
  <2>4. ASSUME NEW i \in 1 .. n - 1, i < k
        PROVE  i \in 1 .. k - 1 /\ i <= k - 1
    BY <1>0, <2>4
  <2> QED
    BY <1>2, <1>3, <2>1, <2>2, <2>3, <2>4
<1> HIDE DEF n
<1>5. DOMAIN tabs' = 1 .. n - 1
  BY <1>0, <1>4
<1>6. IsInjective(tabs')
  <2> SUFFICES ASSUME NEW i \in 1 .. n - 1, NEW j \in 1 .. n - 1, tabs'[i] = tabs'[j]
               PROVE  i = j
    BY <1>5 DEF IsInjective
  <2>1. \A a, b \in 1 .. n : tabs[a] = tabs[b] => a = b
    BY <1>0 DEF IsInjective
  <2>2. i \in 1 .. n /\ i + 1 \in 1 .. n /\ j \in 1 .. n /\ j + 1 \in 1 .. n
    BY <1>0
  <2>3. CASE i < k /\ j < k
    BY <1>4, <2>1, <2>2, <2>3
  <2>4. CASE i < k /\ ~(j < k)
    <3>1. i = j + 1
      BY <1>4, <2>1, <2>2, <2>4
    <3> QED
      BY <2>2, <2>4, <3>1
  <2>5. CASE ~(i < k) /\ j < k
    <3>1. i + 1 = j
      BY <1>4, <2>1, <2>2, <2>5
    <3> QED
      BY <2>2, <2>5, <3>1
  <2>6. CASE ~(i < k) /\ ~(j < k)
    <3>1. i + 1 = j + 1
      BY <1>4, <2>1, <2>2, <2>6
    <3> QED
      BY <3>1
  <2> QED
    BY <2>3, <2>4, <2>5, <2>6
<1>7. Tabs' = Tabs \ {c}
  <2>1. \A i \in 1 .. n - 1 : \E j \in 1 .. n : tabs'[i] = tabs[j] /\ j # k
    <3> SUFFICES ASSUME NEW i \in 1 .. n - 1
                 PROVE  \E j \in 1 .. n : tabs'[i] = tabs[j] /\ j # k
      OBVIOUS
    <3>1. CASE i < k
      BY <1>0, <1>4, <3>1
    <3>2. CASE ~(i < k)
      <4>1. i + 1 \in 1 .. n /\ i + 1 # k
        BY <1>0, <3>2
      <4> QED
        BY <1>4, <3>2, <4>1
    <3> QED
      BY <3>1, <3>2
  <2>2. \A j \in 1 .. n : j # k => \E i \in 1 .. n - 1 : tabs'[i] = tabs[j]
    <3> SUFFICES ASSUME NEW j \in 1 .. n, j # k
                 PROVE  \E i \in 1 .. n - 1 : tabs'[i] = tabs[j]
      OBVIOUS
    <3>1. CASE j < k
      <4>1. j \in 1 .. n - 1
        BY <1>0, <3>1
      <4> QED
        BY <1>4, <3>1, <4>1
    <3>2. CASE ~(j < k)
      <4>1. j - 1 \in 1 .. n - 1 /\ ~(j - 1 < k) /\ (j - 1) + 1 = j
        BY <1>0, <3>2
      <4> QED
        BY <1>4, <4>1
    <3> QED
      BY <3>1, <3>2
  <2>3. \A j \in 1 .. n : tabs[j] = c <=> j = k
    BY <1>0, <1>1 DEF IsInjective
  <2>4. Tabs = {tabs[j] : j \in 1 .. n} /\ Tabs' = {tabs'[i] : i \in 1 .. n - 1}
    BY <1>0, <1>5 DEF Tabs
  <2>5. ASSUME NEW x PROVE x \in Tabs' <=> x \in Tabs /\ x # c
    <3>1. x \in Tabs' => x \in Tabs /\ x # c
      BY <2>1, <2>3, <2>4
    <3>2. x \in Tabs /\ x # c => x \in Tabs'
      BY <2>2, <2>3, <2>4
    <3> QED
      BY <3>1, <3>2
  <2> QED
    BY <2>5
<1>8. tabs' # << >> => Head(tabs') \in Tabs'
  BY <1>4, <1>5 DEF Tabs
<1>9. tabs' = << >> => Tabs' = {}
  BY DEF Tabs
<1> QED
  BY <1>4, <1>6, <1>7, <1>8, <1>9

\* A session sync adds a tab for each channel that has none.
LEMMA AddTabs ==
  ASSUME tabs \in Seq(Chan), IsInjective(tabs), NEW S \in SUBSET (Chan \ Tabs),
         NEW order \in InAnyOrder(S), tabs' = tabs \o order
  PROVE  /\ tabs' \in Seq(Chan) /\ IsInjective(tabs') /\ Tabs' = Tabs \cup S
         /\ tabs' # << >> => Head(tabs') \in Tabs'
         /\ tabs' = << >> => tabs = << >>
<1> DEFINE n == Len(tabs)
           m == Cardinality(S)
<1>0. DOMAIN tabs = 1 .. n /\ n \in Nat /\ (\A i \in 1 .. n : tabs[i] \in Chan) /\ m \in Nat
  BY ChanFinite
<1>1. /\ order \in [1 .. m -> S] /\ \A x \in S : \E i \in 1 .. m : order[i] = x
      /\ \A i, j \in 1 .. m : order[i] = order[j] => i = j
  <2>1. order \in [1 .. m -> S] /\ IsInjective(order) /\ \A x \in S : \E i \in 1 .. m : order[i] = x
    BY DEF InAnyOrder, Bijection, Surjection, Injection
  <2>2. DOMAIN order = 1 .. m
    BY <2>1
  <2> QED
    BY <2>1, <2>2 DEF IsInjective
<1>2. Len(order) = m /\ order \in Seq(Chan)
  <2> HIDE DEF m
  <2>1. order \in [1 .. m -> Chan] /\ m \in Nat
    BY <1>0, <1>1
  <2> QED
    BY <2>1
<1>3. /\ tabs' \in Seq(Chan) /\ Len(tabs') = n + m
      /\ \A i \in 1 .. n + m : tabs'[i] = IF i <= n THEN tabs[i] ELSE order[i - n]
  BY <1>2, ConcatProperties
<1> HIDE DEF n, m
<1>4. DOMAIN tabs' = 1 .. n + m
  BY <1>0, <1>3
<1>5. /\ \A i \in 1 .. n : i \in 1 .. n + m /\ tabs'[i] = tabs[i] /\ tabs[i] \in Tabs
      /\ \A i \in 1 .. m : n + i \in 1 .. n + m /\ tabs'[n + i] = order[i]
  <2>1. \A i \in 1 .. n : i \in 1 .. n + m /\ i <= n
    BY <1>0
  <2>2. \A i \in 1 .. m : n + i \in 1 .. n + m /\ ~(n + i <= n) /\ (n + i) - n = i
    BY <1>0
  <2> QED
    BY <1>0, <1>3, <2>1, <2>2 DEF Tabs
<1>6. \A i \in 1 .. n + m : i \in 1 .. n \/ \E j \in 1 .. m : i = n + j
  <2>1. \A i \in 1 .. n + m : i \in 1 .. n \/ (i - n \in 1 .. m /\ i = n + (i - n))
    BY <1>0
  <2> QED
    BY <2>1
<1>7. IsInjective(tabs')
  <2> SUFFICES ASSUME NEW i \in 1 .. n + m, NEW j \in 1 .. n + m, tabs'[i] = tabs'[j]
               PROVE  i = j
    BY <1>4 DEF IsInjective
  <2>1. \A a, b \in 1 .. n : tabs[a] = tabs[b] => a = b
    BY <1>0 DEF IsInjective
  <2>2. \A a \in 1 .. m : order[a] \notin Tabs
    BY <1>1
  <2>3. CASE i \in 1 .. n /\ j \in 1 .. n
    BY <1>5, <2>1, <2>3
  <2>4. CASE i \in 1 .. n /\ \E b \in 1 .. m : j = n + b
    BY <1>5, <2>2, <2>4
  <2>5. CASE (\E a \in 1 .. m : i = n + a) /\ j \in 1 .. n
    BY <1>5, <2>2, <2>5
  <2>6. CASE (\E a \in 1 .. m : i = n + a) /\ \E b \in 1 .. m : j = n + b
    <3>1. PICK a \in 1 .. m, b \in 1 .. m : i = n + a /\ j = n + b
      BY <2>6
    <3>2. order[a] = order[b]
      BY <1>5, <3>1
    <3> QED
      BY <1>1, <3>1, <3>2
  <2> QED
    BY <1>6, <2>3, <2>4, <2>5, <2>6
<1>8. Tabs' = Tabs \cup S
  <2>1. Tabs = {tabs[i] : i \in 1 .. n} /\ Tabs' = {tabs'[i] : i \in 1 .. n + m}
    BY <1>0, <1>4 DEF Tabs
  <2>2. ASSUME NEW x PROVE x \in Tabs' => x \in Tabs \/ x \in S
    <3> SUFFICES ASSUME NEW i \in 1 .. n + m PROVE tabs'[i] \in Tabs \/ tabs'[i] \in S
      BY <2>1
    <3>1. CASE i \in 1 .. n
      BY <1>5, <3>1
    <3>2. CASE \E j \in 1 .. m : i = n + j
      <4>1. PICK j \in 1 .. m : i = n + j
        BY <3>2
      <4>2. tabs'[i] = order[j] /\ order[j] \in S
        BY <1>1, <1>5, <4>1
      <4> QED
        BY <4>2
    <3> QED
      BY <1>6, <3>1, <3>2
  <2>3. ASSUME NEW x \in Tabs PROVE x \in Tabs'
    BY <1>5, <2>1
  <2>4. ASSUME NEW x \in S PROVE x \in Tabs'
    <3>1. PICK i \in 1 .. m : order[i] = x
      BY <1>1
    <3> QED
      BY <1>5, <2>1, <3>1
  <2> QED
    BY <2>2, <2>3, <2>4
<1>9. tabs' # << >> => Head(tabs') \in Tabs'
  <2>1. tabs' # << >> => 1 \in DOMAIN tabs' /\ Head(tabs') = tabs'[1]
    BY <1>3
  <2> QED
    BY <2>1 DEF Tabs
<1>10. tabs' = << >> => tabs = << >>
  <2>1. tabs' = << >> => n = 0
    BY <1>0, <1>3
  <2> QED
    BY <2>1 DEF n
<1> QED
  BY <1>3, <1>7, <1>8, <1>9, <1>10

\* The page's socket is the latest connection.
LEMMA SockIsConn == TabsTypeOK /\ sock # 0 => sock \in Conn /\ sock = conns
  BY DesktopAssumption DEF TabsTypeOK, Conn

\* A frame is sent on the page's socket, or dropped.
LEMMA SendStep ==
  ASSUME TabsTypeOK, NEW c \in Chan, NEW type \in {"open", "close"}, ClientSend(type, c)
  PROVE  /\ frames' \in [Conn -> Seq(Frame)]
         /\ Served => /\ frames'[sock] = Append(frames[sock], [type |-> type, chan |-> c])
                      /\ frames[sock] \in Seq(Frame)
<1> DEFINE f == [type |-> type, chan |-> c]
<1>1. f \in Frame /\ frames \in [Conn -> Seq(Frame)]
  BY DEF Frame, TabsTypeOK
<1> HIDE DEF f
<1>2. CASE sock # 0 /\ srv[sock] # "closed"
  <2>1. sock \in Conn /\ frames[sock] \in Seq(Frame)
    BY <1>1, <1>2, SockIsConn
  <2>2. Append(frames[sock], f) \in Seq(Frame)
    BY <1>1, <2>1
  <2>3. frames' = [frames EXCEPT ![sock] = Append(frames[sock], f)]
    BY <1>2 DEF ClientSend, f
  <2> QED
    BY <1>1, <2>1, <2>2, <2>3 DEF f
<1>3. CASE ~(sock # 0 /\ srv[sock] # "closed")
  BY <1>1, <1>3 DEF ClientSend, Served
<1> QED
  BY <1>2, <1>3

\* What a new terminal does to the tabs.
LEMMA NewTerminalStep ==
  ASSUME TabsTypeOK, ActiveIsTab, NewTerminal
  PROVE  /\ tabs' \in Seq(Chan) /\ IsInjective(tabs') /\ Tabs \subseteq Tabs'
         /\ activeChannel' \in Chan /\ nextID' \in 1 .. MaxChan + 1 /\ ActiveIsTab'
<1>1. /\ nextID \in Chan /\ AddPTYChannel(nextID) /\ nextID' = nextID + 1 /\ activeChannel' = nextID
      /\ tabs \in Seq(Chan) /\ IsInjective(tabs)
  BY DEF NewTerminal, TabsTypeOK
<1>2. /\ tabs' \in Seq(Chan) /\ IsInjective(tabs') /\ tabs' # << >> /\ Tabs' = Tabs \cup {nextID}
  BY <1>1, AddTab
<1>3. nextID' \in 1 .. MaxChan + 1
  BY <1>1, DesktopAssumption DEF Chan
<1> QED
  BY <1>1, <1>2, <1>3 DEF ActiveIsTab

\* The types, and the active tab, for each event of the page and step of the server.
LEMMA TabsTypeStep ==
  TabsTypeOK /\ ActiveIsTab /\ [TabsNext]_tabsVars => TabsTypeOK' /\ ActiveIsTab'
<1> SUFFICES ASSUME TabsTypeOK, ActiveIsTab, [TabsNext]_tabsVars
             PROVE  TabsTypeOK' /\ ActiveIsTab'
  OBVIOUS
<1> USE DesktopAssumption
<1>1. CASE Load
  <2>1. << >> \in Seq(Chan) /\ IsInjective(<< >>) /\ << >> \in Seq(SUBSET Chan)
    BY DEF IsInjective
  <2>2. loads' \in 1 .. MaxLoads
    BY <1>1 DEF Load, TabsTypeOK
  <2>3. tabs' = << >> /\ activeChannel' = NoChannel /\ ready' = {} /\ nextID' \in 1 .. MaxChan + 1
        /\ sock' = 0 /\ sync' = << >>
    BY <1>1 DEF Load, FreshPage
  <2>4. timer' \in BOOLEAN /\ opened' \in BOOLEAN
    BY <1>1, Zenon DEF Load, FreshPage
  <2>5. tabs' \in Seq(Chan) /\ IsInjective(tabs') /\ sync' \in Seq(SUBSET Chan) /\ ready' \subseteq Tabs'
    BY <2>1, <2>3
  <2>6. UNCHANGED <<closes, conns, srv, frames, serverVars>>
    BY <1>1 DEF Load
  <2> QED
    BY <2>2, <2>3, <2>4, <2>5, <2>6 DEF TabsTypeOK, ActiveIsTab, serverVars
<1>2. CASE FirstTerminal
  <2>1. CASE tabs = << >>
    <3>1. NewTerminal
      BY <1>2, <2>1 DEF FirstTerminal
    <3> QED
      BY <1>2, <3>1, NewTerminalStep
         DEF FirstTerminal, TabsTypeOK, bounds, connVars, serverVars
  <2>2. CASE tabs # << >>
    <3>1. UNCHANGED <<tabs, activeChannel, nextID>> /\ Tabs' = Tabs
      BY <1>2, <2>2 DEF FirstTerminal, Tabs
    <3> QED
      BY <1>2, <3>1 DEF FirstTerminal, TabsTypeOK, ActiveIsTab, bounds, connVars, serverVars
  <2> QED
    BY <2>1, <2>2
<1>3. CASE OpenNewTerminal
  <2>1. NewTerminal
    BY <1>3 DEF OpenNewTerminal
  <2> QED
    BY <1>3, <2>1, NewTerminalStep DEF OpenNewTerminal, TabsTypeOK, bounds, connVars, serverVars
<1>4. ASSUME NEW c \in Chan, SelectChannel(c)
      PROVE  TabsTypeOK' /\ ActiveIsTab'
  <2>1. Tabs' = Tabs /\ c \in Tabs
    BY <1>4 DEF SelectChannel, Tabs
  <2>2. tabs # << >>
    BY <2>1 DEF Tabs
  <2> QED
    BY <1>4, <2>1, <2>2 DEF SelectChannel, TabsTypeOK, ActiveIsTab, bounds, connVars, serverVars
<1>5. ASSUME NEW c \in Chan, CloseTerminal(c)
      PROVE  TabsTypeOK' /\ ActiveIsTab'
  <2>1. RemovePTYChannel(c) /\ c \in Tabs /\ tabs \in Seq(Chan) /\ IsInjective(tabs)
    BY <1>5 DEF CloseTerminal, TabsTypeOK
  <2>2. /\ tabs' \in Seq(Chan) /\ IsInjective(tabs') /\ Tabs' = Tabs \ {c}
        /\ tabs' # << >> => Head(tabs') \in Tabs'
        /\ tabs' = << >> => Tabs' = {}
    BY <2>1, RemoveTab
  <2>3. tabs # << >>
    BY <2>1 DEF Tabs
  <2>4. frames' \in [Conn -> Seq(Frame)]
    BY <1>5, SendStep DEF CloseTerminal
  <2>5. Tabs \subseteq Chan
    BY <2>1 DEF Tabs
  <2>6. ActiveIsTab' /\ activeChannel' \in Chan \cup {NoChannel}
    <3>1. activeChannel \in Tabs
      BY <2>3 DEF ActiveIsTab
    <3> QED
      BY <2>1, <2>2, <2>5, <3>1 DEF RemovePTYChannel, ActiveIsTab
  <2>7. closes' \in 0 .. MaxCloses
    BY <1>5 DEF CloseTerminal, TabsTypeOK
  <2> QED
    BY <1>5, <2>2, <2>4, <2>6, <2>7 DEF CloseTerminal, TabsTypeOK, serverVars
<1>6. ASSUME NEW c \in Chan, TermReady(c)
      PROVE  TabsTypeOK' /\ ActiveIsTab'
  <2>1. frames' \in [Conn -> Seq(Frame)]
    BY <1>6, SendStep DEF TermReady, TabsTypeOK
  <2>2. Tabs' = Tabs
    BY <1>6 DEF TermReady, Tabs
  <2> QED
    BY <1>6, <2>1, <2>2 DEF TermReady, TabsTypeOK, ActiveIsTab, bounds, serverVars
<1>7. CASE SockOpen
  <2>1. PICK order \in InAnyOrder(ready) :
          frames' = [frames EXCEPT ![conns + 1] = [i \in DOMAIN order |-> OpenFrame(order[i])]]
    BY <1>7 DEF SockOpen, OpenFrame
  <2>2. ready \subseteq Chan /\ Cardinality(ready) \in Nat
    BY ChanFinite DEF TabsTypeOK, Tabs
  <2>3. order \in [1 .. Cardinality(ready) -> ready]
    BY DEF InAnyOrder, Bijection, Injection
  <2>4. [i \in DOMAIN order |-> OpenFrame(order[i])] \in Seq(Frame)
    <3>1. \A i \in 1 .. Cardinality(ready) : OpenFrame(order[i]) \in Frame
      BY <2>2, <2>3 DEF OpenFrame, Frame
    <3> QED
      BY <2>2, <2>3, <3>1
  <2>5. frames' \in [Conn -> Seq(Frame)]
    BY <2>1, <2>4 DEF TabsTypeOK
  <2>6. conns' \in 0 .. MaxConns /\ sock' = conns'
    BY <1>7 DEF SockOpen, TabsTypeOK
  <2>7. Tabs' = Tabs
    BY <1>7 DEF SockOpen, Tabs
  <2> QED
    BY <1>7, <2>5, <2>6, <2>7 DEF SockOpen, TabsTypeOK, ActiveIsTab, bounds, serverVars
<1>8. CASE SockClose
  <2>1. Tabs' = Tabs /\ << >> \in Seq(SUBSET Chan)
    BY <1>8 DEF SockClose, Tabs, pageVars
  <2> QED
    BY <1>8, <2>1 DEF SockClose, TabsTypeOK, ActiveIsTab, bounds, pageVars, serverVars
<1>9. CASE SessionSync
  <2>1. PICK order \in InAnyOrder(Head(sync) \ Tabs) : tabs' = tabs \o order
    BY <1>9 DEF SessionSync
  <2>2. Head(sync) \ Tabs \in SUBSET (Chan \ Tabs)
    BY <1>9 DEF SessionSync, TabsTypeOK
  <2>3. /\ tabs' \in Seq(Chan) /\ IsInjective(tabs') /\ Tabs' = Tabs \cup (Head(sync) \ Tabs)
        /\ tabs' # << >> => Head(tabs') \in Tabs'
        /\ tabs' = << >> => tabs = << >>
    BY <2>1, <2>2, AddTabs DEF TabsTypeOK
  <2>4. Tabs' \subseteq Chan /\ NoChannel \notin Chan
    BY <2>3 DEF Tabs
  <2>5. ActiveIsTab' /\ activeChannel' \in Chan \cup {NoChannel}
    BY <1>9, <2>3, <2>4 DEF SessionSync, ActiveIsTab, TabsTypeOK
  <2>6. << >> \in Seq(SUBSET Chan)
    OBVIOUS
  <2> QED
    BY <1>9, <2>3, <2>5, <2>6 DEF SessionSync, TabsTypeOK, bounds, serverVars
<1>10. ASSUME NEW k \in Conn, Greet(k)
       PROVE  TabsTypeOK' /\ ActiveIsTab'
  <2>1. Tabs' = Tabs
    BY <1>10 DEF Greet, Tabs, pageVars
  <2>2. <<ptys>> \in Seq(SUBSET Chan)
    BY DEF TabsTypeOK
  <2> QED
    BY <1>10, <2>1, <2>2 DEF Greet, TabsTypeOK, ActiveIsTab, bounds, pageVars, serverVars
<1>11. ASSUME NEW k \in Conn, OpenPTY(k) \/ OpenPTYFails(k) \/ ClosePTY(k)
       PROVE  TabsTypeOK' /\ ActiveIsTab'
  <2>1. frames[k] \in Seq(Frame) /\ frames[k] # << >> /\ frames' = [frames EXCEPT ![k] = Tail(frames[k])]
    BY <1>11 DEF OpenPTY, OpenPTYFails, ClosePTY, Handle, TabsTypeOK
  <2>2. Head(frames[k]) \in Frame /\ Tail(frames[k]) \in Seq(Frame)
    BY <2>1
  <2>3. Head(frames[k]).chan \in Chan /\ frames' \in [Conn -> Seq(Frame)]
    BY <2>1, <2>2 DEF Frame, TabsTypeOK
  <2>4. UNCHANGED <<bounds, pageVars, sock, conns, srv, sync>> /\ overlap' \in BOOLEAN
    BY <1>11 DEF OpenPTY, OpenPTYFails, ClosePTY, Handle, TabsTypeOK
  <2>5. ptys' \subseteq Chan /\ failed' \subseteq Chan
    BY <1>11, <2>3 DEF OpenPTY, OpenPTYFails, ClosePTY, TabsTypeOK
  <2>6. Tabs' = Tabs
    BY <2>4 DEF Tabs, pageVars
  <2> QED
    BY <2>3, <2>4, <2>5, <2>6 DEF TabsTypeOK, ActiveIsTab, bounds, pageVars
<1>12. ASSUME NEW k \in Conn, HubClose(k)
       PROVE  TabsTypeOK' /\ ActiveIsTab'
  <2>1. Tabs' = Tabs /\ << >> \in Seq(Frame)
    BY <1>12 DEF HubClose, Tabs, pageVars
  <2> QED
    BY <1>12, <2>1 DEF HubClose, TabsTypeOK, ActiveIsTab, bounds, pageVars, serverVars
<1>13. CASE UNCHANGED tabsVars
  BY <1>13 DEF tabsVars, bounds, pageVars, connVars, serverVars, TabsTypeOK, ActiveIsTab, Tabs
<1> QED
  BY <1>1, <1>2, <1>3, <1>4, <1>5, <1>6, <1>7, <1>8, <1>9, <1>10, <1>11, <1>12, <1>13
     DEF TabsNext, Reader

\* What the invariant says beyond types, as one.
Agreed == SockCounted /\ WantedHasTab /\ NoneHidden /\ ReadyServed

\* Events that send nothing and take away no tab.
LEMMA PageStep ==
  ASSUME TabsInv, Tabs \subseteq Tabs', UNCHANGED <<ready, opened, sock, srv, frames, serverVars>>,
         sync' = sync \/ (sync # << >> /\ sync' = << >> /\ Head(sync) \subseteq Tabs')
  PROVE  Agreed'
<1>1. UNCHANGED <<ptys, failed, overlap>> /\ (Served <=> Served')
  BY DEF serverVars, Served
<1>2. SockCounted'
  BY DEF TabsInv, SockCounted
<1>3. WantedHasTab'
  BY <1>1 DEF TabsInv, WantedHasTab
<1>4. NoneHidden'
  BY <1>1 DEF TabsInv, NoneHidden
<1>5. ReadyServed'
  BY <1>1 DEF TabsInv, ReadyServed
<1> QED
  BY <1>2, <1>3, <1>4, <1>5 DEF Agreed

\* Nothing is claimed of a page without a socket.
LEMMA OfflineStep == ASSUME sock' = 0 PROVE Agreed'
  BY DEF Agreed, Served, SockCounted, WantedHasTab, NoneHidden, ReadyServed

\* The user closes a terminal: a frame is sent, if there is a socket.
LEMMA CloseTerminalStep == ASSUME TabsInv, NEW c \in Chan, CloseTerminal(c) PROVE Agreed'
<1>1. /\ UNCHANGED <<opened, sock, srv, sync, ptys, failed, overlap>>
      /\ ready' = ready \ {c} /\ (Served <=> Served')
  BY DEF CloseTerminal, serverVars, Served
<1>2. Tabs' = Tabs \ {c}
  BY RemoveTab DEF CloseTerminal, TabsInv, TabsTypeOK
<1>3. Served => frames'[sock] = Append(frames[sock], CloseFrame(c)) /\ frames[sock] \in Seq(Frame)
  BY SendStep DEF CloseTerminal, TabsInv, CloseFrame
<1>4. CloseFrame(c) \in Frame
      /\ \A d \in Chan : CloseFrame(c) # OpenFrame(d) /\ (CloseFrame(c) = CloseFrame(d) <=> c = d)
  BY DEF CloseFrame, OpenFrame, Frame
<1>5. ASSUME Served, NEW d \in Chan
      PROVE  /\ Closing(frames'[sock], d) <=> Closing(frames[sock], d) \/ d = c
             /\ Wanted(frames'[sock], d) <=> Wanted(frames[sock], d) /\ d # c
  <2> DEFINE q == frames[sock]
             f == CloseFrame(c)
  <2>1. q \in Seq(Frame) /\ f \in Frame /\ frames'[sock] = Append(q, f)
    BY <1>3, <1>4, <1>5
  <2>2. (f = CloseFrame(d) <=> c = d) /\ (f = OpenFrame(d) <=> FALSE)
    BY <1>4
  <2> HIDE DEF q, f
  <2>3. /\ Closing(Append(q, f), d) <=> Closing(q, d) \/ f = CloseFrame(d)
        /\ Wanted(Append(q, f), d) <=> f = OpenFrame(d) \/ (Wanted(q, d) /\ f # CloseFrame(d))
    BY <2>1, AppendQueue
  <2>4. /\ Closing(frames'[sock], d) <=> Closing(q, d) \/ f = CloseFrame(d)
        /\ Wanted(frames'[sock], d) <=> f = OpenFrame(d) \/ (Wanted(q, d) /\ f # CloseFrame(d))
    BY <2>1, <2>3
  <2> QED
    BY <2>2, <2>4 DEF q
<1>6. ptys \subseteq Chan /\ ready \subseteq Chan
  BY DEF TabsInv, TabsTypeOK, Tabs
<1>7. SockCounted'
  BY <1>1 DEF TabsInv, SockCounted
<1>8. WantedHasTab'
  BY <1>1, <1>2, <1>5 DEF TabsInv, WantedHasTab
<1>9. NoneHidden'
  BY <1>1, <1>2, <1>5, <1>6 DEF TabsInv, NoneHidden
<1>10. ReadyServed'
  BY <1>1, <1>5, <1>6 DEF TabsInv, ReadyServed
<1> QED
  BY <1>7, <1>8, <1>9, <1>10 DEF Agreed

\* A terminal becomes ready, and asks for its session.
LEMMA TermReadyStep == ASSUME TabsInv, NEW c \in Chan, TermReady(c) PROVE Agreed'
<1>1. /\ UNCHANGED <<opened, sock, srv, sync, ptys, failed, overlap>> /\ Tabs' = Tabs /\ c \in Tabs
      /\ ready' = ready \cup {c} /\ (Served <=> Served')
  BY DEF TermReady, serverVars, Served, Tabs
<1>2. Served => opened
  BY DEF TabsInv, SockCounted, Served
<1>3. Served => frames'[sock] = Append(frames[sock], OpenFrame(c)) /\ frames[sock] \in Seq(Frame)
  BY <1>2, SendStep DEF TermReady, TabsInv, OpenFrame
<1>4. OpenFrame(c) \in Frame
      /\ \A d \in Chan : OpenFrame(c) # CloseFrame(d) /\ (OpenFrame(c) = OpenFrame(d) <=> c = d)
  BY DEF CloseFrame, OpenFrame, Frame
<1>5. ASSUME Served, NEW d \in Chan
      PROVE  /\ Closing(frames'[sock], d) <=> Closing(frames[sock], d)
             /\ Wanted(frames'[sock], d) <=> Wanted(frames[sock], d) \/ d = c
  <2> DEFINE q == frames[sock]
             f == OpenFrame(c)
  <2>1. q \in Seq(Frame) /\ f \in Frame /\ frames'[sock] = Append(q, f)
    BY <1>3, <1>4, <1>5
  <2>2. (f = CloseFrame(d) <=> FALSE) /\ (f = OpenFrame(d) <=> c = d)
    BY <1>4
  <2> HIDE DEF q, f
  <2>3. /\ Closing(Append(q, f), d) <=> Closing(q, d) \/ f = CloseFrame(d)
        /\ Wanted(Append(q, f), d) <=> f = OpenFrame(d) \/ (Wanted(q, d) /\ f # CloseFrame(d))
    BY <2>1, AppendQueue
  <2>4. /\ Closing(frames'[sock], d) <=> Closing(q, d) \/ f = CloseFrame(d)
        /\ Wanted(frames'[sock], d) <=> f = OpenFrame(d) \/ (Wanted(q, d) /\ f # CloseFrame(d))
    BY <2>1, <2>3
  <2> QED
    BY <2>2, <2>4 DEF q
<1>6. ptys \subseteq Chan /\ ready \subseteq Chan
  BY DEF TabsInv, TabsTypeOK, Tabs
<1>7. SockCounted'
  BY <1>1 DEF TabsInv, SockCounted
<1>8. WantedHasTab'
  BY <1>1, <1>5 DEF TabsInv, WantedHasTab
<1>9. NoneHidden'
  BY <1>1, <1>5, <1>6 DEF TabsInv, NoneHidden
<1>10. ReadyServed'
  BY <1>1, <1>5, <1>6 DEF TabsInv, ReadyServed
<1> QED
  BY <1>7, <1>8, <1>9, <1>10 DEF Agreed

\* A socket opens: what is ready is asked for.
LEMMA SockOpenStep == ASSUME TabsInv, SockOpen PROVE Agreed'
<1>1. /\ UNCHANGED <<ready, ptys, failed, overlap>> /\ Tabs' = Tabs
      /\ sock' = conns + 1 /\ conns + 1 \in Conn /\ opened' /\ srv'[conns + 1] = "greet"
  BY DesktopAssumption DEF SockOpen, serverVars, Tabs, TabsInv, TabsTypeOK, Conn
<1>2. PICK order \in InAnyOrder(ready) :
        frames' = [frames EXCEPT ![conns + 1] = [i \in DOMAIN order |-> OpenFrame(order[i])]]
  BY DEF SockOpen, OpenFrame
<1>3. frames'[sock'] = [i \in DOMAIN order |-> OpenFrame(order[i])]
  BY <1>1, <1>2 DEF TabsInv, TabsTypeOK
<1>4. ready \subseteq Tabs /\ Cardinality(ready) \in Nat
  BY ChanFinite DEF TabsInv, TabsTypeOK, Tabs
<1>5. ASSUME NEW d PROVE ~Closing(frames'[sock'], d) /\ (Wanted(frames'[sock'], d) <=> d \in ready)
  BY <1>3, <1>4, FirstQueue
<1>6. srv'[sock'] = "greet"
  BY <1>1
<1>7. SockCounted'
  BY <1>1, <1>6 DEF SockCounted
<1>8. WantedHasTab'
  BY <1>1, <1>4, <1>5 DEF WantedHasTab
<1>9. NoneHidden'
  BY <1>6 DEF NoneHidden
<1>10. ReadyServed'
  BY <1>1, <1>5 DEF ReadyServed
<1> QED
  BY <1>7, <1>8, <1>9, <1>10 DEF Agreed

\* handleWS greets with all sessions there are.
LEMMA GreetStep == ASSUME TabsInv, NEW k \in Conn, Greet(k) PROVE Agreed'
<1>1. /\ UNCHANGED <<ready, opened, sock, frames, ptys, failed, overlap>> /\ Tabs' = Tabs
      /\ \A j \in Conn \ {k} : srv'[j] = srv[j]
      /\ srv[k] = "greet" /\ srv'[k] = "run" /\ sync' = IF k = sock THEN <<ptys>> ELSE sync
  BY DEF Greet, serverVars, pageVars, Tabs, TabsInv, TabsTypeOK
<1>2. sock # 0 => sock \in Conn
  BY SockIsConn DEF TabsInv
<1>3. Served <=> Served'
  BY <1>1, <1>2 DEF Served
<1>4. SockCounted'
  BY <1>1, <1>2 DEF TabsInv, SockCounted
<1>5. WantedHasTab'
  BY <1>1, <1>3 DEF TabsInv, WantedHasTab
<1>6. NoneHidden'
  <2>1. CASE k = sock
    <3>1. sync' # << >> /\ Head(sync') = ptys
      BY <1>1, <2>1
    <3> QED
      BY <1>1, <3>1 DEF NoneHidden
  <2>2. CASE k # sock
    <3>1. Served => srv'[sock] = srv[sock] /\ sync' = sync
      BY <1>1, <1>2, <2>2 DEF Served
    <3> QED
      BY <1>1, <1>3, <3>1 DEF TabsInv, NoneHidden
  <2> QED
    BY <2>1, <2>2
<1>7. ReadyServed'
  BY <1>1, <1>3 DEF TabsInv, ReadyServed
<1> QED
  BY <1>4, <1>5, <1>6, <1>7 DEF Agreed

\* A frame is handled: what it meant has been done, or is to be undone by a later one.
LEMMA HandleStep ==
  ASSUME TabsInv, NEW k \in Conn, OpenPTY(k) \/ OpenPTYFails(k) \/ ClosePTY(k)
  PROVE  Agreed'
<1> DEFINE q == frames[k]
           f == Head(q)
<1>1. /\ UNCHANGED <<ready, opened, sock, srv, sync>> /\ Tabs' = Tabs /\ (Served <=> Served')
      /\ frames' = [frames EXCEPT ![k] = Tail(q)]
      /\ overlap' = (overlap \/ k # conns)
      /\ q # << >>
  BY DEF OpenPTY, OpenPTYFails, ClosePTY, Handle, pageVars, Tabs, Served
<1>2. q \in Seq(Frame) /\ f \in Frame
  BY <1>1 DEF TabsInv, TabsTypeOK
<1>3. \A j \in Conn \ {k} : frames'[j] = frames[j]
  BY <1>1 DEF TabsInv, TabsTypeOK
<1>4. frames'[k] = Tail(q)
  BY <1>1 DEF TabsInv, TabsTypeOK
<1>5. sock # 0 => sock \in Conn /\ sock = conns
  BY SockIsConn DEF TabsInv
<1>6. ptys \subseteq Chan /\ ready \subseteq Chan
  BY DEF TabsInv, TabsTypeOK, Tabs
<1>7. \/ f = OpenFrame(f.chan) /\ ptys' \cup failed' = ptys \cup failed \cup {f.chan}
         /\ ptys' \subseteq ptys \cup {f.chan}
      \/ f = CloseFrame(f.chan) /\ ptys' = ptys \ {f.chan} /\ failed' = failed
  BY <1>2 DEF OpenPTY, OpenPTYFails, ClosePTY, Handle, Frame, OpenFrame, CloseFrame
<1>8. \A d : /\ Closing(q, d) <=> Closing(Tail(q), d) \/ f = CloseFrame(d)
             /\ Wanted(q, d) <=>
                  Wanted(Tail(q), d) \/ (f = OpenFrame(d) /\ ~Closing(Tail(q), d))
  BY <1>1, <1>2, TailQueue
<1>9. \A d, e : /\ OpenFrame(d) # CloseFrame(e)
                /\ OpenFrame(d) = OpenFrame(e) => d = e
                /\ CloseFrame(d) = CloseFrame(e) => d = e
  BY DEF OpenFrame, CloseFrame
<1> HIDE DEF q, f
<1>10. SockCounted'
  BY <1>1 DEF TabsInv, SockCounted
<1>11. WantedHasTab'
  <2>1. CASE Served /\ k = sock
    <3>1. \A d \in Chan : Wanted(q, d) => d \in Tabs
      BY <2>1 DEF TabsInv, WantedHasTab, q
    <3>2. frames'[sock'] = Tail(q)
      BY <1>1, <1>4, <2>1
    <3> QED
      BY <1>1, <1>8, <3>1, <3>2 DEF WantedHasTab
  <2>2. CASE Served /\ k # sock
    <3>1. frames'[sock'] = frames[sock]
      BY <1>1, <1>3, <1>5, <2>2 DEF Served
    <3> QED
      BY <1>1, <3>1 DEF TabsInv, WantedHasTab
  <2>3. CASE ~Served
    BY <1>1, <2>3 DEF WantedHasTab
  <2> QED
    BY <2>1, <2>2, <2>3
<1>12. CASE overlap' \/ ~Served
  BY <1>1, <1>10, <1>11, <1>12 DEF Agreed, NoneHidden, ReadyServed
<1>13. CASE ~overlap' /\ Served
  <2>1. ~overlap /\ k = sock /\ frames'[sock'] = Tail(q) /\ frames[sock] = q
    BY <1>1, <1>4, <1>5, <1>13 DEF Served, q
  <2>2. NoneHidden'
    <3> SUFFICES ASSUME srv[sock] = "run", NEW d \in ptys'
                 PROVE  d \in Tabs \/ (sync # << >> /\ d \in Head(sync)) \/ Closing(Tail(q), d)
      BY <1>1, <2>1 DEF NoneHidden
    <3>1. \A e \in ptys : e \in Tabs \/ (sync # << >> /\ e \in Head(sync)) \/ Closing(q, e)
      BY <1>13, <2>1 DEF TabsInv, NoneHidden
    <3>2. \A e \in Chan : Wanted(q, e) => e \in Tabs
      BY <1>13, <2>1 DEF TabsInv, WantedHasTab
    <3>3. f.chan \in Chan
      BY <1>2 DEF Frame
    <3>4. CASE f = OpenFrame(f.chan) /\ d = f.chan
      BY <1>8, <3>2, <3>3, <3>4
    <3>5. CASE f = OpenFrame(f.chan) /\ d # f.chan
      BY <1>7, <1>8, <1>9, <3>1, <3>5
    <3>6. CASE f = CloseFrame(f.chan)
      BY <1>7, <1>8, <1>9, <3>1, <3>6
    <3> QED
      BY <1>7, <3>4, <3>5, <3>6
  <2>3. ReadyServed'
    <3> SUFFICES ASSUME NEW d \in ready
                 PROVE  \/ d \in ptys' \cup failed' /\ ~Closing(Tail(q), d)
                        \/ Wanted(Tail(q), d)
      BY <1>1, <2>1 DEF ReadyServed
    <3>1. (d \in ptys \cup failed /\ ~Closing(q, d)) \/ Wanted(q, d)
      BY <1>13, <2>1 DEF TabsInv, ReadyServed
    <3>2. CASE f = OpenFrame(f.chan)
      BY <1>7, <1>8, <1>9, <3>1, <3>2
    <3>3. CASE f = CloseFrame(f.chan)
      BY <1>7, <1>8, <1>9, <3>1, <3>3
    <3> QED
      BY <1>7, <3>2, <3>3
  <2> QED
    BY <1>10, <1>11, <2>2, <2>3 DEF Agreed
<1> QED
  BY <1>12, <1>13

\* The server closes a connection: the page's, or another one.
LEMMA HubCloseStep == ASSUME TabsInv, NEW k \in Conn, HubClose(k) PROVE Agreed'
<1>1. /\ UNCHANGED <<ready, opened, sock, sync, ptys, failed, overlap>> /\ Tabs' = Tabs
      /\ srv'[k] = "closed" /\ \A j \in Conn \ {k} : srv'[j] = srv[j] /\ frames'[j] = frames[j]
  BY DEF HubClose, serverVars, pageVars, Tabs, TabsInv, TabsTypeOK
<1>2. sock # 0 => sock \in Conn
  BY SockIsConn DEF TabsInv
<1>3. SockCounted'
  BY <1>1, <1>2 DEF TabsInv, SockCounted
<1>4. CASE k = sock
  BY <1>1, <1>3, <1>4 DEF Agreed, Served, WantedHasTab, NoneHidden, ReadyServed
<1>5. CASE k # sock
  <2>1. sock # 0 => srv'[sock] = srv[sock] /\ frames'[sock] = frames[sock]
    BY <1>1, <1>2, <1>5
  <2>2. Served <=> Served'
    BY <1>1, <2>1 DEF Served
  <2>3. WantedHasTab'
    BY <1>1, <2>1, <2>2 DEF TabsInv, WantedHasTab, Served
  <2>4. NoneHidden'
    BY <1>1, <2>1, <2>2 DEF TabsInv, NoneHidden, Served
  <2>5. ReadyServed'
    BY <1>1, <2>1, <2>2 DEF TabsInv, ReadyServed, Served
  <2> QED
    BY <1>3, <2>3, <2>4, <2>5 DEF Agreed
<1> QED
  BY <1>4, <1>5

\* The invariant is kept by every event of the page and every step of the server.
LEMMA TabsInvStep == TabsInv /\ [TabsNext]_tabsVars => TabsInv'
<1> SUFFICES ASSUME TabsInv, [TabsNext]_tabsVars PROVE TabsInv'
  OBVIOUS
<1>1. TabsTypeOK' /\ ActiveIsTab'
  BY TabsTypeStep DEF TabsInv
<1>0. TabsTypeOK /\ ActiveIsTab
  BY DEF TabsInv
<1> SUFFICES Agreed'
  BY <1>1 DEF TabsInv, Agreed
<1>2. CASE Load \/ SockClose
  BY <1>2, OfflineStep DEF Load, SockClose
<1>3. CASE FirstTerminal
  <2>1. Tabs \subseteq Tabs'
    <3>1. CASE tabs = << >>
      BY <1>3, <3>1 DEF Tabs
    <3>2. CASE tabs # << >>
      BY <1>3, <3>2 DEF FirstTerminal, Tabs
    <3> QED
      BY <3>1, <3>2
  <2> QED
    BY <1>3, <2>1, PageStep DEF FirstTerminal, connVars
<1>4. CASE OpenNewTerminal
  <2>1. Tabs \subseteq Tabs'
    BY <1>0, <1>4, NewTerminalStep DEF OpenNewTerminal
  <2> QED
    BY <1>4, <2>1, PageStep DEF OpenNewTerminal, connVars
<1>5. ASSUME NEW c \in Chan, SelectChannel(c) PROVE Agreed'
  <2>1. Tabs' = Tabs
    BY <1>5 DEF SelectChannel, Tabs
  <2> QED
    BY <1>5, <2>1, PageStep DEF SelectChannel, connVars
<1>6. CASE SessionSync
  <2>1. PICK order \in InAnyOrder(Head(sync) \ Tabs) : tabs' = tabs \o order
    BY <1>6 DEF SessionSync
  <2>2. Head(sync) \ Tabs \in SUBSET (Chan \ Tabs)
    BY <1>0, <1>6 DEF SessionSync, TabsTypeOK
  <2>3. Tabs' = Tabs \cup (Head(sync) \ Tabs)
    BY <1>0, <2>1, <2>2, AddTabs DEF TabsTypeOK
  <2> QED
    BY <1>6, <2>3, PageStep DEF SessionSync
<1>7. CASE UNCHANGED tabsVars
  <2>1. Tabs' = Tabs
    BY <1>7 DEF tabsVars, pageVars, Tabs
  <2> QED
    BY <1>7, <2>1, PageStep DEF tabsVars, pageVars, connVars
<1> QED
  BY <1>2, <1>3, <1>4, <1>5, <1>6, <1>7, CloseTerminalStep, TermReadyStep, SockOpenStep,
     GreetStep, HandleStep, HubCloseStep
     DEF TabsNext, Reader

\* One tab per channel, one of them active, and, when the page and the server have
\* come to rest, one per session of the server and no other: however closing and
\* opening terminals, lost frames, reconnects and reloads are interleaved
\* (session-sync listener and closeTerminal of the desktop page, handleWS).
THEOREM TabsStayRight == TabsSpec => []TabsRight
<1>1. TabsInit => TabsInv
  <2> SUFFICES ASSUME TabsInit PROVE TabsInv
    OBVIOUS
  <2>1. tabs = << >> /\ Tabs = {} /\ ready = {} /\ sock = 0 /\ activeChannel = NoChannel
    BY DEF TabsInit, Tabs
  <2>2. << >> \in Seq(Chan) /\ IsInjective(<< >>) /\ << >> \in Seq(SUBSET Chan) /\ << >> \in Seq(Frame)
    BY DEF IsInjective
  <2>3. timer \in BOOLEAN /\ opened \in BOOLEAN /\ overlap \in BOOLEAN
    BY Zenon DEF TabsInit
  <2>4. frames \in [Conn -> Seq(Frame)] /\ sync \in Seq(SUBSET Chan)
    BY <2>2 DEF TabsInit
  <2>5. loads \in 1 .. MaxLoads /\ closes \in 0 .. MaxCloses /\ conns \in 0 .. MaxConns
        /\ nextID \in 1 .. MaxChan + 1
    BY DesktopAssumption DEF TabsInit
  <2>6. srv \in [Conn -> {"new", "greet", "run", "closed"}] /\ ptys = {} /\ failed = {}
    BY DEF TabsInit
  <2>7. TabsTypeOK /\ ActiveIsTab
    BY <2>1, <2>2, <2>3, <2>4, <2>5, <2>6 DEF TabsTypeOK, ActiveIsTab
  <2> QED
    BY <2>1, <2>7
       DEF TabsInv, Served, SockCounted, WantedHasTab, NoneHidden, ReadyServed
<1>2. TabsInv => TabsRight
  <2> SUFFICES ASSUME TabsInv PROVE TabsRight
    OBVIOUS
  <2>1. ASSUME Settled, ~overlap
        PROVE  ptys \subseteq Tabs /\ Tabs \subseteq ptys \cup failed
    <3>1. Served /\ srv[sock] = "run" /\ sync = << >> /\ ready = Tabs
      BY <2>1 DEF Settled, Served
    <3>2. frames[sock] = << >>
      BY <2>1, <3>1, SockIsConn DEF Settled, Served, TabsInv
    <3>3. \A c : ~Closing(frames[sock], c) /\ ~Wanted(frames[sock], c)
      BY <3>2, EmptyQueue
    <3>4. ptys \subseteq Tabs
      BY <2>1, <3>1, <3>3 DEF TabsInv, NoneHidden
    <3>5. Tabs \subseteq ptys \cup failed
      BY <2>1, <3>1, <3>3 DEF TabsInv, ReadyServed
    <3> QED
      BY <3>4, <3>5
  <2> QED
    BY <2>1 DEF TabsInv, TabsRight, TabsMatchSessions
<1> QED
  BY <1>1, <1>2, TabsInvStep, PTL DEF TabsSpec
=============================================================================
