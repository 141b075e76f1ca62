-------------------------- MODULE DesktopStateProofs --------------------------
(***************************************************************************)
(* Proofs about the saved look of the desktop, for any number of pages,    *)
(* connections, parts of the desktop and changes.                          *)
(***************************************************************************)
EXTENDS DesktopState, SequenceTheorems, TLAPS

\* What a page may have put together so far.
Known == [parts : [Fields -> 0 .. edits], tabs : SUBSET Tabs]

\* TypeOK, and no page, frame or file is ahead of the last change.
Types ==
  /\ desk \in [Pages -> Known] /\ timer \in [Pages -> BOOLEAN]
  /\ conn \in [Pages -> 0 .. MaxConns] /\ synced \in [Pages -> BOOLEAN]
  /\ last \in 0 .. MaxConns /\ open \subseteq 1 .. last
  /\ up \in [Conns -> Seq(Known)] /\ down \in [Conns -> Seq(Known \cup {Absent})]
  /\ work \in [Conns -> [step : {"idle", "write", "rename"}, state : Known]]
  /\ temp \in [Conns -> Known \cup {Absent, Torn}]
  /\ file \in Known \cup {Absent}
  /\ edits \in 0 .. MaxEdits /\ editor \in SUBSET Pages /\ trouble \in BOOLEAN
  /\ unsaved \in [Pages -> SUBSET Fields]

\* A temporary file is whole when it is renamed, and there is one only while its
\* save is handled.
TempWhole ==
  \A c \in Conns :
    /\ work[c].step = "idle" => work[c] = Idle /\ temp[c] = Absent
    /\ work[c].step = "rename" => temp[c] = work[c].state

\* Connections are new when a page gets them, and have one page at most.
OnePage ==
  /\ \A p \in Pages : conn[p] <= last
  /\ \A p, q \in Pages : p # q /\ conn[p] = conn[q] => conn[p] = 0
  /\ \A c \in Conns : c > last => up[c] = << >> /\ down[c] = << >> /\ work[c] = Idle

\* There is one session sync per connection.
GreetedOnce ==
  /\ \A c \in Conns : down[c] = << >> \/ \E s \in Known \cup {Absent} : down[c] = <<s>>
  /\ \A p \in Pages : conn[p] # 0 /\ synced[p] => down[conn[p]] = << >>

\* Without trouble, what is on its way belongs to the page that made the last change.
OnItsWay ==
  ~trouble =>
    /\ \A c \in Conns : up[c] # << >> \/ work[c] # Idle => \E p \in Pages : conn[p] = c
    /\ \A p \in Pages : Busy(p) => editor = {p} /\ conn[p] # 0 /\ synced[p]

\* Part by part, a is no newer than b.
NoNewer(a, b) == \A f \in Fields : a.parts[f] <= b.parts[f]

\* The file, the save in progress, the saves on their way and the page, in this order.
Ordered(saved, w, sent, shown) ==
  /\ NoNewer(saved, shown)
  /\ w # Idle => NoNewer(saved, w.state) /\ NoNewer(w.state, shown)
  /\ \A i \in 1 .. Len(sent) :
       /\ NoNewer(saved, sent[i]) /\ NoNewer(sent[i], shown)
       /\ w # Idle => NoNewer(w.state, sent[i])
       /\ \A j \in i .. Len(sent) : NoNewer(sent[i], sent[j])

Chain(p) == Ordered(file, work[conn[p]], up[conn[p]], desk[p])

InOrder == ~trouble => \A p \in Pages : Busy(p) => Chain(p)

\* The last save of the page that made the last change is of what it shows, but
\* for the terminals opened and closed since.
LastSave(w, sent) == IF sent # << >> THEN sent[Len(sent)] ELSE w.state
LastIsShown(p) == Same(LastSave(work[conn[p]], up[conn[p]]), desk[p], Fields \ unsaved[p])

UpToDate ==
  ~trouble =>
    \A p \in editor :
      /\ Busy(p) /\ ~timer[p] => LastIsShown(p)
      /\ ~Busy(p) => /\ file \in Known
                     /\ conn[p] # 0 => IF synced[p] THEN Same(file, desk[p], Fields \ unsaved[p])
                                       ELSE down[conn[p]] \in {<< >>, <<file>>}

IInv ==
  Types /\ TempWhole /\ OnePage /\ GreetedOnce /\ OnItsWay /\ InOrder /\ UpToDate
-----------------------------------------------------------------------------
\* The types as the steps below use them, value by value.
Typed ==
  /\ \A p \in Pages : /\ desk[p] \in Known /\ conn[p] \in 0 .. MaxConns
                      /\ conn[p] # 0 => conn[p] \in Conns
  /\ \A c \in Conns : /\ up[c] \in Seq(Known) /\ work[c].state \in Known
                      /\ work[c].step \in {"idle", "write", "rename"}
                      /\ work[c] = [step |-> work[c].step, state |-> work[c].state]
  /\ file \in Known \cup {Absent}
  /\ last \in 0 .. MaxConns /\ edits \in 0 .. MaxEdits /\ MaxConns \in Nat /\ MaxEdits \in Nat
  /\ open \subseteq Conns /\ editor \subseteq Pages
  /\ Fresh \in Known

\* What Types says of the values.
LEMMA TypesTyped == ASSUME Types PROVE Typed
<1>1. MaxConns \in Nat /\ MaxEdits \in Nat /\ last \in 0 .. MaxConns /\ edits \in 0 .. MaxEdits
  BY DesktopStateAssumption DEF Types
<1>2. open \subseteq Conns /\ \A p \in Pages : conn[p] # 0 => conn[p] \in Conns
  BY <1>1 DEF Types, Conns
<1>3. Fresh \in Known
  BY <1>1 DEF Fresh, Plain, Known
<1> QED
  BY <1>1, <1>2, <1>3 DEF Types, Typed
-----------------------------------------------------------------------------
(* The types *)

\* What is known stays known.
LEMMA KnownGrows ==
  ASSUME edits \in Nat, edits' \in Nat, edits <= edits'
  PROVE  /\ Known \subseteq Known' /\ Seq(Known) \subseteq Seq(Known')
         /\ Seq(Known \cup {Absent}) \subseteq Seq(Known' \cup {Absent})
<1>1. Known \subseteq Known'
  BY DEF Known
<1>2. ASSUME NEW S, NEW T, S \subseteq T PROVE Seq(S) \subseteq Seq(T)
  BY <1>2
<1> QED
  BY <1>1, <1>2

\* A page changes its desktop.
LEMMA EditTypes == ASSUME Types, NEW p \in Pages, NEW f \in Fields, Edit(p, f) PROVE Types'
<1>1. /\ edits \in Nat /\ edits' = edits + 1 /\ edits' \in 0 .. MaxEdits /\ MaxEdits \in Nat
      /\ desk' = [desk EXCEPT ![p].parts[f] = edits + 1]
      /\ UNCHANGED <<conn, synced, unsaved, last, open, up, down, work, temp, file>>
  BY DesktopStateAssumption DEF Types, Edit, netVars, diskVars
<1>2. /\ Known \subseteq Known' /\ Seq(Known) \subseteq Seq(Known')
      /\ Seq(Known \cup {Absent}) \subseteq Seq(Known' \cup {Absent})
  BY <1>1, KnownGrows
<1>3. desk' \in [Pages -> Known']
  <2>1. desk \in [Pages -> Known']
    BY <1>2 DEF Types
  <2>2. PICK d \in Known' : d = desk[p]
    BY <2>1
  <2>3. [d EXCEPT !.parts[f] = edits + 1] \in Known'
    BY <1>1 DEF Known
  <2> QED
    BY <1>1, <2>1, <2>2, <2>3
<1>4. timer' \in [Pages -> BOOLEAN] /\ trouble' \in BOOLEAN /\ editor' \in SUBSET Pages
  <2>1. timer' \in [Pages -> BOOLEAN]
    BY Zenon DEF Types, Edit
  <2>2. trouble' \in BOOLEAN
    BY Zenon DEF Types, Edit
  <2>3. editor' \in SUBSET Pages
    BY DEF Types, Edit
  <2> QED
    BY <2>1, <2>2, <2>3
<1>5. up' \in [Conns -> Seq(Known')] /\ down' \in [Conns -> Seq(Known' \cup {Absent})]
  BY <1>1, <1>2 DEF Types
<1>6. work' \in [Conns -> [step : {"idle", "write", "rename"}, state : Known']]
  BY <1>1, <1>2 DEF Types
<1>7. temp' \in [Conns -> Known' \cup {Absent, Torn}] /\ file' \in Known' \cup {Absent}
  BY <1>1, <1>2 DEF Types
<1> QED
  BY <1>1, <1>3, <1>4, <1>5, <1>6, <1>7 DEF Types

\* A page opens or closes a terminal.
LEMMA TabTypes ==
  ASSUME Types, NEW p \in Pages, NEW t \in Tabs, NewTab(p, t) \/ CloseTab(p, t)
  PROVE  Types'
<1>1. /\ edits \in Nat /\ edits' = edits + 1 /\ edits' \in 0 .. MaxEdits /\ MaxEdits \in Nat
      /\ UNCHANGED <<timer, conn, synced, last, open, up, down, work, temp, file, editor, trouble>>
  BY DesktopStateAssumption DEF Types, NewTab, CloseTab, netVars, diskVars
<1>2. /\ Known \subseteq Known' /\ Seq(Known) \subseteq Seq(Known')
      /\ Seq(Known \cup {Absent}) \subseteq Seq(Known' \cup {Absent})
  BY <1>1, KnownGrows
<1>3. desk' \in [Pages -> Known'] /\ unsaved' \in [Pages -> SUBSET Fields]
  <2>1. desk \in [Pages -> Known'] /\ t \in Fields /\ "pins" \in Fields
    BY <1>2 DEF Types, Fields
  <2>2. PICK d \in Known' : d = desk[p]
    BY <2>1
  <2>3. [d EXCEPT !.tabs = @ \cup {t}] \in Known' /\ [d EXCEPT !.tabs = @ \ {t}] \in Known'
    BY <2>2 DEF Known
  <2>4. desk' \in [Pages -> Known']
    <3>1. desk' = [desk EXCEPT ![p] = [d EXCEPT !.tabs = @ \cup {t}]]
          \/ desk' = [desk EXCEPT ![p] = [d EXCEPT !.tabs = @ \ {t}]]
      BY <2>2 DEF NewTab, CloseTab
    <3> QED
      BY <2>1, <2>3, <3>1
  <2>5. unsaved' \in [Pages -> SUBSET Fields]
    <3>1. unsaved \in [Pages -> SUBSET Fields] /\ unsaved[p] \in SUBSET Fields
      BY DEF Types
    <3>2. unsaved[p] \cup {t} \in SUBSET Fields /\ unsaved[p] \cup {t, "pins"} \in SUBSET Fields
      BY <2>1, <3>1
    <3>3. \/ unsaved' = [unsaved EXCEPT ![p] = unsaved[p] \cup {t}]
          \/ unsaved' = [unsaved EXCEPT ![p] = unsaved[p] \cup {t, "pins"}]
      BY DEF NewTab, CloseTab
    <3> QED
      BY <3>1, <3>2, <3>3
  <2> QED
    BY <2>4, <2>5
<1>5. up' \in [Conns -> Seq(Known')] /\ down' \in [Conns -> Seq(Known' \cup {Absent})]
  BY <1>1, <1>2 DEF Types
<1>6. work' \in [Conns -> [step : {"idle", "write", "rename"}, state : Known']]
  BY <1>1, <1>2 DEF Types
<1>7. temp' \in [Conns -> Known' \cup {Absent, Torn}] /\ file' \in Known' \cup {Absent}
  BY <1>1, <1>2 DEF Types
<1> QED
  BY <1>1, <1>3, <1>5, <1>6, <1>7 DEF Types

\* The page's other steps.
LEMMA PageTypes ==
  ASSUME Types, NEW p \in Pages,
         SaveState(p) \/ Connect(p) \/ SessionSync(p) \/ Disconnect(p) \/ Reload(p)
  PROVE  Types'
<1>0. edits' = edits /\ Known' = Known /\ MaxConns \in Nat /\ Typed
  BY TypesTyped, DesktopStateAssumption
     DEF SaveState, Connect, SessionSync, Disconnect, Reload, histVars, Known
<1>1. CASE SaveState(p)
  <2>1. timer' \in [Pages -> BOOLEAN]
    BY <1>1, Zenon DEF Types, SaveState
  <2>2. up' \in [Conns -> Seq(Known)]
    <3>1. CASE conn[p] = 0
      BY <1>1, <3>1 DEF SaveState, Types
    <3>2. CASE conn[p] # 0
      <4>1. conn[p] \in Conns /\ Append(up[conn[p]], desk[p]) \in Seq(Known)
        <5>s. PICK s \in Seq(Known) : s = up[conn[p]]
          BY <1>0, <3>2 DEF Typed
        <5>1. desk[p] \in Known /\ conn[p] \in Conns
          BY <1>0, <3>2 DEF Typed
        <5>2. Append(s, desk[p]) \in Seq(Known)
          BY <5>1
        <5> QED
          BY <5>s, <5>1, <5>2
      <4> QED
        BY <1>1, <3>2, <4>1 DEF SaveState, Types
    <3> QED
      BY <3>1, <3>2
  <2>3. unsaved' \in [Pages -> SUBSET Fields]
    BY <1>1 DEF SaveState, Types
  <2> QED
    BY <1>0, <1>1, <2>1, <2>2, <2>3 DEF SaveState, Types, diskVars
<1>2. CASE Connect(p)
  <2>1. synced' \in [Pages -> BOOLEAN]
    BY <1>2, Zenon DEF Types, Connect
  <2>2. last' \in 0 .. MaxConns /\ open' \subseteq 1 .. last' /\ conn' \in [Pages -> 0 .. MaxConns]
    BY <1>0, <1>2 DEF Types, Typed, Connect
  <2> QED
    BY <1>0, <1>2, <2>1, <2>2 DEF Connect, Types, diskVars, histVars
<1>3. CASE SessionSync(p)
  <2>1. synced' \in [Pages -> BOOLEAN]
    BY <1>3, Zenon DEF Types, SessionSync
  <2>2. conn[p] \in Conns /\ down[conn[p]] \in Seq(Known \cup {Absent}) /\ down[conn[p]] # << >>
    BY <1>0, <1>3 DEF SessionSync, Types, Typed
  <2>3. /\ Head(down[conn[p]]) \in Known \cup {Absent}
        /\ Tail(down[conn[p]]) \in Seq(Known \cup {Absent})
    BY <2>2, HeadTailProperties
  <2>4. down' \in [Conns -> Seq(Known \cup {Absent})]
    BY <1>3, <2>3 DEF SessionSync, Types
  <2>5. desk' \in [Pages -> Known] /\ unsaved' \in [Pages -> SUBSET Fields]
    <3>1. PICK state \in Known \cup {Absent} : state = Head(down[conn[p]])
      BY <2>3
    <3>2. PICK d \in Known : d = desk[p]
      BY <1>0 DEF Typed
    <3>s. \E there \in SUBSET Tabs :
            /\ desk' = [desk EXCEPT ![p] = Shown(desk[p], Head(down[conn[p]]), there)]
            /\ unsaved' = [unsaved EXCEPT ![p] =
                 {t \in Tabs : t \in Shown(desk[p], Head(down[conn[p]]), there).tabs
                              <=> t \notin Head(down[conn[p]]).tabs}]
      BY <1>3, Zenon DEF SessionSync
    <3>3. PICK there \in SUBSET Tabs :
            /\ desk' = [desk EXCEPT ![p] = Shown(d, state, there)]
            /\ unsaved' = [unsaved EXCEPT ![p] =
                 {t \in Tabs : t \in Shown(d, state, there).tabs <=> t \notin state.tabs}]
      BY <3>1, <3>2, <3>s
    <3>4. Own(d, state) = Fields \/ state \in Known
      BY <3>1 DEF Own
    <3>5. Shown(d, state, there) \in Known
      BY <3>3, <3>4 DEF Shown, Known
    <3>6. {t \in Tabs : t \in Shown(d, state, there).tabs <=> t \notin state.tabs} \in SUBSET Fields
      BY DEF Fields
    <3> QED
      BY <3>3, <3>5, <3>6 DEF Types
  <2> QED
    BY <1>0, <1>3, <2>1, <2>4, <2>5 DEF SessionSync, Types, diskVars
<1>4. CASE Disconnect(p)
  <2>1. trouble' \in BOOLEAN
    BY <1>4, Zenon DEF Types, Disconnect
  <2>2. conn' \in [Pages -> 0 .. MaxConns]
    BY <1>0, <1>4 DEF Types, Disconnect
  <2> QED
    BY <1>0, <1>4, <2>1, <2>2 DEF Disconnect, Types, diskVars, netVars
<1>5. CASE Reload(p)
  <2>1. trouble' \in BOOLEAN
    BY <1>5, Zenon DEF Types, Reload
  <2>2. timer' \in [Pages -> BOOLEAN]
    BY <1>5, Zenon DEF Types, Reload
  <2>3. synced' \in [Pages -> BOOLEAN]
    BY <1>5, Zenon DEF Types, Reload
  <2>4. /\ conn' \in [Pages -> 0 .. MaxConns] /\ desk' \in [Pages -> Known]
        /\ unsaved' \in [Pages -> SUBSET Fields]
    BY <1>0, <1>5 DEF Types, Typed, Reload
  <2> QED
    BY <1>0, <1>5, <2>1, <2>2, <2>3, <2>4 DEF Reload, Types, diskVars, netVars
<1> QED
  BY <1>1, <1>2, <1>3, <1>4, <1>5

\* The server's steps.
LEMMA ServerTypes ==
  ASSUME Types, TempWhole, Crash \/ \E c \in Conns : Greet(c) \/ Save(c) \/ SaveFails(c) \/ ConnectionEnds(c)
  PROVE  Types'
<1>0. edits' = edits /\ Known' = Known /\ MaxConns \in Nat /\ Typed
  BY TypesTyped, DesktopStateAssumption
     DEF Crash, Greet, Save, CreateTemp, WriteTemp, Rename, Saving, SaveFails, ConnectionEnds,
       histVars, Known
<1>i. /\ Idle \in [step : {"idle", "write", "rename"}, state : Known]
      /\ << >> \in Seq(Known) /\ << >> \in Seq(Known \cup {Absent})
  BY <1>0, EmptySeq DEF Idle, Typed
<1>1. ASSUME NEW c \in Conns, Greet(c) PROVE Types'
  <2>1. <<file>> \in Seq(Known \cup {Absent})
    BY <1>0 DEF Typed
  <2>2. down' \in [Conns -> Seq(Known \cup {Absent})]
    BY <1>1, <2>1 DEF Greet, Types
  <2> QED
    BY <1>0, <1>1, <2>2 DEF Greet, Types, pageVars, diskVars, histVars
<1>2. ASSUME NEW c \in Conns, CreateTemp(c) PROVE Types'
  <2>1. Head(up[c]) \in Known /\ Tail(up[c]) \in Seq(Known)
    BY <1>0, <1>2, HeadTailProperties DEF CreateTemp, Typed
  <2>2. up' \in [Conns -> Seq(Known)] /\ temp' \in [Conns -> Known \cup {Absent, Torn}]
    BY <1>2, <2>1 DEF CreateTemp, Types
  <2>3. work' \in [Conns -> [step : {"idle", "write", "rename"}, state : Known]]
    BY <1>2, <2>1 DEF CreateTemp, Saving, Types
  <2> QED
    BY <1>0, <1>2, <2>2, <2>3 DEF CreateTemp, Saving, Types, pageVars, histVars
<1>3. ASSUME NEW c \in Conns, WriteTemp(c) PROVE Types'
  <2>1. work' \in [Conns -> [step : {"idle", "write", "rename"}, state : Known]]
    BY <1>3 DEF WriteTemp, Saving, Types
  <2>2. temp' \in [Conns -> Known \cup {Absent, Torn}]
    BY <1>0, <1>3 DEF WriteTemp, Saving, Types, Typed
  <2> QED
    BY <1>0, <1>3, <2>1, <2>2 DEF WriteTemp, Saving, Types, pageVars, histVars
<1>4. ASSUME NEW c \in Conns, Rename(c) PROVE Types'
  <2>1. temp[c] \in Known
    BY <1>0, <1>4 DEF Rename, Saving, TempWhole, Typed
  <2>2. work' \in [Conns -> [step : {"idle", "write", "rename"}, state : Known]]
    BY <1>4, <1>i DEF Rename, Saving, Types
  <2> QED
    BY <1>0, <1>4, <2>1, <2>2 DEF Rename, Saving, Types, pageVars, histVars
<1>5. ASSUME NEW c \in Conns, SaveFails(c) PROVE Types'
  <2>1. work' \in [Conns -> [step : {"idle", "write", "rename"}, state : Known]]
    BY <1>5, <1>i DEF SaveFails, Types
  <2>2. temp' \in [Conns -> Known \cup {Absent, Torn}] /\ trouble' \in BOOLEAN
    BY <1>5 DEF SaveFails, Types
  <2> QED
    BY <1>0, <1>5, <2>1, <2>2 DEF SaveFails, Types, pageVars, netVars
<1>6. ASSUME NEW c \in Conns, ConnectionEnds(c) PROVE Types'
  <2>1. up' \in [Conns -> Seq(Known)] /\ down' \in [Conns -> Seq(Known \cup {Absent})]
    BY <1>6, <1>i DEF ConnectionEnds, Types
  <2> QED
    BY <1>0, <1>6, <2>1 DEF ConnectionEnds, Types, pageVars, diskVars, histVars
<1>7. CASE Crash
  <2>1. up' \in [Conns -> Seq(Known)] /\ down' \in [Conns -> Seq(Known \cup {Absent})]
    BY <1>7, <1>i DEF Crash, Types
  <2>2. work' \in [Conns -> [step : {"idle", "write", "rename"}, state : Known]]
    BY <1>7, <1>i DEF Crash, Types
  <2>3. conn' \in [Pages -> 0 .. MaxConns] /\ temp' \in [Conns -> Known \cup {Absent, Torn}]
    BY <1>0, <1>7 DEF Crash, Types
  <2> QED
    BY <1>0, <1>7, <2>1, <2>2, <2>3 DEF Crash, Types
<1> QED
  BY <1>1, <1>2, <1>3, <1>4, <1>5, <1>6, <1>7 DEF Save
-----------------------------------------------------------------------------
(* The rest of the invariant, step by step *)

\* A state that a page has put together is not the lack of a file.
LEMMA KnownThere == ASSUME Typed, NEW s \in Known PROVE s # Absent
<1>1. "wallpaper" \in Fields
  BY DEF Fields
<1>2. s.parts["wallpaper"] >= 0 /\ Absent.parts["wallpaper"] = -1
  BY <1>1 DEF Typed, Known, Absent, Plain
<1> QED
  BY <1>2

\* What the page shows may follow all that is on its way.
LEMMA OrderedAppend ==
  ASSUME Typed, NEW s \in Seq(Known), NEW d \in Known, NEW saved, NEW w, Ordered(saved, w, s, d)
  PROVE  Ordered(saved, w, Append(s, d), d)
<1>t. PICK t : t = Append(s, d)
  OBVIOUS
<1>1. /\ Len(s) \in Nat /\ Len(t) = Len(s) + 1 /\ t[Len(s) + 1] = d
      /\ \A i \in 1 .. Len(s) : t[i] = s[i]
  BY <1>t, AppendProperties
<1>2. NoNewer(d, d)
  BY DEF NoNewer, Typed, Known
<1>3. ASSUME NEW i \in 1 .. Len(t)
      PROVE  /\ NoNewer(saved, t[i]) /\ NoNewer(t[i], d)
             /\ w # Idle => NoNewer(w.state, t[i])
             /\ \A j \in i .. Len(t) : NoNewer(t[i], t[j])
  <2>1. CASE i \in 1 .. Len(s)
    <3>1. t[i] = s[i] /\ \A j \in i .. Len(t) : t[j] = IF j = Len(s) + 1 THEN d ELSE s[j]
      BY <1>1, <2>1
    <3>2. /\ NoNewer(saved, s[i]) /\ NoNewer(s[i], d) /\ (w # Idle => NoNewer(w.state, s[i]))
          /\ \A j \in i .. Len(s) : NoNewer(s[i], s[j])
      BY <2>1 DEF Ordered
    <3>3. \A j \in i .. Len(t) : j = Len(s) + 1 \/ j \in i .. Len(s)
      BY <1>1, <2>1
    <3> QED
      BY <3>1, <3>2, <3>3
  <2>2. CASE i = Len(s) + 1
    <3>1. t[i] = d /\ \A j \in i .. Len(t) : j = i
      BY <1>1, <2>2
    <3>2. NoNewer(saved, d) /\ (w # Idle => NoNewer(w.state, d))
      BY DEF Ordered
    <3> QED
      BY <1>2, <3>1, <3>2
  <2> QED
    BY <1>1, <2>1, <2>2
<1> QED
  BY <1>t, <1>3 DEF Ordered

\* A page changes its desktop.
LEMMA EditStep == ASSUME IInv, Types', NEW p \in Pages, NEW f \in Fields, Edit(p, f) PROVE IInv'
<1>0. /\ edits' = edits + 1 /\ editor' = {p}
      /\ \A q \in Pages : q # p => desk'[q] = desk[q] /\ timer'[q] = timer[q]
      /\ timer'[p]
      /\ UNCHANGED <<conn, synced, last, open, up, down, work, temp, file>>
      /\ ~trouble' => /\ ~trouble /\ conn[p] # 0 /\ synced[p]
                      /\ \A g \in Fields : ~(desk[p].parts[g] < file.parts[g])
                      /\ \A q \in Pages \ {p} : ~Busy(q)
  BY DEF IInv, Types, TempWhole, Edit, Outdated, netVars, diskVars
<1>d. \A g \in Fields : desk'[p].parts[g] = IF g = f THEN edits + 1 ELSE desk[p].parts[g]
  <2>1. PICK d \in Known : d = desk[p]
    BY DEF IInv, Types
  <2>2. desk'[p] = [d EXCEPT !.parts[f] = edits + 1]
    BY <2>1 DEF IInv, Types, Edit
  <2> QED
    BY <2>1, <2>2 DEF Known
<1>t. Typed
  BY TypesTyped DEF IInv
<1>1. TempWhole'
  BY <1>0, <1>t DEF IInv, TempWhole, Typed, Idle
<1>2. OnePage'
  BY <1>0, <1>t DEF IInv, OnePage, Typed, Conns
<1>3. GreetedOnce'
  BY <1>0, <1>t DEF IInv, GreetedOnce, OnePage, Typed, Known
<1>b. Busy(p)' /\ \A q \in Pages \ {p} : Busy(q)' <=> Busy(q)
  BY <1>0 DEF Busy
<1>4. OnItsWay'
  BY <1>0, <1>b DEF IInv, OnItsWay
<1>5. InOrder'
  <2> SUFFICES ASSUME ~trouble' PROVE Chain(p)'
    BY <1>0, <1>b DEF InOrder
  <2>0. /\ conn[p] \in Conns /\ edits \in Nat
        /\ \A g \in Fields : desk[p].parts[g] \in 0 .. edits /\ file.parts[g] \in Int
    BY <1>0, <1>t DEF Typed, Known, Absent, Plain
  <2>1. \A g \in Fields : file.parts[g] <= desk[p].parts[g] /\ desk[p].parts[g] <= edits
    BY <1>0, <2>0
  <2>2. \A g \in Fields : /\ desk[p].parts[g] <= desk'[p].parts[g]
                           /\ file.parts[g] <= desk'[p].parts[g]
    BY <1>d, <2>0, <2>1
  <2>3. CASE Busy(p)
    <3>1. Chain(p)
      BY <1>0, <2>3 DEF IInv, InOrder
    <3>2. ASSUME NEW s \in Known, NoNewer(s, desk[p]) PROVE NoNewer(s, desk'[p])
      <4> SUFFICES ASSUME NEW g \in Fields PROVE s.parts[g] <= desk'[p].parts[g]
        BY DEF NoNewer
      <4>1. s.parts[g] \in Int /\ desk[p].parts[g] \in Int /\ s.parts[g] <= desk[p].parts[g]
        BY <2>0, <3>2 DEF NoNewer, Known
      <4>2. desk'[p].parts[g] \in Int
        BY <1>d, <2>0
      <4> QED
        BY <2>2, <4>1, <4>2
    <3>3. /\ work[conn[p]].state \in Known
          /\ \A i \in 1 .. Len(up[conn[p]]) : up[conn[p]][i] \in Known
      BY <1>t, <2>0, ElementOfSeq DEF Typed
    <3> QED
      BY <1>0, <2>2, <3>1, <3>2, <3>3 DEF Chain, Ordered, NoNewer
  <2>4. CASE ~Busy(p)
    <3>1. up[conn[p]] = << >> /\ work[conn[p]] = Idle
      BY <1>0, <2>4 DEF Busy
    <3>2. Len(up[conn[p]]) = 0
      BY <3>1
    <3> QED
      BY <1>0, <2>2, <3>1, <3>2 DEF Chain, Ordered, NoNewer, Idle
  <2> QED
    BY <2>3, <2>4
<1>6. UpToDate'
  BY <1>0, <1>b DEF UpToDate
<1> QED
  BY <1>1, <1>2, <1>3, <1>4, <1>5, <1>6 DEF IInv

\* A page opens or closes a terminal: only its names change, and that is noted.
LEMMA TabStep ==
  ASSUME IInv, Types', NEW p \in Pages, NEW t \in Tabs, NewTab(p, t) \/ CloseTab(p, t)
  PROVE  IInv'
<1>0. /\ \A q \in Pages \ {p} : desk'[q] = desk[q] /\ unsaved'[q] = unsaved[q]
      /\ UNCHANGED <<timer, conn, synced, last, open, up, down, work, temp, file, editor, trouble>>
  BY DEF IInv, Types, NewTab, CloseTab, netVars, diskVars
<1>t. Typed /\ edits' = edits + 1
  BY TypesTyped DEF IInv, NewTab, CloseTab
<1>k. Known \subseteq Known'
  BY <1>t DEF Typed, Known
<1>d. /\ desk'[p].parts = desk[p].parts
      /\ t \in unsaved'[p] /\ unsaved[p] \subseteq unsaved'[p]
      /\ \A f \in Fields \ {t} : f \in desk'[p].tabs <=> f \in desk[p].tabs
  <2>1. PICK d \in Known : d = desk[p]
    BY DEF IInv, Types
  <2>2. desk'[p] = [d EXCEPT !.tabs = @ \cup {t}] \/ desk'[p] = [d EXCEPT !.tabs = @ \ {t}]
    BY <2>1 DEF IInv, Types, NewTab, CloseTab
  <2>3. t \in unsaved'[p] /\ unsaved[p] \subseteq unsaved'[p]
    BY DEF IInv, Types, NewTab, CloseTab
  <2> QED
    BY <2>1, <2>2, <2>3 DEF Known
<1>s. ASSUME NEW s, Same(s, desk[p], Fields \ unsaved[p])
      PROVE  Same(s, desk'[p], Fields \ unsaved'[p])
  BY <1>d, <1>s DEF Same
<1>n. \A s : NoNewer(s, desk[p]) <=> NoNewer(s, desk'[p])
  BY <1>d DEF NoNewer
<1>1. TempWhole'
  BY <1>0, <1>t DEF IInv, TempWhole, Typed, Idle
<1>2. OnePage'
  BY <1>0, <1>t DEF IInv, OnePage, Typed, Conns, Idle
<1>3. GreetedOnce'
  BY <1>0, <1>k DEF IInv, GreetedOnce
<1>b. \A q \in Pages : Busy(q)' <=> Busy(q)
  BY <1>0 DEF Busy, Idle
<1>4. OnItsWay'
  BY <1>0, <1>b DEF IInv, OnItsWay, Idle
<1>5. InOrder'
  <2> SUFFICES ASSUME ~trouble, NEW q \in Pages, Busy(q)' PROVE Chain(q)'
    BY <1>0 DEF InOrder
  <2>1. Chain(q)
    BY <1>b DEF IInv, InOrder
  <2>2. CASE q = p
    BY <1>0, <1>n, <2>1, <2>2 DEF Chain, Ordered, Idle
  <2>3. CASE q # p
    BY <1>0, <2>1, <2>3 DEF Chain
  <2> QED
    BY <2>2, <2>3
<1>6. UpToDate'
  <2> SUFFICES ASSUME ~trouble', NEW q \in editor'
               PROVE  /\ Busy(q)' /\ ~timer'[q] => LastIsShown(q)'
                      /\ ~Busy(q)' => /\ file' \in Known'
                                      /\ conn'[q] # 0 => IF synced'[q] THEN Same(file', desk'[q], Fields \ unsaved'[q])
                                           ELSE down'[conn'[q]] \in {<< >>, <<file'>>}
    BY DEF UpToDate
  <2>0. q \in Pages /\ q \in editor /\ ~trouble
    BY <1>0, <1>t DEF Typed
  <2>1. Same(file, desk[q], Fields \ unsaved[q]) => Same(file, desk'[q], Fields \ unsaved'[q])
    BY <1>0, <1>s, <2>0
  <2>2. LastIsShown(q) => LastIsShown(q)'
    <3> DEFINE s == LastSave(work[conn[q]], up[conn[q]])
    <3>1. LastSave(work[conn[q]], up[conn[q]])' = s
      BY <1>0
    <3> HIDE DEF s
    <3>2. Same(s, desk[q], Fields \ unsaved[q]) => Same(s, desk'[q], Fields \ unsaved'[q])
      BY <1>0, <1>s, <2>0
    <3> QED
      BY <3>1, <3>2 DEF LastIsShown, s
  <2> QED
    BY <1>0, <1>b, <1>k, <2>0, <2>1, <2>2 DEF IInv, UpToDate
<1> QED
  BY <1>1, <1>2, <1>3, <1>4, <1>5, <1>6 DEF IInv

\* A page gets a new connection, on which nothing is under way.
LEMMA ConnectStep == ASSUME IInv, Types', NEW p \in Pages, Connect(p) PROVE IInv'
<1>0. /\ conn[p] = 0 /\ last < MaxConns /\ last' = last + 1
      /\ \A q \in Pages : /\ conn'[q] = IF q = p THEN last + 1 ELSE conn[q]
                          /\ synced'[q] = IF q = p THEN FALSE ELSE synced[q]
      /\ open' = open \cup {last + 1}
      /\ UNCHANGED <<desk, timer, up, down, work, temp, file, edits, editor, unsaved, trouble>>
  BY DEF IInv, Types, TempWhole, Connect, diskVars, histVars
<1>t. Typed
  BY TypesTyped DEF IInv
<1>1. TempWhole'
  BY <1>0, <1>t DEF IInv, TempWhole, Typed, Idle
<1>2. OnePage'
  <2>1. \A q \in Pages : conn[q] \in Int /\ conn[q] <= last /\ last \in Nat
    BY <1>t DEF IInv, OnePage, Typed
  <2>0. last' = last + 1 /\ conn'[p] = last + 1 /\ \A q \in Pages \ {p} : conn'[q] = conn[q]
    BY <1>0
  <2>2. \A q \in Pages : conn'[q] <= last'
    BY <2>0, <2>1
  <2>3. \A q, r \in Pages : q # r /\ conn'[q] = conn'[r] => conn'[q] = 0
    BY <2>0, <2>1 DEF IInv, OnePage
  <2>4. \A c \in Conns : c > last' => c > last
    BY <1>0, <2>1 DEF Conns
  <2> QED
    BY <1>0, <2>2, <2>3, <2>4 DEF IInv, OnePage, Idle
<1>3. GreetedOnce'
  BY <1>0, <1>t DEF IInv, GreetedOnce, OnePage, Typed, Known
<1>a. /\ last + 1 \in Conns /\ last + 1 # 0
      /\ up[last + 1] = << >> /\ work[last + 1] = Idle /\ down[last + 1] = << >>
  BY <1>0, <1>t DEF IInv, OnePage, Typed, Conns
<1>b. ASSUME NEW q \in Pages, q # p
      PROVE  /\ Busy(q)' <=> Busy(q)
             /\ Chain(q)' <=> Chain(q)
             /\ LastIsShown(q)' <=> LastIsShown(q)
  <2>1. Busy(q)' <=> Busy(q)
    BY <1>0, <1>b DEF Busy, Idle
  <2>2. Chain(q)' <=> Chain(q)
    BY <1>0, <1>b DEF Chain
  <2>3. LastIsShown(q)' <=> LastIsShown(q)
    BY <1>0, <1>b DEF LastIsShown
  <2> QED
    BY <2>1, <2>2, <2>3
<1>c. ~trouble => ~Busy(p) /\ ~Busy(p)'
  <2>1. ~trouble => ~Busy(p)
    BY <1>0 DEF IInv, OnItsWay
  <2> QED
    BY <1>0, <1>a, <2>1 DEF Busy, Idle
<1>4. OnItsWay'
  <2>1. ASSUME ~trouble, NEW c \in Conns, up[c] # << >> \/ work[c] # Idle
        PROVE  \E q \in Pages : conn'[q] = c
    <3>1. PICK q \in Pages : conn[q] = c
      BY <2>1 DEF IInv, OnItsWay
    <3>2. q # p
      BY <1>0, <1>t, <3>1 DEF Typed, Conns
    <3> QED
      BY <1>0, <3>1, <3>2
  <2>2. ASSUME ~trouble, NEW q \in Pages, Busy(q)'
        PROVE  editor' = {q} /\ conn'[q] # 0 /\ synced'[q]
    BY <1>0, <1>b, <1>c, <2>2 DEF IInv, OnItsWay
  <2> QED
    BY <1>0, <2>1, <2>2 DEF OnItsWay, Idle
<1>5. InOrder'
  BY <1>0, <1>b, <1>c DEF IInv, InOrder
<1>6. UpToDate'
  <2> SUFFICES ASSUME ~trouble, NEW q \in editor
               PROVE  /\ Busy(q)' /\ ~timer'[q] => LastIsShown(q)'
                      /\ ~Busy(q)' => /\ file' \in Known'
                                      /\ conn'[q] # 0 => IF synced'[q] THEN Same(file', desk'[q], Fields \ unsaved'[q])
                                           ELSE down'[conn'[q]] \in {<< >>, <<file'>>}
    BY <1>0 DEF UpToDate
  <2>0. q \in Pages /\ Known' = Known
    BY <1>0, <1>t DEF Typed, Known
  <2>1. CASE q = p
    BY <1>0, <1>a, <1>c, <2>0, <2>1 DEF IInv, UpToDate
  <2>2. CASE q # p
    BY <1>0, <1>b, <2>0, <2>2 DEF IInv, UpToDate
  <2> QED
    BY <2>1, <2>2
<1> QED
  BY <1>1, <1>2, <1>3, <1>4, <1>5, <1>6 DEF IInv

\* The timer fires: what the page shows follows the saves on their way.
LEMMA SaveStateStep == ASSUME IInv, Types', NEW p \in Pages, SaveState(p) PROVE IInv'
<1>0. /\ timer[p] /\ ~timer'[p] /\ \A q \in Pages \ {p} : timer'[q] = timer[q]
      /\ conn[p] # 0 => up'[conn[p]] = Append(up[conn[p]], desk[p])
      /\ \A c \in Conns : c # conn[p] => up'[c] = up[c]
      /\ UNCHANGED <<desk, conn, synced, last, open, down, work, temp, file, edits, editor, trouble>>
  BY DEF IInv, Types, TempWhole, Conns, SaveState, diskVars
<1>t. Typed
  BY TypesTyped DEF IInv
<1>1. TempWhole'
  BY <1>0, <1>t DEF IInv, TempWhole, Typed, Idle
<1>2. OnePage'
  <2>1. \A c \in Conns : c > last => c # conn[p]
    BY <1>t DEF IInv, OnePage, Typed, Conns
  <2> QED
    BY <1>0, <2>1 DEF IInv, OnePage, Idle
<1>3. GreetedOnce'
  BY <1>0, <1>t DEF IInv, GreetedOnce, OnePage, Typed, Known
<1>a. ~trouble => editor = {p} /\ conn[p] # 0 /\ synced[p] /\ Chain(p)
  BY <1>0 DEF IInv, OnItsWay, InOrder, Busy
<1>b. ASSUME NEW q \in Pages, ~trouble, q # p
      PROVE  ~Busy(q) /\ ~Busy(q)'
  <2>1. ~Busy(q)
    BY <1>a, <1>b DEF IInv, OnItsWay
  <2>2. conn[q] # 0 => conn[q] # conn[p] /\ conn[q] \in Conns
    BY <1>b, <1>t DEF IInv, OnePage, Typed
  <2> QED
    BY <1>0, <1>b, <2>1, <2>2 DEF Busy, Idle
<1>c. ASSUME ~trouble
      PROVE  /\ conn[p] \in Conns /\ up[conn[p]] \in Seq(Known) /\ desk[p] \in Known
             /\ up'[conn[p]] = Append(up[conn[p]], desk[p]) /\ up'[conn[p]] # << >>
             /\ Busy(p)'
  <2>1. conn[p] \in Conns /\ up[conn[p]] \in Seq(Known) /\ desk[p] \in Known
    BY <1>a, <1>c, <1>t DEF Typed
  <2>2. up'[conn[p]] = Append(up[conn[p]], desk[p]) /\ up'[conn[p]] # << >>
    BY <1>0, <1>a, <1>c, <2>1
  <2> QED
    BY <1>0, <1>a, <1>c, <2>1, <2>2 DEF Busy
<1>4. OnItsWay'
  <2>1. ASSUME ~trouble, NEW c \in Conns, up'[c] # << >> \/ work[c] # Idle
        PROVE  \E q \in Pages : conn[q] = c
    BY <1>0, <2>1 DEF IInv, OnItsWay
  <2>2. ASSUME ~trouble, NEW q \in Pages, Busy(q)'
        PROVE  editor = {q} /\ conn[q] # 0 /\ synced[q]
    BY <1>a, <1>b, <2>2
  <2> QED
    BY <1>0, <2>1, <2>2 DEF OnItsWay, Idle
<1>5. InOrder'
  <2> SUFFICES ASSUME ~trouble PROVE Chain(p)'
    BY <1>0, <1>b DEF InOrder
  <2>1. Ordered(file, work[conn[p]], up[conn[p]], desk[p])
    BY <1>a DEF Chain
  <2>s. PICK s \in Seq(Known) : s = up[conn[p]]
    BY <1>c
  <2>d. PICK d \in Known : d = desk[p]
    BY <1>c
  <2>2. Ordered(file, work[conn[p]], Append(s, d), d)
    BY <2>1, <2>s, <2>d, <1>t, OrderedAppend
  <2>3. Ordered(file, work[conn[p]], Append(s, d), d)'
    BY <1>0, <2>2 DEF Ordered, NoNewer, Idle
  <2> QED
    BY <1>0, <1>c, <2>2, <2>s, <2>d DEF Chain
<1>6. UpToDate'
  <2> SUFFICES ASSUME ~trouble', NEW q \in editor'
               PROVE  /\ Busy(q)' /\ ~timer'[q] => LastIsShown(q)'
                      /\ ~Busy(q)' => /\ file' \in Known'
                                      /\ conn'[q] # 0 => IF synced'[q] THEN Same(file', desk'[q], Fields \ unsaved'[q])
                                           ELSE down'[conn'[q]] \in {<< >>, <<file'>>}
    BY DEF UpToDate
  <2>1. q = p /\ Busy(p)' /\ ~trouble
    BY <1>0, <1>a, <1>c
  <2>s. PICK s \in Seq(Known) : s = up[conn[p]]
    BY <1>c, <2>1
  <2>d. PICK d \in Known : d = desk[p]
    BY <1>c, <2>1
  <2>a. PICK t : t = Append(s, d)
    OBVIOUS
  <2>2. t # << >> /\ t[Len(t)] = d
    BY <2>a, AppendProperties
  <2>3. LastSave(work[conn[p]], t) = d
    BY <2>2 DEF LastSave
  <2>4. LastIsShown(p)'
    BY <1>0, <1>c, <2>1, <2>3, <2>s, <2>d, <2>a DEF LastIsShown, Same
  <2> QED
    BY <2>1, <2>4
<1> QED
  BY <1>1, <1>2, <1>3, <1>4, <1>5, <1>6 DEF IInv

\* The session sync replaces what the page shows.
LEMMA SessionSyncStep == ASSUME IInv, Types', NEW p \in Pages, SessionSync(p) PROVE IInv'
<1>0. /\ conn[p] # 0 /\ down[conn[p]] # << >>
      /\ \A q \in Pages \ {p} : desk'[q] = desk[q] /\ synced'[q] = synced[q] /\ unsaved'[q] = unsaved[q]
      /\ synced'[p]
      /\ \E there \in SUBSET Tabs :
           /\ desk'[p] = Shown(desk[p], Head(down[conn[p]]), there)
           /\ unsaved'[p] = {t \in Tabs : t \in Shown(desk[p], Head(down[conn[p]]), there).tabs
                                         <=> t \notin Head(down[conn[p]]).tabs}
      /\ \A c \in Conns : down'[c] = IF c = conn[p] THEN Tail(down[c]) ELSE down[c]
      /\ UNCHANGED <<timer, conn, last, open, up, work, temp, file, edits, editor, trouble>>
  BY DEF IInv, Types, TempWhole, SessionSync, diskVars
<1>t. Typed
  BY TypesTyped DEF IInv
<1>1. TempWhole'
  BY <1>0, <1>t DEF IInv, TempWhole, Typed, Idle
<1>a. /\ conn[p] \in Conns /\ ~synced[p]
      /\ \E s \in Known \cup {Absent} : down[conn[p]] = <<s>>
      /\ down'[conn[p]] = << >>
  <2>1. conn[p] \in Conns /\ ~synced[p]
    BY <1>0, <1>t DEF IInv, GreetedOnce, Typed
  <2>2. PICK s \in Known \cup {Absent} : down[conn[p]] = <<s>>
    BY <1>0, <2>1 DEF IInv, GreetedOnce
  <2>3. Tail(<<s>>) = << >>
    OBVIOUS
  <2> QED
    BY <1>0, <2>1, <2>2, <2>3
<1>2. OnePage'
  <2>1. \A c \in Conns : c > last => c # conn[p]
    BY <1>t DEF IInv, OnePage, Typed, Conns
  <2> QED
    BY <1>0, <2>1 DEF IInv, OnePage, Idle
<1>3. GreetedOnce'
  <2>1. \A c \in Conns : down'[c] = << >> \/ \E s \in Known \cup {Absent} : down'[c] = <<s>>
    BY <1>0, <1>a DEF IInv, GreetedOnce
  <2>2. \A q \in Pages \ {p} : conn[q] # 0 => conn[q] # conn[p] /\ conn[q] \in Conns
    BY <1>t DEF IInv, OnePage, Typed
  <2>3. \A q \in Pages : conn[q] # 0 /\ synced'[q] => down'[conn[q]] = << >>
    BY <1>0, <1>a, <2>2 DEF IInv, GreetedOnce
  <2> QED
    BY <1>0, <2>1, <2>3 DEF GreetedOnce, Known, Absent
<1>b. \A q \in Pages : Busy(q)' <=> Busy(q)
  BY <1>0 DEF Busy, Idle
<1>c. ~trouble => ~Busy(p)
  BY <1>a DEF IInv, OnItsWay
<1>4. OnItsWay'
  <2>1. ~trouble => \A q \in Pages : Busy(q)' => editor = {q} /\ conn[q] # 0 /\ synced'[q]
    BY <1>0, <1>b DEF IInv, OnItsWay
  <2> QED
    BY <1>0, <2>1 DEF IInv, OnItsWay, Idle
<1>5. InOrder'
  <2> SUFFICES ASSUME ~trouble, NEW q \in Pages, Busy(q)' PROVE Chain(q)'
    BY <1>0 DEF InOrder
  <2>1. q # p /\ Chain(q)
    BY <1>b, <1>c DEF IInv, InOrder
  <2> QED
    BY <1>0, <2>1 DEF Chain
<1>6. UpToDate'
  <2> SUFFICES ASSUME ~trouble', NEW q \in editor'
               PROVE  /\ Busy(q)' /\ ~timer'[q] => LastIsShown(q)'
                      /\ ~Busy(q)' => /\ file' \in Known'
                                      /\ conn'[q] # 0 => IF synced'[q] THEN Same(file', desk'[q], Fields \ unsaved'[q])
                                           ELSE down'[conn'[q]] \in {<< >>, <<file'>>}
    BY DEF UpToDate
  <2>0. q \in Pages /\ Known' = Known /\ ~trouble
    BY <1>0, <1>t DEF Typed, Known
  <2>1. CASE q = p
    <3>1. ~Busy(p) /\ ~Busy(p)' /\ file \in Known /\ down[conn[p]] = <<file>>
      BY <1>0, <1>a, <1>b, <1>c, <2>0, <2>1 DEF IInv, UpToDate
    <3>2. file # Absent
      BY <1>t, <3>1, KnownThere
    <3>3. Same(file, desk'[p], Fields \ unsaved'[p])
      <4>1. Head(down[conn[p]]) = file
        BY <3>1
      <4>2. PICK there \in SUBSET Tabs :
              /\ desk'[p] = Shown(desk[p], file, there)
              /\ unsaved'[p] = {t \in Tabs : t \in Shown(desk[p], file, there).tabs <=> t \notin file.tabs}
        BY <1>0, <4>1
      <4>3. file.tabs \subseteq Tabs /\ desk[p].tabs \subseteq Tabs
        BY <1>t, <3>1 DEF Typed, Known
      <4>4. ASSUME NEW f \in Fields \ unsaved'[p]
            PROVE  file.parts[f] = desk'[p].parts[f] /\ (f \in file.tabs <=> f \in desk'[p].tabs)
        <5>1. /\ desk'[p].tabs = desk[p].tabs \cup there
              /\ desk'[p].parts[f] = IF f \in desk[p].tabs \ file.tabs THEN desk[p].parts[f] ELSE file.parts[f]
          BY <3>2, <4>2 DEF Shown, Own
        <5>2. f \in file.tabs <=> f \in desk'[p].tabs
          BY <4>2, <4>3, <4>4, <5>1
        <5> QED
          BY <5>1, <5>2
      <4> QED
        BY <4>4 DEF Same
    <3> QED
      BY <1>0, <2>0, <2>1, <3>1, <3>3
  <2>2. CASE q # p
    <3>1. conn[q] # 0 => conn[q] # conn[p] /\ conn[q] \in Conns
      BY <1>t, <2>0, <2>2 DEF IInv, OnePage, Typed
    <3>2. LastIsShown(q)' <=> LastIsShown(q)
      BY <1>0, <2>0, <2>2 DEF LastIsShown
    <3>3. /\ Busy(q) /\ ~timer[q] => LastIsShown(q)
          /\ ~Busy(q) => /\ file \in Known
                         /\ conn[q] # 0 => IF synced[q] THEN Same(file, desk[q], Fields \ unsaved[q])
                                           ELSE down[conn[q]] \in {<< >>, <<file>>}
      BY <1>0, <2>0 DEF IInv, UpToDate
    <3> QED
      BY <1>0, <1>b, <2>0, <2>2, <3>1, <3>2, <3>3
  <2> QED
    BY <2>1, <2>2
<1> QED
  BY <1>1, <1>2, <1>3, <1>4, <1>5, <1>6 DEF IInv

\* The first save on its way is begun: the order stays.
LEMMA OrderedTail ==
  ASSUME Typed, NEW s \in Seq(Known), s # << >>, NEW d, NEW saved, NEW w, w # Idle,
         w.state = Head(s), Ordered(saved, Idle, s, d)
  PROVE  Ordered(saved, w, Tail(s), d) /\ LastSave(w, Tail(s)) = s[Len(s)]
<1>t. PICK t : t = Tail(s)
  OBVIOUS
<1>1. /\ Len(s) \in Nat \ {0} /\ Len(t) = Len(s) - 1 /\ t \in Seq(Known)
      /\ \A i \in 1 .. Len(t) : t[i] = s[i + 1]
  BY <1>t, HeadTailProperties, EmptySeq
<1>2. w.state = s[1]
  OBVIOUS
<1>3. NoNewer(saved, d) /\ NoNewer(saved, w.state) /\ NoNewer(w.state, d)
  BY <1>1, <1>2 DEF Ordered
<1>4. ASSUME NEW i \in 1 .. Len(t)
      PROVE  /\ NoNewer(saved, t[i]) /\ NoNewer(t[i], d) /\ NoNewer(w.state, t[i])
             /\ \A j \in i .. Len(t) : NoNewer(t[i], t[j])
  <2>1. i + 1 \in 1 .. Len(s) /\ 1 \in 1 .. Len(s) /\ i + 1 \in 1 .. Len(s)
    BY <1>1
  <2>2. t[i] = s[i + 1] /\ NoNewer(saved, s[i + 1]) /\ NoNewer(s[i + 1], d)
    BY <1>1, <2>1 DEF Ordered
  <2>3. NoNewer(s[1], s[i + 1])
    BY <2>1 DEF Ordered
  <2>4. ASSUME NEW j \in i .. Len(t) PROVE NoNewer(t[i], t[j])
    <3>1. j \in 1 .. Len(t) /\ j + 1 \in i + 1 .. Len(s)
      BY <1>1
    <3>2. NoNewer(s[i + 1], s[j + 1])
      BY <2>1, <3>1 DEF Ordered
    <3> QED
      BY <1>1, <2>2, <3>1, <3>2
  <2> QED
    BY <1>2, <2>2, <2>3, <2>4
<1>5. LastSave(w, t) = s[Len(s)]
  <2>1. CASE Len(s) = 1
    <3>1. t = << >>
      BY <1>1, <2>1, EmptySeq
    <3> QED
      BY <1>2, <2>1, <3>1 DEF LastSave
  <2>2. CASE Len(s) # 1
    <3>1. t # << >> /\ t[Len(t)] = s[Len(s)]
      BY <1>1, <2>2
    <3> QED
      BY <3>1 DEF LastSave
  <2> QED
    BY <2>1, <2>2
<1> QED
  BY <1>t, <1>3, <1>4, <1>5 DEF Ordered

\* No two pages have one connection.
LEMMA Elsewhere ==
  ASSUME IInv, NEW p \in Pages, NEW c \in Conns, conn[p] = c
  PROVE  \A q \in Pages \ {p} : conn[q] # c
BY TypesTyped DEF IInv, OnePage, Typed, Conns

\* The page loses its connection.
LEMMA DisconnectStep == ASSUME IInv, Types', NEW p \in Pages, Disconnect(p) PROVE IInv'
<1>0. /\ conn[p] # 0 /\ (~trouble' => ~trouble /\ ~Busy(p))
      /\ conn'[p] = 0 /\ \A q \in Pages \ {p} : conn'[q] = conn[q]
      /\ UNCHANGED <<desk, timer, synced, last, open, up, down, work, temp, file, edits, editor, unsaved>>
  BY DEF IInv, Types, TempWhole, Disconnect, netVars, diskVars
<1>t. Typed
  BY TypesTyped DEF IInv
<1>1. TempWhole'
  BY <1>0, <1>t DEF IInv, TempWhole, Typed, Idle
<1>2. OnePage'
  BY <1>0, <1>t DEF IInv, OnePage, Typed, Conns, Idle
<1>3. GreetedOnce'
  BY <1>0, <1>t DEF IInv, GreetedOnce, OnePage, Typed, Known
<1>a. ~trouble' => ~Busy(p)'
  BY <1>0 DEF Busy
<1>b. ASSUME NEW q \in Pages, q # p
      PROVE  /\ Busy(q)' <=> Busy(q)
             /\ Chain(q)' <=> Chain(q)
             /\ LastIsShown(q)' <=> LastIsShown(q)
  <2>1. Busy(q)' <=> Busy(q)
    BY <1>0, <1>b DEF Busy, Idle
  <2>2. Chain(q)' <=> Chain(q)
    BY <1>0, <1>b DEF Chain
  <2>3. LastIsShown(q)' <=> LastIsShown(q)
    BY <1>0, <1>b DEF LastIsShown
  <2> QED
    BY <2>1, <2>2, <2>3
<1>4. OnItsWay'
  <2>1. ASSUME ~trouble', NEW c \in Conns, up[c] # << >> \/ work[c] # Idle
        PROVE  \E q \in Pages : conn'[q] = c
    <3>1. PICK q \in Pages : conn[q] = c
      BY <1>0, <2>1 DEF IInv, OnItsWay
    <3>2. q # p
      BY <1>0, <2>1, <3>1 DEF Busy
    <3> QED
      BY <1>0, <3>1, <3>2
  <2>2. ASSUME ~trouble', NEW q \in Pages, Busy(q)'
        PROVE  editor' = {q} /\ conn'[q] # 0 /\ synced'[q]
    <3>1. q # p /\ Busy(q)
      BY <1>a, <1>b, <2>2
    <3> QED
      BY <1>0, <2>2, <3>1 DEF IInv, OnItsWay
  <2> QED
    BY <1>0, <2>1, <2>2 DEF OnItsWay, Idle
<1>5. InOrder'
  BY <1>0, <1>a, <1>b DEF IInv, InOrder
<1>6. UpToDate'
  <2> SUFFICES ASSUME ~trouble', NEW q \in editor'
               PROVE  /\ Busy(q)' /\ ~timer'[q] => LastIsShown(q)'
                      /\ ~Busy(q)' => /\ file' \in Known'
                                      /\ conn'[q] # 0 => IF synced'[q] THEN Same(file', desk'[q], Fields \ unsaved'[q])
                                           ELSE down'[conn'[q]] \in {<< >>, <<file'>>}
    BY DEF UpToDate
  <2>0. q \in Pages /\ q \in editor /\ Known' = Known /\ ~trouble
    BY <1>0, <1>t DEF Typed, Known
  <2>1. CASE q = p
    BY <1>0, <1>a, <2>0, <2>1 DEF IInv, UpToDate
  <2>2. CASE q # p
    BY <1>0, <1>b, <2>0, <2>2 DEF IInv, UpToDate
  <2> QED
    BY <2>1, <2>2
<1> QED
  BY <1>1, <1>2, <1>3, <1>4, <1>5, <1>6 DEF IInv

\* The page is loaded anew.
LEMMA ReloadStep == ASSUME IInv, Types', NEW p \in Pages, Reload(p) PROVE IInv'
<1>0. /\ (~trouble' => ~trouble /\ ~Busy(p))
      /\ conn'[p] = 0 /\ ~timer'[p] /\ ~synced'[p]
      /\ \A q \in Pages \ {p} : /\ conn'[q] = conn[q] /\ desk'[q] = desk[q]
                               /\ timer'[q] = timer[q] /\ synced'[q] = synced[q]
                               /\ unsaved'[q] = unsaved[q]
      /\ UNCHANGED <<last, open, up, down, work, temp, file, edits, editor>>
  BY DEF IInv, Types, TempWhole, Reload, netVars, diskVars
<1>t. Typed
  BY TypesTyped DEF IInv
<1>1. TempWhole'
  BY <1>0, <1>t DEF IInv, TempWhole, Typed, Idle
<1>2. OnePage'
  BY <1>0, <1>t DEF IInv, OnePage, Typed, Conns, Idle
<1>3. GreetedOnce'
  BY <1>0, <1>t DEF IInv, GreetedOnce, OnePage, Typed, Known
<1>a. ~Busy(p)'
  BY <1>0 DEF Busy
<1>b. ASSUME NEW q \in Pages, q # p
      PROVE  /\ Busy(q)' <=> Busy(q)
             /\ Chain(q)' <=> Chain(q)
             /\ LastIsShown(q)' <=> LastIsShown(q)
  <2>1. Busy(q)' <=> Busy(q)
    BY <1>0, <1>b DEF Busy, Idle
  <2>2. Chain(q)' <=> Chain(q)
    BY <1>0, <1>b DEF Chain
  <2>3. LastIsShown(q)' <=> LastIsShown(q)
    BY <1>0, <1>b DEF LastIsShown
  <2> QED
    BY <2>1, <2>2, <2>3
<1>4. OnItsWay'
  <2>1. ASSUME ~trouble', NEW c \in Conns, up[c] # << >> \/ work[c] # Idle
        PROVE  \E q \in Pages : conn'[q] = c
    <3>1. PICK q \in Pages : conn[q] = c
      BY <1>0, <2>1 DEF IInv, OnItsWay
    <3>2. q # p
      BY <1>0, <1>t, <2>1, <3>1 DEF Busy, Typed, Conns
    <3> QED
      BY <1>0, <3>1, <3>2
  <2>2. ASSUME ~trouble', NEW q \in Pages, Busy(q)'
        PROVE  editor' = {q} /\ conn'[q] # 0 /\ synced'[q]
    <3>1. q # p /\ Busy(q)
      BY <1>a, <1>b, <2>2
    <3> QED
      BY <1>0, <2>2, <3>1 DEF IInv, OnItsWay
  <2> QED
    BY <1>0, <2>1, <2>2 DEF OnItsWay, Idle
<1>5. InOrder'
  BY <1>0, <1>a, <1>b DEF IInv, InOrder
<1>6. UpToDate'
  <2> SUFFICES ASSUME ~trouble', NEW q \in editor'
               PROVE  /\ Busy(q)' /\ ~timer'[q] => LastIsShown(q)'
                      /\ ~Busy(q)' => /\ file' \in Known'
                                      /\ conn'[q] # 0 => IF synced'[q] THEN Same(file', desk'[q], Fields \ unsaved'[q])
                                           ELSE down'[conn'[q]] \in {<< >>, <<file'>>}
    BY DEF UpToDate
  <2>0. q \in Pages /\ q \in editor /\ Known' = Known /\ ~trouble
    BY <1>0, <1>t DEF Typed, Known
  <2>1. CASE q = p
    BY <1>0, <1>a, <2>0, <2>1 DEF IInv, UpToDate
  <2>2. CASE q # p
    BY <1>0, <1>b, <2>0, <2>2 DEF IInv, UpToDate
  <2> QED
    BY <2>1, <2>2
<1> QED
  BY <1>1, <1>2, <1>3, <1>4, <1>5, <1>6 DEF IInv

\* The file is sent to a page that has just connected.
LEMMA GreetStep == ASSUME IInv, Types', NEW c \in Conns, Greet(c) PROVE IInv'
<1>0. /\ down[c] = << >> /\ (\E p \in Pages : conn[p] = c /\ ~synced[p])
      /\ down'[c] = <<file>> /\ \A d \in Conns \ {c} : down'[d] = down[d]
      /\ UNCHANGED <<desk, timer, conn, synced, last, open, up, work, temp, file, edits, editor, unsaved, trouble>>
  BY DEF IInv, Types, TempWhole, Greet, pageVars, diskVars, histVars
<1>t. Typed
  BY TypesTyped DEF IInv
<1>1. TempWhole'
  BY <1>0, <1>t DEF IInv, TempWhole, Typed, Idle
<1>p. PICK p \in Pages : conn[p] = c /\ ~synced[p] /\ \A q \in Pages \ {p} : conn[q] # c
  BY <1>0, Elsewhere
<1>2. OnePage'
  BY <1>0, <1>p, <1>t DEF IInv, OnePage, Typed, Conns, Idle
<1>3. GreetedOnce'
  <2>1. \A d \in Conns : down'[d] = << >> \/ \E s \in Known \cup {Absent} : down'[d] = <<s>>
    BY <1>0, <1>t DEF IInv, GreetedOnce, Typed
  <2>2. \A q \in Pages : conn[q] # 0 /\ synced[q] => conn[q] \in Conns \ {c} /\ down[conn[q]] = << >>
    BY <1>p, <1>t DEF IInv, GreetedOnce, Typed
  <2> QED
    BY <1>0, <2>1, <2>2 DEF GreetedOnce, Known, Absent
<1>b. ASSUME NEW q \in Pages
      PROVE  /\ Busy(q)' <=> Busy(q)
             /\ Chain(q)' <=> Chain(q)
             /\ LastIsShown(q)' <=> LastIsShown(q)
  <2>1. Busy(q)' <=> Busy(q)
    BY <1>0, <1>b DEF Busy, Idle
  <2>2. Chain(q)' <=> Chain(q)
    BY <1>0, <1>b DEF Chain
  <2>3. LastIsShown(q)' <=> LastIsShown(q)
    BY <1>0, <1>b DEF LastIsShown
  <2> QED
    BY <2>1, <2>2, <2>3
<1>4. OnItsWay'
  BY <1>0, <1>b DEF IInv, OnItsWay, Idle
<1>5. InOrder'
  BY <1>0, <1>b DEF IInv, InOrder
<1>6. UpToDate'
  <2> SUFFICES ASSUME ~trouble', NEW q \in editor'
               PROVE  /\ Busy(q)' /\ ~timer'[q] => LastIsShown(q)'
                      /\ ~Busy(q)' => /\ file' \in Known'
                                      /\ conn'[q] # 0 => IF synced'[q] THEN Same(file', desk'[q], Fields \ unsaved'[q])
                                           ELSE down'[conn'[q]] \in {<< >>, <<file'>>}
    BY DEF UpToDate
  <2>0. q \in Pages /\ q \in editor /\ Known' = Known /\ ~trouble
    BY <1>0, <1>t DEF Typed, Known
  <2>1. CASE q = p
    BY <1>0, <1>b, <1>p, <2>0, <2>1 DEF IInv, UpToDate
  <2>2. CASE q # p
    <3>1. conn[q] # 0 => conn[q] \in Conns \ {c}
      BY <1>p, <1>t, <2>0, <2>2 DEF Typed
    <3> QED
      BY <1>0, <1>b, <2>0, <2>2, <3>1 DEF IInv, UpToDate
  <2> QED
    BY <2>1, <2>2
<1> QED
  BY <1>1, <1>2, <1>3, <1>4, <1>5, <1>6 DEF IInv

\* Without trouble, what is on its way on a connection is from the page that
\* made the last change, and the other pages have nothing to do with it.
LEMMA Holder ==
  ASSUME IInv, ~trouble, NEW c \in Conns, up[c] # << >> \/ work[c] # Idle
  PROVE  \E p \in Pages : /\ conn[p] = c /\ \A q \in Pages \ {p} : conn[q] # c
                          /\ Busy(p) /\ editor = {p} /\ synced[p] /\ Chain(p)
                          /\ \A q \in Pages \ {p} : ~Busy(q) /\ (conn[q] = 0 \/ conn[q] \in Conns \ {c})
<1>t. Typed
  BY TypesTyped DEF IInv
<1>2. PICK p \in Pages : conn[p] = c
  BY DEF IInv, OnItsWay
<1>3. Busy(p)
  BY <1>t, <1>2 DEF Busy, Conns, Typed
<1>4. editor = {p} /\ synced[p] /\ Chain(p)
  BY <1>3 DEF IInv, OnItsWay, InOrder
<1>5. \A q \in Pages \ {p} : conn[q] # c
  BY <1>2, Elsewhere
<1>6. \A q \in Pages \ {p} : ~Busy(q)
  BY <1>4 DEF IInv, OnItsWay
<1>7. \A q \in Pages \ {p} : conn[q] = 0 \/ conn[q] \in Conns \ {c}
  BY <1>t, <1>5 DEF Typed
<1> QED
  BY <1>2, <1>3, <1>4, <1>5, <1>6, <1>7

\* The first save on its way is begun.
LEMMA CreateTempStep == ASSUME IInv, Types', NEW c \in Conns, CreateTemp(c) PROVE IInv'
<1>0. /\ work[c].step = "idle" /\ up[c] # << >> /\ up'[c] = Tail(up[c])
      /\ work'[c].step = "write" /\ work'[c].state = Head(up[c]) /\ temp'[c] = Torn
      /\ \A d \in Conns \ {c} : up'[d] = up[d] /\ work'[d] = work[d] /\ temp'[d] = temp[d]
      /\ UNCHANGED <<desk, timer, conn, synced, last, open, down, file, edits, editor, unsaved, trouble>>
  BY DEF IInv, Types, TempWhole, CreateTemp, Saving, pageVars, histVars
<1>t. Typed
  BY TypesTyped DEF IInv
<1>1. TempWhole'
  BY <1>0, <1>t DEF IInv, TempWhole, Typed, Idle
<1>2. OnePage'
  BY <1>0, <1>t DEF IInv, OnePage, Typed, Conns, Idle
<1>3. GreetedOnce'
  BY <1>0, <1>t DEF IInv, GreetedOnce, OnePage, Typed, Known
<1>p. ASSUME ~trouble
      PROVE  \E p \in Pages : /\ conn[p] = c /\ \A q \in Pages \ {p} : conn[q] # c
                              /\ Busy(p) /\ editor = {p} /\ synced[p] /\ Chain(p)
                              /\ \A q \in Pages \ {p} : ~Busy(q) /\ (conn[q] = 0 \/ conn[q] \in Conns \ {c})
  <2>1. up[c] # << >> \/ work[c] # Idle
    BY <1>0 DEF Idle
  <2> QED
    BY <1>p, <2>1, Holder
<1>b. ASSUME NEW p \in Pages, conn[p] = c, NEW q \in Pages \ {p},
             ~Busy(q), conn[q] = 0 \/ conn[q] \in Conns \ {c}
      PROVE  ~Busy(q)'
  BY <1>0, <1>b DEF Busy, Idle
<1>c. ASSUME NEW p \in Pages, conn[p] = c, Chain(p)
      PROVE  Chain(p)' /\ Busy(p)' /\ (LastIsShown(p) => LastIsShown(p)')
  <2>s. PICK s \in Seq(Known) : s = up[c] /\ s # << >>
    BY <1>0, <1>t DEF Typed
  <2>w. PICK w : w = work'[c]
    OBVIOUS
  <2>d. PICK d : d = desk[p]
    OBVIOUS
  <2>1. work[c] = Idle /\ w # Idle /\ w.state = Head(s)
    BY <1>0, <2>s, <2>w DEF IInv, TempWhole, Idle
  <2>2. Ordered(file, Idle, s, d)
    BY <1>c, <2>1, <2>s, <2>d DEF Chain
  <2>3. Ordered(file, w, Tail(s), d) /\ LastSave(w, Tail(s)) = s[Len(s)]
    BY <1>t, <2>1, <2>2, <2>s, OrderedTail
  <2>4. Chain(p)'
    BY <1>0, <1>c, <2>3, <2>s, <2>w, <2>d DEF Chain
  <2>5. Busy(p)'
    BY <1>0, <1>c, <2>1, <2>w DEF Busy, Conns, Idle
  <2>6. LastIsShown(p) => Same(s[Len(s)], d, Fields \ unsaved[p])
    BY <1>c, <2>1, <2>s, <2>d DEF LastIsShown, LastSave
  <2>7. LastIsShown(p) => LastIsShown(p)'
    BY <1>0, <1>c, <2>3, <2>6, <2>s, <2>w, <2>d DEF LastIsShown
  <2> QED
    BY <2>4, <2>5, <2>7
<1>4. OnItsWay'
  <2> SUFFICES ASSUME ~trouble PROVE OnItsWay'
    BY <1>0 DEF OnItsWay
  <2>1. PICK p \in Pages : /\ conn[p] = c /\ Busy(p) /\ editor = {p} /\ synced[p]
                           /\ \A q \in Pages \ {p} : ~Busy(q) /\ (conn[q] = 0 \/ conn[q] \in Conns \ {c})
    BY <1>p
  <2>2. \A d \in Conns : up'[d] # << >> \/ work'[d] # Idle => \E q \in Pages : conn[q] = d
    BY <1>0, <2>1 DEF IInv, OnItsWay
  <2>3. ASSUME NEW q \in Pages, Busy(q)' PROVE q = p
    BY <1>b, <2>1, <2>3
  <2>4. c # 0
    BY DEF Conns
  <2>5. ASSUME NEW q \in Pages, Busy(q)' PROVE editor' = {q} /\ conn'[q] # 0 /\ synced'[q]
    BY <1>0, <2>1, <2>3, <2>4, <2>5
  <2> QED
    BY <1>0, <2>2, <2>5 DEF OnItsWay, Idle
<1>5. InOrder'
  <2> SUFFICES ASSUME ~trouble, NEW q \in Pages, Busy(q)' PROVE Chain(q)'
    BY <1>0 DEF InOrder
  <2>1. PICK p \in Pages : /\ conn[p] = c /\ Chain(p)
                           /\ \A r \in Pages \ {p} : ~Busy(r) /\ (conn[r] = 0 \/ conn[r] \in Conns \ {c})
    BY <1>p
  <2>2. q = p
    BY <1>b, <2>1
  <2> QED
    BY <1>c, <2>1, <2>2
<1>6. UpToDate'
  <2> SUFFICES ASSUME ~trouble', NEW q \in editor'
               PROVE  /\ Busy(q)' /\ ~timer'[q] => LastIsShown(q)'
                      /\ ~Busy(q)' => /\ file' \in Known'
                                      /\ conn'[q] # 0 => IF synced'[q] THEN Same(file', desk'[q], Fields \ unsaved'[q])
                                           ELSE down'[conn'[q]] \in {<< >>, <<file'>>}
    BY DEF UpToDate
  <2>1. PICK p \in Pages : /\ conn[p] = c /\ Chain(p) /\ Busy(p) /\ editor = {p} /\ synced[p]
    BY <1>0, <1>p
  <2>2. q = p /\ ~trouble /\ Known' = Known
    BY <1>0, <2>1 DEF Known
  <2>3. ~timer[p] => LastIsShown(p)
    BY <2>1, <2>2 DEF IInv, UpToDate
  <2> QED
    BY <1>0, <1>c, <2>1, <2>2, <2>3
<1> QED
  BY <1>1, <1>2, <1>3, <1>4, <1>5, <1>6 DEF IInv

\* The temporary file is written.
LEMMA WriteTempStep == ASSUME IInv, Types', NEW c \in Conns, WriteTemp(c) PROVE IInv'
<1>0. /\ work[c].step = "write" /\ work'[c].step = "rename" /\ work'[c].state = work[c].state
      /\ temp'[c] = work[c].state
      /\ \A d \in Conns \ {c} : work'[d] = work[d] /\ temp'[d] = temp[d]
      /\ UNCHANGED <<desk, timer, conn, synced, last, open, up, down, file, edits, editor, unsaved, trouble>>
  BY DEF IInv, Types, TempWhole, WriteTemp, Saving, pageVars, histVars
<1>t. Typed
  BY TypesTyped DEF IInv
<1>1. TempWhole'
  BY <1>0, <1>t DEF IInv, TempWhole, Typed, Idle
<1>2. OnePage'
  BY <1>0, <1>t DEF IInv, OnePage, Typed, Conns, Idle
<1>3. GreetedOnce'
  BY <1>0, <1>t DEF IInv, GreetedOnce, OnePage, Typed, Known
<1>p. ASSUME ~trouble
      PROVE  \E p \in Pages : /\ conn[p] = c /\ \A q \in Pages \ {p} : conn[q] # c
                              /\ Busy(p) /\ editor = {p} /\ synced[p] /\ Chain(p)
                              /\ \A q \in Pages \ {p} : ~Busy(q) /\ (conn[q] = 0 \/ conn[q] \in Conns \ {c})
  <2>1. up[c] # << >> \/ work[c] # Idle
    BY <1>0 DEF Idle
  <2> QED
    BY <1>p, <2>1, Holder
<1>b. ASSUME NEW p \in Pages, conn[p] = c, NEW q \in Pages \ {p},
             ~Busy(q), conn[q] = 0 \/ conn[q] \in Conns \ {c}
      PROVE  ~Busy(q)'
  BY <1>0, <1>b DEF Busy, Idle
<1>c. ASSUME NEW p \in Pages, conn[p] = c, Chain(p)
      PROVE  Chain(p)' /\ Busy(p)' /\ (LastIsShown(p) => LastIsShown(p)')
  <2>1. work[c] # Idle /\ work'[c] # Idle
    BY <1>0 DEF Idle
  <2>2. Ordered(file, work'[c], up[c], desk[p])
    BY <1>0, <1>c, <2>1 DEF Chain, Ordered
  <2>3. Chain(p)'
    BY <1>0, <1>c, <2>2 DEF Chain
  <2>4. Busy(p)'
    BY <1>0, <1>c, <2>1 DEF Busy, Conns, Idle
  <2>5. LastIsShown(p) => LastIsShown(p)'
    BY <1>0, <1>c DEF LastIsShown, LastSave
  <2> QED
    BY <2>3, <2>4, <2>5
<1>4. OnItsWay'
  <2> SUFFICES ASSUME ~trouble PROVE OnItsWay'
    BY <1>0 DEF OnItsWay
  <2>1. PICK p \in Pages : /\ conn[p] = c /\ Busy(p) /\ editor = {p} /\ synced[p]
                           /\ \A q \in Pages \ {p} : ~Busy(q) /\ (conn[q] = 0 \/ conn[q] \in Conns \ {c})
    BY <1>p
  <2>2. \A d \in Conns : up'[d] # << >> \/ work'[d] # Idle => \E q \in Pages : conn[q] = d
    BY <1>0, <2>1 DEF IInv, OnItsWay
  <2>3. ASSUME NEW q \in Pages, Busy(q)' PROVE q = p
    BY <1>b, <2>1, <2>3
  <2>4. c # 0
    BY DEF Conns
  <2>5. ASSUME NEW q \in Pages, Busy(q)' PROVE editor' = {q} /\ conn'[q] # 0 /\ synced'[q]
    BY <1>0, <2>1, <2>3, <2>4, <2>5
  <2> QED
    BY <1>0, <2>2, <2>5 DEF OnItsWay, Idle
<1>5. InOrder'
  <2> SUFFICES ASSUME ~trouble, NEW q \in Pages, Busy(q)' PROVE Chain(q)'
    BY <1>0 DEF InOrder
  <2>1. PICK p \in Pages : /\ conn[p] = c /\ Chain(p)
                           /\ \A r \in Pages \ {p} : ~Busy(r) /\ (conn[r] = 0 \/ conn[r] \in Conns \ {c})
    BY <1>p
  <2>2. q = p
    BY <1>b, <2>1
  <2> QED
    BY <1>c, <2>1, <2>2
<1>6. UpToDate'
  <2> SUFFICES ASSUME ~trouble', NEW q \in editor'
               PROVE  /\ Busy(q)' /\ ~timer'[q] => LastIsShown(q)'
                      /\ ~Busy(q)' => /\ file' \in Known'
                                      /\ conn'[q] # 0 => IF synced'[q] THEN Same(file', desk'[q], Fields \ unsaved'[q])
                                           ELSE down'[conn'[q]] \in {<< >>, <<file'>>}
    BY DEF UpToDate
  <2>1. PICK p \in Pages : /\ conn[p] = c /\ Chain(p) /\ Busy(p) /\ editor = {p} /\ synced[p]
    BY <1>0, <1>p
  <2>2. q = p /\ ~trouble /\ Known' = Known
    BY <1>0, <2>1 DEF Known
  <2>3. ~timer[p] => LastIsShown(p)
    BY <2>1, <2>2 DEF IInv, UpToDate
  <2> QED
    BY <1>0, <1>c, <2>1, <2>2, <2>3
<1> QED
  BY <1>1, <1>2, <1>3, <1>4, <1>5, <1>6 DEF IInv

\* The temporary file becomes the file.
LEMMA RenameStep == ASSUME IInv, Types', NEW c \in Conns, Rename(c) PROVE IInv'
<1>0. /\ work[c].step = "rename" /\ file' = work[c].state /\ work'[c] = Idle /\ temp'[c] = Absent
      /\ \A d \in Conns \ {c} : work'[d] = work[d] /\ temp'[d] = temp[d]
      /\ UNCHANGED <<desk, timer, conn, synced, last, open, up, down, edits, editor, unsaved, trouble>>
  BY DEF IInv, Types, TempWhole, Rename, Saving, pageVars, histVars
<1>t. Typed
  BY TypesTyped DEF IInv
<1>1. TempWhole'
  BY <1>0, <1>t DEF IInv, TempWhole, Typed, Idle
<1>2. OnePage'
  BY <1>0, <1>t DEF IInv, OnePage, Typed, Conns, Idle
<1>3. GreetedOnce'
  BY <1>0, <1>t DEF IInv, GreetedOnce, OnePage, Typed, Known
<1>p. ASSUME ~trouble
      PROVE  \E p \in Pages : /\ conn[p] = c /\ \A q \in Pages \ {p} : conn[q] # c
                              /\ Busy(p) /\ editor = {p} /\ synced[p] /\ Chain(p)
                              /\ \A q \in Pages \ {p} : ~Busy(q) /\ (conn[q] = 0 \/ conn[q] \in Conns \ {c})
  <2>1. up[c] # << >> \/ work[c] # Idle
    BY <1>0 DEF Idle
  <2> QED
    BY <1>p, <2>1, Holder
<1>b. ASSUME NEW p \in Pages, conn[p] = c, NEW q \in Pages \ {p},
             ~Busy(q), conn[q] = 0 \/ conn[q] \in Conns \ {c}
      PROVE  ~Busy(q)'
  BY <1>0, <1>b DEF Busy, Idle
<1>c. ASSUME NEW p \in Pages, conn[p] = c, Chain(p)
      PROVE  Chain(p)' /\ (Busy(p)' /\ ~timer[p] /\ LastIsShown(p) => LastIsShown(p)')
  <2>1. work[c] # Idle
    BY <1>0 DEF Idle
  <2>2. Ordered(work[c].state, Idle, up[c], desk[p])
    BY <1>0, <1>c, <2>1 DEF Chain, Ordered
  <2>3. Chain(p)'
    BY <1>0, <1>c, <2>2 DEF Chain
  <2>4. Busy(p)' /\ ~timer[p] => up[c] # << >>
    BY <1>0, <1>c DEF Busy, Conns, Idle
  <2>5. Busy(p)' /\ ~timer[p] /\ LastIsShown(p) => LastIsShown(p)'
    BY <1>0, <1>c, <2>4 DEF LastIsShown, LastSave
  <2> QED
    BY <2>3, <2>5
<1>4. OnItsWay'
  <2> SUFFICES ASSUME ~trouble PROVE OnItsWay'
    BY <1>0 DEF OnItsWay
  <2>1. PICK p \in Pages : /\ conn[p] = c /\ Busy(p) /\ editor = {p} /\ synced[p]
                           /\ \A q \in Pages \ {p} : ~Busy(q) /\ (conn[q] = 0 \/ conn[q] \in Conns \ {c})
    BY <1>p
  <2>2. \A d \in Conns : up'[d] # << >> \/ work'[d] # Idle => \E q \in Pages : conn[q] = d
    BY <1>0, <2>1 DEF IInv, OnItsWay
  <2>3. ASSUME NEW q \in Pages, Busy(q)' PROVE q = p
    BY <1>b, <2>1, <2>3
  <2>4. c # 0
    BY DEF Conns
  <2>5. ASSUME NEW q \in Pages, Busy(q)' PROVE editor' = {q} /\ conn'[q] # 0 /\ synced'[q]
    BY <1>0, <2>1, <2>3, <2>4, <2>5
  <2> QED
    BY <1>0, <2>2, <2>5 DEF OnItsWay, Idle
<1>5. InOrder'
  <2> SUFFICES ASSUME ~trouble, NEW q \in Pages, Busy(q)' PROVE Chain(q)'
    BY <1>0 DEF InOrder
  <2>1. PICK p \in Pages : /\ conn[p] = c /\ Chain(p)
                           /\ \A r \in Pages \ {p} : ~Busy(r) /\ (conn[r] = 0 \/ conn[r] \in Conns \ {c})
    BY <1>p
  <2>2. q = p
    BY <1>b, <2>1
  <2> QED
    BY <1>c, <2>1, <2>2
<1>6. UpToDate'
  <2> SUFFICES ASSUME ~trouble', NEW q \in editor'
               PROVE  /\ Busy(q)' /\ ~timer'[q] => LastIsShown(q)'
                      /\ ~Busy(q)' => /\ file' \in Known'
                                      /\ conn'[q] # 0 => IF synced'[q] THEN Same(file', desk'[q], Fields \ unsaved'[q])
                                           ELSE down'[conn'[q]] \in {<< >>, <<file'>>}
    BY DEF UpToDate
  <2>1. PICK p \in Pages : /\ conn[p] = c /\ Chain(p) /\ Busy(p) /\ editor = {p} /\ synced[p]
    BY <1>0, <1>p
  <2>2. q = p /\ ~trouble /\ Known' = Known
    BY <1>0, <2>1 DEF Known
  <2>3. ~timer[p] => LastIsShown(p)
    BY <2>1, <2>2 DEF IInv, UpToDate
  <2>4. ~Busy(q)' => file' \in Known' /\ Same(file', desk'[q], Fields \ unsaved'[q])
    <3> SUFFICES ASSUME ~Busy(p)' PROVE file' \in Known /\ Same(file', desk[p], Fields \ unsaved[p])
      BY <1>0, <2>2
    <3>1. up[c] = << >> /\ ~timer[p]
      BY <1>0, <2>1 DEF Busy, Conns
    <3>2. Same(work[c].state, desk[p], Fields \ unsaved[p])
      BY <2>1, <2>3, <3>1 DEF LastIsShown, LastSave
    <3> QED
      BY <1>0, <1>t, <3>2 DEF Typed
  <2> QED
    BY <1>0, <1>c, <2>1, <2>2, <2>3, <2>4
<1> QED
  BY <1>1, <1>2, <1>3, <1>4, <1>5, <1>6 DEF IInv

\* A save fails, and its temporary file is removed.
LEMMA SaveFailsStep == ASSUME IInv, Types', NEW c \in Conns, SaveFails(c) PROVE IInv'
<1>0. /\ trouble' /\ work'[c] = Idle /\ temp'[c] = Absent
      /\ \A d \in Conns \ {c} : work'[d] = work[d] /\ temp'[d] = temp[d]
      /\ UNCHANGED <<desk, timer, conn, synced, last, open, up, down, file, edits, editor, unsaved>>
  BY DEF IInv, Types, TempWhole, SaveFails, pageVars, netVars
<1>t. Typed
  BY TypesTyped DEF IInv
<1>1. TempWhole'
  BY <1>0, <1>t DEF IInv, TempWhole, Typed, Idle
<1>2. OnePage'
  BY <1>0, <1>t DEF IInv, OnePage, Typed, Conns, Idle
<1>3. GreetedOnce'
  BY <1>0, <1>t DEF IInv, GreetedOnce, OnePage, Typed, Known
<1>4. OnItsWay'
  BY <1>0 DEF OnItsWay
<1>5. InOrder'
  BY <1>0 DEF InOrder
<1>6. UpToDate'
  BY <1>0 DEF UpToDate
<1> QED
  BY <1>1, <1>2, <1>3, <1>4, <1>5, <1>6 DEF IInv

\* The server ends a connection that no page has.
LEMMA ConnectionEndsStep == ASSUME IInv, Types', NEW c \in Conns, ConnectionEnds(c) PROVE IInv'
<1>0. /\ (\A p \in Pages : conn[p] # c) /\ work[c] = Idle
      /\ up'[c] = << >> /\ down'[c] = << >>
      /\ \A d \in Conns \ {c} : up'[d] = up[d] /\ down'[d] = down[d]
      /\ UNCHANGED <<desk, timer, conn, synced, last, work, temp, file, edits, editor, unsaved, trouble>>
  BY DEF IInv, Types, TempWhole, ConnectionEnds, pageVars, diskVars, histVars
<1>t. Typed
  BY TypesTyped DEF IInv
<1>1. TempWhole'
  BY <1>0, <1>t DEF IInv, TempWhole, Typed, Idle
<1>2. OnePage'
  BY <1>0, <1>t DEF IInv, OnePage, Typed, Conns, Idle
<1>a. \A q \in Pages : conn[q] # 0 => conn[q] \in Conns \ {c}
  BY <1>0, <1>t DEF Typed
<1>3. GreetedOnce'
  <2>1. \A d \in Conns : down'[d] = << >> \/ \E s \in Known \cup {Absent} : down'[d] = <<s>>
    BY <1>0 DEF IInv, GreetedOnce
  <2>2. \A q \in Pages : conn[q] # 0 /\ synced[q] => down'[conn[q]] = << >>
    BY <1>0, <1>a DEF IInv, GreetedOnce
  <2> QED
    BY <1>0, <2>1, <2>2 DEF GreetedOnce, Known, Absent
<1>b. ASSUME NEW q \in Pages
      PROVE  /\ Busy(q)' <=> Busy(q)
             /\ conn[q] # 0 => (Chain(q)' <=> Chain(q)) /\ (LastIsShown(q)' <=> LastIsShown(q))
  <2>1. Busy(q)' <=> Busy(q)
    BY <1>0, <1>a, <1>b DEF Busy, Idle
  <2>2. conn[q] # 0 => (Chain(q)' <=> Chain(q))
    BY <1>0, <1>a, <1>b DEF Chain
  <2>3. conn[q] # 0 => (LastIsShown(q)' <=> LastIsShown(q))
    BY <1>0, <1>a, <1>b DEF LastIsShown
  <2> QED
    BY <2>1, <2>2, <2>3
<1>4. OnItsWay'
  <2>1. ~trouble => \A d \in Conns : up'[d] # << >> \/ work[d] # Idle => \E q \in Pages : conn[q] = d
    BY <1>0 DEF IInv, OnItsWay
  <2>2. ~trouble => \A q \in Pages : Busy(q)' => editor = {q} /\ conn[q] # 0 /\ synced[q]
    BY <1>b DEF IInv, OnItsWay
  <2> QED
    BY <1>0, <2>1, <2>2 DEF OnItsWay, Idle
<1>5. InOrder'
  <2> SUFFICES ASSUME ~trouble, NEW q \in Pages, Busy(q)' PROVE Chain(q)'
    BY <1>0 DEF InOrder
  <2>1. Chain(q) /\ conn[q] # 0
    BY <1>b DEF IInv, InOrder, OnItsWay
  <2> QED
    BY <1>b, <2>1
<1>6. UpToDate'
  <2> SUFFICES ASSUME ~trouble', NEW q \in editor'
               PROVE  /\ Busy(q)' /\ ~timer'[q] => LastIsShown(q)'
                      /\ ~Busy(q)' => /\ file' \in Known'
                                      /\ conn'[q] # 0 => IF synced'[q] THEN Same(file', desk'[q], Fields \ unsaved'[q])
                                           ELSE down'[conn'[q]] \in {<< >>, <<file'>>}
    BY DEF UpToDate
  <2>0. q \in Pages /\ q \in editor /\ Known' = Known /\ ~trouble
    BY <1>0, <1>t DEF Typed, Known
  <2>1. Busy(q) => conn[q] # 0
    BY <2>0 DEF IInv, OnItsWay
  <2>2. /\ Busy(q) /\ ~timer[q] => LastIsShown(q)
        /\ ~Busy(q) => /\ file \in Known
                       /\ conn[q] # 0 => IF synced[q] THEN Same(file, desk[q], Fields \ unsaved[q])
                                         ELSE down[conn[q]] \in {<< >>, <<file>>}
    BY <2>0 DEF IInv, UpToDate
  <2> QED
    BY <1>0, <1>a, <1>b, <2>0, <2>1, <2>2
<1> QED
  BY <1>1, <1>2, <1>3, <1>4, <1>5, <1>6 DEF IInv

\* The server is killed.
LEMMA CrashStep == ASSUME IInv, Types', Crash PROVE IInv'
<1>0. /\ trouble'
      /\ \A p \in Pages : conn'[p] = 0
      /\ \A c \in Conns : up'[c] = << >> /\ down'[c] = << >> /\ work'[c] = Idle /\ temp'[c] = Absent
      /\ UNCHANGED <<desk, timer, synced, last, file, edits, editor, unsaved>>
  BY DEF IInv, Types, TempWhole, Crash
<1>t. Typed
  BY TypesTyped DEF IInv
<1>1. TempWhole'
  BY <1>0, <1>t DEF IInv, TempWhole, Typed, Idle
<1>2. OnePage'
  BY <1>0, <1>t DEF IInv, OnePage, Typed, Conns, Idle
<1>3. GreetedOnce'
  BY <1>0, <1>t DEF IInv, GreetedOnce, OnePage, Typed, Known
<1>4. OnItsWay'
  BY <1>0 DEF OnItsWay
<1>5. InOrder'
  BY <1>0 DEF InOrder
<1>6. UpToDate'
  BY <1>0 DEF UpToDate
<1> QED
  BY <1>1, <1>2, <1>3, <1>4, <1>5, <1>6 DEF IInv
-----------------------------------------------------------------------------
(* The theorems *)

\* At the start there is nothing.
LEMMA InitIInv == Init => IInv
<1> SUFFICES ASSUME Init PROVE IInv
  OBVIOUS
<1>0. MaxConns \in Nat /\ MaxEdits \in Nat /\ edits = 0 /\ Fresh \in Known
  BY DesktopStateAssumption DEF Init, Known, Fresh, Plain
<1>1. Types
  <2>1. /\ Idle \in [step : {"idle", "write", "rename"}, state : Known]
        /\ << >> \in Seq(Known) /\ << >> \in Seq(Known \cup {Absent})
    BY <1>0, EmptySeq DEF Idle
  <2>2. work \in [Conns -> [step : {"idle", "write", "rename"}, state : Known]]
    BY <2>1 DEF Init
  <2>3. up \in [Conns -> Seq(Known)] /\ down \in [Conns -> Seq(Known \cup {Absent})]
    BY <2>1 DEF Init
  <2>4. timer \in [Pages -> BOOLEAN] /\ synced \in [Pages -> BOOLEAN] /\ trouble \in BOOLEAN
    BY DEF Init
  <2>5. desk \in [Pages -> Known] /\ conn \in [Pages -> 0 .. MaxConns]
    BY <1>0 DEF Init
  <2>6. temp \in [Conns -> Known \cup {Absent, Torn}] /\ file \in Known \cup {Absent}
    BY DEF Init
  <2>7. /\ last \in 0 .. MaxConns /\ open \subseteq 1 .. last
        /\ edits \in 0 .. MaxEdits /\ editor \in SUBSET Pages
        /\ unsaved \in [Pages -> SUBSET Fields]
    BY <1>0 DEF Init
  <2> QED
    BY <2>2, <2>3, <2>4, <2>5, <2>6, <2>7 DEF Types
<1>2. TempWhole /\ OnePage /\ GreetedOnce
  BY <1>0 DEF TempWhole, OnePage, GreetedOnce, Init, Idle
<1>3. \A p \in Pages : ~Busy(p)
  BY DEF Busy, Init
<1>4. OnItsWay
  BY <1>3 DEF OnItsWay, Init
<1>5. InOrder /\ UpToDate
  BY <1>3 DEF InOrder, UpToDate, Init
<1> QED
  BY <1>1, <1>2, <1>4, <1>5 DEF IInv

\* A stutter.
LEMMA SameIInv == ASSUME IInv, UNCHANGED vars PROVE IInv'
<1>0. UNCHANGED <<desk, timer, conn, synced, last, open, up, down, work, temp, file, edits, editor, unsaved, trouble>>
  BY DEF vars, pageVars, netVars, diskVars, histVars
<1>1. Types' /\ TempWhole' /\ OnePage' /\ GreetedOnce'
  BY <1>0 DEF IInv, Types, Known, TempWhole, OnePage, GreetedOnce, Idle, Absent
<1>2. OnItsWay'
  BY <1>0 DEF IInv, OnItsWay, Busy, Idle
<1>3. InOrder'
  BY <1>0 DEF IInv, InOrder, Busy, Chain, Ordered, NoNewer, Idle
<1>4. UpToDate'
  BY <1>0 DEF IInv, UpToDate, Busy, LastIsShown, LastSave, Known, Idle
<1> QED
  BY <1>1, <1>2, <1>3, <1>4 DEF IInv

\* Every step.
LEMMA NextIInv == IInv /\ [Next]_vars => IInv'
<1> SUFFICES ASSUME IInv, [Next]_vars PROVE IInv'
  OBVIOUS
<1>0. Types /\ TempWhole
  BY DEF IInv
<1>1. ASSUME NEW p \in Pages, NEW f \in Fields, Edit(p, f) PROVE IInv'
  BY <1>0, <1>1, EditTypes, EditStep
<1>t. ASSUME NEW p \in Pages, NEW t \in Tabs, NewTab(p, t) \/ CloseTab(p, t) PROVE IInv'
  BY <1>0, <1>t, TabTypes, TabStep
<1>2. ASSUME NEW p \in Pages,
             SaveState(p) \/ Connect(p) \/ SessionSync(p) \/ Disconnect(p) \/ Reload(p)
      PROVE  IInv'
  <2>1. Types'
    BY <1>0, <1>2, PageTypes
  <2> QED
    BY <1>2, <2>1, SaveStateStep, ConnectStep, SessionSyncStep, DisconnectStep, ReloadStep
<1>3. ASSUME Crash \/ \E c \in Conns : Greet(c) \/ Save(c) \/ SaveFails(c) \/ ConnectionEnds(c)
      PROVE  IInv'
  <2>1. Types'
    BY <1>0, <1>3, ServerTypes
  <2>2. CASE Crash
    BY <2>1, <2>2, CrashStep
  <2>3. ASSUME NEW c \in Conns, Greet(c) \/ Save(c) \/ SaveFails(c) \/ ConnectionEnds(c) PROVE IInv'
    BY <2>1, <2>3, GreetStep, CreateTempStep, WriteTempStep, RenameStep, SaveFailsStep,
       ConnectionEndsStep DEF Save
  <2> QED
    BY <1>3, <2>2, <2>3
<1>4. CASE UNCHANGED vars
  BY <1>4, SameIInv
<1> QED
  BY <1>1, <1>t, <1>2, <1>3, <1>4 DEF Next

\* The invariant holds in every reachable state.
THEOREM Invariance == Spec => []IInv
<1> QED
  BY InitIInv, NextIInv, PTL DEF Spec

\* The file is whole, only a killed server leaves temporary files, and at rest the
\* file is what the page that made the last change shows, but for the terminals
\* that it has opened and closed since it saved.
THEOREM FileStaysSound == Spec => []FileSound
<1>1. ASSUME IInv PROVE FileSound
  <2>y. Typed
    BY <1>1, TypesTyped DEF IInv
  <2>n. 0 .. edits \subseteq 0 .. MaxEdits
    BY <2>y DEF Typed
  <2>t. Typed /\ Known \subseteq States
    BY <2>y, <2>n DEF Known, States
  <2>1. TypeOK
    <3>1. \A c \in Conns : \A i \in DOMAIN up[c] : up[c][i] \in States
      <4> SUFFICES ASSUME NEW c \in Conns, NEW i \in DOMAIN up[c] PROVE up[c][i] \in States
        OBVIOUS
      <4>1. up[c] \in Seq(Known)
        BY <2>t DEF Typed
      <4>2. up[c][i] \in Known
        BY <4>1
      <4> QED
        BY <2>t, <4>2
    <3>2. \A c \in Conns : \A i \in DOMAIN down[c] : down[c][i] \in States \cup {Absent}
      <4> SUFFICES ASSUME NEW c \in Conns, NEW i \in DOMAIN down[c]
                   PROVE down[c][i] \in States \cup {Absent}
        OBVIOUS
      <4>1. down[c] \in Seq(Known \cup {Absent})
        BY <1>1 DEF IInv, Types
      <4>2. down[c][i] \in Known \cup {Absent}
        BY <4>1
      <4> QED
        BY <2>t, <4>2
    <3>3. work \in [Conns -> [step : {"idle", "write", "rename"}, state : States]]
      BY <1>1, <2>t DEF IInv, Types
    <3>4. temp \in [Conns -> States \cup {Absent, Torn}] /\ desk \in [Pages -> States]
      BY <1>1, <2>t DEF IInv, Types
    <3> QED
      BY <1>1, <3>1, <3>2, <3>3, <3>4 DEF IInv, Types, TypeOK
  <2>2. FileWhole
    <3>1. file \in States \cup {Absent}
      BY <2>t DEF Typed
    <3>2. \A c \in Conns : temp[c] # Absent => work[c] # Idle
      BY <1>1 DEF IInv, TempWhole, Idle
    <3> QED
      BY <3>1, <3>2 DEF FileWhole
  <2>3. QuietMeansSaved
    BY <1>1 DEF IInv, UpToDate, QuietMeansSaved
  <2> QED
    BY <2>1, <2>2, <2>3 DEF FileSound
<1> QED
  BY <1>1, Invariance, PTL

\* As long as there is no trouble, no save makes a part of the file older.
THEOREM FileGoesForward == Spec => FileForward
<1>1. ASSUME IInv, IInv', [Next]_vars PROVE [~trouble' => ~Outdated(file', file)]_vars
  <2>t. Typed
    BY <1>1, TypesTyped DEF IInv
  <2>0. \A f \in Fields : file.parts[f] \in Int
    BY <2>t DEF Typed, Known, Absent, Plain
  <2>1. ASSUME NEW c \in Conns, Rename(c), ~trouble' PROVE ~Outdated(file', file)
    <3>1. file' = work[c].state /\ work[c] # Idle /\ ~trouble
      BY <1>1, <2>1 DEF IInv, TempWhole, Rename, Saving, Idle, histVars
    <3>2. PICK p \in Pages : conn[p] = c /\ Chain(p)
      BY <1>1, <3>1, Holder
    <3>3. NoNewer(file, work[c].state)
      BY <3>1, <3>2 DEF Chain, Ordered
    <3>4. PICK s \in Known : s = work[c].state
      BY <2>t, Zenon DEF Typed
    <3>5. \A f \in Fields : s.parts[f] \in 0 .. edits
      BY <3>4 DEF Known
    <3> QED
      BY <2>0, <3>1, <3>3, <3>4, <3>5 DEF NoNewer, Outdated
  <2>2. CASE UNCHANGED file
    BY <2>0, <2>2 DEF Outdated
  <2>3. Next => UNCHANGED file \/ \E c \in Conns : Rename(c)
    BY DEF Next, SaveState, Connect, SessionSync, Disconnect, Reload, Edit, NewTab, CloseTab, Greet,
           Save, CreateTemp, WriteTemp, Saving, SaveFails, ConnectionEnds, Crash, diskVars
  <2>4. UNCHANGED vars => UNCHANGED file
    BY DEF vars, diskVars
  <2> QED
    BY <1>1, <2>1, <2>2, <2>3, <2>4
<1> QED
  BY <1>1, Invariance, PTL DEF Spec, FileForward
=============================================================================
