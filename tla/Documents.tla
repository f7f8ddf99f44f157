----------------------------- MODULE Documents -----------------------------
(***************************************************************************)
(* The documents of the terminal (terminal/src/document.cpp and the part   *)
(* of mainwindow.cpp about tabs, files and the session).                   *)
(*                                                                         *)
(* A tab shows a Document, which has a text and perhaps the path of its    *)
(* file.  Two combo boxes list the documents that are descriptions of an   *)
(* application and the ones that are deployment schemas; "Load" reads the  *)
(* FILES of the two selected ones.  On exit the paths are saved, to open   *)
(* the same files at the next start.                                       *)
(*                                                                         *)
(* Of a text there remains its kind, and what becomes of it when a tab     *)
(* shows it: a text that begins like HTML is taken for it.  Which tab is   *)
(* the current one is left open: the user may select any before each       *)
(* operation, so that "save all" is a save of each.                        *)
(***************************************************************************)
EXTENDS Naturals, Sequences, FiniteSets, SequencesExt, Functions

CONSTANTS
    Paths,    \* names of files
    Locked,   \* those that cannot be written
    MaxDocs,  \* bound: documents made by one run of the terminal
    MaxMoves  \* bound: starts, documents made, edited, closed and saved, changes of a
              \* file by another program

Docs == 1 .. MaxDocs   \* in the order of their making

Kinds == {"app", "deploy"}
Texts == Kinds \cup {"other",
                      "page",      \* HTML, with an application in its plain text
                      "headed"}    \* an application below a DOCTYPE
NoFile == "no file"
NoPath == "no path"
NoDoc == 0

ASSUME DocumentsAssumption ==
    /\ NoPath \notin Paths
    /\ Locked \subseteq Paths
    /\ MaxDocs \in Nat /\ MaxMoves \in Nat

\* Document::kind: the name of the first element
KindOf(t) == IF t \in Kinds THEN t ELSE IF t = "headed" THEN "app" ELSE "other"

\* QTextEdit::setText: what begins with a DOCTYPE or a tag of HTML is rich text, of
\* which the plain text remains.
Shown(t) == IF t = "page" THEN "app" ELSE IF t = "headed" THEN "other" ELSE t

VARIABLES
    tabs,      \* the tabs of the window, from left to right
    name,      \* Document::m_name
    text,      \* what the tab shows
    combo,     \* m_apps and m_deploys: the documents listed and the selected one
    disk,      \* what the files hold; all of them can be read
    session,   \* terminal.conf
    status,    \* "up", "asking" about unsaved documents, "closed", "crashed"
    asks,      \* how many tabs ~MainWindow has dealt with
    spoiled,   \* history: documents whose file changed or was cut short behind them
    made,      \* documents made since the start
    moves      \* counts against MaxMoves

window == <<tabs, name, text, combo, made>>
files == <<disk, session>>
vars == <<window, files, status, asks, spoiled, moves>>

Open == ToSet(tabs)
Names == [i \in DOMAIN tabs |-> name[tabs[i]]]
Exists(p) == p # NoPath /\ disk[p] # NoFile
Combos == [items : SUBSET Docs, at : Docs \cup {NoDoc}]

TypeOK ==
    /\ tabs \in Seq(Docs) /\ IsInjective(tabs)
    /\ name \in [Docs -> Paths \cup {NoPath}] /\ text \in [Docs -> Texts]
    /\ combo \in [Kinds -> Combos]
    /\ disk \in [Paths -> Texts \cup {NoFile}]
    /\ session \in Seq(Paths \cup {NoPath}) /\ Len(session) <= MaxDocs
    /\ status \in {"up", "asking", "closed", "crashed"}
    /\ asks \in 0 .. Len(tabs)
    /\ spoiled \subseteq Docs
    /\ made \in 0 .. MaxDocs
    /\ moves \in 0 .. MaxMoves

Empty == [items |-> {}, at |-> NoDoc]
NoWindow == [tabs |-> <<>>, name |-> [d \in Docs |-> NoPath],
             text |-> [d \in Docs |-> "other"],
             combo |-> [k \in Kinds |-> Empty],
             made |-> 0]

\* The window is w.
Shows(w) == tabs' = w.tabs /\ name' = w.name /\ text' = w.text
            /\ combo' = w.combo /\ made' = w.made

\* Before the first start: no session, and any files.
Init ==
    /\ tabs = NoWindow.tabs /\ name = NoWindow.name /\ text = NoWindow.text
    /\ combo = NoWindow.combo /\ made = NoWindow.made
    /\ disk \in [Paths -> Texts \cup {NoFile}]
    /\ session = <<>> /\ status = "closed" /\ asks = 0 /\ spoiled = {}
    /\ moves = 0

\* One more of what is bounded
Move == moves < MaxMoves /\ moves' = moves + 1

\* The end of the process, in whatever way
Crash ==
    /\ Shows(NoWindow)
    /\ status' = "crashed" /\ asks' = 0 /\ spoiled' = {}
    /\ UNCHANGED <<files, moves>>

-----------------------------------------------------------------------------
(* The combo boxes *)

\* The first item of an empty QComboBox is selected at once.
With(c, d) == [items |-> c.items \cup {d}, at |-> IF c.items = {} THEN d ELSE c.at]

\* When the selected item goes, another one or none is selected.
Without(c, d) ==
    LET rest == c.items \ {d}
    IN  {[items |-> rest, at |-> e] :
            e \in IF c.at = d THEN rest \cup {NoDoc} ELSE {c.at}}

\* addConfig and delConfig of document d, whose kind is k
AddConfig(cs, d, k) == [l \in Kinds |-> IF l = k THEN With(cs[l], d) ELSE cs[l]]
DelConfig(d) ==
    {[l \in Kinds |-> IF l = "app" THEN a ELSE s] :
        a \in Without(combo["app"], d), s \in Without(combo["deploy"], d)}

\* updateConfig: what the tab shows now decides
UpdateConfig(d) == {AddConfig(cs, d, KindOf(text[d])) : cs \in DelConfig(d)}

-----------------------------------------------------------------------------
(* What the user does with the documents *)

Window == [tabs |-> tabs, name |-> name, text |-> text, combo |-> combo, made |-> made]

\* load_file
LoadFile(w, p) ==
    IF ~Exists(p) THEN w
    ELSE LET d == w.made + 1
         IN  [tabs  |-> Append(w.tabs, d),
              name  |-> [w.name EXCEPT ![d] = p],
              text  |-> [w.text EXCEPT ![d] = Shown(disk[p])],
              combo |-> AddConfig(w.combo, d, KindOf(Shown(disk[p]))),
              made  |-> d]

Create ==
    /\ status = "up" /\ made < MaxDocs
    /\ tabs' = Append(tabs, made + 1)
    /\ made' = made + 1
    /\ Move
    /\ UNCHANGED <<name, text, combo, files, status, asks, spoiled>>

OpenFile(p) ==
    /\ status = "up" /\ made < MaxDocs /\ Exists(p)
    /\ Shows(LoadFile(Window, p))
    /\ Move
    /\ UNCHANGED <<files, status, asks, spoiled>>

Edit(d, t) ==
    /\ status = "up" /\ d \in Open
    /\ text' = [text EXCEPT ![d] = t]
    /\ Move
    /\ UNCHANGED <<tabs, name, combo, made, files, status, asks, spoiled>>

\* Wrong: the combo boxes keep what is closed.
CloseTabStaysListed(i) ==
    /\ status = "up" /\ i \in DOMAIN tabs
    /\ LET d == tabs[i]
       IN  /\ name' = [name EXCEPT ![d] = NoPath]
           /\ text' = [text EXCEPT ![d] = "other"]
           /\ spoiled' = spoiled \ {d}
    /\ tabs' = RemoveAt(tabs, i)
    /\ Move
    /\ UNCHANGED <<combo, made, files, status, asks>>

\* Nothing asks whether to save.
CloseTab(i) ==
    /\ status = "up" /\ i \in DOMAIN tabs
    /\ LET d == tabs[i]
       IN  /\ combo' \in DelConfig(d)
           /\ name' = [name EXCEPT ![d] = NoPath]
           /\ text' = [text EXCEPT ![d] = "other"]
           /\ spoiled' = spoiled \ {d}
    /\ tabs' = RemoveAt(tabs, i)
    /\ Move
    /\ UNCHANGED <<made, files, status, asks>>

\* Without a tab there is no current one, and close_tab goes through a null pointer.
CloseNoTab ==
    /\ status = "up" /\ tabs = <<>>
    /\ Crash

\* A tab is drawn past the next one.
MoveTab(i) ==
    /\ status = "up" /\ i \in DOMAIN tabs /\ i + 1 \in DOMAIN tabs
    /\ tabs' = [tabs EXCEPT ![i] = tabs[i + 1], ![i + 1] = tabs[i]]
    /\ Move
    /\ UNCHANGED <<name, text, combo, made, files, status, asks, spoiled>>

\* The paths save() may write to: the one it has, else the one the user gives.
Targets(d) == IF name[d] = NoPath THEN Paths ELSE {name[d]}

\* The documents that have path p, but for d, which writes to it
Losers(p, d) == {e \in Open \ {d} : name[e] = p}

\* Wrong: save() reports success.
NotSavedListed(d, p) ==
    /\ p \in Locked
    /\ name' = [name EXCEPT ![d] = p]
    /\ combo' \in UpdateConfig(d)
    /\ UNCHANGED <<text, disk, spoiled>>

\* The path stays when the file cannot be opened.
NotSaved(d, p) ==
    /\ p \in Locked
    /\ name' = [name EXCEPT ![d] = p]
    /\ UNCHANGED <<text, combo, disk, spoiled>>

\* When the disk is full the file ends early, and save() does not see it.
Saved(d, p) ==
    /\ p \notin Locked
    /\ name' = [name EXCEPT ![d] = p]
    /\ combo' \in UpdateConfig(d)
    /\ \/ /\ disk' = [disk EXCEPT ![p] = text[d]]
          /\ spoiled' = (spoiled \ {d}) \cup Losers(p, d)
       \/ /\ disk' = [disk EXCEPT ![p] = "other"]
          /\ spoiled' = spoiled \cup {d} \cup Losers(p, d)
    /\ UNCHANGED text

\* saveDocument, unless the user gives no name
SaveDocument(d) == Move /\ \E p \in Targets(d) : NotSaved(d, p) \/ Saved(d, p)

Save(d) ==
    /\ status = "up" /\ d \in Open
    /\ SaveDocument(d)
    /\ UNCHANGED <<tabs, made, session, status, asks>>

-----------------------------------------------------------------------------
(* Loading, starting and leaving *)

\* button_clickedSetup: without a selected document it goes through a null pointer.
\* Whatever is in the files, the parser makes the best of it (DeployPlan).
Load ==
    /\ status = "up" /\ \A k \in Kinds : combo[k].items # {}
    /\ IF \A k \in Kinds : combo[k].at # NoDoc
       THEN UNCHANGED vars
       ELSE Crash

Select(k, d) ==
    /\ status = "up" /\ d \in combo[k].items
    /\ combo' = [combo EXCEPT ![k].at = d]
    /\ UNCHANGED <<tabs, name, text, made, files, status, asks, spoiled, moves>>

\* The window is closed and its destructor runs.
Exit ==
    /\ status = "up"
    /\ status' = "asking"
    /\ UNCHANGED <<window, files, asks, spoiled, moves>>

Unsaved(d) == ~Exists(name[d])

\* Wrong: one tab too many.
AsksOnceMore ==
    /\ status = "asking" /\ asks <= Len(tabs)
    /\ asks' = asks + 1
    /\ UNCHANGED <<window, files, status, spoiled, moves>>

\* A document without a file is saved if the user says so.
Asks ==
    /\ status = "asking" /\ asks < Len(tabs)
    /\ asks' = asks + 1
    /\ LET d == tabs[asks + 1]
       IN  \/ Unsaved(d) /\ SaveDocument(d)
           \/ UNCHANGED <<name, text, combo, disk, spoiled, moves>>
    /\ UNCHANGED <<tabs, made, session, status>>

\* Wrong: the last tab is forgotten.
ExitsWithoutLast ==
    /\ status = "asking" /\ asks = Len(tabs)
    /\ session' = IF tabs = <<>> THEN <<>> ELSE Front(Names)
    /\ status' = "closed" /\ asks' = 0
    /\ UNCHANGED <<window, disk, spoiled, moves>>

\* save_session
Exits ==
    /\ status = "asking" /\ asks = Len(tabs)
    /\ session' = Names
    /\ status' = "closed" /\ asks' = 0
    /\ UNCHANGED <<window, disk, spoiled, moves>>

\* load_session: the window after the first i files of the session
Loaded[i \in 0 .. Len(session)] ==
    IF i = 0 THEN NoWindow ELSE LoadFile(Loaded[i - 1], session[i])

Start ==
    /\ status \in {"closed", "crashed"}
    /\ Shows(Loaded[Len(session)])
    /\ status' = "up" /\ spoiled' = {}
    /\ Move
    /\ UNCHANGED <<files, asks>>

\* The process is killed.
Killed == status \in {"up", "asking"} /\ Crash

\* Another program writes a file or removes it.
Changed(p, t) ==
    /\ disk' = [disk EXCEPT ![p] = t]
    /\ spoiled' = spoiled \cup {d \in Open : name[d] = p}
    /\ Move
    /\ UNCHANGED <<window, session, status, asks>>

Next ==
    \/ Create
    \/ \E p \in Paths : OpenFile(p)
    \/ \E d \in Docs, t \in Texts : Edit(d, t)
    \/ \E i \in Docs : CloseTab(i)
    \/ CloseNoTab
    \/ \E i \in Docs : MoveTab(i)
    \/ \E d \in Docs : Save(d)
    \/ \E k \in Kinds, d \in Docs : Select(k, d)
    \/ Load
    \/ Exit
    \/ Asks
    \/ Exits
    \/ Start
    \/ Killed
    \/ \E p \in Paths, t \in Texts \cup {NoFile} : Changed(p, t)

Spec == Init /\ [][Next]_vars

-----------------------------------------------------------------------------
(* What holds *)

\* A combo box lists documents that are open and have a path, no document is in
\* both, and what is selected is listed: "Load" (button_clickedSetup) never
\* follows a pointer to a Document that close_tab has deleted.
CombosListOpen ==
    /\ \A k \in Kinds : /\ combo[k].items \subseteq {d \in Open : name[d] # NoPath}
                        /\ combo[k].at \in combo[k].items \cup {NoDoc}
    /\ combo["app"].items \cap combo["deploy"].items = {}

\* A file with text t, or its plain text, is of kind k.
Fits(t, k) == k \in {KindOf(t), KindOf(Shown(t))}

\* "Load" reads the files, not the tabs: for a listed document the file exists
\* and is of the kind of the combo box, or its plain text is, whatever the tab was
\* edited to since, and however many saves failed - unless another document or
\* program wrote the file or the disk was full.
ListsMatchFiles ==
    \A k \in Kinds : \A d \in combo[k].items \ spoiled : Fits(disk[name[d]], k)

\* Those of the names of the first i tabs whose files exist
Remaining[i \in 0 .. Len(tabs)] ==
    IF i = 0 THEN <<>>
    ELSE IF Exists(Names[i]) THEN Append(Remaining[i - 1], Names[i]) ELSE Remaining[i - 1]

\* After a regular exit the next start reopens, in their order, the documents
\* that were open and whose files still exist, including those that got a name
\* only when the destructor asked for it.
SessionRestores ==
    [][status = "closed" /\ status' = "up" => Names' = Remaining[Len(tabs)]]_vars
=============================================================================
