---------------------------- MODULE RegisterPanels ----------------------------
(***************************************************************************)
(* What of a page survives a visit.  Turbo (application.ts imports it)     *)
(* replaces the body at every visit, keeps a copy of the one it leaves and *)
(* shows that copy again on a restoration, or as a preview.  Stimulus then *)
(* calls connect() on the copy: new objects of ide/ over an old document.  *)
(* Modelled: the register panels of ide/registers.ts, tabbed_registers.ts  *)
(* and registers_panel.ts with their tooltips, and the editor of           *)
(* ide/input.ts and codemirror_adapter.ts, over the loading of the module. *)
(***************************************************************************)
EXTENDS ModuleLoader

CONSTANTS
  TabCount,  \* pages of general registers: 256 / 32
  MaxTips,   \* bound: tooltips on a page
  MaxPages   \* bound: Page = 1..MaxPages

ASSUME PanelAssumption == TabCount \in Nat \ {0} /\ MaxPages \in Nat /\ Page = 1..MaxPages

VARIABLES
  current,   \* the page in the window
  visits,    \* the pages so far
  restored,  \* history: the current page is a copy, or a copy of a copy
  snapshot,  \* the copy that Turbo keeps
  dom,       \* the document of the current page
  isOpen,    \* Registers.isOpen of the two subpanels
  tabCount,  \* TabbedRegisters.tabCount
  allData,   \* TabbedRegisters.allData: the module whose registers these are, and of which run
  tip        \* ToolTip.tempDiv is set: the pointer is over a row

panelVars == <<current, visits, restored, snapshot, dom, isOpen, tabCount, allData, tip>>
visitVars == <<loaderVars, panelVars>>

Panel == {"special", "general"}
NoPage == 0
Closed == [panel \in Panel |-> FALSE]
NoData == [of |-> NoPage, run |-> 0]
NoRows == [data |-> NoData, tab |-> 0]

\* open: no collapsed class; tabs, tab: the options of the select and its value;
\* rows: what is in the container of the general registers; editor: the editor that
\* the page's object owns, and dead, the ones of earlier objects; tips: the tooltips
\* in the body.
FreshDom ==
  [open |-> Closed, tabs |-> 0, tab |-> 0, rows |-> NoRows, editor |-> "none", dead |-> 0, tips |-> 0]

\* What cloneNode keeps.  The editor of the copy has no object any more.
Copy(d) == [d EXCEPT !.editor = "none", !.dead = IF d.editor = "none" THEN @ ELSE @ + 1]

NoSnapshot == [FreshDom EXCEPT !.tabs = TabCount, !.dead = MaxPages + 1]

VisitInit ==
  /\ LoaderInit
  /\ current = NoPage
  /\ visits = 0
  /\ restored = FALSE
  /\ snapshot = NoSnapshot
  /\ dom = FreshDom
  /\ isOpen = Closed
  /\ tabCount = 0
  /\ allData = NoData
  /\ tip = FALSE

-----------------------------------------------------------------------------
(* Visits.                                                                 *)

\* connect(): the objects are new, the editor is added to what the container holds.
Connect(d) ==
  /\ visits < MaxPages
  /\ visits' = visits + 1
  /\ current' = visits + 1
  /\ dom' = [d EXCEPT !.editor = "locked"]
  /\ isOpen' = Closed
  /\ tabCount' = 0
  /\ allData' = NoData
  /\ tip' = FALSE
  /\ StartLoad(visits + 1)

\* The answer of the server replaces the page: the first, the one after a save, or
\* the one that a preview stands for.
Visit ==
  /\ Connect(FreshDom)
  /\ restored' = FALSE
  /\ snapshot' = IF current = NoPage \/ restored THEN snapshot ELSE Copy(dom)

\* The window shows a page without an editor.
Leave ==
  /\ current # NoPage
  /\ current' = NoPage
  /\ snapshot' = Copy(dom)
  /\ dom' = FreshDom
  /\ restored' = FALSE /\ isOpen' = Closed /\ tabCount' = 0 /\ allData' = NoData /\ tip' = FALSE
  /\ UNCHANGED <<loaderVars, visits>>

\* Back, or a preview.
Restore ==
  /\ current = NoPage
  /\ snapshot # NoSnapshot
  /\ Connect(snapshot)
  /\ restored' = TRUE
  /\ UNCHANGED snapshot

-----------------------------------------------------------------------------
(* The panels.                                                             *)

\* A mutation of Rendered: the rows stay on the first page.
RenderedFirst(d, data) ==
  [d EXCEPT !.rows = [data |-> data, tab |-> 0],
            !.tab  = IF tabCount # TabCount THEN 0 ELSE d.tab,
            !.tabs = IF tabCount # TabCount THEN TabCount ELSE d.tabs]

\* TabbedRegisters.render: first the rows of the selected page, then new options,
\* of which the first is selected.
Rendered(d, data) ==
  [d EXCEPT !.rows = [data |-> data, tab |-> d.tab],
            !.tab  = IF tabCount # TabCount THEN 0 ELSE d.tab,
            !.tabs = IF tabCount # TabCount THEN TabCount ELSE d.tabs]

\* The rows that the pointer was over are gone, and with them the ToolTip that
\* would have removed its div.
Render(d, data) ==
  /\ dom' = Rendered(d, data)
  /\ allData' = data
  /\ tabCount' = TabCount
  /\ tip' = FALSE

\* A mutation of Opened: openAll toggles.
OpenedByToggle(d) == [d EXCEPT !.open = [p \in Panel |-> ~d.open[p]]]

\* Registers.open toggles the classes of a panel that it takes to be closed.
Opened(d) == [d EXCEPT !.open = [p \in Panel |-> IF isOpen[p] THEN d.open[p] ELSE ~d.open[p]]]

\* A mutation of Loaded: the editor is not unlocked.
LoadedLocked(p) ==
  /\ Delivered(p)
  /\ IF p = current
     THEN Render(dom, [of |-> p, run |-> 0])
     ELSE UNCHANGED <<dom, allData, tabCount, tip>>
  /\ UNCHANGED <<current, visits, restored, snapshot, isOpen>>

\* The callback in connect().  That of a page that is gone does the same to a
\* document that nobody sees.
Loaded(p) ==
  /\ Delivered(p)
  /\ IF p = current
     THEN Render([dom EXCEPT !.editor = "editable"], [of |-> p, run |-> 0])
     ELSE UNCHANGED <<dom, allData, tabCount, tip>>
  /\ UNCHANGED <<current, visits, restored, snapshot, isOpen>>

Ready == current # NoPage /\ load[current] = "delivered"

Handler == Ready /\ UNCHANGED <<loaderVars, current, visits, restored, snapshot>>

\* runUserProgram; run counts whether the program has run.
RunProgram ==
  /\ Handler
  /\ Render(Opened(dom), [of |-> current, run |-> 1])
  /\ isOpen' = [p \in Panel |-> TRUE]

\* RegistersPanel.toggle finds the panel by a class that the constructor of
\* Registers has given to its header.
TogglePanel(p) ==
  /\ Handler
  /\ dom' = [dom EXCEPT !.open[p] = ~@]
  /\ isOpen' = [isOpen EXCEPT ![p] = ~@]
  /\ UNCHANGED <<tabCount, allData, tip>>

\* The select is there before the module is: then only its value changes.
SwitchTab(k) ==
  /\ current # NoPage
  /\ k < dom.tabs /\ k # dom.tab
  /\ dom' = IF Ready THEN [dom EXCEPT !.tab = k, !.rows = [data |-> allData, tab |-> k]]
            ELSE [dom EXCEPT !.tab = k]
  /\ UNCHANGED <<loaderVars, current, visits, restored, snapshot, isOpen, tabCount, allData, tip>>

\* mouseenter and mouseleave of a row that this page has rendered: of a special
\* register, the others have no description.
Enter ==
  /\ Handler
  /\ ~tip /\ dom.tips < MaxTips
  /\ tip' = TRUE
  /\ dom' = [dom EXCEPT !.tips = @ + 1]
  /\ UNCHANGED <<isOpen, tabCount, allData>>

LeaveRow ==
  /\ Handler
  /\ tip
  /\ tip' = FALSE
  /\ dom' = [dom EXCEPT !.tips = @ - 1]
  /\ UNCHANGED <<isOpen, tabCount, allData>>

-----------------------------------------------------------------------------
VisitNext ==
  \/ Visit \/ Leave \/ Restore
  \/ \E p \in Page : Loaded(p)
  \/ \E p \in Page : Progress(p) /\ UNCHANGED panelVars
  \/ RunProgram
  \/ \E p \in Panel : TogglePanel(p)
  \/ \E k \in 0..TabCount - 1 : SwitchTab(k)
  \/ Enter \/ LeaveRow

VisitSpec == VisitInit /\ [][VisitNext]_visitVars

\* The browser answers every request, one way or the other, and calls back.
FairVisitSpec ==
  VisitSpec /\ \A p \in Page : WF_visitVars(Loaded(p) \/ (Progress(p) /\ UNCHANGED panelVars))

-----------------------------------------------------------------------------
(* Properties.                                                             *)

Rows == [data : [of : Page \cup {NoPage}, run : 0..1], tab : 0..TabCount - 1]
Document ==
  [open : [Panel -> BOOLEAN], tabs : {0, TabCount}, tab : 0..TabCount - 1, rows : Rows,
   editor : {"none", "locked", "editable"}, dead : Nat, tips : Nat]

VisitTypeOK ==
  /\ defined \in BOOLEAN
  /\ load \in [Page -> LoadState]
  /\ runtime \in [Page -> [deps : 0..1, calledRun : BOOLEAN, initialized : BOOLEAN,
                           fs : {"none", "static", "open"}, aborted : BOOLEAN]]
  /\ current \in Page \cup {NoPage} /\ visits \in 0..MaxPages
  /\ restored \in BOOLEAN /\ tip \in BOOLEAN
  /\ {dom, snapshot} \subseteq Document
  /\ isOpen \in [Panel -> BOOLEAN]
  /\ tabCount \in {0, TabCount}
  /\ allData \in [of : Page \cup {NoPage}, run : 0..1]

\* A page calls its module only when the runtime has been initialized once, with
\* its standard streams open and nothing aborted, however many pages load at a
\* time and whichever of them has defined the function.
ReadyIsInitialized ==
  \A p \in Page :
    load[p] \in {"module", "delivered"} =>
      runtime[p] = [deps |-> 0, calledRun |-> TRUE, initialized |-> TRUE, fs |-> "open", aborted |-> FALSE]

\* Every load ends: with a module, which its page is given, or with null.
LoadsSettle == \A p \in Page : load[p] # "none" ~> load[p] \in {"delivered", "null"}

\* What the register table shows is of this page's own module once that is there,
\* and the editor can be typed in from then on, not before.
PageShowsItsModule ==
  current # NoPage =>
    /\ (dom.editor = "editable") = Ready
    /\ Ready => dom.rows.data = allData /\ allData.of = current

\* On a page that is not a copy the objects and the document agree: which panels
\* are open, and which page of registers is selected and shown.
FreshPanelsAgree ==
  current # NoPage /\ ~restored =>
    /\ dom.open = isOpen
    /\ dom.tabs = tabCount
    /\ dom.rows.tab = dom.tab
    /\ dom.dead = 0

\* After the first run that follows it, a restored page shows the selected page too.
RunShowsSelected == [][RunProgram => dom'.rows.tab = dom'.tab]_visitVars
=============================================================================
