------------------------ MODULE RegisterPanels_proofs ------------------------
(***************************************************************************)
(* Theorems about ModuleLoader and RegisterPanels, for every number of     *)
(* pages and tabs: a page calls only a module that is initialized, and its *)
(* panels agree with its objects, whatever loads, fails and is restored in *)
(* whatever order.                                                         *)
(***************************************************************************)
EXTENDS RegisterPanels, TLAPS

USE LoaderAssumption, PanelAssumption

-----------------------------------------------------------------------------
(* Loading.                                                                *)

Runtime ==
  [deps : 0..1, calledRun : BOOLEAN, initialized : BOOLEAN,
   fs : {"none", "static", "open"}, aborted : BOOLEAN]

Instance == [deps |-> 0, calledRun |-> FALSE, initialized |-> FALSE, fs |-> "static", aborted |-> FALSE]
Module == [deps |-> 0, calledRun |-> TRUE, initialized |-> TRUE, fs |-> "open", aborted |-> FALSE]

\* How far the runtime of a page is says how far its load is.
LoadInv(p) ==
  /\ load[p] \in {"none", "script"} => runtime[p] = NoRuntime
  /\ load[p] \in {"streaming", "fetching"} => runtime[p] = Created
  /\ load[p] = "instance" => runtime[p] = Instance
  /\ load[p] \in {"module", "delivered"} => runtime[p] = Module
  /\ runtime[p] # NoRuntime => defined

LoaderInv ==
  /\ defined \in BOOLEAN
  /\ load \in [Page -> LoadState]
  /\ runtime \in [Page -> Runtime]
  /\ \A p \in Page : LoadInv(p)

\* What each function of mmix.js does to a runtime, field by field.
LEMMA Fields ==
  ASSUME NEW r \in Runtime
  PROVE  /\ StaticInit(r) = [deps |-> r.deps, calledRun |-> r.calledRun, initialized |-> r.initialized,
                             fs |-> "static", aborted |-> r.aborted]
         /\ AddRunDependency(r) = [deps |-> r.deps + 1, calledRun |-> r.calledRun,
                                   initialized |-> r.initialized, fs |-> r.fs, aborted |-> r.aborted]
         /\ RemoveRunDependency(r) = [deps |-> r.deps - 1, calledRun |-> r.calledRun,
                                      initialized |-> r.initialized, fs |-> r.fs, aborted |-> r.aborted]
         /\ InitRuntime([r EXCEPT !.calledRun = TRUE]) =
              [deps |-> r.deps, calledRun |-> TRUE, initialized |-> TRUE, fs |-> "open", aborted |-> r.aborted]
         /\ Aborted(r) \in Runtime
<1>1. StaticInit(r) = [deps |-> r.deps, calledRun |-> r.calledRun, initialized |-> r.initialized,
                       fs |-> "static", aborted |-> r.aborted]
  BY DEF StaticInit, Runtime
<1>2. AddRunDependency(r) = [deps |-> r.deps + 1, calledRun |-> r.calledRun,
                             initialized |-> r.initialized, fs |-> r.fs, aborted |-> r.aborted]
  BY DEF AddRunDependency, Runtime
<1>3. RemoveRunDependency(r) = [deps |-> r.deps - 1, calledRun |-> r.calledRun,
                                initialized |-> r.initialized, fs |-> r.fs, aborted |-> r.aborted]
  BY DEF RemoveRunDependency, Runtime
<1>4. InitRuntime([r EXCEPT !.calledRun = TRUE]) =
        [deps |-> r.deps, calledRun |-> TRUE, initialized |-> TRUE, fs |-> "open", aborted |-> r.aborted]
  <2>1. ASSUME NEW c \in Runtime
        PROVE  InitRuntime(c) = [deps |-> c.deps, calledRun |-> c.calledRun, initialized |-> TRUE,
                                 fs |-> "open", aborted |-> c.aborted]
    <3>1. PICK d : d = [c EXCEPT !.initialized = TRUE]
      OBVIOUS
    <3>2. /\ d \in Runtime /\ d.initialized = TRUE
          /\ d.deps = c.deps /\ d.calledRun = c.calledRun /\ d.aborted = c.aborted
      BY <3>1 DEF Runtime
    <3>3. InitRuntime(c) = [d EXCEPT !.fs = "open"]
      BY <3>1, Zenon DEF InitRuntime
    <3>4. [d EXCEPT !.fs = "open"] =
            [deps |-> d.deps, calledRun |-> d.calledRun, initialized |-> d.initialized,
             fs |-> "open", aborted |-> d.aborted]
      BY <3>2 DEF Runtime
    <3> QED
      BY <3>2, <3>3, <3>4
  <2>2. PICK c : c = [r EXCEPT !.calledRun = TRUE]
    OBVIOUS
  <2>3. c \in Runtime /\ c.deps = r.deps /\ c.calledRun = TRUE /\ c.aborted = r.aborted
    BY <2>2 DEF Runtime
  <2>4. InitRuntime(c) = [deps |-> r.deps, calledRun |-> TRUE, initialized |-> TRUE,
                          fs |-> "open", aborted |-> r.aborted]
    BY <2>1, <2>3
  <2> QED
    BY <2>2, <2>4
<1>5. Aborted(r) \in Runtime
  BY DEF Aborted, Runtime
<1> QED
  BY <1>1, <1>2, <1>3, <1>4, <1>5

\* The stages of a runtime.
LEMMA Stages ==
  /\ {NoRuntime, Created, Instance, Module, Aborted(Created)} \subseteq Runtime
  /\ Created # NoRuntime
  /\ RemoveRunDependency(Created) = Instance
  /\ \A r \in Runtime : r = Instance => InitRuntime([r EXCEPT !.calledRun = TRUE]) = Module
<1>1. NoRuntime \in Runtime /\ Instance \in Runtime /\ Module \in Runtime
  BY DEF NoRuntime, Instance, Module, Runtime
<1>2. StaticInit(NoRuntime) = Instance
  BY <1>1, Fields DEF NoRuntime, Instance
<1>3. Created = [deps |-> 1, calledRun |-> FALSE, initialized |-> FALSE, fs |-> "static", aborted |-> FALSE]
  <2>1. AddRunDependency(Instance) =
          [deps |-> Instance.deps + 1, calledRun |-> Instance.calledRun,
           initialized |-> Instance.initialized, fs |-> Instance.fs, aborted |-> Instance.aborted]
    BY <1>1, Fields
  <2> QED
    BY <1>2, <2>1 DEF Created, Instance
<1>4. Created \in Runtime /\ Created # NoRuntime
  BY <1>3 DEF Runtime, NoRuntime
<1>5. RemoveRunDependency(Created) = Instance
  <2>1. RemoveRunDependency(Created) =
          [deps |-> Created.deps - 1, calledRun |-> Created.calledRun,
           initialized |-> Created.initialized, fs |-> Created.fs, aborted |-> Created.aborted]
    BY <1>4, Fields
  <2> QED
    BY <1>3, <2>1 DEF Instance
<1>6. ASSUME NEW r \in Runtime, r = Instance
      PROVE  InitRuntime([r EXCEPT !.calledRun = TRUE]) = Module
  <2>1. InitRuntime([r EXCEPT !.calledRun = TRUE]) =
          [deps |-> r.deps, calledRun |-> TRUE, initialized |-> TRUE, fs |-> "open", aborted |-> r.aborted]
    BY Fields
  <2>2. r.deps = 0 /\ r.aborted = FALSE
    BY <1>6 DEF Instance
  <2> QED
    BY <2>1, <2>2 DEF Module
<1>7. Aborted(Created) \in Runtime
  BY <1>4, Fields
<1> QED
  BY <1>1, <1>4, <1>5, <1>6, <1>7

LEMMA LoaderInvInit == LoaderInit => LoaderInv
BY Stages DEF LoaderInit, LoaderInv, LoadInv, LoadState

LEMMA LoaderInvStep ==
  ASSUME LoaderInv, NEW p \in Page, StartLoad(p) \/ Progress(p) \/ Delivered(p)
  PROVE  LoaderInv'
<1>1. ASSUME NEW stage \in LoadState, NEW r \in Runtime, defined' \in BOOLEAN, defined => defined',
             load' = [load EXCEPT ![p] = stage], runtime' = [runtime EXCEPT ![p] = r],
             stage \in {"none", "script"} => r = NoRuntime,
             stage \in {"streaming", "fetching"} => r = Created,
             stage = "instance" => r = Instance,
             stage \in {"module", "delivered"} => r = Module,
             r # NoRuntime => defined'
      PROVE  LoaderInv'
  <2>1. load' \in [Page -> LoadState] /\ runtime' \in [Page -> Runtime]
    BY <1>1 DEF LoaderInv
  <2>2. ASSUME NEW q \in Page PROVE LoadInv(q)'
    <3>1. CASE q = p
      <4>1. load'[q] = stage /\ runtime'[q] = r
        BY <1>1, <3>1 DEF LoaderInv
      <4> QED
        BY <1>1, <4>1 DEF LoadInv
    <3>2. CASE q # p
      <4>1. load'[q] = load[q] /\ runtime'[q] = runtime[q] /\ LoadInv(q)
        BY <1>1, <3>2 DEF LoaderInv
      <4> QED
        BY <1>1, <4>1 DEF LoadInv
    <3> QED
      BY <3>1, <3>2
  <2> QED
    BY <1>1, <2>1, <2>2 DEF LoaderInv
<1>2. runtime' = runtime => runtime' = [runtime EXCEPT ![p] = runtime[p]]
  BY DEF LoaderInv
<1>3. LoadInv(p) /\ runtime[p] \in Runtime /\ load[p] \in LoadState /\ defined \in BOOLEAN
  BY DEF LoaderInv
<1>4. Awaited \in {"streaming", "fetching"}
  BY DEF Awaited
<1>5. CASE StartLoad(p)
  <2>1. CASE defined
    BY <1>1, <1>3, <1>4, <1>5, <2>1, Stages DEF StartLoad, Requested, LoadState
  <2>2. CASE ~defined
    BY <1>1, <1>2, <1>3, <1>5, <2>2, Stages DEF StartLoad, Requested, LoadState, LoadInv
  <2> QED
    BY <2>1, <2>2
<1>6. CASE ScriptArrives(p)
  <2>1. defined' \in BOOLEAN /\ (defined => defined') /\ runtime[p] = NoRuntime
    BY <1>3, <1>6 DEF ScriptArrives, LoadInv
  <2>2. CASE defined'
    BY <1>1, <1>4, <1>6, <2>1, <2>2, Stages DEF ScriptArrives, LoadState
  <2>3. CASE ~defined'
    BY <1>1, <1>2, <1>6, <2>1, <2>3, Stages DEF ScriptArrives, LoadState
  <2> QED
    BY <2>2, <2>3
<1>7. CASE ScriptFails(p)
  BY <1>1, <1>2, <1>3, <1>7 DEF ScriptFails, LoadState, LoadInv
<1>8. CASE StreamingFails(p)
  BY <1>1, <1>2, <1>3, <1>8 DEF StreamingFails, LoadState, LoadInv
<1>9. CASE FetchFails(p)
  <2>1. runtime[p] = Created /\ defined
    BY <1>3, <1>9, Stages DEF FetchFails, LoadInv
  <2>2. runtime' = [runtime EXCEPT ![p] = Aborted(Created)]
    BY <1>9, <2>1 DEF FetchFails, LoaderInv
  <2> QED
    BY <1>1, <1>9, <2>1, <2>2, Stages DEF FetchFails, LoadState
<1>10. CASE Instantiated(p)
  <2>1. runtime[p] = Created /\ defined
    BY <1>3, <1>10, Stages DEF Instantiated, LoadInv
  <2>2. runtime' = [runtime EXCEPT ![p] = Instance]
    BY <1>10, <2>1, Stages DEF Instantiated, LoaderInv
  <2> QED
    BY <1>1, <1>10, <2>1, <2>2, Stages DEF Instantiated, LoadState
<1>11. CASE Run(p)
  <2>1. runtime[p] = Instance /\ Instance # NoRuntime /\ defined
    BY <1>3, <1>11 DEF Run, LoadInv, Instance, NoRuntime
  <2>2. runtime' = [runtime EXCEPT ![p] = Module]
    BY <1>11, <2>1, Stages DEF Run, LoaderInv
  <2> QED
    BY <1>1, <1>11, <2>1, <2>2, Stages DEF Run, LoadState
<1>12. CASE Delivered(p)
  BY <1>1, <1>2, <1>3, <1>12 DEF Delivered, LoadState, LoadInv
<1> QED
  BY <1>5, <1>6, <1>7, <1>8, <1>9, <1>10, <1>11, <1>12 DEF Progress

-----------------------------------------------------------------------------
(* Documents.                                                              *)

Data == [of : Page \cup {NoPage}, run : 0..1]

LEMMA FreshDocument == FreshDom \in Document /\ NoSnapshot \in Document
<1>1. NoRows \in Rows /\ Closed \in [Panel -> BOOLEAN]
  BY DEF NoRows, NoData, Rows, Closed
<1>2. \A n \in Nat, t \in {0, TabCount} :
        [open |-> Closed, tabs |-> t, tab |-> 0, rows |-> NoRows, editor |-> "none", dead |-> n, tips |-> 0]
          \in Document
  BY <1>1 DEF Document
<1>3. FreshDom \in Document
  BY <1>2 DEF FreshDom
<1>4. PICK d : d = [FreshDom EXCEPT !.tabs = TabCount]
  OBVIOUS
<1>5. d \in Document
  BY <1>3, <1>4 DEF Document
<1>6. NoSnapshot = [d EXCEPT !.dead = MaxPages + 1]
  BY <1>4, Zenon DEF NoSnapshot
<1>7. [d EXCEPT !.dead = MaxPages + 1] \in Document
  BY <1>5 DEF Document
<1> QED
  BY <1>3, <1>6, <1>7

LEMMA CopiedDocument ==
  ASSUME NEW d \in Document
  PROVE  Copy(d) \in Document
<1>1. PICK e : e = [d EXCEPT !.editor = "none"]
  OBVIOUS
<1>2. e \in Document /\ e.dead = d.dead
  BY <1>1 DEF Document
<1>3. CASE d.editor = "none"
  <2>1. Copy(d) = [e EXCEPT !.dead = d.dead]
    BY <1>1, <1>2, <1>3, Zenon DEF Copy
  <2> QED
    BY <1>2, <2>1 DEF Document
<1>4. CASE d.editor # "none"
  <2>1. Copy(d) = [e EXCEPT !.dead = d.dead + 1]
    BY <1>1, <1>2, <1>4, Zenon DEF Copy
  <2> QED
    BY SMTT(30), <1>2, <2>1 DEF Document
<1> QED
  BY <1>3, <1>4

\* What a rendering writes, and what it leaves.
LEMMA RenderedDocument ==
  ASSUME NEW d \in Document, NEW data \in Data
  PROVE  /\ Rendered(d, data) \in Document
         /\ Rendered(d, data).rows = [data |-> data, tab |-> d.tab]
         /\ Rendered(d, data).tab = IF tabCount # TabCount THEN 0 ELSE d.tab
         /\ Rendered(d, data).tabs = IF tabCount # TabCount THEN TabCount ELSE d.tabs
         /\ Rendered(d, data).open = d.open
         /\ Rendered(d, data).editor = d.editor
         /\ Rendered(d, data).dead = d.dead
         /\ Rendered(d, data).tips = d.tips
<1> DEFINE rows == [data |-> data, tab |-> d.tab]
           tab == IF tabCount # TabCount THEN 0 ELSE d.tab
           tabs == IF tabCount # TabCount THEN TabCount ELSE d.tabs
<1>1. rows \in Rows /\ tab \in 0..TabCount - 1 /\ tabs \in {0, TabCount}
  BY DEF Document, Rows, Data
<1>2. PICK e : e = [d EXCEPT !.rows = rows]
  OBVIOUS
<1>3. PICK f : f = [e EXCEPT !.tab = tab]
  OBVIOUS
<1>4. Rendered(d, data) = [f EXCEPT !.tabs = tabs]
  BY <1>2, <1>3, Zenon DEF Rendered
<1> HIDE DEF rows, tab, tabs
<1>5. /\ e \in Document /\ e.rows = rows
      /\ e.open = d.open /\ e.editor = d.editor /\ e.dead = d.dead /\ e.tips = d.tips
  BY <1>1, <1>2 DEF Document
<1>6. /\ f \in Document /\ f.rows = rows /\ f.tab = tab
      /\ f.open = d.open /\ f.editor = d.editor /\ f.dead = d.dead /\ f.tips = d.tips
  BY <1>1, <1>3, <1>5 DEF Document
<1>7. PICK g : g = [f EXCEPT !.tabs = tabs]
  OBVIOUS
<1>8. /\ g \in Document /\ g.rows = rows /\ g.tab = tab /\ g.tabs = tabs
      /\ g.open = d.open /\ g.editor = d.editor /\ g.dead = d.dead /\ g.tips = d.tips
  BY <1>1, <1>6, <1>7 DEF Document
<1>9. Rendered(d, data) = g
  BY <1>4, <1>7
<1> QED
  BY <1>8, <1>9 DEF rows, tab, tabs

\* Registers.open: whatever toggles, the result is a document.
LEMMA OpenedDocument ==
  ASSUME NEW d \in Document, isOpen \in [Panel -> BOOLEAN]
  PROVE  /\ Opened(d) \in Document
         /\ \A panel \in Panel : Opened(d).open[panel] = (isOpen[panel] = d.open[panel])
         /\ Opened(d).rows = d.rows /\ Opened(d).tab = d.tab /\ Opened(d).tabs = d.tabs
         /\ Opened(d).editor = d.editor /\ Opened(d).dead = d.dead /\ Opened(d).tips = d.tips
<1> DEFINE open == [panel \in Panel |-> IF isOpen[panel] THEN d.open[panel] ELSE ~d.open[panel]]
<1>1. d.open \in [Panel -> BOOLEAN]
  BY DEF Document
<1>2. open \in [Panel -> BOOLEAN] /\ \A panel \in Panel : open[panel] = (isOpen[panel] = d.open[panel])
  BY <1>1
<1>3. Opened(d) = [d EXCEPT !.open = open]
  BY Zenon DEF Opened
<1> HIDE DEF open
<1> QED
  BY <1>2, <1>3 DEF Document

-----------------------------------------------------------------------------
(* The panels.                                                             *)

PanelTypeOK ==
  /\ current \in Page \cup {NoPage} /\ visits \in 0..MaxPages
  /\ restored \in BOOLEAN /\ tip \in BOOLEAN
  /\ dom \in Document /\ snapshot \in Document
  /\ isOpen \in [Panel -> BOOLEAN]
  /\ tabCount \in {0, TabCount}
  /\ allData \in Data

\* What the objects of ide/ and the document have to do with each other, on a copy
\* too, and on a page that is not one.
Shown ==
  /\ dom.editor = "editable" <=> Ready
  /\ Ready => dom.rows.data = allData /\ allData.of = current
  /\ tabCount = IF Ready THEN TabCount ELSE 0

Agreeing ==
  /\ dom.open = isOpen
  /\ dom.tabs = tabCount
  /\ dom.rows.tab = dom.tab
  /\ dom.dead = 0
  /\ ~Ready => dom.tab = 0

PanelInv ==
  /\ PanelTypeOK
  /\ current # NoPage => Shown
  /\ current # NoPage /\ ~restored => Agreeing
  /\ tip => dom.tips > 0

LEMMA PanelInvInit == VisitInit => PanelInv
<1> SUFFICES ASSUME VisitInit PROVE PanelInv
  OBVIOUS
<1>1. Closed \in [Panel -> BOOLEAN] /\ NoData \in Data
  BY DEF Closed, NoData, Data
<1>2. current = NoPage /\ ~tip /\ visits = 0 /\ visits \in 0..MaxPages
  BY DEF VisitInit
<1>3. PanelTypeOK
  BY <1>1, <1>2, FreshDocument DEF VisitInit, PanelTypeOK
<1> QED
  BY <1>2, <1>3 DEF PanelInv

LEMMA ConnectKeepsPanels ==
  ASSUME LoaderInv, PanelInv, NEW d \in Document, Connect(d),
         restored' \in BOOLEAN, snapshot' \in Document, ~restored' => d = FreshDom
  PROVE  PanelInv'
<1> DEFINE p == visits + 1
<1>1. p \in Page /\ p # NoPage /\ visits' = p /\ p \in 0..MaxPages /\ current' = p
  BY DEF Connect, PanelInv, PanelTypeOK, NoPage
<1>2. load' = [load EXCEPT ![p] = "script"] \/ load' = [load EXCEPT ![p] = Awaited]
  BY DEF Connect, StartLoad, Requested
<1> HIDE DEF p
<1>3. load'[p] # "delivered"
  BY <1>1, <1>2 DEF LoaderInv, Awaited
<1>4. ~Ready'
  BY <1>1, <1>3 DEF Ready
<1>5. /\ dom' \in Document /\ dom'.editor = "locked" /\ dom'.open = d.open /\ dom'.tabs = d.tabs
      /\ dom'.tab = d.tab /\ dom'.rows = d.rows /\ dom'.dead = d.dead
  BY DEF Connect, Document
<1>6. /\ isOpen' = Closed /\ tabCount' = 0 /\ allData' = NoData /\ tip' = FALSE
  BY DEF Connect
<1>7. Closed \in [Panel -> BOOLEAN] /\ NoData \in Data
  BY DEF Closed, NoData, Data
<1>8. PanelTypeOK'
  BY <1>1, <1>5, <1>6, <1>7 DEF PanelTypeOK
<1>9. Shown'
  BY <1>4, <1>5, <1>6 DEF Shown
<1>10. ASSUME ~restored' PROVE Agreeing'
  <2>1. d.open = Closed /\ d.tabs = 0 /\ d.tab = 0 /\ d.rows = NoRows /\ d.dead = 0
    BY <1>10 DEF FreshDom
  <2> QED
    BY <1>5, <1>6, <2>1 DEF Agreeing, NoRows
<1> QED
  BY <1>6, <1>8, <1>9, <1>10 DEF PanelInv

\* A rendering of this page's own registers, over a document that agrees or not.
LEMMA RenderKeepsPanels ==
  ASSUME PanelInv, current # NoPage, Ready', NEW d \in Document, NEW run \in 0..1,
         Render(d, [of |-> current, run |-> run]), d.editor = "editable",
         UNCHANGED <<current, visits, restored, snapshot>>, isOpen' \in [Panel -> BOOLEAN],
         ~restored => d.open = isOpen' /\ d.tabs = dom.tabs /\ d.tab = dom.tab /\ d.dead = 0
  PROVE  PanelInv'
<1> DEFINE data == [of |-> current, run |-> run]
<1>1. data \in Data /\ data.of = current
  BY DEF Data, PanelInv, PanelTypeOK
<1>2. dom' = Rendered(d, data) /\ allData' = data /\ tabCount' = TabCount /\ tip' = FALSE
  BY DEF Render
<1> HIDE DEF data
<1>3. /\ dom' \in Document
      /\ dom'.rows = [data |-> data, tab |-> d.tab]
      /\ dom'.tab = IF tabCount # TabCount THEN 0 ELSE d.tab
      /\ dom'.tabs = IF tabCount # TabCount THEN TabCount ELSE d.tabs
      /\ dom'.open = d.open /\ dom'.editor = d.editor /\ dom'.dead = d.dead
  BY <1>1, <1>2, RenderedDocument
<1>4. PanelTypeOK'
  BY <1>1, <1>2, <1>3 DEF PanelInv, PanelTypeOK
<1>5. Shown'
  BY <1>1, <1>2, <1>3 DEF Shown
<1>6. ASSUME ~restored PROVE Agreeing'
  <2>1. Agreeing /\ Shown /\ tabCount \in {0, TabCount}
    BY <1>6 DEF PanelInv, PanelTypeOK
  <2>2. CASE tabCount = TabCount
    BY <1>2, <1>3, <1>6, <2>1, <2>2 DEF Agreeing
  <2>3. CASE tabCount # TabCount
    <3>1. ~Ready /\ d.tab = 0
      BY <1>6, <2>1, <2>3 DEF Shown, Agreeing
    <3> QED
      BY <1>2, <1>3, <1>6, <2>1, <2>3, <3>1 DEF Agreeing
  <2> QED
    BY <2>2, <2>3
<1> QED
  BY <1>2, <1>4, <1>5, <1>6 DEF PanelInv

LEMMA PanelInvStep ==
  ASSUME LoaderInv, PanelInv, [VisitNext]_visitVars
  PROVE  PanelInv'
<1>1. current # NoPage => current \in Page
  BY DEF PanelInv, PanelTypeOK
<1>2. ASSUME NEW p \in Page, Delivered(p)
      PROVE  /\ p # current => (Ready' <=> Ready) \/ current' # current
             /\ p = current /\ current' = current => ~Ready /\ Ready'
  <2>1. load' = [load EXCEPT ![p] = "delivered"] /\ load[p] = "module" /\ p # NoPage
    BY <1>2 DEF Delivered, NoPage
  <2> QED
    BY <1>1, <2>1 DEF LoaderInv, Ready
<1>3. CASE Visit
  <2>1. Copy(dom) \in Document /\ FreshDom \in Document
    BY CopiedDocument, FreshDocument DEF PanelInv, PanelTypeOK
  <2>2. Connect(FreshDom) /\ restored' = FALSE /\ snapshot' \in Document
    BY <1>3, <2>1 DEF Visit, PanelInv, PanelTypeOK
  <2> QED
    BY <2>1, <2>2, ConnectKeepsPanels
<1>4. CASE Leave
  <2>1. Copy(dom) \in Document /\ FreshDom \in Document
    BY CopiedDocument, FreshDocument DEF PanelInv, PanelTypeOK
  <2>2. Closed \in [Panel -> BOOLEAN] /\ NoData \in Data
    BY DEF Closed, NoData, Data
  <2>3. PanelTypeOK'
    BY <1>4, <2>1, <2>2 DEF Leave, PanelInv, PanelTypeOK
  <2> QED
    BY <1>4, <2>3 DEF Leave, PanelInv
<1>5. CASE Restore
  <2>1. Connect(snapshot) /\ restored' = TRUE /\ snapshot \in Document /\ snapshot' = snapshot
    BY <1>5 DEF Restore, PanelInv, PanelTypeOK
  <2> QED
    BY <2>1, ConnectKeepsPanels
<1>6. CASE \E p \in Page : Loaded(p)
  <2>1. PICK p \in Page : Loaded(p)
    BY <1>6
  <2>2. CASE p = current
    <3>1. PICK d : d = [dom EXCEPT !.editor = "editable"]
      OBVIOUS
    <3>2. /\ d \in Document /\ d.editor = "editable" /\ d.open = dom.open /\ d.tabs = dom.tabs
          /\ d.tab = dom.tab /\ d.dead = dom.dead
      BY <3>1 DEF PanelInv, PanelTypeOK, Document
    <3>3. /\ Render(d, [of |-> current, run |-> 0])
          /\ UNCHANGED <<current, visits, restored, snapshot>> /\ isOpen' = isOpen
      BY <2>1, <2>2, <3>1 DEF Loaded
    <3>4. Ready' /\ current # NoPage
      BY <1>2, <2>1, <2>2 DEF Loaded, NoPage
    <3>5. ~restored => d.open = isOpen' /\ d.dead = 0
      BY <3>2, <3>3, <3>4 DEF PanelInv, Agreeing
    <3>6. isOpen' \in [Panel -> BOOLEAN] /\ 0 \in 0..1
      BY <3>3 DEF PanelInv, PanelTypeOK
    <3> QED
      BY <3>2, <3>3, <3>4, <3>5, <3>6, RenderKeepsPanels
  <2>3. CASE p # current
    <3>1. UNCHANGED panelVars
      BY <2>1, <2>3 DEF Loaded, panelVars
    <3>2. Ready' <=> Ready
      BY <1>2, <2>1, <2>3, <3>1 DEF Loaded, panelVars
    <3> QED
      BY <3>1, <3>2 DEF panelVars, PanelInv, PanelTypeOK, Shown, Agreeing
  <2> QED
    BY <2>2, <2>3
<1>7. CASE \E p \in Page : Progress(p) /\ UNCHANGED panelVars
  <2>1. PICK p \in Page : Progress(p) /\ UNCHANGED panelVars
    BY <1>7
  <2>2. load[p] # "delivered" /\ \E s \in LoadState \ {"delivered"} : load' = [load EXCEPT ![p] = s]
    BY <2>1 DEF Progress, ScriptArrives, ScriptFails, StreamingFails, FetchFails, Instantiated, Run,
                LoadState, Awaited
  <2>3. Ready' <=> Ready
    BY <1>1, <2>1, <2>2 DEF Ready, LoaderInv, panelVars
  <2> QED
    BY <2>1, <2>3 DEF panelVars, PanelInv, PanelTypeOK, Shown, Agreeing
<1>8. ASSUME Handler PROVE (Ready' <=> Ready) /\ current # NoPage /\ Ready /\ Shown
  BY <1>8 DEF Handler, Ready, loaderVars, PanelInv
<1>9. CASE RunProgram
  <2>1. dom \in Document /\ isOpen \in [Panel -> BOOLEAN] /\ dom.open \in [Panel -> BOOLEAN]
    BY DEF PanelInv, PanelTypeOK, Document
  <2>2. PICK d : d = Opened(dom)
    OBVIOUS
  <2>3. /\ d \in Document /\ d.editor = dom.editor /\ d.tabs = dom.tabs /\ d.tab = dom.tab
        /\ d.dead = dom.dead /\ \A panel \in Panel : d.open[panel] = (isOpen[panel] = dom.open[panel])
    BY <2>1, <2>2, OpenedDocument
  <2>4. /\ Render(d, [of |-> current, run |-> 1]) /\ isOpen' = [panel \in Panel |-> TRUE]
        /\ UNCHANGED <<current, visits, restored, snapshot>>
    BY <1>9, <2>2 DEF RunProgram, Handler
  <2>5. Ready' /\ current # NoPage /\ d.editor = "editable"
    BY <1>8, <1>9, <2>3 DEF RunProgram, Shown
  <2>6. ASSUME ~restored PROVE d.open = isOpen' /\ d.dead = 0
    <3>1. dom.open = isOpen /\ dom.dead = 0
      BY <2>5, <2>6 DEF PanelInv, Agreeing
    <3>2. d.open \in [Panel -> BOOLEAN] /\ \A panel \in Panel : d.open[panel] = TRUE
      BY <2>3, <3>1 DEF Document
    <3> QED
      BY <2>3, <2>4, <3>1, <3>2
  <2>7. isOpen' \in [Panel -> BOOLEAN] /\ 1 \in 0..1
    BY <2>4
  <2> QED
    BY <2>3, <2>4, <2>5, <2>6, <2>7, RenderKeepsPanels
<1>10. CASE \E p \in Panel : TogglePanel(p)
  <2>1. PICK p \in Panel : TogglePanel(p)
    BY <1>10
  <2>2. PICK open : open = [dom.open EXCEPT ![p] = ~@]
    OBVIOUS
  <2>3. dom' = [dom EXCEPT !.open = open]
    BY <2>1, <2>2, Zenon DEF TogglePanel
  <2>4. dom \in Document /\ dom.open \in [Panel -> BOOLEAN] /\ open \in [Panel -> BOOLEAN]
    BY <2>2 DEF PanelInv, PanelTypeOK, Document
  <2>5. /\ dom' \in Document /\ dom'.open = open /\ dom'.editor = dom.editor /\ dom'.rows = dom.rows
        /\ dom'.tabs = dom.tabs /\ dom'.tab = dom.tab /\ dom'.dead = dom.dead /\ dom'.tips = dom.tips
    BY <2>3, <2>4 DEF Document
  <2>6. isOpen' = [isOpen EXCEPT ![p] = ~@] /\ isOpen' \in [Panel -> BOOLEAN]
    BY <2>1 DEF TogglePanel, PanelInv, PanelTypeOK
  <2>7. dom.open = isOpen => dom'.open = isOpen'
    BY <2>2, <2>5, <2>6
  <2>8. UNCHANGED <<current, visits, restored, snapshot, tabCount, allData, tip>> /\ (Ready' <=> Ready)
    BY <1>8, <2>1 DEF TogglePanel, Handler
  <2> QED
    BY <2>5, <2>6, <2>7, <2>8 DEF PanelInv, PanelTypeOK, Shown, Agreeing
<1>11. CASE \E k \in 0..TabCount - 1 : SwitchTab(k)
  <2>1. PICK k \in 0..TabCount - 1 : SwitchTab(k)
    BY <1>11
  <2>2. dom \in Document /\ allData \in Data /\ [data |-> allData, tab |-> k] \in Rows
    BY DEF PanelInv, PanelTypeOK, Rows, Data
  <2>3. PICK d : d = [dom EXCEPT !.tab = k]
    OBVIOUS
  <2>4. /\ d \in Document /\ d.tab = k /\ d.open = dom.open /\ d.editor = dom.editor
        /\ d.rows = dom.rows /\ d.tabs = dom.tabs /\ d.dead = dom.dead /\ d.tips = dom.tips
    BY <2>2, <2>3 DEF Document
  <2>5. /\ UNCHANGED <<current, visits, restored, snapshot, isOpen, tabCount, allData, tip>>
        /\ (Ready' <=> Ready) /\ current # NoPage /\ k < dom.tabs
    BY <2>1 DEF SwitchTab, Ready, loaderVars
  <2>6. CASE Ready
    <3>1. dom' = [d EXCEPT !.rows = [data |-> allData, tab |-> k]]
      BY <2>1, <2>3, <2>6, Zenon DEF SwitchTab
    <3>2. /\ dom' \in Document /\ dom'.tab = k /\ dom'.rows = [data |-> allData, tab |-> k]
          /\ dom'.open = dom.open /\ dom'.editor = dom.editor /\ dom'.tabs = dom.tabs
          /\ dom'.dead = dom.dead /\ dom'.tips = dom.tips
      BY <2>2, <2>4, <3>1 DEF Document
    <3> QED
      BY <2>5, <2>6, <3>2 DEF PanelInv, PanelTypeOK, Shown, Agreeing
  <2>7. CASE ~Ready
    <3>1. dom' = d
      BY <2>1, <2>3, <2>7 DEF SwitchTab
    <3>2. restored
      BY <2>1, <2>5, <2>7 DEF PanelInv, Shown, Agreeing
    <3> QED
      BY <2>4, <2>5, <2>7, <3>1, <3>2 DEF PanelInv, PanelTypeOK, Shown
  <2> QED
    BY <2>6, <2>7
<1>12. CASE Enter \/ LeaveRow
  <2>1. PICK n \in Nat : dom' = [dom EXCEPT !.tips = n] /\ (tip' => n > 0)
    <3>1. dom.tips \in Nat /\ (tip => dom.tips > 0)
      BY DEF PanelInv, PanelTypeOK, Document
    <3>2. CASE Enter
      BY SMTT(30), <3>1, <3>2 DEF Enter
    <3>3. CASE LeaveRow
      BY SMTT(30), <3>1, <3>3 DEF LeaveRow
    <3> QED
      BY <1>12, <3>2, <3>3
  <2>2. /\ dom' \in Document /\ dom'.tips = n /\ dom'.open = dom.open /\ dom'.editor = dom.editor
        /\ dom'.rows = dom.rows /\ dom'.tabs = dom.tabs /\ dom'.tab = dom.tab /\ dom'.dead = dom.dead
    BY <2>1 DEF PanelInv, PanelTypeOK, Document
  <2>3. UNCHANGED <<current, visits, restored, snapshot, isOpen, tabCount, allData>> /\ tip' \in BOOLEAN
    BY <1>12 DEF Enter, LeaveRow, Handler
  <2>4. Ready' <=> Ready
    BY <1>8, <1>12 DEF Enter, LeaveRow
  <2> QED
    BY <2>1, <2>2, <2>3, <2>4 DEF PanelInv, PanelTypeOK, Shown, Agreeing
<1>13. CASE UNCHANGED visitVars
  BY <1>13 DEF visitVars, loaderVars, panelVars, PanelInv, PanelTypeOK, Shown, Agreeing, Ready
<1> QED
  BY <1>3, <1>4, <1>5, <1>6, <1>7, <1>9, <1>10, <1>11, <1>12, <1>13 DEF VisitNext

-----------------------------------------------------------------------------
(* The theorems.                                                           *)

LEMMA LoaderInvVisit ==
  ASSUME LoaderInv, PanelInv, [VisitNext]_visitVars
  PROVE  LoaderInv'
<1>1. ASSUME UNCHANGED loaderVars PROVE LoaderInv'
  BY <1>1 DEF loaderVars, LoaderInv, LoadInv
<1>2. ASSUME NEW d, Connect(d) PROVE LoaderInv'
  <2>1. visits + 1 \in Page /\ StartLoad(visits + 1)
    BY <1>2 DEF Connect, PanelInv, PanelTypeOK
  <2> QED
    BY <2>1, LoaderInvStep
<1>3. CASE Visit \/ Restore
  BY <1>2, <1>3 DEF Visit, Restore
<1>4. CASE \E p \in Page : Loaded(p)
  <2>1. PICK p \in Page : Delivered(p)
    BY <1>4 DEF Loaded
  <2> QED
    BY <2>1, LoaderInvStep
<1>5. CASE \E p \in Page : Progress(p) /\ UNCHANGED panelVars
  <2>1. PICK p \in Page : Progress(p)
    BY <1>5
  <2> QED
    BY <2>1, LoaderInvStep
<1>6. CASE \/ Leave \/ RunProgram \/ (\E p \in Panel : TogglePanel(p))
           \/ (\E k \in 0..TabCount - 1 : SwitchTab(k)) \/ Enter \/ LeaveRow \/ UNCHANGED visitVars
  BY <1>1, <1>6 DEF Leave, RunProgram, TogglePanel, SwitchTab, Enter, LeaveRow, Handler, visitVars
<1> QED
  BY <1>3, <1>4, <1>5, <1>6 DEF VisitNext

THEOREM VisitInvariant == VisitSpec => [](LoaderInv /\ PanelInv)
<1>1. VisitInit => LoaderInv /\ PanelInv
  BY LoaderInvInit, PanelInvInit DEF VisitInit
<1>2. LoaderInv /\ PanelInv /\ [VisitNext]_visitVars => (LoaderInv /\ PanelInv)'
  BY LoaderInvVisit, PanelInvStep
<1> QED
  BY <1>1, <1>2, PTL DEF VisitSpec

\* Type correctness: the documents, the snapshot among them, the panels' objects
\* and the loads keep their types however often a copy of a copy is restored.
THEOREM VisitTypeCorrect == VisitSpec => []VisitTypeOK
<1>1. LoaderInv /\ PanelInv => VisitTypeOK
  BY DEF LoaderInv, PanelInv, PanelTypeOK, Runtime, Data, VisitTypeOK
<1> QED
  BY <1>1, VisitInvariant, PTL

\* factory.ts and mmix.js: whatever scripts and fetches arrive or fail, and in
\* whatever order, a page calls only a module whose runtime is initialized once.
THEOREM ModulesAreInitialized == VisitSpec => []ReadyIsInitialized
<1>1. LoaderInv => ReadyIsInitialized
  BY DEF LoaderInv, LoadInv, Module, ReadyIsInitialized
<1> QED
  BY <1>1, VisitInvariant, PTL

\* ide_facade_controller.ts connect(): a page shows the registers of its own module,
\* and its editor can be typed in exactly when that module has been delivered,
\* whatever pages before it still load.
THEOREM PagesShowTheirModule == VisitSpec => []PageShowsItsModule
<1>1. PanelInv => PageShowsItsModule
  BY DEF PanelInv, Shown, PageShowsItsModule, Ready
<1> QED
  BY <1>1, VisitInvariant, PTL

\* registers.ts, tabbed_registers.ts: on a page that is not a copy the objects know
\* what the document shows.  Not inductive: it needs that the page of the registers
\* is the first until they are rendered.
THEOREM FreshPanelsStayInAgreement == VisitSpec => []FreshPanelsAgree
<1>1. PanelInv => FreshPanelsAgree
  BY DEF PanelInv, Agreeing, FreshPanelsAgree
<1> QED
  BY <1>1, VisitInvariant, PTL

\* tabbed_registers.ts render(): a run shows the selected page of registers, on a
\* restored page too.
THEOREM RunsShowTheSelectedTab == VisitSpec => RunShowsSelected
<1>1. ASSUME PanelInv, RunProgram
      PROVE  dom'.rows.tab = dom'.tab
  <2>1. dom \in Document /\ isOpen \in [Panel -> BOOLEAN] /\ tabCount = TabCount
    BY <1>1 DEF RunProgram, Handler, Ready, PanelInv, PanelTypeOK, Shown
  <2>2. PICK d : d = Opened(dom)
    OBVIOUS
  <2>3. d \in Document
    BY <2>1, <2>2, OpenedDocument
  <2>4. PICK data : data = [of |-> current, run |-> 1]
    OBVIOUS
  <2>5. data \in Data
    BY <1>1, <2>4 DEF PanelInv, PanelTypeOK, Data
  <2>6. dom' = Rendered(d, data)
    BY <1>1, <2>2, <2>4 DEF RunProgram, Render
  <2>7. dom'.rows = [data |-> data, tab |-> d.tab] /\ dom'.tab = d.tab
    BY <2>1, <2>3, <2>5, <2>6, RenderedDocument
  <2> QED
    BY <2>7
<1>2. PanelInv => (RunProgram => dom'.rows.tab = dom'.tab)
  BY <1>1
<1> QED
  BY <1>2, VisitInvariant, PTL DEF RunShowsSelected
=============================================================================
