------------------------------ MODULE IdeFacade ------------------------------
(***************************************************************************)
(* A page of the editor: controllers/ide_facade_controller.ts and the      *)
(* panels of ide/, over the simulator of MMIXSimulator.  One action per    *)
(* event handler.  The handler of the Run button is a RunClicked, the      *)
(* steps of the loop, and a RunReturns: the browser dispatches no other    *)
(* event in between.                                                       *)
(*                                                                         *)
(* The page begins with connect(), and with a WASM module of its own.      *)
(***************************************************************************)
EXTENDS MMIXSimulator

ASSUME PageAssumption == "fit" \in ArgLists

VARIABLES
  phase,           \* moduleAdapterFactory(): "loading", "ready" or "failed"
  editor,          \* the source in the editor
  edited,          \* inputFrame.edited
  output,          \* the text of the output panel
  outputHidden,
  runEnabled,      \* the Run button
  listingOpen,     \* the listing panel is not collapsed
  listingEnabled,  \* the button that toggles it
  listingShown,    \* the text of the listing panel
  argsEnabled,     \* the button that toggles the arguments
  argsShown,       \* the input field of the arguments is of type "text"
  argsValue,       \* its value, by ArgKind
  registersOf,     \* the machine whose registers are rendered: its program and batches
  subpanelsOpen    \* the register subpanels that are open

listingVars == <<listingOpen, listingEnabled, listingShown>>
outputVars == <<output, outputHidden>>
argsVars == <<argsEnabled, argsShown, argsValue>>
registerVars == <<registersOf, subpanelsOpen>>
panelVars == <<outputVars, runEnabled, listingVars, argsVars, registerVars>>
pageVars == <<vars, phase, editor, edited, panelVars>>

Subpanel == {"special", "general"}

-----------------------------------------------------------------------------
(* The panels.                                                             *)

\* Outputs.toString joins the texts: entries without a text leave no trace.
Joined(entries) ==
  IF \A i \in DOMAIN entries : entries[i] = Entry(NoText, NoText) THEN <<>> ELSE entries

\* OutputPanel.setValue shows a text and hides the panel for an empty one.
SetValue(entries) ==
  /\ output' = Joined(entries)
  /\ outputHidden' = (output' = <<>>)

ClearOutput == output' = <<>> /\ outputHidden' = TRUE

\* Listing.default collapses the panel and disables its button: the text stays.
ListingDefault ==
  /\ listingOpen' = FALSE
  /\ listingEnabled' = FALSE
  /\ UNCHANGED listingShown

\* The mutation of ResetArguments: the empty field is no argument at all.
ResetToNoArgument ==
  /\ argsEnabled' = FALSE
  /\ argsShown' = FALSE
  /\ argsValue' = "none"

\* Arguments.clear and Arguments.hide.  The empty field is one empty argument.
ResetArguments ==
  /\ argsEnabled' = FALSE
  /\ argsShown' = FALSE
  /\ argsValue' = "fit"

\* getRegisters reads the memory of the machine, which no finalize touches.
RenderRegisters == registersOf' = <<prog, done>>

-----------------------------------------------------------------------------
(* connect().                                                              *)

PageInit ==
  /\ Init
  /\ phase = "loading"
  /\ editor \in Sources
  /\ edited = TRUE
  /\ output = <<>> /\ outputHidden = TRUE
  /\ runEnabled = FALSE
  /\ listingOpen = FALSE /\ listingEnabled = FALSE /\ listingShown = NoText
  /\ argsEnabled = FALSE /\ argsShown = FALSE /\ argsValue = "fit"
  /\ registersOf = <<NoFile, 0>>
  /\ subpanelsOpen = {}

\* The promise of connect() is fulfilled.
Loaded ==
  /\ phase = "loading"
  /\ phase' = "ready"
  /\ RenderRegisters
  /\ UNCHANGED <<vars, editor, edited, outputVars, runEnabled, listingVars, argsVars, subpanelsOpen>>

\* It is fulfilled with null, or rejected.
LoadFails ==
  /\ phase = "loading"
  /\ phase' = "failed"
  /\ UNCHANGED <<vars, editor, edited, panelVars>>

-----------------------------------------------------------------------------
(* The event handlers.                                                     *)

\* A mutation of Edit: the Run button stays as it is.
EditKeepingRun(s) ==
  /\ phase = "ready" /\ pc = "idle"
  /\ s # editor
  /\ editor' = s
  /\ edited' = TRUE
  /\ listingOpen' = FALSE
  /\ listingEnabled' = ~edited
  /\ ClearOutput
  /\ ResetArguments
  /\ UNCHANGED <<vars, phase, runEnabled, listingShown, registerVars>>

\* A mutation of Edit: the display is not reset.
EditKeepingOutput(s) ==
  /\ phase = "ready" /\ pc = "idle"
  /\ s # editor
  /\ editor' = s
  /\ edited' = TRUE
  /\ runEnabled' = FALSE
  /\ UNCHANGED <<vars, phase, outputVars, listingVars, argsVars, registerVars>>

\* sourceEdited(), by a change of the text in an editor that has been unlocked.
\* resetDisplay disables the button of the listing, and the first edit since
\* the listing was closed enables it again.
Edit(s) ==
  /\ phase = "ready" /\ pc = "idle"
  /\ s # editor
  /\ editor' = s
  /\ edited' = TRUE
  /\ listingOpen' = FALSE
  /\ listingEnabled' = ~edited
  /\ ClearOutput
  /\ runEnabled' = FALSE
  /\ ResetArguments
  /\ UNCHANGED <<vars, phase, listingShown, registerVars>>

\* assembleUserProgram() without a simulator: a TypeError after the first line.
AssembleTooEarly ==
  /\ phase # "ready"
  /\ ClearOutput
  /\ UNCHANGED <<vars, phase, editor, edited, runEnabled, listingVars, argsVars, registerVars>>

\* A mutation of AssembleAccepted: the listing is read before the assembly.
AcceptedReadingEarly ==
  /\ successfulAssembly'
  /\ ClearOutput
  /\ listingShown' = Decoded(listing)
  /\ listingEnabled' = TRUE
  /\ listingOpen' = ~listingOpen
  /\ runEnabled' = TRUE
  /\ argsEnabled' = TRUE
  /\ UNCHANGED <<argsShown, argsValue>>

AssembleAccepted ==
  /\ successfulAssembly'
  /\ ClearOutput
  /\ listingShown' = Decoded(listing')
  /\ listingEnabled' = TRUE
  /\ listingOpen' = ~listingOpen
  /\ runEnabled' = TRUE
  /\ argsEnabled' = TRUE
  /\ UNCHANGED <<argsShown, argsValue>>

\* A mutation of AssembleRejected: the listing stays.
RejectedKeepingListing ==
  /\ ~successfulAssembly'
  /\ SetValue(out')
  /\ runEnabled' = FALSE
  /\ UNCHANGED <<listingVars, argsVars>>

AssembleRejected ==
  /\ ~successfulAssembly'
  /\ ListingDefault
  /\ SetValue(out')
  /\ runEnabled' = FALSE
  /\ UNCHANGED argsVars

\* assembleUserProgram().
AssembleClicked ==
  /\ phase = "ready"
  /\ Assemble(editor)
  /\ AssembleAccepted \/ AssembleRejected
  /\ UNCHANGED <<phase, editor, edited, registerVars>>

\* toggleListingPanel().
ToggleListing ==
  /\ listingEnabled /\ pc = "idle"
  /\ listingOpen' = ~listingOpen
  /\ edited' = (listingOpen' /\ edited)
  /\ UNCHANGED <<vars, phase, editor, outputVars, runEnabled, listingEnabled, listingShown, argsVars, registerVars>>

\* toggleArguments().
ToggleArguments ==
  /\ argsEnabled /\ pc = "idle"
  /\ argsShown' = ~argsShown
  /\ UNCHANGED <<vars, phase, editor, edited, outputVars, runEnabled, listingVars, argsEnabled, argsValue, registerVars>>

TypeArguments(args) ==
  /\ argsShown /\ pc = "idle"
  /\ argsValue' = args
  /\ UNCHANGED <<vars, phase, editor, edited, outputVars, runEnabled, listingVars, argsEnabled, argsShown, registerVars>>

\* toggleSubpanel(event).
ToggleSubpanel(p) ==
  /\ phase = "ready" /\ pc = "idle"
  /\ subpanelsOpen' = IF p \in subpanelsOpen THEN subpanelsOpen \ {p} ELSE subpanelsOpen \cup {p}
  /\ UNCHANGED <<vars, phase, editor, edited, outputVars, runEnabled, listingVars, argsVars, registersOf>>

\* runUserProgram(), up to the loop, the loop, and what follows it.
RunClicked ==
  /\ phase = "ready" /\ runEnabled
  /\ RunStart(argsValue)
  /\ UNCHANGED <<phase, editor, edited, panelVars>>

RunBatch ==
  /\ LoopBody
  /\ UNCHANGED <<phase, editor, edited, panelVars>>

RunTick ==
  /\ Tick
  /\ UNCHANGED <<phase, editor, edited, panelVars>>

\* The exception leaves the handler.
RunThrows ==
  /\ LoopAbort
  /\ UNCHANGED <<phase, editor, edited, panelVars>>

\* A mutation of RunReturns: the registers are rendered before the run.
RegistersReadEarly ==
  /\ LoopExit
  /\ output' = Joined(out')
  /\ outputHidden' = FALSE
  /\ subpanelsOpen' = Subpanel
  /\ UNCHANGED <<phase, editor, edited, runEnabled, listingVars, argsVars, registersOf>>

RunReturns ==
  /\ LoopExit
  /\ output' = Joined(out')
  /\ outputHidden' = FALSE
  /\ RenderRegisters
  /\ subpanelsOpen' = Subpanel
  /\ UNCHANGED <<phase, editor, edited, runEnabled, listingVars, argsVars>>

PageNext ==
  \/ Loaded
  \/ LoadFails
  \/ \E s \in Sources : Edit(s)
  \/ AssembleTooEarly
  \/ AssembleClicked
  \/ ToggleListing
  \/ ToggleArguments
  \/ \E args \in ArgLists : TypeArguments(args)
  \/ \E p \in Subpanel : ToggleSubpanel(p)
  \/ RunClicked
  \/ RunBatch
  \/ RunTick
  \/ RunThrows
  \/ RunReturns

PageSpec == PageInit /\ [][PageNext]_pageVars

\* The handler of the Run button is carried on, and time goes by while it is.
PageFairness ==
  /\ WF_pageVars(RunBatch \/ RunThrows \/ RunReturns)
  /\ WF_pageVars(RunTick)

FairPageSpec == PageSpec /\ PageFairness

-----------------------------------------------------------------------------
(***************************************************************************)
(* Properties.                                                             *)
(***************************************************************************)

\* Every variable of the page holds a value of its type.
PageTypeOK ==
  /\ phase \in {"loading", "ready", "failed"}
  /\ editor \in Sources
  /\ edited \in BOOLEAN
  /\ output \in Seq(Shown)
  /\ outputHidden \in BOOLEAN
  /\ runEnabled \in BOOLEAN
  /\ listingOpen \in BOOLEAN
  /\ listingEnabled \in BOOLEAN
  /\ listingShown \in Texts
  /\ argsEnabled \in BOOLEAN
  /\ argsShown \in BOOLEAN
  /\ argsValue \in ArgLists
  /\ registersOf \in Code \X Nat
  /\ subpanelsOpen \subseteq Subpanel

\* The Run button can only be pressed when the text in the editor, unchanged, is
\* what assemble() was last given, with success, and then the object file that
\* initializeMMIX loads is that of the text.  For the empty text nothing has been
\* assembled, and the object file is what an earlier assembly has left.
RunIsOfTheEditor ==
  runEnabled =>
    /\ phase = "ready" /\ successfulAssembly /\ source = editor
    /\ editor # Empty => mmoNamed /\ mmo = editor

\* The texts among the entries that are of a source are of source s.
About(entries, s) ==
  \A i \in DOMAIN entries : {entries[i].err.of, entries[i].out.of} \subseteq {s, NoFile}

\* What the output panel shows is the simulator's latest output, displayed beside the
\* text that assemble() was last given.  When that text is not empty and fits the
\* buffer, what is displayed is its diagnostics or what it prints, and nothing of
\* another source.  (After the empty text Run shows what an earlier program prints,
\* and a text too long is answered with the error text of an earlier call.)
OutputIsOfTheEditor ==
  output # <<>> =>
    /\ output = Joined(out) /\ source = editor
    /\ editor \in Program \cup Faulty => About(output, editor)

\* An open listing beside the text that assemble() was last given is the listing that
\* the module delivers: closed, edited over and opened again, it is the latest one.
\* (For the empty text, which the module is not given, that of an earlier program.)
ListingIsOfTheEditor ==
  listingOpen /\ successfulAssembly /\ source = editor => listingShown = Decoded(listing)

\* The errors of a failed assembly are never displayed beside a listing.
ErrorsWithoutListing ==
  output # <<>> /\ ~successfulAssembly => ~listingOpen /\ ~listingEnabled

\* assembler.c: "no success -> no listing to read", and the test "assembling bad
\* code": after a failed assembly, and until one succeeds, the page offers no
\* listing.
NoListingOfAFailure ==
  ~successfulAssembly => ~listingOpen /\ ~listingEnabled

\* The output and the registers on display are of the same run.
RegistersMatchOutput ==
  pc = "idle" /\ output # <<>> /\ successfulAssembly
    => registersOf = <<prog, done>> /\ prog = editor

\* Whoever presses Run gets to see an output panel.
RunEndsVisibly == pc = "loop" ~> pc = "idle" /\ ~outputHidden
=============================================================================
