--------------------------- MODULE IdeFacade_proofs ---------------------------
(***************************************************************************)
(* Theorems about a page of the editor and their proofs.  Every step of a  *)
(* page is a step of its simulator, or leaves the simulator alone: what    *)
(* MMIXSimulator_proofs shows of a session therefore holds on the page.    *)
(***************************************************************************)
EXTENDS IdeFacade, MMIXSimulator_proofs

\* The handlers that do not call the simulator leave all of its variables alone.
LEMMA PageStepIsSessionStep == PageTypeOK /\ [PageNext]_pageVars => [Next]_vars
<1> SUFFICES ASSUME PageTypeOK, [PageNext]_pageVars PROVE [Next]_vars
  OBVIOUS
<1>1. CASE Loaded \/ LoadFails \/ AssembleTooEarly
  BY <1>1 DEF Loaded, LoadFails, AssembleTooEarly
<1>2. ASSUME NEW s \in Sources, Edit(s) PROVE [Next]_vars
  BY <1>2 DEF Edit
<1>3. CASE ToggleListing \/ ToggleArguments
  BY <1>3 DEF ToggleListing, ToggleArguments
<1>4. ASSUME NEW args \in ArgLists, TypeArguments(args) PROVE [Next]_vars
  BY <1>4 DEF TypeArguments
<1>5. ASSUME NEW p \in Subpanel, ToggleSubpanel(p) PROVE [Next]_vars
  BY <1>5 DEF ToggleSubpanel
<1>6. CASE RunBatch \/ RunTick \/ RunThrows \/ RunReturns
  BY <1>6 DEF RunBatch, RunTick, RunThrows, RunReturns, Next
<1>7. CASE AssembleClicked
  BY <1>7 DEF AssembleClicked, PageTypeOK, Next
<1>8. CASE RunClicked
  BY <1>8 DEF RunClicked, PageTypeOK, Next
<1>9. CASE UNCHANGED pageVars
  BY <1>9 DEF pageVars
<1>10. QED
  BY <1>1, <1>2, <1>3, <1>4, <1>5, <1>6, <1>7, <1>8, <1>9 DEF PageNext

-----------------------------------------------------------------------------
(* Types.                                                                  *)

LEMMA PanelTypes ==
  ASSUME TypeOK
  PROVE  /\ <<>> \in Seq(Shown)
         /\ \A entries \in Seq(Shown) : Joined(entries) \in Seq(Shown)
         /\ \A text \in Texts : Decoded(text) \in Texts
         /\ <<prog, done>> \in Code \X Nat
         /\ NoText \in Texts
<1>1. <<>> \in Seq(Shown)
  OBVIOUS
<1>2. \A entries \in Seq(Shown) : Joined(entries) \in Seq(Shown)
  BY <1>1 DEF Joined
<1>3. NoText \in Texts
  BY TextTypes
<1>4. \A text \in Texts : Decoded(text) \in Texts
  BY <1>3 DEF Decoded
<1>5. <<prog, done>> \in Code \X Nat
  BY DEF TypeOK, GlueTypeOK
<1>6. QED
  BY <1>1, <1>2, <1>3, <1>4, <1>5

LEMMA PageTypeOKInit == PageInit => PageTypeOK
<1> SUFFICES ASSUME PageInit PROVE PageTypeOK
  OBVIOUS
<1>1. TypeOK
  BY TypeOKInit DEF PageInit
<1>2. output \in Seq(Shown) /\ listingShown \in Texts
  BY <1>1, PanelTypes DEF PageInit
<1>3. registersOf \in Code \X Nat
  BY DEF PageInit, Code
<1>4. argsValue \in ArgLists
  BY PageAssumption DEF PageInit
<1>5. QED
  BY <1>2, <1>3, <1>4 DEF PageInit, PageTypeOK

LEMMA PageTypeOKStep == TypeOK /\ PageTypeOK /\ [PageNext]_pageVars => PageTypeOK'
<1> SUFFICES ASSUME TypeOK, PageTypeOK, [PageNext]_pageVars PROVE PageTypeOK'
  OBVIOUS
<1>0. TypeOK'
  BY PageStepIsSessionStep, TypeOKStep
<1>1. CASE Loaded
  BY <1>1, PanelTypes DEF Loaded, RenderRegisters, PageTypeOK, outputVars, listingVars, argsVars
<1>2. CASE LoadFails
  BY <1>2 DEF LoadFails, PageTypeOK, panelVars, outputVars, listingVars, argsVars, registerVars
<1>3. ASSUME NEW s \in Sources, Edit(s) PROVE PageTypeOK'
  BY <1>3, PanelTypes, PageAssumption DEF Edit, ClearOutput, ResetArguments, PageTypeOK, registerVars
<1>4. CASE AssembleTooEarly
  BY <1>4, PanelTypes DEF AssembleTooEarly, ClearOutput, PageTypeOK, listingVars, argsVars, registerVars
<1>5. CASE AssembleClicked /\ AssembleAccepted
  <2>1. listingShown' \in Texts
    BY <1>0, <1>5, PanelTypes DEF AssembleAccepted, TypeOK, GlueTypeOK
  <2>2. QED
    BY <1>5, <2>1, PanelTypes
       DEF AssembleClicked, AssembleAccepted, ClearOutput, PageTypeOK, registerVars
<1>6. CASE AssembleClicked /\ AssembleRejected
  <2>1. output' \in Seq(Shown)
    BY <1>0, <1>6, PanelTypes DEF AssembleRejected, SetValue, TypeOK
  <2>2. outputHidden' \in BOOLEAN
    BY <1>6 DEF AssembleRejected, SetValue
  <2>3. QED
    BY <1>6, <2>1, <2>2
       DEF AssembleClicked, AssembleRejected, ListingDefault, PageTypeOK, argsVars, registerVars
<1>7. CASE ToggleListing
  BY <1>7 DEF ToggleListing, PageTypeOK, outputVars, argsVars, registerVars
<1>8. CASE ToggleArguments
  BY <1>8 DEF ToggleArguments, PageTypeOK, outputVars, listingVars, registerVars
<1>9. ASSUME NEW args \in ArgLists, TypeArguments(args) PROVE PageTypeOK'
  BY <1>9 DEF TypeArguments, PageTypeOK, outputVars, listingVars, registerVars
<1>10. ASSUME NEW p \in Subpanel, ToggleSubpanel(p) PROVE PageTypeOK'
  BY <1>10 DEF ToggleSubpanel, PageTypeOK, outputVars, listingVars, argsVars
<1>11. CASE RunClicked \/ RunBatch \/ RunTick \/ RunThrows
  BY <1>11 DEF RunClicked, RunBatch, RunTick, RunThrows, PageTypeOK,
               panelVars, outputVars, listingVars, argsVars, registerVars
<1>12. CASE RunReturns
  <2>1. output' \in Seq(Shown)
    BY <1>0, <1>12, PanelTypes DEF RunReturns, TypeOK
  <2>2. registersOf' \in Code \X Nat
    BY <1>12, PanelTypes DEF RunReturns, RenderRegisters
  <2>3. QED
    BY <1>12, <2>1, <2>2 DEF RunReturns, PageTypeOK, listingVars, argsVars
<1>13. CASE UNCHANGED pageVars
  BY <1>13 DEF PageTypeOK, pageVars, panelVars, outputVars, listingVars, argsVars, registerVars
<1>14. QED
  BY <1>1, <1>2, <1>3, <1>4, <1>5, <1>6, <1>7, <1>8, <1>9, <1>10, <1>11, <1>12, <1>13
     DEF PageNext, AssembleClicked

\* The variables of a page and of its simulator always have their types, for all
\* programs, sources, arguments and clocks.
THEOREM PageTypeCorrect == PageSpec => [](TypeOK /\ PageTypeOK)
<1>1. PageInit => TypeOK /\ PageTypeOK
  BY TypeOKInit, PageTypeOKInit DEF PageInit
<1>2. TypeOK /\ PageTypeOK /\ [PageNext]_pageVars => TypeOK' /\ PageTypeOK'
  BY PageStepIsSessionStep, TypeOKStep, PageTypeOKStep
<1>3. QED
  BY <1>1, <1>2, PTL DEF PageSpec

\* A page is a session of its simulator: whatever the user presses, and in
\* whatever order, the calls of the page are calls the session allows.
THEOREM PageIsASession == PageSpec => Spec
<1>1. PageInit => Init
  BY DEF PageInit
<1>2. TypeOK /\ PageTypeOK /\ [PageNext]_pageVars => [Next]_vars
  BY PageStepIsSessionStep
<1>3. QED
  BY <1>1, <1>2, PageTypeCorrect, PTL DEF PageSpec, Spec

-----------------------------------------------------------------------------
(***************************************************************************)
(* What the panels show belongs to the text in the editor.  The invariant  *)
(* needs the fourth conjunct for the end of a run: the button that started *)
(* it is still enabled then, so the text is still the one assembled.  What *)
(* the run then shows is by AdverseInv what the program of the object file *)
(* has printed.                                                            *)
(***************************************************************************)
RunningIsEnabled == pc = "loop" => runEnabled

PageInv ==
  /\ RunIsOfTheEditor
  /\ OutputIsOfTheEditor
  /\ ErrorsWithoutListing
  /\ RunningIsEnabled

\* What the end of a run shows is of the source assembled.
LEMMA ExitIsAbout ==
  ASSUME AdverseInv, LoopExit, successfulAssembly, source \in Program \cup Faulty
  PROVE  About(out', source)
<1>1. source # Empty
  BY SessionAssumption
<1>2. mmo = source
  BY <1>1 DEF AdverseInv, FileOfTheSource
<1>3. CASE out' = TimeoutReport
  BY <1>3 DEF About, TimeoutReport, Entry, TimeoutText, NoText, Text
<1>4. CASE out' = Delivered(prog, done) /\ prog = mmo
  <2>1. ASSUME NEW i \in DOMAIN out'
        PROVE  out'[i] = Entry(ErrOf(source, i), OutOf(source, i))
    BY <1>2, <1>4, <2>1 DEF Delivered
  <2>2. \A k : ErrOf(source, k).of \in {source, NoFile} /\ OutOf(source, k).of \in {source, NoFile}
    BY DEF ErrOf, OutOf, PrintedErr, PrintedOut, Prints, Asserted, NoText, Text
  <2> QED
    BY <2>1, <2>2 DEF About, Entry
<1>5. CASE Blank(out')
  BY <1>5 DEF Blank, About, Entry, NoText, Text
<1> QED
  BY <1>3, <1>4, <1>5, AdverseExit

\* A failed assembly shows the diagnostics of its source, unless this is too long.
LEMMA FailureIsAbout ==
  ASSUME NEW s \in Program \cup Faulty, Assemble(s), ~successfulAssembly'
  PROVE  About(out', s)
<1>1. s # Empty /\ s \notin TooLong
  BY SessionAssumption, SourceAssumption
<1>2. s \notin Program
  BY DEF Assemble, AssembleMMIXALReturns, AssembleReturnsZero
<1>3. stderrText' = Captured(Diagnostics(s))
  BY <1>1, <1>2 DEF Assemble, AssembleMMIXAL, AssembleSource, AssembleFaulty
<1>4. Decoded(stderrText').of \in {s, NoFile}
  BY <1>3 DEF Captured, Decoded, Diagnostics, Lost, NoText, Text
<1>5. out' = FailureReport(stderrText')
  BY DEF Assemble
<1> QED
  BY <1>4, <1>5 DEF About, FailureReport, Entry, NoText, Text

\* Joined(entries) is entries or nothing.
LEMMA JoinedIsAbout == ASSUME NEW entries, NEW s, About(entries, s) PROVE About(Joined(entries), s)
BY DEF About, Joined

LEMMA PageInvInit == PageInit => PageInv
BY DEF PageInit, Init, PageInv, RunIsOfTheEditor, OutputIsOfTheEditor, ErrorsWithoutListing, RunningIsEnabled

\* The handlers that leave the simulator alone, one by one.
LEMMA PageInvQuiet ==
  ASSUME PageInv, UNCHANGED vars,
         \/ Loaded \/ LoadFails \/ AssembleTooEarly
         \/ \E s \in Sources : Edit(s)
         \/ ToggleListing \/ ToggleArguments
         \/ \E args \in ArgLists : TypeArguments(args)
         \/ \E p \in Subpanel : ToggleSubpanel(p)
  PROVE  PageInv'
<1> USE DEF PageInv, RunIsOfTheEditor, OutputIsOfTheEditor, ErrorsWithoutListing, RunningIsEnabled
<1>0. UNCHANGED <<pc, source, successfulAssembly, out, mmo, mmoNamed>>
  BY DEF vars, glueVars, fileVars
<1>1. CASE Loaded
  BY <1>0, <1>1 DEF Loaded, outputVars, listingVars, Joined, About
<1>2. CASE LoadFails
  BY <1>0, <1>2 DEF LoadFails, panelVars, outputVars, listingVars, Joined, About
<1>3. CASE AssembleTooEarly
  BY <1>0, <1>3 DEF AssembleTooEarly, ClearOutput, listingVars
<1>4. ASSUME NEW s \in Sources, Edit(s) PROVE PageInv'
  BY <1>0, <1>4 DEF Edit, ClearOutput
<1>5. CASE ToggleListing
  BY <1>0, <1>5 DEF ToggleListing, outputVars, Joined, About
<1>6. CASE ToggleArguments
  BY <1>0, <1>6 DEF ToggleArguments, outputVars, listingVars, Joined, About
<1>7. ASSUME NEW args \in ArgLists, TypeArguments(args) PROVE PageInv'
  BY <1>0, <1>7 DEF TypeArguments, outputVars, listingVars, Joined, About
<1>8. ASSUME NEW p \in Subpanel, ToggleSubpanel(p) PROVE PageInv'
  BY <1>0, <1>8 DEF ToggleSubpanel, outputVars, listingVars, Joined, About
<1>9. QED
  BY <1>1, <1>2, <1>3, <1>4, <1>5, <1>6, <1>7, <1>8

LEMMA PageInvStep == AdverseInv /\ PageTypeOK /\ PageInv /\ [PageNext]_pageVars => PageInv'
<1> SUFFICES ASSUME AdverseInv, PageTypeOK, PageInv, [PageNext]_pageVars PROVE PageInv'
  OBVIOUS
<1> USE DEF PageInv, RunIsOfTheEditor, OutputIsOfTheEditor, ErrorsWithoutListing, RunningIsEnabled
<1>1. CASE Loaded \/ LoadFails \/ AssembleTooEarly
  BY <1>1, PageInvQuiet DEF Loaded, LoadFails, AssembleTooEarly
<1>2. ASSUME NEW s \in Sources, Edit(s) PROVE PageInv'
  BY <1>2, PageInvQuiet DEF Edit
<1>3. CASE ToggleListing \/ ToggleArguments
  BY <1>3, PageInvQuiet DEF ToggleListing, ToggleArguments
<1>4. ASSUME NEW args \in ArgLists, TypeArguments(args) PROVE PageInv'
  BY <1>4, PageInvQuiet DEF TypeArguments
<1>5. ASSUME NEW p \in Subpanel, ToggleSubpanel(p) PROVE PageInv'
  BY <1>5, PageInvQuiet DEF ToggleSubpanel
<1>6. CASE AssembleClicked
  <2>1. pc = "idle" /\ pc' = "idle" /\ source' = editor /\ phase = "ready" /\ Assemble(editor)
        /\ UNCHANGED <<phase, editor>>
    BY <1>6 DEF AssembleClicked, Assemble
  <2>2. CASE AssembleAccepted
    <3>1. editor # Empty => mmoNamed' /\ mmo' = editor
      BY <1>6, <2>1, <2>2, AdverseInvStep DEF AssembleClicked, AssembleAccepted, PageTypeOK, Next,
            AdverseInv, FileOfTheSource
    <3> QED
      BY <1>6, <2>1, <2>2, <3>1 DEF AssembleClicked, AssembleAccepted, ClearOutput
  <2>3. CASE AssembleRejected
    <3>1. output' = Joined(out') /\ ~successfulAssembly' /\ ~runEnabled'
          /\ ~listingOpen' /\ ~listingEnabled'
      BY <2>3 DEF AssembleRejected, ListingDefault, SetValue
    <3>2. ASSUME editor \in Program \cup Faulty PROVE About(output', editor)
      BY <2>1, <3>1, <3>2, FailureIsAbout, JoinedIsAbout
    <3>3. OutputIsOfTheEditor'
      BY <2>1, <3>1, <3>2 DEF OutputIsOfTheEditor
    <3> QED
      BY <2>1, <3>1, <3>3
  <2>4. QED
    BY <1>6, <2>2, <2>3 DEF AssembleClicked
<1>7. CASE RunClicked
  BY <1>7 DEF RunClicked, RunStart, InitializeMMIX, Initialize, glueVars, fileVars, panelVars,
              outputVars, listingVars, Joined, About
<1>8. CASE RunBatch
  BY <1>8 DEF RunBatch, LoopBody, PerformReturns, PerformRefused, PerformUninitialized,
              PerformHalted, PerformBatch, glueVars, fileVars, panelVars, outputVars, listingVars,
              Joined, About
<1>9. CASE RunTick
  BY <1>9 DEF RunTick, Tick, glueVars, fileVars, panelVars, outputVars, listingVars, Joined, About
<1>10. CASE RunThrows
  BY <1>10 DEF RunThrows, LoopAbort, PerformAborts, fileVars, panelVars, outputVars, listingVars,
               Joined, About
<1>11. CASE RunReturns
  <2>1. pc = "loop" /\ pc' = "idle" /\ LoopExit
        /\ UNCHANGED <<source, successfulAssembly, editor, phase, runEnabled, mmo, mmoNamed>>
    BY <1>11 DEF RunReturns, LoopExit, Finalize, fileVars
  <2>2. runEnabled /\ successfulAssembly /\ source = editor /\ phase = "ready"
    BY <2>1
  <2>3. output' = Joined(out')
    BY <1>11 DEF RunReturns
  <2>4. ASSUME editor \in Program \cup Faulty PROVE About(output', editor)
    BY <2>1, <2>2, <2>3, <2>4, ExitIsAbout, JoinedIsAbout
  <2>5. OutputIsOfTheEditor'
    BY <2>1, <2>2, <2>3, <2>4 DEF OutputIsOfTheEditor
  <2>6. RunIsOfTheEditor'
    BY <2>1, <2>2 DEF RunIsOfTheEditor
  <2>7. QED
    BY <2>1, <2>2, <2>5, <2>6
<1>12. CASE UNCHANGED pageVars
  BY <1>12 DEF pageVars, vars, glueVars, fileVars, panelVars, outputVars, listingVars, Joined, About
<1>13. QED
  BY <1>1, <1>2, <1>3, <1>4, <1>5, <1>6, <1>7, <1>8, <1>9, <1>10, <1>11, <1>12 DEF PageNext

\* For every order of the user's events and whatever goes wrong in the simulator, Run is
\* enabled only for the text last passed to assemble(), whose object file, unless it is
\* empty, is then in place; the output is the simulator's latest, with no text of another
\* source unless the editor is empty or its text too long; and errors never stand beside
\* a listing.
THEOREM PanelsFollowTheEditor ==
  PageSpec => [](RunIsOfTheEditor /\ OutputIsOfTheEditor /\ ErrorsWithoutListing)
<1>1. PageInv => RunIsOfTheEditor /\ OutputIsOfTheEditor /\ ErrorsWithoutListing
  BY DEF PageInv
<1>2. PageInit => AdverseInv /\ PageInv
  BY PageInvInit, AdverseInvInit DEF PageInit
<1>3. AdverseInv /\ [Next]_vars => AdverseInv'
  BY AdverseInvStep
<1>4. TypeOK /\ PageTypeOK /\ [PageNext]_pageVars => [Next]_vars
  BY PageStepIsSessionStep
<1>5. AdverseInv /\ PageTypeOK /\ PageInv /\ [PageNext]_pageVars => PageInv'
  BY PageInvStep
<1>6. QED
  BY <1>1, <1>2, <1>3, <1>4, <1>5, PageTypeCorrect, PTL DEF PageSpec

\* Within the limits of the code, what the loop of simulateWithTimeout executes is the
\* very text in the editor.
RunsTheEditor == pc = "loop" => simInit /\ prog = editor

THEOREM RunExecutesTheEditor ==
  ASSUME WellBehaved
  PROVE  PageSpec => []RunsTheEditor
<1>1. Spec => [](TrueMeansAssembled /\ FailureShowsItsErrors /\ LoopIsInitialized)
  BY SessionIsSound
<1>2. Spec => [](NothingLeftBehind /\ LogIsTheRun)
  BY RunsAreClean DEF WellBehaved
<1>3. PageInv /\ TrueMeansAssembled /\ LoopIsInitialized /\ LogIsTheRun => RunsTheEditor
  BY DEF PageInv, RunningIsEnabled, RunIsOfTheEditor, TrueMeansAssembled, LoopIsInitialized,
         LogIsTheRun, RunsTheEditor
<1>4. PageInit => AdverseInv /\ PageInv
  BY PageInvInit, AdverseInvInit DEF PageInit
<1>5. AdverseInv /\ [Next]_vars => AdverseInv'
  BY AdverseInvStep
<1>6. TypeOK /\ PageTypeOK /\ [PageNext]_pageVars => [Next]_vars
  BY PageStepIsSessionStep
<1>7. AdverseInv /\ PageTypeOK /\ PageInv /\ [PageNext]_pageVars => PageInv'
  BY PageInvStep
<1>8. QED
  BY <1>1, <1>2, <1>3, <1>4, <1>5, <1>6, <1>7, PageIsASession, PageTypeCorrect, PTL DEF PageSpec

\* resetDisplay, assembleUserProgram and runUserProgram: what the output panel shows
\* is the latest output for the text last assembled, which is still in the editor, and
\* nothing of another source, unless the editor is empty or its text too long.
THEOREM OutputFollowsTheEditor == PageSpec => []OutputIsOfTheEditor
BY PanelsFollowTheEditor, PTL

\* _showErrors: the errors of an assembly never stand beside a listing.
THEOREM ErrorsStandAlone == PageSpec => []ErrorsWithoutListing
BY PanelsFollowTheEditor, PTL

-----------------------------------------------------------------------------
(***************************************************************************)
(* The listing.  An edit closes the panel and keeps its text, and its      *)
(* button opens it again: what holds is that the text is that of the       *)
(* module's last success, whatever is in the editor meanwhile.             *)
(***************************************************************************)
ListingFollows == successfulAssembly => listingShown = Decoded(listing)

LEMMA ListingStep == ListingFollows /\ [PageNext]_pageVars => ListingFollows'
<1> SUFFICES ASSUME ListingFollows, [PageNext]_pageVars PROVE ListingFollows'
  OBVIOUS
<1>1. ASSUME UNCHANGED <<successfulAssembly, listing, listingShown>> PROVE ListingFollows'
  BY <1>1 DEF ListingFollows
<1>2. CASE AssembleClicked
  BY <1>2 DEF AssembleClicked, AssembleAccepted, AssembleRejected, ListingFollows
<1>3. CASE Loaded \/ LoadFails \/ AssembleTooEarly \/ ToggleListing \/ ToggleArguments
  BY <1>1, <1>3 DEF Loaded, LoadFails, AssembleTooEarly, ToggleListing, ToggleArguments, vars,
                    glueVars, fileVars, panelVars, listingVars
<1>4. ASSUME NEW s \in Sources, Edit(s) PROVE ListingFollows'
  BY <1>1, <1>4 DEF Edit, vars, glueVars, fileVars
<1>5. CASE (\E args \in ArgLists : TypeArguments(args)) \/ (\E p \in Subpanel : ToggleSubpanel(p))
  BY <1>1, <1>5 DEF TypeArguments, ToggleSubpanel, vars, glueVars, fileVars, listingVars
<1>6. CASE RunClicked
  BY <1>1, <1>6 DEF RunClicked, RunStart, InitializeMMIX, Initialize, glueVars, fileVars, panelVars,
                    listingVars
<1>7. CASE RunBatch
  BY <1>1, <1>7 DEF RunBatch, LoopBody, PerformReturns, PerformRefused, PerformUninitialized,
                    PerformHalted, PerformBatch, glueVars, fileVars, panelVars, listingVars
<1>8. CASE RunTick \/ RunThrows \/ RunReturns
  BY <1>1, <1>8 DEF RunTick, Tick, RunThrows, LoopAbort, PerformAborts, RunReturns, LoopExit, Finalize,
                    glueVars, fileVars, panelVars, listingVars
<1>9. CASE UNCHANGED pageVars
  BY <1>1, <1>9 DEF pageVars, vars, glueVars, fileVars, panelVars, listingVars
<1> QED
  BY <1>2, <1>3, <1>4, <1>5, <1>6, <1>7, <1>8, <1>9 DEF PageNext

\* listing.ts: an open listing beside the text that assemble() was last given is the one
\* the module delivers, however often it was closed, edited over and opened again.
THEOREM ListingsAreOfTheEditor == PageSpec => []ListingIsOfTheEditor
<1>1. PageInit => ListingFollows
  BY DEF PageInit, Init, ListingFollows
<1>2. ListingFollows => ListingIsOfTheEditor
  BY DEF ListingFollows, ListingIsOfTheEditor
<1> QED
  BY <1>1, <1>2, ListingStep, PTL DEF PageSpec

-----------------------------------------------------------------------------
(***************************************************************************)
(* The registers beside the output.  The end of a run renders both; until  *)
(* then, and after it, the invariants of the session and of the panels say *)
(* whose program that was.                                                 *)
(***************************************************************************)

LEMMA RegistersStep ==
  WellBehaved /\ SessionInv /\ PageInv /\ RegistersMatchOutput /\ [PageNext]_pageVars
    => RegistersMatchOutput'
<1> SUFFICES ASSUME WellBehaved, SessionInv, PageInv, RegistersMatchOutput, [PageNext]_pageVars
             PROVE  RegistersMatchOutput'
  OBVIOUS
<1>1. ASSUME output' = <<>> \/ pc' # "idle" \/ ~successfulAssembly' PROVE RegistersMatchOutput'
  BY <1>1 DEF RegistersMatchOutput
<1>2. ASSUME UNCHANGED <<pc, output, successfulAssembly, registersOf, prog, done, editor>>
      PROVE  RegistersMatchOutput'
  BY <1>2 DEF RegistersMatchOutput
<1>3. CASE Loaded
  BY <1>3 DEF Loaded, RenderRegisters, outputVars, vars, glueVars, machineVars, RegistersMatchOutput
<1>4. CASE LoadFails \/ ToggleListing \/ ToggleArguments
  BY <1>2, <1>4 DEF LoadFails, ToggleListing, ToggleArguments, vars, glueVars, machineVars, panelVars,
                    outputVars, registerVars
<1>5. CASE AssembleTooEarly
  BY <1>1, <1>5 DEF AssembleTooEarly, ClearOutput
<1>6. ASSUME NEW s \in Sources, Edit(s) PROVE RegistersMatchOutput'
  BY <1>1, <1>6 DEF Edit, ClearOutput
<1>7. CASE AssembleClicked
  BY <1>1, <1>7 DEF AssembleClicked, AssembleAccepted, AssembleRejected, ClearOutput
<1>8. CASE (\E args \in ArgLists : TypeArguments(args)) \/ (\E p \in Subpanel : ToggleSubpanel(p))
  BY <1>2, <1>8 DEF TypeArguments, ToggleSubpanel, vars, glueVars, machineVars, outputVars, registerVars
<1>9. CASE RunClicked \/ RunBatch \/ RunTick
  BY <1>1, <1>9 DEF RunClicked, RunStart, RunBatch, LoopBody, RunTick, Tick
<1>10. CASE RunThrows
  BY <1>10 DEF RunThrows, LoopAbort, PerformAborts, AbortsNext, WellBehaved, NothingAborts
<1>11. CASE RunReturns
  <2>1. /\ pc = "loop" /\ UNCHANGED <<prog, done, editor>> /\ registersOf' = <<prog, done>>
    BY <1>11 DEF RunReturns, RenderRegisters, LoopExit, Finalize, machineVars
  <2>2. prog = mmo /\ mmo = source
    BY <2>1 DEF SessionInv, LoopIsInitialized, RunInv, LogIsTheRun, RunsTheAccepted, TrueMeansAssembled
  <2>3. source = editor
    BY <2>1 DEF PageInv, RunningIsEnabled, RunIsOfTheEditor
  <2> QED
    BY <2>1, <2>2, <2>3 DEF RegistersMatchOutput
<1>12. CASE UNCHANGED pageVars
  BY <1>2, <1>12 DEF pageVars, vars, glueVars, machineVars, panelVars, outputVars, registerVars
<1> QED
  BY <1>3, <1>4, <1>5, <1>6, <1>7, <1>8, <1>9, <1>10, <1>11, <1>12 DEF PageNext

\* runUserProgram: the registers and the output on display are of the same run of
\* the text in the editor.
THEOREM RegistersAreOfTheOutput ==
  ASSUME WellBehaved
  PROVE  PageSpec => []RegistersMatchOutput
<1>1. PageInit => SessionInv /\ AdverseInv /\ PageInv /\ RegistersMatchOutput
  BY SessionInvInit, AdverseInvInit, PageInvInit DEF PageInit, RegistersMatchOutput
<1>2. SessionInv /\ [Next]_vars => SessionInv'
  BY WellBehaved, SessionInvStep
<1>3. AdverseInv /\ PageTypeOK /\ PageInv /\ [PageNext]_pageVars => PageInv'
  BY PageInvStep
<1>4. SessionInv /\ PageInv /\ RegistersMatchOutput /\ [PageNext]_pageVars => RegistersMatchOutput'
  BY WellBehaved, RegistersStep
<1>5. TypeOK /\ PageTypeOK /\ [PageNext]_pageVars => [Next]_vars
  BY PageStepIsSessionStep
<1>6. AdverseInv /\ [Next]_vars => AdverseInv'
  BY AdverseInvStep
<1> QED
  BY <1>1, <1>2, <1>3, <1>4, <1>5, <1>6, PageTypeCorrect, PTL DEF PageSpec
=============================================================================
