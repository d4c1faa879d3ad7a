------------------------ MODULE MMIXSimulator_proofs ------------------------
(***************************************************************************)
(* Theorems about a simulator session, for all sets of programs, sources   *)
(* and argument lists, every timeout and every speed of the machine.       *)
(***************************************************************************)
EXTENDS MMIXSimulator, TLAPS

-----------------------------------------------------------------------------
(* Types.                                                                  *)

\* The texts the module produces are texts.
LEMMA TextTypes ==
  /\ \A kind \in TextKind, of \in Code \cup Faulty, n \in Nat : Text(kind, of, n) \in Texts
  /\ {NoText, Lost, Assertion, Garbled, TimeoutText} \subseteq Texts
  /\ \A s \in Faulty : Diagnostics(s) \in Texts
  /\ \A p \in Code, n \in Nat : ErrOf(p, n) \in Texts /\ OutOf(p, n) \in Texts
<1>1. \A kind \in TextKind, of \in Code \cup Faulty, n \in Nat : Text(kind, of, n) \in Texts
  BY DEF Text, Texts
<1>2. NoFile \in Code
  BY DEF Code
<1>3. {NoText, Lost, Assertion, Garbled, TimeoutText} \subseteq Texts
  BY <1>1, <1>2 DEF NoText, Lost, Assertion, Garbled, TimeoutText, TextKind
<1>4. \A s \in Faulty : Diagnostics(s) \in Texts
  BY <1>1 DEF Diagnostics, TextKind
<1>5. \A p \in Code, n \in Nat : ErrOf(p, n) \in Texts /\ OutOf(p, n) \in Texts
  BY <1>1, <1>3 DEF ErrOf, OutOf, PrintedErr, PrintedOut, Prints, Asserted, TextKind
<1>6. QED
  BY <1>1, <1>3, <1>4, <1>5

\* A captured, a borrowed and an overrun text are texts.
LEMMA CapturedTypes ==
  ASSUME GlueTypeOK, NEW text \in Texts
  PROVE  /\ Captured(text) \in Texts
         /\ Overrun(text) \in Texts
         /\ \A withArgs \in BOOLEAN : Borrowed(text, withArgs) \in Texts
BY TextTypes DEF Captured, Overrun, Borrowed

\* Each function of the module preserves its types.
LEMMA AssembleSourceTypes ==
  ASSUME GlueTypeOK, NEW s, AssembleSource(s)
  PROVE  GlueTypeOK'
<1>1. CASE s \in TooLong /\ AssembleTooLong
  <2>1. listing' \in Texts
    BY <1>1, CapturedTypes DEF AssembleTooLong, GlueTypeOK
  <2>2. QED
    BY <1>1, <2>1 DEF AssembleTooLong, GlueTypeOK, textVars, machineVars
<1>2. CASE s \in Faulty /\ AssembleFaulty(s)
  <2>1. stderrText' \in Texts /\ listing' \in Texts
    BY <1>2, TextTypes, CapturedTypes DEF AssembleFaulty
  <2>2. mmo' \in Code
    BY <1>2 DEF AssembleFaulty, Code
  <2>3. QED
    BY <1>2, <2>1, <2>2 DEF AssembleFaulty, GlueTypeOK, machineVars
<1>3. CASE s \in Program /\ AssembleProgram(s)
  <2>1. Text("listing", s, 0) \in Texts
    BY <1>3, TextTypes DEF Code, TextKind
  <2>2. stderrText' \in Texts /\ listing' \in Texts
    BY <1>3, <2>1, TextTypes, CapturedTypes DEF AssembleProgram
  <2>3. mmo' \in Code
    BY <1>3 DEF AssembleProgram, Code
  <2>4. QED
    BY <1>3, <2>2, <2>3 DEF AssembleProgram, GlueTypeOK, machineVars
<1>4. QED
  BY <1>1, <1>2, <1>3 DEF AssembleSource

LEMMA InitializeTypes ==
  ASSUME GlueTypeOK, NEW withArgs \in BOOLEAN, Initialize(withArgs)
  PROVE  GlueTypeOK'
<1>1. stderrText' \in Texts
  BY CapturedTypes DEF Initialize, GlueTypeOK
<1>2. prog' \in Code /\ done' \in Nat /\ halted' \in BOOLEAN
  <2>1. CASE InitializeSucceeds /\ ~simInit
    <3>1. Load
      BY <2>1 DEF Initialize
    <3>2. prog' = mmo /\ done' = 0 /\ halted' = FALSE
      BY <2>1, <3>1 DEF Load
    <3>3. QED
      BY <3>2 DEF GlueTypeOK
  <2>2. CASE InitializeSucceeds /\ simInit
    BY <2>2 DEF Initialize, Load, GlueTypeOK, machineVars
  <2>3. CASE ~InitializeSucceeds
    BY <2>3 DEF Initialize, GlueTypeOK, machineVars
  <2>4. QED
    BY <2>1, <2>2, <2>3 DEF GlueTypeOK
<1>3. initialized' \in {-1, 0, 1} /\ simInit' \in BOOLEAN
  BY DEF Initialize, GlueTypeOK
<1>4. QED
  BY <1>1, <1>2, <1>3 DEF Initialize, GlueTypeOK, fileVars

LEMMA PerformReturnsTypes ==
  ASSUME GlueTypeOK, PerformReturns
  PROVE  GlueTypeOK'
<1>1. CASE PerformRefused
  BY <1>1 DEF PerformRefused, GlueTypeOK, glueVars, fileVars, textVars, machineVars
<1>2. CASE PerformUninitialized
  <2>1. stderrText' \in Texts /\ stdoutText' \in Texts
    BY <1>2, TextTypes, CapturedTypes DEF PerformUninitialized
  <2>2. QED
    BY <1>2, <2>1 DEF PerformUninitialized, GlueTypeOK, fileVars, machineVars
<1>3. CASE PerformHalted
  <2>1. stderrText' \in Texts /\ stdoutText' \in Texts
    BY <1>3, TextTypes, CapturedTypes DEF PerformHalted
  <2>2. QED
    BY <1>3, <2>1 DEF PerformHalted, GlueTypeOK, fileVars, machineVars
<1>4. CASE PerformBatch
  <2>1. ErrOf(prog, done + 1) \in Texts /\ OutOf(prog, done + 1) \in Texts
    BY TextTypes DEF GlueTypeOK
  <2>2. stderrText' \in Texts /\ stdoutText' \in Texts
    BY <1>4, <2>1, CapturedTypes DEF PerformBatch
  <2>3. halted' \in BOOLEAN /\ done' \in Nat
    BY <1>4 DEF PerformBatch, GlueTypeOK
  <2>4. QED
    BY <1>4, <2>2, <2>3 DEF PerformBatch, GlueTypeOK, fileVars
<1>5. QED
  BY <1>1, <1>2, <1>3, <1>4 DEF PerformReturns

LEMMA FinalizeTypes ==
  ASSUME GlueTypeOK, Finalize
  PROVE  GlueTypeOK'
BY DEF Finalize, GlueTypeOK, fileVars, textVars, machineVars

LEMMA EntryTypes ==
  /\ \A err \in Texts, stdout \in Texts : Entry(Decoded(err), Decoded(stdout)) \in Shown
  /\ \A text \in Texts : FailureReport(text) \in Seq(Shown)
  /\ TimeoutReport \in Seq(Shown)
<1>1. \A text \in Texts : Decoded(text) \in Texts
  BY TextTypes DEF Decoded
<1>2. \A err \in Texts, stdout \in Texts : Entry(err, stdout) \in Shown
  BY DEF Entry, Shown
<1>3. \A text \in Texts : FailureReport(text) \in Seq(Shown)
  BY <1>1, <1>2, TextTypes DEF FailureReport
<1>4. TimeoutReport \in Seq(Shown)
  BY <1>2, TextTypes DEF TimeoutReport
<1>5. QED
  BY <1>1, <1>2, <1>3, <1>4

LEMMA TypeOKInit == Init => TypeOK
<1> SUFFICES ASSUME Init PROVE TypeOK
  OBVIOUS
<1>1. GlueTypeOK
  BY TextTypes DEF Init, GlueInit, GlueTypeOK, Code
<1>2. out \in Seq(Shown) /\ log \in Seq(Shown)
  BY DEF Init
<1>3. pc \in {"idle", "loop"} /\ source \in Sources \cup {Empty}
  BY DEF Init
<1>4. successfulAssembly \in BOOLEAN /\ timedOut \in BOOLEAN
  BY DEF Init
<1>5. cur \in 0..Timeout /\ clock \in 0..Timeout /\ batches \in 0..BatchesPerTick
  BY ClockAssumption DEF Init
<1>6. QED
  BY <1>1, <1>2, <1>3, <1>4, <1>5 DEF TypeOK

LEMMA TypeOKStep == TypeOK /\ [Next]_vars => TypeOK'
<1> SUFFICES ASSUME TypeOK, [Next]_vars PROVE TypeOK'
  OBVIOUS
<1> USE ClockAssumption DEF TypeOK
<1>1. ASSUME NEW s \in Sources, Assemble(s) PROVE TypeOK'
  <2>1. GlueTypeOK'
    <3>1. CASE s = Empty /\ UNCHANGED glueVars
      BY <3>1 DEF GlueTypeOK, glueVars, fileVars, textVars, machineVars
    <3>2. CASE AssembleSource(s)
      BY <3>2, AssembleSourceTypes
    <3>3. QED
      BY <1>1, <3>1, <3>2 DEF Assemble, AssembleMMIXAL
  <2>2. successfulAssembly' \in BOOLEAN
    BY <1>1 DEF Assemble, AssembleMMIXALReturns, AssembleReturnsZero
  <2>3. out' \in Seq(Shown)
    BY <1>1, <2>1, EntryTypes DEF Assemble, GlueTypeOK
  <2>4. QED
    BY <1>1, <2>1, <2>2, <2>3 DEF Assemble, runVars
<1>2. ASSUME NEW args \in ArgLists, RunStart(args) PROVE TypeOK'
  <2>1. GlueTypeOK'
    <3>1. CASE args = "overlong" /\ UNCHANGED glueVars
      BY <3>1 DEF GlueTypeOK, glueVars, fileVars, textVars, machineVars
    <3>2. CASE Initialize(args = "fit")
      BY <3>2, InitializeTypes
    <3>3. QED
      BY <1>2, <3>1, <3>2 DEF RunStart, InitializeMMIX
  <2>2. log' \in Seq(Shown)
    BY <1>2 DEF RunStart, FreshLocals
  <2>3. /\ pc' = "loop" /\ cur' = 0 /\ timedOut' = FALSE /\ clock' = 0 /\ batches' = 0
        /\ UNCHANGED <<source, successfulAssembly, out>>
    BY <1>2 DEF RunStart, FreshLocals
  <2>4. cur' \in 0..Timeout /\ clock' \in 0..Timeout /\ batches' \in 0..BatchesPerTick
    BY <2>3
  <2>5. timedOut' \in BOOLEAN /\ UNCHANGED <<source, successfulAssembly, out>>
    BY <2>3
  <2>6. pc' \in {"idle", "loop"}
    BY <2>3
  <2>7. QED
    BY <2>1, <2>2, <2>4, <2>5, <2>6
<1>3. CASE LoopBody
  <2>1. GlueTypeOK'
    BY <1>3, PerformReturnsTypes DEF LoopBody
  <2>2. log' \in Seq(Shown)
    BY <1>3, <2>1, EntryTypes DEF LoopBody, GlueTypeOK
  <2>3. QED
    BY <1>3, <2>1, <2>2 DEF LoopBody, Elapsed
<1>4. CASE LoopAbort
  <2>1. GlueTypeOK'
    BY <1>4 DEF LoopAbort, PerformAborts, GlueTypeOK, fileVars, textVars, machineVars
  <2>2. QED
    BY <1>4, <2>1 DEF LoopAbort, runVars
<1>5. CASE LoopExit
  <2>1. GlueTypeOK'
    BY <1>5, FinalizeTypes DEF LoopExit
  <2>2. out' \in Seq(Shown)
    BY <1>5, EntryTypes DEF LoopExit, RunResult
  <2>3. QED
    BY <1>5, <2>1, <2>2 DEF LoopExit, runVars
<1>6. CASE Tick
  <2>1. GlueTypeOK'
    BY <1>6 DEF Tick, GlueTypeOK, glueVars, fileVars, textVars, machineVars
  <2>2. QED
    BY <1>6, <2>1 DEF Tick
<1>7. CASE UNCHANGED vars
  BY <1>7 DEF vars, runVars, GlueTypeOK, glueVars, fileVars, textVars, machineVars
<1>8. QED
  BY <1>1, <1>2, <1>3, <1>4, <1>5, <1>6, <1>7 DEF Next

\* Every variable of a session always holds a value of its type.
THEOREM TypeCorrect == Spec => []TypeOK
BY TypeOKInit, TypeOKStep, PTL DEF Spec

-----------------------------------------------------------------------------
(* A run and the machine it drives, when no program exhausts the memory.   *)

NothingAborts == Hungry = {}

\* The inductive invariant: RunClean says what the calls leave behind,
\* LogIsTheRun what the loop has collected, and HaltedAtTheEnd why a loop that
\* ends because the machine halted has collected everything.
HaltedAtTheEnd ==
  simInit /\ halted /\ prog \in Program => done = Length[prog] /\ done # Forever

FlagFollows == simInit => initialized = 1

RunInv ==
  /\ TypeOK
  /\ ~stuck
  /\ NothingLeftBehind
  /\ FlagFollows
  /\ LogIsTheRun
  /\ HaltedAtTheEnd

\* One more batch delivers one more entry.
LEMMA DeliveredNext ==
  ASSUME NEW p, NEW n \in Nat
  PROVE  Delivered(p, n + 1) = Append(Delivered(p, n), Entry(ErrOf(p, n + 1), OutOf(p, n + 1)))
<1> DEFINE e(k) == Entry(ErrOf(p, k), OutOf(p, k))
<1> HIDE DEF e
<1>1. [k \in 1..(n + 1) |-> e(k)] = Append([k \in 1..n |-> e(k)], e(n + 1))
  OBVIOUS
<1>2. QED
  BY <1>1 DEF Delivered, e

LEMMA DeliveredNone == ASSUME NEW p PROVE Delivered(p, 0) = <<>>
BY DEF Delivered

\* A text that has been delivered is displayed as it is.
LEMMA DeliveredIsDecoded ==
  ASSUME NEW p, NEW n
  PROVE  Decoded(ErrOf(p, n)) = ErrOf(p, n) /\ Decoded(OutOf(p, n)) = OutOf(p, n)
BY DEF Decoded, ErrOf, OutOf, PrintedErr, PrintedOut, Prints, Asserted, NoText, Lost, Text

\* What is delivered shows every batch, each stream whole unless it overflows.
LEMMA DeliveredShows ==
  ASSUME NEW p, NEW n \in Nat
  PROVE  ShowsBatches(Delivered(p, n), p, n)
<1>1. Len(Delivered(p, n)) = n /\ \A k \in 1..n : Delivered(p, n)[k] = Entry(ErrOf(p, k), OutOf(p, k))
  BY DEF Delivered
<1>2. ASSUME NEW k \in 1..n PROVE ShowsBatch(Entry(ErrOf(p, k), OutOf(p, k)), p, k)
  <2>1. OutOf(p, k) = IF Overflows("out", p, k) THEN NoText ELSE PrintedOut(p, k)
    BY DEF OutOf, Overflows
  <2>2. /\ Overflows("err", p, k) => ErrOf(p, k) = NoText
        /\ ~Overflows("err", p, k) /\ Overflows("out", p, k) => ErrOf(p, k) = Asserted(p, k)
        /\ ~Overflows("err", p, k) /\ ~Overflows("out", p, k) => ErrOf(p, k) = PrintedErr(p, k)
    BY DEF ErrOf, Overflows
  <2> QED
    BY <2>1, <2>2 DEF ShowsBatch, Entry
<1> QED
  BY <1>1, <1>2 DEF ShowsBatches

LEMMA RunInvInit == Init => RunInv
<1> SUFFICES ASSUME Init PROVE RunInv
  OBVIOUS
<1>1. ~simInit /\ ~stuck
  BY DEF Init, GlueInit
<1>2. TypeOK
  BY TypeOKInit
<1>3. QED
  BY <1>1, <1>2 DEF RunInv, NothingLeftBehind, LogIsTheRun, HaltedAtTheEnd, FlagFollows

LEMMA RunInvStep == NothingAborts /\ RunInv /\ [Next]_vars => RunInv'
<1> SUFFICES ASSUME NothingAborts, RunInv, [Next]_vars PROVE RunInv'
  OBVIOUS
<1> USE DEF RunInv
<1>1. TypeOK'
  BY TypeOKStep
<1>2. ASSUME NEW s \in Sources, Assemble(s) PROVE RunInv'
  <2>1. pc = "idle" /\ pc' = "idle" /\ UNCHANGED <<stuck, simInit, initialized>>
    <3>1. UNCHANGED <<stuck, simInit, initialized>>
      BY <1>2 DEF Assemble, AssembleMMIXAL, AssembleSource, AssembleTooLong,
                  AssembleFaulty, AssembleProgram, glueVars
    <3>2. QED
      BY <1>2, <3>1 DEF Assemble
  <2>2. QED
    BY <1>1, <2>1 DEF NothingLeftBehind, LogIsTheRun, HaltedAtTheEnd, FlagFollows
<1>3. ASSUME NEW args \in ArgLists, RunStart(args) PROVE RunInv'
  <2>1. ~simInit /\ ~stuck
    BY <1>3 DEF RunStart, NothingLeftBehind
  <2>2. pc' = "loop" /\ log' = <<>>
    BY <1>3 DEF RunStart, FreshLocals
  <2>3. CASE args = "overlong" /\ UNCHANGED glueVars
    BY <1>1, <2>1, <2>2, <2>3
       DEF glueVars, NothingLeftBehind, LogIsTheRun, HaltedAtTheEnd, FlagFollows
  <2>4. CASE Initialize(args = "fit") /\ InitializeSucceeds
    <3>1. prog' = mmo /\ done' = 0 /\ halted' = FALSE /\ mmo' = mmo /\ stuck' = stuck
          /\ initialized' = 1
      BY <2>1, <2>4 DEF Initialize, Load, fileVars
    <3>2. log' = Delivered(prog', done')
      BY <2>2, <3>1, DeliveredNone
    <3>3. QED
      BY <1>1, <2>1, <2>2, <3>1, <3>2 DEF NothingLeftBehind, LogIsTheRun, HaltedAtTheEnd, FlagFollows
  <2>5. CASE Initialize(args = "fit") /\ ~InitializeSucceeds
    <3>1. ~simInit' /\ ~stuck'
      BY <2>1, <2>5 DEF Initialize
    <3>2. QED
      BY <1>1, <2>2, <3>1 DEF NothingLeftBehind, LogIsTheRun, HaltedAtTheEnd, FlagFollows
  <2>6. QED
    BY <1>3, <2>3, <2>4, <2>5 DEF RunStart, InitializeMMIX
<1>4. CASE LoopBody
  <2>1. pc = "loop" /\ pc' = "loop" /\ ~halted
    BY <1>4 DEF LoopBody, LoopCondition
  <2>2. UNCHANGED <<stuck, simInit, initialized, mmo, prog>>
    BY <1>4 DEF LoopBody, PerformReturns, PerformRefused, PerformUninitialized, PerformHalted,
                PerformBatch, glueVars, fileVars, machineVars
  <2>3. CASE ~simInit
    BY <1>1, <2>1, <2>2, <2>3 DEF NothingLeftBehind, LogIsTheRun, HaltedAtTheEnd, FlagFollows
  <2>4. CASE simInit /\ PerformBatch
    <3>1. done' = done + 1 /\ done \in Nat
      BY <2>4 DEF PerformBatch, TypeOK, GlueTypeOK
    <3>2. /\ stderrText' = ErrOf(prog, done + 1)
          /\ stdoutText' = OutOf(prog, done + 1)
      BY <2>4 DEF PerformBatch, Captured
    <3>3. log' = Append(log, Entry(ErrOf(prog, done + 1), OutOf(prog, done + 1)))
      BY <1>4, <3>2, DeliveredIsDecoded DEF LoopBody
    <3>4. prog = mmo /\ log = Delivered(prog, done)
      BY <2>1, <2>4 DEF LogIsTheRun
    <3>5. log' = Delivered(prog', done')
      BY <2>2, <3>1, <3>3, <3>4, DeliveredNext
    <3>6. halted' /\ prog' \in Program => done' = Length[prog']
      BY <2>2, <2>4, <3>1 DEF PerformBatch, HaltsNext
    <3>7. done' # Forever
      BY <3>1 DEF Forever
    <3>8. QED
      BY <1>1, <2>1, <2>2, <3>4, <3>5, <3>6, <3>7 DEF NothingLeftBehind, LogIsTheRun, HaltedAtTheEnd, FlagFollows
  <2>5. QED
    BY <1>4, <2>1, <2>3, <2>4
       DEF LoopBody, PerformReturns, PerformRefused, PerformUninitialized, PerformHalted,
           FlagFollows
<1>5. CASE LoopAbort
  BY <1>5 DEF LoopAbort, PerformAborts, AbortsNext, NothingAborts
<1>6. CASE LoopExit
  <2>1. ~simInit' /\ ~stuck'
    BY <1>6 DEF LoopExit, Finalize
  <2>2. QED
    BY <1>1, <2>1 DEF NothingLeftBehind, LogIsTheRun, HaltedAtTheEnd, FlagFollows
<1>7. CASE Tick
  BY <1>1, <1>7 DEF Tick, glueVars, fileVars, machineVars, NothingLeftBehind, LogIsTheRun,
                    HaltedAtTheEnd, FlagFollows
<1>8. CASE UNCHANGED vars
  BY <1>1, <1>8 DEF vars, runVars, glueVars, fileVars, machineVars, NothingLeftBehind,
                    LogIsTheRun, HaltedAtTheEnd, FlagFollows
<1>9. QED
  BY <1>2, <1>3, <1>4, <1>5, <1>6, <1>7, <1>8 DEF Next

\* When no program exhausts the memory, a call of the interface leaves neither an
\* initialized machine nor a redirected stream behind, and what a run collects is
\* what the program of the object file has printed so far.
THEOREM RunsAreClean ==
  ASSUME NothingAborts
  PROVE  Spec => [](NothingLeftBehind /\ LogIsTheRun)
<1>1. RunInv => NothingLeftBehind /\ LogIsTheRun
  BY DEF RunInv
<1>2. Init => RunInv
  BY RunInvInit
<1>3. RunInv /\ [Next]_vars => RunInv'
  BY NothingAborts, RunInvStep
<1>4. QED
  BY <1>1, <1>2, <1>3, PTL DEF Spec

\* simulateWithTimeout: the outputs collected are those of the batches that the
\* machine has executed of the object file, in their order.
THEOREM LogsAreTheRun ==
  ASSUME NothingAborts
  PROVE  Spec => []LogIsTheRun
BY RunsAreClean, PTL

-----------------------------------------------------------------------------
(* The session, when in addition every source is one the module takes a    *)
(* decision about, and every argument fits.                                *)

WellBehaved ==
  /\ NothingAborts
  /\ TooLong = {}
  /\ Empty \notin Sources
  /\ "overlong" \notin ArgLists

\* Only a program that was assembled is run, and the loop leaves with hasTimedOut
\* set exactly when it leaves because of the deadline.
RunsTheAccepted == (successfulAssembly => source \in Program) /\ (pc = "loop" => successfulAssembly)
DeadlineNoticed == pc = "loop" => (timedOut <=> cur >= Timeout)

SessionInv ==
  /\ RunInv
  /\ TrueMeansAssembled
  /\ LoopIsInitialized
  /\ FailureShowsItsErrors
  /\ RunsTheAccepted
  /\ DeadlineNoticed

LEMMA SessionInvInit == Init => SessionInv
<1> SUFFICES ASSUME Init PROVE SessionInv
  OBVIOUS
<1>1. RunInv
  BY RunInvInit
<1>2. pc = "idle" /\ successfulAssembly = FALSE /\ source = Empty
  BY DEF Init
<1>3. QED
  BY <1>1, <1>2 DEF SessionInv, TrueMeansAssembled, LoopIsInitialized, FailureShowsItsErrors,
                    RunsTheAccepted, DeadlineNoticed

LEMMA SessionInvStep == WellBehaved /\ SessionInv /\ [Next]_vars => SessionInv'
<1> SUFFICES ASSUME WellBehaved, SessionInv, [Next]_vars PROVE SessionInv'
  OBVIOUS
<1> USE DEF SessionInv
<1>1. RunInv'
  BY RunInvStep DEF WellBehaved
<1>2. ASSUME NEW s \in Sources, Assemble(s) PROVE SessionInv'
  <2>1. s # Empty /\ s \notin TooLong /\ s \in Program \cup Faulty
    BY SessionAssumption DEF WellBehaved
  <2>2. /\ pc' = "idle" /\ source' = s /\ AssembleSource(s)
        /\ successfulAssembly' = (s \in Program)
        /\ out' = IF successfulAssembly' THEN out ELSE FailureReport(stderrText')
    BY <1>2, <2>1 DEF Assemble, AssembleMMIXAL, AssembleMMIXALReturns, AssembleReturnsZero
  <2>3. CASE s \in Program
    <3>1. mmo' = s /\ mmoNamed'
      BY <2>1, <2>2, <2>3, SourceAssumption DEF AssembleSource, AssembleProgram
    <3>2. QED
      BY <1>1, <2>2, <2>3, <3>1 DEF TrueMeansAssembled, LoopIsInitialized,
                    FailureShowsItsErrors, RunsTheAccepted, DeadlineNoticed
  <2>4. CASE s \in Faulty
    <3>1. s \notin Program
      BY <2>4, SourceAssumption
    <3>2. stderrText' = Diagnostics(s)
      BY <2>1, <2>2, <3>1 DEF AssembleSource, AssembleFaulty, Captured, RunInv
    <3>3. QED
      BY <1>1, <2>2, <3>1, <3>2 DEF TrueMeansAssembled, LoopIsInitialized,
                    FailureShowsItsErrors, RunsTheAccepted, DeadlineNoticed
  <2>5. QED
    BY <2>1, <2>3, <2>4
<1>3. ASSUME NEW args \in ArgLists, RunStart(args) PROVE SessionInv'
  <2>1. Initialize(args = "fit") /\ successfulAssembly
    BY <1>3 DEF RunStart, InitializeMMIX, WellBehaved
  <2>2. InitializeSucceeds
    <3>1. mmoNamed /\ mmo = source /\ source \in Program
      BY <2>1 DEF TrueMeansAssembled, RunsTheAccepted
    <3>2. QED
      BY <3>1, SourceAssumption DEF InitializeSucceeds
  <2>3. initialized' = 1 /\ simInit' /\ mmo' = mmo /\ mmoNamed' = mmoNamed
    BY <2>1, <2>2 DEF Initialize, fileVars
  <2>4. /\ pc' = "loop" /\ cur' = 0 /\ timedOut' = FALSE
        /\ UNCHANGED <<source, successfulAssembly, out>>
    BY <1>3 DEF RunStart, FreshLocals
  <2>5. (timedOut <=> cur >= Timeout)'
    BY <2>4, ClockAssumption
  <2>6. QED
    BY <1>1, <2>1, <2>3, <2>4, <2>5 DEF TrueMeansAssembled, LoopIsInitialized,
                    FailureShowsItsErrors, RunsTheAccepted, DeadlineNoticed
<1>4. CASE LoopBody
  <2>1. UNCHANGED <<mmo, mmoNamed, initialized, simInit>>
    BY <1>4 DEF LoopBody, PerformReturns, PerformRefused, PerformUninitialized, PerformHalted,
                PerformBatch, glueVars, fileVars
  <2>2. /\ pc = "loop" /\ timedOut' = (cur' >= Timeout)
        /\ UNCHANGED <<pc, source, successfulAssembly, out>>
    BY <1>4 DEF LoopBody
  <2>3. QED
    BY <1>1, <2>1, <2>2 DEF TrueMeansAssembled, LoopIsInitialized, FailureShowsItsErrors,
                    RunsTheAccepted, DeadlineNoticed
<1>5. CASE LoopAbort
  BY <1>5 DEF LoopAbort, PerformAborts, AbortsNext, WellBehaved, NothingAborts
<1>6. CASE LoopExit
  <2>1. /\ pc' = "idle" /\ successfulAssembly /\ UNCHANGED <<source, successfulAssembly>>
        /\ UNCHANGED <<mmo, mmoNamed>>
    BY <1>6 DEF LoopExit, Finalize, fileVars, RunsTheAccepted
  <2>2. QED
    BY <1>1, <2>1 DEF TrueMeansAssembled, LoopIsInitialized, FailureShowsItsErrors,
                    RunsTheAccepted, DeadlineNoticed
<1>7. CASE Tick
  BY <1>1, <1>7 DEF Tick, glueVars, fileVars, TrueMeansAssembled, LoopIsInitialized,
                    FailureShowsItsErrors, RunsTheAccepted, DeadlineNoticed
<1>8. CASE UNCHANGED vars
  BY <1>1, <1>8 DEF vars, runVars, glueVars, fileVars, TrueMeansAssembled, LoopIsInitialized,
                    FailureShowsItsErrors, RunsTheAccepted, DeadlineNoticed
<1>9. QED
  BY <1>2, <1>3, <1>4, <1>5, <1>6, <1>7, <1>8 DEF Next

\* In a well behaved session the object file is the assembly of the source whose
\* assembly was reported as a success, a failure shows the errors of the source
\* that failed, and the loop only ever drives an initialized simulator.
THEOREM SessionIsSound ==
  ASSUME WellBehaved
  PROVE  Spec => [](TrueMeansAssembled /\ FailureShowsItsErrors /\ LoopIsInitialized)
<1>1. SessionInv => TrueMeansAssembled /\ FailureShowsItsErrors /\ LoopIsInitialized
  BY DEF SessionInv
<1>2. Init => SessionInv
  BY SessionInvInit
<1>3. SessionInv /\ [Next]_vars => SessionInv'
  BY WellBehaved, SessionInvStep
<1>4. QED
  BY <1>1, <1>2, <1>3, PTL DEF Spec

-----------------------------------------------------------------------------
(* The end of a run.                                                       *)

\* A loop that ends without a timeout has collected all that is delivered of its program.
LEMMA ExitResult ==
  ASSUME SessionInv, LoopExit, prog \in Program
  PROVE  out' = TimeoutReport \/ (halted /\ prog \in Terminating /\ out' = Delivered(prog, Length[prog]))
<1>1. CASE timedOut
  BY <1>1 DEF LoopExit, RunResult
<1>2. CASE ~timedOut
  <2>1. cur \in 0..Timeout /\ pc = "loop"
    BY DEF SessionInv, RunInv, TypeOK, LoopExit
  <2>2. halted
    BY <1>2, <2>1, ClockAssumption DEF SessionInv, DeadlineNoticed, LoopExit, LoopCondition
  <2>3. simInit /\ log = Delivered(prog, done)
    BY <2>1 DEF SessionInv, LoopIsInitialized, RunInv, LogIsTheRun
  <2>4. done = Length[prog] /\ done # Forever
    BY <2>2, <2>3 DEF SessionInv, RunInv, HaltedAtTheEnd
  <2>5. QED
    BY <1>2, <2>2, <2>3, <2>4 DEF LoopExit, RunResult, Terminating
<1>3. QED
  BY <1>1, <1>2 DEF SessionInv, RunInv, TypeOK

\* A run that is over shows the timeout, or every batch of its program up to the
\* last: nothing is missing but a stream that overflows its buffer in its batch.
THEOREM RunsShowEveryBatchOrTimeout ==
  ASSUME WellBehaved
  PROVE  Spec => RunShowsEveryBatchOrTimeout
<1> DEFINE Step == pc = "loop" /\ pc' = "idle" /\ prog \in Program
                     => \/ out' = TimeoutReport
                        \/ halted /\ ShowsBatches(out', prog, Length[prog])
<1>1. SessionInv /\ [Next]_vars => [Step]_vars
  <2> SUFFICES ASSUME SessionInv, [Next]_vars, pc = "loop", pc' = "idle", prog \in Program
               PROVE  out' = TimeoutReport \/ (halted /\ ShowsBatches(out', prog, Length[prog]))
    OBVIOUS
  <2>1. CASE LoopExit
    <3>1. Length[prog] \in Nat
      BY ProgramAssumption
    <3> QED
      BY <2>1, <3>1, ExitResult, DeliveredShows
  <2>2. ~LoopAbort
    BY WellBehaved DEF LoopAbort, PerformAborts, AbortsNext, WellBehaved, NothingAborts
  <2>3. QED
    BY <2>1, <2>2 DEF Next, Assemble, RunStart, LoopBody, Tick, vars
<1>2. Init => SessionInv
  BY SessionInvInit
<1>3. SessionInv /\ [Next]_vars => SessionInv'
  BY WellBehaved, SessionInvStep
<1>4. QED
  BY <1>1, <1>2, <1>3, PTL DEF Spec, RunShowsEveryBatchOrTimeout

-----------------------------------------------------------------------------
(* The timeout, for all programs, sources and arguments.                   *)

TimeoutInv == TypeOK /\ (pc = "loop" /\ timedOut => cur >= Timeout)

\* Once the loop has noticed the deadline the machine executes no further batch.
THEOREM TimeoutStopsTheMachine == Spec => NoBatchAfterTimeout
<1> DEFINE Step == timedOut => (done' = done \/ ~timedOut')
<1>1. TypeOK /\ Init => TimeoutInv
  BY DEF TimeoutInv, Init
<1>2. TimeoutInv /\ [Next]_vars => TimeoutInv'
  <2> SUFFICES ASSUME TimeoutInv, [Next]_vars PROVE TimeoutInv'
    OBVIOUS
  <2>1. TypeOK'
    BY TypeOKStep DEF TimeoutInv
  <2>2. (pc = "loop" /\ timedOut => cur >= Timeout)'
    BY DEF TimeoutInv, Next, Assemble, RunStart, FreshLocals, LoopBody, LoopAbort, LoopExit, Tick,
           vars, runVars
  <2>3. QED
    BY <2>1, <2>2 DEF TimeoutInv
<1>3. TimeoutInv /\ [Next]_vars => [Step]_vars
  <2> SUFFICES ASSUME TimeoutInv, [Next]_vars, timedOut, timedOut' PROVE done' = done
    OBVIOUS
  <2>1. CASE LoopBody
    <3>1. pc = "loop" /\ cur < Timeout /\ cur >= Timeout /\ cur \in 0..Timeout
      BY <2>1 DEF LoopBody, LoopCondition, TimeoutInv, TypeOK
    <3>2. QED
      BY <3>1, ClockAssumption
  <2>2. ASSUME NEW s \in Sources, Assemble(s) PROVE done' = done
    BY <2>2 DEF Assemble, AssembleMMIXAL, AssembleSource, AssembleTooLong, AssembleFaulty,
                AssembleProgram, glueVars, machineVars
  <2>3. ASSUME NEW args \in ArgLists, RunStart(args) PROVE FALSE
    BY <2>3 DEF RunStart, FreshLocals
  <2>4. CASE LoopAbort
    BY <2>4 DEF LoopAbort, PerformAborts, machineVars
  <2>5. CASE LoopExit
    BY <2>5 DEF LoopExit, Finalize, machineVars
  <2>6. CASE Tick
    BY <2>6 DEF Tick, glueVars, machineVars
  <2>7. CASE UNCHANGED vars
    BY <2>7 DEF vars, glueVars, machineVars
  <2>8. QED
    BY <2>1, <2>2, <2>3, <2>4, <2>5, <2>6, <2>7 DEF Next
<1>4. QED
  BY <1>1, <1>2, <1>3, TypeOKInit, PTL DEF Spec, NoBatchAfterTimeout

-----------------------------------------------------------------------------
(***************************************************************************)
(* The end of a run, whatever has gone wrong before: sources that are too  *)
(* long, arguments that do not fit, programs that exhaust the memory.  A   *)
(* machine that stays initialized between two runs is one whose streams    *)
(* stay redirected, and then nothing that it prints is read.  One whose    *)
(* streams are read holds the program of the object file, which is that of *)
(* the source reported as assembled, unless this was the empty one.        *)
(***************************************************************************)

FileOfTheSource == successfulAssembly /\ source # Empty => mmoNamed /\ mmo = source

Blank(entries) == \A i \in DOMAIN entries : entries[i] = Entry(NoText, NoText)

\* What the loop has collected, by the state it has found the module in.
Collected ==
  /\ DeadlineNoticed
  /\ simInit /\ ~stuck => log = Delivered(prog, done) /\ prog = mmo
  /\ simInit /\ stuck => Blank(log)
  /\ ~simInit /\ halted => log = <<>>

AdverseInv ==
  /\ TypeOK
  /\ FlagFollows
  /\ FileOfTheSource
  /\ pc = "idle" /\ simInit => stuck
  /\ pc = "loop" => Collected

LEMMA AdverseInvInit == Init => AdverseInv
<1> SUFFICES ASSUME Init PROVE AdverseInv
  OBVIOUS
<1>1. pc = "idle" /\ ~simInit /\ ~successfulAssembly
  BY DEF Init, GlueInit
<1>2. TypeOK
  BY TypeOKInit
<1> QED
  BY <1>1, <1>2 DEF AdverseInv, FlagFollows, FileOfTheSource

\* One more entry without a text.
LEMMA BlankNext ==
  ASSUME log \in Seq(Shown), Blank(log), NEW e, e = Entry(NoText, NoText)
  PROVE  Blank(Append(log, e))
BY DEF Blank

LEMMA StartKeepsAdverse ==
  ASSUME AdverseInv, TypeOK', NEW args \in ArgLists, RunStart(args)
  PROVE  AdverseInv'
<1>1. /\ pc = "idle" /\ pc' = "loop" /\ log' = <<>> /\ cur' = 0 /\ timedOut' = FALSE
  BY DEF RunStart, FreshLocals
<1>2. (timedOut <=> cur >= Timeout)'
  BY <1>1, ClockAssumption
<1>3. Blank(<<>>)
  BY DEF Blank
<1>4. /\ UNCHANGED <<stuck, mmo, mmoNamed, source, successfulAssembly>>
      /\ FileOfTheSource'
  BY DEF RunStart, InitializeMMIX, Initialize, glueVars, fileVars, AdverseInv, FileOfTheSource
<1>5. FlagFollows' /\ (simInit' /\ ~stuck' => log' = Delivered(prog', done') /\ prog' = mmo')
  <2>1. CASE UNCHANGED glueVars
    BY <1>1, <2>1 DEF glueVars, AdverseInv, FlagFollows
  <2>2. CASE Initialize(args = "fit") /\ InitializeSucceeds
    <3>1. initialized' = 1
      BY <2>2 DEF Initialize
    <3>2. CASE simInit
      BY <1>1, <1>4, <3>1, <3>2 DEF AdverseInv, FlagFollows
    <3>3. CASE ~simInit
      <4>1. done' = 0 /\ prog' = mmo'
        BY <1>4, <2>2, <3>3 DEF Initialize, Load
      <4> QED
        BY <1>1, <3>1, <4>1, DeliveredNone DEF FlagFollows
    <3> QED
      BY <3>2, <3>3
  <2>3. CASE Initialize(args = "fit") /\ ~InitializeSucceeds
    <3>1. ~simInit /\ simInit' = simInit
      BY <2>3 DEF Initialize, InitializeSucceeds
    <3> QED
      BY <3>1 DEF FlagFollows
  <2> QED
    BY <2>1, <2>2, <2>3 DEF RunStart, InitializeMMIX
<1> QED
  BY <1>1, <1>2, <1>3, <1>4, <1>5 DEF AdverseInv, Collected, DeadlineNoticed

LEMMA BatchKeepsAdverse ==
  ASSUME AdverseInv, TypeOK', LoopBody
  PROVE  AdverseInv'
<1>1. /\ pc = "loop" /\ pc' = "loop" /\ ~halted /\ Collected
      /\ timedOut' = (cur' >= Timeout)
  BY DEF LoopBody, LoopCondition, AdverseInv
<1>2. UNCHANGED <<stuck, simInit, initialized, prog, mmo, mmoNamed, source, successfulAssembly>>
  BY DEF LoopBody, PerformReturns, PerformRefused, PerformUninitialized, PerformHalted,
         PerformBatch, glueVars, fileVars, machineVars
<1>3. FlagFollows' /\ FileOfTheSource'
  BY <1>2 DEF AdverseInv, FlagFollows, FileOfTheSource
<1>4. CASE ~simInit
  <2>1. halted' = halted
    BY <1>4 DEF LoopBody, PerformReturns, PerformRefused, PerformUninitialized, PerformHalted,
                PerformBatch, Running, glueVars, machineVars
  <2> QED
    BY <1>1, <1>2, <1>3, <1>4, <2>1 DEF AdverseInv, Collected, DeadlineNoticed
<1>5. CASE simInit
  <2>1. PerformBatch
    <3>1. initialized = 1 /\ PerformReturns
      BY <1>5 DEF LoopBody, AdverseInv, FlagFollows
    <3>2. ~PerformRefused
      BY <3>1 DEF PerformRefused
    <3>3. ~PerformUninitialized
      BY <1>5, Zenon DEF PerformUninitialized
    <3>4. ~PerformHalted
      BY <1>1, Zenon DEF PerformHalted
    <3> QED
      BY <3>1, <3>2, <3>3, <3>4, Zenon DEF PerformReturns
  <2>2. done' = done + 1 /\ done \in Nat /\ log \in Seq(Shown)
    BY <2>1 DEF PerformBatch, AdverseInv, TypeOK, GlueTypeOK
  <2>3. log' = Append(log, Entry(Decoded(stderrText'), Decoded(stdoutText')))
    BY DEF LoopBody
  <2>4. CASE stuck
    <3>1. Entry(Decoded(stderrText'), Decoded(stdoutText')) = Entry(NoText, NoText)
      BY <2>1, <2>4 DEF PerformBatch, Captured, Decoded
    <3>2. Blank(log')
      BY <1>1, <1>5, <2>2, <2>3, <2>4, <3>1, BlankNext DEF Collected
    <3> QED
      BY <1>1, <1>2, <1>3, <1>5, <2>4, <3>2 DEF AdverseInv, Collected, DeadlineNoticed
  <2>5. CASE ~stuck
    <3>1. stderrText' = ErrOf(prog, done + 1) /\ stdoutText' = OutOf(prog, done + 1)
      BY <2>1, <2>5 DEF PerformBatch, Captured
    <3>2. log' = Append(Delivered(prog, done), Entry(ErrOf(prog, done + 1), OutOf(prog, done + 1)))
      BY <1>1, <1>5, <2>3, <2>5, <3>1, DeliveredIsDecoded DEF Collected
    <3>3. log' = Delivered(prog', done')
      BY <1>2, <2>2, <3>2, DeliveredNext
    <3> QED
      BY <1>1, <1>2, <1>3, <1>5, <2>5, <3>3 DEF AdverseInv, Collected, DeadlineNoticed
  <2> QED
    BY <2>4, <2>5
<1> QED
  BY <1>4, <1>5

LEMMA AdverseInvStep == AdverseInv /\ [Next]_vars => AdverseInv'
<1> SUFFICES ASSUME AdverseInv, [Next]_vars PROVE AdverseInv'
  OBVIOUS
<1>1. TypeOK'
  BY TypeOKStep DEF AdverseInv
<1>2. ASSUME NEW s \in Sources, Assemble(s) PROVE AdverseInv'
  <2>1. UNCHANGED <<stuck, simInit, initialized>>
    BY <1>2 DEF Assemble, AssembleMMIXAL, AssembleSource, AssembleTooLong,
                AssembleFaulty, AssembleProgram, glueVars
  <2>2. pc = "idle" /\ pc' = "idle" /\ source' = s
        /\ (successfulAssembly' => s = Empty \/ s \in Program)
    BY <1>2 DEF Assemble, AssembleMMIXALReturns, AssembleReturnsZero
  <2>3. ASSUME s \in Program, s # Empty PROVE mmoNamed' /\ mmo' = s
    <3>1. s \notin Faulty \cup TooLong
      BY <2>3, SourceAssumption
    <3> QED
      BY <1>2, <2>3, <3>1 DEF Assemble, AssembleMMIXAL, AssembleSource, AssembleProgram
  <2>4. FileOfTheSource'
    BY <2>2, <2>3 DEF FileOfTheSource
  <2> QED
    BY <1>1, <2>1, <2>2, <2>4 DEF AdverseInv, FlagFollows
<1>3. ASSUME NEW args \in ArgLists, RunStart(args) PROVE AdverseInv'
  BY <1>1, <1>3, StartKeepsAdverse
<1>4. CASE LoopBody
  BY <1>1, <1>4, BatchKeepsAdverse
<1>5. CASE LoopAbort
  BY <1>1, <1>5 DEF LoopAbort, PerformAborts, fileVars, AdverseInv, FlagFollows, FileOfTheSource
<1>6. CASE LoopExit
  BY <1>1, <1>6 DEF LoopExit, Finalize, fileVars, AdverseInv, FlagFollows, FileOfTheSource
<1>7. CASE Tick
  BY <1>1, <1>7 DEF Tick, glueVars, fileVars, machineVars, AdverseInv, FlagFollows, FileOfTheSource,
                    Collected, DeadlineNoticed
<1>8. CASE UNCHANGED vars
  BY <1>1, <1>8 DEF vars, runVars, glueVars, fileVars, machineVars, AdverseInv, FlagFollows,
                    FileOfTheSource, Collected, DeadlineNoticed
<1> QED
  BY <1>2, <1>3, <1>4, <1>5, <1>6, <1>7, <1>8 DEF Next

\* What the end of a run assigns to _out.
LEMMA AdverseExit ==
  ASSUME AdverseInv, LoopExit
  PROVE  \/ out' = TimeoutReport
         \/ halted /\ simInit /\ ~stuck /\ out' = Delivered(prog, done) /\ prog = mmo
         \/ Blank(out')
<1>1. CASE timedOut
  BY <1>1 DEF LoopExit, RunResult
<1>2. CASE ~timedOut
  <2>1. pc = "loop" /\ cur \in 0..Timeout /\ Collected
    BY DEF LoopExit, AdverseInv, TypeOK
  <2>2. halted
    BY <1>2, <2>1, ClockAssumption DEF LoopExit, LoopCondition, Collected, DeadlineNoticed
  <2>3. out' = log
    BY <1>2 DEF LoopExit, RunResult
  <2>4. CASE simInit /\ ~stuck
    BY <2>1, <2>2, <2>3, <2>4 DEF Collected
  <2>5. CASE simInit /\ stuck
    BY <2>1, <2>3, <2>5 DEF Collected
  <2>6. CASE ~simInit
    <3>1. out' = <<>>
      BY <2>1, <2>2, <2>3, <2>6 DEF Collected
    <3> QED
      BY <3>1 DEF Blank
  <2> QED
    BY <2>4, <2>5, <2>6
<1> QED
  BY <1>1, <1>2 DEF AdverseInv, TypeOK

\* simulateWithTimeout, without any assumption: what a run shows is the timeout, or
\* an entry for each batch of the machine since it was loaded, with nothing missing but
\* a stream that overflows its buffer in its batch, or no text at all.
THEOREM RunsShowEveryBatchOrNothing == Spec => EveryBatchOrNothing
<1> DEFINE Step == pc = "loop" /\ pc' = "idle" /\ out' # out
                     => \/ out' = TimeoutReport
                        \/ halted /\ ShowsBatches(out', prog, done)
                        \/ \A i \in DOMAIN out' : out'[i] = Entry(NoText, NoText)
<1>1. AdverseInv /\ [Next]_vars => [Step]_vars
  <2> SUFFICES ASSUME AdverseInv, [Next]_vars, pc = "loop", pc' = "idle", out' # out
               PROVE  \/ out' = TimeoutReport
                      \/ halted /\ ShowsBatches(out', prog, done)
                      \/ \A i \in DOMAIN out' : out'[i] = Entry(NoText, NoText)
    OBVIOUS
  <2>1. LoopExit
    BY DEF Next, Assemble, RunStart, LoopBody, LoopAbort, Tick, vars
  <2>2. done \in Nat
    BY DEF AdverseInv, TypeOK, GlueTypeOK
  <2> QED
    BY <2>1, <2>2, AdverseExit, DeliveredShows DEF Blank
<1>2. Init => AdverseInv
  BY AdverseInvInit
<1>3. AdverseInv /\ [Next]_vars => AdverseInv'
  BY AdverseInvStep
<1> QED
  BY <1>1, <1>2, <1>3, PTL DEF Spec, EveryBatchOrNothing

-----------------------------------------------------------------------------
(* The session implements the promise of ISimulator, safety part.          *)

LEMMA PromiseInit == Init => Promise!Init
BY DEF Init, Promise!Init

LEMMA PromiseStep ==
  WellBehaved /\ SessionInv /\ [Next]_vars => [Promise!Next]_(Promise!vars)
<1> SUFFICES ASSUME WellBehaved, SessionInv, [Next]_vars
             PROVE  Promise!Next \/ UNCHANGED Promise!vars
  OBVIOUS
<1>1. ASSUME NEW s \in Sources, Assemble(s) PROVE Promise!Next
  <2>1. s # Empty /\ s \notin TooLong /\ s \in Program \cup Faulty
    BY SessionAssumption DEF WellBehaved
  <2>2. /\ pc = "idle" /\ pc' = "idle" /\ AssembleSource(s)
        /\ successfulAssembly' = (s \in Program)
        /\ out' = IF successfulAssembly' THEN out ELSE FailureReport(stderrText')
    BY <1>1, <2>1 DEF Assemble, AssembleMMIXAL, AssembleMMIXALReturns, AssembleReturnsZero
  <2>3. CASE s \in Program
    <3>1. mmo' = s
      BY <2>1, <2>2, <2>3, SourceAssumption DEF AssembleSource, AssembleProgram
    <3>2. Promise!Accept(s)
      BY <2>2, <2>3, <3>1 DEF Promise!Accept
    <3>3. QED
      BY <2>3, <3>2 DEF Promise!Next
  <2>4. CASE s \in Faulty
    <3>1. s \notin Program
      BY <2>4, SourceAssumption
    <3>2. stderrText' = Diagnostics(s)
      BY <2>1, <2>2, <3>1 DEF AssembleSource, AssembleFaulty, Captured, SessionInv, RunInv
    <3>3. Promise!Reject(s)
      BY <2>2, <2>4, <3>1, <3>2 DEF Promise!Reject
    <3>4. QED
      BY <2>4, <3>3 DEF Promise!Next
  <2>5. QED
    BY <2>1, <2>3, <2>4
<1>2. ASSUME NEW args \in ArgLists, RunStart(args) PROVE Promise!Next
  <2>1. successfulAssembly /\ mmo \in Program
    BY <1>2 DEF RunStart, SessionInv, TrueMeansAssembled, RunsTheAccepted
  <2>2. mmo' = mmo
    BY <1>2 DEF RunStart, InitializeMMIX, Initialize, glueVars, fileVars
  <2>3. mmo # NoFile
    BY <2>1, SourceAssumption
  <2>4. Promise!Start
    BY <1>2, <2>1, <2>2, <2>3 DEF RunStart, Promise!Start
  <2>5. QED
    BY <2>4 DEF Promise!Next
<1>3. CASE LoopBody
  <2>1. mmo' = mmo
    BY <1>3 DEF LoopBody, PerformReturns, PerformRefused, PerformUninitialized, PerformHalted,
                PerformBatch, glueVars, fileVars
  <2>2. QED
    BY <1>3, <2>1 DEF LoopBody, Promise!vars
<1>4. CASE LoopAbort
  BY <1>4 DEF LoopAbort, PerformAborts, AbortsNext, WellBehaved, NothingAborts
<1>5. CASE LoopExit
  <2>1. /\ pc = "loop" /\ pc' = "idle" /\ UNCHANGED <<mmo, successfulAssembly>>
    BY <1>5 DEF LoopExit, Finalize, fileVars
  <2>2. successfulAssembly /\ prog = mmo /\ mmo \in Program
    BY <2>1 DEF SessionInv, RunsTheAccepted, TrueMeansAssembled, LoopIsInitialized, RunInv,
                LogIsTheRun
  <2>3. CASE out' = TimeoutReport
    <3>1. Promise!CutOff
      BY <2>1, <2>3 DEF Promise!CutOff
    <3>2. QED
      BY <3>1 DEF Promise!Next
  <2>4. CASE prog \in Terminating /\ out' = Delivered(prog, Length[prog])
    <3>1. Promise!Finish
      BY <2>1, <2>2, <2>4 DEF Promise!Finish
    <3>2. QED
      BY <3>1 DEF Promise!Next
  <2>5. QED
    BY <1>5, <2>2, <2>3, <2>4, ExitResult
<1>6. CASE Tick
  BY <1>6 DEF Tick, glueVars, fileVars, Promise!vars
<1>7. CASE UNCHANGED vars
  BY <1>7 DEF vars, glueVars, fileVars, Promise!vars
<1>8. QED
  BY <1>1, <1>2, <1>3, <1>4, <1>5, <1>6, <1>7 DEF Next

\* Every step of a well behaved session is a step that the promise allows.
THEOREM SessionKeepsThePromise ==
  ASSUME WellBehaved
  PROVE  Spec => Promise!Init /\ [][Promise!Next]_(Promise!vars)
<1>1. Init => SessionInv
  BY SessionInvInit
<1>2. SessionInv /\ [Next]_vars => SessionInv'
  BY WellBehaved, SessionInvStep
<1>3. SessionInv /\ [Next]_vars => [Promise!Next]_(Promise!vars)
  BY WellBehaved, PromiseStep
<1>4. QED
  BY <1>1, <1>2, <1>3, PromiseInit, PTL DEF Spec
=============================================================================
