---------------------------- MODULE MMIXSimulator ----------------------------
(***************************************************************************)
(* The TypeScript side of a simulator session: class Simulator             *)
(* (simulator/simulator.ts) over class ModuleAdapter                       *)
(* (moduleAdapter/module_adapter.ts), driving the WASM module of MMIXGlue. *)
(*                                                                         *)
(* JavaScript is single threaded, so assemble() is one step.               *)
(* runUserProgram() is a step per iteration of its loop: nothing else runs *)
(* in between, but the clock it reads moves on.                            *)
(***************************************************************************)
EXTENDS MMIXGlue

CONSTANTS
  Empty,           \* the empty source
  Sources,         \* what the user may assemble
  ArgLists,        \* the argument lists the user may give: see ArgKind
  Timeout,         \* simulateWithTimeout's timeout, in ticks of the clock
  BatchesPerTick   \* bound: batches of instructions that fit in a tick

\* No argument, arguments that fit, and one whose length is arg_size() or more.
ArgKind == {"none", "fit", "overlong"}

ASSUME SessionAssumption ==
  /\ Sources \subseteq Program \cup Faulty \cup TooLong \cup {Empty}
  /\ Empty \notin Program \cup Faulty \cup TooLong \cup {NoFile, Partial}
  /\ ArgLists \subseteq ArgKind

ASSUME ClockAssumption ==
  /\ Timeout \in Nat \ {0}
  /\ BatchesPerTick \in Nat \ {0}

VARIABLES
  pc,                  \* "idle", or "loop" inside simulateWithTimeout
  source,              \* the argument of the last assemble()
  successfulAssembly,  \* _successfulAssembly
  out,                 \* _out
  log,                 \* programOutputs, the local Outputs object
  cur,                 \* the local cur, counted from the start of the run
  timedOut,            \* the local hasTimedOut
  clock,               \* Date.now(), counted from the start of the run
  batches              \* iterations of the loop since the last tick

runVars == <<log, cur, timedOut, clock, batches>>
vars == <<glueVars, pc, source, successfulAssembly, out, runVars>>

-----------------------------------------------------------------------------
(* What the user is shown: a list of pairs, joined when displayed.         *)

\* _decode_and_return: a length of 0 or of -1 decodes to the empty string.
Decoded(text) == IF text = Lost THEN NoText ELSE text

Entry(err, stdout) == [err |-> err, out |-> stdout]

TimeoutText == Text("timeout", NoFile, 0)
TimeoutReport == <<Entry(TimeoutText, NoText)>>

FailureReport(text) == <<Entry(Decoded(text), NoText)>>

Init ==
  /\ GlueInit
  /\ pc = "idle"
  /\ source = Empty
  /\ successfulAssembly = FALSE
  /\ out = <<>>
  /\ log = <<>>
  /\ cur = 0
  /\ timedOut = FALSE
  /\ clock = 0
  /\ batches = 0

-----------------------------------------------------------------------------
(***************************************************************************)
(* assemble(mmixal): assembleMMIXAL, and on failure the error output.      *)
(***************************************************************************)

\* assembleMMIXAL returns true for the empty source, and does nothing else.
AssembleMMIXAL(s) ==
  \/ s = Empty /\ UNCHANGED glueVars
  \/ s # Empty /\ AssembleSource(s)

\* A mutation of AssembleMMIXALReturns: a success that outlives the program it was of.
StickySuccess(s) == successfulAssembly \/ AssembleReturnsZero(s)

AssembleMMIXALReturns(s) == s = Empty \/ AssembleReturnsZero(s)

Assemble(s) ==
  /\ pc = "idle"
  /\ AssembleMMIXAL(s)
  /\ source' = s
  /\ successfulAssembly' = AssembleMMIXALReturns(s)
  /\ out' = IF successfulAssembly' THEN out ELSE FailureReport(stderrText')
  /\ UNCHANGED <<pc, runVars>>

-----------------------------------------------------------------------------
(***************************************************************************)
(* runUserProgram(argv) and simulateWithTimeout.                           *)
(***************************************************************************)

\* initializeMMIX throws at an overlong argument before it calls the module.
\* Its caller logs the exception and goes on.
InitializeMMIX(args) ==
  \/ args = "overlong" /\ UNCHANGED glueVars
  \/ args # "overlong" /\ Initialize(args = "fit")

\* The mutation of FreshLocals: the outputs are kept in a field of the object.
SharedOutputs ==
  /\ log' = log
  /\ cur' = 0
  /\ timedOut' = FALSE
  /\ clock' = 0
  /\ batches' = 0

\* The local variables of a run, and the clock from which they are counted.
FreshLocals ==
  /\ log' = <<>>
  /\ cur' = 0
  /\ timedOut' = FALSE
  /\ clock' = 0
  /\ batches' = 0

RunStart(args) ==
  /\ pc = "idle"
  /\ successfulAssembly
  /\ InitializeMMIX(args)
  /\ pc' = "loop"
  /\ FreshLocals
  /\ UNCHANGED <<source, successfulAssembly, out>>

\* A mutation of LoopCondition: the deadline itself included.
DeadlineIncluded == cur <= Timeout /\ ~halted

\* The condition of the while loop.
LoopCondition == cur < Timeout /\ ~halted

\* Date.now(), since the run began.
Elapsed == clock

LoopBody ==
  /\ pc = "loop"
  /\ LoopCondition
  /\ batches < BatchesPerTick
  /\ cur' = Elapsed
  /\ PerformReturns
  /\ log' = Append(log, Entry(Decoded(stderrText'), Decoded(stdoutText')))
  /\ timedOut' = (cur' >= Timeout)
  /\ batches' = batches + 1
  /\ UNCHANGED <<pc, source, successfulAssembly, out, clock>>

\* The exception leaves runUserProgram: neither finalizeMMIX nor the assignment
\* to _out is reached.
LoopAbort ==
  /\ pc = "loop"
  /\ LoopCondition
  /\ batches < BatchesPerTick
  /\ PerformAborts
  /\ pc' = "idle"
  /\ UNCHANGED <<source, successfulAssembly, out, runVars>>

\* The mutation of RunResult: the output collected, complete or not.
PartialResult == log

RunResult == IF timedOut THEN TimeoutReport ELSE log

LoopExit ==
  /\ pc = "loop"
  /\ ~LoopCondition
  /\ Finalize
  /\ out' = RunResult
  /\ pc' = "idle"
  /\ UNCHANGED <<source, successfulAssembly, runVars>>

\* Time passes.  What counts is whether the deadline has come, so the clock stops
\* there; a run whose clock has stopped can only do one more batch.
Tick ==
  /\ pc = "loop"
  /\ clock < Timeout
  /\ clock' = clock + 1
  /\ batches' = 0
  /\ UNCHANGED <<glueVars, pc, source, successfulAssembly, out, log, cur, timedOut>>

Next ==
  \/ \E s \in Sources : Assemble(s)
  \/ \E args \in ArgLists : RunStart(args)
  \/ LoopBody
  \/ LoopAbort
  \/ LoopExit
  \/ Tick

Spec == Init /\ [][Next]_vars

\* A run that has been started is carried on, and time goes by while it is.
Fairness == WF_vars(LoopBody \/ LoopAbort \/ LoopExit) /\ WF_vars(Tick)

FairSpec == Spec /\ Fairness

-----------------------------------------------------------------------------
(***************************************************************************)
(* Properties.                                                             *)
(***************************************************************************)
Shown == [err : Texts, out : Texts]

\* Every variable, those of the module included, holds a value of its type.
TypeOK ==
  /\ GlueTypeOK
  /\ pc \in {"idle", "loop"}
  /\ source \in Sources \cup {Empty}
  /\ successfulAssembly \in BOOLEAN
  /\ out \in Seq(Shown)
  /\ log \in Seq(Shown)
  /\ cur \in 0..Timeout
  /\ timedOut \in BOOLEAN
  /\ clock \in 0..Timeout
  /\ batches \in 0..BatchesPerTick

\* What the module delivers of the first n batches of program p, in the order of
\* append(stdErr, stdOut).
Delivered(p, n) == [k \in 1..n |-> Entry(ErrOf(p, k), OutOf(p, k))]

\* An entry and what batch k of program p has really printed: each stream whole,
\* or nothing of it when it overflows.  A standard output that is lost leaves a line
\* on the standard error, unless that is lost too.
Overflows(stream, p, k) == <<stream, p, k>> \in Flooding

ShowsBatch(entry, p, k) ==
  /\ \/ entry.out = PrintedOut(p, k)
     \/ Overflows("out", p, k) /\ entry.out = NoText
  /\ \/ entry.err = PrintedErr(p, k)
     \/ Overflows("out", p, k) /\ entry.err = Asserted(p, k)
     \/ Overflows("err", p, k) /\ entry.err = NoText
  /\ entry.out # PrintedOut(p, k) /\ ~Overflows("err", p, k) => entry.err = Asserted(p, k)

ShowsBatches(entries, p, n) ==
  Len(entries) = n /\ \A k \in 1..n : ShowsBatch(entries[k], p, k)

Terminating == {p \in Program : Length[p] # Forever}

\* simulator.interface.ts: "Executes the user's MMIXAL program".  While the loop
\* of simulateWithTimeout drives an initialized machine, that machine holds the
\* program of the object file, and the outputs collected are what the module has
\* delivered of the batches it has executed, one entry for each in their order, and
\* none of an earlier run.
LogIsTheRun ==
  pc = "loop" /\ simInit => prog = mmo /\ log = Delivered(prog, done)

\* glue.h asks for an initialized simulator in is_halted, mmix_perform_instructions
\* and mmix_finalize_simulator: the loop, which calls the three, only runs when
\* initializeMMIX has succeeded.
LoopIsInitialized ==
  pc = "loop" => initialized = 1 /\ simInit

\* finalizeMMIX undoes initializeMMIX: no machine stays initialized, and no
\* stream redirected, between two calls of the interface.
NothingLeftBehind ==
  pc = "idle" => ~simInit /\ ~stuck

\* module_adapter.interface.ts: "Assembles MMIXAL source code via the WASM module.
\* Returns true on success."  After a success, the object file is the assembly of
\* the very source that was passed.
TrueMeansAssembled ==
  successfulAssembly => mmoNamed /\ mmo = source

\* simulator.interface.ts: "Executes the user's MMIXAL program".  The machine that the
\* loop drives holds the program whose source was last passed to assemble().
RunExecutesTheSource ==
  pc = "loop" /\ simInit => prog = source

\* glue.h: "On failure, get_stderr_pointer()/get_stderr_size() return assembler
\* error output."  From a failed assembly to the next one, what is displayed is the
\* error output for the source that failed.
FailureShowsItsErrors ==
  ~successfulAssembly /\ source # Empty => out = FailureReport(Diagnostics(source))

\* A run that is over shows the report of the timeout, or an entry for each batch of
\* its program up to the last, in their order and with each of its two streams
\* whole, but for a stream that overflows its buffer in that batch, of which there is
\* nothing (io_utils.c:18).  It never ends with batches missing, and shows no text of
\* another origin.
RunShowsEveryBatchOrTimeout ==
  [][ pc = "loop" /\ pc' = "idle" /\ prog \in Program
        => \/ out' = TimeoutReport
           \/ halted /\ ShowsBatches(out', prog, Length[prog]) ]_vars

\* Whatever has gone wrong before, the end of a run shows the timeout, or an entry for
\* each batch that the program in the machine has executed, complete in the same
\* sense, or no text at all.
EveryBatchOrNothing ==
  [][ pc = "loop" /\ pc' = "idle" /\ out' # out
        => \/ out' = TimeoutReport
           \/ halted /\ ShowsBatches(out', prog, done)
           \/ \A i \in DOMAIN out' : out'[i] = Entry(NoText, NoText) ]_vars

\* Once the loop has noticed the deadline the machine executes no further batch.
NoBatchAfterTimeout ==
  [][ timedOut => (done' = done \/ ~timedOut') ]_vars

\* simulateWithTimeout always returns, whatever the program, the arguments and
\* the state of the module.
RunTerminates == pc = "loop" ~> pc = "idle"

\* The session implements the promise of ISimulator: what Run would run is the
\* object file, provided the last assembly succeeded, and what a run shows is all
\* that the module delivers of the program: what overflows a buffer is not part of
\* the promise (see ShowsBatch).
Promise == INSTANCE SimulatorPromise WITH
  Nothing <- NoFile,
  Delivers <- [p \in Terminating |-> Delivered(p, Length[p])],
  Complaint <- [s \in Faulty |-> FailureReport(Diagnostics(s))],
  TooSlow <- TimeoutReport,
  Blank <- <<>>,
  ready <- IF successfulAssembly THEN mmo ELSE NoFile,
  running <- pc = "loop",
  shown <- out

KeepsThePromise == Promise!Spec
=============================================================================
