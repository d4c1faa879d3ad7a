------------------------------ MODULE MMIXGlue ------------------------------
(***************************************************************************)
(* The WASM module: the entry points of wasm/src/glue.c with everything    *)
(* they reach in assembler.c, simulator.c and io_utils.c.  One action per  *)
(* exported function that changes state.  A call is atomic: the module is  *)
(* single threaded and is only ever called from one JavaScript thread.     *)
(*                                                                         *)
(* mmixlib (the assembler and the MMIX machine) is external.  A program is *)
(* what it does batch by batch: Length[p] batches of instructions and then *)
(* it halts, or it never halts when Length[p] = Forever.                   *)
(***************************************************************************)
EXTENDS Integers, Sequences

CONSTANTS
  Program,      \* sources that mmixal assembles without an error
  Faulty,       \* sources in which mmixal finds an error
  TooLong,      \* sources of MAX_SRC_SIZE bytes or more
  LongListing,  \* the programs whose listing exceeds MAX_LISTING_SIZE
  Flooding,     \* what overflows: <<stream, program, batch>> for each stream whose
                \* log of one batch exceeds STD_OUT_SIZE or STD_ERR_SIZE
  Silent,       \* the programs that print nothing
  Hungry,       \* the programs whose last batch exhausts the WASM memory
  Length,       \* batches of instructions until each program halts
  NoFile,       \* program.mmo is absent
  Partial       \* program.mmo as left behind by a failed assembly

Forever == 0

ASSUME ProgramAssumption ==
  /\ LongListing \subseteq Program
  /\ Flooding \subseteq {"out", "err"} \X Program \X Nat
  /\ Silent \subseteq Program
  /\ \A flood \in Flooding : flood[2] \notin Silent
  /\ Hungry \subseteq Program
  /\ Length \in [Program -> Nat]

ASSUME SourceAssumption ==
  /\ Program \cap (Faulty \cup TooLong) = {}
  /\ Faulty \cap TooLong = {}
  /\ NoFile # Partial
  /\ {NoFile, Partial} \cap (Program \cup Faulty \cup TooLong) = {}

VARIABLES
  mmo,          \* the file program.mmo: NoFile, Partial or an assembled program
  mmoNamed,     \* glue.c's mmo[] holds the path (it is "" until then)
  listing,      \* what get_listing_pointer/size deliver
  stderrText,   \* what get_stderr_pointer/size deliver
  stdoutText,   \* what get_stdout_pointer/size deliver
  stuck,        \* io_utils.c's redirected flags: a call died while they were set
  initialized,  \* glue.c's flag, an int: -1, 0 or 1
  simInit,      \* simulator.c's g_simulator_initialized
  prog,         \* the program in the machine: NoFile, Partial or a program
  done,         \* batches the machine has executed of it
  halted        \* mmixlib's flag

fileVars  == <<mmo, mmoNamed, listing>>
textVars  == <<stderrText, stdoutText>>
machineVars == <<prog, done, halted>>
glueVars == <<fileVars, textVars, stuck, initialized, simInit, machineVars>>

-----------------------------------------------------------------------------
(***************************************************************************)
(* Texts.  A buffer and the recorded size of its content are one value:    *)
(* the text that decoding pointer and size yields.                         *)
(***************************************************************************)
TextKind == {"none", "lost", "assertion", "garbled", "diagnostics", "listing", "err", "asserted", "out", "timeout"}

Text(kind, of, batch) == [kind |-> kind, of |-> of, batch |-> batch]

NoText      == Text("none", NoFile, 0)       \* size 0
Lost        == Text("lost", NoFile, 0)       \* size (size_t)-1
Assertion   == Text("assertion", NoFile, 0)  \* log_error lines only
Garbled     == Text("garbled", NoFile, 0)    \* overwritten by somebody else's data
Diagnostics(s) == Text("diagnostics", s, 0)

Code == Program \cup {NoFile, Partial}
Texts == [kind : TextKind, of : Code \cup Faulty, batch : Nat]

\* restore_and_read: what a text written to a redirected stream is afterwards.
\* A flag still set makes redirect_stream fail, and the failed Redirect makes
\* restore_and_read return size -1.
Captured(text) == IF stuck THEN Lost ELSE text

-----------------------------------------------------------------------------
(* What the machine prints in its batch number k.                          *)

Prints(kind, p, k) == IF p \in Silent THEN NoText ELSE Text(kind, p, k)
PrintedOut(p, k) == Prints("out", p, k)
PrintedErr(p, k) == Prints("err", p, k)

\* What get_file_size leaves of it: of a log that is larger than its buffer,
\* nothing.  The standard output is restored first, so the ASSERT line about it
\* goes to the standard error stream, still redirected, behind what is there; the
\* line about the standard error goes to the console.
Asserted(p, k) == Text("asserted", p, k)
OutOf(p, k) == IF <<"out", p, k>> \in Flooding THEN NoText ELSE PrintedOut(p, k)
ErrOf(p, k) ==
  CASE <<"err", p, k>> \in Flooding -> NoText
    [] <<"err", p, k>> \notin Flooding /\ <<"out", p, k>> \in Flooding -> Asserted(p, k)
    [] OTHER -> PrintedErr(p, k)

GlueInit ==
  /\ mmo = NoFile
  /\ mmoNamed = FALSE
  /\ listing = Lost
  /\ stderrText = NoText
  /\ stdoutText = NoText
  /\ stuck = FALSE
  /\ initialized = 0
  /\ simInit = FALSE
  /\ prog = NoFile
  /\ done = 0
  /\ halted = FALSE

-----------------------------------------------------------------------------
(***************************************************************************)
(* assemble_mmixal(len), by what it finds in the source buffer.            *)
(***************************************************************************)

\* Whoever wrote the source wrote past the end of its buffer.  The listing buffer
\* is declared behind it: its content may be gone, its recorded size is not.
Overrun(text) == IF text \in {NoText, Lost} THEN text ELSE Garbled

\* The size check fails before the call touches anything, stderr_ref included.
AssembleTooLong ==
  /\ listing' \in {listing, Overrun(listing)}
  /\ UNCHANGED <<mmo, mmoNamed, textVars, stuck, initialized, simInit, machineVars>>

\* A mutation of AssembleFaulty: stderr_ref is not assigned.
AssembleFaultyUnread(s) ==
  /\ mmo' \in {NoFile, Partial}
  /\ listing' = NoText
  /\ UNCHANGED <<mmoNamed, textVars, stuck, initialized, simInit, machineVars>>

\* mmixal_w returns the number of errors.  It has opened program.mmo by then and,
\* unless it gave up early, written all of it (mmixal.w reports the errors last):
\* the file it leaves, if it leaves one, is object code of a faulty source.
AssembleFaulty(s) ==
  /\ mmo' \in {NoFile, Partial}
  /\ listing' = NoText
  /\ stderrText' = Captured(Diagnostics(s))
  /\ UNCHANGED <<mmoNamed, stdoutText, stuck, initialized, simInit, machineVars>>

\* read_to_heap refuses a listing larger than its buffer: size 0, and an ASSERT
\* line on the redirected standard error stream.
AssembleProgram(p) ==
  /\ mmo' = p
  /\ mmoNamed' = TRUE
  /\ listing' = IF p \in LongListing THEN NoText ELSE Text("listing", p, 0)
  /\ stderrText' = Captured(IF p \in LongListing THEN Assertion ELSE NoText)
  /\ UNCHANGED <<stdoutText, stuck, initialized, simInit, machineVars>>

AssembleSource(s) ==
  \/ s \in TooLong /\ AssembleTooLong
  \/ s \in Faulty /\ AssembleFaulty(s)
  \/ s \in Program /\ AssembleProgram(s)

AssembleReturnsZero(s) == s \in Program

-----------------------------------------------------------------------------
(***************************************************************************)
(* mmix_initialize_simulator(arg_count).                                   *)
(***************************************************************************)

\* copy_array_from_heap places the strings of the arguments in the buffer of the
\* standard error text, whose recorded size stays.
Borrowed(text, withArgs) ==
  IF withArgs /\ text \notin {NoText, Lost} THEN Garbled ELSE text

InitializeSucceeds == simInit \/ (mmoNamed /\ mmo # NoFile)

\* initialize_simulator returns 0 without loading anything when the simulator
\* is initialized already.
Load ==
  IF simInit
  THEN UNCHANGED machineVars
  ELSE prog' = mmo /\ done' = 0 /\ halted' = FALSE

Initialize(withArgs) ==
  /\ stderrText' = Borrowed(stderrText, withArgs)
  /\ IF InitializeSucceeds
     THEN initialized' = 1 /\ simInit' = TRUE /\ Load
     ELSE initialized' = 0 /\ UNCHANGED <<simInit, machineVars>>
  /\ UNCHANGED <<fileVars, stdoutText, stuck>>

-----------------------------------------------------------------------------
(***************************************************************************)
(* mmix_perform_instructions(n), n > 0.                                    *)
(***************************************************************************)

Running == simInit /\ ~halted

\* Does the machine halt in the next batch?  What an incomplete object file
\* does is not known.
HaltsNext(h) ==
  IF prog \in Program THEN h = (done + 1 = Length[prog]) ELSE h \in BOOLEAN

\* The next batch makes malloc fail, and the Emscripten runtime abort.
AbortsNext == prog \in Hungry /\ done + 1 = Length[prog]

\* The guard of glue.c fails: -1, and nothing is redirected.
PerformRefused ==
  /\ initialized = 0
  /\ UNCHANGED glueVars

\* glue.c's guard holds but execute_instructions asserts simulator.c's flag.
PerformUninitialized ==
  /\ initialized # 0
  /\ ~simInit
  /\ stderrText' = Captured(Assertion)
  /\ stdoutText' = Captured(NoText)
  /\ UNCHANGED <<fileVars, stuck, initialized, simInit, machineVars>>

\* The loop of execute_instructions breaks at once.
PerformHalted ==
  /\ initialized # 0
  /\ simInit
  /\ halted
  /\ stderrText' = Captured(NoText)
  /\ stdoutText' = Captured(NoText)
  /\ UNCHANGED <<fileVars, stuck, initialized, simInit, machineVars>>

PerformBatch ==
  /\ initialized # 0
  /\ Running
  /\ ~AbortsNext
  /\ done' = done + 1
  /\ \E h \in BOOLEAN : HaltsNext(h) /\ halted' = h
  /\ stderrText' = Captured(ErrOf(prog, done + 1))
  /\ stdoutText' = Captured(OutOf(prog, done + 1))
  /\ UNCHANGED <<fileVars, stuck, initialized, simInit, prog>>

\* The call never returns: a JavaScript exception leaves it, with both streams
\* redirected and everything else as it was.
PerformAborts ==
  /\ initialized # 0
  /\ Running
  /\ AbortsNext
  /\ stuck' = TRUE
  /\ UNCHANGED <<fileVars, textVars, initialized, simInit, machineVars>>

PerformReturns ==
  PerformRefused \/ PerformUninitialized \/ PerformHalted \/ PerformBatch

-----------------------------------------------------------------------------
(***************************************************************************)
(* mmix_finalize_simulator().  finalize_simulator's -1 is stored in        *)
(* initialized as it is.                                                   *)
(***************************************************************************)

\* A mutation of Finalize: it leaves g_simulator_initialized set.
FinalizeLeavingFlag ==
  /\ initialized' = IF simInit THEN 0 ELSE -1
  /\ UNCHANGED <<fileVars, textVars, stuck, simInit, machineVars>>

Finalize ==
  /\ initialized' = IF simInit THEN 0 ELSE -1
  /\ simInit' = FALSE
  /\ UNCHANGED <<fileVars, textVars, stuck, machineVars>>

-----------------------------------------------------------------------------
GlueTypeOK ==
  /\ mmo \in Code
  /\ mmoNamed \in BOOLEAN
  /\ listing \in Texts
  /\ stderrText \in Texts
  /\ stdoutText \in Texts
  /\ stuck \in BOOLEAN
  /\ initialized \in {-1, 0, 1}
  /\ simInit \in BOOLEAN
  /\ prog \in Code
  /\ done \in Nat
  /\ halted \in BOOLEAN
=============================================================================
