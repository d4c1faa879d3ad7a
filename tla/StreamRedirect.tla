---------------------------- MODULE StreamRedirect ----------------------------
(***************************************************************************)
(* The redirection of the standard streams, wasm/src/io_utils.c, with the  *)
(* calls of glue.c and assembler.c that redirect, and the files of the     *)
(* MMIX program that runs meanwhile, over the file system of MemoryFS.     *)
(*                                                                         *)
(* mmixal and the I/O traps of MMIX (mmix-io.w) are external.  glue.c      *)
(* accepts its calls in any order, and so does this module.                *)
(***************************************************************************)
EXTENDS MemoryFS, FiniteSets

CONSTANTS
  Source,       \* what is assembled
  Faulty,       \* the sources in which mmixal finds an error
  Handle,       \* the MMIX handles a program uses
  UserFile,     \* the files it opens
  Opens,        \* bound: how it opens them, pairs of a mode and whether it is a binary one
  Prints,       \* what a program writes at once: sequences of lines
  BufferLines,  \* STD_OUT_SIZE and STD_ERR_SIZE
  OpsPerBatch,  \* bound: I/O traps in a batch of instructions
  MaxLines,     \* bound: the length of a file when a call begins
  Lost          \* HeapRef.size = (size_t)-1

\* The files of the assembler and of the redirection.
Own == {"mms", "mmo", "listing", "stdout_log", "stderr_log"}

ASSUME RedirectAssumption ==
  /\ Path = UserFile \cup Own
  /\ Faulty \subseteq Source /\ Lost \notin Source
  /\ Handle \subseteq 0..255
  /\ Source \cup {"log"} \subseteq Line
  /\ Prints \subseteq Seq(Line)
  /\ BufferLines \in Nat \ {0}
  /\ OpsPerBatch \in Nat /\ MaxLines \in Nat

VARIABLES
  fs,           \* the file system
  flag,         \* g_stdout_redirected, g_stderr_redirected
  backup,       \* Redirect.backup_fileno of the call in progress
  sfile,        \* mmix-io's table of handles
  text,         \* what stdout_ref, stderr_ref and their buffers hold
  named,        \* glue.c's mmo[] holds the path
  initialized,  \* glue.c's initialized; g_simulator_initialized is set when it is 1
  pc,           \* where a call is
  ops,          \* I/O traps so far in this batch
  latest,       \* history: the source of the last assembly, and whether it succeeded
  troubled,     \* history: a redirection has failed, or a call has died
  meddled       \* history: a program has opened a file that is not its own

redirectVars ==
  <<fs, flag, backup, sfile, text, named, initialized, pc, ops, latest, troubled, meddled>>

StdStream == {"out", "err"}
Target == [out |-> 1, err |-> 2]
LogName == [out |-> "stdout_log", err |-> "stderr_log"]
Console == [out |-> "tty", err |-> "tty1"]
NoFd == -1
NoBackup == [s \in StdStream |-> NoFd]

\* sim_file_info: the FILE's descriptor, what the mode allows, whether it is a
\* binary one, and whether a change of direction is allowed.
FileInfo ==
  [fd : Fd \cup {NoFd}, can : SUBSET {"read", "write"}, binary : BOOLEAN, both : BOOLEAN]
NotOpen == [fd |-> NoFd, can |-> {}, binary |-> FALSE, both |-> FALSE]

\* mmix_io_init: the three handles that a program finds open.
Open3 ==
  [h \in 0..2 |-> [fd |-> h, can |-> IF h = 0 THEN {"read"} ELSE {"write"},
                   binary |-> FALSE, both |-> FALSE]]

\* log_error, to whatever stderr is at the moment.
Logged(f, n) == Write(f, 2, [i \in 1..n |-> "log"]).fs

-----------------------------------------------------------------------------
(* redirect_stream.                                                        *)

Redirect(f, fd, flagged) == [fs |-> f, backup |-> fd, flagged |-> flagged]

\* Mutations of Switched: the FILE of the log is not closed; dup2 is left out.
NotSwitched(f, log, s) == Close(f, log).fs
SwitchedKeepingLog(f, log, s) == Dup3(f, log, Target[s]).fs

Switched(f, log, s) == Close(Dup3(f, log, Target[s]).fs, log).fs

\* When the log cannot be opened the backup stays open, and nobody knows it.
Redirected(s) ==
  LET kept == Dup(fs, Target[s])
      log  == Open(kept.fs, LogName[s], "w")
  IN  CASE flag[s] -> Redirect(Logged(fs, 1), NoFd, TRUE)
        [] ~flag[s] /\ Fails(kept) -> Redirect(Logged(fs, 1), NoFd, FALSE)
        [] ~flag[s] /\ ~Fails(kept) /\ Fails(log) -> Redirect(Logged(log.fs, 1), kept.ret, FALSE)
        [] OTHER -> Redirect(Switched(log.fs, log.ret, s), kept.ret, TRUE)

\* A mutation of RedirectStream: the flag is set before anything has worked.
RedirectFlagFirst(s) ==
  LET r == Redirected(s) IN
  /\ fs' = r.fs
  /\ backup' = [backup EXCEPT ![s] = r.backup]
  /\ flag' = [flag EXCEPT ![s] = TRUE]
  /\ troubled' = (troubled \/ flag[s] \/ ~r.flagged)
  /\ UNCHANGED <<sfile, text, named, initialized, ops, latest, meddled>>

RedirectStream(s) ==
  LET r == Redirected(s) IN
  /\ fs' = r.fs
  /\ backup' = [backup EXCEPT ![s] = r.backup]
  /\ flag' = [flag EXCEPT ![s] = r.flagged]
  /\ troubled' = (troubled \/ flag[s] \/ ~r.flagged)
  /\ UNCHANGED <<sfile, text, named, initialized, ops, latest, meddled>>

-----------------------------------------------------------------------------
(* read_to_heap, restore_stream, restore_and_read.                         *)

\* A mutation of ReadToHeap: the file is not rewound after its size is known.
ReadToHeapAtEnd(f, name) ==
  LET file == Open(f, name, "r")
      gone == Unlink(f, name)
  IN  IF Fails(file) THEN [fs |-> Logged(gone.fs, 3), text |-> Lost]
      ELSE [fs |-> Unlink(Close(file.fs, file.ret).fs, name).fs, text |-> <<>>]

\* What the file system is, and what is read.  get_file_size drops what does not
\* fit; a file that cannot be opened is removed nevertheless.
ReadToHeap(f, name) ==
  LET file == Open(f, name, "r")
      rest == Rest(file.fs, file.ret)
      fits == Len(rest) <= BufferLines
      read == IF fits THEN Read(file.fs, file.ret).fs ELSE Logged(file.fs, 1)
      gone == Unlink(f, name)
  IN  IF Fails(file) THEN [fs |-> Logged(gone.fs, 3), text |-> Lost]
      ELSE [fs |-> Unlink(Close(read, file.ret).fs, name).fs,
            text |-> IF fits THEN rest ELSE <<>>]

RestoreStream(s) == Close(Dup3(fs, backup[s], Target[s]).fs, backup[s]).fs

Restored(s) ==
  LET r == ReadToHeap(RestoreStream(s), LogName[s]) IN
  IF flag[s] /\ backup[s] # NoFd THEN [fs |-> r.fs, text |-> r.text, flagged |-> FALSE]
  ELSE [fs |-> Logged(fs, 1), text |-> Lost, flagged |-> flag[s]]

-----------------------------------------------------------------------------
(* assemble_mmixal.                                                        *)

Calm(f) == \A n \in Node : Len(f.data[n]) <= MaxLines

Begin(where) ==
  /\ pc = "idle" /\ Calm(fs)
  /\ RedirectStream("err")
  /\ pc' = where

AssembleMMIXAL == Begin("assembling")

\* fopen, fwrite of everything, fclose: write_from_heap, and mmixal's own files.
Written(f, name, content) ==
  LET file == Open(f, name, "w") IN
  IF Fails(file) THEN file
  ELSE Result(Close(Write(file.fs, file.ret, content).fs, file.ret).fs, 0)

\* A message of mmixal.
Complain(f, s) == Write(f, 2, <<s>>).fs

\* mmixal has all its three files open at once.  It writes the object code and the
\* listing of every source, of a faulty one as well, and then counts the errors.
Mmixal(f, s) ==
  LET src  == Open(f, "mms", "r")
      obj  == Open(src.fs, "mmo", "w")
      lst  == Open(obj.fs, "listing", "w")
      code == Write(Write(lst.fs, obj.ret, <<s>>).fs, lst.ret, <<s>>).fs
      out  == IF s \in Faulty THEN Complain(code, s) ELSE code
  IN  CASE Fails(src) -> Result(Complain(f, s), -1)
        [] ~Fails(src) /\ Fails(obj) -> Result(Complain(Close(obj.fs, src.ret).fs, s), -1)
        [] ~Fails(src) /\ ~Fails(obj) /\ Fails(lst) ->
             Result(Complain(Close(Close(lst.fs, obj.ret).fs, src.ret).fs, s), -1)
        [] OTHER -> Result(Close(Close(Close(out, lst.ret).fs, obj.ret).fs, src.ret).fs,
                           IF s \in Faulty THEN 1 ELSE 0)

\* A mutation of AssembleSource: the program of the last assembly is not removed.
AssembleSourceOver(s) ==
  LET mms == Written(fs, "mms", <<s>>)
      run == Mmixal(mms.fs, s)
      lst == IF run.ret = 0 THEN ReadToHeap(run.fs, "listing").fs ELSE run.fs
  IN  /\ pc = "assembling"
      /\ pc' = "assembled"
      /\ IF Fails(mms) THEN fs' = Logged(mms.fs, 3) ELSE fs' = Unlink(lst, "mms").fs
      /\ latest' = [src |-> s, whole |-> ~Fails(mms) /\ run.ret = 0]
      /\ named' = (named \/ latest'.whole)
      /\ UNCHANGED <<flag, backup, sfile, text, initialized, ops, troubled, meddled>>

\* assemble_source.  The listing of a failed assembly is not read, so it stays.
AssembleSource(s) ==
  LET mms == Written(Unlink(fs, "mmo").fs, "mms", <<s>>)
      run == Mmixal(mms.fs, s)
      lst == IF run.ret = 0 THEN ReadToHeap(run.fs, "listing").fs ELSE run.fs
  IN  /\ pc = "assembling"
      /\ pc' = "assembled"
      /\ IF Fails(mms) THEN fs' = Logged(mms.fs, 3) ELSE fs' = Unlink(lst, "mms").fs
      /\ latest' = [src |-> s, whole |-> ~Fails(mms) /\ run.ret = 0]
      /\ named' = (named \/ latest'.whole)
      /\ UNCHANGED <<flag, backup, sfile, text, initialized, ops, troubled, meddled>>

\* The end of every call; perform_instructions reports what has been lost.
RestoreErr ==
  LET r == Restored("err")
      lost == pc = "executed" /\ (r.text = Lost \/ text["out"] = Lost)
  IN  /\ pc \in {"assembled", "executed"}
      /\ pc' = "idle"
      /\ fs' = IF lost THEN Logged(r.fs, 1) ELSE r.fs
      /\ text' = [text EXCEPT !["err"] = r.text]
      /\ flag' = [flag EXCEPT !["err"] = r.flagged]
      /\ backup' = NoBackup
      /\ ops' = 0
      /\ UNCHANGED <<sfile, named, initialized, latest, troubled, meddled>>

-----------------------------------------------------------------------------
(* mmix_initialize_simulator and mmix_finalize_simulator.                  *)

\* The handles above 2 are what the last program left of them.
IoInit == [h \in Handle |-> IF h \in 0..2 THEN Open3[h] ELSE sfile[h]]

\* A simulator that is initialized already answers 0.
Initialize ==
  /\ pc = "idle" /\ Calm(fs)
  /\ IF initialized = 1 THEN UNCHANGED <<fs, initialized, sfile>>
     ELSE IF named /\ Exists(fs, "mmo")
     THEN /\ initialized' = 1
          /\ sfile' = IoInit
          /\ UNCHANGED fs
     ELSE /\ initialized' = 0
          /\ fs' = Logged(fs, 2)
          /\ UNCHANGED sfile
  /\ UNCHANGED <<flag, backup, text, named, pc, ops, latest, troubled, meddled>>

\* glue.c keeps what finalize_simulator returns: of one that is not initialized -1,
\* with which mmix_perform_instructions goes on.
Finalize ==
  /\ pc = "idle" /\ Calm(fs)
  /\ IF initialized = 1 THEN initialized' = 0 /\ UNCHANGED fs
     ELSE initialized' = -1 /\ fs' = Logged(fs, 2)
  /\ UNCHANGED <<flag, backup, sfile, text, named, pc, ops, latest, troubled, meddled>>

-----------------------------------------------------------------------------
(* mmix_perform_instructions, and the I/O traps of the program.            *)

PerformInstructions == initialized # 0 /\ Begin("redirectOut")

PerformRefused ==
  /\ pc = "idle" /\ Calm(fs)
  /\ initialized = 0
  /\ fs' = Logged(fs, 1)
  /\ UNCHANGED <<flag, backup, sfile, text, named, initialized, pc, ops, latest, troubled, meddled>>

RedirectOut ==
  /\ pc = "redirectOut"
  /\ RedirectStream("out")
  /\ pc' = "executing"

\* execute_instructions executes nothing when the simulator is not initialized.
ExecuteRefused ==
  /\ pc = "executing" /\ initialized # 1
  /\ pc' = "refused"
  /\ fs' = Logged(fs, 1)
  /\ UNCHANGED <<flag, backup, sfile, text, named, initialized, ops, latest, troubled, meddled>>

Trap ==
  /\ pc = "executing" /\ initialized = 1 /\ ops < OpsPerBatch
  /\ ops' = ops + 1
  /\ UNCHANGED <<flag, backup, text, named, initialized, pc, latest, troubled>>

Std(h) == h \in 0..2 /\ sfile[h].fd = h

\* mmix_fclose keeps a standard stream open, and only forgets its mode.
Fclosed(h) ==
  IF sfile[h].can = {} \/ Std(h) THEN fs ELSE Close(fs, sfile[h].fd).fs

Fclose(h) ==
  /\ Trap /\ UNCHANGED meddled
  /\ fs' = Fclosed(h)
  /\ sfile' = [sfile EXCEPT ![h] = NotOpen]

Allowed(mode) == (IF mode = "w" THEN {} ELSE {"read"}) \cup (IF mode = "r" THEN {} ELSE {"write"})

\* A mutation of Fopen: it does not ask whether fopen has failed.
FopenUnchecked(h, name, mode, binary) ==
  /\ Trap
  /\ mode = "w+" => binary
  /\ meddled' = (meddled \/ name \in Own)
  /\ LET file == Open(Fclosed(h), name, mode) IN
     /\ fs' = file.fs
     /\ sfile' = [sfile EXCEPT ![h] =
          [fd |-> file.ret, can |-> Allowed(mode), binary |-> binary, both |-> mode = "w+"]]

Fopen(h, name, mode, binary) ==
  /\ Trap
  /\ mode = "w+" => binary
  /\ meddled' = (meddled \/ name \in Own)
  /\ LET file == Open(Fclosed(h), name, mode) IN
     /\ fs' = file.fs
     /\ sfile' = [sfile EXCEPT ![h] =
          IF Fails(file) THEN NotOpen
          ELSE [fd |-> file.ret, can |-> Allowed(mode), binary |-> binary, both |-> mode = "w+"]]

\* mmix_fputs, mmix_fwrite: after a write, reading needs a seek.
Fputs(h, lines) ==
  /\ Trap /\ UNCHANGED meddled
  /\ "write" \in sfile[h].can
  /\ fs' = Write(fs, sfile[h].fd, lines).fs
  /\ sfile' = [sfile EXCEPT ![h].can = IF sfile[h].both THEN {"write"} ELSE @]

Fread(h) ==
  /\ Trap /\ UNCHANGED meddled
  /\ "read" \in sfile[h].can
  /\ fs' = Read(fs, sfile[h].fd).fs
  /\ sfile' = [sfile EXCEPT ![h].can = IF sfile[h].both THEN {"read"} ELSE @]

\* mmix_fseek to the start: never of a text file, so of no standard stream.
Fseek(h) ==
  /\ Trap /\ UNCHANGED meddled
  /\ sfile[h].binary
  /\ fs' = Seek(fs, sfile[h].fd, 0).fs
  /\ sfile' = [sfile EXCEPT ![h].can = IF sfile[h].both THEN {"read", "write"} ELSE @]

\* The memory runs out in malloc: the call does not return.
Abort ==
  /\ pc = "executing" /\ initialized = 1
  /\ pc' = "idle"
  /\ backup' = NoBackup
  /\ ops' = 0
  /\ troubled' = TRUE
  /\ UNCHANGED <<fs, flag, sfile, text, named, initialized, latest, meddled>>

RestoreOut ==
  LET r == Restored("out") IN
  /\ pc = "refused" \/ (pc = "executing" /\ initialized = 1)
  /\ pc' = "executed"
  /\ fs' = r.fs
  /\ text' = [text EXCEPT !["out"] = r.text]
  /\ flag' = [flag EXCEPT !["out"] = r.flagged]
  /\ UNCHANGED <<backup, sfile, named, initialized, ops, latest, troubled, meddled>>

-----------------------------------------------------------------------------
RedirectInit ==
  /\ fs = StandardStreams
  /\ flag = [s \in StdStream |-> FALSE]
  /\ backup = NoBackup
  /\ sfile = [h \in Handle |-> NotOpen]
  /\ text = [s \in StdStream |-> Lost]
  /\ named = FALSE
  /\ initialized = 0
  /\ pc = "idle"
  /\ ops = 0
  /\ latest = [src |-> Lost, whole |-> FALSE]
  /\ troubled = FALSE
  /\ meddled = FALSE

ProgramStep ==
  \E h \in Handle :
    \/ \E name \in UserFile, mode \in Mode, binary \in BOOLEAN :
         <<mode, binary>> \in Opens /\ Fopen(h, name, mode, binary)
    \/ Fclose(h)
    \/ \E lines \in Prints : Fputs(h, lines)
    \/ Fread(h)
    \/ Fseek(h)

RedirectNext ==
  \/ AssembleMMIXAL
  \/ \E s \in Source : AssembleSource(s)
  \/ Initialize
  \/ PerformInstructions
  \/ PerformRefused
  \/ RedirectOut
  \/ ExecuteRefused
  \/ ProgramStep
  \/ Abort
  \/ RestoreOut
  \/ RestoreErr
  \/ Finalize

RedirectSpec == RedirectInit /\ [][RedirectNext]_redirectVars

-----------------------------------------------------------------------------
(* Properties.                                                             *)

RedirectTypeOK ==
  /\ fs \in FileSystem
  /\ flag \in [StdStream -> BOOLEAN]
  /\ backup \in [StdStream -> Fd \cup {NoFd}]
  /\ sfile \in [Handle -> FileInfo]
  /\ text \in [StdStream -> Seq(Line \cup {Hole}) \cup {Lost}]
  /\ named \in BOOLEAN /\ troubled \in BOOLEAN /\ meddled \in BOOLEAN
  /\ initialized \in {-1, 0, 1}
  /\ pc \in {"idle", "assembling", "assembled", "redirectOut", "executing", "refused", "executed"}
  /\ ops \in 0..OpsPerBatch
  /\ latest \in [src : Source \cup {Lost}, whole : BOOLEAN]

\* The flags of io_utils.c tell where the descriptors 1 and 2 lead: to the log
\* under its name while the flag is set, to the console while it is not.
FlagTellsTheTruth ==
  \A s \in StdStream :
    /\ fs.stream[Target[s]] # Closed
    /\ fs.stream[Target[s]].node = IF flag[s] THEN fs.dir[LogName[s]] ELSE Console[s]

\* A handle that a program may use has an open descriptor of its own that allows
\* what its mode promises: none that io_utils.c uses, and none of another handle,
\* whatever was open when descriptors were given out and taken back.
HandlesAreOpen ==
  \A h \in Handle :
    sfile[h].can # {} =>
      /\ sfile[h].fd \in OpenFds(fs)
      /\ Std(h) \/ (sfile[h].fd > 2 /\ fs.stream[sfile[h].fd].node \notin Terminal)
      /\ "read" \in sfile[h].can => fs.stream[sfile[h].fd].mode # "w"
      /\ "write" \in sfile[h].can => fs.stream[sfile[h].fd].mode # "r"
      /\ \A g \in Handle \ {h} : sfile[g].can # {} => sfile[g].fd # sfile[h].fd

\* Between two calls no descriptor of the redirection, of the assembler or of
\* their files is open, as long as every redirection has worked and no program has
\* opened one of those files itself.
NothingHeldBack ==
  pc = "idle" /\ ~troubled /\ ~meddled =>
    \A fd \in OpenFds(fs) \ 0..2 :
      \E name \in UserFile \ Own : fs.stream[fd].node = fs.dir[name]

\* program.mmo is never that of an earlier source than the last: it has the object
\* code of the last one, and only after a failed assembly perhaps nothing.  A program
\* may overwrite it.
NoStaleProgram ==
  pc # "assembling" /\ Exists(fs, "mmo") /\ ~meddled =>
    \/ fs.data[fs.dir["mmo"]] = <<latest.src>>
    \/ ~latest.whole /\ fs.data[fs.dir["mmo"]] = <<>>

\* Nothing that mmixal or a program prints reaches the console of the browser, as
\* long as every redirection has worked: not even after files have been opened and
\* closed on the handles of the standard streams.
PrintsAreCaptured ==
  ~troubled =>
    /\ pc \in {"assembling", "executing", "refused"} => fs.stream[2].node \notin Terminal
    /\ pc \in {"executing", "refused"} => fs.stream[1].node \notin Terminal

Free(f) == Cardinality(FreeFds(f))

\* A redirection succeeds when two descriptors are free and takes one of them, which
\* the restoration gives back, whatever has been open, closed and left open before.
RedirectionTakesOneDescriptor ==
  [][ /\ \A s \in StdStream :
           /\ ~flag[s] /\ flag'[s] => Free(fs') = Free(fs) - 1
           /\ flag[s] /\ ~flag'[s] => Free(fs') = Free(fs) + 1
      /\ pc = "redirectOut" /\ ~flag["out"] /\ Free(fs) > 1 => flag'["out"]
      /\ pc = "idle" /\ pc' \in {"assembling", "redirectOut"} /\ ~flag["err"] /\ Free(fs) > 1
           => flag'["err"]
    ]_redirectVars

\* What a stream's calls deliver is what has been printed to it meanwhile.
PrintedTo(s) == IF flag[s] THEN fs.data[fs.stream[Target[s]].node] ELSE <<>>

OutPromise == INSTANCE StreamPromise
  WITH captured <- flag["out"], printed <- PrintedTo("out"), text <- text["out"],
       disturbed <- meddled
ErrPromise == INSTANCE StreamPromise
  WITH captured <- flag["err"], printed <- PrintedTo("err"), text <- text["err"],
       disturbed <- meddled

\* io_utils.h: for each of the two streams, whatever system call fails, what is
\* printed between redirect and restore comes back whole and in order, or as Lost, as
\* long as no program has opened a file of the redirection or of the assembler.
KeepsThePromises == OutPromise!Promise /\ ErrPromise!Promise

\* What simulator.h promises of finalize_simulator: it removes the files that the
\* program has created.
FinalizeRemovesFiles ==
  [][initialized = 1 /\ initialized' # 1 => \A name \in UserFile : ~Exists(fs', name)]_redirectVars
=============================================================================
