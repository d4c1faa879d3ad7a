----------------------------- MODULE ModuleLoader -----------------------------
(***************************************************************************)
(* Loading the WASM module: wasm/factory.ts and the start of               *)
(* public/mmix.js.  Every page that connects asks for a module of its own; *)
(* they share the window, so the script, its global createMmixModule and   *)
(* the order in which the browser answers.                                 *)
(***************************************************************************)
EXTENDS Naturals

CONSTANTS
  Page,      \* the pages that connect, one after the other
  Streaming  \* WebAssembly.instantiateStreaming is there

ASSUME LoaderAssumption == Streaming \in BOOLEAN

VARIABLES
  defined,  \* createMmixModule is a global of the window
  load,     \* what each page's moduleFactory() waits for
  runtime   \* the module each page has created

loaderVars == <<defined, load, runtime>>

LoadState == {"none", "script", "streaming", "fetching", "instance", "module", "delivered", "null"}
Settled == {"module", "delivered", "null"}

NoRuntime == [deps |-> 0, calledRun |-> FALSE, initialized |-> FALSE, fs |-> "none", aborted |-> FALSE]

AddRunDependency(r) == [r EXCEPT !.deps = @ + 1]
RemoveRunDependency(r) == [r EXCEPT !.deps = @ - 1]

\* FS.staticInit makes the devices, which hold no descriptor yet.
StaticInit(r) == [r EXCEPT !.fs = "static"]

\* initRuntime: FS.init opens the standard streams.
InitRuntime(r) == [r EXCEPT !.initialized = TRUE, !.fs = "open"]

\* A mutation of Created: the dependency is added twice.
CreatedTwice == AddRunDependency(AddRunDependency(StaticInit(NoRuntime)))

\* createMmixModule up to its await.
Created == AddRunDependency(StaticInit(NoRuntime))

Awaited == IF Streaming THEN "streaming" ELSE "fetching"

LoaderInit ==
  /\ defined = FALSE
  /\ load = [p \in Page |-> "none"]
  /\ runtime = [p \in Page |-> NoRuntime]

-----------------------------------------------------------------------------
\* moduleFactory asks for the script unless it is there by now.
Requested(p) ==
  IF defined
  THEN load' = [load EXCEPT ![p] = Awaited] /\ runtime' = [runtime EXCEPT ![p] = Created]
  ELSE load' = [load EXCEPT ![p] = "script"] /\ UNCHANGED runtime

StartLoad(p) ==
  /\ load[p] = "none"
  /\ Requested(p)
  /\ UNCHANGED defined

\* script.onload.  The script may have failed to define the function; then calling
\* it throws, unless the script of another page has defined it.
ScriptArrives(p) ==
  /\ load[p] = "script"
  /\ \E works \in BOOLEAN : defined' = (defined \/ works)
  /\ IF defined'
     THEN load' = [load EXCEPT ![p] = Awaited] /\ runtime' = [runtime EXCEPT ![p] = Created]
     ELSE load' = [load EXCEPT ![p] = "null"] /\ UNCHANGED runtime

\* script.onerror.
ScriptFails(p) ==
  /\ load[p] = "script"
  /\ load' = [load EXCEPT ![p] = "null"]
  /\ UNCHANGED <<defined, runtime>>

\* instantiateAsync falls back to an ArrayBuffer.
StreamingFails(p) ==
  /\ load[p] = "streaming"
  /\ load' = [load EXCEPT ![p] = "fetching"]
  /\ UNCHANGED <<defined, runtime>>

\* abort() sets ABORT and throws.
Aborted(r) == [r EXCEPT !.aborted = TRUE]

\* getWasmBinary or instantiateArrayBuffer aborts, and moduleFactory catches.
FetchFails(p) ==
  /\ load[p] = "fetching"
  /\ load' = [load EXCEPT ![p] = "null"]
  /\ runtime' = [runtime EXCEPT ![p] = Aborted(@)]
  /\ UNCHANGED defined

\* receiveInstance.
Instantiated(p) ==
  /\ load[p] \in {"streaming", "fetching"}
  /\ load' = [load EXCEPT ![p] = "instance"]
  /\ runtime' = [runtime EXCEPT ![p] = RemoveRunDependency(@)]
  /\ UNCHANGED defined

\* A mutation of Run: the promise is resolved before the runtime is initialized.
RunBeforeInit(p) ==
  /\ load[p] = "instance"
  /\ runtime' = [runtime EXCEPT ![p].calledRun = TRUE]
  /\ load' = [load EXCEPT ![p] = "module"]
  /\ UNCHANGED defined

\* run, doRun, initRuntime: the promise of the module is resolved.
Run(p) ==
  /\ load[p] = "instance"
  /\ runtime[p].deps = 0 /\ ~runtime[p].calledRun /\ ~runtime[p].initialized
  /\ runtime' = [runtime EXCEPT ![p] = InitRuntime([@ EXCEPT !.calledRun = TRUE])]
  /\ load' = [load EXCEPT ![p] = "module"]
  /\ UNCHANGED defined

\* The then-callback of whoever has called moduleFactory.
Delivered(p) ==
  /\ load[p] = "module"
  /\ load' = [load EXCEPT ![p] = "delivered"]
  /\ UNCHANGED <<defined, runtime>>

Progress(p) ==
  \/ ScriptArrives(p) \/ ScriptFails(p)
  \/ StreamingFails(p) \/ FetchFails(p) \/ Instantiated(p)
  \/ Run(p)
=============================================================================
