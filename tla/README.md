# A TLA+ model of mmix-simulator

mmix-simulator is a web editor for MMIXAL, the assembly language of Knuth's MMIX.
A page assembles the text in its editor and runs the result in a simulator that is
compiled to WebAssembly; a Rails application keeps accounts and saved programs.

This directory models the program from the system calls of the WASM module's runtime up
to the buttons of the page, and the server's requests. TLC checks the modules on small
instances; TLAPS proves the most important properties for every instance.

* `PROJECT.json` maps every definition to the lines it stands for, and lists the runs,
  the mutations that show each property can be broken, the divergences found, the
  hazards and the theorems.
* `tlc -workers 2 -config Page.cfg MCIdeFacade.tla` checks a run, and
  `tlapm MMIXSimulator_proofs.tla` a module of proofs.

## 1. The system

### Inventory

| Component | Source | State | Operations | Model |
|---|---|---|---|---|
| WASM entry points | `wasm/src/glue.c` | `initialized`, `mmo[]`, references to the texts of stdout, stderr and the listing | assemble, initialize, perform n instructions, finalize, read registers and breakpoints | `MMIXGlue`; call by call in `StreamRedirect` (breakpoints not) |
| Assembler wrapper | `wasm/src/assembler.c` | source and listing buffers, `program.mmo` | `assemble_source` | `MMIXGlue` by its effect, `StreamRedirect` by its files |
| Stream redirection | `wasm/src/io_utils.c` | redirected flags, backup descriptors, two text buffers | redirect, restore and read, copy arguments | `StreamRedirect`; its promise in `StreamPromise` |
| Runtime and file system | `public/mmix.js` | streams, files, run dependencies, a module's state | open, close, dup, dup3, read, write, seek, unlink; start | `MemoryFS`, `ModuleLoader` (partly) |
| Simulator wrapper, breakpoints | `wasm/src/simulator.c` | `g_simulator_initialized`, breakpoint table | initialize, execute n, finalize, register reads | `MMIXGlue`, `RegisterWindow` (breakpoints not) |
| MMIX machine, assembler | mmixlib, `vendor/mmixware` | registers, memory, `halted`, file handles | one instruction | external; its register stack in `RegisterWindow`, its I/O in `StreamRedirect` |
| Module adapter | `moduleAdapter/module_adapter.ts` | none of its own | checks, encodes and decodes around each entry point | `MMIXSimulator` |
| Simulator class | `simulator/simulator.ts` | `_successfulAssembly`, `_out`, a run's locals | `assemble`, `runUserProgram`, `getStdOut`, `getListing`, `getRegisters` | `MMIXSimulator`; its promise in `SimulatorPromise` |
| Page controller and panels | `controllers/ide_facade_controller.ts`, `ide/*.ts` | buttons, panels, `edited`, the simulator | one handler per event | `IdeFacade`; over several pages `RegisterPanels` |
| Register panels | `ide/registers*.ts`, `ide/tabbed_registers.ts` | rendered rows, tab, open or not, tooltips | render, toggle, switch tab | `RegisterPanels`, `RegisterWindow` |
| WASM loader | `wasm/factory.ts`, `moduleAdapter/factory.ts` | the script element, a module per page | load, instantiate | `ModuleLoader` |
| Editor, highlighter | `ide/input.ts`, `ide/codemirror_adapter.ts`, `ide/mmixal_language.ts`, `ide/syntax_highlighter.ts` | a document, a textarea | change, tokenize, colour | `SourceText` |
| Line numbers | `controllers/line_numbers_controller.ts`, `formatter/` | a gutter | number | not modelled: wired to no page |
| User administration | `users_controller.rb`, `user.rb` | rows: role | update role, destroy | `Accounts` |
| Saved programs | `mmixal_programs_controller.rb`, `mmixal_program.rb` | rows: owner, title, source | create, update, destroy | `Accounts` (titles, not sources) |
| Sign-in, reset of passwords | `sessions_`, `passwords_`, `registrations_controller.rb`, `authentication.rb` | session rows, cookies, digests | sign in and out, reset | `Accounts` (sessions, not passwords) |
| Native runner (`models/output.rb`), layout, deployment | | | | not modelled: unused, or without a state |

### How the parts interact

```
 user events ─> IDEFacadeController ─> Simulator ─> ModuleAdapter ─> glue.c ─> assembler.c ─> mmixal
      │              │    panels           │ loop, Date.now()             │─> simulator.c ─> mmix machine
      │              └──────<── getStdOut, getListing, getRegisters ──<───┴─> io_utils.c ──┐
      │                                                                                   v
      └─ visits ─> loader (script, fetch) ─> start of the module ─────────────> mmix.js: streams, files
 form ─> requests ─> Rails controllers ─> tables: users, sessions, programs
```

A call into the module is synchronous on one JavaScript thread; only the loading of a
module is asynchronous, and only the server is concurrent. What makes the rest hard is
*state that outlives a call*:

* The module has two "initialized" flags, a file, four buffers with recorded sizes and
  two redirected flags, each updated on some paths of some entry points. An early
  return, an exception or a failed call leaves some of them describing the past.
* `simulateWithTimeout` polls a machine that may never halt, against a clock that
  advances while it does, and goes on when the initialization has failed.
* A redirection is five system calls, each of which may fail when descriptors are
  scarce, and the running program opens and closes files in between.
* The page has four panes and three buttons over one simulator, driven by the user's
  events in any order.
* Turbo keeps a copy of a page and shows it again: new objects over an old document,
  while the module of a page that has been left may still be loading.
* Fixed buffers: 3 KiB of source and of listing, 128000 bytes of output, 64 bytes of an
  argument; 4096 descriptors; a heap that cannot grow for ever.
* The machine's local registers turn in a ring, spill to memory and come back, and
  `simulator.c` reads the ring from outside.
* In Rails: checks and updates in separate statements, on several threads.

### What makes a component correct

* *Session*: what a run shows is every batch of the program that was assembled last, or
  a report of a timeout, and of a batch each stream whole, unless it overflows its buffer;
  errors shown are those of the text that failed; every run ends; nothing of one session
  reaches the next.
* *Redirection*: what is printed between redirect and restore is delivered whole and in
  order, or not at all; the flags tell where the descriptors lead; no descriptor is lost.
* *Page*: what can be run, and what is shown, is of the text in the editor, unless that is
  empty; listing, output and registers are of the same run.
* *Loader*: every load ends; a page only calls a module of its own that is initialized.
* *Text*: two colourings of a text keep its characters and agree.
* *Register file*: no routine loses a register or sees one of another; what the page
  shows as `$k` is the program's `$k`.
* *Server*: an administrator remains; titles of a user's programs are distinct; no
  session and no program outlives its user.

## 2. The modules

| Module | What it is |
|---|---|
| `MMIXGlue` | the WASM module: state of glue.c, assembler.c, simulator.c, io_utils.c; one operator per entry point |
| `MMIXSimulator` | extends it with the adapter and class `Simulator`; the session's properties |
| `SimulatorPromise` | what `ISimulator` promises, without machine, files or clock; `MMIXSimulator` implements it |
| `IdeFacade` | extends `MMIXSimulator` with a page: one action per event handler |
| `MemoryFS` | streams, files and consoles of mmix.js; one operator per system call |
| `StreamRedirect` | extends it with io_utils.c, the calls of glue.c and assembler.c that redirect, and a program's files |
| `StreamPromise` | what io_utils.h promises of one stream; `StreamRedirect` implements it for two |
| `ModuleLoader` | the script, the fetches and the start of a module, for every page that asks |
| `RegisterPanels` | extends it with visits, copies of pages, the register panels, tabs and tooltips |
| `SourceText` | the document, the form, both colourings |
| `RegisterStack` | what MMIX promises to a program about its registers: frames, calls and returns |
| `RegisterWindow` | the ring of local registers of mmix-sim.w, and `get_general_register_data`; it implements `RegisterStack` |
| `Accounts` | the server's requests, statement by statement |
| `MC...` | the instances that TLC checks |
| `..._proofs` | the theorems: of `MMIXSimulator`, `IdeFacade`, `RegisterPanels`, `SourceText`, `Accounts`, `StreamRedirect` (with the lemmas about `MemoryFS`), `RegisterWindow` |
| `NaturalSets` | what these share about natural numbers: a least element, induction over a set of them, remainders |

### MMIXGlue

A *program* is a source that assembles, and is known by what it does batch by batch
(1000 instructions in the code): it halts in its batch number `Length[p]`, or never
(`Forever`). Constant sets say which programs are silent, have a listing that does not
fit, or exhaust the memory (`Hungry`), and which stream overflows its buffer in which
batch (`Flooding`). `PrintedOut` and `PrintedErr` are what a program prints in a batch;
`OutOf` and `ErrOf` are what get_file_size (io_utils.c:18) leaves of it: nothing of a stream
that overflows in this batch, and then, if it is the standard output, an assertion in the
standard error. The batches around it are delivered. A text is a kind and what
it is of, e.g. the diagnostics of a source or the standard output of batch 2 of a
program; a buffer and the recorded size of its content are one value, the text that
decoding the two yields.

Each operator is a whole entry point, with all it reaches. `AssembleTooLong` is the
early return of glue.c:34, which leaves stderr_ref alone. `AssembleFaulty` leaves the
object code of a faulty source in `program.mmo`, or no file (`Partial`, `NoFile`); a
machine that is given it never halts. `Initialize` returns at once, and loads nothing,
if simulator.c's flag is set; it places the arguments in the buffer of the error text.
`PerformRefused`, `PerformUninitialized`, `PerformHalted`, `PerformBatch` and
`PerformAborts` are the outcomes of mmix_perform_instructions: glue.c's guard,
simulator.c's assertion, a loop that breaks at once, a batch, and an abort of the
runtime that leaves the streams redirected (`stuck`). `Finalize` stores -1 in glue.c's
int flag when simulator.c refuses.

### MMIXSimulator

`assemble()` is one step. `runUserProgram()` is a step up to the loop, one per
iteration, and one after the loop. No other call can come between these steps, but time
does: `Tick` advances the clock. `cur` is what the loop read of it last, so a batch can
begin before the deadline and be judged after it. The adapter's exceptions are
modelled where they leave the code: an overlong argument is caught and the loop runs
all the same; an abort leaves `runUserProgram` (`LoopAbort`).

### IdeFacade

The events are an edit, the buttons Assemble, Run, Listing and Arguments, typing
arguments, and the headers of the register panels; a disabled button has no action.
`RunClicked`, `RunBatch`, `RunTick`, and `RunReturns` or `RunThrows` are one handler,
and every other event waits for `pc = "idle"`. A page starts with `connect()` and a
module of its own, so a reload is a new behaviour. `registersOf` says which machine,
after how many batches, has its registers on display.

### MemoryFS and StreamRedirect

The state of the file system is a value, and a system call an operator from one value to
the next and what the call returns, as mmix.js computes it: `Open` creates or empties the
file *before* it looks for a free descriptor, `NextFd` can give out `MAX_OPEN_FDS`, which
`Dup3` refuses, `Dup` shares the position of the stream it copies, `Dup3` closes the
stream it replaces, `Unlink` leaves the file to whoever has it open. Files are sequences
of lines; every path is a plain name.

`StreamRedirect` writes io_utils.c with these operators, error path by error path:
`Redirected` has the four ways in which redirect_stream ends, `Restored` those of
restore_and_read. `AssembleMMIXAL`, `AssembleSource`, `RestoreErr` are a call of
mmix_assemble; `PerformInstructions`, `RedirectOut`, a program's I/O traps, `RestoreOut`,
`RestoreErr` are one of mmix_perform_instructions, so that what the program does to the
table of streams happens between the two redirections. `Abort` is a call that does not
return. glue.c accepts its calls in any order, and so does the module: `Finalize` of a simulator
that is not initialized leaves -1 in glue.c's flag, with which a later perform passes
glue.c's guard and is refused by simulator.c, between the redirections
(`ExecuteRefused`). `Mmixal` opens its source, object and listing files at once, writes
object code and listing, and then counts the errors (mmixal.w 1267-1283 and 3248-3262), so
a faulty source leaves object code too, which nothing removes before the next assembly.
The traps
(`Fopen`, `Fclose`, `Fputs`, `Fread`, `Fseek`) are external code, after mmix-io.w, where
only a file opened in a binary mode may be positioned: never a standard handle.

`StreamPromise` knows no descriptor and no file: a stream is captured, what is printed
meanwhile grows, and is delivered whole, or dropped if it does not fit, or the call says
that it is lost. The mapping takes what has been printed from the file behind descriptor 1
or 2. Nothing keeps a program from opening the files of the simulator, which lie beside
its own; when it does, `meddled` is set and the promise ends (`disturbed`).

### ModuleLoader and RegisterPanels

`load[p]` is what page p's `moduleFactory()` waits for: the script, the streaming
instantiation, the fallback, the module. The browser answers in any order and may fail
each request; two pages share the window, hence the global function and the script.
`runtime[p]` is the module's own state: its run dependencies, whether it has been
started, initialized, aborted, and whether the standard streams are open.

`RegisterPanels` composes this with what Turbo does: `Visit` and `Leave` keep a copy of
the document, `Restore` shows it again, and every page gets new objects. `dom` is what
the user sees; `isOpen`, `tabCount`, `allData` and `tip` are fields of the objects.

### SourceText

A text is a sequence of lexemes, each standing for characters that no definition tells
apart. `Tokenized` is the stream parser of mmixal_language.ts, with the `inString` that it
carries from line to line; `Highlight` is syntax_highlighter.ts. `Lines`, `Tokens` and
`Tokenized` are recursive functions, of a line's number or of what is left of a line, so
that theorems can be proved about them. The editor keeps a document and copies it to the
form at every change; the colours are those of the form.

### RegisterWindow

Machine state as in mmix-sim.w: `l` (the ring), `O`, `L`, `G`, `g`. The register stack
in memory is the sequence of octas below rS, all the machine reads back, so S is its
length. Actions are the instructions that move or write the window: `SetX` (any
instruction with destination $X, raising rL as needed), `Push`, `Pop`, `PutL`, `PutG`.
A store or load of the stack is part of the instruction it happens in. A program is any
sequence of these in which every POP has its PUSHJ. The refinement mapping to
`RegisterStack` follows the holes that PUSHJ leaves downward from O to recover the
callers' frames, wherever their registers are.

### Accounts

A request is an `Ask...` action, which authenticates it and reads what it is about, and an
action for every further statement: the count of administrators (`CheckRole`) and the
update of the role (`WriteRole`), the search for a title (`ValidateProgram`) and the
insertion. Between two of them any statement of another request may come. A deletion is a
transaction of several statements: it loads the sessions and destroys them
(`DestroySessions`), then the programs, then the user (`DeleteUser`), where the foreign
keys of schema.rb make it fail, and roll back, if a dependent has been inserted since they
were loaded. What it has changed others see when it commits, as in PostgreSQL, the
database of production. The queries of default_title_for are one read. `crossed`
remembers whether two requests that could disturb each other have overlapped at all; the
rules are stated for both cases.

## 3. What TLC checks

| Run | States | Question | Result |
|---|---|---|---|
| `page` | 298,000 | a page and its simulator within the limits of the code, with batches that overflow a buffer | nine properties of the session and the panels, `KeepsThePromise` among them |
| `adverse_page` | 1.56 million | the same with every adversity at once | Run, output and listing are of the text last assembled; runs end, and show every batch or nothing |
| `files` | 1.55 million | redirection and files, any system call may fail | flags, descriptors and texts agree; `KeepsThePromises` |
| `visits` | 195,000 | three pages, loading in any order and failing in any way | every load settles; panels agree with their objects |
| `text` | 47,000 | every text of a few lexemes that editing leads to | the colourings keep the text and agree |
| `registers` | 62,000 | the ring of local registers | no overrun; it implements the register stack |
| `accounts` | 1.78 million | requests that interleave statement by statement | the rules hold unless two such requests overlap; two hold always |
| `empty_source` | violation | does Run execute the source last passed? | after the empty source, an earlier program |
| `stale_listing` | violation | is there a listing after a failure? | after seven events, that of an earlier program |
| `shown_registers` | violation | does the page show the program's `$k`? | not within a subroutine |
| `left_files` | violation | does finalize remove the program's files? | none |
| `last_admin` | violation | can the last administrator be demoted? | by two requests at once |

### Divergences between the code and what is said of it

1. **`empty_source`** `assembleMMIXAL("")` returns true and calls nothing, so Run stays
   possible with the object file as it was. The interface says of a run "Executes the
   user's MMIXAL program"; the trace assembles a program, then the empty source, and runs:
   the machine holds the first program.
2. **`stale_listing`** `sourceEdited` enables the listing button when `edited` is false,
   whatever the last assembly was.
3. **`shown_registers`** (a bug) `get_general_register_data` computes
   `(0 + index) & get_local_ring_mask()`; the machine keeps `$index` at
   `(O + index) & lring_mask`. A program that halts or times out inside a subroutine is
   shown with registers of its main program.
4. **`left_files`** `finalize_simulator` "removes files or assets created by the user's
   mmix program", says simulator.h; it removes none, and the next program finds them.
5. **`last_admin`** (a bug) The count of administrators and the update that follows are
   two statements without a lock: two requests that each demote one of the last two
   administrators both count two.

What follows can be read off the models and has no run of its own. An overlong
argument makes `initializeMMIX` throw; the exception is caught, the loop entered, and the
user told of a timeout. A failed finalize leaves -1, which is true, in glue.c's flag. An
abort skips the finalize, so the page runs the aborted program for good, with its
streams redirected for good. The second successful assembly in a row closes the listing.
A source that is too long is refused before stderr_ref is updated, so older errors are
shown (glue.c:34). A listing longer than 3 KiB is dropped although the assembly
succeeds (assembler.c:64). A redirection that fails because the log cannot be opened
loses the descriptor of its backup (io_utils.c:53). A batch that prints more than the
buffer holds loses all of that stream, between batches that are shown whole
(io_utils.c:18). On a page restored from a copy the first run closes the panels that were
open (registers.ts:15). Two administrators who delete each other at once leave none, and
two overlapping requests can store one title twice. The registers are read after the
finalize, while simulator.h:50 asks for an initialized simulator.

The page run that passes everything is under the assumption these call for: `Page.cfg`
leaves out the empty source, sources and arguments that do not fit and programs that
exhaust the memory; `AdversePage.cfg` has them all and checks what still holds.

### Bounds, and why they are enough

* Sessions: `Timeout = 2` (`1` with adversities) and `BatchesPerTick = 2`: a run can
  end in the tick before the deadline, in the tick of it, with the deadline noticed at
  the first or at a later batch. 800 ms and the real number of batches add repetitions of
  these cases. Once the deadline has come the clock stops: nothing distinguishes later
  instants. Programs of 1, 2 and 3 batches and one that never halts can halt before, at,
  and after the deadline. One program overflows the standard output in the first of two
  batches, one the standard error in its second and both streams in its last, so that a run
  shows some batches whole and others in part; one has a long listing. With adversities
  there are the flooding one and one that exhausts the memory in its second batch; what
  never halts is there the object code of a faulty source. Two faulty sources (one with
  adversities) tell errors apart. Sessions are
  unbounded: the state space is finite because nothing accumulates between calls.
* `Files.cfg`: `MaxOpenFds = 6` leaves four descriptors beside the standard streams. mmixal
  alone takes three under a redirection that takes one, and a program's files take up to
  two, so every open of every call is reached with and without room. One trap in a batch
  (`OpsPerBatch`), but any number of batches; files of one line when a call begins
  (`MaxLines`) and a buffer of one line, so that a text fits, or is one too long. A
  standard handle (1) and another (3). The program opens a file of its own, `data`, only
  (`UserFile`), as a text to read or as a binary file to read and write (`Opens`), which
  keeps a file that is missing, one that is emptied and a change of direction; its standard
  handle is the text that it writes. With the simulator's files or all five modes the run
  would take too long. The theorems have neither restriction.
* `Visits.cfg`: three pages, so that a copy of a copy is restored and two loads overlap
  with a third; two tabs; two tooltips.
* `Text.cfg`: five lexemes, beside the initial texts: a label, an operation and an operand,
  or an open string and a second line.
* `Registers.cfg`: `Ring = 4` with rG of 2 or 3 (256, and 32 to 255, in the code): the ring
  is one longer than the largest window, as in the code, so a call and its callee
  overfill it. `MaxO = 5` makes it turn once and spill. Values are 0 and 1.
* `Accounts.cfg`: two users (one a founder), two browsers, two programs, one chosen title
  beside the numbered ones. The hazards are of two requests about two rows; titles are
  numbered up to the number of programs. Browsers and programs are interchangeable, and
  `Symmetry` permutes them; users are not, for one is the founder. No liveness is
  checked in that run.

`CHECK_DEADLOCK FALSE` stands in the runs whose system may really stop: when all accounts
are deleted, when the visits that are counted are used up, and when every descriptor or
file has reached its bound.

### Fairness

`FairPageSpec` has weak fairness of the handler of Run (`RunBatch \/ RunThrows \/
RunReturns`) and of `RunTick`. A handler runs to completion and the
clock goes on; no fairness is given to the user's events. `batches < BatchesPerTick`
stands for the time a batch takes: a tick must come before the next. Batches always
return: `execute_instructions` is bounded by its argument, though an instruction that
blocks (a read of standard input) is the external machine's. `FairVisitSpec` has weak
fairness of each page's load: the browser answers every request, with success or failure,
and calls back; the user need not do anything.

## 4. What is proved

For all constants, from the assumptions that the modules name:

| Theorem | Assumes | Says |
|---|---|---|
| `TypeCorrect` | | every variable of a session has its type |
| `RunsAreClean` | `NothingAborts` | nothing stays initialized or redirected between calls |
| `LogsAreTheRun` | `NothingAborts` | what a run has collected is the output of the batches of the program in `program.mmo` |
| `SessionIsSound` | `WellBehaved` | success means assembled; errors shown are of the source that failed; the loop's machine is initialized |
| `RunsShowEveryBatchOrTimeout` | `WellBehaved` | a run shows the timeout, or every batch of its program in order, each stream whole unless it overflows in its batch, whichever do |
| `RunsShowEveryBatchOrNothing` | | with every adversity: the timeout, every batch executed since the program was loaded, complete in the same sense, or no text |
| `TimeoutStopsTheMachine` | | no batch once the loop has noticed the deadline |
| `SessionKeepsThePromise` | `WellBehaved` | every step of a session is a step of `SimulatorPromise`, or a stutter |
| `PageTypeCorrect` | | every variable of the page has its type |
| `PageIsASession` | | a page implements `Spec`: the theorems above hold on pages |
| `PanelsFollowTheEditor` | | Run is enabled only for the text last passed to assemble(), with its object file in place, unless the text is empty |
| `OutputFollowsTheEditor` | | the output on display is the latest, beside the text last assembled, and has nothing of another source unless that text is empty or too long |
| `ErrorsStandAlone` | | no listing beside errors |
| `ListingsAreOfTheEditor` | | an open listing beside the text assembled last is what the module delivers as its listing |
| `RunExecutesTheEditor` | `WellBehaved` | what a run executes is the program of the text in the editor |
| `RegistersAreOfTheOutput` | `WellBehaved` | registers and output on display are of the same run |
| `VisitTypeCorrect`, `ModulesAreInitialized` | | for any number of pages and any order of their loads: a module is called only when initialized, once |
| `PagesShowTheirModule`, `FreshPanelsStayInAgreement`, `RunsShowTheSelectedTab` | | the panels show the module of their page, agree with their objects, and show the selected tab |
| `TextTypeCorrect` | | whatever is typed, document and form stay texts |
| `ColouringsKeepTheText`, `CommentsAlwaysAgree`, `OperationsAlwaysAgree`, `LinesStandAlone` | | for texts of any length: both colourings keep the text, agree on comments and on operations, and a change recolours no line but those it changes, where the strings in front are closed (stated in the properties) |
| `AccountsTypeCorrect`, `RowsAlwaysHaveOwners`, `DeletedStayDeleted` | | for any number of users, browsers and programs, whatever requests overlap: no session and no program outlives its user, and a deleted account stays deleted |
| `AdministratorAlwaysRemains`, `TitlesStayUnique` | | as long as no two requests of the kind have overlapped (stated in the property) |
| `RegistersAreTyped`, `RingAlwaysHasRoom` | `RegistersAssumption`, `RingAssumption` | for a ring of any power of two that holds the marginal registers, and any depth of calls: rL never passes rG, a place of the ring is free between two instructions, and nothing of the running routine is in memory only |
| `StackIsKept` | the same | every instruction of `RegisterWindow` is a step of `RegisterStack`, or a stutter: calls keep and returns restore what the caller had |
| `RedirectIsTyped`, `FlagsTellTheTruth`, `AllHandlesAreOpen` | `NodesNeverRunOut` | whatever system call fails: the flags of io_utils.c tell where descriptors 1 and 2 lead, and every handle has an open descriptor of its own, in its mode |
| `AllPrintsAreCaptured` | `NodesNeverRunOut` | nothing a program prints reaches the console while every redirection has worked (stated in the property) |
| `RedirectionIsOneDescriptor` | `NodesNeverRunOut` | a redirection takes one descriptor, works if two are free, and its restoration gives the descriptor back |
| `NoProgramIsStale` | `NodesNeverRunOut` | program.mmo has the object code of the last source, or only after a failed assembly perhaps nothing, and never an earlier source's, until a program opens a file of the simulator |
| `StreamsKeepThePromises` | `NodesNeverRunOut` | io_utils.c implements `StreamPromise`, for both streams at once: what is printed comes back whole and in order, or dropped for its length, or as lost, until a program opens a file of the simulator |
| `NothingIsHeldBack` | `NodesNeverRunOut` | between two calls no descriptor is open but the consoles and the program's own files, while every redirection has worked and no program has opened a file of the simulator |

`NothingAborts` is `Hungry = {}`. `WellBehaved` adds: no source too long, no empty
source, no overlong argument. Each is needed: the divergences of section 3 are what
happens without it.

The arguments. None of the invariants is inductive alone; each theorem names the
strengthening that is, which is checked action by action, and the temporal steps follow
by PTL.

* *Sessions.* `RunInv` adds to "nothing is left behind" that no stream is stuck, that
  glue.c's flag follows simulator.c's when idle and in the loop (`FlagFollows`), and that a
  machine that has halted has executed all batches of its program (`HaltedAtTheEnd`):
  without the last, a loop that ends because `halted` is set says nothing about the
  output. `SessionInv` adds that the program in the loop is one that was accepted, and
  that a loop that leaves at the deadline knows it (`DeadlineNoticed`: `cur >= Timeout`
  implies `timedOut`), which excludes the partial output. `TimeoutInv` is the converse.
  With adversities, `AdverseInv` says what the loop has collected by the state in which it
  found the module (`Collected`): an initialized machine whose streams are not stuck gives
  the program's output, one whose streams are stuck gives blanks, and a machine that was
  not initialized and says it has halted gives nothing at all.
* *Pages.* `PageInv` adds `RunningIsEnabled`, that a run is only under way on a page that is
  ready with Run enabled, so that its end shows the output of the text in the editor; it
  holds with every adversity, for the page relies on `successfulAssembly` only. The
  listing needs `ListingFollows`: whatever is in the editor, the text of the panel, open or
  closed, is the module's last listing while the last assembly is a success.
* *Loading and panels.* `LoaderInv` says for each thing a page can wait for what its runtime
  is by then, in particular that one dependency is outstanding from the creation to the
  instance, which is removed once. `PanelInv` describes the document of a page before and
  after its module is there (`Shown`), and when it is no copy, its agreement with the
  objects.
* *Text.* `TextInv` says that the form is the document, a text. That is all the sessions
  give; the rest is about the two algorithms. `Tokens` recurses over what is left of a
  line, with one function of the number of lexemes left: that it exists is proved first
  (`ScansExist`), then what it computes, by induction on that number. What goes through is
  that the state of the scan is the parity of the quotes behind it (`Open`): a token out of
  a string that is no comment contains no percent sign out of a string and ends where the
  parity is its next state (`TokenAlong`), so that the first such sign, which
  `findCommentStart` looks for by counting, starts the editor's comment
  (`ScanKeepsComment`). An operation behind blank space is never in the middle of a token,
  for a token out of a string is blank or has no blank (`TokenBeforeOperation`). The same
  induction over lines says that every line behind closed ones is read in the state FALSE
  (`ClosedTokens`).
* *Accounts.* `AdminInv`: while none has overlapped, at most one request administers users,
  what it has read is still so, and what it is about to write spares an administrator.
  That rows have owners needs no such condition: the last statement of a deletion finds every
  dependent loaded, or is rolled back.
  `TitleInv` is the same for titles: at most one request stores for a user, and what it has
  found unique has no clash. That `default_title_for` finds a free number at all is a
  pigeonhole argument on finite sets (`DefaultTitleIsFree`).
* *Registers.* `WindowInv` speaks of one array, the octas, whose places from 0 to S are the
  register stack in memory and from S to O + L the ring, each place of the ring standing
  for the octa that is congruent to it. It says that the ring holds no two octas in one
  place, and that the holes that PUSHJ has left form a trail from O down to the first
  frame (`HolesLead`): each is where the one above says, with its own count of registers
  below it. A spill or a load moves the border S and no octa. Callers' frames are
  recursive functions of the trail; what they are after a step is proved by
  induction over the set of depths at which it is so (`InductionOverNat`).
* *Streams.* Above the file system the proofs speak only of what a descriptor leads to
  (`Seen`: nothing, or a node and a mode) and which file a path names; the first part of
  `StreamRedirect_proofs` says for each system call which of these it keeps (`Keeps`). `RedirectInv` adds to the flags
  that during a call the backup is an open descriptor of the console above 2
  (`StreamOK`): without it nothing says that closing the backup closes no file of the
  program, nor that the program closes no backup. A handle is as the start of the
  program left it, or has a descriptor above 2 on a plain file (`HandlesOK`), so the
  two never meet. A call without trouble has set its flags (`CallOK`).
  `NodesNeverRunOut` is that paths are finitely many and nodes are not: the
  browser can always make a file.
* *Contents.* `FilesInv` says of the logs and of program.mmo that each has one name and at
  most one descriptor, which stands at its end (`Sole`). So what is written to any other
  descriptor does not change it, and what is written to its own only appends: a log is a
  prefix of the same log later, until its stream is restored. Every function of io_utils.c,
  assembler.c and glue.c keeps this or says what it puts in its place (`Quiet`, `Holding`), and a step is then a
  step of the promise of each stream (`KeepsPromise`). All of it is stated for
  as long as no program has opened one of the five files of the simulator (`meddled`):
  they lie in the same directory, nothing in the code protects them, and a program that
  opens `stdout_log.txt` does empty it. The theorems assume nothing about which files a
  program opens.
  `HeldInv` follows which descriptors a call may open and close (`OnlyOn`); their number
  is then counted (`RedirectionIsOneDescriptor`). The proof of `AllHandlesAreOpen` found
  an error in the model: `Fseek` let a program rewind the log of its own output, which
  mmix-io.w refuses because the standard handles are text.

Only model-checked: liveness (`RunTerminates`, `RunEndsVisibly`, `LoadsSettle`, and the
fairness of the promise, which makes `KeepsThePromise` more than its proved step part).
Every invariant and action property of the passing runs is proved.

## 5. What is not modelled

* In a session: sources of NUL bytes, the pointer guards of module_adapter.ts:32-42, what
  lies behind an overrun buffer other than the listing, an instruction that waits for
  input (prompts of the console).
* In mmix.js: directories, links other than the standard streams, permissions, mounts,
  sockets, memory growth, what is only there for Node.js: the module's C code reaches none
  of it with a plain name in the root.
* On a page: the Enter key in the field of the arguments, scrolling, styling.
  `highlight()` is used by no view; it is modelled, for it says in a second way what the
  editor's language says. The formatter and the line numbers controller, which no page
  registers, are not.
* In the register file: SAVE, UNSAVE other than the initial one, a POP without a call, which
  reads memory below the stack segment, the special registers' copies.
* Breakpoints: the table, and the setters that glue.c exports (`set_breakpoint`,
  `clear_breakpoint`). The page calls neither, so `has_exec_breakpoint_w` never holds in a
  session.
* On the server: passwords, tokens and cookies' contents, rate limits, the sources of the
  programs (an update stores what the page submits, so the later of two pages wins),
  the inline editing of a title, mail, the cable connection. `models/output.rb` is called
  by no controller.

## 6. Plan

Done, in this order: `MMIXGlue`, `MMIXSimulator`, `SimulatorPromise`; `IdeFacade`;
`RegisterStack`, `RegisterWindow`; `MemoryFS`, `StreamPromise`, `StreamRedirect`;
`ModuleLoader`, `RegisterPanels`; `SourceText`; `Accounts`; and the proofs of section 4.

What would add most from here:

1. `MMIXExecution`: `execute_instructions` instruction by instruction, with exec
   breakpoints and the `resuming` flag that one batch leaves to the next. Abstract
   specification: one unbroken execution; the batches implement it.
2. The sources of saved programs under two open pages, and the special registers' copies.
3. With the first: that the batches implement one execution, proved for every size of a batch.
