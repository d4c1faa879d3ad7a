------------------------------- MODULE MemoryFS -------------------------------
(***************************************************************************)
(* The file system of the WASM module, public/mmix.js: the table of open   *)
(* streams, MEMFS, the terminal devices, and the system calls that the C   *)
(* library reaches them by.  The state is a value fs; a call yields        *)
(* [fs |-> the file system after it, ret |-> what it returns].             *)
(*                                                                         *)
(* Paths are whole (everything lives in the root or in /dev), a file is a  *)
(* sequence of lines, and a node that no entry and no stream refers to is  *)
(* gone, as the garbage collector of the browser has it.                   *)
(***************************************************************************)
EXTENDS Integers, Sequences

CONSTANTS
  Path,        \* the files the module and its programs give a name to
  Node,        \* identities of plain files
  MaxOpenFds,  \* FS.MAX_OPEN_FDS
  Line,        \* what is written
  Hole,        \* what a write behind the end of a file leaves before it
  NoNode, Closed

Fd == 0..MaxOpenFds

\* /dev/tty and /dev/tty1: the consoles out() and err() write to.
Terminal == {"tty", "tty1"}

\* The links of createStandardStreams.
Link == [stdin |-> "tty", stdout |-> "tty", stderr |-> "tty1"]

ENOENT == -44
EMFILE == -33
EBADF == -8
EINVAL == -28
ESPIPE == -70

Mode == {"r", "w", "w+"}

\* An open file description: FSStream.shared, and the node.  Streams made by dup
\* have the description, so also its position, in common: the same id.
Stream == [id : Fd, node : Node \cup Terminal, mode : Mode, pos : Nat]

ASSUME FSAssumption ==
  /\ MaxOpenFds \in Nat /\ MaxOpenFds > 2
  /\ NoNode \notin Node \cup Terminal
  /\ Node \cap Terminal = {}
  /\ Path \cap DOMAIN Link = {}
  /\ Hole \notin Line
  /\ Closed \notin Stream

FileSystem ==
  [ dir : [Path -> Node \cup {NoNode}],
    data : [Node -> Seq(Line \cup {Hole})],
    stream : [Fd -> Stream \cup {Closed}] ]

-----------------------------------------------------------------------------
(* Streams.                                                                *)

OpenFds(fs) == {fd \in Fd : fs.stream[fd] # Closed}

Smallest(S) == CHOOSE n \in S : \A m \in S : n <= m

\* nextfd: the search includes MAX_OPEN_FDS itself.
FreeFds(fs) == Fd \ OpenFds(fs)
NextFd(fs) == Smallest(FreeFds(fs))

\* An identity not in use; the preferred one, to keep the states few.
Fresh(preferred, free) == IF preferred \in free THEN preferred ELSE CHOOSE x \in free : TRUE

FreshId(fs) == Fresh(NextFd(fs), Fd \ {fs.stream[fd].id : fd \in OpenFds(fs)})

\* A node is alive while an entry or a stream refers to it.
Alive(fs, n) ==
  \/ \E p \in Path : fs.dir[p] = n
  \/ \E fd \in OpenFds(fs) : fs.stream[fd].node = n

Collected(fs) ==
  [fs EXCEPT !.data = [n \in Node |-> IF Alive(fs, n) THEN fs.data[n] ELSE <<>>]]

Result(fs, ret) == [fs |-> fs, ret |-> ret]
Fails(r) == r.ret < 0

IsOpen(fs, fd) == fs.stream[fd] # Closed

\* createStream: FS.streams[fd] is set.
SetStream(fs, fd, s) == [fs EXCEPT !.stream[fd] = s]

\* FS.close: the descriptor is free again.
CloseStream(fs, fd) == Collected(SetStream(fs, fd, Closed))

\* dupStream: the copy shares the description.
DupStream(fs, fd, newfd) == SetStream(fs, newfd, fs.stream[fd])

\* The position is shared.
Moved(fs, fd, pos) ==
  [fs EXCEPT !.stream =
    [f \in Fd |-> IF fs.stream[f] # Closed /\ fs.stream[f].id = fs.stream[fd].id
                  THEN [fs.stream[f] EXCEPT !.pos = pos] ELSE fs.stream[f]]]

-----------------------------------------------------------------------------
(* Files.                                                                  *)

Lookup(fs, path) == IF path \in DOMAIN Link THEN Link[path] ELSE fs.dir[path]

Exists(fs, path) == Lookup(fs, path) # NoNode

FreshNode(fs, path) == Fresh(path, {n \in Node : ~Alive(fs, n)})

\* mknod.
Created(fs, path) ==
  LET n == FreshNode(fs, path) IN [fs EXCEPT !.dir[path] = n, !.data[n] = <<>>]

\* doTruncate.
Truncated(fs, path) == [fs EXCEPT !.data[fs.dir[path]] = <<>>]

\* What writing a file asks for before it is opened.  A device has no content.
Prepared(fs, path, mode) ==
  CASE mode = "r" \/ Lookup(fs, path) \in Terminal -> fs
    [] mode # "r" /\ ~Exists(fs, path) -> Created(fs, path)
    [] OTHER -> Truncated(fs, path)

Opened(fs, path, mode) ==
  SetStream(fs, NextFd(fs), [id |-> FreshId(fs), node |-> Lookup(fs, path), mode |-> mode, pos |-> 0])

\* openat.  The file has been created, or emptied, by the time the search for a
\* free descriptor fails.
Open(fs, path, mode) ==
  IF mode = "r" /\ ~Exists(fs, path) THEN Result(fs, ENOENT)
  ELSE LET there == Prepared(fs, path, mode) IN
       IF FreeFds(fs) = {} THEN Result(there, EMFILE)
       ELSE Result(Opened(there, path, mode), NextFd(fs))

\* fd_close.
Close(fs, fd) ==
  IF IsOpen(fs, fd) THEN Result(CloseStream(fs, fd), 0) ELSE Result(fs, EBADF)

\* dup, and dup3, which closes the stream it replaces.
Dup(fs, fd) ==
  CASE ~IsOpen(fs, fd) -> Result(fs, EBADF)
    [] IsOpen(fs, fd) /\ FreeFds(fs) = {} -> Result(fs, EMFILE)
    [] OTHER -> Result(DupStream(fs, fd, NextFd(fs)), NextFd(fs))

Dup3(fs, fd, newfd) ==
  CASE ~IsOpen(fs, fd) -> Result(fs, EBADF)
    [] fd = newfd -> Result(fs, EINVAL)
    [] newfd >= MaxOpenFds -> Result(fs, EBADF)
    [] OTHER -> Result(Collected(DupStream(fs, fd, newfd)), newfd)

Longer(m, n) == IF m > n THEN m ELSE n

\* MEMFS.stream_ops.write.
Overlaid(old, pos, lines) ==
  [ i \in 1..Longer(Len(old), pos + Len(lines)) |->
      IF pos < i /\ i <= pos + Len(lines) THEN lines[i - pos]
      ELSE IF i <= Len(old) THEN old[i] ELSE Hole ]

\* A console: a write goes to out() or err() and leaves nothing behind, what a read
\* brings is not followed, and there is no position.
IsConsole(fs, fd) == fs.stream[fd].node \in Terminal

\* FS.write: into the file at the position.
Stored(fs, fd, lines) ==
  LET s == fs.stream[fd] IN
  Moved([fs EXCEPT !.data[s.node] = Overlaid(@, s.pos, lines)], fd, s.pos + Len(lines))

\* fd_write.
Write(fs, fd, lines) ==
  CASE ~IsOpen(fs, fd) \/ fs.stream[fd].mode = "r" -> Result(fs, EBADF)
    [] IsOpen(fs, fd) /\ IsConsole(fs, fd) -> Result(fs, Len(lines))
    [] OTHER -> Result(Stored(fs, fd, lines), Len(lines))

\* MEMFS.stream_ops.read of everything up to the end.
Rest(fs, fd) ==
  LET s == fs.stream[fd] IN
  IF IsConsole(fs, fd) THEN <<>> ELSE SubSeq(fs.data[s.node], s.pos + 1, Len(fs.data[s.node]))

\* fd_read; what it reads is Rest.
Read(fs, fd) ==
  IF IsOpen(fs, fd) /\ fs.stream[fd].mode # "w"
  THEN Result(Moved(fs, fd, fs.stream[fd].pos + Len(Rest(fs, fd))), Len(Rest(fs, fd)))
  ELSE Result(fs, EBADF)

\* fd_seek to an offset from the start.
Seek(fs, fd, offset) ==
  CASE ~IsOpen(fs, fd) -> Result(fs, EBADF)
    [] IsOpen(fs, fd) /\ IsConsole(fs, fd) -> Result(fs, ESPIPE)
    [] IsOpen(fs, fd) /\ ~IsConsole(fs, fd) /\ offset < 0 -> Result(fs, EINVAL)
    [] OTHER -> Result(Moved(fs, fd, offset), offset)

\* unlinkat.  A stream that has the file open keeps it.
Unlink(fs, path) ==
  IF ~Exists(fs, path) THEN Result(fs, ENOENT)
  ELSE Result(Collected([fs EXCEPT !.dir[path] = NoNode]), 0)

-----------------------------------------------------------------------------
(* FS.staticInit, and FS.init when the runtime is initialized.             *)

EmptyFS ==
  [ dir |-> [p \in Path |-> NoNode],
    data |-> [n \in Node |-> <<>>],
    stream |-> [fd \in Fd |-> Closed] ]

StandardStreams ==
  LET in  == Open(EmptyFS, "stdin", "r")
      out == Open(in.fs, "stdout", "w")
  IN  Open(out.fs, "stderr", "w").fs
=============================================================================
