------------------------ MODULE StreamRedirect_proofs ------------------------
(***************************************************************************)
(* Theorems about StreamRedirect, for any number of descriptors, handles,  *)
(* files and traps, whatever system call fails: the flags of io_utils.c    *)
(* tell where the standard streams lead, nothing that is printed during a  *)
(* call escapes, every handle of a program has a descriptor of its own,    *)
(* and redirections take one descriptor at most.  For programs that open   *)
(* none of the simulator's own files, no assembled program is stale, no    *)
(* answered call withholds what was printed in it, and both streams keep   *)
(* what StreamPromise promises.                                            *)
(***************************************************************************)
EXTENDS StreamRedirect, NaturalSets, FiniteSetTheorems, SequenceTheorems, TLAPS

(***************************************************************************)
(* What each system call of MemoryFS leaves of the file system: which      *)
(* streams are open, on what, in which mode, and which file a path names.  *)
(***************************************************************************)

USE FSAssumption

\* What a descriptor leads to: nothing, or a node and what its mode allows.
On(n, m) == [node |-> n, mode |-> m]
Seen(f, fd) ==
  IF f.stream[fd] = Closed THEN {} ELSE {On(f.stream[fd].node, f.stream[fd].mode)}

\* A call that opens, closes and renames nothing.
Same(f, h) ==
  /\ h \in FileSystem
  /\ h.dir = f.dir
  /\ \A fd \in Fd : Seen(h, fd) = Seen(f, fd)

\* Calls that leave what is open as it is, and the files that the paths in P name.
Keeps(f, h, P) ==
  /\ h \in FileSystem
  /\ \A fd \in Fd : Seen(f, fd) # {} => Seen(h, fd) = Seen(f, fd)
  /\ \A p \in P : f.dir[p] # NoNode => h.dir[p] = f.dir[p]

LEMMA SameIsTransitive ==
  ASSUME NEW f, NEW g, NEW h, Same(f, g), Same(g, h)
  PROVE  Same(f, h)
BY DEF Same

LEMMA KeepsIsTransitive ==
  ASSUME NEW f, NEW g, NEW h, NEW P, Keeps(f, g, P), Keeps(g, h, P)
  PROVE  Keeps(f, h, P)
BY DEF Keeps

LEMMA SameKeeps ==
  ASSUME NEW f, NEW h, NEW P, Same(f, h)
  PROVE  Keeps(f, h, P)
BY DEF Same, Keeps

LEMMA FieldTypes ==
  ASSUME NEW f \in FileSystem
  PROVE  /\ f.dir \in [Path -> Node \cup {NoNode}]
         /\ f.data \in [Node -> Seq(Line \cup {Hole})]
         /\ f.stream \in [Fd -> Stream \cup {Closed}]
BY DEF FileSystem

LEMMA StreamTypes ==
  ASSUME NEW f \in FileSystem, NEW fd \in Fd
  PROVE  /\ f.dir \in [Path -> Node \cup {NoNode}]
         /\ f.data \in [Node -> Seq(Line \cup {Hole})]
         /\ f.stream \in [Fd -> Stream \cup {Closed}]
         /\ f.stream[fd] # Closed => f.stream[fd] \in Stream
BY DEF FileSystem

-----------------------------------------------------------------------------
(* Streams.                                                                *)

LEMMA SetStreamFields ==
  ASSUME NEW f \in FileSystem, NEW fd \in Fd, NEW s \in Stream \cup {Closed}
  PROVE  /\ SetStream(f, fd, s) \in FileSystem
         /\ SetStream(f, fd, s).dir = f.dir
         /\ SetStream(f, fd, s).data = f.data
         /\ SetStream(f, fd, s).stream = [f.stream EXCEPT ![fd] = s]
BY StreamTypes DEF SetStream, FileSystem

LEMMA CollectedIsSame ==
  ASSUME NEW f \in FileSystem
  PROVE  Same(f, Collected(f))
<1>1. [n \in Node |-> IF Alive(f, n) THEN f.data[n] ELSE <<>>] \in [Node -> Seq(Line \cup {Hole})]
  BY DEF FileSystem
<1> QED
  BY <1>1 DEF Collected, Same, Seen, FileSystem

LEMMA MovedIsSame ==
  ASSUME NEW f \in FileSystem, NEW fd \in Fd, NEW pos \in Nat
  PROVE  Same(f, Moved(f, fd, pos))
<1> DEFINE moved == [k \in Fd |-> IF f.stream[k] # Closed /\ f.stream[k].id = f.stream[fd].id
                       THEN [f.stream[k] EXCEPT !.pos = pos] ELSE f.stream[k]]
<1>1. ASSUME NEW k \in Fd, f.stream[k] # Closed
      PROVE  LET s == [f.stream[k] EXCEPT !.pos = pos]
             IN  s \in Stream /\ s # Closed /\ s.node = f.stream[k].node /\ s.mode = f.stream[k].mode
  <2>1. f.stream[k] \in Stream
    BY <1>1, StreamTypes
  <2> QED
    BY <2>1 DEF Stream
<1>2. moved \in [Fd -> Stream \cup {Closed}]
  BY <1>1, StreamTypes
<1>3. ASSUME NEW k \in Fd
      PROVE  /\ (moved[k] = Closed) = (f.stream[k] = Closed)
             /\ moved[k] # Closed => moved[k].node = f.stream[k].node /\ moved[k].mode = f.stream[k].mode
  BY <1>1
<1>4. /\ Moved(f, fd, pos) \in FileSystem
      /\ Moved(f, fd, pos).dir = f.dir
      /\ Moved(f, fd, pos).stream = moved
  BY <1>2 DEF Moved, FileSystem
<1> HIDE DEF moved
<1> QED
  BY <1>3, <1>4 DEF Same, Seen

\* A descriptor is given a stream, or loses it.
LEMMA SetStreamSeen ==
  ASSUME NEW f \in FileSystem, NEW fd \in Fd, NEW s \in Stream \cup {Closed}
  PROVE  /\ SetStream(f, fd, s) \in FileSystem
         /\ SetStream(f, fd, s).dir = f.dir
         /\ Seen(SetStream(f, fd, s), fd) = IF s = Closed THEN {} ELSE {On(s.node, s.mode)}
         /\ \A k \in Fd \ {fd} : Seen(SetStream(f, fd, s), k) = Seen(f, k)
<1> DEFINE g == SetStream(f, fd, s)
<1>1. g \in FileSystem /\ g.dir = f.dir /\ g.stream = [f.stream EXCEPT ![fd] = s]
  BY SetStreamFields
<1>2. DOMAIN f.stream = Fd
  BY StreamTypes
<1> HIDE DEF g
<1>3. g.stream[fd] = s /\ \A k \in Fd \ {fd} : g.stream[k] = f.stream[k]
  BY <1>1, <1>2
<1>4. Seen(g, fd) = IF s = Closed THEN {} ELSE {On(s.node, s.mode)}
  BY <1>3 DEF Seen
<1>5. \A k \in Fd \ {fd} : Seen(g, k) = Seen(f, k)
  BY <1>3 DEF Seen
<1> QED
  BY <1>1, <1>4, <1>5 DEF g

LEMMA CloseStreamSeen ==
  ASSUME NEW f \in FileSystem, NEW fd \in Fd
  PROVE  /\ CloseStream(f, fd) \in FileSystem
         /\ CloseStream(f, fd).dir = f.dir
         /\ Seen(CloseStream(f, fd), fd) = {}
         /\ \A k \in Fd \ {fd} : Seen(CloseStream(f, fd), k) = Seen(f, k)
<1> DEFINE g == SetStream(f, fd, Closed)
<1>1. /\ g \in FileSystem /\ g.dir = f.dir /\ Seen(g, fd) = {}
      /\ \A k \in Fd \ {fd} : Seen(g, k) = Seen(f, k)
  BY SetStreamSeen
<1>2. Same(g, Collected(g))
  BY <1>1, CollectedIsSame
<1> HIDE DEF g
<1>3. CloseStream(f, fd) = Collected(g)
  BY Zenon DEF CloseStream, g
<1> QED
  BY <1>1, <1>2, <1>3 DEF Same

\* nextfd finds a free descriptor when there is one.
LEMMA NextFdIsFree ==
  ASSUME NEW f \in FileSystem, FreeFds(f) # {}
  PROVE  NextFd(f) \in Fd /\ Seen(f, NextFd(f)) = {}
<1>1. FreeFds(f) \in SUBSET Nat
  BY DEF FreeFds, Fd
<1>2. \E n \in FreeFds(f) : \A m \in FreeFds(f) : n <= m
  BY <1>1, LeastElement
<1>3. NextFd(f) \in FreeFds(f)
  BY <1>2 DEF NextFd, Smallest
<1> QED
  BY <1>3 DEF FreeFds, OpenFds, Seen

\* A new description finds an identity: there are fewer open streams than descriptors.
LEMMA FreshIdIsOne ==
  ASSUME NEW f \in FileSystem, FreeFds(f) # {}
  PROVE  FreshId(f) \in Fd /\ \A fd \in OpenFds(f) : f.stream[fd].id # FreshId(f)
<1> DEFINE ids == {f.stream[fd].id : fd \in OpenFds(f)}
           idOf == [fd \in OpenFds(f) |-> f.stream[fd].id]
<1>1. PICK free \in Fd : free \notin OpenFds(f)
  BY DEF FreeFds
<1>2. IsFiniteSet(Fd) /\ Cardinality(Fd) \in Nat
  BY FS_Interval, FS_CardinalityType DEF Fd
<1>3. IsFiniteSet(Fd \ {free}) /\ Cardinality(Fd \ {free}) = Cardinality(Fd) - 1
  BY <1>2, FS_RemoveElement
<1>4. IsFiniteSet(OpenFds(f)) /\ Cardinality(OpenFds(f)) <= Cardinality(Fd) - 1
  <2>1. OpenFds(f) \in SUBSET (Fd \ {free})
    BY <1>1 DEF OpenFds
  <2> QED
    BY <1>3, <2>1, FS_Subset
<1>5. IsFiniteSet(ids) /\ Cardinality(ids) <= Cardinality(OpenFds(f))
  <2>1. idOf \in Surjection(OpenFds(f), ids)
    BY DEF Surjection
  <2> QED
    BY <1>4, <2>1, FS_Surjection
<1>6. Fd \ ids # {}
  <2>1. SUFFICES ASSUME Fd \in SUBSET ids PROVE FALSE
    OBVIOUS
  <2>2. Cardinality(Fd) <= Cardinality(ids)
    BY <1>5, <2>1, FS_Subset
  <2>3. Cardinality(ids) \in Nat /\ Cardinality(OpenFds(f)) \in Nat
    BY <1>4, <1>5, FS_CardinalityType
  <2> QED
    BY <1>2, <1>4, <1>5, <2>2, <2>3
<1>7. FreshId(f) = Fresh(NextFd(f), Fd \ ids)
  BY Zenon DEF FreshId
<1>8. \A fd \in OpenFds(f) : f.stream[fd].id \in ids
  OBVIOUS
<1> HIDE DEF ids
<1>9. FreshId(f) \in Fd \ ids
  BY <1>6, <1>7 DEF Fresh
<1> QED
  BY <1>8, <1>9

-----------------------------------------------------------------------------
(* Reading and writing.                                                    *)

Texts == Seq(Line \cup {Hole})

LEMMA OverlaidIsText ==
  ASSUME NEW old \in Texts, NEW pos \in Nat, NEW lines \in Seq(Line)
  PROVE  Overlaid(old, pos, lines) \in Texts
<1> DEFINE n == Longer(Len(old), pos + Len(lines))
           at(i) == IF pos < i /\ i <= pos + Len(lines) THEN lines[i - pos]
                    ELSE IF i <= Len(old) THEN old[i] ELSE Hole
<1>1. n \in Nat
  BY DEF Longer, Texts
<1>2. ASSUME NEW i \in 1..n PROVE at(i) \in Line \cup {Hole}
  <2>1. CASE pos < i /\ i <= pos + Len(lines)
    <3>1. i - pos \in 1..Len(lines)
      BY <1>1, <2>1
    <3>2. lines[i - pos] \in Line
      BY <3>1
    <3> QED
      BY <2>1, <3>2
  <2>2. CASE ~(pos < i /\ i <= pos + Len(lines))
    BY <1>1, <2>2 DEF Texts
  <2> QED
    BY <2>1, <2>2
<1>3. Overlaid(old, pos, lines) = [i \in 1..n |-> at(i)]
  BY Zenon DEF Overlaid
<1> HIDE DEF n, at
<1> QED
  BY <1>1, <1>2, <1>3 DEF Texts

LEMMA StoredIsSame ==
  ASSUME NEW f \in FileSystem, NEW fd \in Fd, NEW lines \in Seq(Line),
         f.stream[fd] # Closed, ~IsConsole(f, fd)
  PROVE  Same(f, Stored(f, fd, lines))
<1> DEFINE s == f.stream[fd]
           written == [f.data EXCEPT ![s.node] = Overlaid(@, s.pos, lines)]
           g == [f EXCEPT !.data[s.node] = Overlaid(@, s.pos, lines)]
<1>1. s.node \in Node /\ s.pos \in Nat
  BY StreamTypes DEF Stream, IsConsole
<1>2. f.data[s.node] \in Texts
  BY <1>1, StreamTypes DEF Texts
<1>3. Overlaid(f.data[s.node], s.pos, lines) \in Texts
  BY <1>1, <1>2, OverlaidIsText
<1>4. g = [f EXCEPT !.data = written]
  BY DEF FileSystem
<1>5. written \in [Node -> Texts]
  BY <1>3, StreamTypes DEF Texts
<1> HIDE DEF written, g
<1>6. g \in FileSystem /\ g.dir = f.dir /\ g.stream = f.stream
  BY <1>4, <1>5 DEF FileSystem, Texts
<1>7. Same(f, g)
  BY <1>6 DEF Same, Seen
<1>8. s.pos + Len(lines) \in Nat
  BY <1>1
<1>9. Same(g, Moved(g, fd, s.pos + Len(lines)))
  BY <1>6, <1>8, MovedIsSame
<1>10. Stored(f, fd, lines) = Moved(g, fd, s.pos + Len(lines))
  BY Zenon DEF Stored, g
<1> QED
  BY <1>7, <1>9, <1>10, SameIsTransitive

LEMMA SameItself ==
  ASSUME NEW f \in FileSystem
  PROVE  Same(f, f)
BY DEF Same

LEMMA WriteIsSame ==
  ASSUME NEW f \in FileSystem, NEW fd \in Fd, NEW lines \in Seq(Line)
  PROVE  Same(f, Write(f, fd, lines).fs)
BY StoredIsSame, SameItself DEF Write, Result, IsOpen

LEMMA RestIsText ==
  ASSUME NEW f \in FileSystem, NEW fd \in Fd, f.stream[fd] # Closed
  PROVE  Rest(f, fd) \in Texts
<1>1. CASE IsConsole(f, fd)
  BY <1>1 DEF Rest, Texts
<1>2. CASE ~IsConsole(f, fd)
  <2>1. f.stream[fd].node \in Node /\ f.stream[fd].pos \in Nat
    BY <1>2, StreamTypes DEF Stream, IsConsole
  <2>2. f.data[f.stream[fd].node] \in Texts
    BY <2>1, StreamTypes DEF Texts
  <2> QED
    BY <1>2, <2>1, <2>2 DEF Rest, Texts
<1> QED
  BY <1>1, <1>2

LEMMA ReadIsSame ==
  ASSUME NEW f \in FileSystem, NEW fd \in Fd
  PROVE  Same(f, Read(f, fd).fs)
<1>1. CASE f.stream[fd] = Closed \/ f.stream[fd].mode = "w"
  BY <1>1, SameItself DEF Read, Result, IsOpen
<1>2. CASE f.stream[fd] # Closed /\ f.stream[fd].mode # "w"
  <2>1. f.stream[fd].pos \in Nat /\ Len(Rest(f, fd)) \in Nat
    BY <1>2, StreamTypes, RestIsText DEF Stream, Texts
  <2>2. f.stream[fd].pos + Len(Rest(f, fd)) \in Nat
    BY <2>1
  <2> QED
    BY <1>2, <2>2, MovedIsSame DEF Read, Result, IsOpen
<1> QED
  BY <1>1, <1>2

LEMMA SeekIsSame ==
  ASSUME NEW f \in FileSystem, NEW fd \in Fd, NEW offset \in Nat
  PROVE  Same(f, Seek(f, fd, offset).fs)
BY MovedIsSame, SameItself DEF Seek, Result

-----------------------------------------------------------------------------
(* Opening and closing.                                                    *)

\* A new file finds a node: the browser can make as many as it likes.
NodesNeverRunOut == IsFiniteSet(Path) /\ ~IsFiniteSet(Node)

LEMMA FreshNodeIsOne ==
  ASSUME NEW f \in FileSystem, NEW path, NodesNeverRunOut
  PROVE  FreshNode(f, path) \in Node /\ ~Alive(f, FreshNode(f, path))
<1> DEFINE linked == {f.dir[p] : p \in Path}
           held == {f.stream[fd].node : fd \in OpenFds(f)}
           dirOf == [p \in Path |-> f.dir[p]]
           nodeOf == [fd \in OpenFds(f) |-> f.stream[fd].node]
           free == {n \in Node : ~Alive(f, n)}
<1>1. IsFiniteSet(linked)
  <2>1. dirOf \in Surjection(Path, linked)
    BY DEF Surjection
  <2> QED
    BY <2>1, FS_Surjection DEF NodesNeverRunOut
<1>2. IsFiniteSet(held)
  <2>1. nodeOf \in Surjection(OpenFds(f), held)
    BY DEF Surjection
  <2>2. IsFiniteSet(Fd)
    BY FS_Interval DEF Fd
  <2>3. IsFiniteSet(OpenFds(f))
    BY <2>2, FS_Subset DEF OpenFds
  <2> QED
    BY <2>1, <2>3, FS_Surjection
<1>3. IsFiniteSet(linked \cup held)
  BY <1>1, <1>2, FS_Union
<1>4. ~(Node \subseteq linked \cup held)
  BY <1>3, FS_Subset DEF NodesNeverRunOut
<1>5. free # {}
  BY <1>4 DEF Alive
<1>6. FreshNode(f, path) = Fresh(path, free)
  BY Zenon DEF FreshNode
<1>7. \A n \in free : n \in Node /\ ~Alive(f, n)
  OBVIOUS
<1> HIDE DEF free
<1>8. FreshNode(f, path) \in free
  BY <1>5, <1>6 DEF Fresh
<1> QED
  BY <1>7, <1>8

\* mknod: a path that names nothing gets a new, empty file.
LEMMA CreatedIs ==
  ASSUME NEW f \in FileSystem, NEW path \in Path, f.dir[path] = NoNode, NodesNeverRunOut
  PROVE  /\ Created(f, path) \in FileSystem
         /\ Created(f, path).dir[path] \in Node
         /\ ~Alive(f, Created(f, path).dir[path])
         /\ Created(f, path).data = [f.data EXCEPT ![Created(f, path).dir[path]] = <<>>]
         /\ \A p \in Path \ {path} : Created(f, path).dir[p] = f.dir[p]
         /\ Created(f, path).stream = f.stream
<1> DEFINE n == FreshNode(f, path)
           dir == [f.dir EXCEPT ![path] = n]
           data == [f.data EXCEPT ![n] = <<>>]
           g == [f EXCEPT !.dir[path] = n, !.data[n] = <<>>]
<1>1. n \in Node /\ ~Alive(f, n)
  BY FreshNodeIsOne
<1> HIDE DEF n
<1>2. dir \in [Path -> Node \cup {NoNode}] /\ data \in [Node -> Seq(Line \cup {Hole})]
  BY <1>1, FieldTypes
<1>3. dir[path] = n /\ \A p \in Path \ {path} : dir[p] = f.dir[p]
  BY FieldTypes
<1>4. PICK h : h = [f EXCEPT !.dir[path] = n]
  OBVIOUS
<1>5. h \in FileSystem /\ h.dir = dir /\ h.data = f.data /\ h.stream = f.stream
  BY <1>2, <1>4 DEF FileSystem
<1>6. g = [h EXCEPT !.data[n] = <<>>]
  BY <1>4, Zenon
<1> HIDE DEF dir
<1>7. g \in FileSystem /\ g.dir = dir /\ g.stream = f.stream /\ g.data = data
  <2> HIDE DEF g
  <2> USE DEF data
  <2> QED
    BY <1>2, <1>5, <1>6 DEF FileSystem
<1>8. Created(f, path) = g
  BY Zenon DEF Created, n
<1> HIDE DEF g
<1> QED
  BY <1>1, <1>3, <1>7, <1>8

LEMMA CreatedFields ==
  ASSUME NEW f \in FileSystem, NEW path \in Path, f.dir[path] = NoNode, NodesNeverRunOut
  PROVE  /\ Created(f, path) \in FileSystem
         /\ Created(f, path).dir[path] \in Node
         /\ \A p \in Path \ {path} : Created(f, path).dir[p] = f.dir[p]
         /\ Created(f, path).stream = f.stream
BY CreatedIs

LEMMA TruncatedIs ==
  ASSUME NEW f \in FileSystem, NEW path \in Path, f.dir[path] # NoNode
  PROVE  /\ Truncated(f, path) \in FileSystem
         /\ Truncated(f, path).dir = f.dir
         /\ Truncated(f, path).data = [f.data EXCEPT ![f.dir[path]] = <<>>]
         /\ Truncated(f, path).stream = f.stream
<1>1. f.dir[path] \in Node
  BY FieldTypes
<1>2. [f.data EXCEPT ![f.dir[path]] = <<>>] \in [Node -> Seq(Line \cup {Hole})]
  BY <1>1, FieldTypes
<1>3. Truncated(f, path) = [f EXCEPT !.data = [f.data EXCEPT ![f.dir[path]] = <<>>]]
  BY DEF Truncated, FileSystem
<1> QED
  BY <1>2, <1>3 DEF FileSystem

LEMMA TruncatedFields ==
  ASSUME NEW f \in FileSystem, NEW path \in Path, f.dir[path] # NoNode
  PROVE  /\ Truncated(f, path) \in FileSystem
         /\ Truncated(f, path).dir = f.dir
         /\ Truncated(f, path).stream = f.stream
BY TruncatedIs

Name == Path \cup DOMAIN Link

LEMMA LookupLeads ==
  ASSUME NEW f \in FileSystem, NEW path \in Name, Exists(f, path)
  PROVE  /\ path \in Path => Lookup(f, path) = f.dir[path] /\ f.dir[path] \in Node
         /\ path \in DOMAIN Link => Lookup(f, path) = Link[path] /\ Link[path] \in Terminal
BY FieldTypes DEF Lookup, Exists, Name, Link, Terminal

LEMMA PreparedFields ==
  ASSUME NEW f \in FileSystem, NEW path \in Name, NEW mode \in Mode,
         mode # "r" \/ Exists(f, path), NodesNeverRunOut
  PROVE  LET g == Prepared(f, path, mode)
         IN  /\ g \in FileSystem
             /\ g.stream = f.stream
             /\ Exists(g, path)
             /\ \A p \in Path : f.dir[p] # NoNode => g.dir[p] = f.dir[p]
             /\ \A p \in Path \ {path} : g.dir[p] = f.dir[p]
<1>1. CASE mode = "r" \/ Lookup(f, path) \in Terminal
  <2>1. Exists(f, path)
    BY <1>1 DEF Exists
  <2> QED
    BY <1>1, <2>1 DEF Prepared
<1>2. CASE mode # "r" /\ Lookup(f, path) \notin Terminal /\ ~Exists(f, path)
  <2>1. path \in Path /\ f.dir[path] = NoNode
    BY <1>2 DEF Exists, Lookup, Name, Link, Terminal
  <2>2. Prepared(f, path, mode) = Created(f, path)
    BY <1>2 DEF Prepared
  <2> QED
    BY <2>1, <2>2, CreatedFields DEF Exists, Lookup
<1>3. CASE mode # "r" /\ Lookup(f, path) \notin Terminal /\ Exists(f, path)
  <2>1. path \in Path /\ f.dir[path] # NoNode
    BY <1>3 DEF Exists, Lookup, Name, Link, Terminal
  <2>2. Prepared(f, path, mode) = Truncated(f, path)
    BY <1>3 DEF Prepared
  <2> QED
    BY <1>3, <2>1, <2>2, TruncatedFields DEF Exists, Lookup
<1> QED
  BY <1>1, <1>2, <1>3

\* openat: nothing that is open and no name is changed, and what is opened is on a
\* descriptor that was free.
LEMMA OpenSeen ==
  ASSUME NEW f \in FileSystem, NEW path \in Name, NEW mode \in Mode, NodesNeverRunOut
  PROVE  LET r == Open(f, path, mode)
         IN  /\ Keeps(f, r.fs, Path)
             /\ \A p \in Path \ {path} : r.fs.dir[p] = f.dir[p]
             /\ r.ret \in Fd \cup {ENOENT, EMFILE}
             /\ Fails(r) => \A k \in Fd : Seen(r.fs, k) = Seen(f, k)
             /\ ~Fails(r) =>
                  /\ r.ret \in Fd /\ Seen(f, r.ret) = {}
                  /\ Exists(r.fs, path)
                  /\ Seen(r.fs, r.ret) = {On(Lookup(r.fs, path), mode)}
                  /\ \A k \in Fd \ {r.ret} : Seen(r.fs, k) = Seen(f, k)
<1> DEFINE r == Open(f, path, mode)
           g == Prepared(f, path, mode)
<1>1. CASE mode = "r" /\ ~Exists(f, path)
  <2>1. r = Result(f, ENOENT)
    BY <1>1 DEF Open
  <2> QED
    BY <2>1, SameItself, SameKeeps DEF Result, Fails, ENOENT
<1>2. CASE mode # "r" \/ Exists(f, path)
  <2>1. /\ g \in FileSystem
        /\ g.stream = f.stream
        /\ Exists(g, path)
        /\ \A p \in Path : f.dir[p] # NoNode => g.dir[p] = f.dir[p]
        /\ \A p \in Path \ {path} : g.dir[p] = f.dir[p]
    BY <1>2, PreparedFields
  <2>2. \A k \in Fd : Seen(g, k) = Seen(f, k)
    BY <2>1 DEF Seen
  <2>3. FreeFds(g) = FreeFds(f)
    BY <2>1 DEF FreeFds, OpenFds
  <2>4. NextFd(g) = NextFd(f)
    BY <2>3, Zenon DEF NextFd
  <2>5. CASE FreeFds(f) = {}
    <3>1. r = Result(g, EMFILE)
      BY <1>2, <2>5 DEF Open
    <3> HIDE DEF g, r
    <3> QED
      BY <2>1, <2>2, <3>1 DEF Keeps, Result, Fails, EMFILE, r
  <2>6. CASE FreeFds(f) # {}
    <3> DEFINE fd == NextFd(g)
               s == [id |-> FreshId(g), node |-> Lookup(g, path), mode |-> mode, pos |-> 0]
    <3>1. fd \in Fd /\ Seen(f, fd) = {} /\ ~(fd < 0)
      BY <2>3, <2>4, <2>6, NextFdIsFree DEF Fd
    <3>2. Lookup(g, path) \in Node \cup Terminal
      BY <2>1, LookupLeads DEF Name
    <3>3. FreshId(g) \in Fd
      BY <2>1, <2>3, <2>6, FreshIdIsOne
    <3>4. s \in Stream /\ s # Closed
      BY <3>2, <3>3 DEF Stream
    <3>5. r = Result(SetStream(g, fd, s), fd)
      BY <1>2, <2>4, <2>6 DEF Open, Opened
    <3> DEFINE h == SetStream(g, fd, s)
    <3>6. /\ h \in FileSystem /\ h.dir = g.dir
          /\ Seen(h, fd) = {On(Lookup(g, path), mode)}
          /\ \A k \in Fd \ {fd} : Seen(h, k) = Seen(g, k)
      BY <2>1, <3>1, <3>4, SetStreamSeen
    <3>7. r.fs = h /\ r.ret = fd
      BY <3>5 DEF Result
    <3> HIDE DEF h, g, r, fd
    <3>8. Lookup(h, path) = Lookup(g, path)
      BY <3>6 DEF Lookup
    <3>9. Exists(h, path)
      BY <2>1, <3>8 DEF Exists
    <3>10. Keeps(f, h, Path)
      BY <2>1, <2>2, <3>1, <3>6 DEF Keeps
    <3>11. \A k \in Fd \ {fd} : Seen(h, k) = Seen(f, k)
      BY <2>2, <3>6
    <3>12. \A p \in Path \ {path} : h.dir[p] = f.dir[p]
      BY <2>1, <3>6
    <3>13. ~Fails(r)
      BY <3>1, <3>7 DEF Fails
    <3> QED
      BY <3>1, <3>6, <3>7, <3>8, <3>9, <3>10, <3>11, <3>12, <3>13 DEF r
  <2> QED
    BY <2>5, <2>6
<1> QED
  BY <1>1, <1>2

\* What the new descriptor leads to.
LEMMA OpenLeads ==
  ASSUME NEW f \in FileSystem, NEW path \in Name, NEW mode \in Mode, NodesNeverRunOut,
         NEW r, r = Open(f, path, mode), ~Fails(r), NEW n, n = Lookup(r.fs, path)
  PROVE  Seen(r.fs, r.ret) = {On(n, mode)} /\ n # NoNode
<1>1. Seen(r.fs, r.ret) = {On(n, mode)}
  BY OpenSeen
<1>2. n # NoNode
  BY OpenSeen DEF Exists
<1> QED
  BY <1>1, <1>2

LEMMA CloseSeen ==
  ASSUME NEW f \in FileSystem, NEW fd \in Fd
  PROVE  LET g == Close(f, fd).fs
         IN  /\ g \in FileSystem
             /\ g.dir = f.dir
             /\ Seen(g, fd) = {}
             /\ \A k \in Fd \ {fd} : Seen(g, k) = Seen(f, k)
<1>1. CASE IsOpen(f, fd)
  <2>1. Close(f, fd).fs = CloseStream(f, fd)
    BY <1>1 DEF Close, Result
  <2> QED
    BY <2>1, CloseStreamSeen
<1>2. CASE ~IsOpen(f, fd)
  <2>1. Close(f, fd).fs = f
    BY <1>2 DEF Close, Result
  <2>2. Seen(f, fd) = {}
    BY <1>2 DEF IsOpen, Seen
  <2> QED
    BY <2>1, <2>2
<1> QED
  BY <1>1, <1>2

\* What has been opened since f is closed again.
LEMMA CloseNew ==
  ASSUME NEW f, NEW g, NEW P, Keeps(f, g, P), NEW fd \in Fd, Seen(f, fd) = {}
  PROVE  Keeps(f, Close(g, fd).fs, P)
<1>1. g \in FileSystem
  BY DEF Keeps
<1> QED
  BY <1>1, CloseSeen DEF Keeps

\* dup.
LEMMA DupSeen ==
  ASSUME NEW f \in FileSystem, NEW fd \in Fd
  PROVE  LET r == Dup(f, fd)
         IN  /\ Keeps(f, r.fs, Path)
             /\ r.fs.dir = f.dir
             /\ ~Fails(r) =>
                  /\ r.ret \in Fd /\ Seen(f, r.ret) = {}
                  /\ Seen(r.fs, r.ret) = Seen(f, fd)
<1> DEFINE r == Dup(f, fd)
<1>1. CASE ~IsOpen(f, fd) \/ FreeFds(f) = {}
  <2>1. r.fs = f /\ Fails(r)
    BY <1>1 DEF Dup, Result, Fails, EBADF, EMFILE
  <2> HIDE DEF r
  <2> QED
    BY <2>1, SameItself, SameKeeps DEF r
<1>2. CASE IsOpen(f, fd) /\ FreeFds(f) # {}
  <2> DEFINE k == NextFd(f)
             g == SetStream(f, k, f.stream[fd])
  <2>1. r.fs = g /\ r.ret = k
    BY <1>2 DEF Dup, Result, DupStream
  <2>2. k \in Fd /\ Seen(f, k) = {}
    BY <1>2, NextFdIsFree
  <2>3. f.stream[fd] \in Stream /\ f.stream[fd] # Closed
    BY <1>2, StreamTypes DEF IsOpen
  <2>4. Seen(f, fd) = {On(f.stream[fd].node, f.stream[fd].mode)}
    BY <2>3 DEF Seen
  <2> HIDE DEF k
  <2>5. /\ g \in FileSystem /\ g.dir = f.dir
        /\ Seen(g, k) = Seen(f, fd)
        /\ \A j \in Fd \ {k} : Seen(g, j) = Seen(f, j)
    BY SMTT(30), <2>2, <2>3, <2>4, SetStreamSeen
  <2> HIDE DEF g, r
  <2> QED
    BY <2>1, <2>2, <2>5 DEF Keeps, r
<1> QED
  BY <1>1, <1>2

\* dup3 onto one of the first three descriptors.
LEMMA Dup3Seen ==
  ASSUME NEW f \in FileSystem, NEW fd \in Fd, NEW newfd \in 0..2, fd # newfd, Seen(f, fd) # {}
  PROVE  LET g == Dup3(f, fd, newfd).fs
         IN  /\ g \in FileSystem
             /\ g.dir = f.dir
             /\ Seen(g, newfd) = Seen(f, fd)
             /\ \A k \in Fd \ {newfd} : Seen(g, k) = Seen(f, k)
<1> DEFINE g == SetStream(f, newfd, f.stream[fd])
<1>1. newfd \in Fd /\ ~(newfd >= MaxOpenFds)
  BY DEF Fd
<1>2. IsOpen(f, fd) /\ f.stream[fd] # Closed
  BY DEF IsOpen, Seen
<1>3. f.stream[fd] \in Stream
  BY <1>2, StreamTypes
<1>4. Seen(f, fd) = {On(f.stream[fd].node, f.stream[fd].mode)}
  BY <1>2 DEF Seen
<1>5. /\ g \in FileSystem /\ g.dir = f.dir
      /\ Seen(g, newfd) = Seen(f, fd)
      /\ \A k \in Fd \ {newfd} : Seen(g, k) = Seen(f, k)
  BY SMTT(30), <1>1, <1>2, <1>3, <1>4, SetStreamSeen
<1>6. Dup3(f, fd, newfd).fs = Collected(g)
  BY <1>1, <1>2 DEF Dup3, DupStream, Result
<1> HIDE DEF g
<1>7. Same(g, Collected(g))
  BY <1>5, CollectedIsSame
<1> QED
  BY <1>1, <1>5, <1>6, <1>7 DEF Same

\* unlinkat.
LEMMA UnlinkSeen ==
  ASSUME NEW f \in FileSystem, NEW path \in Path
  PROVE  Keeps(f, Unlink(f, path).fs, Path \ {path})
<1> DEFINE g == [f EXCEPT !.dir[path] = NoNode]
<1>1. CASE ~Exists(f, path)
  BY <1>1, SameItself, SameKeeps DEF Unlink, Result
<1>2. CASE Exists(f, path)
  <2>1. [f.dir EXCEPT ![path] = NoNode] \in [Path -> Node \cup {NoNode}]
    BY FieldTypes
  <2>2. g = [f EXCEPT !.dir = [f.dir EXCEPT ![path] = NoNode]]
    BY DEF FileSystem
  <2>3. /\ g \in FileSystem /\ g.stream = f.stream
        /\ \A p \in Path \ {path} : g.dir[p] = f.dir[p]
    BY <2>1, <2>2, FieldTypes DEF FileSystem
  <2>4. Unlink(f, path).fs = Collected(g)
    BY <1>2 DEF Unlink, Result
  <2> HIDE DEF g
  <2>5. Same(g, Collected(g))
    BY <2>3, CollectedIsSame
  <2> QED
    BY <2>3, <2>4, <2>5 DEF Same, Keeps, Seen
<1> QED
  BY <1>1, <1>2

-----------------------------------------------------------------------------
(* The streams that FS.init opens.                                         *)

\* nextfd finds the smallest.
LEMMA NextFdIsLeast ==
  ASSUME NEW f \in FileSystem, NEW fd \in Fd, Seen(f, fd) = {},
         \A k \in Fd : k < fd => Seen(f, k) # {}
  PROVE  FreeFds(f) # {} /\ NextFd(f) = fd
<1>1. FreeFds(f) \in SUBSET Nat
  BY DEF FreeFds, Fd
<1>2. \A k \in Fd : k \in FreeFds(f) <=> Seen(f, k) = {}
  BY DEF FreeFds, OpenFds, Seen
<1>3. fd \in FreeFds(f)
  BY <1>2
<1>4. \E n \in FreeFds(f) : \A m \in FreeFds(f) : n <= m
  BY <1>1, <1>3, LeastElement
<1>5. NextFd(f) \in FreeFds(f) /\ \A m \in FreeFds(f) : NextFd(f) <= m
  BY <1>4 DEF NextFd, Smallest
<1>6. FreeFds(f) \subseteq Fd /\ Fd \subseteq Nat
  BY DEF FreeFds, Fd
<1>7. ~(NextFd(f) < fd)
  BY <1>2, <1>5, <1>6
<1>8. NextFd(f) \in Nat /\ fd \in Nat /\ NextFd(f) <= fd
  BY <1>3, <1>5, <1>6
<1>9. ASSUME NEW n \in Nat, NEW m \in Nat, n <= m, ~(n < m) PROVE n = m
  BY <1>9
<1>10. NextFd(f) = fd
  BY <1>7, <1>8, <1>9
<1> QED
  BY <1>3, <1>10

LEMMA OpenLink ==
  ASSUME NEW f \in FileSystem, NEW path \in DOMAIN Link, NEW mode \in Mode, NodesNeverRunOut,
         NEW n, n = Link[path], NEW fd \in Fd, Seen(f, fd) = {}, \A k \in Fd : k < fd => Seen(f, k) # {}
  PROVE  LET g == Open(f, path, mode).fs
         IN  /\ g \in FileSystem
             /\ Seen(g, fd) = {On(n, mode)}
             /\ \A k \in Fd \ {fd} : Seen(g, k) = Seen(f, k)
<1> DEFINE r == Open(f, path, mode)
<1>1. path \in Name
  BY DEF Name
<1>2. FreeFds(f) # {} /\ NextFd(f) = fd
  BY NextFdIsLeast
<1>3. Exists(f, path) /\ \A g : Lookup(g, path) = Link[path]
  BY DEF Exists, Lookup, Link, Terminal
<1>4. r.ret = fd
  BY <1>2, <1>3 DEF Open, Result
<1>5. ~Fails(r)
  BY <1>4 DEF Fails, Fd
<1>6. r.fs \in FileSystem
  BY <1>1, OpenSeen DEF Keeps
<1>7. /\ Seen(r.fs, r.ret) = {On(Lookup(r.fs, path), mode)}
      /\ \A k \in Fd \ {r.ret} : Seen(r.fs, k) = Seen(f, k)
  BY <1>1, <1>5, OpenSeen
<1> QED
  BY <1>3, <1>4, <1>6, <1>7

LEMMA StandardStreamsSeen ==
  ASSUME NodesNeverRunOut
  PROVE  /\ StandardStreams \in FileSystem
         /\ Seen(StandardStreams, 0) = {On("tty", "r")}
         /\ Seen(StandardStreams, 1) = {On("tty", "w")}
         /\ Seen(StandardStreams, 2) = {On("tty1", "w")}
         /\ \A k \in Fd \ 0..2 : Seen(StandardStreams, k) = {}
<1> DEFINE in == Open(EmptyFS, "stdin", "r")
           out == Open(in.fs, "stdout", "w")
           err == Open(out.fs, "stderr", "w")
<1>1. /\ "r" \in Mode /\ "w" \in Mode /\ 0 \in Fd /\ 1 \in Fd /\ 2 \in Fd
      /\ "stdin" \in DOMAIN Link /\ "stdout" \in DOMAIN Link /\ "stderr" \in DOMAIN Link
      /\ Link["stdin"] = "tty" /\ Link["stdout"] = "tty" /\ Link["stderr"] = "tty1"
  BY DEF Mode, Fd, Link
<1>2. /\ ~(\E k \in Fd : k < 0)
      /\ \A k \in Fd : k < 1 => k = 0
      /\ \A k \in Fd : k < 2 => k = 0 \/ k = 1
  BY DEF Fd
<1>3. EmptyFS \in FileSystem /\ \A k \in Fd : Seen(EmptyFS, k) = {}
  BY DEF EmptyFS, FileSystem, Seen
<1>4. /\ in.fs \in FileSystem /\ Seen(in.fs, 0) = {On("tty", "r")}
      /\ \A k \in Fd \ {0} : Seen(in.fs, k) = {}
  <2>1. "stdin" \in DOMAIN Link /\ "r" \in Mode /\ 0 \in Fd /\ Link["stdin"] = "tty"
    BY <1>1
  <2>2. EmptyFS \in FileSystem /\ Seen(EmptyFS, 0) = {} /\ \A k \in Fd : k < 0 => Seen(EmptyFS, k) # {}
    BY <1>1, <1>2, <1>3
  <2>3. ASSUME NEW fd, fd = 0, NEW path, path = "stdin", NEW mode, mode = "r",
               NEW n, n = "tty", NEW f, f = EmptyFS
        PROVE  LET g == Open(f, path, mode).fs
               IN  /\ g \in FileSystem /\ Seen(g, fd) = {On(n, mode)}
                   /\ \A k \in Fd \ {fd} : Seen(g, k) = Seen(f, k)
    <3>1. f \in FileSystem /\ path \in DOMAIN Link /\ mode \in Mode /\ n = Link[path] /\ fd \in Fd
      BY <2>1, <2>2, <2>3
    <3>2. Seen(f, fd) = {} /\ \A k \in Fd : k < fd => Seen(f, k) # {}
      BY <2>2, <2>3
    <3> QED
      BY <3>1, <3>2, OpenLink
  <2> QED
    BY <1>3, <2>3
<1> HIDE DEF in
<1>5. /\ out.fs \in FileSystem /\ Seen(out.fs, 1) = {On("tty", "w")}
      /\ \A k \in Fd \ {1} : Seen(out.fs, k) = Seen(in.fs, k)
  <2>1. "stdout" \in DOMAIN Link /\ "w" \in Mode /\ 1 \in Fd /\ Link["stdout"] = "tty"
    BY <1>1
  <2>2. in.fs \in FileSystem /\ Seen(in.fs, 1) = {} /\ \A k \in Fd : k < 1 => Seen(in.fs, k) # {}
    BY <1>1, <1>2, <1>4
  <2>3. ASSUME NEW fd, fd = 1, NEW path, path = "stdout", NEW mode, mode = "w",
               NEW n, n = "tty", NEW f, f = in.fs
        PROVE  LET g == Open(f, path, mode).fs
               IN  /\ g \in FileSystem /\ Seen(g, fd) = {On(n, mode)}
                   /\ \A k \in Fd \ {fd} : Seen(g, k) = Seen(f, k)
    <3>1. f \in FileSystem /\ path \in DOMAIN Link /\ mode \in Mode /\ n = Link[path] /\ fd \in Fd
      BY <2>1, <2>2, <2>3
    <3>2. Seen(f, fd) = {} /\ \A k \in Fd : k < fd => Seen(f, k) # {}
      BY <2>2, <2>3
    <3> QED
      BY <3>1, <3>2, OpenLink
  <2> QED
    BY <2>3
<1> HIDE DEF out
<1>6. /\ err.fs \in FileSystem /\ Seen(err.fs, 2) = {On("tty1", "w")}
      /\ \A k \in Fd \ {2} : Seen(err.fs, k) = Seen(out.fs, k)
  <2>1. "stderr" \in DOMAIN Link /\ "w" \in Mode /\ 2 \in Fd /\ Link["stderr"] = "tty1"
    BY <1>1
  <2>2. out.fs \in FileSystem /\ Seen(out.fs, 2) = {} /\ \A k \in Fd : k < 2 => Seen(out.fs, k) # {}
    BY <1>1, <1>2, <1>4, <1>5
  <2>3. ASSUME NEW fd, fd = 2, NEW path, path = "stderr", NEW mode, mode = "w",
               NEW n, n = "tty1", NEW f, f = out.fs
        PROVE  LET g == Open(f, path, mode).fs
               IN  /\ g \in FileSystem /\ Seen(g, fd) = {On(n, mode)}
                   /\ \A k \in Fd \ {fd} : Seen(g, k) = Seen(f, k)
    <3>1. f \in FileSystem /\ path \in DOMAIN Link /\ mode \in Mode /\ n = Link[path] /\ fd \in Fd
      BY <2>1, <2>2, <2>3
    <3>2. Seen(f, fd) = {} /\ \A k \in Fd : k < fd => Seen(f, k) # {}
      BY <2>2, <2>3
    <3> QED
      BY <3>1, <3>2, OpenLink
  <2> QED
    BY <2>3
<1> HIDE DEF err
<1>7. StandardStreams = err.fs
  BY Zenon DEF StandardStreams, in, out, err
<1> QED
  BY <1>1, <1>4, <1>5, <1>6, <1>7

HIDE FSAssumption

-----------------------------------------------------------------------------
USE RedirectAssumption

LEMMA PathNames ==
  /\ UserFile \subseteq Path
  /\ "mms" \in Path /\ "mmo" \in Path /\ "listing" \in Path
  /\ \A s \in StdStream : LogName[s] \in Path
  /\ Path \subseteq Name
BY DEF StdStream, LogName, Name, Own

\* The paths of the two logs.
Logs == {"stdout_log", "stderr_log"}

LEMMA KeepsFewer ==
  ASSUME NEW f, NEW h, NEW P, NEW Q, Keeps(f, h, P), Q \subseteq P
  PROVE  Keeps(f, h, Q)
BY DEF Keeps

LEMMA KeepsItself ==
  ASSUME NEW f \in FileSystem, NEW P
  PROVE  Keeps(f, f, P)
BY DEF Keeps

LEMMA KeepsType ==
  ASSUME NEW f, NEW h, NEW P, Keeps(f, h, P)
  PROVE  h \in FileSystem
BY DEF Keeps

LEMMA StandardFds == 0 \in Fd /\ 1 \in Fd /\ 2 \in Fd /\ Fd \subseteq Nat
BY FSAssumption DEF Fd

-----------------------------------------------------------------------------
(* What the functions of io_utils.c and assembler.c leave of the streams.  *)

LEMMA LoggedIsSame ==
  ASSUME NEW f \in FileSystem, NEW n \in Nat
  PROVE  Same(f, Logged(f, n))
<1>1. [i \in 1..n |-> "log"] \in Seq(Line)
  OBVIOUS
<1> QED
  BY <1>1, StandardFds, WriteIsSame DEF Logged

LEMMA LoggedKeeps ==
  ASSUME NEW f, NEW g, NEW P, Keeps(f, g, P), NEW n \in Nat
  PROVE  Keeps(f, Logged(g, n), P)
<1>1. g \in FileSystem
  BY KeepsType
<1>2. Same(g, Logged(g, n))
  BY <1>1, LoggedIsSame
<1> QED
  BY <1>2, SameKeeps, KeepsIsTransitive

LEMMA WriteKeeps ==
  ASSUME NEW f, NEW g, NEW P, Keeps(f, g, P), NEW fd \in Fd, NEW lines \in Seq(Line)
  PROVE  Keeps(f, Write(g, fd, lines).fs, P)
<1>1. g \in FileSystem
  BY KeepsType
<1>2. Same(g, Write(g, fd, lines).fs)
  BY <1>1, WriteIsSame
<1> QED
  BY <1>2, SameKeeps, KeepsIsTransitive

LEMMA UnlinkKeeps ==
  ASSUME NEW f, NEW g, NEW P \in SUBSET Path, Keeps(f, g, P), NEW path \in Path
  PROVE  Keeps(f, Unlink(g, path).fs, P \ {path})
<1>1. g \in FileSystem
  BY KeepsType
<1>2. Keeps(g, Unlink(g, path).fs, Path \ {path})
  BY <1>1, UnlinkSeen
<1> QED
  BY <1>2 DEF Keeps

\* Opening a file for what follows: what is open so far stays, and the descriptor is new.
LEMMA OpenKeeps ==
  ASSUME NEW f, NEW g, Keeps(f, g, Path), NEW path \in Path, NEW mode \in Mode, NodesNeverRunOut
  PROVE  LET r == Open(g, path, mode)
         IN  /\ Keeps(f, r.fs, Path)
             /\ ~Fails(r) => r.ret \in Fd /\ Seen(f, r.ret) = {} /\ Seen(g, r.ret) = {}
<1> DEFINE r == Open(g, path, mode)
<1>1. g \in FileSystem
  BY KeepsType
<1>2. /\ Keeps(g, r.fs, Path)
      /\ ~Fails(r) => r.ret \in Fd /\ Seen(g, r.ret) = {}
  BY <1>1, OpenSeen DEF Name
<1> HIDE DEF r
<1>3. Keeps(f, r.fs, Path)
  BY <1>2, KeepsIsTransitive
<1>4. ~Fails(r) => Seen(f, r.ret) = {}
  BY <1>2 DEF Keeps
<1> QED
  BY <1>2, <1>3, <1>4 DEF r

\* read_to_heap removes the file and changes nothing else.
LEMMA ReadToHeapKeeps ==
  ASSUME NEW f \in FileSystem, NEW name \in Path, NodesNeverRunOut
  PROVE  /\ Keeps(f, ReadToHeap(f, name).fs, Path \ {name})
         /\ ReadToHeap(f, name).text \in Texts \cup {Lost}
<1> DEFINE file == Open(f, name, "r")
           rest == Rest(file.fs, file.ret)
           fits == Len(rest) <= BufferLines
           read == IF fits THEN Read(file.fs, file.ret).fs ELSE Logged(file.fs, 1)
           gone == Unlink(f, name)
<1>1. Keeps(f, f, Path)
  BY KeepsItself
<1>2. "r" \in Mode
  BY DEF Mode
<1>3. /\ Keeps(f, file.fs, Path)
      /\ ~Fails(file) => file.ret \in Fd /\ Seen(f, file.ret) = {}
  BY <1>1, <1>2, OpenKeeps
<1>4. ~Fails(file) => Seen(file.fs, file.ret) # {}
  <2>1. name \in Name
    BY PathNames
  <2> QED
    BY <1>2, <2>1, OpenSeen
<1> HIDE DEF file
<1>5. CASE Fails(file)
  <2>1. Keeps(f, gone.fs, Path \ {name})
    BY <1>1, UnlinkKeeps
  <2>2. Keeps(f, Logged(gone.fs, 3), Path \ {name})
    BY <2>1, LoggedKeeps
  <2>3. ReadToHeap(f, name) = [fs |-> Logged(gone.fs, 3), text |-> Lost]
    BY <1>5 DEF ReadToHeap, file
  <2> QED
    BY <2>2, <2>3
<1>6. CASE ~Fails(file)
  <2>1. file.fs \in FileSystem
    BY <1>3, KeepsType
  <2>2. Same(file.fs, read)
    BY <1>3, <1>6, <2>1, ReadIsSame, LoggedIsSame
  <2>3. Keeps(f, read, Path)
    BY <1>3, <2>2, SameKeeps, KeepsIsTransitive
  <2>4. Keeps(f, Close(read, file.ret).fs, Path)
    BY <1>3, <1>6, <2>3, CloseNew
  <2>5. Keeps(f, Unlink(Close(read, file.ret).fs, name).fs, Path \ {name})
    BY <2>4, UnlinkKeeps
  <2>6. ReadToHeap(f, name) = [fs |-> Unlink(Close(read, file.ret).fs, name).fs,
                               text |-> IF fits THEN rest ELSE <<>>]
    BY <1>6 DEF ReadToHeap, file
  <2>7. rest \in Texts
    <3>1. file.fs.stream[file.ret] # Closed
      BY <1>6, <1>4 DEF Seen
    <3> QED
      BY <1>3, <1>6, <2>1, <3>1, RestIsText
  <2>8. (IF fits THEN rest ELSE <<>>) \in Texts
    BY <2>7 DEF Texts
  <2> HIDE DEF read, rest, fits
  <2> QED
    BY <2>5, <2>6, <2>8
<1> QED
  BY <1>5, <1>6

LEMMA WrittenKeeps ==
  ASSUME NEW f, NEW g, Keeps(f, g, Path), NEW name \in Path, NEW content \in Seq(Line), NodesNeverRunOut
  PROVE  Keeps(f, Written(g, name, content).fs, Path)
<1> DEFINE file == Open(g, name, "w")
<1>1. "w" \in Mode
  BY DEF Mode
<1>2. /\ Keeps(f, file.fs, Path)
      /\ ~Fails(file) => file.ret \in Fd /\ Seen(f, file.ret) = {}
  BY <1>1, OpenKeeps
<1> HIDE DEF file
<1>3. CASE Fails(file)
  BY <1>2, <1>3 DEF Written, file
<1>4. CASE ~Fails(file)
  <2>1. Keeps(f, Write(file.fs, file.ret, content).fs, Path)
    BY <1>2, <1>4, WriteKeeps
  <2>2. Keeps(f, Close(Write(file.fs, file.ret, content).fs, file.ret).fs, Path)
    BY <1>2, <1>4, <2>1, CloseNew
  <2> QED
    BY <1>4, <2>2 DEF Written, file, Result
<1> QED
  BY <1>3, <1>4

\* mmixal closes what it has opened, however many of its files it could open.
LEMMA ComplainKeeps ==
  ASSUME NEW f, NEW g, NEW P, Keeps(f, g, P), NEW s \in Source
  PROVE  Keeps(f, Complain(g, s), P)
<1>1. <<s>> \in Seq(Line)
  OBVIOUS
<1> QED
  BY <1>1, StandardFds, WriteKeeps DEF Complain

LEMMA MmixalKeeps ==
  ASSUME NEW f, NEW g, Keeps(f, g, Path), NEW s \in Source, NodesNeverRunOut
  PROVE  Keeps(f, Mmixal(g, s).fs, Path)
<1> DEFINE src  == Open(g, "mms", "r")
           obj  == Open(src.fs, "mmo", "w")
           lst  == Open(obj.fs, "listing", "w")
           code == Write(Write(lst.fs, obj.ret, <<s>>).fs, lst.ret, <<s>>).fs
           out  == IF s \in Faulty THEN Complain(code, s) ELSE code
<1>1. "r" \in Mode /\ "w" \in Mode /\ <<s>> \in Seq(Line)
  BY DEF Mode
<1>2. Keeps(f, src.fs, Path) /\ (~Fails(src) => src.ret \in Fd /\ Seen(f, src.ret) = {})
  BY <1>1, PathNames, OpenKeeps
<1> HIDE DEF src
<1>3. Keeps(f, obj.fs, Path) /\ (~Fails(obj) => obj.ret \in Fd /\ Seen(f, obj.ret) = {})
  BY <1>1, <1>2, PathNames, OpenKeeps
<1> HIDE DEF obj
<1>4. Keeps(f, lst.fs, Path) /\ (~Fails(lst) => lst.ret \in Fd /\ Seen(f, lst.ret) = {})
  BY <1>1, <1>3, PathNames, OpenKeeps
<1> HIDE DEF lst
<1>5. CASE Fails(src)
  <2>1. Keeps(f, Complain(g, s), Path)
    BY ComplainKeeps
  <2> QED
    BY <1>5, <2>1 DEF Mmixal, src, Result
<1>6. CASE ~Fails(src) /\ Fails(obj)
  <2>1. Keeps(f, Close(obj.fs, src.ret).fs, Path)
    BY <1>2, <1>3, <1>6, CloseNew
  <2>2. Keeps(f, Complain(Close(obj.fs, src.ret).fs, s), Path)
    BY <2>1, ComplainKeeps
  <2> QED
    BY <1>6, <2>2 DEF Mmixal, src, obj, Result
<1>7. CASE ~Fails(src) /\ ~Fails(obj) /\ Fails(lst)
  <2>1. Keeps(f, Close(lst.fs, obj.ret).fs, Path)
    BY <1>3, <1>4, <1>7, CloseNew
  <2>2. Keeps(f, Close(Close(lst.fs, obj.ret).fs, src.ret).fs, Path)
    BY <1>2, <1>7, <2>1, CloseNew
  <2>3. Keeps(f, Complain(Close(Close(lst.fs, obj.ret).fs, src.ret).fs, s), Path)
    BY <2>2, ComplainKeeps
  <2> QED
    BY <1>7, <2>3 DEF Mmixal, src, obj, lst, Result
<1>8. CASE ~Fails(src) /\ ~Fails(obj) /\ ~Fails(lst)
  <2>1. Keeps(f, Write(lst.fs, obj.ret, <<s>>).fs, Path)
    BY <1>1, <1>3, <1>4, <1>8, WriteKeeps
  <2>2. Keeps(f, code, Path)
    BY <1>1, <1>4, <1>8, <2>1, WriteKeeps
  <2> HIDE DEF code
  <2>3. Keeps(f, Complain(code, s), Path)
    BY <2>2, ComplainKeeps
  <2>4. Keeps(f, out, Path)
    BY <2>2, <2>3
  <2> HIDE DEF out
  <2>5. Keeps(f, Close(out, lst.ret).fs, Path)
    BY <1>4, <1>8, <2>4, CloseNew
  <2>6. Keeps(f, Close(Close(out, lst.ret).fs, obj.ret).fs, Path)
    BY <1>3, <1>8, <2>5, CloseNew
  <2>7. Keeps(f, Close(Close(Close(out, lst.ret).fs, obj.ret).fs, src.ret).fs, Path)
    BY <1>2, <1>8, <2>6, CloseNew
  <2> QED
    BY <1>8, <2>7 DEF Mmixal, src, obj, lst, out, code, Result
<1> QED
  BY <1>5, <1>6, <1>7, <1>8

-----------------------------------------------------------------------------
(***************************************************************************)
(* The invariant.  What it says of the streams is said of a file system f, *)
(* so that it can be followed through the calls of which a step is made.   *)
(***************************************************************************)

\* While a call is under way the descriptor of the console is kept.
StreamOK(f, s, flagged, b) ==
  /\ Seen(f, Target[s]) = {On(IF flagged THEN f.dir[LogName[s]] ELSE Console[s], "w")}
  /\ flagged => f.dir[LogName[s]] # NoNode
  /\ flagged /\ b # NoFd => b \in Fd \ 0..2 /\ Seen(f, b) = {On(Console[s], "w")}

StreamsOK(f, flags, backups) ==
  /\ Seen(f, 0) = {On("tty", "r")}
  /\ \A s \in StdStream : StreamOK(f, s, flags[s], backups[s])

\* A handle that can be used is as it was when the program was started, or has a
\* descriptor of its own for a file, never for a console.
AsStarted(h, i) ==
  h \in 0..2 /\ i.fd = h /\ i.can \subseteq Open3[h].can /\ ~i.binary /\ ~i.both

Fits(i, mode) ==
  /\ "read" \in i.can => mode # "w"
  /\ "write" \in i.can => mode # "r"
  /\ i.both => mode = "w+"

OfItsOwn(f, i) ==
  /\ i.fd \in Fd \ 0..2
  /\ \E n \in Node, mode \in Mode : Seen(f, i.fd) = {On(n, mode)} /\ Fits(i, mode)

HandlesOK(f, table) ==
  /\ \A h \in Handle : table[h].can # {} => AsStarted(h, table[h]) \/ OfItsOwn(f, table[h])
  /\ \A h \in Handle : table[h].binary => table[h].can # {}
  /\ \A g, h \in Handle : g # h /\ table[g].can # {} /\ table[h].can # {} => table[g].fd # table[h].fd

\* A call that has had no trouble has redirected what it is about.
CallOK ==
  ~troubled => /\ pc # "idle" => flag["err"]
               /\ pc \in {"executing", "refused"} => flag["out"]

RedirectInv ==
  /\ RedirectTypeOK
  /\ StreamsOK(fs, flag, backup)
  /\ HandlesOK(fs, sfile)
  /\ CallOK

LEMMA Targets ==
  /\ StdStream = {"out", "err"}
  /\ Target["out"] = 1 /\ Target["err"] = 2
  /\ LogName["out"] = "stdout_log" /\ LogName["err"] = "stderr_log"
  /\ Console["out"] = "tty" /\ Console["err"] = "tty1"
  /\ \A s \in StdStream : Console[s] \in Terminal /\ Target[s] \in Fd /\ LogName[s] \in Logs
  /\ Logs \subseteq Path
BY StandardFds DEF StdStream, Target, LogName, Console, Terminal, Logs, Own

\* What a call keeps, it keeps for the streams and the handles.
LEMMA StreamsKept ==
  ASSUME NEW f, NEW g, Keeps(f, g, Logs), NEW flags, NEW backups, NEW fewer,
         StreamsOK(f, flags, backups),
         \A s \in StdStream : flags[s] => fewer[s] \in {backups[s], NoFd}
  PROVE  StreamsOK(g, flags, fewer)
<1>1. Seen(g, 0) = {On("tty", "r")}
  BY StandardFds DEF Keeps, StreamsOK
<1>2. ASSUME NEW s \in StdStream PROVE StreamOK(g, s, flags[s], fewer[s])
  <2>1. StreamOK(f, s, flags[s], backups[s]) /\ Target[s] \in Fd /\ LogName[s] \in Logs
    BY Targets DEF StreamsOK
  <2>2. Seen(g, Target[s]) = Seen(f, Target[s])
    BY <2>1 DEF Keeps, StreamOK
  <2>3. flags[s] => g.dir[LogName[s]] = f.dir[LogName[s]]
    BY <2>1 DEF Keeps, StreamOK
  <2>4. flags[s] /\ fewer[s] # NoFd => fewer[s] \in Fd /\ Seen(g, fewer[s]) = Seen(f, fewer[s])
    BY <2>1 DEF Keeps, StreamOK
  <2> QED
    BY <2>1, <2>2, <2>3, <2>4 DEF StreamOK
<1> QED
  BY <1>1, <1>2 DEF StreamsOK

LEMMA OwnKept ==
  ASSUME NEW f, NEW g, NEW i, OfItsOwn(f, i), Seen(f, i.fd) # {} => Seen(g, i.fd) = Seen(f, i.fd)
  PROVE  OfItsOwn(g, i)
BY DEF OfItsOwn

LEMMA HandlesKept ==
  ASSUME NEW f, NEW g, NEW P, Keeps(f, g, P), NEW table, HandlesOK(f, table)
  PROVE  HandlesOK(g, table)
<1>1. ASSUME NEW h \in Handle, OfItsOwn(f, table[h]) PROVE OfItsOwn(g, table[h])
  <2>1. table[h].fd \in Fd
    BY <1>1 DEF OfItsOwn
  <2> QED
    BY <1>1, <2>1, OwnKept DEF Keeps
<1> QED
  BY <1>1 DEF HandlesOK

\* The descriptor of a file is none that leads to a console.
LEMMA OwnIsNoConsole ==
  ASSUME NEW f, NEW i, OfItsOwn(f, i), NEW n \in Terminal, NEW m
  PROVE  Seen(f, i.fd) # {On(n, m)}
<1>1. PICK k \in Node, mode \in Mode : Seen(f, i.fd) = {On(k, mode)}
  BY DEF OfItsOwn
<1>2. k # n
  BY FSAssumption
<1>3. On(k, mode) # On(n, m)
  BY <1>2 DEF On
<1> QED
  BY <1>1, <1>3

-----------------------------------------------------------------------------
(* redirect_stream.                                                        *)

LEMMA RedirectedKeeps ==
  ASSUME RedirectInv, NEW s \in StdStream, NodesNeverRunOut
  PROVE  LET r == Redirected(s)
             after == [flag EXCEPT ![s] = r.flagged]
             kept == [backup EXCEPT ![s] = r.backup]
         IN  /\ r.fs \in FileSystem /\ r.backup \in Fd \cup {NoFd} /\ r.flagged \in BOOLEAN
             /\ StreamsOK(r.fs, after, kept)
             /\ HandlesOK(r.fs, sfile)
             /\ flag[s] => r.flagged
<1> DEFINE t == Target[s]
           kept == Dup(fs, t)
           log == Open(kept.fs, LogName[s], "w")
           r == Redirected(s)
           after == [flag EXCEPT ![s] = r.flagged]
           backups == [backup EXCEPT ![s] = r.backup]
<1>1. /\ fs \in FileSystem /\ flag \in [StdStream -> BOOLEAN] /\ backup \in [StdStream -> Fd \cup {NoFd}]
      /\ StreamsOK(fs, flag, backup) /\ HandlesOK(fs, sfile)
  BY DEF RedirectInv, RedirectTypeOK
<1>2. t \in Fd /\ t \in 0..2 /\ LogName[s] \in Path /\ LogName[s] \in Logs /\ "w" \in Mode
  BY Targets DEF Mode
<1>3. /\ Keeps(fs, kept.fs, Path)
      /\ ~Fails(kept) => /\ kept.ret \in Fd /\ Seen(fs, kept.ret) = {}
                         /\ Seen(kept.fs, kept.ret) = Seen(fs, t)
  BY <1>1, <1>2, DupSeen
<1> HIDE DEF kept
<1>4. kept.fs \in FileSystem
  BY <1>3, KeepsType
<1>5. /\ Keeps(kept.fs, log.fs, Path)
      /\ ~Fails(log) => /\ log.ret \in Fd /\ Seen(kept.fs, log.ret) = {}
                        /\ Exists(log.fs, LogName[s])
                        /\ Seen(log.fs, log.ret) = {On(Lookup(log.fs, LogName[s]), "w")}
  <2>1. LogName[s] \in Name
    BY <1>2 DEF Name
  <2>2. Keeps(kept.fs, log.fs, Path)
    BY <1>2, <1>4, <2>1, OpenSeen
  <2>3. ~Fails(log) => log.ret \in Fd /\ Seen(kept.fs, log.ret) = {}
    BY <1>2, <1>4, <2>1, OpenSeen
  <2>4. ~Fails(log) => Exists(log.fs, LogName[s])
    BY <1>2, <1>4, <2>1, OpenSeen
  <2>5. ASSUME ~Fails(log) PROVE Seen(log.fs, log.ret) = {On(Lookup(log.fs, LogName[s]), "w")}
    <3> DEFINE path == LogName[s]
               f == kept.fs
    <3>1. f \in FileSystem /\ path \in Name /\ "w" \in Mode /\ log = Open(f, path, "w")
      BY <1>2, <1>4, <2>1
    <3> HIDE DEF log, path, f
    <3> DEFINE n == Lookup(log.fs, path)
    <3>2. n = Lookup(log.fs, path)
      OBVIOUS
    <3> HIDE DEF n
    <3>3. Seen(log.fs, log.ret) = {On(n, "w")}
      BY <2>5, <3>1, <3>2, OpenLeads
    <3> QED
      BY <3>3 DEF n, path
  <2> QED
    BY <2>2, <2>3, <2>4, <2>5
<1> HIDE DEF log
<1>6. Keeps(fs, log.fs, Path)
  BY <1>3, <1>5, KeepsIsTransitive
<1>7. CASE flag[s] \/ Fails(kept) \/ Fails(log)
  <2>1. /\ r.fs \in {Logged(fs, 1), Logged(log.fs, 1)}
        /\ r.flagged = flag[s]
        /\ r.backup \in Fd \cup {NoFd}
        /\ flag[s] => r.backup = NoFd
    <3>1. CASE flag[s]
      <4>1. r = Redirect(Logged(fs, 1), NoFd, TRUE)
        BY <3>1, Zenon DEF Redirected
      <4>2. flag[s] = TRUE
        BY <1>1, <3>1
      <4> HIDE DEF r
      <4> QED
        BY <4>1, <4>2 DEF Redirect
    <3>2. CASE ~flag[s] /\ Fails(kept)
      <4>1. r = Redirect(Logged(fs, 1), NoFd, FALSE)
        BY <3>2 DEF Redirected, kept
      <4>2. flag[s] = FALSE
        BY <1>1, <3>2
      <4> HIDE DEF r
      <4> QED
        BY <4>1, <4>2 DEF Redirect
    <3>3. CASE ~flag[s] /\ ~Fails(kept) /\ Fails(log)
      <4>1. r = Redirect(Logged(log.fs, 1), kept.ret, FALSE)
        BY <3>3 DEF Redirected, kept, log
      <4>2. flag[s] = FALSE
        BY <1>1, <3>3
      <4> HIDE DEF r
      <4> QED
        BY <1>3, <3>3, <4>1, <4>2 DEF Redirect
    <3> QED
      BY <1>7, <3>1, <3>2, <3>3
  <2>2. Keeps(fs, r.fs, Logs)
    <3>1. Keeps(fs, fs, Path)
      BY <1>1, KeepsItself
    <3>2. Keeps(fs, Logged(fs, 1), Path) /\ Keeps(fs, Logged(log.fs, 1), Path)
      BY <1>6, <3>1, LoggedKeeps
    <3> QED
      BY <2>1, <3>2, Targets, KeepsFewer
  <2> HIDE DEF r
  <2>3. after = flag
    BY <1>1, <2>1
  <2>4. \A u \in StdStream : flag[u] => backups[u] \in {backup[u], NoFd}
    BY <1>1, <2>1
  <2> HIDE DEF backups
  <2>5. StreamsOK(r.fs, flag, backups)
    BY <1>1, <2>2, <2>4, StreamsKept
  <2>6. HandlesOK(r.fs, sfile)
    BY <1>1, <2>2, HandlesKept
  <2>7. r.fs \in FileSystem /\ r.flagged \in BOOLEAN
    BY <1>1, <2>1, <2>2, KeepsType
  <2> QED
    BY <2>1, <2>3, <2>5, <2>6, <2>7 DEF r, backups
<1>8. CASE ~(flag[s] \/ Fails(kept) \/ Fails(log))
  <2> DEFINE b == kept.ret
             l == log.ret
             g == Dup3(log.fs, l, t).fs
             h == Close(g, l).fs
  <2>1. r = Redirect(h, b, TRUE)
    BY <1>8 DEF Redirected, Switched, kept, log
  <2>2. Seen(fs, t) = {On(Console[s], "w")}
    BY <1>1, <1>8 DEF StreamsOK, StreamOK
  <2>3. \A k \in 0..2 : Seen(fs, k) # {}
    <3>1. Seen(fs, 0) # {} /\ \A u \in StdStream : Seen(fs, Target[u]) # {}
      BY ZenonT(30), <1>1 DEF StreamsOK, StreamOK
    <3> QED
      BY <3>1, Targets
  <2>4. b \in Fd \ 0..2 /\ Seen(log.fs, b) = {On(Console[s], "w")}
    BY <1>3, <1>5, <1>8, <2>2, <2>3 DEF Keeps
  <2>5. l \in Fd \ 0..2 /\ l # b /\ Seen(fs, l) = {} /\ Seen(log.fs, l) # {}
    BY <1>3, <1>5, <1>8, <2>2, <2>3 DEF Keeps
  <2>6. Lookup(log.fs, LogName[s]) = log.fs.dir[LogName[s]] /\ log.fs.dir[LogName[s]] # NoNode
    <3>1. log.fs \in FileSystem
      BY <1>5, KeepsType
    <3>2. Lookup(log.fs, LogName[s]) # NoNode
      BY <1>5, <1>8 DEF Exists
    <3> QED
      BY <1>2, <3>2, FSAssumption DEF Lookup
  <2>7. log.fs \in FileSystem
    BY <1>5, KeepsType
  <2>8. /\ g \in FileSystem /\ g.dir = log.fs.dir
        /\ Seen(g, t) = Seen(log.fs, l)
        /\ \A k \in Fd \ {t} : Seen(g, k) = Seen(log.fs, k)
    BY <1>2, <2>5, <2>7, Dup3Seen
  <2> HIDE DEF g
  <2>9. /\ h \in FileSystem /\ h.dir = g.dir
        /\ \A k \in Fd \ {l} : Seen(h, k) = Seen(g, k)
    BY <2>5, <2>8, CloseSeen
  <2> HIDE DEF h, b, l, r, t
  <2>10. Seen(h, t) = {On(h.dir[LogName[s]], "w")} /\ h.dir[LogName[s]] # NoNode
    BY <1>2, <1>5, <1>8, <2>5, <2>6, <2>8, <2>9 DEF l
  <2>11. Seen(h, b) = {On(Console[s], "w")}
    BY <1>2, <2>4, <2>5, <2>8, <2>9
  <2>12. \A k \in Fd \ {t} : Seen(fs, k) # {} => Seen(h, k) = Seen(fs, k)
    BY <1>6, <2>5, <2>8, <2>9 DEF Keeps
  <2>13. \A p \in Path : fs.dir[p] # NoNode => h.dir[p] = fs.dir[p]
    BY <1>6, <2>8, <2>9 DEF Keeps
  <2>14. r.fs = h /\ r.backup = b /\ r.flagged = TRUE
    BY <2>1 DEF Redirect
  <2>15. after[s] = TRUE /\ backups[s] = b /\ \A u \in StdStream \ {s} : after[u] = flag[u] /\ backups[u] = backup[u]
    BY <1>1, <2>14
  <2> HIDE DEF after, backups
  <2>16. StreamOK(h, s, TRUE, b)
    BY <2>4, <2>10, <2>11 DEF StreamOK, t
  <2>17. ASSUME NEW u \in StdStream \ {s} PROVE StreamOK(h, u, flag[u], backup[u])
    <3>1. StreamOK(fs, u, flag[u], backup[u])
      BY <1>1 DEF StreamsOK
    <3>2. Target[u] \in Fd \ {t} /\ LogName[u] \in Path
      BY Targets DEF t
    <3>3. Seen(h, Target[u]) = Seen(fs, Target[u])
      BY <2>12, <3>1, <3>2 DEF StreamOK
    <3>4. flag[u] => h.dir[LogName[u]] = fs.dir[LogName[u]]
      BY <2>13, <3>1, <3>2 DEF StreamOK
    <3>5. flag[u] /\ backup[u] # NoFd => backup[u] \in Fd /\ Seen(h, backup[u]) = Seen(fs, backup[u])
      BY <1>2, <2>12, <3>1 DEF StreamOK
    <3> QED
      BY <3>1, <3>3, <3>4, <3>5 DEF StreamOK
  <2>18. Seen(h, 0) = {On("tty", "r")}
    <3>1. 0 \in Fd \ {t} /\ Seen(fs, 0) = {On("tty", "r")}
      BY <1>1, StandardFds, Targets DEF StreamsOK, t
    <3> QED
      BY <2>12, <3>1
  <2>19. StreamsOK(h, after, backups)
    BY <2>15, <2>16, <2>17, <2>18 DEF StreamsOK
  <2>20. HandlesOK(h, sfile)
    <3>1. ASSUME NEW k \in Handle, OfItsOwn(fs, sfile[k]) PROVE OfItsOwn(h, sfile[k])
      <4>1. sfile[k].fd \in Fd \ {t}
        BY <1>2, <3>1 DEF OfItsOwn
      <4> QED
        BY <2>12, <3>1, <4>1, OwnKept
    <3> QED
      BY <1>1, <3>1 DEF HandlesOK
  <2> QED
    BY <2>4, <2>9, <2>14, <2>19, <2>20 DEF r, after, backups
<1> QED
  BY <1>7, <1>8

-----------------------------------------------------------------------------
(* restore_and_read.                                                       *)

LEMMA RestoredKeeps ==
  ASSUME RedirectInv, NEW s \in StdStream, NodesNeverRunOut
  PROVE  LET r == Restored(s)
             after == [flag EXCEPT ![s] = r.flagged]
         IN  /\ r.fs \in FileSystem /\ r.text \in Texts \cup {Lost} /\ r.flagged \in BOOLEAN
             /\ StreamsOK(r.fs, after, backup)
             /\ HandlesOK(r.fs, sfile)
<1> DEFINE t == Target[s]
           name == LogName[s]
           r == Restored(s)
           after == [flag EXCEPT ![s] = r.flagged]
<1>1. /\ fs \in FileSystem /\ flag \in [StdStream -> BOOLEAN] /\ backup \in [StdStream -> Fd \cup {NoFd}]
      /\ StreamsOK(fs, flag, backup) /\ HandlesOK(fs, sfile)
  BY DEF RedirectInv, RedirectTypeOK
<1>2. CASE ~(flag[s] /\ backup[s] # NoFd)
  <2>1. r = [fs |-> Logged(fs, 1), text |-> Lost, flagged |-> flag[s]]
    BY <1>2, Zenon DEF Restored
  <2>2. Keeps(fs, Logged(fs, 1), Logs)
    BY <1>1, KeepsItself, LoggedKeeps
  <2>3. StreamsOK(Logged(fs, 1), flag, backup) /\ HandlesOK(Logged(fs, 1), sfile)
    BY <1>1, <2>2, StreamsKept, HandlesKept
  <2> HIDE DEF r
  <2>4. r.fs = Logged(fs, 1) /\ r.text = Lost /\ r.flagged = flag[s]
    BY <2>1
  <2>5. after = flag /\ r.flagged \in BOOLEAN
    BY <1>1, <2>4
  <2>6. r.fs \in FileSystem
    BY <2>2, <2>4, KeepsType
  <2> HIDE DEF after
  <2> QED
    BY <2>3, <2>4, <2>5, <2>6 DEF r, after
<1>3. CASE flag[s] /\ backup[s] # NoFd
  <2> DEFINE b == backup[s]
             g == Dup3(fs, b, t).fs
             h == Close(g, b).fs
             k == ReadToHeap(h, name)
  <2>1. t \in Fd /\ t \in 0..2 /\ name \in Path
    BY Targets
  <2>2. b \in Fd \ 0..2 /\ Seen(fs, b) = {On(Console[s], "w")}
    BY <1>1, <1>3 DEF StreamsOK, StreamOK
  <2>3. r = [fs |-> k.fs, text |-> k.text, flagged |-> FALSE]
    BY <1>3 DEF Restored, RestoreStream
  <2>4. b \in Fd /\ t \in 0..2 /\ b # t /\ Seen(fs, b) # {} /\ fs \in FileSystem
    BY <1>1, <2>1, <2>2
  <2> HIDE DEF r, b, t, name
  <2>5. /\ g \in FileSystem /\ g.dir = fs.dir
        /\ Seen(g, t) = Seen(fs, b)
        /\ \A j \in Fd \ {t} : Seen(g, j) = Seen(fs, j)
    BY <2>4, Dup3Seen
  <2> HIDE DEF g
  <2>6. /\ h \in FileSystem /\ h.dir = g.dir
        /\ \A j \in Fd \ {b} : Seen(h, j) = Seen(g, j)
    BY <2>2, <2>5, CloseSeen
  <2> HIDE DEF h
  <2>7. Keeps(h, k.fs, Path \ {name}) /\ k.text \in Texts \cup {Lost}
    BY <2>1, <2>6, ReadToHeapKeeps
  <2> HIDE DEF k
  <2>8. Seen(k.fs, t) = {On(Console[s], "w")}
    <3>1. Seen(h, t) = {On(Console[s], "w")} /\ t \in Fd
      BY <2>1, <2>2, <2>4, <2>5, <2>6
    <3>2. Seen(h, t) # {}
      BY <3>1
    <3> QED
      BY <2>7, <3>1, <3>2 DEF Keeps
  <2>9. \A j \in Fd \ {t, b} : Seen(fs, j) # {} => Seen(k.fs, j) = Seen(fs, j)
    BY <2>5, <2>6, <2>7 DEF Keeps
  <2>10. \A p \in Path \ {name} : fs.dir[p] # NoNode => k.fs.dir[p] = fs.dir[p]
    BY <2>5, <2>6, <2>7 DEF Keeps
  <2>11. r.fs = k.fs /\ r.text = k.text /\ r.flagged = FALSE
    BY <2>3
  <2>12. after[s] = FALSE /\ \A u \in StdStream \ {s} : after[u] = flag[u]
    BY <1>1, <2>11
  <2> HIDE DEF after
  <2>13. StreamOK(k.fs, s, FALSE, backup[s])
    BY <2>8 DEF StreamOK, t
  <2>14. ASSUME NEW u \in StdStream \ {s} PROVE StreamOK(k.fs, u, flag[u], backup[u])
    <3>1. StreamOK(fs, u, flag[u], backup[u])
      BY <1>1 DEF StreamsOK
    <3>2. Target[u] \in Fd \ {t, b} /\ LogName[u] \in Path \ {name}
      BY <2>2, Targets DEF t, name
    <3>3. Seen(k.fs, Target[u]) = Seen(fs, Target[u])
      BY <2>9, <3>1, <3>2 DEF StreamOK
    <3>4. flag[u] => k.fs.dir[LogName[u]] = fs.dir[LogName[u]]
      BY <2>10, <3>1, <3>2 DEF StreamOK
    <3>5. flag[u] /\ backup[u] # NoFd => backup[u] \in Fd /\ Seen(k.fs, backup[u]) = Seen(fs, backup[u])
      <4>1. SUFFICES ASSUME flag[u], backup[u] # NoFd
                     PROVE  backup[u] \in Fd /\ Seen(k.fs, backup[u]) = Seen(fs, backup[u])
        OBVIOUS
      <4>2. backup[u] \in Fd \ 0..2 /\ Seen(fs, backup[u]) = {On(Console[u], "w")}
        BY <3>1, <4>1 DEF StreamOK
      <4>3. On(Console[u], "w") # On(Console[s], "w")
        BY Targets DEF On
      <4>4. backup[u] # b
        BY <2>2, <4>2, <4>3
      <4> QED
        BY <2>1, <2>9, <4>2, <4>4
    <3> QED
      BY <3>1, <3>3, <3>4, <3>5 DEF StreamOK
  <2>15. Seen(k.fs, 0) = {On("tty", "r")}
    <3>1. 0 \in Fd \ {t, b} /\ Seen(fs, 0) = {On("tty", "r")}
      BY <1>1, <2>2, StandardFds, Targets DEF StreamsOK, t
    <3> QED
      BY <2>9, <3>1
  <2>16. StreamsOK(k.fs, after, backup)
    BY <2>12, <2>13, <2>14, <2>15 DEF StreamsOK
  <2>17. HandlesOK(k.fs, sfile)
    <3>1. ASSUME NEW j \in Handle, OfItsOwn(fs, sfile[j]) PROVE OfItsOwn(k.fs, sfile[j])
      <4>1. sfile[j].fd \in Fd \ {t}
        BY <2>1, <3>1 DEF OfItsOwn
      <4>2. Seen(fs, sfile[j].fd) # Seen(fs, b)
        BY <2>2, <3>1, Targets, OwnIsNoConsole
      <4> QED
        BY <2>9, <3>1, <4>1, <4>2, OwnKept
    <3> QED
      BY <1>1, <3>1 DEF HandlesOK
  <2>18. k.fs \in FileSystem
    BY <2>7, KeepsType
  <2> QED
    BY <2>7, <2>11, <2>16, <2>17, <2>18 DEF r, after
<1> QED
  BY <1>2, <1>3

-----------------------------------------------------------------------------
(* The steps.                                                              *)

\* The call of redirect_stream with which a call begins, or goes on.
LEMMA RedirectStreamStep ==
  ASSUME RedirectInv, NEW s \in StdStream, RedirectStream(s), NodesNeverRunOut
  PROVE  /\ fs' \in FileSystem /\ flag' \in [StdStream -> BOOLEAN]
         /\ backup' \in [StdStream -> Fd \cup {NoFd}]
         /\ troubled' \in BOOLEAN
         /\ StreamsOK(fs', flag', backup') /\ HandlesOK(fs', sfile)
         /\ ~troubled' => ~troubled /\ flag'[s]
         /\ \A u \in StdStream : flag[u] => flag'[u]
<1> DEFINE r == Redirected(s)
<1>1. /\ r.fs \in FileSystem /\ r.backup \in Fd \cup {NoFd} /\ r.flagged \in BOOLEAN
      /\ StreamsOK(r.fs, [flag EXCEPT ![s] = r.flagged], [backup EXCEPT ![s] = r.backup])
      /\ HandlesOK(r.fs, sfile)
      /\ flag[s] => r.flagged
  BY RedirectedKeeps
<1>2. /\ fs' = r.fs
      /\ flag' = [flag EXCEPT ![s] = r.flagged]
      /\ backup' = [backup EXCEPT ![s] = r.backup]
      /\ troubled' = (troubled \/ flag[s] \/ ~r.flagged)
  BY Zenon DEF RedirectStream
<1> HIDE DEF r
<1>3. flag \in [StdStream -> BOOLEAN] /\ backup \in [StdStream -> Fd \cup {NoFd}] /\ troubled \in BOOLEAN
  BY DEF RedirectInv, RedirectTypeOK
<1>4. flag' \in [StdStream -> BOOLEAN] /\ backup' \in [StdStream -> Fd \cup {NoFd}]
  BY <1>1, <1>2, <1>3
<1>5. flag'[s] = r.flagged /\ \A u \in StdStream \ {s} : flag'[u] = flag[u]
  BY <1>2, <1>3
<1>6. troubled' \in BOOLEAN /\ (~troubled' => ~troubled /\ r.flagged)
  BY <1>2, <1>3, Zenon
<1> QED
  BY <1>1, <1>2, <1>4, <1>5, <1>6

\* A step that redirects nothing, closes nothing and renames no log.
LEMMA StreamsStep ==
  ASSUME RedirectInv, Keeps(fs, fs', Logs), flag' = flag,
         \A s \in StdStream : flag[s] => backup'[s] \in {backup[s], NoFd}
  PROVE  fs' \in FileSystem /\ StreamsOK(fs', flag', backup') /\ HandlesOK(fs', sfile)
<1>1. StreamsOK(fs, flag, backup) /\ HandlesOK(fs, sfile)
  BY DEF RedirectInv
<1>2. StreamsOK(fs', flag, backup')
  BY <1>1, StreamsKept
<1>3. HandlesOK(fs', sfile)
  BY <1>1, HandlesKept
<1> QED
  BY <1>2, <1>3, KeepsType

LEMMA BeginKeepsInv ==
  ASSUME RedirectInv, NEW where \in {"assembling", "redirectOut"}, Begin(where), NodesNeverRunOut
  PROVE  RedirectInv'
<1>1. RedirectStream("err") /\ pc' = where
  BY DEF Begin
<1>2. /\ fs' \in FileSystem /\ flag' \in [StdStream -> BOOLEAN]
      /\ backup' \in [StdStream -> Fd \cup {NoFd}]
      /\ troubled' \in BOOLEAN
      /\ StreamsOK(fs', flag', backup') /\ HandlesOK(fs', sfile)
      /\ ~troubled' => flag'["err"]
  BY <1>1, RedirectStreamStep, Targets
<1>3. UNCHANGED <<sfile, text, named, initialized, ops, latest, meddled>>
  BY <1>1 DEF RedirectStream
<1>4. RedirectTypeOK'
  BY <1>1, <1>2, <1>3 DEF RedirectInv, RedirectTypeOK
<1>5. CallOK'
  BY <1>1, <1>2 DEF CallOK
<1> QED
  BY <1>2, <1>3, <1>4, <1>5 DEF RedirectInv

LEMMA RedirectOutKeepsInv ==
  ASSUME RedirectInv, RedirectOut, NodesNeverRunOut
  PROVE  RedirectInv'
<1>1. RedirectStream("out") /\ pc = "redirectOut" /\ pc' = "executing"
  BY DEF RedirectOut
<1>2. /\ fs' \in FileSystem /\ flag' \in [StdStream -> BOOLEAN]
      /\ backup' \in [StdStream -> Fd \cup {NoFd}]
      /\ troubled' \in BOOLEAN
      /\ StreamsOK(fs', flag', backup') /\ HandlesOK(fs', sfile)
      /\ ~troubled' => ~troubled /\ flag'["out"]
      /\ flag["err"] => flag'["err"]
  BY <1>1, RedirectStreamStep, Targets
<1>3. UNCHANGED <<sfile, text, named, initialized, ops, latest, meddled>>
  BY <1>1 DEF RedirectStream
<1>4. RedirectTypeOK'
  BY <1>1, <1>2, <1>3 DEF RedirectInv, RedirectTypeOK
<1>5. CallOK'
  BY <1>1, <1>2 DEF RedirectInv, CallOK
<1> QED
  BY <1>2, <1>3, <1>4, <1>5 DEF RedirectInv

LEMMA AssembleSourceKeepsInv ==
  ASSUME RedirectInv, NEW s \in Source, AssembleSource(s), NodesNeverRunOut
  PROVE  RedirectInv'
<1> DEFINE clean == Unlink(fs, "mmo").fs
           mms == Written(clean, "mms", <<s>>)
           run == Mmixal(mms.fs, s)
           lst == IF run.ret = 0 THEN ReadToHeap(run.fs, "listing").fs ELSE run.fs
<1>1. fs \in FileSystem /\ <<s>> \in Seq(Line)
  BY DEF RedirectInv, RedirectTypeOK
<1>2. /\ IF Fails(mms) THEN fs' = Logged(mms.fs, 3) ELSE fs' = Unlink(lst, "mms").fs
      /\ latest' \in [src : Source \cup {Lost}, whole : BOOLEAN]
      /\ named' \in {named, TRUE, FALSE}
      /\ UNCHANGED <<flag, backup, sfile, text, initialized, ops, troubled, meddled>>
      /\ pc = "assembling" /\ pc' = "assembled"
  BY DEF AssembleSource
<1>3. Logs \subseteq Path \ {"mmo", "mms", "listing"}
  BY PathNames, Targets DEF Logs
<1>4. Keeps(fs, clean, Path \ {"mmo"})
  BY <1>1, PathNames, UnlinkSeen
<1>5. clean \in FileSystem
  BY <1>4, KeepsType
<1> HIDE DEF clean
<1>6. Keeps(clean, mms.fs, Path)
  BY <1>1, <1>5, PathNames, KeepsItself, WrittenKeeps
<1> HIDE DEF mms
<1>7. Keeps(clean, run.fs, Path)
  BY <1>6, MmixalKeeps
<1>8. run.fs \in FileSystem
  BY <1>7, KeepsType
<1> HIDE DEF run
<1>9. Keeps(clean, lst, Path \ {"listing"})
  <2>1. Keeps(clean, run.fs, Path \ {"listing"})
    BY <1>7, KeepsFewer
  <2>2. Keeps(run.fs, ReadToHeap(run.fs, "listing").fs, Path \ {"listing"})
    BY <1>8, PathNames, ReadToHeapKeeps
  <2> QED
    BY <2>1, <2>2, KeepsIsTransitive
<1> HIDE DEF lst
<1>10. Keeps(clean, Unlink(lst, "mms").fs, (Path \ {"listing"}) \ {"mms"})
  BY <1>9, PathNames, UnlinkKeeps
<1>11. Keeps(clean, Logged(mms.fs, 3), Path)
  BY <1>6, LoggedKeeps
<1>12. Keeps(clean, fs', Logs)
  BY <1>2, <1>3, <1>10, <1>11, KeepsFewer
<1>13. Keeps(fs, clean, Logs)
  BY <1>3, <1>4, KeepsFewer
<1>14. Keeps(fs, fs', Logs)
  BY <1>12, <1>13, KeepsIsTransitive
<1>15. fs' \in FileSystem /\ StreamsOK(fs', flag', backup') /\ HandlesOK(fs', sfile)
  BY <1>2, <1>14, StreamsStep
<1>16. RedirectTypeOK'
  BY <1>2, <1>15 DEF RedirectInv, RedirectTypeOK
<1>17. CallOK'
  BY <1>2 DEF RedirectInv, CallOK
<1> QED
  BY <1>2, <1>15, <1>16, <1>17 DEF RedirectInv

LEMMA RestoreErrKeepsInv ==
  ASSUME RedirectInv, RestoreErr, NodesNeverRunOut
  PROVE  RedirectInv'
<1> DEFINE r == Restored("err")
<1>1. /\ r.fs \in FileSystem /\ r.text \in Texts \cup {Lost} /\ r.flagged \in BOOLEAN
      /\ StreamsOK(r.fs, [flag EXCEPT !["err"] = r.flagged], backup)
      /\ HandlesOK(r.fs, sfile)
  BY RestoredKeeps, Targets
<1>2. /\ fs' \in {r.fs, Logged(r.fs, 1)}
      /\ flag' = [flag EXCEPT !["err"] = r.flagged]
      /\ text' = [text EXCEPT !["err"] = r.text]
      /\ backup' = NoBackup /\ ops' = 0 /\ pc' = "idle"
      /\ UNCHANGED <<sfile, named, initialized, latest, troubled, meddled>>
  BY DEF RestoreErr
<1> HIDE DEF r
<1>3. Keeps(r.fs, fs', Logs)
  BY <1>1, <1>2, KeepsItself, LoggedKeeps
<1>4. \A s \in StdStream : NoBackup[s] = NoFd
  BY DEF NoBackup
<1>5. StreamsOK(fs', flag', backup')
  BY <1>1, <1>2, <1>3, <1>4, StreamsKept
<1>6. HandlesOK(fs', sfile)
  BY <1>1, <1>3, HandlesKept
<1>7. RedirectTypeOK'
  <2>1. fs' \in FileSystem
    BY <1>3, KeepsType
  <2>2. backup' \in [StdStream -> Fd \cup {NoFd}]
    BY <1>2 DEF NoBackup
  <2>3. /\ flag' \in [StdStream -> BOOLEAN]
        /\ text' \in [StdStream -> Seq(Line \cup {Hole}) \cup {Lost}]
    BY <1>1, <1>2 DEF RedirectInv, RedirectTypeOK, Texts
  <2> QED
    BY <1>2, <2>1, <2>2, <2>3 DEF RedirectInv, RedirectTypeOK
<1>8. CallOK'
  BY <1>2 DEF CallOK
<1> QED
  BY <1>2, <1>5, <1>6, <1>7, <1>8 DEF RedirectInv

LEMMA RestoreOutKeepsInv ==
  ASSUME RedirectInv, RestoreOut, NodesNeverRunOut
  PROVE  RedirectInv'
<1> DEFINE r == Restored("out")
<1>1. /\ r.fs \in FileSystem /\ r.text \in Texts \cup {Lost} /\ r.flagged \in BOOLEAN
      /\ StreamsOK(r.fs, [flag EXCEPT !["out"] = r.flagged], backup)
      /\ HandlesOK(r.fs, sfile)
  BY RestoredKeeps, Targets
<1>2. /\ fs' = r.fs
      /\ flag' = [flag EXCEPT !["out"] = r.flagged]
      /\ text' = [text EXCEPT !["out"] = r.text]
      /\ pc # "idle" /\ pc' = "executed"
      /\ UNCHANGED <<backup, sfile, named, initialized, ops, latest, troubled, meddled>>
  BY DEF RestoreOut
<1> HIDE DEF r
<1>3. RedirectTypeOK'
  <2>1. /\ flag' \in [StdStream -> BOOLEAN]
        /\ text' \in [StdStream -> Seq(Line \cup {Hole}) \cup {Lost}]
    BY <1>1, <1>2 DEF RedirectInv, RedirectTypeOK, Texts
  <2> QED
    BY <1>1, <1>2, <2>1 DEF RedirectInv, RedirectTypeOK
<1>4. CallOK'
  <2>1. flag'["err"] = flag["err"]
    BY <1>2, Targets DEF RedirectInv, RedirectTypeOK
  <2> QED
    BY <1>2, <2>1 DEF RedirectInv, CallOK
<1>5. StreamsOK(fs', flag', backup') /\ HandlesOK(fs', sfile')
  BY <1>1, <1>2
<1> QED
  BY <1>3, <1>4, <1>5 DEF RedirectInv

\* The steps that do no more than log.
Refuses == Finalize \/ PerformRefused \/ ExecuteRefused \/ UNCHANGED redirectVars

LEMMA RefusesIs ==
  ASSUME Refuses, initialized \in {-1, 0, 1}
  PROVE  /\ fs' = fs \/ fs' = Logged(fs, 1) \/ fs' = Logged(fs, 2)
         /\ UNCHANGED <<flag, backup, sfile, text, named, ops, latest, troubled, meddled>>
         /\ initialized' \in {-1, 0, 1}
         /\ pc' = pc \/ (pc = "executing" /\ pc' = "refused")
<1>1. CASE Finalize
  BY <1>1 DEF Finalize
<1>2. CASE PerformRefused
  BY <1>2 DEF PerformRefused
<1>3. CASE ExecuteRefused
  BY <1>3 DEF ExecuteRefused
<1>4. CASE UNCHANGED redirectVars
  BY <1>4 DEF redirectVars
<1> QED
  BY <1>1, <1>2, <1>3, <1>4 DEF Refuses

LEMMA RefusesKeepsInv ==
  ASSUME RedirectInv, Refuses
  PROVE  RedirectInv'
<1>1. /\ fs' = fs \/ fs' = Logged(fs, 1) \/ fs' = Logged(fs, 2)
      /\ UNCHANGED <<flag, backup, sfile, text, named, ops, latest, troubled, meddled>>
      /\ initialized' \in {-1, 0, 1}
      /\ pc' = pc \/ (pc = "executing" /\ pc' = "refused")
  BY RefusesIs DEF RedirectInv, RedirectTypeOK
<1>2. fs \in FileSystem
  BY DEF RedirectInv, RedirectTypeOK
<1>3. Keeps(fs, fs', Logs)
  BY <1>1, <1>2, KeepsItself, LoggedKeeps
<1>4. fs' \in FileSystem /\ StreamsOK(fs', flag', backup') /\ HandlesOK(fs', sfile)
  BY <1>1, <1>3, StreamsStep
<1>5. RedirectTypeOK'
  BY <1>1, <1>4 DEF RedirectInv, RedirectTypeOK
<1>6. CallOK'
  BY <1>1 DEF RedirectInv, CallOK
<1> QED
  BY <1>1, <1>4, <1>5, <1>6 DEF RedirectInv

LEMMA AbortKeepsInv ==
  ASSUME RedirectInv, Abort
  PROVE  RedirectInv'
<1>1. /\ backup' = NoBackup /\ ops' = 0 /\ troubled' = TRUE /\ pc' = "idle"
      /\ UNCHANGED <<fs, flag, sfile, text, named, initialized, latest, meddled>>
  BY DEF Abort
<1>2. Keeps(fs, fs', Logs)
  BY <1>1, KeepsItself DEF RedirectInv, RedirectTypeOK
<1>3. \A s \in StdStream : backup'[s] = NoFd
  BY <1>1 DEF NoBackup
<1>4. StreamsOK(fs', flag', backup') /\ HandlesOK(fs', sfile')
  BY <1>1, <1>2, <1>3, StreamsStep
<1>5. backup' \in [StdStream -> Fd \cup {NoFd}]
  BY <1>1 DEF NoBackup
<1>6. RedirectTypeOK'
  BY <1>1, <1>5 DEF RedirectInv, RedirectTypeOK
<1>7. CallOK'
  BY <1>1 DEF CallOK
<1> QED
  BY <1>4, <1>6, <1>7 DEF RedirectInv

\* A program that starts finds the standard handles as they should be.
LEMMA InitializeKeepsInv ==
  ASSUME RedirectInv, Initialize
  PROVE  RedirectInv'
<1>1. /\ sfile' = IoInit \/ sfile' = sfile
      /\ fs' = fs \/ fs' = Logged(fs, 2)
      /\ initialized' \in {initialized, 0, 1}
      /\ UNCHANGED <<flag, backup, text, named, pc, ops, latest, troubled, meddled>>
  BY DEF Initialize
<1>2. /\ fs \in FileSystem /\ sfile \in [Handle -> FileInfo]
      /\ StreamsOK(fs, flag, backup) /\ HandlesOK(fs, sfile)
  BY DEF RedirectInv, RedirectTypeOK
<1>3. Keeps(fs, fs', Logs)
  BY <1>1, <1>2, KeepsItself, LoggedKeeps
<1>4. fs' \in FileSystem /\ StreamsOK(fs', flag', backup') /\ HandlesOK(fs', sfile)
  BY <1>1, <1>3, StreamsStep
<1>5. IoInit \in [Handle -> FileInfo]
  <2>1. ASSUME NEW h \in Handle PROVE (IF h \in 0..2 THEN Open3[h] ELSE sfile[h]) \in FileInfo
    BY <1>2, StandardFds DEF Open3, FileInfo
  <2> QED
    BY <2>1 DEF IoInit
<1>6. HandlesOK(fs', IoInit)
  <2>1. ASSUME NEW h \in Handle \cap 0..2
        PROVE  AsStarted(h, IoInit[h]) /\ IoInit[h].fd = h /\ ~IoInit[h].binary
    BY DEF IoInit, AsStarted, Open3
  <2>2. ASSUME NEW h \in Handle \ 0..2
        PROVE  /\ IoInit[h] = sfile[h]
               /\ sfile[h].can # {} => OfItsOwn(fs', sfile[h]) /\ sfile[h].fd \notin 0..2
    BY <1>4 DEF IoInit, HandlesOK, AsStarted, OfItsOwn
  <2>3. \A g, h \in Handle : g # h /\ IoInit[g].can # {} /\ IoInit[h].can # {} => IoInit[g].fd # IoInit[h].fd
    BY <1>4, <2>1, <2>2 DEF HandlesOK
  <2>4. \A h \in Handle : IoInit[h].can # {} => AsStarted(h, IoInit[h]) \/ OfItsOwn(fs', IoInit[h])
    BY <2>1, <2>2
  <2>5. \A h \in Handle : IoInit[h].binary => IoInit[h].can # {}
    BY <1>4, <2>1, <2>2 DEF HandlesOK
  <2> QED
    BY <2>3, <2>4, <2>5 DEF HandlesOK
<1>7. sfile' \in [Handle -> FileInfo] /\ HandlesOK(fs', sfile')
  BY <1>1, <1>2, <1>4, <1>5, <1>6
<1>8. RedirectTypeOK'
  BY <1>1, <1>4, <1>7 DEF RedirectInv, RedirectTypeOK
<1>9. CallOK'
  BY <1>1 DEF RedirectInv, CallOK
<1> QED
  BY <1>4, <1>7, <1>8, <1>9 DEF RedirectInv

-----------------------------------------------------------------------------
(* The I/O traps.                                                          *)

\* A trap leaves the redirection alone.
LEMMA TrapStep ==
  ASSUME RedirectInv, Trap, fs' \in FileSystem, StreamsOK(fs', flag, backup),
         sfile' \in [Handle -> FileInfo], HandlesOK(fs', sfile'), meddled' \in BOOLEAN
  PROVE  RedirectInv'
<1>1. /\ ops < OpsPerBatch /\ ops' = ops + 1
      /\ UNCHANGED <<flag, backup, text, named, initialized, pc, latest, troubled>>
  BY DEF Trap
<1>2. ops' \in 0..OpsPerBatch
  BY <1>1 DEF RedirectInv, RedirectTypeOK
<1>3. RedirectTypeOK'
  BY <1>1, <1>2 DEF RedirectInv, RedirectTypeOK
<1>4. CallOK'
  BY <1>1 DEF RedirectInv, CallOK
<1>5. StreamsOK(fs', flag', backup')
  BY <1>1
<1> QED
  BY <1>3, <1>4, <1>5 DEF RedirectInv

LEMMA LiveFd ==
  ASSUME RedirectInv, NEW h \in Handle, sfile[h].can # {}
  PROVE  sfile[h].fd \in Fd /\ Seen(fs, sfile[h].fd) # {}
<1>1. AsStarted(h, sfile[h]) \/ OfItsOwn(fs, sfile[h])
  BY DEF RedirectInv, HandlesOK
<1>2. CASE AsStarted(h, sfile[h])
  <2>1. sfile[h].fd \in {0, 1, 2}
    BY <1>2 DEF AsStarted
  <2>2. Seen(fs, 0) # {}
    BY DEF RedirectInv, StreamsOK
  <2>3. ASSUME NEW s \in StdStream PROVE Seen(fs, Target[s]) # {}
    BY DEF RedirectInv, StreamsOK, StreamOK
  <2>4. Seen(fs, 1) # {} /\ Seen(fs, 2) # {}
    BY <2>3, Targets
  <2> QED
    BY <2>1, <2>2, <2>4, StandardFds
<1>3. CASE OfItsOwn(fs, sfile[h])
  BY <1>3 DEF OfItsOwn
<1> QED
  BY <1>1, <1>2, <1>3

\* mmix_fclose closes nothing but the descriptor of the handle.
LEMMA FclosedKeeps ==
  ASSUME RedirectInv, NEW h \in Handle
  PROVE  LET f == Fclosed(h)
         IN  /\ f \in FileSystem
             /\ StreamsOK(f, flag, backup)
             /\ HandlesOK(f, [sfile EXCEPT ![h] = NotOpen])
             /\ \A g \in Handle \ {h} : sfile[g].can # {} => Seen(f, sfile[g].fd) # {}
<1> DEFINE i == sfile[h]
           f == Fclosed(h)
           table == [sfile EXCEPT ![h] = NotOpen]
<1>1. /\ fs \in FileSystem /\ sfile \in [Handle -> FileInfo]
      /\ StreamsOK(fs, flag, backup) /\ HandlesOK(fs, sfile)
  BY DEF RedirectInv, RedirectTypeOK
<1>2. /\ table[h].can = {} /\ ~table[h].binary
      /\ \A g \in Handle \ {h} : table[g] = sfile[g]
  BY <1>1 DEF NotOpen
<1>3. \A g \in Handle \ {h} : sfile[g].can # {} => sfile[g].fd \in Fd /\ Seen(fs, sfile[g].fd) # {}
  BY LiveFd
<1> HIDE DEF table
<1>4. CASE i.can = {} \/ Std(h)
  <2>1. f = fs
    BY <1>4 DEF Fclosed
  <2>2. HandlesOK(fs, table)
    BY <1>1, <1>2 DEF HandlesOK
  <2> QED
    BY <1>1, <1>3, <2>1, <2>2 DEF table
<1>5. CASE i.can # {} /\ ~Std(h)
  <2>1. f = Close(fs, i.fd).fs
    BY <1>5 DEF Fclosed
  <2>2. OfItsOwn(fs, i)
    BY <1>1, <1>5 DEF HandlesOK, AsStarted, Std
  <2>3. i.fd \in Fd \ 0..2
    BY <2>2 DEF OfItsOwn
  <2>4. /\ f \in FileSystem /\ f.dir = fs.dir
        /\ \A k \in Fd \ {i.fd} : Seen(f, k) = Seen(fs, k)
    BY <1>1, <2>1, <2>3, CloseSeen
  <2>5. \A g \in Handle \ {h} : sfile[g].can # {} => sfile[g].fd # i.fd
    BY <1>1, <1>5 DEF HandlesOK
  <2> HIDE DEF f
  <2>6. Seen(f, 0) = {On("tty", "r")}
    BY <1>1, <2>3, <2>4, StandardFds DEF StreamsOK
  <2>7. ASSUME NEW s \in StdStream PROVE StreamOK(f, s, flag[s], backup[s])
    <3>1. StreamOK(fs, s, flag[s], backup[s])
      BY <1>1 DEF StreamsOK
    <3>2. Seen(f, Target[s]) = Seen(fs, Target[s])
      BY <2>3, <2>4, Targets
    <3>3. ASSUME flag[s], backup[s] # NoFd
          PROVE  backup[s] \in Fd \ 0..2 /\ Seen(f, backup[s]) = Seen(fs, backup[s])
      <4>1. backup[s] \in Fd \ 0..2 /\ Seen(fs, backup[s]) = {On(Console[s], "w")}
        BY <3>1, <3>3 DEF StreamOK
      <4>2. Seen(fs, i.fd) # {On(Console[s], "w")}
        BY <2>2, Targets, OwnIsNoConsole
      <4>3. backup[s] # i.fd
        BY <4>1, <4>2
      <4> QED
        BY <2>4, <4>1, <4>3
    <3> QED
      BY <2>4, <3>1, <3>2, <3>3 DEF StreamOK
  <2>8. StreamsOK(f, flag, backup)
    BY <2>6, <2>7 DEF StreamsOK
  <2>9. \A g \in Handle \ {h} : sfile[g].can # {} => Seen(f, sfile[g].fd) = Seen(fs, sfile[g].fd)
    BY <1>3, <2>4, <2>5
  <2>10. ASSUME NEW g \in Handle \ {h}, sfile[g].can # {}
         PROVE  AsStarted(g, sfile[g]) \/ OfItsOwn(f, sfile[g])
    <3>1. AsStarted(g, sfile[g]) \/ OfItsOwn(fs, sfile[g])
      BY <1>1, <2>10 DEF HandlesOK
    <3>2. Seen(f, sfile[g].fd) = Seen(fs, sfile[g].fd)
      BY <2>9, <2>10
    <3> QED
      BY <3>1, <3>2, OwnKept
  <2>11. HandlesOK(f, table)
    BY <1>1, <1>2, <2>10 DEF HandlesOK
  <2> QED
    BY <1>3, <2>4, <2>8, <2>9, <2>11 DEF table, f
<1> QED
  BY <1>4, <1>5

LEMMA FcloseKeepsInv ==
  ASSUME RedirectInv, NEW h \in Handle, Fclose(h)
  PROVE  RedirectInv'
<1>1. Trap /\ fs' = Fclosed(h) /\ sfile' = [sfile EXCEPT ![h] = NotOpen] /\ meddled' = meddled
  BY DEF Fclose
<1>0. meddled' \in BOOLEAN
  BY <1>1 DEF RedirectInv, RedirectTypeOK
<1>2. fs' \in FileSystem /\ StreamsOK(fs', flag, backup) /\ HandlesOK(fs', sfile')
  BY <1>1, FclosedKeeps
<1>3. NotOpen \in FileInfo
  BY DEF NotOpen, FileInfo
<1>4. sfile' \in [Handle -> FileInfo]
  BY <1>1, <1>3 DEF RedirectInv, RedirectTypeOK
<1> QED
  BY <1>0, <1>1, <1>2, <1>4, TrapStep

\* The handle that a trap is about becomes i.
LEMMA HandleReplaced ==
  ASSUME RedirectInv, NEW f, NEW h \in Handle, HandlesOK(f, [sfile EXCEPT ![h] = NotOpen]),
         NEW i \in FileInfo, AsStarted(h, i) \/ OfItsOwn(f, i), i.binary => i.can # {},
         \A g \in Handle \ {h} : sfile[g].can # {} => sfile[g].fd # i.fd
  PROVE  /\ [sfile EXCEPT ![h] = i] \in [Handle -> FileInfo]
         /\ HandlesOK(f, [sfile EXCEPT ![h] = i])
<1> DEFINE old == [sfile EXCEPT ![h] = NotOpen]
           new == [sfile EXCEPT ![h] = i]
<1>1. sfile \in [Handle -> FileInfo]
  BY DEF RedirectInv, RedirectTypeOK
<1>2. new \in [Handle -> FileInfo]
  BY <1>1
<1>3. \A g \in Handle \ {h} : old[g] = sfile[g] /\ new[g] = sfile[g]
  BY <1>1
<1>4. new[h] = i
  BY <1>1
<1>5. HandlesOK(f, old)
  OBVIOUS
<1> HIDE DEF old, new
<1>6. ASSUME NEW g \in Handle, new[g].can # {} PROVE AsStarted(g, new[g]) \/ OfItsOwn(f, new[g])
  BY <1>3, <1>4, <1>5, <1>6 DEF HandlesOK
<1>7. ASSUME NEW g \in Handle, new[g].binary PROVE new[g].can # {}
  <2>1. CASE g = h
    BY <1>4, <1>7, <2>1, Zenon
  <2>2. CASE g # h
    <3>1. new[g] = old[g]
      BY <1>3, <2>2
    <3>2. old[g].binary => old[g].can # {}
      BY <1>5 DEF HandlesOK
    <3> QED
      BY <1>7, <3>1, <3>2, Zenon
  <2> QED
    BY <2>1, <2>2
<1>8. ASSUME NEW g \in Handle, NEW k \in Handle, g # k, new[g].can # {}, new[k].can # {}
      PROVE  new[g].fd # new[k].fd
  <2>1. CASE g # h /\ k # h
    BY <1>3, <1>5, <1>8, <2>1 DEF HandlesOK
  <2>2. CASE g = h \/ k = h
    BY <1>3, <1>4, <1>8, <2>2
  <2> QED
    BY <2>1, <2>2
<1>9. HandlesOK(f, new)
  BY <1>6, <1>7, <1>8 DEF HandlesOK
<1> QED
  BY <1>2, <1>9 DEF new

LEMMA FopenKeepsInv ==
  ASSUME RedirectInv, NEW h \in Handle, NEW name \in UserFile, NEW mode \in Mode,
         NEW binary \in BOOLEAN, Fopen(h, name, mode, binary), NodesNeverRunOut
  PROVE  RedirectInv'
<1> DEFINE f == Fclosed(h)
           file == Open(f, name, mode)
           i == [fd |-> file.ret, can |-> Allowed(mode), binary |-> binary, both |-> mode = "w+"]
<1>1. /\ Trap /\ fs' = file.fs
      /\ sfile' = [sfile EXCEPT ![h] = IF Fails(file) THEN NotOpen ELSE i]
  BY DEF Fopen
<1>0. meddled' \in BOOLEAN
  BY DEF Fopen, RedirectInv, RedirectTypeOK
<1>2. /\ f \in FileSystem /\ StreamsOK(f, flag, backup)
      /\ HandlesOK(f, [sfile EXCEPT ![h] = NotOpen])
      /\ \A g \in Handle \ {h} : sfile[g].can # {} => Seen(f, sfile[g].fd) # {}
  BY FclosedKeeps
<1> HIDE DEF f
<1>3. name \in Path /\ name \in Name /\ ~(name \in DOMAIN Link)
  BY PathNames, FSAssumption
<1>4. Keeps(f, file.fs, Path)
  BY <1>2, <1>3, OpenSeen
<1>5. file.fs \in FileSystem
  BY <1>4, KeepsType
<1>6. Keeps(f, file.fs, Logs)
  BY <1>4, Targets, KeepsFewer
<1>7. StreamsOK(file.fs, flag, backup)
  BY <1>2, <1>6, StreamsKept
<1>8. HandlesOK(file.fs, [sfile EXCEPT ![h] = NotOpen])
  BY <1>2, <1>4, HandlesKept
<1>9. CASE Fails(file)
  <2>1. NotOpen \in FileInfo
    BY DEF NotOpen, FileInfo
  <2>2. sfile' = [sfile EXCEPT ![h] = NotOpen]
    BY <1>1, <1>9
  <2>3. sfile' \in [Handle -> FileInfo]
    BY <2>1, <2>2 DEF RedirectInv, RedirectTypeOK
  <2> QED
    BY <1>0, <1>1, <1>5, <1>7, <1>8, <2>2, <2>3, TrapStep
<1>10. CASE ~Fails(file)
  <2>1. file.ret \in Fd /\ Seen(f, file.ret) = {} /\ Exists(file.fs, name)
    BY <1>2, <1>3, <1>10, OpenSeen
  <2> DEFINE n == Lookup(file.fs, name)
  <2>2. n = Lookup(file.fs, name) /\ file = Open(f, name, mode)
    OBVIOUS
  <2>3. n \in Node
    BY <1>3, <1>5, <2>1, LookupLeads
  <2> HIDE DEF n, i
  <2>4. Seen(file.fs, file.ret) = {On(n, mode)}
    <3>1. f \in FileSystem /\ name \in Name /\ mode \in Mode /\ file = Open(f, name, mode)
      BY <1>2, <1>3
    <3>2. n = Lookup(file.fs, name) /\ ~Fails(file)
      BY <1>10, <2>2
    <3> HIDE DEF file
    <3> QED
      BY <3>1, <3>2, OpenLeads
  <2> HIDE DEF file
  <2>5. file.ret \notin 0..2
    <3>1. Seen(f, 0) # {}
      BY <1>2 DEF StreamsOK
    <3>2. ASSUME NEW s \in StdStream PROVE Seen(f, Target[s]) # {}
      BY <1>2 DEF StreamsOK, StreamOK
    <3>3. Seen(f, 1) # {} /\ Seen(f, 2) # {}
      BY <3>2, Targets
    <3> QED
      BY <2>1, <3>1, <3>3
  <2>6. i.fd = file.ret /\ i.can = Allowed(mode) /\ i.can # {} /\ i.both = (mode = "w+")
    BY DEF i, Allowed, Mode
  <2>7. Allowed(mode) \in SUBSET {"read", "write"}
    BY DEF Allowed
  <2>8. i \in FileInfo
    BY <2>1, <2>7 DEF FileInfo, i
  <2>9. Fits(i, mode)
    BY <2>6 DEF Fits, Allowed
  <2>10. OfItsOwn(file.fs, i)
    BY <2>1, <2>3, <2>4, <2>5, <2>6, <2>9 DEF OfItsOwn
  <2>11. \A g \in Handle \ {h} : sfile[g].can # {} => sfile[g].fd # i.fd
    BY <1>2, <2>1, <2>6
  <2>12. sfile' = [sfile EXCEPT ![h] = i]
    BY <1>1, <1>10 DEF i
  <2>13. sfile' \in [Handle -> FileInfo] /\ HandlesOK(file.fs, sfile')
    BY <1>8, <2>6, <2>8, <2>10, <2>11, <2>12, HandleReplaced
  <2> QED
    BY <1>0, <1>1, <1>5, <1>7, <2>13, TrapStep
<1> QED
  BY <1>9, <1>10

\* Reading, writing and seeking change no more than which of them may follow.
LEMMA UsedKeeps ==
  ASSUME RedirectInv, NEW h \in Handle, sfile[h].can # {}, NEW f, Same(fs, f),
         NEW c \in SUBSET {"read", "write"}, c # {}, ~sfile[h].both => c = sfile[h].can
  PROVE  /\ f \in FileSystem /\ StreamsOK(f, flag, backup)
         /\ [sfile EXCEPT ![h].can = c] \in [Handle -> FileInfo]
         /\ HandlesOK(f, [sfile EXCEPT ![h].can = c])
<1> DEFINE i == [sfile[h] EXCEPT !.can = c]
<1>1. sfile \in [Handle -> FileInfo] /\ StreamsOK(fs, flag, backup) /\ HandlesOK(fs, sfile)
  BY DEF RedirectInv, RedirectTypeOK
<1>2. /\ i \in FileInfo /\ i.fd = sfile[h].fd /\ i.can = c
      /\ i.binary = sfile[h].binary /\ i.both = sfile[h].both
  BY <1>1 DEF FileInfo
<1>3. [sfile EXCEPT ![h].can = c] = [sfile EXCEPT ![h] = i]
  BY <1>1
<1> HIDE DEF i
<1>4. Keeps(fs, f, Logs)
  BY SameKeeps
<1>5. f \in FileSystem /\ StreamsOK(f, flag, backup)
  BY <1>1, <1>4, KeepsType, StreamsKept
<1>6. HandlesOK(f, sfile)
  BY <1>1, <1>4, HandlesKept
<1>7. HandlesOK(f, [sfile EXCEPT ![h] = NotOpen])
  <2> DEFINE table == [sfile EXCEPT ![h] = NotOpen]
  <2>1. /\ table[h].can = {} /\ ~table[h].binary
        /\ \A g \in Handle \ {h} : table[g] = sfile[g]
    BY <1>1 DEF NotOpen
  <2> HIDE DEF table
  <2>2. HandlesOK(f, table)
    BY <1>6, <2>1 DEF HandlesOK
  <2> QED
    BY <2>2 DEF table
<1>8. AsStarted(h, i) \/ OfItsOwn(f, i)
  <2>1. CASE AsStarted(h, sfile[h])
    <3>1. c = sfile[h].can
      BY <2>1 DEF AsStarted
    <3> QED
      BY <1>2, <2>1, <3>1 DEF AsStarted
  <2>2. CASE OfItsOwn(f, sfile[h])
    <3>1. PICK n \in Node, mode \in Mode : Seen(f, sfile[h].fd) = {On(n, mode)} /\ Fits(sfile[h], mode)
      BY <2>2 DEF OfItsOwn
    <3>2. Fits(i, mode)
      <4>1. CASE sfile[h].both
        BY <1>2, <3>1, <4>1 DEF Fits
      <4>2. CASE ~sfile[h].both
        BY <1>2, <3>1, <4>2 DEF Fits
      <4> QED
        BY <4>1, <4>2
    <3>3. i.fd \in Fd \ 0..2
      BY <1>2, <2>2 DEF OfItsOwn
    <3>4. Seen(f, i.fd) = {On(n, mode)}
      BY <1>2, <3>1
    <3> QED
      BY <3>2, <3>3, <3>4 DEF OfItsOwn
  <2> QED
    BY <1>6, <2>1, <2>2 DEF HandlesOK
<1>9. \A g \in Handle \ {h} : sfile[g].can # {} => sfile[g].fd # i.fd
  BY <1>2, <1>6 DEF HandlesOK
<1> QED
  BY <1>2, <1>3, <1>5, <1>7, <1>8, <1>9, HandleReplaced

LEMMA UseKeepsInv ==
  ASSUME RedirectInv, NEW h \in Handle,
         (\E lines \in Prints : Fputs(h, lines)) \/ Fread(h) \/ Fseek(h)
  PROVE  RedirectInv'
<1>1. fs \in FileSystem /\ sfile \in [Handle -> FileInfo]
  BY DEF RedirectInv, RedirectTypeOK
<1>0. meddled' \in BOOLEAN
  BY DEF Fputs, Fread, Fseek, RedirectInv, RedirectTypeOK
<1>2. sfile[h].can \in SUBSET {"read", "write"} /\ sfile[h].can # {}
  <2>1. sfile[h].binary => sfile[h].can # {}
    BY DEF RedirectInv, HandlesOK
  <2> QED
    BY <1>1, <2>1 DEF FileInfo, Fputs, Fread, Fseek
<1> DEFINE used(c) == [sfile EXCEPT ![h].can = IF sfile[h].both THEN c ELSE @]
<1>3. ASSUME NEW c \in SUBSET {"read", "write"}, c # {}
      PROVE  \E k \in SUBSET {"read", "write"} :
               k # {} /\ (~sfile[h].both => k = sfile[h].can) /\ used(c) = [sfile EXCEPT ![h].can = k]
  <2>1. CASE sfile[h].both
    BY <1>3, <2>1
  <2>2. CASE ~sfile[h].both
    BY <1>2, <2>2
  <2> QED
    BY <2>1, <2>2
<1>4. /\ Trap /\ sfile[h].can # {}
      /\ \/ /\ \E lines \in Prints : fs' = Write(fs, sfile[h].fd, lines).fs
            /\ sfile' = used({"write"})
         \/ fs' = Read(fs, sfile[h].fd).fs /\ sfile' = used({"read"})
         \/ fs' = Seek(fs, sfile[h].fd, 0).fs /\ sfile' = used({"read", "write"})
  <2>1. CASE \E lines \in Prints : Fputs(h, lines)
    BY <2>1 DEF Fputs
  <2>2. CASE Fread(h)
    BY <2>2 DEF Fread
  <2>3. CASE Fseek(h)
    BY <1>2, <2>3 DEF Fseek
  <2> QED
    BY <2>1, <2>2, <2>3
<1>5. sfile[h].fd \in Fd
  BY <1>4, LiveFd
<1>6. Same(fs, fs')
  BY <1>1, <1>4, <1>5, WriteIsSame, ReadIsSame, SeekIsSame
<1>7. \E c \in SUBSET {"read", "write"} : c # {} /\ sfile' = used(c)
  BY <1>4
<1> HIDE DEF used
<1>8. PICK k \in SUBSET {"read", "write"} :
        k # {} /\ (~sfile[h].both => k = sfile[h].can) /\ sfile' = [sfile EXCEPT ![h].can = k]
  BY <1>3, <1>7
<1>9. /\ fs' \in FileSystem /\ StreamsOK(fs', flag, backup)
      /\ sfile' \in [Handle -> FileInfo] /\ HandlesOK(fs', sfile')
  BY <1>4, <1>6, <1>8, UsedKeeps
<1> QED
  BY <1>0, <1>4, <1>9, TrapStep

-----------------------------------------------------------------------------
(* The invariant is one.                                                   *)

LEMMA InitHasInv ==
  ASSUME RedirectInit, NodesNeverRunOut
  PROVE  RedirectInv
<1>1. /\ fs = StandardStreams
      /\ flag = [s \in StdStream |-> FALSE] /\ backup = [s \in StdStream |-> NoFd]
      /\ sfile = [h \in Handle |-> NotOpen] /\ text = [s \in StdStream |-> Lost]
      /\ named = FALSE /\ initialized = 0 /\ pc = "idle" /\ ops = 0
      /\ latest = [src |-> Lost, whole |-> FALSE]
      /\ troubled = FALSE /\ meddled = FALSE
  BY DEF RedirectInit, NoBackup
<1>2. /\ fs \in FileSystem
      /\ Seen(fs, 0) = {On("tty", "r")}
      /\ Seen(fs, 1) = {On("tty", "w")}
      /\ Seen(fs, 2) = {On("tty1", "w")}
  BY <1>1, StandardStreamsSeen
<1>3. NotOpen \in FileInfo /\ NotOpen.can = {} /\ ~NotOpen.binary
  BY DEF NotOpen, FileInfo
<1>4. RedirectTypeOK
  <2>1. flag \in [StdStream -> BOOLEAN] /\ backup \in [StdStream -> Fd \cup {NoFd}]
    BY <1>1
  <2>2. sfile \in [Handle -> FileInfo]
    BY <1>1, <1>3
  <2>3. text \in [StdStream -> Seq(Line \cup {Hole}) \cup {Lost}]
    BY <1>1
  <2>4. ops \in 0..OpsPerBatch
    BY <1>1
  <2>5. /\ named \in BOOLEAN /\ troubled \in BOOLEAN /\ meddled \in BOOLEAN
        /\ initialized \in {-1, 0, 1}
    BY <1>1
  <2>6. /\ pc \in {"idle", "assembling", "assembled", "redirectOut", "executing", "refused", "executed"}
        /\ latest \in [src : Source \cup {Lost}, whole : BOOLEAN]
    BY <1>1
  <2> QED
    BY <1>2, <2>1, <2>2, <2>3, <2>4, <2>5, <2>6 DEF RedirectTypeOK
<1>5. ASSUME NEW s \in StdStream PROVE StreamOK(fs, s, flag[s], backup[s])
  <2>1. Seen(fs, Target[s]) = {On(Console[s], "w")}
    BY <1>2, Targets
  <2>2. flag[s] = FALSE
    BY <1>1
  <2> QED
    BY <2>1, <2>2 DEF StreamOK
<1>6. StreamsOK(fs, flag, backup)
  BY <1>2, <1>5 DEF StreamsOK
<1>7. \A h \in Handle : sfile[h].can = {} /\ ~sfile[h].binary
  BY <1>1, <1>3
<1>8. HandlesOK(fs, sfile)
  BY <1>7 DEF HandlesOK
<1>9. CallOK
  <2>1. pc = "idle"
    BY <1>1
  <2> QED
    BY <2>1 DEF CallOK
<1> QED
  BY <1>4, <1>6, <1>8, <1>9 DEF RedirectInv

LEMMA NextKeepsInv ==
  ASSUME RedirectInv, [RedirectNext]_redirectVars, NodesNeverRunOut
  PROVE  RedirectInv'
<1>1. CASE AssembleMMIXAL
  BY <1>1, BeginKeepsInv DEF AssembleMMIXAL
<1>2. CASE \E s \in Source : AssembleSource(s)
  BY <1>2, AssembleSourceKeepsInv
<1>3. CASE Initialize
  BY <1>3, InitializeKeepsInv
<1>4. CASE PerformInstructions
  BY <1>4, BeginKeepsInv DEF PerformInstructions
<1>5. CASE RedirectOut
  BY <1>5, RedirectOutKeepsInv
<1>6. CASE ProgramStep
  <2>1. PICK h \in Handle :
          \/ \E name \in UserFile, mode \in Mode, binary \in BOOLEAN : Fopen(h, name, mode, binary)
          \/ Fclose(h)
          \/ (\E lines \in Prints : Fputs(h, lines)) \/ Fread(h) \/ Fseek(h)
    BY <1>6 DEF ProgramStep
  <2> QED
    BY <2>1, FopenKeepsInv, FcloseKeepsInv, UseKeepsInv
<1>7. CASE Abort
  BY <1>7, AbortKeepsInv
<1>8. CASE RestoreOut
  BY <1>8, RestoreOutKeepsInv
<1>9. CASE RestoreErr
  BY <1>9, RestoreErrKeepsInv
<1>10. CASE Refuses
  BY <1>10, RefusesKeepsInv
<1> QED
  BY <1>1, <1>2, <1>3, <1>4, <1>5, <1>6, <1>7, <1>8, <1>9, <1>10 DEF RedirectNext, Refuses

LEMMA InvIsInvariant ==
  ASSUME NodesNeverRunOut
  PROVE  RedirectSpec => []RedirectInv
<1>1. RedirectInit => RedirectInv
  BY InitHasInv
<1>2. RedirectInv /\ [RedirectNext]_redirectVars => RedirectInv'
  BY NextKeepsInv
<1> QED
  BY <1>1, <1>2, PTL DEF RedirectSpec

-----------------------------------------------------------------------------
(* What follows from it.                                                   *)

\* Where a descriptor leads, and what it allows.
LEMMA SeenIs ==
  ASSUME NEW f, NEW fd, NEW n, NEW m, Seen(f, fd) = {On(n, m)}
  PROVE  f.stream[fd] # Closed /\ f.stream[fd].node = n /\ f.stream[fd].mode = m
<1>1. f.stream[fd] # Closed
  BY DEF Seen
<1>2. On(f.stream[fd].node, f.stream[fd].mode) = On(n, m)
  BY <1>1 DEF Seen
<1> QED
  BY <1>1, <1>2 DEF On

LEMMA FlagIsTrue ==
  ASSUME RedirectInv, NEW s \in StdStream
  PROVE  /\ fs.stream[Target[s]] # Closed
         /\ fs.stream[Target[s]].node = IF flag[s] THEN fs.dir[LogName[s]] ELSE Console[s]
         /\ fs.stream[Target[s]].mode = "w"
         /\ flag[s] => fs.stream[Target[s]].node \notin Terminal
<1>1. StreamOK(fs, s, flag[s], backup[s])
  BY DEF RedirectInv, StreamsOK
<1> DEFINE n == IF flag[s] THEN fs.dir[LogName[s]] ELSE Console[s]
<1>2. Seen(fs, Target[s]) = {On(n, "w")}
  BY <1>1 DEF StreamOK
<1>3. flag[s] => n \in Node
  BY <1>1, Targets, FieldTypes DEF StreamOK, RedirectInv, RedirectTypeOK
<1> HIDE DEF n
<1>4. fs.stream[Target[s]] # Closed /\ fs.stream[Target[s]].node = n /\ fs.stream[Target[s]].mode = "w"
  BY <1>2, SeenIs
<1>5. flag[s] => n \notin Terminal
  BY <1>3, FSAssumption
<1> QED
  BY <1>4, <1>5 DEF n

LEMMA HandleIsOpen ==
  ASSUME RedirectInv, NEW h \in Handle, sfile[h].can # {}
  PROVE  /\ sfile[h].fd \in OpenFds(fs)
         /\ Std(h) \/ (sfile[h].fd > 2 /\ fs.stream[sfile[h].fd].node \notin Terminal)
         /\ "read" \in sfile[h].can => fs.stream[sfile[h].fd].mode # "w"
         /\ "write" \in sfile[h].can => fs.stream[sfile[h].fd].mode # "r"
<1> DEFINE i == sfile[h]
<1>1. AsStarted(h, i) \/ OfItsOwn(fs, i)
  BY DEF RedirectInv, HandlesOK
<1>2. CASE AsStarted(h, i)
  <2>1. h \in {0, 1, 2} /\ i.fd = h /\ i.can \subseteq Open3[h].can
    BY <1>2 DEF AsStarted
  <2>2. CASE h = 0
    <3>1. fs.stream[0] # Closed /\ fs.stream[0].mode = "r"
      BY SeenIs DEF RedirectInv, StreamsOK
    <3>2. i.can \subseteq {"read"}
      BY <2>1, <2>2 DEF Open3
    <3> QED
      BY <2>1, <2>2, <3>1, <3>2, StandardFds DEF OpenFds, Std
  <2>3. CASE h \in {1, 2}
    <3>1. PICK s \in StdStream : Target[s] = h
      BY <2>3, Targets
    <3>2. fs.stream[h] # Closed /\ fs.stream[h].mode = "w"
      BY <3>1, FlagIsTrue
    <3>3. i.can \subseteq {"write"}
      BY <2>1, <2>3 DEF Open3
    <3> QED
      BY <2>1, <2>3, <3>2, <3>3, StandardFds DEF OpenFds, Std
  <2> QED
    BY <2>1, <2>2, <2>3
<1>3. CASE OfItsOwn(fs, i)
  <2>1. PICK n \in Node, mode \in Mode : Seen(fs, i.fd) = {On(n, mode)} /\ Fits(i, mode)
    BY <1>3 DEF OfItsOwn
  <2>2. i.fd \in Fd \ 0..2
    BY <1>3 DEF OfItsOwn
  <2>3. fs.stream[i.fd] # Closed /\ fs.stream[i.fd].node = n /\ fs.stream[i.fd].mode = mode
    BY <2>1, SeenIs
  <2>4. n \notin Terminal
    BY FSAssumption
  <2>5. i.fd > 2
    <3>1. \A k \in Nat : k \notin 0..2 => k > 2
      OBVIOUS
    <3> QED
      BY <2>2, <3>1, StandardFds
  <2> QED
    BY <2>1, <2>2, <2>3, <2>4, <2>5 DEF OpenFds, Fits
<1> QED
  BY <1>1, <1>2, <1>3

\* Type correctness: also of what the system calls make of the file system.
THEOREM RedirectIsTyped ==
  ASSUME NodesNeverRunOut
  PROVE  RedirectSpec => []RedirectTypeOK
<1>1. RedirectInv => RedirectTypeOK
  BY DEF RedirectInv
<1> QED
  BY <1>1, InvIsInvariant, PTL

\* The flags of io_utils.c always tell where the descriptors 1 and 2 lead, at whatever
\* system call redirect_stream or restore_stream has failed, and whatever a program has
\* opened and closed on the handles of these streams.
THEOREM FlagsTellTheTruth ==
  ASSUME NodesNeverRunOut
  PROVE  RedirectSpec => []FlagTellsTheTruth
<1>1. RedirectInv => FlagTellsTheTruth
  BY FlagIsTrue DEF FlagTellsTheTruth
<1> QED
  BY <1>1, InvIsInvariant, PTL

\* Nothing that mmixal or a program prints reaches the console of the browser while every
\* redirection has worked.
THEOREM AllPrintsAreCaptured ==
  ASSUME NodesNeverRunOut
  PROVE  RedirectSpec => []PrintsAreCaptured
<1>1. RedirectInv => PrintsAreCaptured
  <2>1. SUFFICES ASSUME RedirectInv, ~troubled
                 PROVE  /\ pc \in {"assembling", "executing", "refused"} => fs.stream[2].node \notin Terminal
                        /\ pc \in {"executing", "refused"} => fs.stream[1].node \notin Terminal
    BY DEF PrintsAreCaptured
  <2>2. (pc # "idle" => flag["err"]) /\ (pc \in {"executing", "refused"} => flag["out"])
    BY <2>1 DEF RedirectInv, CallOK
  <2>3. /\ flag["err"] => fs.stream[2].node \notin Terminal
        /\ flag["out"] => fs.stream[1].node \notin Terminal
    BY <2>1, FlagIsTrue, Targets
  <2> QED
    BY <2>2, <2>3
<1> QED
  BY <1>1, InvIsInvariant, PTL

\* Every handle that a program can use has an open descriptor of its own that allows what
\* the handle's mode promises, and never one that the redirection uses.
THEOREM AllHandlesAreOpen ==
  ASSUME NodesNeverRunOut
  PROVE  RedirectSpec => []HandlesAreOpen
<1>1. RedirectInv => HandlesAreOpen
  <2>1. SUFFICES ASSUME RedirectInv PROVE HandlesAreOpen
    OBVIOUS
  <2>2. \A h \in Handle : sfile[h].can # {} =>
          \A g \in Handle \ {h} : sfile[g].can # {} => sfile[g].fd # sfile[h].fd
    BY <2>1 DEF RedirectInv, HandlesOK
  <2> QED
    BY <2>1, <2>2, HandleIsOpen DEF HandlesAreOpen
<1> QED
  BY <1>1, InvIsInvariant, PTL

-----------------------------------------------------------------------------
(***************************************************************************)
(* What a file holds.  A file of the simulator has one name, p, and nobody *)
(* but the descriptor w, if any, leads to it; w stands at the file's end.  *)
(* What is written to another descriptor cannot change it then, and what is*)
(* written to w is appended.                                               *)
(***************************************************************************)

Elsewhere(f, p, w, s) ==
  \/ s = Closed
  \/ s.node # f.dir[p] /\ (w # NoFd => s.id # f.stream[w].id)

AtEnd(f, p, w) ==
  /\ f.stream[w] # Closed
  /\ f.stream[w].node = f.dir[p]
  /\ f.stream[w].mode = "w"
  /\ f.stream[w].pos = Len(f.data[f.dir[p]])

Sole(f, p, w) ==
  /\ f.dir[p] # NoNode => \A q \in Path \ {p} : f.dir[q] # f.dir[p]
  /\ \A k \in Fd \ {w} : Elsewhere(f, p, w, f.stream[k])
  /\ w # NoFd => AtEnd(f, p, w)

\* The file is as it was.
Kept(f, h, p, w) ==
  /\ h \in FileSystem
  /\ Sole(h, p, w)
  /\ h.dir[p] = f.dir[p]
  /\ f.dir[p] # NoNode => h.data[f.dir[p]] = f.data[f.dir[p]]

\* The file has at most been added to, by its writer.
Grown(old, new) == Len(new) >= Len(old) /\ SubSeq(new, 1, Len(old)) = old

Grew(f, h, p, w) ==
  /\ h \in FileSystem
  /\ Sole(h, p, w)
  /\ h.dir[p] = f.dir[p]
  /\ f.dir[p] # NoNode =>
       /\ h.data[f.dir[p]] \in Texts
       /\ Grown(f.data[f.dir[p]], h.data[f.dir[p]])
       /\ w = NoFd => h.data[f.dir[p]] = f.data[f.dir[p]]

Writer == Fd \cup {NoFd}

LEMMA NoFdIsNone == NoFd \notin Fd
BY FSAssumption DEF NoFd, Fd

LEMMA KeptIsTransitive ==
  ASSUME NEW f, NEW g, NEW h, NEW p, NEW w, Kept(f, g, p, w), Kept(g, h, p, w)
  PROVE  Kept(f, h, p, w)
BY DEF Kept

LEMMA GrownIsTransitive ==
  ASSUME NEW a \in Texts, NEW b \in Texts, NEW c \in Texts, Grown(a, b), Grown(b, c)
  PROVE  Grown(a, c)
<1>1. Len(a) \in Nat /\ Len(b) \in Nat /\ Len(c) \in Nat /\ Len(a) <= Len(b) /\ Len(b) <= Len(c)
  BY DEF Grown, Texts
<1>2. SubSeq(SubSeq(c, 1, Len(b)), 1, Len(a)) = SubSeq(c, 1, Len(a))
  <2>1. c \in Seq(Line \cup {Hole})
    BY DEF Texts
  <2> QED
    BY <1>1, <2>1
<1>3. SubSeq(c, 1, Len(b)) = b /\ SubSeq(b, 1, Len(a)) = a
  BY DEF Grown
<1>4. SubSeq(c, 1, Len(a)) = a
  BY <1>2, <1>3
<1> QED
  BY <1>1, <1>4 DEF Grown

LEMMA GrownItself ==
  ASSUME NEW a \in Texts
  PROVE  Grown(a, a)
BY DEF Grown, Texts

LEMMA DataIsText ==
  ASSUME NEW f \in FileSystem, NEW p \in Path, f.dir[p] # NoNode
  PROVE  f.dir[p] \in Node /\ f.data[f.dir[p]] \in Texts
BY FSAssumption, FieldTypes DEF Texts

LEMMA GrewIsTransitive ==
  ASSUME NEW f \in FileSystem, NEW g, NEW h, NEW p \in Path, NEW w, Grew(f, g, p, w), Grew(g, h, p, w)
  PROVE  Grew(f, h, p, w)
<1>1. /\ h \in FileSystem /\ Sole(h, p, w)
      /\ g.dir[p] = f.dir[p] /\ h.dir[p] = g.dir[p]
  BY DEF Grew
<1>2. ASSUME f.dir[p] # NoNode
      PROVE  /\ h.data[f.dir[p]] \in Texts
             /\ Grown(f.data[f.dir[p]], h.data[f.dir[p]])
             /\ w = NoFd => h.data[f.dir[p]] = f.data[f.dir[p]]
  <2>1. f.data[f.dir[p]] \in Texts
    BY <1>2, DataIsText
  <2>2. /\ g.data[f.dir[p]] \in Texts /\ Grown(f.data[f.dir[p]], g.data[f.dir[p]])
        /\ w = NoFd => g.data[f.dir[p]] = f.data[f.dir[p]]
    BY <1>2 DEF Grew
  <2>3. /\ h.data[f.dir[p]] \in Texts /\ Grown(g.data[f.dir[p]], h.data[f.dir[p]])
        /\ w = NoFd => h.data[f.dir[p]] = g.data[f.dir[p]]
    BY <1>1, <1>2 DEF Grew
  <2>4. Grown(f.data[f.dir[p]], h.data[f.dir[p]])
    BY <2>1, <2>2, <2>3, GrownIsTransitive
  <2> QED
    BY <2>2, <2>3, <2>4
<1> QED
  BY <1>1, <1>2 DEF Grew

LEMMA KeptGrew ==
  ASSUME NEW f \in FileSystem, NEW h, NEW p \in Path, NEW w, Kept(f, h, p, w)
  PROVE  Grew(f, h, p, w)
BY DataIsText, GrownItself DEF Kept, Grew

LEMMA KeptSelf ==
  ASSUME NEW f \in FileSystem, NEW p, NEW w, Sole(f, p, w)
  PROVE  Kept(f, f, p, w)
BY DEF Kept

\* How a call is shown to keep the file.
LEMMA KeptIf ==
  ASSUME NEW f, NEW h \in FileSystem, NEW p \in Path, NEW w \in Writer, Sole(f, p, w),
         h.dir[p] = f.dir[p],
         f.dir[p] # NoNode => /\ \A q \in Path \ {p} : h.dir[q] = f.dir[q] \/ h.dir[q] # f.dir[p]
                              /\ h.data[f.dir[p]] = f.data[f.dir[p]],
         w # NoFd => h.stream[w] = f.stream[w],
         \A k \in Fd \ {w} : Elsewhere(f, p, w, h.stream[k])
  PROVE  Kept(f, h, p, w)
<1>1. \A k \in Fd \ {w} : Elsewhere(h, p, w, h.stream[k])
  BY DEF Elsewhere
<1>2. h.dir[p] # NoNode => \A q \in Path \ {p} : h.dir[q] # h.dir[p]
  BY DEF Sole
<1>3. ASSUME w # NoFd PROVE AtEnd(h, p, w)
  <2>1. AtEnd(f, p, w) /\ h.stream[w] = f.stream[w]
    BY <1>3 DEF Sole
  <2>2. f.dir[p] # NoNode => h.data[h.dir[p]] = f.data[f.dir[p]]
    OBVIOUS
  <2>3. f.dir[p] = NoNode => h.data[h.dir[p]] = f.data[f.dir[p]]
    <3>1. f.dir[p] = NoNode => h.dir[p] = NoNode
      OBVIOUS
    <3>2. w \in Fd /\ h.stream[w] \in Stream /\ h.stream[w].node = f.dir[p]
      BY <1>3, <2>1, StreamTypes DEF Writer, AtEnd
    <3>3. h.stream[w].node # NoNode
      BY <3>2, FSAssumption DEF Stream
    <3> QED
      BY <3>2, <3>3
  <2> QED
    BY <2>1, <2>2, <2>3 DEF AtEnd
<1> QED
  BY <1>1, <1>2, <1>3 DEF Kept, Sole

LEMMA CollectedFields ==
  ASSUME NEW f \in FileSystem
  PROVE  /\ Collected(f) \in FileSystem
         /\ Collected(f).dir = f.dir
         /\ Collected(f).stream = f.stream
         /\ \A n \in Node : Alive(f, n) => Collected(f).data[n] = f.data[n]
<1>1. [n \in Node |-> IF Alive(f, n) THEN f.data[n] ELSE <<>>] \in [Node -> Seq(Line \cup {Hole})]
  BY FieldTypes
<1> QED
  BY <1>1 DEF Collected, FileSystem

LEMMA KeptByCollected ==
  ASSUME NEW f \in FileSystem, NEW p \in Path, NEW w \in Writer, Sole(f, p, w)
  PROVE  Kept(f, Collected(f), p, w)
<1> DEFINE h == Collected(f)
<1>1. /\ h \in FileSystem /\ h.dir = f.dir /\ h.stream = f.stream
      /\ \A n \in Node : Alive(f, n) => h.data[n] = f.data[n]
  BY CollectedFields
<1> HIDE DEF h
<1>2. f.dir[p] # NoNode => f.dir[p] \in Node /\ Alive(f, f.dir[p])
  BY FieldTypes DEF Alive
<1>3. \A k \in Fd \ {w} : Elsewhere(f, p, w, h.stream[k])
  BY <1>1 DEF Sole
<1>4. Kept(f, h, p, w)
  BY <1>1, <1>2, <1>3, KeptIf
<1> QED
  BY <1>4 DEF h

At(s, pos) == [s EXCEPT !.pos = pos]

LEMMA MovedFields ==
  ASSUME NEW f \in FileSystem, NEW fd \in Fd, NEW pos \in Nat
  PROVE  /\ Moved(f, fd, pos) \in FileSystem
         /\ Moved(f, fd, pos).dir = f.dir
         /\ Moved(f, fd, pos).data = f.data
         /\ \A k \in Fd :
              /\ f.stream[k] = Closed => Moved(f, fd, pos).stream[k] = Closed
              /\ f.stream[k] # Closed /\ f.stream[k].id = f.stream[fd].id =>
                   Moved(f, fd, pos).stream[k] = At(f.stream[k], pos)
              /\ f.stream[k] # Closed /\ f.stream[k].id # f.stream[fd].id =>
                   Moved(f, fd, pos).stream[k] = f.stream[k]
<1> DEFINE moved == [k \in Fd |-> IF f.stream[k] # Closed /\ f.stream[k].id = f.stream[fd].id
                       THEN [f.stream[k] EXCEPT !.pos = pos] ELSE f.stream[k]]
<1>1. Moved(f, fd, pos) \in FileSystem
  BY MovedIsSame DEF Same
<1>2. Moved(f, fd, pos) = [f EXCEPT !.stream = moved]
  BY Zenon DEF Moved
<1>3. \A k \in Fd :
        /\ f.stream[k] = Closed => moved[k] = Closed
        /\ f.stream[k] # Closed /\ f.stream[k].id = f.stream[fd].id => moved[k] = At(f.stream[k], pos)
        /\ f.stream[k] # Closed /\ f.stream[k].id # f.stream[fd].id => moved[k] = f.stream[k]
  BY DEF At
<1> HIDE DEF moved
<1>4. /\ Moved(f, fd, pos).dir = f.dir /\ Moved(f, fd, pos).data = f.data
      /\ Moved(f, fd, pos).stream = moved
  BY <1>2 DEF FileSystem
<1> QED
  BY <1>1, <1>3, <1>4

LEMMA MovedStream ==
  ASSUME NEW f \in FileSystem, NEW fd \in Fd, NEW pos \in Nat, NEW k \in Fd, f.stream[k] # Closed,
         NEW s, s = Moved(f, fd, pos).stream[k]
  PROVE  /\ s \in Stream /\ s # Closed
         /\ s.node = f.stream[k].node /\ s.mode = f.stream[k].mode /\ s.id = f.stream[k].id
         /\ f.stream[k].id = f.stream[fd].id => s.pos = pos
         /\ f.stream[k].id # f.stream[fd].id => s = f.stream[k]
<1>1. f.stream[k] \in Stream
  BY StreamTypes
<1>2. /\ f.stream[k].id = f.stream[fd].id => s = At(f.stream[k], pos)
      /\ f.stream[k].id # f.stream[fd].id => s = f.stream[k]
  BY MovedFields
<1>3. At(f.stream[k], pos) \in Stream
  BY <1>1 DEF Stream, At
<1>4. \A t \in Stream : t # Closed
  BY FSAssumption
<1>5. CASE f.stream[k].id = f.stream[fd].id
  <2>1. s = At(f.stream[k], pos)
    BY <1>2, <1>5
  <2> QED
    BY <1>1, <1>3, <1>4, <1>5, <2>1 DEF Stream, At
<1>6. CASE f.stream[k].id # f.stream[fd].id
  <2>1. s = f.stream[k]
    BY <1>2, <1>6
  <2> QED
    BY <1>1, <1>4, <1>6, <2>1
<1> QED
  BY <1>5, <1>6

LEMMA MovedOther ==
  ASSUME NEW f \in FileSystem, NEW fd \in Fd, NEW pos \in Nat, NEW k \in Fd,
         f.stream[k] = Closed \/ f.stream[k].id # f.stream[fd].id,
         NEW h, h = Moved(f, fd, pos)
  PROVE  h.stream[k] = f.stream[k]
<1>1. /\ f.stream[k] = Closed => Moved(f, fd, pos).stream[k] = Closed
      /\ f.stream[k] # Closed /\ f.stream[k].id # f.stream[fd].id =>
           Moved(f, fd, pos).stream[k] = f.stream[k]
  BY MovedFields
<1> QED
  BY <1>1

LEMMA KeptByMoved ==
  ASSUME NEW f \in FileSystem, NEW p \in Path, NEW w \in Writer, Sole(f, p, w),
         NEW fd \in Fd \ {w}, f.stream[fd] # Closed, NEW pos \in Nat
  PROVE  Kept(f, Moved(f, fd, pos), p, w)
<1> DEFINE h == Moved(f, fd, pos)
<1>1. h \in FileSystem /\ h.dir = f.dir /\ h.data = f.data
  BY MovedFields
<1>2. \A k \in Fd : f.stream[k] = Closed => h.stream[k] = Closed
  BY MovedFields
<1>3. \A k \in Fd : f.stream[k] # Closed =>
        /\ h.stream[k] # Closed /\ h.stream[k].node = f.stream[k].node /\ h.stream[k].id = f.stream[k].id
        /\ f.stream[k].id # f.stream[fd].id => h.stream[k] = f.stream[k]
  BY MovedStream
<1> HIDE DEF h
<1>4. w # NoFd => h.stream[w] = f.stream[w]
  <2>1. SUFFICES ASSUME w # NoFd PROVE h.stream[w] = f.stream[w]
    OBVIOUS
  <2>2. w \in Fd /\ f.stream[w] # Closed
    BY <2>1 DEF Writer, Sole, AtEnd
  <2>3. f.stream[fd].id # f.stream[w].id
    BY <2>1 DEF Sole, Elsewhere
  <2> QED
    BY <1>3, <2>2, <2>3
<1>5. \A k \in Fd \ {w} : Elsewhere(f, p, w, h.stream[k])
  BY <1>2, <1>3 DEF Sole, Elsewhere
<1>6. Kept(f, h, p, w)
  BY <1>1, <1>4, <1>5, KeptIf
<1> QED
  BY <1>6 DEF h

\* A file is written where the descriptor stands.
LEMMA StoredFields ==
  ASSUME NEW f \in FileSystem, NEW fd \in Fd, f.stream[fd] # Closed, ~IsConsole(f, fd),
         NEW lines \in Seq(Line), NEW s, s = f.stream[fd]
  PROVE  \E g \in FileSystem :
           /\ g.dir = f.dir /\ g.stream = f.stream
           /\ g.data = [f.data EXCEPT ![s.node] = Overlaid(f.data[s.node], s.pos, lines)]
           /\ s.node \in Node /\ s.pos + Len(lines) \in Nat
           /\ Stored(f, fd, lines) = Moved(g, fd, s.pos + Len(lines))
<1> DEFINE written == [f.data EXCEPT ![s.node] = Overlaid(@, s.pos, lines)]
           g == [f EXCEPT !.data[s.node] = Overlaid(@, s.pos, lines)]
<1>1. s.node \in Node /\ s.pos \in Nat
  BY StreamTypes DEF Stream, IsConsole
<1>2. f.data[s.node] \in Texts
  BY <1>1, StreamTypes DEF Texts
<1>3. Overlaid(f.data[s.node], s.pos, lines) \in Texts
  BY <1>1, <1>2, OverlaidIsText
<1>4. g = [f EXCEPT !.data = written]
  BY DEF FileSystem
<1>5. written \in [Node -> Texts]
  BY <1>3, StreamTypes DEF Texts
<1>6. Stored(f, fd, lines) = Moved(g, fd, s.pos + Len(lines))
  BY Zenon DEF Stored
<1> HIDE DEF g, written
<1>7. g \in FileSystem /\ g.dir = f.dir /\ g.stream = f.stream /\ g.data = written
  BY <1>4, <1>5 DEF FileSystem, Texts
<1>8. s.pos + Len(lines) \in Nat
  BY <1>1
<1> QED
  BY <1>1, <1>6, <1>7, <1>8 DEF written

LEMMA KeptByWrite ==
  ASSUME NEW f \in FileSystem, NEW p \in Path, NEW w \in Writer, Sole(f, p, w),
         NEW fd \in Fd \ {w}, NEW lines \in Seq(Line)
  PROVE  Kept(f, Write(f, fd, lines).fs, p, w)
<1>1. CASE ~IsOpen(f, fd) \/ f.stream[fd].mode = "r" \/ IsConsole(f, fd)
  <2>1. Write(f, fd, lines).fs = f
    BY <1>1 DEF Write, Result
  <2> QED
    BY <2>1, KeptSelf
<1>2. CASE IsOpen(f, fd) /\ f.stream[fd].mode # "r" /\ ~IsConsole(f, fd)
  <2> DEFINE s == f.stream[fd]
  <2>1. Write(f, fd, lines).fs = Stored(f, fd, lines)
    BY <1>2 DEF Write, Result
  <2>2. f.stream[fd] # Closed
    BY <1>2 DEF IsOpen
  <2>3. \E g \in FileSystem :
           /\ g.dir = f.dir /\ g.stream = f.stream
           /\ g.data = [f.data EXCEPT ![s.node] = Overlaid(f.data[s.node], s.pos, lines)]
           /\ s.node \in Node /\ s.pos + Len(lines) \in Nat
           /\ Stored(f, fd, lines) = Moved(g, fd, s.pos + Len(lines))
    BY <1>2, <2>2, StoredFields
  <2>4. PICK g \in FileSystem :
           /\ g.dir = f.dir /\ g.stream = f.stream
           /\ g.data = [f.data EXCEPT ![s.node] = Overlaid(f.data[s.node], s.pos, lines)]
           /\ s.node \in Node /\ s.pos + Len(lines) \in Nat
           /\ Stored(f, fd, lines) = Moved(g, fd, s.pos + Len(lines))
    BY <2>3
  <2>5. s.node # f.dir[p]
    BY <2>2 DEF Sole, Elsewhere
  <2>6. f.dir[p] # NoNode => g.data[f.dir[p]] = f.data[f.dir[p]]
    BY <2>4, <2>5, DataIsText, FieldTypes
  <2>7. \A k \in Fd \ {w} : Elsewhere(f, p, w, g.stream[k])
    BY <2>4 DEF Sole
  <2>8. Kept(f, g, p, w)
    BY <2>4, <2>6, <2>7, KeptIf
  <2>9. g.stream[fd] # Closed /\ Sole(g, p, w)
    BY <2>2, <2>4, <2>8 DEF Kept
  <2>10. Kept(g, Moved(g, fd, s.pos + Len(lines)), p, w)
    BY <2>4, <2>9, KeptByMoved
  <2> QED
    BY <2>1, <2>4, <2>8, <2>10, KeptIsTransitive
<1> QED
  BY <1>1, <1>2

\* What is written at the end is appended.
Appended(old, lines) == old \o lines

LEMMA OverlaidAtEnd ==
  ASSUME NEW old \in Texts, NEW lines \in Seq(Line)
  PROVE  Overlaid(old, Len(old), lines) = Appended(old, lines)
<1> DEFINE n == Longer(Len(old), Len(old) + Len(lines))
           at(i) == IF Len(old) < i /\ i <= Len(old) + Len(lines) THEN lines[i - Len(old)]
                    ELSE IF i <= Len(old) THEN old[i] ELSE Hole
           overlaid == [i \in 1..n |-> at(i)]
<1>1. Len(old) \in Nat /\ Len(lines) \in Nat
  BY DEF Texts
<1>2. n = Len(old) + Len(lines)
  BY <1>1 DEF Longer
<1>3. overlaid = old \o lines
  <2>1. /\ old \o lines \in Seq(Line \cup {Hole}) /\ Len(old \o lines) = n
        /\ \A i \in 1..n : (old \o lines)[i] = IF i <= Len(old) THEN old[i] ELSE lines[i - Len(old)]
    <3>1. old \in Seq(Line \cup {Hole}) /\ lines \in Seq(Line \cup {Hole})
      BY DEF Texts
    <3> HIDE DEF n
    <3> QED
      BY <1>1, <1>2, <3>1, ConcatProperties
  <2>2. \A i \in 1..n : overlaid[i] = IF i <= Len(old) THEN old[i] ELSE lines[i - Len(old)]
    <3>1. ASSUME NEW i \in 1..n PROVE at(i) = IF i <= Len(old) THEN old[i] ELSE lines[i - Len(old)]
      BY <1>1, <1>2
    <3> HIDE DEF at, n
    <3> QED
      BY <3>1
  <2>3. overlaid \in Seq(Line \cup {Hole}) /\ Len(overlaid) = n
    <3>1. \A i \in 1..n : (old \o lines)[i] \in Line \cup {Hole}
      BY <2>1, <1>1, <1>2
    <3>2. n \in Nat
      BY <1>1, <1>2
    <3> HIDE DEF n, at
    <3>3. \A i \in 1..n : overlaid[i] \in Line \cup {Hole}
      BY <2>1, <2>2, <3>1
    <3> QED
      BY <3>2, <3>3
  <2> HIDE DEF overlaid, n, at
  <2> QED
    BY <2>1, <2>2, <2>3, SeqEqual
<1>4. Overlaid(old, Len(old), lines) = overlaid
  BY Zenon DEF Overlaid
<1> HIDE DEF overlaid
<1> QED
  BY <1>3, <1>4 DEF Appended

LEMMA AppendGrows ==
  ASSUME NEW old \in Texts, NEW lines \in Seq(Line)
  PROVE  /\ Appended(old, lines) \in Texts
         /\ Grown(old, Appended(old, lines))
         /\ Len(Appended(old, lines)) = Len(old) + Len(lines)
<1>1. old \in Seq(Line \cup {Hole}) /\ lines \in Seq(Line \cup {Hole})
  BY DEF Texts
<1>2. old \o lines \in Seq(Line \cup {Hole}) /\ Len(old \o lines) = Len(old) + Len(lines)
  BY <1>1
<1>3. Len(old) \in Nat /\ Len(lines) \in Nat
  BY <1>1
<1>4. SubSeq(old \o lines, 1, Len(old)) = old
  BY <1>1
<1> QED
  BY <1>2, <1>3, <1>4 DEF Grown, Texts, Appended

\* The file that a writer leads to is there.
LEMMA WriterLeads ==
  ASSUME NEW f \in FileSystem, NEW p \in Path, NEW w \in Fd, Sole(f, p, w)
  PROVE  /\ AtEnd(f, p, w)
         /\ f.dir[p] \in Node /\ f.dir[p] # NoNode
         /\ f.data[f.dir[p]] \in Texts
         /\ \A k \in Fd \ {w} : f.stream[k] # Closed =>
              f.stream[k].node # f.dir[p] /\ f.stream[k].id # f.stream[w].id
<1>1. w # NoFd
  BY NoFdIsNone
<1>2. AtEnd(f, p, w)
  BY <1>1 DEF Sole
<1>3. f.stream[w] \in Stream /\ f.stream[w].node = f.dir[p]
  BY <1>2, StreamTypes DEF AtEnd
<1>4. f.dir[p] # NoNode
  BY <1>3, FSAssumption DEF Stream
<1>5. \A k \in Fd \ {w} : f.stream[k] # Closed =>
        f.stream[k].node # f.dir[p] /\ f.stream[k].id # f.stream[w].id
  BY <1>1 DEF Sole, Elsewhere
<1> QED
  BY <1>2, <1>4, <1>5, DataIsText

LEMMA WriteAtEnd ==
  ASSUME NEW f \in FileSystem, NEW p \in Path, NEW w \in Fd, Sole(f, p, w), NEW lines \in Seq(Line),
         NEW h, h = Write(f, w, lines).fs
  PROVE  /\ h \in FileSystem /\ Sole(h, p, w) /\ h.dir = f.dir
         /\ h.data[f.dir[p]] = Appended(f.data[f.dir[p]], lines)
<1> DEFINE old == f.data[f.dir[p]]
           s == f.stream[w]
<1>1. /\ AtEnd(f, p, w) /\ f.dir[p] \in Node /\ f.dir[p] # NoNode /\ old \in Texts
      /\ \A k \in Fd \ {w} : f.stream[k] # Closed => f.stream[k].node # f.dir[p] /\ f.stream[k].id # s.id
  BY WriterLeads
<1>2. s # Closed /\ s.node = f.dir[p] /\ s.mode = "w" /\ s.pos = Len(old)
  BY <1>1 DEF AtEnd
<1>3. ~IsConsole(f, w)
  BY <1>1, <1>2, FSAssumption DEF IsConsole
<1>4. h = Stored(f, w, lines)
  BY <1>2, <1>3 DEF Write, Result, IsOpen
<1>5. PICK g \in FileSystem :
           /\ g.dir = f.dir /\ g.stream = f.stream
           /\ g.data = [f.data EXCEPT ![s.node] = Overlaid(f.data[s.node], s.pos, lines)]
           /\ s.node \in Node /\ s.pos + Len(lines) \in Nat
           /\ Stored(f, w, lines) = Moved(g, w, s.pos + Len(lines))
  BY SMTT(30), <1>2, <1>3, StoredFields
<1>6. Overlaid(old, Len(old), lines) = Appended(old, lines)
  BY <1>1, OverlaidAtEnd
<1>7. g.data[f.dir[p]] = Appended(old, lines)
  <2>1. g.data = [f.data EXCEPT ![f.dir[p]] = Overlaid(old, Len(old), lines)]
    BY <1>2, <1>5
  <2>2. g.data[f.dir[p]] = Overlaid(old, Len(old), lines)
    BY <1>1, <2>1, FieldTypes
  <2> QED
    BY <1>6, <2>2
<1> DEFINE pos == s.pos + Len(lines)
<1>8. pos = Len(Appended(old, lines))
  BY <1>1, <1>2, AppendGrows
<1>9. h = Moved(g, w, pos) /\ pos \in Nat
  BY <1>4, <1>5
<1> HIDE DEF pos
<1>10. h \in FileSystem /\ h.dir = f.dir /\ h.data = g.data
  <2>1. /\ Moved(g, w, pos) \in FileSystem
        /\ Moved(g, w, pos).dir = g.dir /\ Moved(g, w, pos).data = g.data
    BY <1>9, MovedFields
  <2>2. g.dir = f.dir
    BY <1>5
  <2> QED
    BY <1>9, <2>1, <2>2
<1>11. /\ h.stream[w] # Closed /\ h.stream[w].node = s.node /\ h.stream[w].mode = s.mode
       /\ h.stream[w].id = s.id /\ h.stream[w].pos = pos
  BY <1>2, <1>5, <1>9, MovedStream
<1>12. \A k \in Fd \ {w} : h.stream[k] = f.stream[k]
  <2>1. ASSUME NEW k \in Fd \ {w}, f.stream[k] # Closed PROVE h.stream[k] = f.stream[k]
    <3>1. g.stream[k] # Closed /\ g.stream[k].id # g.stream[w].id
      BY <1>1, <1>5, <2>1
    <3>2. h.stream[k] = g.stream[k]
      BY <1>9, <3>1, MovedOther
    <3> QED
      BY <1>5, <3>2
  <2>2. ASSUME NEW k \in Fd \ {w}, f.stream[k] = Closed PROVE h.stream[k] = f.stream[k]
    BY <1>5, <1>9, <2>2, MovedOther
  <2> QED
    BY <2>1, <2>2
<1>13. AtEnd(h, p, w)
  BY <1>2, <1>7, <1>8, <1>10, <1>11 DEF AtEnd
<1>14. \A k \in Fd \ {w} : Elsewhere(h, p, w, h.stream[k])
  BY <1>1, <1>10, <1>11, <1>12 DEF Elsewhere
<1>15. Sole(h, p, w)
  BY <1>1, <1>10, <1>13, <1>14 DEF Sole
<1> QED
  BY <1>7, <1>10, <1>15

LEMMA GrewByWrite ==
  ASSUME NEW f \in FileSystem, NEW p \in Path, NEW w \in Writer, Sole(f, p, w),
         NEW fd \in Fd, NEW lines \in Seq(Line)
  PROVE  Grew(f, Write(f, fd, lines).fs, p, w)
<1>1. CASE fd # w
  BY <1>1, KeptByWrite, KeptGrew
<1>2. CASE fd = w
  <2>1. w \in Fd
    BY <1>2
  <2>0. PICK h : h = Write(f, w, lines).fs
    OBVIOUS
  <2>2. /\ h \in FileSystem /\ Sole(h, p, w) /\ h.dir = f.dir
        /\ h.data[f.dir[p]] = Appended(f.data[f.dir[p]], lines)
    BY <2>0, <2>1, WriteAtEnd
  <2>3. f.data[f.dir[p]] \in Texts
    BY <2>1, WriterLeads
  <2>4. /\ Appended(f.data[f.dir[p]], lines) \in Texts
        /\ Grown(f.data[f.dir[p]], Appended(f.data[f.dir[p]], lines))
    BY <2>3, AppendGrows
  <2>5. Grew(f, h, p, w)
    BY <2>1, <2>2, <2>4, NoFdIsNone DEF Grew
  <2> QED
    BY <1>2, <2>0, <2>5
<1> QED
  BY <1>1, <1>2

LEMMA KeptByRead ==
  ASSUME NEW f \in FileSystem, NEW p \in Path, NEW w \in Writer, Sole(f, p, w), NEW fd \in Fd
  PROVE  Kept(f, Read(f, fd).fs, p, w)
<1>1. CASE f.stream[fd] = Closed \/ f.stream[fd].mode = "w"
  <2>1. Read(f, fd).fs = f
    BY <1>1 DEF Read, Result, IsOpen
  <2> QED
    BY <2>1, KeptSelf
<1>2. CASE f.stream[fd] # Closed /\ f.stream[fd].mode # "w"
  <2>1. fd # w
    BY <1>2, NoFdIsNone DEF Sole, AtEnd
  <2>2. f.stream[fd].pos \in Nat /\ Len(Rest(f, fd)) \in Nat
    BY <1>2, StreamTypes, RestIsText DEF Stream, Texts
  <2>3. f.stream[fd].pos + Len(Rest(f, fd)) \in Nat
    BY <2>2
  <2>4. Read(f, fd).fs = Moved(f, fd, f.stream[fd].pos + Len(Rest(f, fd)))
    BY <1>2 DEF Read, Result, IsOpen
  <2> QED
    BY <1>2, <2>1, <2>3, <2>4, KeptByMoved
<1> QED
  BY <1>1, <1>2

LEMMA KeptBySeek ==
  ASSUME NEW f \in FileSystem, NEW p \in Path, NEW w \in Writer, Sole(f, p, w), NEW fd \in Fd \ {w}
  PROVE  Kept(f, Seek(f, fd, 0).fs, p, w)
<1>1. CASE ~IsOpen(f, fd) \/ IsConsole(f, fd)
  <2>1. Seek(f, fd, 0).fs = f
    BY <1>1 DEF Seek, Result
  <2> QED
    BY <2>1, KeptSelf
<1>2. CASE IsOpen(f, fd) /\ ~IsConsole(f, fd)
  <2>1. Seek(f, fd, 0).fs = Moved(f, fd, 0)
    BY <1>2 DEF Seek, Result
  <2> QED
    BY <1>2, <2>1, KeptByMoved DEF IsOpen
<1> QED
  BY <1>1, <1>2

LEMMA SetStreamIs ==
  ASSUME NEW f \in FileSystem, NEW fd \in Fd, NEW s \in Stream \cup {Closed}, NEW g, g = SetStream(f, fd, s)
  PROVE  /\ g \in FileSystem /\ g.dir = f.dir /\ g.data = f.data
         /\ g.stream[fd] = s /\ \A k \in Fd \ {fd} : g.stream[k] = f.stream[k]
<1>1. g \in FileSystem /\ g.dir = f.dir /\ g.data = f.data /\ g.stream = [f.stream EXCEPT ![fd] = s]
  BY SetStreamFields
<1>2. DOMAIN f.stream = Fd
  BY StreamTypes
<1> QED
  BY <1>1, <1>2

LEMMA KeptBySetStream ==
  ASSUME NEW f \in FileSystem, NEW p \in Path, NEW w \in Writer, Sole(f, p, w),
         NEW fd \in Fd \ {w}, NEW s \in Stream \cup {Closed}, Elsewhere(f, p, w, s)
  PROVE  Kept(f, SetStream(f, fd, s), p, w)
<1>1. PICK g : g = SetStream(f, fd, s)
  OBVIOUS
<1>2. /\ g \in FileSystem /\ g.dir = f.dir /\ g.data = f.data
      /\ g.stream[fd] = s /\ \A k \in Fd \ {fd} : g.stream[k] = f.stream[k]
  BY <1>1, SetStreamIs
<1>3. w # NoFd => g.stream[w] = f.stream[w]
  BY <1>2 DEF Writer
<1>4. \A k \in Fd \ {w} : Elsewhere(f, p, w, g.stream[k])
  <2>1. \A k \in Fd \ {w} : Elsewhere(f, p, w, f.stream[k])
    BY DEF Sole
  <2> QED
    BY <1>2, <2>1
<1>5. Kept(f, g, p, w)
  BY <1>2, <1>3, <1>4, KeptIf
<1> QED
  BY <1>1, <1>5

\* The writer is closed, or leads somewhere else.
LEMMA KeptWithoutWriter ==
  ASSUME NEW f \in FileSystem, NEW p \in Path, NEW w \in Fd, Sole(f, p, w),
         NEW s \in Stream \cup {Closed}, s = Closed \/ s.node # f.dir[p]
  PROVE  Kept(f, SetStream(f, w, s), p, NoFd)
<1>1. PICK g : g = SetStream(f, w, s)
  OBVIOUS
<1>2. /\ g \in FileSystem /\ g.dir = f.dir /\ g.data = f.data
      /\ g.stream[w] = s /\ \A k \in Fd \ {w} : g.stream[k] = f.stream[k]
  BY <1>1, SetStreamIs
<1>3. \A k \in Fd : g.stream[k] = Closed \/ g.stream[k].node # g.dir[p]
  <2>1. \A k \in Fd \ {w} : f.stream[k] = Closed \/ f.stream[k].node # f.dir[p]
    BY DEF Sole, Elsewhere
  <2> QED
    BY <1>2, <2>1
<1>4. \A k \in Fd \ {NoFd} : Elsewhere(g, p, NoFd, g.stream[k])
  BY <1>3 DEF Elsewhere
<1>5. g.dir[p] # NoNode => \A q \in Path \ {p} : g.dir[q] # g.dir[p]
  BY <1>2 DEF Sole
<1>6. Sole(g, p, NoFd)
  BY <1>4, <1>5 DEF Sole
<1>7. Kept(f, g, p, NoFd)
  BY <1>2, <1>6 DEF Kept
<1> QED
  BY <1>1, <1>7

LEMMA KeptCollected ==
  ASSUME NEW f \in FileSystem, NEW g, NEW p \in Path, NEW w \in Writer, Kept(f, g, p, w)
  PROVE  Kept(f, Collected(g), p, w)
<1>1. g \in FileSystem /\ Sole(g, p, w)
  BY DEF Kept
<1>2. Kept(g, Collected(g), p, w)
  BY <1>1, KeptByCollected
<1> QED
  BY <1>2, KeptIsTransitive

LEMMA KeptByClose ==
  ASSUME NEW f \in FileSystem, NEW p \in Path, NEW w \in Writer, Sole(f, p, w), NEW fd \in Fd \ {w}
  PROVE  Kept(f, Close(f, fd).fs, p, w)
<1>1. CASE ~IsOpen(f, fd)
  <2>1. Close(f, fd).fs = f
    BY <1>1 DEF Close, Result
  <2> QED
    BY <2>1, KeptSelf
<1>2. CASE IsOpen(f, fd)
  <2>1. Close(f, fd).fs = Collected(SetStream(f, fd, Closed))
    BY <1>2 DEF Close, Result, CloseStream
  <2>2. Elsewhere(f, p, w, Closed)
    BY DEF Elsewhere
  <2>3. Kept(f, SetStream(f, fd, Closed), p, w)
    BY <2>2, KeptBySetStream
  <2>4. Kept(f, Collected(SetStream(f, fd, Closed)), p, w)
    BY <2>3, KeptCollected
  <2> QED
    BY <2>1, <2>4
<1> QED
  BY <1>1, <1>2

LEMMA KeptByCloseOfWriter ==
  ASSUME NEW f \in FileSystem, NEW p \in Path, NEW w \in Fd, Sole(f, p, w)
  PROVE  Kept(f, Close(f, w).fs, p, NoFd)
<1>1. IsOpen(f, w)
  BY WriterLeads DEF AtEnd, IsOpen
<1>2. Close(f, w).fs = Collected(SetStream(f, w, Closed))
  BY <1>1 DEF Close, Result, CloseStream
<1>3. Kept(f, SetStream(f, w, Closed), p, NoFd)
  BY KeptWithoutWriter
<1>4. Kept(f, Collected(SetStream(f, w, Closed)), p, NoFd)
  BY <1>3, KeptCollected DEF Writer
<1> QED
  BY <1>2, <1>4

LEMMA OthersAreElsewhere ==
  ASSUME NEW f \in FileSystem, NEW p \in Path, NEW w \in Writer, Sole(f, p, w), NEW k \in Fd \ {w}
  PROVE  Elsewhere(f, p, w, f.stream[k]) /\ f.stream[k] \in Stream \cup {Closed}
BY StreamTypes DEF Sole

LEMMA KeptByDup ==
  ASSUME NEW f \in FileSystem, NEW p \in Path, NEW w \in Writer, Sole(f, p, w), NEW fd \in Fd \ {w}
  PROVE  Kept(f, Dup(f, fd).fs, p, w)
<1>1. CASE ~IsOpen(f, fd) \/ FreeFds(f) = {}
  <2>1. Dup(f, fd).fs = f
    BY <1>1 DEF Dup, Result
  <2> QED
    BY <2>1, KeptSelf
<1>2. CASE IsOpen(f, fd) /\ FreeFds(f) # {}
  <2> DEFINE k == NextFd(f)
  <2>1. Dup(f, fd).fs = SetStream(f, k, f.stream[fd])
    BY <1>2 DEF Dup, Result, DupStream
  <2>2. k \in Fd /\ Seen(f, k) = {}
    BY <1>2, NextFdIsFree
  <2>3. k # w
    BY <2>2, NoFdIsNone DEF Sole, AtEnd, Seen
  <2> HIDE DEF k
  <2> QED
    BY <2>1, <2>2, <2>3, OthersAreElsewhere, KeptBySetStream
<1> QED
  BY <1>1, <1>2

LEMMA KeptByDup3 ==
  ASSUME NEW f \in FileSystem, NEW p \in Path, NEW w \in Writer, Sole(f, p, w),
         NEW fd \in Fd \ {w}, NEW newfd \in Fd \ {w}
  PROVE  Kept(f, Dup3(f, fd, newfd).fs, p, w)
<1>1. CASE ~IsOpen(f, fd) \/ fd = newfd \/ newfd >= MaxOpenFds
  <2>1. Dup3(f, fd, newfd).fs = f
    BY <1>1 DEF Dup3, Result
  <2> QED
    BY <2>1, KeptSelf
<1>2. CASE ~(~IsOpen(f, fd) \/ fd = newfd \/ newfd >= MaxOpenFds)
  <2>1. Dup3(f, fd, newfd).fs = Collected(SetStream(f, newfd, f.stream[fd]))
    BY <1>2 DEF Dup3, Result, DupStream
  <2>2. Kept(f, SetStream(f, newfd, f.stream[fd]), p, w)
    BY OthersAreElsewhere, KeptBySetStream
  <2>3. Kept(f, Collected(SetStream(f, newfd, f.stream[fd])), p, w)
    BY <2>2, KeptCollected
  <2> QED
    BY <2>1, <2>3
<1> QED
  BY <1>1, <1>2

\* dup3 of another descriptor onto the writer.
LEMMA KeptByDup3OverWriter ==
  ASSUME NEW f \in FileSystem, NEW p \in Path, NEW w \in Fd, Sole(f, p, w),
         NEW fd \in Fd \ {w}, IsOpen(f, fd), ~(w >= MaxOpenFds)
  PROVE  Kept(f, Dup3(f, fd, w).fs, p, NoFd)
<1>1. Dup3(f, fd, w).fs = Collected(SetStream(f, w, f.stream[fd]))
  BY DEF Dup3, Result, DupStream
<1>2. f.stream[fd] \in Stream \cup {Closed} /\ (f.stream[fd] = Closed \/ f.stream[fd].node # f.dir[p])
  BY StreamTypes, WriterLeads
<1>3. Kept(f, SetStream(f, w, f.stream[fd]), p, NoFd)
  BY <1>2, KeptWithoutWriter
<1>4. Kept(f, Collected(SetStream(f, w, f.stream[fd])), p, NoFd)
  BY <1>3, KeptCollected DEF Writer
<1> QED
  BY <1>1, <1>4

LEMMA KeptByUnlink ==
  ASSUME NEW f \in FileSystem, NEW p \in Path, NEW w \in Writer, Sole(f, p, w), NEW path \in Path \ {p}
  PROVE  Kept(f, Unlink(f, path).fs, p, w)
<1> DEFINE dir == [f.dir EXCEPT ![path] = NoNode]
<1>1. CASE ~Exists(f, path)
  <2>1. Unlink(f, path).fs = f
    BY <1>1 DEF Unlink, Result
  <2> QED
    BY <2>1, KeptSelf
<1>2. CASE Exists(f, path)
  <2>1. PICK g : g = [f EXCEPT !.dir[path] = NoNode]
    OBVIOUS
  <2>2. dir \in [Path -> Node \cup {NoNode}]
    BY FieldTypes
  <2>3. g = [f EXCEPT !.dir = dir]
    BY <2>1 DEF FileSystem
  <2>4. \A q \in Path : dir[q] = IF q = path THEN NoNode ELSE f.dir[q]
    BY FieldTypes
  <2> HIDE DEF dir
  <2>5. g \in FileSystem /\ g.dir = dir /\ g.data = f.data /\ g.stream = f.stream
    BY <2>2, <2>3 DEF FileSystem
  <2>6. \A k \in Fd \ {w} : Elsewhere(f, p, w, g.stream[k])
    BY <2>5 DEF Sole
  <2>7. g.dir[p] = f.dir[p]
    BY <2>4, <2>5
  <2>8. f.dir[p] # NoNode => \A q \in Path \ {p} : g.dir[q] = f.dir[q] \/ g.dir[q] # f.dir[p]
    BY <2>4, <2>5
  <2>9. Kept(f, g, p, w)
    BY <2>5, <2>6, <2>7, <2>8, KeptIf
  <2>10. Unlink(f, path).fs = Collected(g)
    BY <1>2, <2>1 DEF Unlink, Result
  <2> QED
    BY <2>9, <2>10, KeptCollected
<1> QED
  BY <1>1, <1>2

\* What an open for writing makes of a file: a new one, or the same emptied.
Emptied(f, g, path) ==
  /\ g.dir[path] \in Node
  /\ \A q \in Path \ {path} : g.dir[q] = f.dir[q]
  /\ g.data[g.dir[path]] = <<>>
  /\ \A n \in Node \ {g.dir[path]} : g.data[n] = f.data[n]
  /\ g.dir[path] = f.dir[path] \/ ~Alive(f, g.dir[path])

LEMMA PreparedIs ==
  ASSUME NEW f \in FileSystem, NEW path \in Name, NEW mode \in Mode,
         mode # "r" \/ Exists(f, path), NodesNeverRunOut, NEW g, g = Prepared(f, path, mode)
  PROVE  /\ g \in FileSystem /\ g.stream = f.stream /\ Exists(g, path)
         /\ mode = "r" \/ path \notin Path => g = f
         /\ mode # "r" /\ path \in Path => Emptied(f, g, path)
<1> USE FSAssumption
<1>1. g \in FileSystem /\ g.stream = f.stream /\ Exists(g, path)
  BY PreparedFields
<1>2. mode = "r" \/ path \notin Path => g = f
  <2>1. path \notin Path => Lookup(f, path) \in Terminal
    BY DEF Name, Lookup, Link, Terminal
  <2>2. ASSUME mode = "r" \/ Lookup(f, path) \in Terminal PROVE Prepared(f, path, mode) = f
    <3>1. Exists(f, path)
      BY <2>2 DEF Exists
    <3> QED
      BY <2>2, <3>1 DEF Prepared
  <2> QED
    BY <2>1, <2>2
<1>3. ASSUME mode # "r", path \in Path PROVE Emptied(f, g, path)
  <2>1. Lookup(f, path) = f.dir[path] /\ f.dir[path] \in Node \cup {NoNode} /\ f.dir[path] \notin Terminal
    BY <1>3, FieldTypes DEF Lookup
  <2>2. CASE f.dir[path] = NoNode
    <3>1. g = Created(f, path)
      BY <1>3, <2>1, <2>2 DEF Prepared, Exists
    <3>2. /\ g.dir[path] \in Node /\ ~Alive(f, g.dir[path])
          /\ \A q \in Path \ {path} : g.dir[q] = f.dir[q]
          /\ g.data = [f.data EXCEPT ![g.dir[path]] = <<>>]
      BY <1>3, <2>2, <3>1, CreatedIs
    <3>3. /\ g.data[g.dir[path]] = <<>>
          /\ \A n \in Node \ {g.dir[path]} : g.data[n] = f.data[n]
      BY <3>2, FieldTypes
    <3> QED
      BY <3>2, <3>3 DEF Emptied
  <2>3. CASE f.dir[path] # NoNode
    <3>1. g = Truncated(f, path)
      BY <1>3, <2>1, <2>3 DEF Prepared, Exists
    <3>2. g.dir = f.dir /\ g.data = [f.data EXCEPT ![f.dir[path]] = <<>>]
      BY <1>3, <2>3, <3>1, TruncatedIs
    <3>3. /\ g.data[g.dir[path]] = <<>>
          /\ \A n \in Node \ {g.dir[path]} : g.data[n] = f.data[n]
      BY <2>1, <2>3, <3>2, FieldTypes
    <3> QED
      BY <2>1, <2>3, <3>2, <3>3 DEF Emptied
  <2> QED
    BY <2>2, <2>3
<1> QED
  BY <1>1, <1>2, <1>3

LEMMA KeptByPrepared ==
  ASSUME NEW f \in FileSystem, NEW p \in Path, NEW w \in Writer, Sole(f, p, w),
         NEW path \in Name \ {p}, NEW mode \in Mode, mode # "r" \/ Exists(f, path), NodesNeverRunOut,
         NEW g, g = Prepared(f, path, mode)
  PROVE  Kept(f, g, p, w)
<1>1. /\ g \in FileSystem /\ g.stream = f.stream
      /\ mode = "r" \/ path \notin Path => g = f
      /\ mode # "r" /\ path \in Path => Emptied(f, g, path)
  BY PreparedIs
<1>2. CASE mode = "r" \/ path \notin Path
  BY <1>1, <1>2, KeptSelf
<1>3. CASE mode # "r" /\ path \in Path
  <2>1. Emptied(f, g, path)
    BY <1>1, <1>3
  <2>2. f.dir[p] # NoNode => g.dir[path] # f.dir[p]
    <3>1. f.dir[p] # NoNode => f.dir[path] # f.dir[p]
      BY <1>3 DEF Sole
    <3>2. \A n : ~Alive(f, n) => f.dir[p] # n
      BY DEF Alive
    <3> QED
      BY <2>1, <3>1, <3>2 DEF Emptied
  <2>3. g.dir[p] = f.dir[p] /\ \A q \in Path \ {p} : g.dir[q] = f.dir[q] \/ q = path
    BY <2>1 DEF Emptied
  <2>4. f.dir[p] # NoNode => g.data[f.dir[p]] = f.data[f.dir[p]]
    BY <2>1, <2>2, DataIsText DEF Emptied
  <2>5. f.dir[p] # NoNode => \A q \in Path \ {p} : g.dir[q] = f.dir[q] \/ g.dir[q] # f.dir[p]
    BY <2>2, <2>3
  <2>6. \A k \in Fd \ {w} : Elsewhere(f, p, w, g.stream[k])
    BY <1>1 DEF Sole
  <2> QED
    BY <1>1, <2>3, <2>4, <2>5, <2>6, KeptIf
<1> QED
  BY <1>2, <1>3

\* What openat returns, and the stream that it makes.
LEMMA OpenIs ==
  ASSUME NEW f \in FileSystem, NEW path \in Name, NEW mode \in Mode, NodesNeverRunOut,
         NEW r, r = Open(f, path, mode)
  PROVE  \/ Fails(r) /\ mode = "r" /\ ~Exists(f, path) /\ r.fs = f
         \/ /\ mode # "r" \/ Exists(f, path)
            /\ Fails(r) /\ FreeFds(f) = {} /\ r.fs = Prepared(f, path, mode)
         \/ /\ mode # "r" \/ Exists(f, path)
            /\ ~Fails(r) /\ FreeFds(f) # {} /\ r.ret \in Fd /\ Seen(f, r.ret) = {}
            /\ LET g == Prepared(f, path, mode) IN
               \E s \in Stream :
                 /\ s # Closed /\ s.node = Lookup(g, path) /\ s.mode = mode /\ s.pos = 0
                 /\ \A k \in OpenFds(f) : f.stream[k].id # s.id
                 /\ r.fs = SetStream(g, r.ret, s)
<1> USE FSAssumption
<1> DEFINE g == Prepared(f, path, mode)
           s == [id |-> FreshId(g), node |-> Lookup(g, path), mode |-> mode, pos |-> 0]
<1>1. CASE mode = "r" /\ ~Exists(f, path)
  <2>1. r = Result(f, ENOENT)
    BY <1>1 DEF Open
  <2> QED
    BY <1>1, <2>1 DEF Result, Fails, ENOENT
<1>2. CASE mode # "r" \/ Exists(f, path)
  <2>1. g \in FileSystem /\ g.stream = f.stream /\ Exists(g, path)
    BY <1>2, PreparedIs
  <2>2. FreeFds(g) = FreeFds(f) /\ OpenFds(g) = OpenFds(f)
    BY <2>1 DEF FreeFds, OpenFds
  <2>3. CASE FreeFds(f) = {}
    <3>1. r = Result(g, EMFILE)
      BY <1>2, <2>3 DEF Open
    <3> HIDE DEF g
    <3>2. Fails(r) /\ r.fs = g
      BY <3>1 DEF Result, Fails, EMFILE
    <3> QED
      BY <1>2, <2>3, <3>2 DEF g
  <2>4. CASE FreeFds(f) # {}
    <3>1. NextFd(g) = NextFd(f)
      BY <2>2, Zenon DEF NextFd
    <3>2. NextFd(f) \in Fd /\ Seen(f, NextFd(f)) = {} /\ ~(NextFd(f) < 0)
      BY <2>4, NextFdIsFree DEF Fd
    <3>3. r = Result(SetStream(g, NextFd(f), s), NextFd(f))
      BY <1>2, <2>4, <3>1 DEF Open, Opened
    <3>4. r.ret = NextFd(f) /\ r.fs = SetStream(g, r.ret, s) /\ ~Fails(r)
      BY <3>2, <3>3 DEF Result, Fails
    <3>5. FreshId(g) \in Fd /\ \A k \in OpenFds(g) : g.stream[k].id # FreshId(g)
      BY <2>1, <2>2, <2>4, FreshIdIsOne
    <3>6. Lookup(g, path) \in Node \cup Terminal
      BY <2>1, LookupLeads DEF Name
    <3>7. s \in Stream /\ s.id = FreshId(g) /\ s.node = Lookup(g, path) /\ s.mode = mode /\ s.pos = 0
      BY <3>5, <3>6 DEF Stream
    <3>8. s # Closed
      BY <3>7
    <3>9. \A k \in OpenFds(f) : f.stream[k].id # s.id
      BY <2>1, <2>2, <3>5, <3>7
    <3> HIDE DEF g, s
    <3> QED
      BY <1>2, <2>4, <3>2, <3>4, <3>7, <3>8, <3>9 DEF g
  <2> QED
    BY <2>3, <2>4
<1> QED
  BY <1>1, <1>2

LEMMA OpenFdsAre ==
  ASSUME NEW f, NEW k \in Fd
  PROVE  k \in OpenFds(f) <=> f.stream[k] # Closed
BY DEF OpenFds

LEMMA KeptByOpen ==
  ASSUME NEW f \in FileSystem, NEW p \in Path, NEW w \in Writer, Sole(f, p, w),
         NEW path \in Name \ {p}, NEW mode \in Mode, NodesNeverRunOut
  PROVE  Kept(f, Open(f, path, mode).fs, p, w)
<1>1. PICK r : r = Open(f, path, mode)
  OBVIOUS
<1>2. PICK g : g = Prepared(f, path, mode)
  OBVIOUS
<1>3. \/ Fails(r) /\ mode = "r" /\ ~Exists(f, path) /\ r.fs = f
      \/ /\ mode # "r" \/ Exists(f, path)
         /\ Fails(r) /\ FreeFds(f) = {} /\ r.fs = g
      \/ /\ mode # "r" \/ Exists(f, path)
         /\ ~Fails(r) /\ FreeFds(f) # {} /\ r.ret \in Fd /\ Seen(f, r.ret) = {}
         /\ \E s \in Stream :
              /\ s # Closed /\ s.node = Lookup(g, path) /\ s.mode = mode /\ s.pos = 0
              /\ \A k \in OpenFds(f) : f.stream[k].id # s.id
              /\ r.fs = SetStream(g, r.ret, s)
  BY <1>1, <1>2, OpenIs
<1>4. CASE r.fs = f
  BY <1>1, <1>4, KeptSelf
<1>5. CASE mode # "r" \/ Exists(f, path)
  <2>1. Kept(f, g, p, w)
    BY <1>2, <1>5, KeptByPrepared
  <2>2. g \in FileSystem /\ g.stream = f.stream /\ Exists(g, path)
    BY <1>2, <1>5, PreparedIs
  <2>3. CASE r.fs = g
    BY <1>1, <2>1, <2>3
  <2>4. ASSUME r.ret \in Fd, Seen(f, r.ret) = {}, NEW s \in Stream,
               s # Closed, s.node = Lookup(g, path), \A k \in OpenFds(f) : f.stream[k].id # s.id,
               r.fs = SetStream(g, r.ret, s)
        PROVE  Kept(f, r.fs, p, w)
    <3>1. Sole(g, p, w) /\ g.dir[p] = f.dir[p]
      BY <2>1 DEF Kept
    <3>2. w # NoFd => w \in Fd /\ g.stream[w] # Closed
      BY <3>1 DEF Sole, AtEnd, Writer
    <3>3. r.ret # w
      BY <2>2, <2>4, <3>2, NoFdIsNone DEF Seen
    <3>4. s.node # g.dir[p]
      <4>1. CASE path \in Path
        <5>1. Lookup(g, path) = g.dir[path] /\ g.dir[path] # NoNode
          BY <2>2, <4>1, FSAssumption DEF Lookup, Exists
        <5> QED
          BY <2>4, <3>1, <4>1, <5>1 DEF Sole
      <4>2. CASE path \in DOMAIN Link
        <5>1. Lookup(g, path) \in Terminal
          BY <4>2, FSAssumption DEF Lookup, Link, Terminal
        <5>2. g.dir[p] \in Node \cup {NoNode}
          BY <2>2, FieldTypes
        <5> QED
          BY <2>4, <5>1, <5>2, FSAssumption
      <4> QED
        BY <4>1, <4>2 DEF Name
    <3>5. w # NoFd => s.id # g.stream[w].id
      BY <2>2, <2>4, <3>2, OpenFdsAre
    <3>6. Elsewhere(g, p, w, s)
      BY <3>4, <3>5 DEF Elsewhere
    <3>7. Kept(g, SetStream(g, r.ret, s), p, w)
      BY <2>2, <2>4, <3>1, <3>3, <3>6, KeptBySetStream
    <3> QED
      BY <2>1, <2>4, <3>7, KeptIsTransitive
  <2> QED
    BY <1>1, <1>3, <1>4, <2>3, <2>4
<1> QED
  BY <1>3, <1>4, <1>5

\* The file itself is opened for writing: it is empty, and what opened it is its writer.
LEMMA OpenedForWriting ==
  ASSUME NEW f \in FileSystem, NEW p \in Path, Sole(f, p, NoFd), NodesNeverRunOut,
         NEW r, r = Open(f, p, "w")
  PROVE  /\ r.fs \in FileSystem /\ r.fs.dir[p] \in Node /\ r.fs.dir[p] # NoNode
         /\ r.fs.data[r.fs.dir[p]] = <<>>
         /\ Fails(r) => Sole(r.fs, p, NoFd)
         /\ ~Fails(r) => r.ret \in Fd /\ Sole(r.fs, p, r.ret)
<1>1. PICK g : g = Prepared(f, p, "w")
  OBVIOUS
<1>2. p \in Name /\ "w" \in Mode /\ "w" # "r"
  BY DEF Name, Mode
<1>3. \/ Fails(r) /\ r.fs = g
      \/ /\ ~Fails(r) /\ r.ret \in Fd /\ Seen(f, r.ret) = {}
         /\ \E s \in Stream :
              /\ s # Closed /\ s.node = Lookup(g, p) /\ s.mode = "w" /\ s.pos = 0
              /\ \A k \in OpenFds(f) : f.stream[k].id # s.id
              /\ r.fs = SetStream(g, r.ret, s)
  BY <1>1, <1>2, OpenIs
<1>4. g \in FileSystem /\ g.stream = f.stream /\ Emptied(f, g, p)
  BY <1>1, <1>2, PreparedIs
<1>5. g.dir[p] \in Node /\ g.dir[p] # NoNode /\ g.data[g.dir[p]] = <<>> /\ Lookup(g, p) = g.dir[p]
  BY <1>4, FSAssumption DEF Emptied, Lookup
<1>6. \A q \in Path \ {p} : g.dir[q] # g.dir[p]
  <2>1. CASE g.dir[p] = f.dir[p]
    BY <1>4, <1>5, <2>1 DEF Sole, Emptied
  <2>2. CASE ~Alive(f, g.dir[p])
    BY <1>4, <2>2 DEF Emptied, Alive
  <2> QED
    BY <1>4, <2>1, <2>2 DEF Emptied
<1>7. \A k \in Fd : f.stream[k] = Closed \/ f.stream[k].node # g.dir[p]
  <2>1. CASE g.dir[p] = f.dir[p]
    BY <2>1, NoFdIsNone DEF Sole, Elsewhere
  <2>2. CASE ~Alive(f, g.dir[p])
    BY <2>2 DEF Alive, OpenFds
  <2> QED
    BY <1>4, <2>1, <2>2 DEF Emptied
<1>8. CASE Fails(r) /\ r.fs = g
  <2>1. \A k \in Fd \ {NoFd} : Elsewhere(g, p, NoFd, g.stream[k])
    BY <1>4, <1>7 DEF Elsewhere
  <2>2. Sole(g, p, NoFd)
    BY <1>6, <2>1 DEF Sole
  <2> QED
    BY <1>4, <1>5, <1>8, <2>2
<1>9. ASSUME ~Fails(r), r.ret \in Fd, NEW s \in Stream,
             s # Closed, s.node = Lookup(g, p), s.mode = "w", s.pos = 0,
             \A k \in OpenFds(f) : f.stream[k].id # s.id,
             r.fs = SetStream(g, r.ret, s)
      PROVE  /\ r.fs \in FileSystem /\ r.fs.dir[p] \in Node /\ r.fs.dir[p] # NoNode
             /\ r.fs.data[r.fs.dir[p]] = <<>>
             /\ Sole(r.fs, p, r.ret)
  <2> DEFINE h == r.fs
             w == r.ret
  <2>1. /\ h \in FileSystem /\ h.dir = g.dir /\ h.data = g.data
        /\ h.stream[w] = s /\ \A k \in Fd \ {w} : h.stream[k] = g.stream[k]
    BY <1>4, <1>9, SetStreamIs
  <2>2. w \in Fd
    BY <1>9
  <2> HIDE DEF h, w
  <2>3. AtEnd(h, p, w)
    BY <1>5, <1>9, <2>1 DEF AtEnd
  <2>4. \A k \in Fd \ {w} : Elsewhere(h, p, w, h.stream[k])
    BY <1>4, <1>7, <1>9, <2>1, OpenFdsAre DEF Elsewhere
  <2>5. Sole(h, p, w)
    BY <1>6, <2>1, <2>3, <2>4 DEF Sole
  <2> QED
    BY <1>5, <2>1, <2>5 DEF h, w
<1> QED
  BY <1>3, <1>8, <1>9

\* A path that names nothing.
LEMMA NoneIsSole ==
  ASSUME NEW f \in FileSystem, NEW p \in Path, f.dir[p] = NoNode
  PROVE  Sole(f, p, NoFd)
<1>1. \A k \in Fd : f.stream[k] = Closed \/ f.stream[k].node # NoNode
  BY StreamTypes, FSAssumption DEF Stream
<1> QED
  BY <1>1 DEF Sole, Elsewhere

LEMMA UnlinkedIs ==
  ASSUME NEW f \in FileSystem, NEW p \in Path, NEW h, h = Unlink(f, p).fs
  PROVE  h \in FileSystem /\ h.dir[p] = NoNode /\ Sole(h, p, NoFd)
<1>1. h \in FileSystem
  BY UnlinkSeen DEF Keeps
<1>2. h.dir[p] = NoNode
  <2>1. CASE ~Exists(f, p)
    BY <2>1, FSAssumption DEF Unlink, Result, Exists, Lookup
  <2>2. CASE Exists(f, p)
    <3>1. PICK g : g = [f EXCEPT !.dir[p] = NoNode]
      OBVIOUS
    <3>2. [f.dir EXCEPT ![p] = NoNode] \in [Path -> Node \cup {NoNode}]
      BY FieldTypes
    <3>3. g = [f EXCEPT !.dir = [f.dir EXCEPT ![p] = NoNode]]
      BY <3>1 DEF FileSystem
    <3>4. g \in FileSystem /\ g.dir[p] = NoNode
      BY <3>2, <3>3, FieldTypes DEF FileSystem
    <3>5. h = Collected(g)
      BY <2>2, <3>1 DEF Unlink, Result
    <3> QED
      BY <3>4, <3>5, CollectedFields
  <2> QED
    BY <2>1, <2>2
<1> QED
  BY <1>1, <1>2, NoneIsSole

-----------------------------------------------------------------------------
(* What the functions of io_utils.c and assembler.c leave of such a file.  *)

LEMMA GrewIsSole ==
  ASSUME NEW f, NEW g, NEW p, NEW w, Grew(f, g, p, w)
  PROVE  g \in FileSystem /\ Sole(g, p, w)
BY DEF Grew

LEMMA GrewKept ==
  ASSUME NEW f \in FileSystem, NEW g, NEW h, NEW p \in Path, NEW w, Grew(f, g, p, w), Kept(g, h, p, w)
  PROVE  Grew(f, h, p, w)
<1>1. g \in FileSystem
  BY GrewIsSole
<1>2. Grew(g, h, p, w)
  BY <1>1, KeptGrew
<1> QED
  BY <1>2, GrewIsTransitive

LEMMA GrewItself ==
  ASSUME NEW f \in FileSystem, NEW p \in Path, NEW w, Sole(f, p, w)
  PROVE  Grew(f, f, p, w)
BY KeptSelf, KeptGrew

\* After any call that is not about the file or its writer.
LEMMA GrewByCall ==
  ASSUME NEW f \in FileSystem, NEW g, NEW p \in Path, NEW w \in Writer, Grew(f, g, p, w), NodesNeverRunOut
  PROVE  /\ \A fd \in Fd, lines \in Seq(Line) : Grew(f, Write(g, fd, lines).fs, p, w)
         /\ \A fd \in Fd : Grew(f, Read(g, fd).fs, p, w)
         /\ \A fd \in Fd \ {w} : Grew(f, Close(g, fd).fs, p, w)
         /\ \A fd \in Fd \ {w} : Grew(f, Seek(g, fd, 0).fs, p, w)
         /\ \A fd \in Fd \ {w} : Grew(f, Dup(g, fd).fs, p, w)
         /\ \A fd, newfd \in Fd \ {w} : Grew(f, Dup3(g, fd, newfd).fs, p, w)
         /\ \A path \in Name \ {p}, mode \in Mode : Grew(f, Open(g, path, mode).fs, p, w)
         /\ \A path \in Path \ {p} : Grew(f, Unlink(g, path).fs, p, w)
         /\ \A n \in Nat : Grew(f, Logged(g, n), p, w)
<1>1. g \in FileSystem /\ Sole(g, p, w)
  BY GrewIsSole
<1>2. ASSUME NEW fd \in Fd, NEW lines \in Seq(Line) PROVE Grew(f, Write(g, fd, lines).fs, p, w)
  <2>1. Grew(g, Write(g, fd, lines).fs, p, w)
    BY <1>1, GrewByWrite
  <2> QED
    BY <2>1, GrewIsTransitive
<1>3. ASSUME NEW fd \in Fd PROVE Grew(f, Read(g, fd).fs, p, w)
  BY <1>1, KeptByRead, GrewKept
<1>4. ASSUME NEW fd \in Fd \ {w} PROVE Grew(f, Close(g, fd).fs, p, w)
  BY <1>1, KeptByClose, GrewKept
<1>5. ASSUME NEW fd \in Fd \ {w} PROVE Grew(f, Seek(g, fd, 0).fs, p, w)
  BY <1>1, KeptBySeek, GrewKept
<1>6. ASSUME NEW fd \in Fd \ {w} PROVE Grew(f, Dup(g, fd).fs, p, w)
  BY <1>1, KeptByDup, GrewKept
<1>7. ASSUME NEW fd \in Fd \ {w}, NEW newfd \in Fd \ {w} PROVE Grew(f, Dup3(g, fd, newfd).fs, p, w)
  BY <1>1, KeptByDup3, GrewKept
<1>8. ASSUME NEW path \in Name \ {p}, NEW mode \in Mode PROVE Grew(f, Open(g, path, mode).fs, p, w)
  BY <1>1, KeptByOpen, GrewKept
<1>9. ASSUME NEW path \in Path \ {p} PROVE Grew(f, Unlink(g, path).fs, p, w)
  BY <1>1, KeptByUnlink, GrewKept
<1>10. ASSUME NEW n \in Nat PROVE Grew(f, Logged(g, n), p, w)
  <2>1. [i \in 1..n |-> "log"] \in Seq(Line)
    OBVIOUS
  <2>2. 2 \in Fd
    BY StandardFds
  <2> QED
    BY <1>2, <2>1, <2>2 DEF Logged
<1> QED
  BY <1>2, <1>3, <1>4, <1>5, <1>6, <1>7, <1>8, <1>9, <1>10

\* A descriptor that was free when the writer was open is not the writer.
LEMMA NotTheWriter ==
  ASSUME NEW f, NEW p, NEW w, Sole(f, p, w), NEW k \in Fd, Seen(f, k) = {}
  PROVE  k # w
BY NoFdIsNone DEF Sole, AtEnd, Seen

LEMMA ReadToHeapGrew ==
  ASSUME NEW f \in FileSystem, NEW p \in Path, NEW w \in Writer, Sole(f, p, w),
         NEW name \in Path \ {p}, NodesNeverRunOut
  PROVE  Grew(f, ReadToHeap(f, name).fs, p, w)
<1> DEFINE file == Open(f, name, "r")
           rest == Rest(file.fs, file.ret)
           fits == Len(rest) <= BufferLines
           read == IF fits THEN Read(file.fs, file.ret).fs ELSE Logged(file.fs, 1)
           gone == Unlink(f, name)
<1>1. Grew(f, f, p, w)
  BY GrewItself
<1>2. name \in Name \ {p} /\ "r" \in Mode
  BY PathNames DEF Mode
<1>3. Grew(f, file.fs, p, w)
  BY <1>1, <1>2, GrewByCall
<1>4. ~Fails(file) => file.ret \in Fd /\ Seen(f, file.ret) = {}
  BY <1>2, OpenSeen
<1> HIDE DEF file
<1>5. CASE Fails(file)
  <2>1. Grew(f, gone.fs, p, w)
    BY <1>1, GrewByCall
  <2>2. Grew(f, Logged(gone.fs, 3), p, w)
    BY <2>1, GrewByCall
  <2>3. ReadToHeap(f, name) = [fs |-> Logged(gone.fs, 3), text |-> Lost]
    BY <1>5 DEF ReadToHeap, file
  <2> QED
    BY <2>2, <2>3
<1>6. CASE ~Fails(file)
  <2>1. file.ret \in Fd \ {w}
    BY <1>4, <1>6, NotTheWriter
  <2>2. Grew(f, Read(file.fs, file.ret).fs, p, w) /\ Grew(f, Logged(file.fs, 1), p, w)
    BY <1>3, <2>1, GrewByCall
  <2>3. Grew(f, read, p, w)
    BY <2>2
  <2>4. ReadToHeap(f, name) = [fs |-> Unlink(Close(read, file.ret).fs, name).fs,
                               text |-> IF fits THEN rest ELSE <<>>]
    BY <1>6 DEF ReadToHeap, file
  <2> HIDE DEF read, rest, fits
  <2>5. Grew(f, Close(read, file.ret).fs, p, w)
    BY <2>1, <2>3, GrewByCall
  <2>6. Grew(f, Unlink(Close(read, file.ret).fs, name).fs, p, w)
    BY <2>5, GrewByCall
  <2> QED
    BY <2>4, <2>6
<1> QED
  BY <1>5, <1>6

LEMMA WrittenGrew ==
  ASSUME NEW f \in FileSystem, NEW p \in Path, NEW w \in Writer, Sole(f, p, w),
         NEW name \in Path \ {p}, NEW content \in Seq(Line), NodesNeverRunOut
  PROVE  Grew(f, Written(f, name, content).fs, p, w)
<1> DEFINE file == Open(f, name, "w")
<1>1. Grew(f, f, p, w)
  BY GrewItself
<1>2. name \in Name \ {p} /\ "w" \in Mode
  BY PathNames DEF Mode
<1>3. Grew(f, file.fs, p, w)
  BY <1>1, <1>2, GrewByCall
<1>4. ~Fails(file) => file.ret \in Fd /\ Seen(f, file.ret) = {}
  BY <1>2, OpenSeen
<1> HIDE DEF file
<1>5. CASE Fails(file)
  BY <1>3, <1>5 DEF Written, file
<1>6. CASE ~Fails(file)
  <2>1. file.ret \in Fd \ {w}
    BY <1>4, <1>6, NotTheWriter
  <2>2. Grew(f, Write(file.fs, file.ret, content).fs, p, w)
    BY <1>3, <2>1, GrewByCall
  <2>3. Grew(f, Close(Write(file.fs, file.ret, content).fs, file.ret).fs, p, w)
    BY <2>1, <2>2, GrewByCall
  <2> QED
    BY <1>6, <2>3 DEF Written, file, Result
<1> QED
  BY <1>5, <1>6

LEMMA ComplainGrew ==
  ASSUME NEW p \in Path, NEW w \in Writer, NEW f \in FileSystem, NEW g, Grew(f, g, p, w),
         NEW s \in Source, NodesNeverRunOut
  PROVE  Grew(f, Complain(g, s), p, w)
<1>1. <<s>> \in Seq(Line) /\ 2 \in Fd
  BY StandardFds
<1> QED
  BY <1>1, GrewByCall DEF Complain

LEMMA MmixalGrew ==
  ASSUME NEW f \in FileSystem, NEW p \in Path \ {"mms", "mmo", "listing"}, NEW w \in Writer, Sole(f, p, w),
         NEW s \in Source, NodesNeverRunOut
  PROVE  Grew(f, Mmixal(f, s).fs, p, w)
<1> DEFINE src == Open(f, "mms", "r")
           obj == Open(src.fs, "mmo", "w")
           lst == Open(obj.fs, "listing", "w")
           code == Write(Write(lst.fs, obj.ret, <<s>>).fs, lst.ret, <<s>>).fs
           out == IF s \in Faulty THEN Complain(code, s) ELSE code
<1>1. "r" \in Mode /\ "w" \in Mode /\ <<s>> \in Seq(Line) /\ 2 \in Fd
  BY StandardFds DEF Mode
<1>2. "mms" \in Name \ {p} /\ "mmo" \in Name \ {p} /\ "listing" \in Name \ {p}
  BY PathNames
<1>3. Grew(f, f, p, w)
  BY GrewItself
<1>4. Grew(f, src.fs, p, w) /\ (~Fails(src) => src.ret \in Fd /\ Seen(f, src.ret) = {})
  BY <1>1, <1>2, <1>3, GrewByCall, OpenSeen
<1> HIDE DEF src
<1>5. src.fs \in FileSystem /\ Sole(src.fs, p, w)
  BY <1>4, GrewIsSole
<1>6. Grew(f, obj.fs, p, w) /\ (~Fails(obj) => obj.ret \in Fd /\ Seen(src.fs, obj.ret) = {})
  BY <1>1, <1>2, <1>4, <1>5, GrewByCall, OpenSeen
<1> HIDE DEF obj
<1>7. obj.fs \in FileSystem /\ Sole(obj.fs, p, w)
  BY <1>6, GrewIsSole
<1>8. Grew(f, lst.fs, p, w) /\ (~Fails(lst) => lst.ret \in Fd /\ Seen(obj.fs, lst.ret) = {})
  BY <1>1, <1>2, <1>6, <1>7, GrewByCall, OpenSeen
<1> HIDE DEF lst
<1>9. /\ ~Fails(src) => src.ret \in Fd \ {w}
      /\ ~Fails(obj) => obj.ret \in Fd \ {w}
      /\ ~Fails(lst) => lst.ret \in Fd \ {w}
  BY <1>4, <1>5, <1>6, <1>7, <1>8, NotTheWriter
<1>10. CASE Fails(src)
  <2>1. Grew(f, Complain(f, s), p, w)
    BY <1>3, ComplainGrew
  <2> QED
    BY <1>10, <2>1 DEF Mmixal, src, Result
<1>11. CASE ~Fails(src) /\ Fails(obj)
  <2>1. Grew(f, Close(obj.fs, src.ret).fs, p, w)
    BY <1>6, <1>9, <1>11, GrewByCall
  <2>2. Grew(f, Complain(Close(obj.fs, src.ret).fs, s), p, w)
    BY <2>1, ComplainGrew
  <2> QED
    BY <1>11, <2>2 DEF Mmixal, src, obj, Result
<1>12. CASE ~Fails(src) /\ ~Fails(obj) /\ Fails(lst)
  <2>1. Grew(f, Close(lst.fs, obj.ret).fs, p, w)
    BY <1>8, <1>9, <1>12, GrewByCall
  <2>2. Grew(f, Close(Close(lst.fs, obj.ret).fs, src.ret).fs, p, w)
    BY <1>9, <1>12, <2>1, GrewByCall
  <2>3. Grew(f, Complain(Close(Close(lst.fs, obj.ret).fs, src.ret).fs, s), p, w)
    BY <2>2, ComplainGrew
  <2> QED
    BY <1>12, <2>3 DEF Mmixal, src, obj, lst, Result
<1>13. CASE ~Fails(src) /\ ~Fails(obj) /\ ~Fails(lst)
  <2>1. Grew(f, Write(lst.fs, obj.ret, <<s>>).fs, p, w)
    BY <1>1, <1>8, <1>9, <1>13, GrewByCall
  <2>2. Grew(f, code, p, w)
    BY <1>1, <1>9, <1>13, <2>1, GrewByCall
  <2> HIDE DEF code
  <2>3. Grew(f, out, p, w)
    BY <2>2, ComplainGrew
  <2> HIDE DEF out
  <2>4. Grew(f, Close(out, lst.ret).fs, p, w)
    BY <1>9, <1>13, <2>3, GrewByCall
  <2>5. Grew(f, Close(Close(out, lst.ret).fs, obj.ret).fs, p, w)
    BY <1>9, <1>13, <2>4, GrewByCall
  <2>6. Grew(f, Close(Close(Close(out, lst.ret).fs, obj.ret).fs, src.ret).fs, p, w)
    BY <1>9, <1>13, <2>5, GrewByCall
  <2> QED
    BY <1>13, <2>6 DEF Mmixal, src, obj, lst, out, code, Result
<1> QED
  BY <1>10, <1>11, <1>12, <1>13

\* The file holds c, if there is one.
Holding(f, p, w, c) ==
  /\ f \in FileSystem
  /\ Sole(f, p, w)
  /\ f.dir[p] # NoNode => f.data[f.dir[p]] = c

LEMMA HoldingKept ==
  ASSUME NEW f, NEW h, NEW p, NEW w, NEW v, NEW c, Holding(f, p, w, c), Kept(f, h, p, v)
  PROVE  Holding(h, p, v, c)
BY DEF Holding, Kept

LEMMA HoldingGrew ==
  ASSUME NEW f, NEW h, NEW p, NEW c, Holding(f, p, NoFd, c), Grew(f, h, p, NoFd)
  PROVE  Holding(h, p, NoFd, c)
BY DEF Holding, Grew

\* mmixal leaves the program of the source that it has read, and no more than an empty
\* file when it could not open all its files.
LEMMA MmixalHolds ==
  ASSUME NEW f, Holding(f, "mmo", NoFd, <<>>), Seen(f, 2) # {},
         NEW s \in Source, NodesNeverRunOut, NEW r, r = Mmixal(f, s)
  PROVE  \/ Holding(r.fs, "mmo", NoFd, <<s>>)
         \/ r.ret # 0 /\ Holding(r.fs, "mmo", NoFd, <<>>)
<1> DEFINE src == Open(f, "mms", "r")
           obj == Open(src.fs, "mmo", "w")
           lst == Open(obj.fs, "listing", "w")
           code == Write(Write(lst.fs, obj.ret, <<s>>).fs, lst.ret, <<s>>).fs
           out == IF s \in Faulty THEN Complain(code, s) ELSE code
<1>1. "r" \in Mode /\ "w" \in Mode /\ <<s>> \in Seq(Line) /\ 2 \in Fd /\ NoFd \in Writer
  BY StandardFds DEF Mode, Writer
<1>2. "mms" \in Name \ {"mmo"} /\ "mmo" \in Name /\ "listing" \in Name \ {"mmo"} /\ "mmo" \in Path
  BY PathNames
<1>3. f \in FileSystem /\ Sole(f, "mmo", NoFd)
  BY DEF Holding
<1>4. Holding(src.fs, "mmo", NoFd, <<>>)
  <2>1. Kept(f, src.fs, "mmo", NoFd)
    BY <1>1, <1>2, <1>3, KeptByOpen
  <2> QED
    BY <2>1, HoldingKept
<1>5. Seen(src.fs, 2) # {} /\ (~Fails(src) => src.ret \in Fd)
  BY <1>1, <1>2, <1>3, OpenSeen DEF Keeps
<1> HIDE DEF src
<1>6. src.fs \in FileSystem /\ Sole(src.fs, "mmo", NoFd)
  BY <1>4 DEF Holding
<1>7. /\ obj.fs \in FileSystem
      /\ obj.fs.data[obj.fs.dir["mmo"]] = <<>>
      /\ Fails(obj) => Sole(obj.fs, "mmo", NoFd)
      /\ ~Fails(obj) => obj.ret \in Fd /\ Sole(obj.fs, "mmo", obj.ret)
  BY <1>2, <1>6, OpenedForWriting
<1>8. ~Fails(obj) => Seen(src.fs, obj.ret) = {}
  BY <1>1, <1>2, <1>6, OpenSeen
<1> HIDE DEF obj
<1>12. ASSUME NEW g, Holding(g, "mmo", NoFd, <<>>) PROVE Holding(Complain(g, s), "mmo", NoFd, <<>>)
  <2>1. g \in FileSystem /\ Sole(g, "mmo", NoFd)
    BY <1>12 DEF Holding
  <2>2. Grew(g, Complain(g, s), "mmo", NoFd)
    BY <1>1, <1>2, <2>1, GrewItself, ComplainGrew
  <2> QED
    BY <1>12, <2>2, HoldingGrew
<1>9. CASE Fails(src)
  <2>1. r.fs = Complain(f, s) /\ r.ret = -1
    BY <1>9 DEF Mmixal, src, Result
  <2> QED
    BY <1>12, <2>1
<1>10. CASE ~Fails(src) /\ Fails(obj)
  <2>1. r.fs = Complain(Close(obj.fs, src.ret).fs, s) /\ r.ret = -1
    BY <1>10 DEF Mmixal, src, obj, Result
  <2>2. Holding(obj.fs, "mmo", NoFd, <<>>)
    BY <1>7, <1>10 DEF Holding
  <2>3. src.ret \in Fd \ {NoFd}
    BY <1>5, <1>10, NoFdIsNone
  <2>4. Kept(obj.fs, Close(obj.fs, src.ret).fs, "mmo", NoFd)
    BY <1>1, <1>2, <1>7, <1>10, <2>3, KeptByClose
  <2>5. Holding(r.fs, "mmo", NoFd, <<>>)
    BY <1>12, <2>1, <2>2, <2>4, HoldingKept
  <2> QED
    BY <2>1, <2>5
<1>11. CASE ~Fails(src) /\ ~Fails(obj)
  <2> DEFINE w == obj.ret
  <2>1. w \in Fd /\ w \in Writer /\ w # 2 /\ src.ret \in Fd /\ Holding(obj.fs, "mmo", w, <<>>)
    BY <1>5, <1>7, <1>8, <1>11 DEF Holding, Writer
  <2>2. Kept(obj.fs, lst.fs, "mmo", w)
    BY <1>1, <1>2, <1>7, <1>11, <2>1, KeptByOpen
  <2>3. Holding(lst.fs, "mmo", w, <<>>)
    BY <2>1, <2>2, HoldingKept
  <2>4. ~Fails(lst) => lst.ret \in Fd \ {w}
    <3>1. ~Fails(lst) => lst.ret \in Fd /\ Seen(obj.fs, lst.ret) = {}
      BY <1>1, <1>2, <1>7, OpenSeen
    <3> QED
      BY <1>7, <1>11, <3>1, NotTheWriter
  <2> HIDE DEF lst
  <2>5. lst.fs \in FileSystem /\ Sole(lst.fs, "mmo", w)
    BY <2>3 DEF Holding
  <2>6. ASSUME NEW g, NEW c, Holding(g, "mmo", w, c)
        PROVE  Holding(Close(Close(g, w).fs, src.ret).fs, "mmo", NoFd, c)
    <3>1. g \in FileSystem /\ Sole(g, "mmo", w)
      BY <2>6 DEF Holding
    <3>2. Kept(g, Close(g, w).fs, "mmo", NoFd)
      BY <1>2, <2>1, <3>1, KeptByCloseOfWriter
    <3>3. Holding(Close(g, w).fs, "mmo", NoFd, c)
      BY <2>6, <3>2, HoldingKept
    <3>4. Close(g, w).fs \in FileSystem /\ Sole(Close(g, w).fs, "mmo", NoFd)
      BY <3>3 DEF Holding
    <3>5. src.ret \in Fd \ {NoFd}
      BY <2>1, NoFdIsNone
    <3>6. Kept(Close(g, w).fs, Close(Close(g, w).fs, src.ret).fs, "mmo", NoFd)
      BY <1>1, <1>2, <3>4, <3>5, KeptByClose
    <3> QED
      BY <3>3, <3>6, HoldingKept
  <2>7. CASE Fails(lst)
    <3>1. r.fs = Complain(Close(Close(lst.fs, w).fs, src.ret).fs, s) /\ r.ret = -1
      BY <1>11, <2>7 DEF Mmixal, src, obj, lst, Result
    <3>2. Holding(r.fs, "mmo", NoFd, <<>>)
      BY <1>12, <2>3, <2>6, <3>1
    <3> QED
      BY <3>1, <3>2
  <2>8. CASE ~Fails(lst)
    <3>1. r.fs = Close(Close(Close(out, lst.ret).fs, w).fs, src.ret).fs
      BY <1>11, <2>8 DEF Mmixal, src, obj, lst, out, code, Result
    <3>2. Holding(code, "mmo", w, <<s>>)
      <4>1. PICK g : g = Write(lst.fs, w, <<s>>).fs
        OBVIOUS
      <4>2. /\ g \in FileSystem /\ Sole(g, "mmo", w) /\ g.dir = lst.fs.dir
            /\ g.data[lst.fs.dir["mmo"]] = Appended(lst.fs.data[lst.fs.dir["mmo"]], <<s>>)
        <5>1. ASSUME NEW h \in FileSystem, NEW lines \in Seq(Line), Sole(h, "mmo", w),
                     g = Write(h, w, lines).fs
              PROVE  /\ g \in FileSystem /\ Sole(g, "mmo", w) /\ g.dir = h.dir
                     /\ g.data[h.dir["mmo"]] = Appended(h.data[h.dir["mmo"]], lines)
          BY <1>2, <2>1, <5>1, WriteAtEnd
        <5> QED
          BY <1>1, <2>5, <4>1, <5>1
      <4>3. lst.fs.dir["mmo"] # NoNode
        BY <1>2, <2>1, <2>5, WriterLeads
      <4>4. lst.fs.data[lst.fs.dir["mmo"]] = <<>>
        BY <2>3, <4>3 DEF Holding
      <4>5. Appended(<<>>, <<s>>) = <<s>>
        BY DEF Appended
      <4>6. Holding(g, "mmo", w, <<s>>)
        BY <4>2, <4>4, <4>5 DEF Holding
      <4>7. lst.ret \in Fd \ {w}
        BY <2>4, <2>8
      <4>8. Kept(g, Write(g, lst.ret, <<s>>).fs, "mmo", w)
        BY <1>1, <1>2, <2>1, <4>2, <4>7, KeptByWrite
      <4>9. code = Write(g, lst.ret, <<s>>).fs
        BY <4>1
      <4> QED
        BY <4>6, <4>8, <4>9, HoldingKept
    <3> HIDE DEF code
    <3>3. Holding(out, "mmo", w, <<s>>)
      <4>1. code \in FileSystem /\ Sole(code, "mmo", w) /\ 2 \in Fd \ {w}
        BY <1>1, <2>1, <3>2 DEF Holding
      <4>2. Kept(code, Complain(code, s), "mmo", w)
        BY <1>1, <1>2, <2>1, <4>1, KeptByWrite DEF Complain
      <4>3. Holding(Complain(code, s), "mmo", w, <<s>>)
        BY <3>2, <4>2, HoldingKept
      <4> QED
        BY <3>2, <4>3
    <3> HIDE DEF out
    <3>4. out \in FileSystem /\ Sole(out, "mmo", w) /\ lst.ret \in Fd \ {w}
      BY <2>4, <2>8, <3>3 DEF Holding
    <3>5. Kept(out, Close(out, lst.ret).fs, "mmo", w)
      BY <1>2, <2>1, <3>4, KeptByClose
    <3>6. Holding(Close(out, lst.ret).fs, "mmo", w, <<s>>)
      BY <3>3, <3>5, HoldingKept
    <3>7. Holding(r.fs, "mmo", NoFd, <<s>>)
      BY <2>6, <3>1, <3>6
    <3> QED
      BY <3>7
  <2> QED
    BY <2>7, <2>8
<1> QED
  BY <1>9, <1>10, <1>11

\* read_to_heap reads a whole file, when it can be opened.
LEMMA ReadToHeapReads ==
  ASSUME NEW f, NEW p \in Path, NEW c \in Texts, Holding(f, p, NoFd, c), f.dir[p] # NoNode, FreeFds(f) # {},
         NodesNeverRunOut, NEW r, r = ReadToHeap(f, p)
  PROVE  /\ r.text = IF Len(c) <= BufferLines THEN c ELSE <<>>
         /\ r.fs \in FileSystem /\ Sole(r.fs, p, NoFd)
<1> DEFINE file == Open(f, p, "r")
           rest == Rest(file.fs, file.ret)
           fits == Len(rest) <= BufferLines
           read == IF fits THEN Read(file.fs, file.ret).fs ELSE Logged(file.fs, 1)
<1>1. f \in FileSystem /\ f.data[f.dir[p]] = c /\ f.dir[p] \in Node
  BY DataIsText DEF Holding
<1>2. p \in Name /\ "r" \in Mode /\ Exists(f, p) /\ Lookup(f, p) = f.dir[p] /\ f.dir[p] \notin Terminal
  BY <1>1, PathNames, FSAssumption DEF Mode, Exists, Lookup
<1>3. Prepared(f, p, "r") = f
  <2>1. PICK g : g = Prepared(f, p, "r")
    OBVIOUS
  <2>2. g = f
    BY <1>1, <1>2, <2>1, PreparedIs
  <2> QED
    BY <2>1, <2>2
<1>4. PICK o : o = Open(f, p, "r")
  OBVIOUS
<1>5. /\ ~Fails(o) /\ o.ret \in Fd
      /\ \E s \in Stream :
           /\ s # Closed /\ s.node = f.dir[p] /\ s.mode = "r" /\ s.pos = 0
           /\ o.fs = SetStream(f, o.ret, s)
  BY <1>1, <1>2, <1>3, <1>4, OpenIs
<1>6. PICK s \in Stream :
        /\ s # Closed /\ s.node = f.dir[p] /\ s.mode = "r" /\ s.pos = 0
        /\ o.fs = SetStream(f, o.ret, s)
  BY <1>5
<1>7. o.fs \in FileSystem /\ o.fs.data = f.data /\ o.fs.stream[o.ret] = s
  BY <1>1, <1>5, <1>6, SetStreamIs
<1>8. file = o
  BY <1>4
<1> HIDE DEF file
<1>9. rest = c
  <2>1. Rest(o.fs, o.ret) = SubSeq(c, 0 + 1, Len(c))
    BY <1>1, <1>2, <1>6, <1>7 DEF Rest, IsConsole
  <2>2. SubSeq(c, 1, Len(c)) = c
    BY DEF Texts
  <2> QED
    BY <1>8, <2>1, <2>2
<1>10. r = [fs |-> Unlink(Close(read, file.ret).fs, p).fs, text |-> IF fits THEN rest ELSE <<>>]
  BY <1>5, <1>8 DEF ReadToHeap, file
<1>11. Close(read, file.ret).fs \in FileSystem
  <2>1. Same(o.fs, read)
    BY <1>5, <1>7, <1>8, ReadIsSame, LoggedIsSame
  <2>2. read \in FileSystem
    BY <2>1 DEF Same
  <2> HIDE DEF read
  <2> QED
    BY <1>5, <1>8, <2>2, CloseSeen
<1> HIDE DEF rest, read
<1>12. r.fs \in FileSystem /\ Sole(r.fs, p, NoFd)
  <2>1. PICK h : h = Unlink(Close(read, file.ret).fs, p).fs
    OBVIOUS
  <2>2. h \in FileSystem /\ Sole(h, p, NoFd)
    BY <1>11, <2>1, UnlinkedIs
  <2> QED
    BY <1>10, <2>1, <2>2
<1> QED
  BY <1>9, <1>10, <1>12

\* The descriptor l of the file is given the number t, and l is closed.
LEMMA SwitchedHolds ==
  ASSUME NEW f, NEW p \in Path, NEW l \in Fd, NEW t \in 0..2, l # t, NEW c, Holding(f, p, l, c),
         NEW h, h = Close(Dup3(f, l, t).fs, l).fs
  PROVE  Holding(h, p, t, c)
<1>1. f \in FileSystem /\ Sole(f, p, l)
  BY DEF Holding
<1>2. /\ AtEnd(f, p, l) /\ f.dir[p] \in Node /\ f.dir[p] # NoNode
      /\ \A k \in Fd \ {l} : f.stream[k] # Closed =>
           f.stream[k].node # f.dir[p] /\ f.stream[k].id # f.stream[l].id
  BY <1>1, WriterLeads
<1>3. t \in Fd /\ ~(t >= MaxOpenFds) /\ IsOpen(f, l) /\ f.stream[l] \in Stream
  BY <1>1, <1>2, StreamTypes, FSAssumption DEF Fd, AtEnd, IsOpen
<1>4. PICK a : a = SetStream(f, t, f.stream[l])
  OBVIOUS
<1>5. /\ a \in FileSystem /\ a.dir = f.dir /\ a.data = f.data
      /\ a.stream[t] = f.stream[l] /\ \A k \in Fd \ {t} : a.stream[k] = f.stream[k]
  BY <1>1, <1>3, <1>4, SetStreamIs
<1>6. PICK g : g = Collected(a)
  OBVIOUS
<1>7. /\ g \in FileSystem /\ g.dir = f.dir /\ g.stream = a.stream
      /\ g.data[f.dir[p]] = f.data[f.dir[p]]
  <2>1. Alive(a, f.dir[p])
    BY <1>5 DEF Alive
  <2> QED
    BY <1>2, <1>5, <1>6, <2>1, CollectedFields
<1>8. Dup3(f, l, t).fs = g
  BY <1>3, <1>4, <1>6 DEF Dup3, DupStream, Result
<1>9. PICK b : b = SetStream(g, l, Closed)
  OBVIOUS
<1>10. /\ b \in FileSystem /\ b.dir = f.dir /\ b.data = g.data
       /\ b.stream[l] = Closed /\ \A k \in Fd \ {l} : b.stream[k] = g.stream[k]
  BY <1>7, <1>9, SetStreamIs
<1>11. IsOpen(g, l)
  BY <1>2, <1>5, <1>7 DEF IsOpen, AtEnd
<1>12. h = Collected(b)
  BY <1>8, <1>9, <1>11 DEF Close, CloseStream, Result
<1>13. /\ h \in FileSystem /\ h.dir = f.dir /\ h.stream = b.stream
       /\ h.data[f.dir[p]] = f.data[f.dir[p]]
  <2>1. Alive(b, f.dir[p])
    BY <1>10 DEF Alive
  <2> QED
    BY <1>2, <1>7, <1>10, <1>12, <2>1, CollectedFields
<1>14. /\ h.stream[t] = f.stream[l] /\ h.stream[l] = Closed
       /\ \A k \in Fd \ {t, l} : h.stream[k] = f.stream[k]
  BY <1>3, <1>5, <1>7, <1>10, <1>13
<1>15. AtEnd(h, p, t)
  BY <1>2, <1>13, <1>14 DEF AtEnd
<1>16. \A k \in Fd \ {t} : Elsewhere(h, p, t, h.stream[k])
  BY <1>2, <1>13, <1>14 DEF Elsewhere
<1>17. Sole(h, p, t)
  BY <1>1, <1>13, <1>15, <1>16 DEF Sole
<1> QED
  BY <1>13, <1>17 DEF Holding

\* The call and the stream s are not about the file.
LEMMA RedirectedGrew ==
  ASSUME RedirectInv, NEW s \in StdStream, NEW p \in Path \ {LogName[s]}, NEW w \in Writer \ {Target[s]},
         Sole(fs, p, w), NodesNeverRunOut
  PROVE  Grew(fs, Redirected(s).fs, p, w)
<1> DEFINE t == Target[s]
           kept == Dup(fs, t)
           log == Open(kept.fs, LogName[s], "w")
           r == Redirected(s)
<1>1. fs \in FileSystem /\ t \in Fd \ {w} /\ LogName[s] \in Name \ {p} /\ "w" \in Mode
  BY PathNames, Targets DEF RedirectInv, RedirectTypeOK, Mode
<1>2. Grew(fs, fs, p, w)
  BY <1>1, GrewItself
<1>3. Grew(fs, kept.fs, p, w)
  BY <1>1, <1>2, GrewByCall
<1> HIDE DEF kept
<1>4. kept.fs \in FileSystem /\ Sole(kept.fs, p, w)
  BY <1>3, GrewIsSole
<1>5. Grew(fs, log.fs, p, w) /\ (~Fails(log) => log.ret \in Fd /\ Seen(kept.fs, log.ret) = {})
  BY <1>1, <1>3, <1>4, GrewByCall, OpenSeen
<1> HIDE DEF log
<1>6. Grew(fs, Logged(fs, 1), p, w) /\ Grew(fs, Logged(log.fs, 1), p, w)
  BY <1>1, <1>2, <1>5, GrewByCall
<1>7. CASE flag[s] \/ Fails(kept) \/ Fails(log)
  <2>1. r.fs \in {Logged(fs, 1), Logged(log.fs, 1)}
    <3>1. CASE flag[s]
      <4>1. r = Redirect(Logged(fs, 1), NoFd, TRUE)
        BY <3>1, Zenon DEF Redirected
      <4> QED
        BY <4>1 DEF Redirect
    <3>2. CASE ~flag[s] /\ Fails(kept)
      <4>1. r = Redirect(Logged(fs, 1), NoFd, FALSE)
        BY <3>2 DEF Redirected, kept
      <4> QED
        BY <4>1 DEF Redirect
    <3>3. CASE ~flag[s] /\ ~Fails(kept) /\ Fails(log)
      <4>1. r = Redirect(Logged(log.fs, 1), kept.ret, FALSE)
        BY <3>3 DEF Redirected, kept, log
      <4> QED
        BY <4>1 DEF Redirect
    <3> QED
      BY <1>7, <3>1, <3>2, <3>3
  <2> HIDE DEF r
  <2>2. Grew(fs, r.fs, p, w)
    BY <1>6, <2>1
  <2> QED
    BY <2>2 DEF r
<1>8. CASE ~(flag[s] \/ Fails(kept) \/ Fails(log))
  <2> DEFINE l == log.ret
             g == Dup3(log.fs, l, t).fs
             h == Close(g, l).fs
  <2>1. r = Redirect(h, kept.ret, TRUE)
    BY <1>8 DEF Redirected, Switched, kept, log
  <2>2. l \in Fd \ {w}
    BY <1>4, <1>5, <1>8, NotTheWriter
  <2> HIDE DEF l, t
  <2>3. Grew(fs, g, p, w)
    BY <1>1, <1>5, <2>2, GrewByCall
  <2> HIDE DEF g
  <2>4. Grew(fs, h, p, w)
    BY <1>1, <2>2, <2>3, GrewByCall
  <2> HIDE DEF h, r
  <2>5. r.fs = h
    BY <2>1 DEF Redirect
  <2>6. Grew(fs, r.fs, p, w)
    BY <2>4, <2>5
  <2> QED
    BY <2>6 DEF r
<1> QED
  BY <1>7, <1>8

\* A redirection that works begins with an empty log, which has no other descriptor.
LEMMA RedirectedHolds ==
  ASSUME RedirectInv, NEW s \in StdStream, ~flag[s], Sole(fs, LogName[s], NoFd), NodesNeverRunOut,
         NEW r, r = Redirected(s)
  PROVE  /\ r.flagged => Holding(r.fs, LogName[s], Target[s], <<>>)
         /\ ~r.flagged => r.fs \in FileSystem /\ Sole(r.fs, LogName[s], NoFd)
<1> DEFINE t == Target[s]
           p == LogName[s]
           kept == Dup(fs, t)
           log == Open(kept.fs, p, "w")
<1>1. fs \in FileSystem /\ t \in Fd /\ t \in 0..2 /\ p \in Path /\ NoFd \in Writer /\ t # NoFd
  BY PathNames, Targets, NoFdIsNone DEF RedirectInv, RedirectTypeOK, Writer
<1>2. Grew(fs, fs, p, NoFd)
  BY <1>1, GrewItself
<1>3. Grew(fs, kept.fs, p, NoFd)
  BY <1>1, <1>2, GrewByCall
<1>4. Seen(fs, t) # {} /\ Keeps(fs, kept.fs, Path)
  BY <1>1, DupSeen DEF RedirectInv, StreamsOK, StreamOK
<1> HIDE DEF kept, p, t
<1>5. kept.fs \in FileSystem /\ Sole(kept.fs, p, NoFd)
  BY <1>3, GrewIsSole
<1>6. PICK o : o = log
  OBVIOUS
<1>7. /\ o.fs \in FileSystem /\ o.fs.data[o.fs.dir[p]] = <<>>
      /\ Fails(o) => Sole(o.fs, p, NoFd)
      /\ ~Fails(o) => o.ret \in Fd /\ Sole(o.fs, p, o.ret)
  BY <1>1, <1>5, <1>6, OpenedForWriting
<1>8. ~Fails(o) => o.ret # t
  <2>1. p \in Name /\ "w" \in Mode
    BY <1>1 DEF Name, Mode
  <2>2. ~Fails(o) => Seen(kept.fs, o.ret) = {}
    BY <1>5, <1>6, <2>1, OpenSeen
  <2> QED
    BY <1>1, <1>4, <2>2 DEF Keeps
<1>9. CASE Fails(kept)
  <2>1. r = Redirect(Logged(fs, 1), NoFd, FALSE)
    BY <1>9 DEF Redirected, kept, t
  <2>2. r.fs = Logged(fs, 1) /\ r.flagged = FALSE
    BY <2>1 DEF Redirect
  <2>3. Grew(fs, Logged(fs, 1), p, NoFd)
    BY <1>1, <1>2, GrewByCall
  <2>4. r.fs \in FileSystem /\ Sole(r.fs, p, NoFd)
    BY <2>2, <2>3, GrewIsSole
  <2> QED
    BY <2>2, <2>4 DEF p
<1>10. CASE ~Fails(kept) /\ Fails(o)
  <2>1. r = Redirect(Logged(o.fs, 1), kept.ret, FALSE)
    BY <1>6, <1>10 DEF Redirected, kept, p, t
  <2>2. r.fs = Logged(o.fs, 1) /\ r.flagged = FALSE
    BY <2>1 DEF Redirect
  <2>3. Grew(o.fs, o.fs, p, NoFd)
    BY <1>1, <1>7, <1>10, GrewItself
  <2>4. Grew(o.fs, Logged(o.fs, 1), p, NoFd)
    BY <1>1, <1>7, <2>3, GrewByCall
  <2>5. r.fs \in FileSystem /\ Sole(r.fs, p, NoFd)
    BY <2>2, <2>4, GrewIsSole
  <2> QED
    BY <2>2, <2>5 DEF p
<1>11. CASE ~Fails(kept) /\ ~Fails(o)
  <2>1. r = Redirect(Close(Dup3(o.fs, o.ret, t).fs, o.ret).fs, kept.ret, TRUE)
    BY <1>6, <1>11 DEF Redirected, Switched, kept, p, t
  <2>2. r.fs = Close(Dup3(o.fs, o.ret, t).fs, o.ret).fs /\ r.flagged = TRUE
    BY <2>1 DEF Redirect
  <2>3. Holding(o.fs, p, o.ret, <<>>)
    BY <1>7, <1>11 DEF Holding
  <2>4. Holding(r.fs, p, t, <<>>)
    BY <1>1, <1>7, <1>8, <1>11, <2>2, <2>3, SwitchedHolds
  <2> QED
    BY <2>2, <2>4 DEF p, t
<1> QED
  BY <1>9, <1>10, <1>11

\* What restore_stream makes of the descriptors.
LEMMA RestoreStreamIs ==
  ASSUME RedirectInv, NEW s \in StdStream, flag[s], backup[s] # NoFd,
         NEW h, h = RestoreStream(s)
  PROVE  /\ h \in FileSystem /\ h.dir = fs.dir
         /\ Seen(h, Target[s]) = {On(Console[s], "w")} /\ Seen(h, backup[s]) = {}
         /\ \A k \in Fd \ {Target[s], backup[s]} : Seen(h, k) = Seen(fs, k)
<1> DEFINE t == Target[s]
           b == backup[s]
           g == Dup3(fs, b, t).fs
<1>1. t \in Fd /\ t \in 0..2 /\ fs \in FileSystem
  BY Targets DEF RedirectInv, RedirectTypeOK
<1>2. b \in Fd \ 0..2 /\ Seen(fs, b) = {On(Console[s], "w")}
  BY DEF RedirectInv, StreamsOK, StreamOK
<1>3. b \in Fd /\ b # t /\ Seen(fs, b) # {} /\ h = Close(g, b).fs
  BY <1>1, <1>2 DEF RestoreStream
<1> HIDE DEF t, b
<1>4. /\ g \in FileSystem /\ g.dir = fs.dir /\ Seen(g, t) = Seen(fs, b)
      /\ \A k \in Fd \ {t} : Seen(g, k) = Seen(fs, k)
  BY <1>1, <1>3, Dup3Seen
<1> HIDE DEF g
<1>5. /\ h \in FileSystem /\ h.dir = g.dir /\ Seen(h, b) = {}
      /\ \A k \in Fd \ {b} : Seen(h, k) = Seen(g, k)
  BY <1>3, <1>4, CloseSeen
<1>6. Seen(h, t) = {On(Console[s], "w")}
  BY <1>1, <1>2, <1>3, <1>4, <1>5
<1>7. \A k \in Fd \ {t, b} : Seen(h, k) = Seen(fs, k)
  BY <1>4, <1>5
<1> QED
  BY <1>4, <1>5, <1>6, <1>7 DEF t, b

\* A log that is read back comes back whole.
LEMMA RestoredHolds ==
  ASSUME RedirectInv, NEW s \in StdStream, flag[s], backup[s] # NoFd,
         Sole(fs, LogName[s], Target[s]), NodesNeverRunOut, NEW r, r = Restored(s),
         NEW c, c = fs.data[fs.dir[LogName[s]]]
  PROVE  /\ r.flagged = FALSE /\ r.text = IF Len(c) <= BufferLines THEN c ELSE <<>>
         /\ r.fs \in FileSystem /\ Sole(r.fs, LogName[s], NoFd)
<1> DEFINE t == Target[s]
           p == LogName[s]
           b == backup[s]
           g == Dup3(fs, b, t).fs
           h == RestoreStream(s)
<1>1. t \in Fd /\ t \in 0..2 /\ fs \in FileSystem /\ p \in Path /\ NoFd \in Writer /\ ~(t >= MaxOpenFds)
  BY Targets, FSAssumption DEF RedirectInv, RedirectTypeOK, Writer
<1>2. b \in Fd \ {t} /\ b # NoFd /\ Seen(fs, b) # {}
  BY <1>1 DEF RedirectInv, StreamsOK, StreamOK
<1>3. IsOpen(fs, b)
  BY <1>2 DEF Seen, IsOpen
<1>4. h = Close(g, b).fs
  BY DEF RestoreStream
<1>5. h \in FileSystem /\ h.dir = fs.dir /\ Seen(h, b) = {}
  BY RestoreStreamIs
<1>6. Sole(fs, p, t) /\ c = fs.data[fs.dir[p]]
  OBVIOUS
<1> HIDE DEF t, p, b, h
<1>7. fs.dir[p] # NoNode /\ c \in Texts
  BY <1>1, <1>6, WriterLeads
<1>8. Kept(fs, g, p, NoFd)
  BY <1>1, <1>2, <1>3, <1>6, KeptByDup3OverWriter
<1> HIDE DEF g
<1>9. Kept(g, h, p, NoFd)
  <2>1. g \in FileSystem /\ Sole(g, p, NoFd)
    BY <1>8 DEF Kept
  <2> QED
    BY <1>1, <1>2, <1>4, <2>1, KeptByClose
<1>10. Kept(fs, h, p, NoFd)
  BY <1>8, <1>9, KeptIsTransitive
<1>11. Holding(h, p, NoFd, c) /\ h.dir[p] # NoNode
  BY <1>6, <1>7, <1>10 DEF Holding, Kept
<1>12. FreeFds(h) # {}
  <2>1. b \in FreeFds(h)
    BY <1>2, <1>5 DEF FreeFds, OpenFds, Seen
  <2> QED
    BY <2>1
<1>13. PICK k : k = ReadToHeap(h, p)
  OBVIOUS
<1>14. /\ k.text = IF Len(c) <= BufferLines THEN c ELSE <<>>
       /\ k.fs \in FileSystem /\ Sole(k.fs, p, NoFd)
  BY <1>1, <1>7, <1>11, <1>12, <1>13, ReadToHeapReads
<1>15. r = [fs |-> k.fs, text |-> k.text, flagged |-> FALSE]
  BY <1>13 DEF Restored, h, p
<1>16. r.fs = k.fs /\ r.text = k.text /\ r.flagged = FALSE
  BY <1>15
<1> QED
  BY <1>14, <1>16 DEF p

\* The stream s is not about the file.
LEMMA RestoredGrew ==
  ASSUME RedirectInv, NEW s \in StdStream, NEW p \in Path \ {LogName[s]},
         NEW w \in Writer \ {Target[s]}, w \in {NoFd} \cup 0..2, Sole(fs, p, w), NodesNeverRunOut
  PROVE  Grew(fs, Restored(s).fs, p, w)
<1> DEFINE t == Target[s]
           b == backup[s]
           g == Dup3(fs, b, t).fs
           h == RestoreStream(s)
           r == Restored(s)
<1>1. fs \in FileSystem /\ t \in Fd \ {w} /\ LogName[s] \in Path \ {p}
  BY Targets DEF RedirectInv, RedirectTypeOK
<1>2. Grew(fs, fs, p, w)
  BY <1>1, GrewItself
<1>3. CASE ~(flag[s] /\ backup[s] # NoFd)
  <2>1. r = [fs |-> Logged(fs, 1), text |-> Lost, flagged |-> flag[s]]
    BY <1>3, Zenon DEF Restored
  <2>2. Grew(fs, Logged(fs, 1), p, w)
    BY <1>1, <1>2, GrewByCall
  <2> HIDE DEF r
  <2>3. Grew(fs, r.fs, p, w)
    BY <2>1, <2>2
  <2> QED
    BY <2>3 DEF r
<1>4. CASE flag[s] /\ backup[s] # NoFd
  <2>1. b \in Fd \ 0..2
    BY <1>4 DEF RedirectInv, StreamsOK, StreamOK
  <2>2. b \in Fd \ {w}
    BY <2>1, NoFdIsNone
  <2>3. h = Close(g, b).fs
    BY DEF RestoreStream
  <2> HIDE DEF b, t
  <2>4. Grew(fs, g, p, w)
    BY <1>1, <1>2, <2>2, GrewByCall
  <2> HIDE DEF g
  <2>5. Grew(fs, h, p, w)
    <3>1. Grew(fs, Close(g, b).fs, p, w)
      BY <1>1, <2>2, <2>4, GrewByCall
    <3> HIDE DEF h
    <3> QED
      BY <2>3, <3>1
  <2>6. r = [fs |-> ReadToHeap(h, LogName[s]).fs, text |-> ReadToHeap(h, LogName[s]).text, flagged |-> FALSE]
    BY <1>4 DEF Restored
  <2> HIDE DEF h
  <2>7. h \in FileSystem /\ Sole(h, p, w)
    BY <2>5, GrewIsSole
  <2>8. Grew(h, ReadToHeap(h, LogName[s]).fs, p, w)
    BY <1>1, <2>7, ReadToHeapGrew
  <2> HIDE DEF r
  <2>9. Grew(fs, r.fs, p, w)
    BY <1>1, <2>5, <2>6, <2>8, GrewIsTransitive
  <2> QED
    BY <2>9 DEF r
<1> QED
  BY <1>3, <1>4

-----------------------------------------------------------------------------
(***************************************************************************)
(* The files of the simulator, whoever prints and whatever is opened.      *)
(***************************************************************************)

\* The log of s has the descriptor of s for its only writer while s is redirected, and
\* nobody leads to it while s is not.
LogOK(f, s, flagged) == Sole(f, LogName[s], IF flagged THEN Target[s] ELSE NoFd)

\* What the last assembly may have left in program.mmo.
Made(last) == {<<last.src>>} \cup (IF last.whole THEN {} ELSE {<<>>})

ProgramOK(f, last) == \E c \in Made(last) : Holding(f, "mmo", NoFd, c)

FilesOK(f, flags, last) ==
  /\ \A s \in StdStream : LogOK(f, s, flags[s])
  /\ ProgramOK(f, last)

FilesInv == RedirectInv /\ FilesOK(fs, flag, latest)

LEMMA ProgramGrew ==
  ASSUME NEW f, NEW h, NEW last, ProgramOK(f, last), Sole(f, "mmo", NoFd) => Grew(f, h, "mmo", NoFd)
  PROVE  ProgramOK(h, last)
<1>1. PICK c \in Made(last) : Holding(f, "mmo", NoFd, c)
  BY DEF ProgramOK
<1>2. Sole(f, "mmo", NoFd)
  BY <1>1 DEF Holding
<1>3. Holding(h, "mmo", NoFd, c)
  BY <1>1, <1>2, HoldingGrew
<1> QED
  BY <1>3 DEF ProgramOK

\* What is printed to a stream, and a step of StreamPromise, in terms of values.
Printed(f, s, flagged) == IF flagged THEN f.data[f.stream[Target[s]].node] ELSE <<>>

PromiseStep(cap, printed, txt, ncap, nprinted, ntxt) ==
  \/ ~cap /\ ncap /\ nprinted = <<>> /\ ntxt = txt
  \/ cap /\ ncap = cap /\ Grown(printed, nprinted) /\ ntxt \in {txt, Lost}
  \/ cap /\ ~ncap /\ nprinted = <<>> /\ ntxt = (IF Len(printed) <= BufferLines THEN printed ELSE <<>>)
  \/ ncap = cap /\ nprinted = printed /\ ntxt \in {txt, Lost}

KeepsPromise(s) ==
  PromiseStep(flag[s], Printed(fs, s, flag[s]), text[s], flag'[s], Printed(fs', s, flag'[s]), text'[s])

\* What a call does not do to the files in P.
Quiet(f, h, P) == \A p \in P, w \in {NoFd} \cup 0..2 : Sole(f, p, w) => Grew(f, h, p, w)

Private == {"mmo"} \cup Logs

LEMMA WritersAre ==
  /\ {NoFd} \cup 0..2 \subseteq Writer /\ Private \subseteq Path /\ Private \subseteq Name
  /\ Logs \subseteq Private /\ "mmo" \in Private
  /\ \A s \in StdStream : LogName[s] \in Private /\ LogName[s] # "mmo" /\ Target[s] \in {1, 2}
BY StandardFds, Targets, PathNames DEF Writer, Private, Logs, LogName, StdStream

LEMMA QuietItself ==
  ASSUME NEW f \in FileSystem, NEW P \in SUBSET Private
  PROVE  Quiet(f, f, P)
BY GrewItself, WritersAre DEF Quiet

LEMMA QuietIsTransitive ==
  ASSUME NEW f \in FileSystem, NEW g, NEW h, NEW P \in SUBSET Private, Quiet(f, g, P), Quiet(g, h, P)
  PROVE  Quiet(f, h, P)
<1>1. ASSUME NEW p \in P, NEW w \in {NoFd} \cup 0..2, Sole(f, p, w) PROVE Grew(f, h, p, w)
  <2>1. Grew(f, g, p, w)
    BY <1>1 DEF Quiet
  <2>2. Sole(g, p, w)
    BY <2>1 DEF Grew
  <2>3. Grew(g, h, p, w)
    BY <1>1, <2>2 DEF Quiet
  <2>4. p \in Path
    BY WritersAre
  <2> QED
    BY <2>1, <2>3, <2>4, GrewIsTransitive
<1> QED
  BY <1>1 DEF Quiet

LEMMA QuietFewer ==
  ASSUME NEW f, NEW h, NEW P, NEW Q, Quiet(f, h, P), Q \subseteq P
  PROVE  Quiet(f, h, Q)
BY DEF Quiet

\* The calls of a program, on its own descriptors.
LEMMA QuietByCall ==
  ASSUME NEW f \in FileSystem, NEW P \in SUBSET Private, NodesNeverRunOut
  PROVE  /\ \A fd \in Fd, lines \in Seq(Line) : Quiet(f, Write(f, fd, lines).fs, P)
         /\ \A fd \in Fd : Quiet(f, Read(f, fd).fs, P)
         /\ \A fd \in Fd \ 0..2 : Quiet(f, Close(f, fd).fs, P) /\ Quiet(f, Seek(f, fd, 0).fs, P)
         /\ \A path \in Path \ P, mode \in Mode : Quiet(f, Open(f, path, mode).fs, P)
         /\ \A path \in Path \ P : Quiet(f, Unlink(f, path).fs, P)
         /\ \A n \in Nat : Quiet(f, Logged(f, n), P)
<1>1. ASSUME NEW p \in P, NEW w \in {NoFd} \cup 0..2, Sole(f, p, w)
      PROVE  /\ \A fd \in Fd, lines \in Seq(Line) : Grew(f, Write(f, fd, lines).fs, p, w)
             /\ \A fd \in Fd : Grew(f, Read(f, fd).fs, p, w)
             /\ \A fd \in Fd \ 0..2 : Grew(f, Close(f, fd).fs, p, w) /\ Grew(f, Seek(f, fd, 0).fs, p, w)
             /\ \A path \in Path \ P, mode \in Mode : Grew(f, Open(f, path, mode).fs, p, w)
             /\ \A path \in Path \ P : Grew(f, Unlink(f, path).fs, p, w)
             /\ \A n \in Nat : Grew(f, Logged(f, n), p, w)
  <2>1. w \in Writer /\ p \in Path
    BY WritersAre
  <2>2. Grew(f, f, p, w)
    BY <1>1, <2>1, GrewItself
  <2>3. \A fd \in Fd \ 0..2 : fd \in Fd \ {w}
    BY NoFdIsNone
  <2>4. \A path \in Path \ P : path \in Path \ {p} /\ path \in Name \ {p}
    BY PathNames
  <2> QED
    BY <2>1, <2>2, <2>3, <2>4, GrewByCall
<1> QED
  BY <1>1 DEF Quiet

\* A step that changes neither the flags nor the program keeps what is said of the files,
\* and the promise.
LEMMA QuietStep ==
  ASSUME FilesInv, Quiet(fs, fs', Private), flag' = flag, latest' = latest
  PROVE  FilesOK(fs', flag', latest')
<1>1. ASSUME NEW s \in StdStream PROVE LogOK(fs', s, flag[s])
  <2> DEFINE w == IF flag[s] THEN Target[s] ELSE NoFd
  <2>1. w \in {NoFd} \cup 0..2 /\ LogName[s] \in Private /\ Sole(fs, LogName[s], w)
    BY WritersAre DEF FilesInv, FilesOK, LogOK
  <2>2. Sole(fs', LogName[s], w)
    BY <2>1 DEF Quiet, Grew
  <2> QED
    BY <2>2 DEF LogOK
<1>2. ProgramOK(fs', latest)
  <2>1. ProgramOK(fs, latest)
    BY DEF FilesInv, FilesOK
  <2>2. Sole(fs, "mmo", NoFd) => Grew(fs, fs', "mmo", NoFd)
    BY WritersAre DEF Quiet
  <2> QED
    BY <2>1, <2>2, ProgramGrew
<1> QED
  BY <1>1, <1>2 DEF FilesOK

LEMMA QuietPromise ==
  ASSUME FilesInv, NEW s \in StdStream, NEW P, LogName[s] \in P, Quiet(fs, fs', P),
         flag'[s] = flag[s], text'[s] \in {text[s], Lost}
  PROVE  KeepsPromise(s)
<1> DEFINE p == LogName[s]
           t == Target[s]
<1>1. fs \in FileSystem /\ p \in Path /\ t \in 0..2 /\ t \in Fd
  BY Targets DEF FilesInv, RedirectInv, RedirectTypeOK
<1>2. CASE flag[s]
  <2>1. Sole(fs, p, t)
    BY <1>2 DEF FilesInv, FilesOK, LogOK
  <2> HIDE DEF p, t
  <2>2. Grew(fs, fs', p, t)
    BY <1>1, <2>1 DEF Quiet, p
  <2>3. fs' \in FileSystem /\ Sole(fs', p, t)
    BY <2>2, GrewIsSole
  <2>4. AtEnd(fs, p, t) /\ AtEnd(fs', p, t) /\ fs.dir[p] # NoNode
    BY <1>1, <2>1, <2>3, WriterLeads
  <2>5. fs'.dir[p] = fs.dir[p] /\ Grown(fs.data[fs.dir[p]], fs'.data[fs.dir[p]])
    BY <2>2, <2>4 DEF Grew
  <2>6. /\ Printed(fs, s, flag[s]) = fs.data[fs.dir[p]]
        /\ Printed(fs', s, flag'[s]) = fs'.data[fs.dir[p]]
    BY <1>2, <2>4, <2>5 DEF Printed, AtEnd, t
  <2> QED
    BY <1>2, <2>5, <2>6 DEF KeepsPromise, PromiseStep
<1>3. CASE ~flag[s]
  <2>1. Printed(fs, s, flag[s]) = <<>> /\ Printed(fs', s, flag'[s]) = <<>>
    BY <1>3 DEF Printed
  <2> QED
    BY <2>1 DEF KeepsPromise, PromiseStep
<1> QED
  BY <1>2, <1>3

-----------------------------------------------------------------------------
(* redirect_stream and restore_and_read, of the files.                     *)

LEMMA RedirectStreamFiles ==
  ASSUME FilesInv, NEW s \in StdStream, RedirectStream(s), NodesNeverRunOut
  PROVE  FilesOK(fs', flag', latest') /\ \A u \in StdStream : KeepsPromise(u)
<1> DEFINE r == Redirected(s)
<1>1. /\ fs' = r.fs /\ flag' = [flag EXCEPT ![s] = r.flagged]
      /\ latest' = latest /\ text' = text
  BY Zenon DEF RedirectStream
<1>2. /\ RedirectInv /\ fs \in FileSystem /\ flag \in [StdStream -> BOOLEAN] /\ FilesOK(fs, flag, latest)
  BY DEF FilesInv, RedirectInv, RedirectTypeOK
<1>3. CASE flag[s]
  <2>1. r = Redirect(Logged(fs, 1), NoFd, TRUE)
    BY <1>3, Zenon DEF Redirected
  <2>2. r.fs = Logged(fs, 1) /\ r.flagged = TRUE
    BY <2>1 DEF Redirect
  <2> HIDE DEF r
  <2>3. flag' = flag
    BY <1>1, <1>2, <1>3, <2>2
  <2>4. Quiet(fs, fs', Private)
    BY <1>1, <1>2, <2>2, QuietByCall
  <2>5. FilesOK(fs', flag', latest')
    BY <1>1, <2>3, <2>4, QuietStep
  <2>6. ASSUME NEW u \in StdStream PROVE KeepsPromise(u)
    BY <1>1, <2>3, <2>4, WritersAre, QuietPromise
  <2> QED
    BY <2>5, <2>6
<1>4. CASE ~flag[s]
  <2>1. Quiet(fs, fs', Private \ {LogName[s]})
    <3>1. ASSUME NEW p \in Private \ {LogName[s]}, NEW w \in {NoFd} \cup 0..2, Sole(fs, p, w), w # Target[s]
          PROVE  Grew(fs, r.fs, p, w)
      BY <1>2, <3>1, WritersAre, RedirectedGrew
    <3>2. ASSUME NEW p \in Private \ {LogName[s]}, NEW w \in {NoFd} \cup 0..2, Sole(fs, p, w), w = Target[s]
          PROVE  FALSE
      <4>1. fs.stream[Target[s]].node = fs.dir[p]
        BY <3>2, WritersAre, NoFdIsNone, StandardFds, Targets DEF Sole, AtEnd
      <4>2. fs.stream[Target[s]].node = Console[s]
        BY <1>2, <1>4, FlagIsTrue
      <4>3. fs.dir[p] \in Node \cup {NoNode}
        BY <1>2, WritersAre, FieldTypes
      <4> QED
        BY <4>1, <4>2, <4>3, Targets, FSAssumption
    <3> HIDE DEF r
    <3> QED
      BY <1>1, <3>1, <3>2 DEF Quiet
  <2>2. Sole(fs, LogName[s], NoFd)
    BY <1>2, <1>4 DEF FilesOK, LogOK
  <2>3. PICK o : o = r
    OBVIOUS
  <2>4. /\ o.flagged => Holding(o.fs, LogName[s], Target[s], <<>>)
        /\ ~o.flagged => o.fs \in FileSystem /\ Sole(o.fs, LogName[s], NoFd)
    BY <1>2, <1>4, <2>2, <2>3, RedirectedHolds
  <2>5. o.flagged \in BOOLEAN
    BY <1>2, <2>3, RedirectedKeeps
  <2> HIDE DEF r
  <2>6. fs' = o.fs /\ flag'[s] = o.flagged /\ \A u \in StdStream \ {s} : flag'[u] = flag[u]
    BY <1>1, <1>2, <2>3
  <2>7. LogOK(fs', s, flag'[s])
    BY <2>4, <2>6 DEF LogOK, Holding
  <2>8. ASSUME NEW u \in StdStream \ {s} PROVE LogOK(fs', u, flag'[u]) /\ KeepsPromise(u)
    <3> DEFINE w == IF flag[u] THEN Target[u] ELSE NoFd
    <3>1. LogName[u] \in Private \ {LogName[s]} /\ w \in {NoFd} \cup 0..2
      BY WritersAre, Targets
    <3>2. Sole(fs, LogName[u], w)
      BY <1>2 DEF FilesOK, LogOK
    <3>3. Sole(fs', LogName[u], w)
      BY <2>1, <3>1, <3>2 DEF Quiet, Grew
    <3>4. LogOK(fs', u, flag'[u])
      BY <2>6, <3>3 DEF LogOK
    <3>5. KeepsPromise(u)
      BY <1>1, <2>1, <2>6, <3>1, QuietPromise
    <3> QED
      BY <3>4, <3>5
  <2>9. ProgramOK(fs', latest')
    <3>1. ProgramOK(fs, latest) /\ "mmo" \in Private \ {LogName[s]}
      BY <1>2, WritersAre DEF FilesOK
    <3>2. Sole(fs, "mmo", NoFd) => Grew(fs, fs', "mmo", NoFd)
      BY <2>1, <3>1 DEF Quiet
    <3> QED
      BY <1>1, <3>1, <3>2, ProgramGrew
  <2>10. KeepsPromise(s)
    <3>1. Printed(fs, s, flag[s]) = <<>> /\ Printed(fs', s, flag'[s]) = <<>>
      <4>1. CASE flag'[s]
        <5>1. fs' \in FileSystem /\ Sole(fs', LogName[s], Target[s])
          BY <2>4, <2>6, <4>1 DEF Holding
        <5>2. LogName[s] \in Path /\ Target[s] \in Fd
          BY Targets
        <5>3. AtEnd(fs', LogName[s], Target[s]) /\ fs'.dir[LogName[s]] # NoNode
          BY <5>1, <5>2, WriterLeads
        <5>4. fs'.data[fs'.stream[Target[s]].node] = <<>>
          BY <2>4, <2>6, <4>1, <5>3 DEF Holding, AtEnd
        <5> QED
          BY <1>4, <4>1, <5>4 DEF Printed
      <4>2. CASE ~flag'[s]
        BY <1>4, <4>2 DEF Printed
      <4> QED
        BY <4>1, <4>2
    <3>2. flag'[s] \in BOOLEAN /\ flag[s] \in BOOLEAN
      BY <1>2, <2>5, <2>6
    <3>3. CASE flag'[s]
      BY <1>1, <1>4, <3>1, <3>3 DEF KeepsPromise, PromiseStep
    <3>4. CASE ~flag'[s]
      BY <1>1, <1>4, <3>1, <3>2, <3>4 DEF KeepsPromise, PromiseStep
    <3> QED
      BY <3>3, <3>4
  <2>11. \A u \in StdStream : LogOK(fs', u, flag'[u])
    BY <2>7, <2>8
  <2> QED
    BY <2>8, <2>9, <2>10, <2>11 DEF FilesOK
<1> QED
  BY <1>3, <1>4

\* A restoration, after which a last line may be logged.
LEMMA RestoredFiles ==
  ASSUME FilesInv, NEW s \in StdStream, NEW r, r = Restored(s), NodesNeverRunOut,
         fs' \in {r.fs, Logged(r.fs, 1)}, flag' = [flag EXCEPT ![s] = r.flagged],
         text' = [text EXCEPT ![s] = r.text], latest' = latest
  PROVE  FilesOK(fs', flag', latest') /\ \A u \in StdStream : KeepsPromise(u)
<1>1. /\ RedirectInv /\ fs \in FileSystem /\ FilesOK(fs, flag, latest)
      /\ flag \in [StdStream -> BOOLEAN] /\ text \in [StdStream -> Texts \cup {Lost}]
  BY DEF FilesInv, RedirectInv, RedirectTypeOK, Texts
<1>2. /\ flag'[s] = r.flagged /\ text'[s] = r.text
      /\ \A u \in StdStream \ {s} : flag'[u] = flag[u] /\ text'[u] = text[u]
  BY <1>1
<1>3. r.fs \in FileSystem
  <2>1. PICK o : o = Restored(s)
    OBVIOUS
  <2>2. o.fs \in FileSystem
    BY <1>1, <2>1, RestoredKeeps
  <2> QED
    BY <2>1, <2>2
<1>4. Quiet(r.fs, fs', Private)
  BY <1>3, QuietItself, QuietByCall
<1>5. CASE ~(flag[s] /\ backup[s] # NoFd)
  <2>1. r = [fs |-> Logged(fs, 1), text |-> Lost, flagged |-> flag[s]]
    BY <1>5, Zenon DEF Restored
  <2>2. r.fs = Logged(fs, 1) /\ r.text = Lost /\ r.flagged = flag[s]
    BY <2>1
  <2>3. Quiet(fs, r.fs, Private)
    BY <1>1, <2>2, QuietByCall
  <2>4. Quiet(fs, fs', Private)
    BY <1>1, <1>4, <2>3, QuietIsTransitive
  <2>5. flag' = flag /\ \A u \in StdStream : text'[u] \in {text[u], Lost}
    BY <1>1, <1>2, <2>2
  <2>6. FilesOK(fs', flag', latest')
    BY <2>4, <2>5, QuietStep
  <2>7. ASSUME NEW u \in StdStream PROVE KeepsPromise(u)
    BY <2>4, <2>5, WritersAre, QuietPromise
  <2> QED
    BY <2>6, <2>7
<1>6. CASE flag[s] /\ backup[s] # NoFd
  <2> DEFINE p == LogName[s]
             t == Target[s]
  <2>1. p \in Path /\ t \in Fd /\ Sole(fs, p, t) /\ p \in Private
    BY <1>1, <1>6, Targets, WritersAre DEF FilesOK, LogOK
  <2>2. PICK c : c = fs.data[fs.dir[p]]
    OBVIOUS
  <2>3. /\ r.flagged = FALSE /\ r.text = IF Len(c) <= BufferLines THEN c ELSE <<>>
        /\ Sole(r.fs, p, NoFd)
    <3>1. RedirectInv /\ flag[s] /\ backup[s] # NoFd /\ Sole(fs, LogName[s], Target[s])
      BY <1>1, <1>6, <2>1
    <3>2. c = fs.data[fs.dir[LogName[s]]]
      BY <2>2
    <3> HIDE DEF p, t
    <3>3. r.flagged = FALSE
      BY <3>1, <3>2, RestoredHolds
    <3>4. r.text = IF Len(c) <= BufferLines THEN c ELSE <<>>
      BY <3>1, <3>2, RestoredHolds
    <3>5. Sole(r.fs, LogName[s], NoFd)
      BY <3>1, <3>2, RestoredHolds
    <3> QED
      BY <3>3, <3>4, <3>5 DEF p
  <2>4. Printed(fs, s, flag[s]) = c
    <3>1. AtEnd(fs, p, t)
      BY <1>1, <2>1, WriterLeads
    <3> QED
      BY <1>6, <2>2, <3>1 DEF Printed, AtEnd
  <2>5. Printed(fs', s, flag'[s]) = <<>>
    BY <1>2, <2>3 DEF Printed
  <2>6. KeepsPromise(s)
    BY <1>2, <1>6, <2>3, <2>4, <2>5 DEF KeepsPromise, PromiseStep
  <2>7. LogOK(fs', s, flag'[s])
    <3>1. Sole(fs', p, NoFd)
      BY <1>4, <2>1, <2>3 DEF Quiet, Grew
    <3> QED
      BY <1>2, <2>3, <3>1 DEF LogOK
  <2>8. Quiet(fs, r.fs, Private \ {p})
    <3>1. ASSUME NEW q \in Private \ {p}, NEW w \in {NoFd} \cup 0..2, Sole(fs, q, w), w # t
          PROVE  Grew(fs, Restored(s).fs, q, w)
      BY <1>1, <3>1, WritersAre, RestoredGrew
    <3>2. ASSUME NEW q \in Private \ {p}, NEW w \in {NoFd} \cup 0..2, Sole(fs, q, w), w = t
          PROVE  FALSE
      <4>1. AtEnd(fs, p, t)
        BY <1>1, <2>1, WriterLeads
      <4>2. AtEnd(fs, q, t) /\ fs.dir[q] # NoNode
        BY <1>1, <2>1, <3>2, WritersAre, WriterLeads
      <4>3. fs.dir[q] = fs.dir[p]
        BY <4>1, <4>2 DEF AtEnd
      <4> QED
        BY <2>1, <3>2, <4>2, <4>3, WritersAre DEF Sole
    <3> QED
      BY <3>1, <3>2 DEF Quiet
  <2>9. Quiet(fs, fs', Private \ {p})
    <3>1. Private \ {p} \in SUBSET Private /\ Private \ {p} \subseteq Private
      OBVIOUS
    <3> HIDE DEF p, t
    <3>2. Quiet(r.fs, fs', Private \ {p})
      BY <1>4, <3>1, QuietFewer
    <3> QED
      BY <1>1, <2>8, <3>1, <3>2, QuietIsTransitive
  <2> HIDE DEF p, t
  <2>10. ASSUME NEW u \in StdStream \ {s} PROVE LogOK(fs', u, flag'[u]) /\ KeepsPromise(u)
    <3> DEFINE w == IF flag[u] THEN Target[u] ELSE NoFd
    <3>1. LogName[u] \in Private \ {p} /\ w \in {NoFd} \cup 0..2
      BY WritersAre, Targets DEF p
    <3>2. Sole(fs, LogName[u], w)
      BY <1>1 DEF FilesOK, LogOK
    <3>3. Sole(fs', LogName[u], w)
      BY <2>9, <3>1, <3>2 DEF Quiet, Grew
    <3>4. LogOK(fs', u, flag'[u])
      BY <1>2, <3>3 DEF LogOK
    <3>5. KeepsPromise(u)
      BY <1>2, <2>9, <3>1, QuietPromise
    <3> QED
      BY <3>4, <3>5
  <2>11. ProgramOK(fs', latest')
    <3>1. ProgramOK(fs, latest) /\ "mmo" \in Private \ {p}
      BY <1>1, WritersAre DEF FilesOK, p
    <3>2. Sole(fs, "mmo", NoFd) => Grew(fs, fs', "mmo", NoFd)
      BY <2>9, <3>1 DEF Quiet
    <3> QED
      BY <3>1, <3>2, ProgramGrew
  <2>12. \A u \in StdStream : LogOK(fs', u, flag'[u])
    BY <2>7, <2>10
  <2> QED
    BY <2>6, <2>10, <2>11, <2>12 DEF FilesOK
<1> QED
  BY <1>5, <1>6

\* assemble_source: the logs are no business of it, and the program is.
LEMMA AssembleSourceFiles ==
  ASSUME FilesInv, NEW s \in Source, AssembleSource(s), NodesNeverRunOut
  PROVE  FilesOK(fs', flag', latest') /\ \A u \in StdStream : KeepsPromise(u)
<1> DEFINE clean == Unlink(fs, "mmo").fs
           mms == Written(clean, "mms", <<s>>)
           run == Mmixal(mms.fs, s)
           lst == IF run.ret = 0 THEN ReadToHeap(run.fs, "listing").fs ELSE run.fs
<1>1. fs \in FileSystem /\ <<s>> \in Seq(Line) /\ RedirectInv /\ FilesOK(fs, flag, latest)
  BY DEF FilesInv, RedirectInv, RedirectTypeOK
<1>2. /\ IF Fails(mms) THEN fs' = Logged(mms.fs, 3) ELSE fs' = Unlink(lst, "mms").fs
      /\ latest' = [src |-> s, whole |-> ~Fails(mms) /\ run.ret = 0]
      /\ flag' = flag /\ text' = text
  BY DEF AssembleSource
<1>3. /\ "mms" \in Path /\ "mmo" \in Path /\ "listing" \in Path
      /\ "mms" # "mmo" /\ "listing" # "mmo"
      /\ Logs \subseteq Path \ {"mms", "mmo", "listing"} /\ Logs \in SUBSET Private
      /\ {NoFd} \cup 0..2 \subseteq Writer /\ NoFd \in Writer
  BY PathNames, WritersAre DEF Logs
<1>4. clean \in FileSystem /\ Sole(clean, "mmo", NoFd) /\ clean.dir["mmo"] = NoNode
  <2>1. PICK h : h = clean
    OBVIOUS
  <2>2. h \in FileSystem /\ h.dir["mmo"] = NoNode /\ Sole(h, "mmo", NoFd)
    BY <1>1, <1>3, <2>1, UnlinkedIs
  <2> QED
    BY <2>1, <2>2
<1>5. Seen(clean, 2) # {}
  <2>1. Seen(fs, 2) # {} /\ 2 \in Fd
    BY <1>1, Targets DEF RedirectInv, StreamsOK, StreamOK
  <2>2. Keeps(fs, clean, Path \ {"mmo"})
    BY <1>1, <1>3, UnlinkSeen
  <2> QED
    BY <2>1, <2>2 DEF Keeps
<1>6. Quiet(fs, clean, Logs)
  BY <1>1, <1>3, QuietByCall
<1> HIDE DEF clean
<1>7. Keeps(clean, mms.fs, Path) /\ Grew(clean, mms.fs, "mmo", NoFd) /\ Quiet(clean, mms.fs, Logs)
  <2>1. ASSUME NEW p \in Path \ {"mms"}, NEW w \in Writer, Sole(clean, p, w)
        PROVE  Grew(clean, mms.fs, p, w)
    BY <1>1, <1>3, <1>4, <2>1, WrittenGrew
  <2>2. Keeps(clean, mms.fs, Path)
    BY <1>1, <1>3, <1>4, KeepsItself, WrittenKeeps
  <2> HIDE DEF mms
  <2> QED
    BY <1>3, <1>4, <2>1, <2>2 DEF Quiet
<1> HIDE DEF mms
<1>8. mms.fs \in FileSystem /\ Seen(mms.fs, 2) # {} /\ Quiet(fs, mms.fs, Logs)
  BY <1>1, <1>3, <1>5, <1>6, <1>7, StandardFds, QuietIsTransitive DEF Keeps
<1>9. Holding(mms.fs, "mmo", NoFd, <<>>) /\ mms.fs.dir["mmo"] = NoNode
  BY <1>4, <1>7 DEF Holding, Grew
<1>10. Quiet(mms.fs, run.fs, Logs)
  <2>1. ASSUME NEW p \in Logs, NEW w \in {NoFd} \cup 0..2, Sole(mms.fs, p, w)
        PROVE  Grew(mms.fs, run.fs, p, w)
    BY <1>3, <1>8, <2>1, MmixalGrew
  <2> QED
    BY <2>1 DEF Quiet
<1>11. \E c : Holding(run.fs, "mmo", NoFd, c) /\ (c = <<s>> \/ (run.ret # 0 /\ c = <<>>))
  <2>1. PICK o : o = run
    OBVIOUS
  <2>2. \/ Holding(o.fs, "mmo", NoFd, <<s>>)
        \/ o.ret # 0 /\ Holding(o.fs, "mmo", NoFd, <<>>)
    BY <1>8, <1>9, <2>1, MmixalHolds
  <2> QED
    BY <2>1, <2>2
<1>19. PICK c : Holding(run.fs, "mmo", NoFd, c) /\ (c = <<s>> \/ (run.ret # 0 /\ c = <<>>))
  BY <1>11
<1> HIDE DEF run
<1>12. run.fs \in FileSystem /\ Sole(run.fs, "mmo", NoFd)
  BY <1>19 DEF Holding
<1>13. ASSUME NEW p \in Path \ {"listing"}, NEW w \in Writer, Sole(run.fs, p, w)
       PROVE  Grew(run.fs, lst, p, w)
  <2>1. Grew(run.fs, ReadToHeap(run.fs, "listing").fs, p, w)
    BY <1>3, <1>12, <1>13, ReadToHeapGrew
  <2>2. Grew(run.fs, run.fs, p, w)
    BY <1>12, <1>13, GrewItself
  <2> QED
    BY <2>1, <2>2
<1> HIDE DEF lst
<1>14. Quiet(run.fs, lst, Logs) /\ Grew(run.fs, lst, "mmo", NoFd)
  BY <1>3, <1>12, <1>13 DEF Quiet
<1>15. lst \in FileSystem /\ Holding(lst, "mmo", NoFd, c)
  BY <1>14, <1>19, HoldingGrew DEF Grew
<1>16. Quiet(fs, lst, Logs)
  <2>1. Quiet(fs, run.fs, Logs)
    BY <1>1, <1>3, <1>8, <1>10, QuietIsTransitive
  <2> QED
    BY <1>1, <1>3, <1>14, <2>1, QuietIsTransitive
<1>17. CASE Fails(mms)
  <2>1. fs' = Logged(mms.fs, 3) /\ latest'.whole = FALSE
    BY <1>2, <1>17
  <2>2. Quiet(mms.fs, fs', Logs)
    BY <1>3, <1>8, <2>1, QuietByCall
  <2>3. Grew(mms.fs, mms.fs, "mmo", NoFd)
    BY <1>3, <1>8, <1>9, GrewItself DEF Holding
  <2>4. Grew(mms.fs, fs', "mmo", NoFd)
    BY <1>3, <1>8, <2>1, <2>3, GrewByCall
  <2>5. Holding(fs', "mmo", NoFd, <<>>)
    BY <1>9, <2>4, HoldingGrew
  <2>6. Quiet(fs, fs', Logs) /\ ProgramOK(fs', latest')
    BY <1>1, <1>3, <1>8, <2>1, <2>2, <2>5, QuietIsTransitive DEF ProgramOK, Made
  <2>7. ASSUME NEW u \in StdStream PROVE LogOK(fs', u, flag'[u]) /\ KeepsPromise(u)
    <3> DEFINE w == IF flag[u] THEN Target[u] ELSE NoFd
    <3>1. LogName[u] \in Logs /\ w \in {NoFd} \cup 0..2 /\ Sole(fs, LogName[u], w)
      BY <1>1, WritersAre, Targets DEF FilesOK, LogOK
    <3>2. Sole(fs', LogName[u], w)
      BY <2>6, <3>1 DEF Quiet, Grew
    <3>3. LogOK(fs', u, flag'[u])
      BY <1>2, <3>2 DEF LogOK
    <3>4. KeepsPromise(u)
      BY <1>2, <2>6, <3>1, QuietPromise
    <3> QED
      BY <3>3, <3>4
  <2> QED
    BY <2>6, <2>7 DEF FilesOK
<1>18. CASE ~Fails(mms)
  <2>1. fs' = Unlink(lst, "mms").fs /\ latest'.src = s /\ (latest'.whole => run.ret = 0)
    BY <1>2, <1>18
  <2>2. Quiet(lst, fs', Logs)
    BY <1>3, <1>15, <2>1, QuietByCall
  <2>3. Grew(lst, lst, "mmo", NoFd)
    BY <1>3, <1>15, GrewItself DEF Holding
  <2>4. Grew(lst, fs', "mmo", NoFd)
    BY <1>3, <1>15, <2>1, <2>3, GrewByCall
  <2>5. Holding(fs', "mmo", NoFd, c)
    BY <1>15, <2>4, HoldingGrew
  <2>6. Quiet(fs, fs', Logs)
    BY <1>1, <1>3, <1>16, <2>2, QuietIsTransitive
  <2>7. ProgramOK(fs', latest')
    <3>1. c \in Made(latest')
      BY <1>19, <2>1 DEF Made
    <3> QED
      BY <2>5, <3>1 DEF ProgramOK
  <2>8. ASSUME NEW u \in StdStream PROVE LogOK(fs', u, flag'[u]) /\ KeepsPromise(u)
    <3> DEFINE w == IF flag[u] THEN Target[u] ELSE NoFd
    <3>1. LogName[u] \in Logs /\ w \in {NoFd} \cup 0..2 /\ Sole(fs, LogName[u], w)
      BY <1>1, WritersAre, Targets DEF FilesOK, LogOK
    <3>2. Sole(fs', LogName[u], w)
      BY <2>6, <3>1 DEF Quiet, Grew
    <3>3. LogOK(fs', u, flag'[u])
      BY <1>2, <3>2 DEF LogOK
    <3>4. KeepsPromise(u)
      BY <1>2, <2>6, <3>1, QuietPromise
    <3> QED
      BY <3>3, <3>4
  <2> QED
    BY <2>7, <2>8 DEF FilesOK
<1> QED
  BY <1>17, <1>18

-----------------------------------------------------------------------------
(* Every step keeps the files.                                             *)

FilesStep == FilesOK(fs', flag', latest') /\ \A u \in StdStream : KeepsPromise(u)

\* A step that leaves the files, the flags and the texts alone.
LEMMA QuietFiles ==
  ASSUME FilesInv, Quiet(fs, fs', Private), flag' = flag, latest' = latest, text' = text
  PROVE  FilesStep
<1>1. FilesOK(fs', flag', latest')
  BY QuietStep
<1>2. ASSUME NEW u \in StdStream PROVE KeepsPromise(u)
  BY WritersAre, QuietPromise
<1> QED
  BY <1>1, <1>2 DEF FilesStep

LEMMA FclosedQuiet ==
  ASSUME FilesInv, NEW h \in Handle, NodesNeverRunOut
  PROVE  Fclosed(h) \in FileSystem /\ Quiet(fs, Fclosed(h), Private)
<1>1. RedirectInv /\ fs \in FileSystem /\ HandlesOK(fs, sfile)
  BY DEF FilesInv, RedirectInv, RedirectTypeOK
<1>2. CASE sfile[h].can = {} \/ Std(h)
  BY <1>1, <1>2, QuietItself DEF Fclosed
<1>3. CASE sfile[h].can # {} /\ ~Std(h)
  <2>1. Fclosed(h) = Close(fs, sfile[h].fd).fs
    BY <1>3 DEF Fclosed
  <2>2. OfItsOwn(fs, sfile[h])
    BY <1>1, <1>3 DEF HandlesOK, AsStarted, Std
  <2>3. sfile[h].fd \in Fd \ 0..2
    BY <2>2 DEF OfItsOwn
  <2> QED
    <3>1. Close(fs, sfile[h].fd).fs \in FileSystem
      BY <1>1, <2>3, CloseSeen
    <3>2. Private \in SUBSET Private
      OBVIOUS
    <3>3. Quiet(fs, Close(fs, sfile[h].fd).fs, Private)
      BY <1>1, <2>3, <3>2, QuietByCall
    <3> QED
      BY <2>1, <3>1, <3>3
<1>4. (sfile[h].can = {} \/ Std(h)) \/ (sfile[h].can # {} /\ ~Std(h))
  OBVIOUS
<1> QED
  BY <1>2, <1>3, <1>4, Zenon

\* The traps of a program: none is about a file of the simulator.
LEMMA ProgramFiles ==
  ASSUME FilesInv, ProgramStep, NodesNeverRunOut, ~meddled'
  PROVE  FilesStep
<1>1. /\ RedirectInv /\ fs \in FileSystem /\ HandlesOK(fs, sfile)
      /\ sfile \in [Handle -> FileInfo]
  BY DEF FilesInv, RedirectInv, RedirectTypeOK
<1>2. PICK h \in Handle :
        \/ \E name \in UserFile, mode \in Mode, binary \in BOOLEAN : Fopen(h, name, mode, binary)
        \/ Fclose(h)
        \/ \E lines \in Prints : Fputs(h, lines)
        \/ Fread(h)
        \/ Fseek(h)
  BY DEF ProgramStep
<1>3. Trap
  BY <1>2 DEF Fopen, Fclose, Fputs, Fread, Fseek
<1>4. flag' = flag /\ latest' = latest /\ text' = text
  BY <1>3 DEF Trap
<1>5. Fclosed(h) \in FileSystem /\ Quiet(fs, Fclosed(h), Private)
  BY FclosedQuiet
<1>6. CASE \E name \in UserFile, mode \in Mode, binary \in BOOLEAN : Fopen(h, name, mode, binary)
  <2>1. PICK name \in UserFile, mode \in Mode :
               fs' = Open(Fclosed(h), name, mode).fs /\ name \notin Own
    BY <1>6 DEF Fopen
  <2>2. name \in Path \ Private
    BY <2>1, PathNames DEF Own, Private, Logs
  <2>3. PICK f : f = Fclosed(h)
    OBVIOUS
  <2>4. Quiet(f, Open(f, name, mode).fs, Private)
    BY <1>5, <2>2, <2>3, QuietByCall
  <2>5. Quiet(fs, fs', Private)
    BY <1>1, <1>5, <2>1, <2>3, <2>4, QuietIsTransitive
  <2> QED
    BY <1>4, <2>5, QuietFiles
<1>7. CASE Fclose(h)
  <2>1. fs' = Fclosed(h)
    BY <1>7 DEF Fclose
  <2> QED
    BY <1>4, <1>5, <2>1, QuietFiles
<1>8. CASE \E lines \in Prints : Fputs(h, lines)
  <2>1. PICK lines \in Prints : "write" \in sfile[h].can /\ fs' = Write(fs, sfile[h].fd, lines).fs
    BY <1>8 DEF Fputs
  <2>2. sfile[h].fd \in Fd /\ lines \in Seq(Line)
    BY <1>1, <2>1, LiveFd
  <2> QED
    BY <1>1, <1>4, <2>1, <2>2, QuietByCall, QuietFiles
<1>9. CASE Fread(h)
  <2>1. "read" \in sfile[h].can /\ fs' = Read(fs, sfile[h].fd).fs
    BY <1>9 DEF Fread
  <2>2. sfile[h].fd \in Fd
    BY <1>1, <2>1, LiveFd
  <2> QED
    BY <1>1, <1>4, <2>1, <2>2, QuietByCall, QuietFiles
<1>10. CASE Fseek(h)
  <2>1. sfile[h].binary /\ fs' = Seek(fs, sfile[h].fd, 0).fs
    BY <1>10 DEF Fseek
  <2>2. OfItsOwn(fs, sfile[h])
    BY <1>1, <2>1 DEF HandlesOK, AsStarted
  <2>3. sfile[h].fd \in Fd \ 0..2
    BY <2>2 DEF OfItsOwn
  <2> QED
    BY <1>1, <1>4, <2>1, <2>3, QuietByCall, QuietFiles
<1> QED
  BY <1>2, <1>6, <1>7, <1>8, <1>9, <1>10

LEMMA NextKeepsFiles ==
  ASSUME FilesInv, [RedirectNext]_redirectVars, NodesNeverRunOut, ~meddled'
  PROVE  FilesStep
<1>1. fs \in FileSystem /\ RedirectInv
  BY DEF FilesInv, RedirectInv, RedirectTypeOK
<1>2. CASE AssembleMMIXAL \/ PerformInstructions
  <2>1. RedirectStream("err")
    BY <1>2 DEF AssembleMMIXAL, PerformInstructions, Begin
  <2> QED
    BY <2>1, Targets, RedirectStreamFiles DEF FilesStep
<1>3. CASE \E s \in Source : AssembleSource(s)
  BY <1>3, AssembleSourceFiles DEF FilesStep
<1>4. CASE RedirectOut
  <2>1. RedirectStream("out")
    BY <1>4 DEF RedirectOut
  <2> QED
    BY <2>1, Targets, RedirectStreamFiles DEF FilesStep
<1>5. CASE ProgramStep
  BY <1>5, ProgramFiles
<1>6. CASE RestoreOut
  <2>1. PICK r : r = Restored("out")
    OBVIOUS
  <2>2. /\ fs' = r.fs /\ flag' = [flag EXCEPT !["out"] = r.flagged]
        /\ text' = [text EXCEPT !["out"] = r.text] /\ latest' = latest
    BY <1>6, <2>1 DEF RestoreOut
  <2> QED
    BY <2>1, <2>2, Targets, RestoredFiles DEF FilesStep
<1>7. CASE RestoreErr
  <2>1. PICK r : r = Restored("err")
    OBVIOUS
  <2>2. /\ fs' \in {r.fs, Logged(r.fs, 1)} /\ flag' = [flag EXCEPT !["err"] = r.flagged]
        /\ text' = [text EXCEPT !["err"] = r.text] /\ latest' = latest
    BY <1>7, <2>1 DEF RestoreErr
  <2> QED
    BY <2>1, <2>2, Targets, RestoredFiles DEF FilesStep
<1>8. CASE Initialize \/ Refuses \/ Abort
  <2>1. /\ fs' = fs \/ fs' = Logged(fs, 1) \/ fs' = Logged(fs, 2)
        /\ flag' = flag /\ latest' = latest /\ text' = text
    <3>1. CASE Initialize
      BY <3>1 DEF Initialize
    <3>2. CASE Refuses
      BY <1>1, <3>2, RefusesIs DEF RedirectInv, RedirectTypeOK
    <3>3. CASE Abort
      BY <3>3 DEF Abort
    <3> QED
      BY <1>8, <3>1, <3>2, <3>3
  <2>2. Quiet(fs, fs', Private)
    BY <1>1, <2>1, QuietItself, QuietByCall
  <2> QED
    BY <2>1, <2>2, QuietFiles
<1> QED
  BY <1>2, <1>3, <1>4, <1>5, <1>6, <1>7, <1>8 DEF RedirectNext, Refuses

\* Who has meddled has meddled.
LEMMA MeddledStays ==
  ASSUME [RedirectNext]_redirectVars, meddled
  PROVE  meddled'
<1>1. CASE AssembleMMIXAL \/ PerformInstructions \/ RedirectOut
  BY <1>1 DEF AssembleMMIXAL, PerformInstructions, RedirectOut, Begin, RedirectStream
<1>2. CASE \E s \in Source : AssembleSource(s)
  BY <1>2 DEF AssembleSource
<1>3. CASE ProgramStep
  <2>1. PICK h \in Handle :
          \/ \E name \in UserFile, mode \in Mode, binary \in BOOLEAN : Fopen(h, name, mode, binary)
          \/ Fclose(h)
          \/ \E lines \in Prints : Fputs(h, lines)
          \/ Fread(h)
          \/ Fseek(h)
    BY <1>3 DEF ProgramStep
  <2>2. CASE \E name \in UserFile, mode \in Mode, binary \in BOOLEAN : Fopen(h, name, mode, binary)
    BY <2>2 DEF Fopen
  <2>3. CASE Fclose(h) \/ (\E lines \in Prints : Fputs(h, lines)) \/ Fread(h) \/ Fseek(h)
    BY <2>3 DEF Fclose, Fputs, Fread, Fseek
  <2> QED
    BY <2>1, <2>2, <2>3
<1>4. CASE RestoreOut \/ RestoreErr \/ Initialize \/ Abort
  BY <1>4 DEF RestoreOut, RestoreErr, Initialize, Abort
<1>5. CASE Finalize \/ PerformRefused \/ ExecuteRefused \/ UNCHANGED redirectVars
  BY <1>5 DEF Finalize, PerformRefused, ExecuteRefused, redirectVars
<1> QED
  BY <1>1, <1>2, <1>3, <1>4, <1>5 DEF RedirectNext

-----------------------------------------------------------------------------
(* At first there is no file.                                              *)

LEMMA NoFilesAtFirst ==
  ASSUME NodesNeverRunOut
  PROVE  StandardStreams \in FileSystem /\ \A p \in Path : StandardStreams.dir[p] = NoNode
<1>1. EmptyFS \in FileSystem /\ \A p \in Path : EmptyFS.dir[p] = NoNode
  BY DEF EmptyFS, FileSystem
<1>2. /\ "stdin" \in Name \ Path /\ "stdout" \in Name \ Path /\ "stderr" \in Name \ Path
      /\ "r" \in Mode /\ "w" \in Mode
  BY FSAssumption DEF Name, Link, Mode
<1>3. ASSUME NEW f \in FileSystem, \A p \in Path : f.dir[p] = NoNode,
             NEW link \in Name \ Path, NEW mode \in Mode
      PROVE  Open(f, link, mode).fs \in FileSystem /\ \A p \in Path : Open(f, link, mode).fs.dir[p] = NoNode
  BY <1>3, OpenSeen DEF Keeps
<1> DEFINE in == Open(EmptyFS, "stdin", "r").fs
           out == Open(in, "stdout", "w").fs
<1>4. in \in FileSystem /\ \A p \in Path : in.dir[p] = NoNode
  BY <1>1, <1>2, <1>3
<1>5. StandardStreams = Open(out, "stderr", "w").fs
  BY DEF StandardStreams
<1> HIDE DEF in
<1>6. out \in FileSystem /\ \A p \in Path : out.dir[p] = NoNode
  BY <1>2, <1>3, <1>4
<1> HIDE DEF out
<1> QED
  BY <1>2, <1>3, <1>5, <1>6

LEMMA InitHasFiles ==
  ASSUME RedirectInit, NodesNeverRunOut
  PROVE  FilesInv
<1>1. RedirectInv
  BY InitHasInv
<1>2. fs = StandardStreams /\ \A s \in StdStream : flag[s] = FALSE
  BY DEF RedirectInit
<1>3. fs \in FileSystem /\ \A p \in Path : fs.dir[p] = NoNode
  BY <1>2, NoFilesAtFirst
<1>4. \A p \in Path : Sole(fs, p, NoFd)
  BY <1>3, NoneIsSole
<1>5. ASSUME NEW s \in StdStream PROVE LogOK(fs, s, flag[s])
  BY <1>2, <1>4, WritersAre DEF LogOK
<1>6. ProgramOK(fs, latest)
  <2>1. Holding(fs, "mmo", NoFd, <<latest.src>>)
    BY <1>3, <1>4, WritersAre DEF Holding
  <2> QED
    BY <2>1 DEF ProgramOK, Made
<1> QED
  BY <1>1, <1>5, <1>6 DEF FilesInv, FilesOK

\* What is said of the files holds until a program opens one of them.
MeddledInv == RedirectInv /\ (~meddled => FilesInv)

LEMMA FilesAreInvariant ==
  ASSUME NodesNeverRunOut
  PROVE  RedirectSpec => []MeddledInv
<1>1. RedirectInit => MeddledInv
  BY InitHasInv, InitHasFiles DEF MeddledInv
<1>2. MeddledInv /\ [RedirectNext]_redirectVars => MeddledInv'
  <2>1. SUFFICES ASSUME MeddledInv, [RedirectNext]_redirectVars PROVE MeddledInv'
    OBVIOUS
  <2>2. RedirectInv'
    BY <2>1, NextKeepsInv DEF MeddledInv
  <2>3. ASSUME ~meddled' PROVE FilesInv'
    <3>1. FilesInv
      BY <2>1, <2>3, MeddledStays DEF MeddledInv
    <3>2. FilesOK(fs', flag', latest')
      BY <2>1, <2>3, <3>1, NextKeepsFiles DEF FilesStep
    <3> QED
      BY <2>2, <3>2 DEF FilesInv
  <2> QED
    BY <2>2, <2>3 DEF MeddledInv
<1> QED
  BY <1>1, <1>2, PTL DEF RedirectSpec

\* program.mmo, if it exists and no program has opened it, is of the source of the last
\* assembly: it has its object code, whole when that assembly has succeeded, and otherwise
\* perhaps nothing.  It is never of an earlier source, whatever was in the way.
THEOREM NoProgramIsStale ==
  ASSUME NodesNeverRunOut
  PROVE  RedirectSpec => []NoStaleProgram
<1>1. MeddledInv => NoStaleProgram
  <2>1. SUFFICES ASSUME FilesInv, Exists(fs, "mmo")
                 PROVE  \/ fs.data[fs.dir["mmo"]] = <<latest.src>>
                        \/ ~latest.whole /\ fs.data[fs.dir["mmo"]] = <<>>
    BY DEF NoStaleProgram, MeddledInv
  <2>2. fs.dir["mmo"] # NoNode
    BY <2>1, FSAssumption, WritersAre DEF Exists, Lookup
  <2>3. PICK c \in Made(latest) : Holding(fs, "mmo", NoFd, c)
    BY <2>1 DEF FilesInv, FilesOK, ProgramOK
  <2>4. fs.data[fs.dir["mmo"]] = c
    BY <2>2, <2>3 DEF Holding
  <2>5. c = <<latest.src>> \/ (~latest.whole /\ c = <<>>)
    BY <2>3 DEF Made
  <2> QED
    BY <2>4, <2>5
<1> QED
  BY <1>1, FilesAreInvariant, PTL

-----------------------------------------------------------------------------
(* The refinement.                                                         *)

\* What StreamPromise calls printed is what the invariant follows.
LEMMA PrintedIs ==
  \A s \in StdStream : PrintedTo(s) = Printed(fs, s, flag[s]) /\ PrintedTo(s)' = Printed(fs', s, flag'[s])
BY DEF PrintedTo, Printed

LEMMA OutStep ==
  ASSUME KeepsPromise("out"), meddled' = meddled
  PROVE  [OutPromise!PromiseNext]_(OutPromise!promiseVars)
<1> DEFINE cap == flag["out"]
           printed == PrintedTo("out")
           txt == text["out"]
<1>1. PromiseStep(cap, printed, txt, cap', printed', txt')
  BY PrintedIs, Targets DEF KeepsPromise
<1>2. CASE ~cap /\ cap' /\ printed' = <<>> /\ txt' = txt
  BY <1>2 DEF OutPromise!PromiseNext, OutPromise!Kept, OutPromise!Begin
<1>3. CASE cap /\ cap' = cap /\ Grown(printed, printed') /\ txt' \in {txt, Lost}
  BY <1>3 DEF OutPromise!PromiseNext, OutPromise!Kept, OutPromise!Emit, Grown
<1>4. CASE /\ cap /\ ~cap' /\ printed' = <<>>
           /\ txt' = (IF Len(printed) <= BufferLines THEN printed ELSE <<>>)
  BY <1>4 DEF OutPromise!PromiseNext, OutPromise!Kept, OutPromise!Deliver
<1>5. CASE cap' = cap /\ printed' = printed /\ txt' \in {txt, Lost}
  BY <1>5 DEF OutPromise!PromiseNext, OutPromise!Kept, OutPromise!Lose, OutPromise!promiseVars
<1> QED
  BY <1>1, <1>2, <1>3, <1>4, <1>5 DEF PromiseStep

LEMMA ErrStep ==
  ASSUME KeepsPromise("err"), meddled' = meddled
  PROVE  [ErrPromise!PromiseNext]_(ErrPromise!promiseVars)
<1> DEFINE cap == flag["err"]
           printed == PrintedTo("err")
           txt == text["err"]
<1>1. PromiseStep(cap, printed, txt, cap', printed', txt')
  BY PrintedIs, Targets DEF KeepsPromise
<1>2. CASE ~cap /\ cap' /\ printed' = <<>> /\ txt' = txt
  BY <1>2 DEF ErrPromise!PromiseNext, ErrPromise!Kept, ErrPromise!Begin
<1>3. CASE cap /\ cap' = cap /\ Grown(printed, printed') /\ txt' \in {txt, Lost}
  BY <1>3 DEF ErrPromise!PromiseNext, ErrPromise!Kept, ErrPromise!Emit, Grown
<1>4. CASE /\ cap /\ ~cap' /\ printed' = <<>>
           /\ txt' = (IF Len(printed) <= BufferLines THEN printed ELSE <<>>)
  BY <1>4 DEF ErrPromise!PromiseNext, ErrPromise!Kept, ErrPromise!Deliver
<1>5. CASE cap' = cap /\ printed' = printed /\ txt' \in {txt, Lost}
  BY <1>5 DEF ErrPromise!PromiseNext, ErrPromise!Kept, ErrPromise!Lose, ErrPromise!promiseVars
<1> QED
  BY <1>1, <1>2, <1>3, <1>4, <1>5 DEF PromiseStep

\* io_utils.c implements what StreamPromise says of a redirection, for both streams at
\* once: whatever system call fails and whatever the program opens, closes and prints
\* meanwhile, what is printed between redirect and restore comes back whole and in order,
\* or as Lost, or dropped because it does not fit.  That is so until a program opens a
\* file of the redirection or of the assembler, which nothing keeps it from.
THEOREM StreamsKeepThePromises ==
  ASSUME NodesNeverRunOut
  PROVE  RedirectSpec => KeepsThePromises
<1>1. RedirectInit => OutPromise!PromiseInit /\ ErrPromise!PromiseInit
  BY Targets DEF RedirectInit, OutPromise!PromiseInit, ErrPromise!PromiseInit, PrintedTo
<1>2. MeddledInv /\ MeddledInv' /\ [RedirectNext]_redirectVars =>
        /\ [OutPromise!PromiseNext]_(OutPromise!promiseVars)
        /\ [ErrPromise!PromiseNext]_(ErrPromise!promiseVars)
  <2>1. SUFFICES ASSUME MeddledInv, MeddledInv', [RedirectNext]_redirectVars
                 PROVE  /\ [OutPromise!PromiseNext]_(OutPromise!promiseVars)
                        /\ [ErrPromise!PromiseNext]_(ErrPromise!promiseVars)
    OBVIOUS
  <2>2. CASE meddled'
    BY <2>2 DEF OutPromise!PromiseNext, ErrPromise!PromiseNext
  <2>3. CASE ~meddled'
    <3>1. FilesInv /\ ~meddled
      BY <2>1, <2>3, MeddledStays DEF MeddledInv
    <3>2. meddled \in BOOLEAN /\ meddled' \in BOOLEAN
      BY <2>1 DEF MeddledInv, RedirectInv, RedirectTypeOK
    <3>3. meddled' = meddled
      BY <2>3, <3>1, <3>2
    <3>4. KeepsPromise("out") /\ KeepsPromise("err")
      BY <2>1, <2>3, <3>1, NextKeepsFiles, Targets DEF FilesStep
    <3> QED
      BY <3>3, <3>4, OutStep, ErrStep
  <2> QED
    BY <2>2, <2>3
<1>3. RedirectSpec => []MeddledInv
  BY FilesAreInvariant
<1> QED
  BY <1>1, <1>2, <1>3, PTL DEF RedirectSpec, KeepsThePromises, OutPromise!Promise, ErrPromise!Promise

-----------------------------------------------------------------------------
(***************************************************************************)
(* Which descriptors are open.  What a call has opened it closes, but for  *)
(* the descriptor that the redirection keeps.                              *)
(***************************************************************************)

\* The files that are none of the simulator's.
Foreign == Path \ Own

\* Nothing is opened and nothing is closed but the descriptors in S.
OnlyOn(f, h, S) ==
  /\ h \in FileSystem
  /\ \A k \in Fd \ S : Seen(h, k) = Seen(f, k)
  /\ \A p \in Foreign : f.dir[p] # NoNode => h.dir[p] = f.dir[p]

LEMMA OnlyItself ==
  ASSUME NEW f \in FileSystem
  PROVE  OnlyOn(f, f, {})
BY DEF OnlyOn

LEMMA OnlyTwice ==
  ASSUME NEW f, NEW g, NEW h, NEW S, NEW T, OnlyOn(f, g, S), OnlyOn(g, h, T)
  PROVE  OnlyOn(f, h, S \cup T)
BY DEF OnlyOn

LEMMA ThenSame ==
  ASSUME NEW f, NEW g, NEW h, NEW S, OnlyOn(f, g, S), Same(g, h)
  PROVE  OnlyOn(f, h, S)
BY DEF OnlyOn, Same

LEMMA ThenLogged ==
  ASSUME NEW f, NEW g, NEW S, OnlyOn(f, g, S), NEW n \in Nat
  PROVE  OnlyOn(f, Logged(g, n), S)
<1>1. g \in FileSystem
  BY DEF OnlyOn
<1> QED
  BY <1>1, LoggedIsSame, ThenSame

LEMMA ThenWritten ==
  ASSUME NEW f, NEW g, NEW S, OnlyOn(f, g, S), NEW fd \in Fd, NEW lines \in Seq(Line)
  PROVE  OnlyOn(f, Write(g, fd, lines).fs, S)
<1>1. g \in FileSystem
  BY DEF OnlyOn
<1> QED
  BY <1>1, WriteIsSame, ThenSame

LEMMA ThenComplained ==
  ASSUME NEW f, NEW g, NEW S, OnlyOn(f, g, S), NEW s \in Source
  PROVE  OnlyOn(f, Complain(g, s), S)
<1>1. <<s>> \in Seq(Line) /\ 2 \in Fd
  BY StandardFds, RedirectAssumption
<1> QED
  BY <1>1, ThenWritten DEF Complain

\* A descriptor is closed that f did not have open.
LEMMA ThenClosed ==
  ASSUME NEW f, NEW g, NEW S, OnlyOn(f, g, S), NEW fd \in Fd, Seen(f, fd) = {},
         NEW T, S \subseteq T \cup {fd}
  PROVE  OnlyOn(f, Close(g, fd).fs, T)
<1>1. g \in FileSystem
  BY DEF OnlyOn
<1>2. PICK h : h = Close(g, fd).fs
  OBVIOUS
<1>3. /\ h \in FileSystem /\ h.dir = g.dir /\ Seen(h, fd) = {}
      /\ \A k \in Fd \ {fd} : Seen(h, k) = Seen(g, k)
  BY <1>1, <1>2, CloseSeen
<1>4. \A k \in Fd \ T : Seen(h, k) = Seen(f, k)
  BY <1>3 DEF OnlyOn
<1>5. OnlyOn(f, h, T)
  BY <1>3, <1>4 DEF OnlyOn
<1> QED
  BY <1>2, <1>5

\* What was just opened.
New(r) == IF Fails(r) THEN {} ELSE {r.ret}

LEMMA ThenOpened ==
  ASSUME NEW f, NEW g, NEW S, OnlyOn(f, g, S), NEW path \in Path, NEW mode \in Mode, NodesNeverRunOut,
         NEW r, r = Open(g, path, mode), NEW T, S \cup New(r) \subseteq T
  PROVE  OnlyOn(f, r.fs, T)
<1>1. g \in FileSystem /\ path \in Name
  BY PathNames DEF OnlyOn
<1>2. Keeps(g, r.fs, Path)
  BY <1>1, OpenSeen
<1>3. \A k \in Fd \ New(r) : Seen(r.fs, k) = Seen(g, k)
  <2>1. CASE Fails(r)
    BY <1>1, <2>1, OpenSeen
  <2>2. CASE ~Fails(r)
    <3>1. \A k \in Fd \ {r.ret} : Seen(r.fs, k) = Seen(g, k)
      BY <1>1, <2>2, OpenSeen
    <3> QED
      BY <2>2, <3>1 DEF New
  <2> QED
    BY <2>1, <2>2
<1> QED
  BY <1>2, <1>3 DEF OnlyOn, Keeps, Foreign

LEMMA ThenUnlinked ==
  ASSUME NEW f, NEW g, NEW S, OnlyOn(f, g, S), NEW path \in Path \ Foreign
  PROVE  OnlyOn(f, Unlink(g, path).fs, S)
<1>1. g \in FileSystem
  BY DEF OnlyOn
<1>2. CASE ~Exists(g, path)
  BY <1>2 DEF Unlink, Result
<1>3. CASE Exists(g, path)
  <2>1. PICK h : h = [g EXCEPT !.dir[path] = NoNode]
    OBVIOUS
  <2>2. [g.dir EXCEPT ![path] = NoNode] \in [Path -> Node \cup {NoNode}]
    BY <1>1, FieldTypes
  <2>3. h = [g EXCEPT !.dir = [g.dir EXCEPT ![path] = NoNode]]
    BY <1>1, <2>1 DEF FileSystem
  <2>4. /\ h \in FileSystem /\ h.stream = g.stream
        /\ \A p \in Path \ {path} : h.dir[p] = g.dir[p]
    BY <1>1, <2>2, <2>3, FieldTypes DEF FileSystem
  <2>5. Unlink(g, path).fs = Collected(h)
    BY <1>3, <2>1 DEF Unlink, Result
  <2>6. OnlyOn(f, h, S)
    BY <2>4 DEF OnlyOn, Seen, Foreign
  <2>7. Same(h, Collected(h))
    BY <2>4, CollectedIsSame
  <2> QED
    BY <2>5, <2>6, <2>7, ThenSame
<1> QED
  BY <1>2, <1>3

-----------------------------------------------------------------------------
(* The functions of glue.c and io_utils.c, of the descriptors.             *)

LEMMA ReadToHeapCloses ==
  ASSUME NEW f \in FileSystem, NEW name \in Path \ Foreign, NodesNeverRunOut
  PROVE  OnlyOn(f, ReadToHeap(f, name).fs, {})
<1> DEFINE file == Open(f, name, "r")
           rest == Rest(file.fs, file.ret)
           fits == Len(rest) <= BufferLines
           read == IF fits THEN Read(file.fs, file.ret).fs ELSE Logged(file.fs, 1)
           gone == Unlink(f, name)
<1>1. OnlyOn(f, f, {}) /\ "r" \in Mode /\ name \in Path
  BY OnlyItself DEF Mode
<1>2. OnlyOn(f, file.fs, New(file))
  <2>1. PICK r : r = file
    OBVIOUS
  <2>2. {} \cup New(r) \subseteq New(r)
    OBVIOUS
  <2> HIDE DEF rest, fits, read, gone
  <2>3. OnlyOn(f, r.fs, New(r))
    BY <1>1, <2>1, <2>2, ThenOpened
  <2> QED
    BY <2>1, <2>3
<1>3. ~Fails(file) => file.ret \in Fd /\ Seen(f, file.ret) = {}
  BY <1>1, KeepsItself, OpenKeeps
<1> HIDE DEF file
<1>4. CASE Fails(file)
  <2>1. ReadToHeap(f, name).fs = Logged(gone.fs, 3)
    BY <1>4 DEF ReadToHeap, file
  <2>2. OnlyOn(f, gone.fs, {})
    BY <1>1, ThenUnlinked
  <2> QED
    BY <2>1, <2>2, ThenLogged
<1>5. CASE ~Fails(file)
  <2>1. ReadToHeap(f, name).fs = Unlink(Close(read, file.ret).fs, name).fs
    BY <1>5 DEF ReadToHeap, file
  <2>2. file.fs \in FileSystem
    BY <1>2 DEF OnlyOn
  <2>3. Same(file.fs, read)
    BY <1>3, <1>5, <2>2, ReadIsSame, LoggedIsSame
  <2> HIDE DEF read
  <2>4. OnlyOn(f, read, {file.ret})
    BY <1>2, <1>5, <2>3, ThenSame DEF New
  <2>5. OnlyOn(f, Close(read, file.ret).fs, {})
    BY <1>3, <1>5, <2>4, ThenClosed
  <2> QED
    BY <2>1, <2>5, ThenUnlinked
<1> QED
  BY <1>4, <1>5

LEMMA WrittenCloses ==
  ASSUME NEW f \in FileSystem, NEW name \in Path, NEW content \in Seq(Line), NodesNeverRunOut
  PROVE  OnlyOn(f, Written(f, name, content).fs, {})
<1> DEFINE file == Open(f, name, "w")
<1>1. OnlyOn(f, f, {}) /\ "w" \in Mode
  BY OnlyItself DEF Mode
<1>2. OnlyOn(f, file.fs, New(file))
  <2>1. PICK r : r = file
    OBVIOUS
  <2>2. {} \cup New(r) \subseteq New(r)
    OBVIOUS
  <2>3. OnlyOn(f, r.fs, New(r))
    BY <1>1, <2>1, <2>2, ThenOpened
  <2> QED
    BY <2>1, <2>3
<1>3. ~Fails(file) => file.ret \in Fd /\ Seen(f, file.ret) = {}
  BY <1>1, KeepsItself, OpenKeeps
<1> HIDE DEF file
<1>4. CASE Fails(file)
  BY <1>2, <1>4 DEF Written, file, New
<1>5. CASE ~Fails(file)
  <2>1. OnlyOn(f, Write(file.fs, file.ret, content).fs, {file.ret})
    BY <1>2, <1>3, <1>5, ThenWritten DEF New
  <2>2. OnlyOn(f, Close(Write(file.fs, file.ret, content).fs, file.ret).fs, {})
    BY <1>3, <1>5, <2>1, ThenClosed
  <2> QED
    BY <1>5, <2>2 DEF Written, file, Result
<1> QED
  BY <1>4, <1>5

LEMMA MmixalCloses ==
  ASSUME NEW f \in FileSystem, NEW s \in Source, NodesNeverRunOut
  PROVE  OnlyOn(f, Mmixal(f, s).fs, {})
<1> DEFINE src == Open(f, "mms", "r")
           obj == Open(src.fs, "mmo", "w")
           lst == Open(obj.fs, "listing", "w")
           code == Write(Write(lst.fs, obj.ret, <<s>>).fs, lst.ret, <<s>>).fs
           out == IF s \in Faulty THEN Complain(code, s) ELSE code
<1>1. OnlyOn(f, f, {}) /\ Keeps(f, f, Path) /\ "r" \in Mode /\ "w" \in Mode /\ <<s>> \in Seq(Line)
  BY OnlyItself, KeepsItself DEF Mode
<1>2. /\ Keeps(f, src.fs, Path) /\ (~Fails(src) => src.ret \in Fd /\ Seen(f, src.ret) = {})
      /\ OnlyOn(f, src.fs, New(src))
  BY <1>1, PathNames, OpenKeeps, ThenOpened
<1> HIDE DEF src
<1>3. /\ Keeps(f, obj.fs, Path) /\ (~Fails(obj) => obj.ret \in Fd /\ Seen(f, obj.ret) = {})
      /\ OnlyOn(f, obj.fs, New(src) \cup New(obj))
  BY <1>1, <1>2, PathNames, OpenKeeps, ThenOpened
<1> HIDE DEF obj
<1>4. /\ Keeps(f, lst.fs, Path) /\ (~Fails(lst) => lst.ret \in Fd /\ Seen(f, lst.ret) = {})
      /\ OnlyOn(f, lst.fs, New(src) \cup New(obj) \cup New(lst))
  BY <1>1, <1>3, PathNames, OpenKeeps, ThenOpened
<1> HIDE DEF lst
<1>5. CASE Fails(src)
  <2>1. OnlyOn(f, Complain(f, s), {})
    BY <1>1, ThenComplained
  <2> QED
    BY <1>5, <2>1 DEF Mmixal, src, Result
<1>6. CASE ~Fails(src) /\ Fails(obj)
  <2>1. OnlyOn(f, Close(obj.fs, src.ret).fs, {})
    BY <1>2, <1>3, <1>6, ThenClosed DEF New
  <2>2. OnlyOn(f, Complain(Close(obj.fs, src.ret).fs, s), {})
    BY <2>1, ThenComplained
  <2> QED
    BY <1>6, <2>2 DEF Mmixal, src, obj, Result
<1>7. CASE ~Fails(src) /\ ~Fails(obj) /\ Fails(lst)
  <2>1. OnlyOn(f, Close(lst.fs, obj.ret).fs, {src.ret})
    BY <1>3, <1>4, <1>7, ThenClosed DEF New
  <2>2. OnlyOn(f, Close(Close(lst.fs, obj.ret).fs, src.ret).fs, {})
    BY <1>2, <1>7, <2>1, ThenClosed
  <2>3. OnlyOn(f, Complain(Close(Close(lst.fs, obj.ret).fs, src.ret).fs, s), {})
    BY <2>2, ThenComplained
  <2> QED
    BY <1>7, <2>3 DEF Mmixal, src, obj, lst, Result
<1>8. CASE ~Fails(src) /\ ~Fails(obj) /\ ~Fails(lst)
  <2> DEFINE S == {src.ret, obj.ret, lst.ret}
  <2>1. OnlyOn(f, lst.fs, S)
    BY <1>4, <1>8 DEF New
  <2>2. OnlyOn(f, Write(lst.fs, obj.ret, <<s>>).fs, S)
    BY <1>1, <1>3, <1>8, <2>1, ThenWritten
  <2>3. OnlyOn(f, code, S)
    BY <1>1, <1>4, <1>8, <2>2, ThenWritten
  <2> HIDE DEF code
  <2>4. OnlyOn(f, Complain(code, s), S)
    BY <2>3, ThenComplained
  <2>5. OnlyOn(f, out, S)
    BY <2>3, <2>4
  <2> HIDE DEF out
  <2>6. OnlyOn(f, Close(out, lst.ret).fs, {src.ret, obj.ret})
    BY <1>4, <1>8, <2>5, ThenClosed
  <2>7. OnlyOn(f, Close(Close(out, lst.ret).fs, obj.ret).fs, {src.ret})
    <3>1. obj.ret \in Fd /\ Seen(f, obj.ret) = {}
      BY <1>3, <1>8
    <3>2. OnlyOn(f, Close(out, lst.ret).fs, {src.ret} \cup {obj.ret})
      <4>1. {src.ret, obj.ret} = {src.ret} \cup {obj.ret}
        OBVIOUS
      <4> QED
        BY <2>6, <4>1
    <3> QED
      BY <3>1, <3>2, ThenClosed
  <2>8. OnlyOn(f, Close(Close(Close(out, lst.ret).fs, obj.ret).fs, src.ret).fs, {})
    BY <1>2, <1>8, <2>7, ThenClosed
  <2> QED
    BY <1>8, <2>8 DEF Mmixal, src, obj, lst, code, out, Result
<1> QED
  BY <1>5, <1>6, <1>7, <1>8

\* dup and the open of a log fail for want of a descriptor only.
LEMMA DupIs ==
  ASSUME NEW f \in FileSystem, NEW fd \in Fd, Seen(f, fd) # {}, NEW r, r = Dup(f, fd)
  PROVE  /\ OnlyOn(f, r.fs, New(r)) /\ r.fs.dir = f.dir
         /\ Fails(r) <=> FreeFds(f) = {}
         /\ ~Fails(r) => r.ret \in FreeFds(f)
<1>1. IsOpen(f, fd)
  BY DEF Seen, IsOpen
<1>2. CASE FreeFds(f) = {}
  <2>1. r.fs = f /\ Fails(r)
    BY <1>1, <1>2 DEF Dup, Result, Fails, EMFILE
  <2> QED
    BY <1>2, <2>1, OnlyItself DEF New
<1>3. CASE FreeFds(f) # {}
  <2>1. PICK k : k = NextFd(f)
    OBVIOUS
  <2>2. PICK g : g = SetStream(f, k, f.stream[fd])
    OBVIOUS
  <2>3. r = Result(g, k)
    BY <1>1, <1>3, <2>1, <2>2 DEF Dup, DupStream
  <2>4. r.fs = g /\ r.ret = k
    BY <2>3 DEF Result
  <2>5. k \in Fd /\ Seen(f, k) = {}
    BY <1>3, <2>1, NextFdIsFree
  <2>6. k \in FreeFds(f)
    BY <2>5 DEF FreeFds, OpenFds, Seen
  <2>7. ~Fails(r)
    BY <2>4, <2>5, StandardFds DEF Fails
  <2>8. f.stream[fd] \in Stream \cup {Closed}
    BY StreamTypes
  <2>9. g \in FileSystem /\ g.dir = f.dir /\ \A j \in Fd \ {k} : Seen(g, j) = Seen(f, j)
    BY <2>2, <2>5, <2>8, SetStreamSeen
  <2>10. OnlyOn(f, g, {k})
    BY <2>9 DEF OnlyOn
  <2> QED
    BY <1>3, <2>4, <2>6, <2>7, <2>9, <2>10 DEF New
<1> QED
  BY <1>2, <1>3

LEMMA OpenForWritingFails ==
  ASSUME NEW f \in FileSystem, NEW path \in Path, NEW r, r = Open(f, path, "w"), FreeFds(f) # {}
  PROVE  ~Fails(r)
<1>1. r.ret = NextFd(f)
  BY DEF Open, Result
<1>2. NextFd(f) \in Nat
  BY NextFdIsFree, StandardFds
<1> QED
  BY <1>1, <1>2 DEF Fails

LEMMA FreeIs ==
  ASSUME NEW f
  PROVE  /\ FreeFds(f) = {k \in Fd : Seen(f, k) = {}}
         /\ IsFiniteSet(FreeFds(f)) /\ Free(f) \in Nat
<1>1. FreeFds(f) = {k \in Fd : Seen(f, k) = {}}
  BY DEF FreeFds, OpenFds, Seen
<1>2. IsFiniteSet(Fd)
  <2>1. 0 \in Int /\ MaxOpenFds \in Int
    BY FSAssumption
  <2> QED
    BY <2>1, FS_Interval DEF Fd
<1>3. IsFiniteSet(FreeFds(f))
  BY <1>1, <1>2, FS_Subset
<1> QED
  BY <1>1, <1>3, FS_CardinalityType DEF Free

LEMMA MoreThanOne ==
  ASSUME NEW S, IsFiniteSet(S), Cardinality(S) > 1, NEW x
  PROVE  \E k \in S : k # x
<1>1. SUFFICES ASSUME \A k \in S : k = x PROVE FALSE
  OBVIOUS
<1>2. S = {} \/ S = {x}
  BY <1>1
<1>3. Cardinality(S) \in {0, 1}
  <2>1. CASE S = {}
    <3>1. Cardinality(S) = 0
      BY <2>1, FS_EmptySet, Zenon
    <3> QED
      BY <3>1
  <2>2. CASE S = {x}
    <3>1. Cardinality(S) = 1
      BY <2>2, FS_Singleton, Zenon
    <3> QED
      BY <3>1
  <2> QED
    BY <1>2, <2>1, <2>2
<1> QED
  BY <1>3

\* One descriptor is taken.
LEMMA OneIsTaken ==
  ASSUME NEW f, NEW h, NEW t, NEW b \in Fd, OnlyOn(f, h, {t, b}),
         Seen(f, t) # {}, Seen(h, t) # {}, Seen(f, b) = {}, Seen(h, b) # {}
  PROVE  Free(h) = Free(f) - 1
<1>1. FreeFds(h) = FreeFds(f) \ {b} /\ b \in FreeFds(f)
  BY FreeIs DEF OnlyOn
<1> QED
  BY ZenonT(30), <1>1, FreeIs, FS_RemoveElement DEF Free

LEMMA OneIsGivenBack ==
  ASSUME NEW f, NEW h, NEW t, NEW b \in Fd, OnlyOn(f, h, {t, b}),
         Seen(f, t) # {}, Seen(h, t) # {}, Seen(f, b) # {}, Seen(h, b) = {}
  PROVE  Free(h) = Free(f) + 1
<1>1. FreeFds(h) = FreeFds(f) \cup {b} /\ b \notin FreeFds(f)
  BY FreeIs DEF OnlyOn
<1> QED
  BY <1>1, FreeIs, FS_AddElement DEF Free

\* What redirect_stream does to the descriptors when it works, and that it works when
\* there are two.
LEMMA RedirectedTakes ==
  ASSUME RedirectInv, NEW s \in StdStream, ~flag[s], NEW r, r = Redirected(s), NodesNeverRunOut
  PROVE  /\ r.flagged => /\ r.backup \in Fd \ 0..2
                         /\ OnlyOn(fs, r.fs, {Target[s], r.backup})
                         /\ Seen(fs, r.backup) = {} /\ Seen(r.fs, r.backup) # {}
                         /\ Seen(fs, Target[s]) # {} /\ Seen(r.fs, Target[s]) # {}
         /\ Free(fs) > 1 => r.flagged
<1> DEFINE t == Target[s]
           kept == Dup(fs, t)
           log == Open(kept.fs, LogName[s], "w")
<1>1. t \in Fd /\ t \in 0..2 /\ LogName[s] \in Path /\ "w" \in Mode /\ fs \in FileSystem
  BY Targets DEF Mode, RedirectInv, RedirectTypeOK
<1>2. \A k \in 0..2 : Seen(fs, k) # {}
  <2>1. Seen(fs, 0) # {} /\ \A u \in StdStream : Seen(fs, Target[u]) # {}
    BY DEF RedirectInv, StreamsOK, StreamOK
  <2> QED
    BY <2>1, Targets
<1>3. /\ OnlyOn(fs, kept.fs, New(kept))
      /\ Fails(kept) <=> FreeFds(fs) = {}
      /\ ~Fails(kept) => kept.ret \in FreeFds(fs)
  <2>1. PICK o : o = kept
    OBVIOUS
  <2>2. /\ OnlyOn(fs, o.fs, New(o))
        /\ Fails(o) <=> FreeFds(fs) = {}
        /\ ~Fails(o) => o.ret \in FreeFds(fs)
    BY <1>1, <1>2, <2>1, DupIs
  <2> QED
    BY <2>1, <2>2
<1>4. ~Fails(kept) => /\ kept.ret \in Fd \ 0..2 /\ Seen(fs, kept.ret) = {}
                      /\ Seen(kept.fs, kept.ret) # {}
  <2>1. PICK o : o = kept
    OBVIOUS
  <2>2. Seen(fs, t) # {}
    BY <1>1, <1>2
  <2>3. ~Fails(o) => o.ret \in Fd /\ Seen(fs, o.ret) = {} /\ Seen(o.fs, o.ret) = Seen(fs, t)
    BY <1>1, <2>1, DupSeen
  <2> HIDE DEF kept
  <2>4. ~Fails(kept) => kept.ret \in Fd /\ Seen(fs, kept.ret) = {} /\ Seen(kept.fs, kept.ret) # {}
    BY <2>1, <2>2, <2>3
  <2> QED
    BY <1>2, <2>4
<1> HIDE DEF kept
<1>5. kept.fs \in FileSystem
  BY <1>3 DEF OnlyOn
<1>6. /\ OnlyOn(fs, log.fs, New(kept) \cup New(log))
      /\ Keeps(kept.fs, log.fs, Path)
      /\ ~Fails(log) => /\ log.ret \in Fd /\ Seen(kept.fs, log.ret) = {} /\ Seen(log.fs, log.ret) # {}
  <2>1. PICK o : o = log
    OBVIOUS
  <2>2. PICK f : f = kept.fs
    OBVIOUS
  <2>3. OnlyOn(fs, o.fs, New(kept) \cup New(o))
    BY <1>1, <1>3, <2>1, ThenOpened
  <2>4. LogName[s] \in Name
    BY <1>1, PathNames
  <2>5. /\ Keeps(f, o.fs, Path)
        /\ ~Fails(o) => o.ret \in Fd /\ Seen(f, o.ret) = {}
    BY <1>1, <1>5, <2>1, <2>2, <2>4, OpenSeen
  <2>6. ASSUME ~Fails(o) PROVE Seen(o.fs, o.ret) # {}
    <3>1. PICK path \in Name : path = LogName[s]
      BY <2>4
    <3>2. PICK n : n = Lookup(o.fs, path)
      OBVIOUS
    <3>3. f \in FileSystem /\ o = Open(f, path, "w")
      BY <1>5, <2>1, <2>2, <3>1
    <3>4. "w" \in Mode /\ ~Fails(o)
      BY <2>6 DEF Mode
    <3>5. Seen(o.fs, o.ret) = {On(n, "w")}
      BY <3>2, <3>3, <3>4, OpenLeads
    <3> QED
      BY <3>5
  <2> QED
    BY <2>1, <2>2, <2>3, <2>5, <2>6
<1>7. Free(fs) > 1 => ~Fails(kept) /\ ~Fails(log)
  <2>1. SUFFICES ASSUME Free(fs) > 1 PROVE ~Fails(kept) /\ ~Fails(log)
    OBVIOUS
  <2>2. \A x : \E k \in FreeFds(fs) : k # x
    <3>1. IsFiniteSet(FreeFds(fs)) /\ Cardinality(FreeFds(fs)) > 1
      BY <1>1, <2>1, FreeIs DEF Free
    <3> QED
      BY <3>1, MoreThanOne
  <2>3. ~Fails(kept)
    BY <1>3, <2>2
  <2>5. PICK k \in FreeFds(fs) : k # kept.ret
    BY <2>2
  <2>6. k \in FreeFds(kept.fs)
    <3>1. Seen(kept.fs, k) = Seen(fs, k) /\ k \in Fd /\ Seen(fs, k) = {}
      BY <1>3, <2>3, <2>5, FreeIs DEF OnlyOn, New
    <3> QED
      BY <3>1, FreeIs
  <2>7. ~Fails(log)
    BY <1>1, <1>5, <2>6, OpenForWritingFails
  <2> QED
    BY <2>3, <2>7
<1>8. CASE Fails(kept)
  <2>1. r = Redirect(Logged(fs, 1), NoFd, FALSE)
    BY <1>8 DEF Redirected, kept
  <2> QED
    BY <1>7, <1>8, <2>1 DEF Redirect
<1>9. CASE ~Fails(kept) /\ Fails(log)
  <2>1. r = Redirect(Logged(log.fs, 1), kept.ret, FALSE)
    BY <1>9 DEF Redirected, kept, log
  <2> QED
    BY <1>7, <1>9, <2>1 DEF Redirect
<1>10. CASE ~Fails(kept) /\ ~Fails(log)
  <2> DEFINE b == kept.ret
             l == log.ret
             g == Dup3(log.fs, l, t).fs
             h == Close(g, l).fs
  <2>1. r = Redirect(h, b, TRUE)
    BY <1>10 DEF Redirected, Switched, kept, log
  <2>2. b \in Fd \ 0..2 /\ Seen(fs, b) = {} /\ Seen(log.fs, b) # {}
    BY <1>4, <1>6, <1>10 DEF Keeps
  <2>3. Seen(kept.fs, b) # {} /\ \A k \in 0..2 : Seen(kept.fs, k) # {}
    BY <1>2, <1>3, <1>4, <1>10, StandardFds DEF OnlyOn, New
  <2>4. l \in Fd \ 0..2 /\ l # b /\ Seen(log.fs, l) # {} /\ Seen(fs, l) = {}
    <3>1. l \in Fd \ 0..2 /\ l # b /\ Seen(log.fs, l) # {} /\ Seen(kept.fs, l) = {}
      BY <1>6, <1>10, <2>3
    <3>2. Seen(fs, l) = Seen(kept.fs, l)
      BY <1>3, <1>10, <3>1 DEF OnlyOn, New
    <3> QED
      BY <3>1, <3>2
  <2>5. log.fs \in FileSystem /\ OnlyOn(fs, log.fs, {b, l})
    BY <1>6, <1>10 DEF OnlyOn, New
  <2> HIDE DEF log, b, l, t
  <2>6. l \in Fd /\ t \in 0..2 /\ l # t
    BY <1>1, <2>4
  <2>7. /\ g \in FileSystem /\ g.dir = log.fs.dir
        /\ Seen(g, t) = Seen(log.fs, l)
        /\ \A k \in Fd \ {t} : Seen(g, k) = Seen(log.fs, k)
    BY <2>4, <2>5, <2>6, Dup3Seen
  <2> HIDE DEF g
  <2>8. OnlyOn(fs, g, {t, b, l})
    BY <2>5, <2>7 DEF OnlyOn
  <2>9. OnlyOn(fs, h, {t, b})
    BY <2>4, <2>8, ThenClosed
  <2>10. \A k \in Fd \ {l} : Seen(h, k) = Seen(g, k)
    BY <2>4, <2>7, CloseSeen
  <2> HIDE DEF h
  <2>11. Seen(h, b) # {} /\ Seen(h, t) # {} /\ Seen(fs, t) # {}
    BY <1>1, <1>2, <2>2, <2>4, <2>6, <2>7, <2>10
  <2>12. r.fs = h /\ r.backup = b /\ r.flagged = TRUE
    BY <2>1 DEF Redirect
  <2> QED
    BY <2>2, <2>9, <2>11, <2>12 DEF t
<1> QED
  BY <1>8, <1>9, <1>10

LEMMA RestoredGivesBack ==
  ASSUME RedirectInv, NEW s \in StdStream, flag[s], backup[s] # NoFd, NEW r, r = Restored(s),
         NodesNeverRunOut
  PROVE  /\ backup[s] \in Fd \ 0..2
         /\ OnlyOn(fs, r.fs, {Target[s], backup[s]})
         /\ Seen(fs, backup[s]) # {} /\ Seen(r.fs, backup[s]) = {}
         /\ Seen(fs, Target[s]) # {} /\ Seen(r.fs, Target[s]) # {}
<1> DEFINE t == Target[s]
           b == backup[s]
<1>1. PICK h : h = RestoreStream(s)
  OBVIOUS
<1>2. r.fs = ReadToHeap(h, LogName[s]).fs
  BY <1>1 DEF Restored
<1>3. /\ h \in FileSystem /\ h.dir = fs.dir
      /\ Seen(h, t) = {On(Console[s], "w")} /\ Seen(h, b) = {}
      /\ \A k \in Fd \ {t, b} : Seen(h, k) = Seen(fs, k)
  BY SMTT(30), <1>1, RestoreStreamIs
<1>4. /\ t \in Fd /\ LogName[s] \in Path \ Foreign
      /\ b \in Fd \ 0..2 /\ Seen(fs, b) # {} /\ Seen(fs, t) # {}
  <2>1. StreamOK(fs, s, flag[s], backup[s])
    BY DEF RedirectInv, StreamsOK
  <2>2. LogName[s] \in Path \ Foreign /\ t \in Fd
    BY Targets DEF Foreign, Own, Logs
  <2> QED
    BY <2>1, <2>2 DEF StreamOK
<1> HIDE DEF t, b
<1>5. OnlyOn(h, r.fs, {})
  BY <1>2, <1>3, <1>4, ReadToHeapCloses
<1>6. OnlyOn(fs, h, {t, b})
  BY <1>3 DEF OnlyOn
<1>7. OnlyOn(fs, r.fs, {t, b})
  BY <1>5, <1>6 DEF OnlyOn
<1>8. Seen(r.fs, b) = {} /\ Seen(r.fs, t) # {}
  BY SMTT(30), <1>3, <1>4, <1>5 DEF OnlyOn
<1> QED
  BY <1>4, <1>7, <1>8 DEF t, b

-----------------------------------------------------------------------------
(* A redirection takes one descriptor.                                     *)

LEMMA RedirectStreamFree ==
  ASSUME RedirectInv, NEW s \in StdStream, RedirectStream(s), NodesNeverRunOut
  PROVE  /\ \A u \in StdStream : /\ ~flag[u] /\ flag'[u] => Free(fs') = Free(fs) - 1
                                 /\ flag[u] => flag'[u]
         /\ ~flag[s] /\ Free(fs) > 1 => flag'[s]
<1>1. PICK r : r = Redirected(s)
  OBVIOUS
<1>2. fs' = r.fs /\ flag' = [flag EXCEPT ![s] = r.flagged] /\ flag \in [StdStream -> BOOLEAN]
  BY <1>1, Zenon DEF RedirectStream, RedirectInv, RedirectTypeOK
<1>3. flag'[s] = r.flagged /\ \A u \in StdStream \ {s} : flag'[u] = flag[u]
  BY <1>2
<1>4. \A u \in StdStream : flag[u] => flag'[u]
  BY RedirectStreamStep
<1>5. ASSUME ~flag[s], r.flagged PROVE Free(fs') = Free(fs) - 1
  <2>1. /\ r.backup \in Fd /\ OnlyOn(fs, r.fs, {Target[s], r.backup})
        /\ Seen(fs, r.backup) = {} /\ Seen(r.fs, r.backup) # {}
        /\ Seen(fs, Target[s]) # {} /\ Seen(r.fs, Target[s]) # {}
    BY <1>1, <1>5, RedirectedTakes
  <2> QED
    BY <1>2, <2>1, OneIsTaken
<1>6. ~flag[s] /\ Free(fs) > 1 => r.flagged
  BY <1>1, RedirectedTakes
<1> QED
  BY <1>3, <1>4, <1>5, <1>6

LEMMA RestoredFree ==
  ASSUME RedirectInv, NEW s \in StdStream, NEW r, r = Restored(s), NodesNeverRunOut,
         fs' \in {r.fs, Logged(r.fs, 1)}, flag' = [flag EXCEPT ![s] = r.flagged]
  PROVE  \A u \in StdStream : /\ flag[u] /\ ~flag'[u] => Free(fs') = Free(fs) + 1
                              /\ ~flag[u] => ~flag'[u]
<1>1. flag'[s] = r.flagged /\ \A u \in StdStream \ {s} : flag'[u] = flag[u]
  BY DEF RedirectInv, RedirectTypeOK
<1>2. CASE flag[s] /\ backup[s] # NoFd
  <2>1. /\ backup[s] \in Fd \ 0..2
        /\ OnlyOn(fs, r.fs, {Target[s], backup[s]})
        /\ Seen(fs, backup[s]) # {} /\ Seen(r.fs, backup[s]) = {}
        /\ Seen(fs, Target[s]) # {} /\ Seen(r.fs, Target[s]) # {}
    BY <1>2, RestoredGivesBack
  <2>2. Same(r.fs, fs') /\ Target[s] \in Fd
    <3>1. r.fs \in FileSystem
      BY <2>1 DEF OnlyOn
    <3> QED
      BY <3>1, SameItself, LoggedIsSame, Targets
  <2>3. OnlyOn(fs, fs', {Target[s], backup[s]})
    BY <2>1, <2>2, ThenSame
  <2>4. Seen(fs', backup[s]) = {} /\ Seen(fs', Target[s]) # {}
    BY <2>1, <2>2 DEF Same
  <2>5. Free(fs') = Free(fs) + 1
    BY <2>1, <2>3, <2>4, OneIsGivenBack
  <2> QED
    BY <1>1, <1>2, <2>5
<1>3. CASE ~(flag[s] /\ backup[s] # NoFd)
  <2>1. r = [fs |-> Logged(fs, 1), text |-> Lost, flagged |-> flag[s]]
    BY <1>3, Zenon DEF Restored
  <2>2. r.flagged = flag[s]
    BY <2>1
  <2> QED
    BY <1>1, <2>2
<1> QED
  BY <1>2, <1>3

\* The other steps redirect and restore nothing, and none of them is taken where a
\* redirection is due.
LEMMA OtherSteps ==
  ASSUME \/ \E s \in Source : AssembleSource(s)
         \/ Initialize \/ Finalize \/ PerformRefused \/ ExecuteRefused \/ Abort \/ ProgramStep
  PROVE  /\ flag' = flag /\ pc # "redirectOut"
         /\ pc = "idle" => pc' = "idle"
<1>1. CASE \E s \in Source : AssembleSource(s)
  BY <1>1 DEF AssembleSource
<1>2. CASE Initialize \/ Finalize \/ PerformRefused \/ ExecuteRefused \/ Abort
  BY <1>2 DEF Initialize, Finalize, PerformRefused, ExecuteRefused, Abort
<1>3. CASE ProgramStep
  <2>1. Trap
    BY <1>3 DEF ProgramStep, Fopen, Fclose, Fputs, Fread, Fseek
  <2> QED
    BY <2>1 DEF Trap
<1> QED
  BY <1>1, <1>2, <1>3

LEMMA FreeStep ==
  ASSUME RedirectInv, RedirectNext, NodesNeverRunOut
  PROVE  /\ \A s \in StdStream : /\ ~flag[s] /\ flag'[s] => Free(fs') = Free(fs) - 1
                                 /\ flag[s] /\ ~flag'[s] => Free(fs') = Free(fs) + 1
         /\ pc = "redirectOut" /\ ~flag["out"] /\ Free(fs) > 1 => flag'["out"]
         /\ pc = "idle" /\ pc' \in {"assembling", "redirectOut"} /\ ~flag["err"] /\ Free(fs) > 1
              => flag'["err"]
<1>1. "err" \in StdStream /\ "out" \in StdStream
  BY Targets
<1>2. CASE AssembleMMIXAL \/ PerformInstructions
  <2>1. RedirectStream("err") /\ pc = "idle"
    BY <1>2 DEF AssembleMMIXAL, PerformInstructions, Begin
  <2> QED
    BY <1>1, <2>1, RedirectStreamFree
<1>3. CASE RedirectOut
  <2>1. RedirectStream("out") /\ pc = "redirectOut"
    BY <1>3 DEF RedirectOut
  <2> QED
    BY <1>1, <2>1, RedirectStreamFree
<1>4. CASE RestoreOut
  <2>1. PICK r : r = Restored("out")
    OBVIOUS
  <2>2. fs' = r.fs /\ flag' = [flag EXCEPT !["out"] = r.flagged]
        /\ pc \in {"executing", "refused"}
    BY <1>4, <2>1 DEF RestoreOut
  <2> QED
    BY <1>1, <2>1, <2>2, RestoredFree
<1>5. CASE RestoreErr
  <2>1. PICK r : r = Restored("err")
    OBVIOUS
  <2>2. /\ fs' \in {r.fs, Logged(r.fs, 1)} /\ flag' = [flag EXCEPT !["err"] = r.flagged]
        /\ pc \in {"assembled", "executed"}
    BY <1>5, <2>1 DEF RestoreErr
  <2> QED
    BY <1>1, <2>1, <2>2, RestoredFree
<1>6. CASE \/ \E s \in Source : AssembleSource(s)
           \/ Initialize \/ Finalize \/ PerformRefused \/ ExecuteRefused \/ Abort \/ ProgramStep
  BY <1>6, OtherSteps
<1> QED
  BY <1>2, <1>3, <1>4, <1>5, <1>6 DEF RedirectNext

\* A redirection takes one descriptor and works when two are free; its restoration gives
\* the descriptor back, whatever was opened, closed and left open in between.
THEOREM RedirectionIsOneDescriptor ==
  ASSUME NodesNeverRunOut
  PROVE  RedirectSpec => RedirectionTakesOneDescriptor
<1>1. RedirectInv /\ [RedirectNext]_redirectVars =>
        [ /\ \A s \in StdStream :
               /\ ~flag[s] /\ flag'[s] => Free(fs') = Free(fs) - 1
               /\ flag[s] /\ ~flag'[s] => Free(fs') = Free(fs) + 1
          /\ pc = "redirectOut" /\ ~flag["out"] /\ Free(fs) > 1 => flag'["out"]
          /\ pc = "idle" /\ pc' \in {"assembling", "redirectOut"} /\ ~flag["err"] /\ Free(fs) > 1
               => flag'["err"] ]_redirectVars
  BY FreeStep
<1> QED
  BY <1>1, InvIsInvariant, PTL DEF RedirectSpec, RedirectionTakesOneDescriptor

-----------------------------------------------------------------------------
(* What is held between the calls.                                         *)

\* The flags are set exactly during the calls they are set for, with the console
\* kept.
CallExact ==
  /\ flag["err"] <=> pc # "idle"
  /\ flag["out"] <=> pc \in {"executing", "refused"}
  /\ \A s \in StdStream : flag[s] => backup[s] # NoFd

\* A descriptor of one of the program's files.
Named(f, k) ==
  \E name \in UserFile \ Own, m \in Mode : f.dir[name] # NoNode /\ Seen(f, k) = {On(f.dir[name], m)}

IsBackup(flags, backups, k) == \E s \in StdStream : flags[s] /\ k = backups[s]

\* What is open is the program's, or the console that a redirection keeps.
HeldOK(f, flags, backups) ==
  \A k \in Fd \ 0..2 : Seen(f, k) # {} => Named(f, k) \/ IsBackup(flags, backups, k)

\* No redirection has failed, no call has died, no program has meddled.
Undisturbed == ~troubled /\ ~meddled

HeldInv == RedirectInv /\ (Undisturbed => CallExact /\ HeldOK(fs, flag, backup))

LEMMA NamedKept ==
  ASSUME NEW f, NEW h, NEW S, OnlyOn(f, h, S), NEW k \in Fd \ S, Named(f, k)
  PROVE  Named(h, k)
<1>1. PICK name \in UserFile \ Own, m \in Mode : f.dir[name] # NoNode /\ Seen(f, k) = {On(f.dir[name], m)}
  BY DEF Named
<1>2. name \in Foreign
  BY RedirectAssumption DEF Foreign
<1>3. h.dir[name] = f.dir[name] /\ Seen(h, k) = Seen(f, k)
  BY <1>1, <1>2 DEF OnlyOn
<1> QED
  BY <1>1, <1>3 DEF Named

LEMMA HeldKept ==
  ASSUME NEW f, NEW h, NEW S, OnlyOn(f, h, S), NEW flags, NEW backups, HeldOK(f, flags, backups),
         NEW nflags, NEW nbackups,
         \A k \in S : k \in 0..2 \/ Seen(h, k) = {} \/ Named(h, k) \/ IsBackup(nflags, nbackups, k),
         \A k \in Fd \ S : IsBackup(flags, backups, k) => IsBackup(nflags, nbackups, k)
  PROVE  HeldOK(h, nflags, nbackups)
<1>1. ASSUME NEW k \in Fd \ 0..2, Seen(h, k) # {}
      PROVE  Named(h, k) \/ IsBackup(nflags, nbackups, k)
  <2>1. CASE k \in S
    BY <1>1, <2>1
  <2>2. CASE k \notin S
    <3>1. Seen(f, k) # {}
      BY <1>1, <2>2 DEF OnlyOn
    <3>2. Named(f, k) \/ IsBackup(flags, backups, k)
      BY <1>1, <3>1 DEF HeldOK
    <3>3. k \in Fd \ S
      BY <2>2
    <3> QED
      BY <3>2, <3>3, NamedKept
  <2> QED
    BY <2>1, <2>2
<1> QED
  BY <1>1 DEF HeldOK

LEMMA RedirectStreamHeld ==
  ASSUME HeldInv, NEW s \in StdStream, RedirectStream(s), ~troubled', ~meddled, NodesNeverRunOut
  PROVE  /\ ~troubled /\ ~flag[s] /\ flag'[s] = TRUE /\ backup'[s] # NoFd
         /\ \A u \in StdStream \ {s} : flag'[u] = flag[u] /\ backup'[u] = backup[u]
         /\ HeldOK(fs', flag', backup')
<1>1. PICK r : r = Redirected(s)
  OBVIOUS
<1>2. /\ fs' = r.fs /\ flag' = [flag EXCEPT ![s] = r.flagged]
      /\ backup' = [backup EXCEPT ![s] = r.backup]
      /\ troubled' = (troubled \/ flag[s] \/ ~r.flagged)
      /\ flag \in [StdStream -> BOOLEAN] /\ backup \in [StdStream -> Fd \cup {NoFd}]
      /\ RedirectInv
  BY <1>1, Zenon DEF RedirectStream, HeldInv, RedirectInv, RedirectTypeOK
<1>3. ~troubled /\ ~flag[s] /\ r.flagged
  BY <1>2, Zenon
<1>4. r.flagged = TRUE
  <2>1. PICK o : o = Redirected(s)
    OBVIOUS
  <2>2. o.flagged \in BOOLEAN
    BY <1>2, <2>1, RedirectedKeeps
  <2> QED
    BY <1>1, <1>3, <2>1, <2>2
<1>5. r.backup \in Fd \ 0..2 /\ OnlyOn(fs, r.fs, {Target[s], r.backup})
  BY <1>1, <1>2, <1>3, RedirectedTakes
<1>6. /\ flag'[s] = TRUE /\ backup'[s] = r.backup
      /\ \A u \in StdStream \ {s} : flag'[u] = flag[u] /\ backup'[u] = backup[u]
  BY <1>2, <1>4
<1>7. HeldOK(fs, flag, backup)
  BY <1>3 DEF HeldInv, Undisturbed
<1>8. IsBackup(flag', backup', r.backup)
  BY <1>6 DEF IsBackup
<1>9. \A k \in Fd : IsBackup(flag, backup, k) => IsBackup(flag', backup', k)
  BY <1>3, <1>6 DEF IsBackup
<1>10. Target[s] \in 0..2
  BY Targets
<1>11. HeldOK(fs', flag', backup')
  <2>1. PICK S : S = {Target[s], r.backup}
    OBVIOUS
  <2>2. PICK nflags, nbackups : nflags = flag' /\ nbackups = backup'
    OBVIOUS
  <2>3. \A k \in S : k \in 0..2 \/ IsBackup(nflags, nbackups, k)
    BY <1>8, <1>10, <2>1, <2>2
  <2>4. \A k \in Fd \ S : IsBackup(flag, backup, k) => IsBackup(nflags, nbackups, k)
    BY <1>9, <2>2
  <2>5. OnlyOn(fs, r.fs, S)
    BY <1>5, <2>1
  <2>6. HeldOK(r.fs, nflags, nbackups)
    BY <1>7, <2>3, <2>4, <2>5, HeldKept
  <2> QED
    BY <1>2, <2>2, <2>6
<1> QED
  BY <1>3, <1>5, <1>6, <1>11, NoFdIsNone

LEMMA RestoredHeld ==
  ASSUME HeldInv, NEW s \in StdStream, NEW r, r = Restored(s), flag[s], Undisturbed,
         fs' \in {r.fs, Logged(r.fs, 1)}, NodesNeverRunOut,
         \A u \in StdStream \ {s} : flag[u] => flag'[u] /\ backup'[u] = backup[u]
  PROVE  r.flagged = FALSE /\ HeldOK(fs', flag', backup')
<1>1. RedirectInv /\ backup[s] # NoFd /\ HeldOK(fs, flag, backup)
  BY DEF HeldInv, CallExact
<1>2. /\ backup[s] \in Fd \ 0..2
      /\ OnlyOn(fs, r.fs, {Target[s], backup[s]}) /\ Seen(r.fs, backup[s]) = {}
  BY <1>1, RestoredGivesBack
<1>3. r.flagged = FALSE
  <2>1. r = [fs |-> ReadToHeap(RestoreStream(s), LogName[s]).fs,
             text |-> ReadToHeap(RestoreStream(s), LogName[s]).text, flagged |-> FALSE]
    BY <1>1 DEF Restored
  <2> QED
    BY <2>1
<1>4. Same(r.fs, fs')
  <2>1. r.fs \in FileSystem
    BY <1>2 DEF OnlyOn
  <2> QED
    BY <2>1, SameItself, LoggedIsSame
<1>5. OnlyOn(fs, fs', {Target[s], backup[s]})
  BY <1>2, <1>4, ThenSame
<1>6. Seen(fs', backup[s]) = {} /\ Target[s] \in 0..2
  BY <1>2, <1>4, Targets DEF Same
<1>7. \A k \in Fd \ {Target[s], backup[s]} : IsBackup(flag, backup, k) => IsBackup(flag', backup', k)
  BY DEF IsBackup
<1>8. HeldOK(fs', flag', backup')
  BY <1>1, <1>5, <1>6, <1>7, HeldKept
<1> QED
  BY <1>3, <1>8

\* What a trap opens is a file of the program, and what it closes is gone.
LEMMA ProgramHeld ==
  ASSUME HeldInv, ProgramStep, Undisturbed, ~meddled', NodesNeverRunOut
  PROVE  HeldOK(fs', flag, backup)
<1>1. /\ RedirectInv /\ fs \in FileSystem /\ HandlesOK(fs, sfile) /\ HeldOK(fs, flag, backup)
      /\ sfile \in [Handle -> FileInfo]
  BY DEF HeldInv, RedirectInv, RedirectTypeOK
<1>2. PICK h \in Handle :
        \/ \E name \in UserFile, mode \in Mode, binary \in BOOLEAN : Fopen(h, name, mode, binary)
        \/ Fclose(h)
        \/ (\E lines \in Prints : Fputs(h, lines)) \/ Fread(h) \/ Fseek(h)
  BY DEF ProgramStep
<1>3. PICK f : f = Fclosed(h)
  OBVIOUS
<1>4. PICK S : OnlyOn(fs, f, S) /\ \A k \in S : k \in Fd /\ Seen(f, k) = {}
  <2>1. CASE sfile[h].can = {} \/ Std(h)
    <3>1. f = fs
      BY <1>3, <2>1 DEF Fclosed
    <3>2. OnlyOn(fs, f, {})
      BY <1>1, <3>1, OnlyItself
    <3> QED
      BY <3>2
  <2>2. CASE sfile[h].can # {} /\ ~Std(h)
    <3>1. PICK fd : fd = sfile[h].fd
      OBVIOUS
    <3>2. f = Close(fs, fd).fs
      BY <1>3, <2>2, <3>1 DEF Fclosed
    <3>3. fd \in Fd
      BY <1>1, <2>2, <3>1, LiveFd
    <3>4. /\ f \in FileSystem /\ f.dir = fs.dir /\ Seen(f, fd) = {}
          /\ \A k \in Fd \ {fd} : Seen(f, k) = Seen(fs, k)
      BY <1>1, <3>2, <3>3, CloseSeen
    <3>5. OnlyOn(fs, f, {fd})
      BY <3>4 DEF OnlyOn
    <3> QED
      BY <3>3, <3>4, <3>5
  <2>3. (sfile[h].can = {} \/ Std(h)) \/ (sfile[h].can # {} /\ ~Std(h))
    OBVIOUS
  <2> QED
    BY <2>1, <2>2, <2>3, Zenon
<1>5. CASE \E name \in UserFile, mode \in Mode, binary \in BOOLEAN : Fopen(h, name, mode, binary)
  <2>1. PICK name \in UserFile \ Own, mode \in Mode : fs' = Open(f, name, mode).fs
    BY <1>3, <1>5 DEF Fopen
  <2>2. PICK r : r = Open(f, name, mode)
    OBVIOUS
  <2>3. f \in FileSystem /\ name \in Path /\ name \in Name
    BY <1>4, PathNames DEF OnlyOn
  <2>4. \A k \in Fd \ New(r) : Seen(r.fs, k) = Seen(f, k)
    <3>1. CASE Fails(r)
      BY <2>2, <2>3, <3>1, OpenSeen
    <3>2. CASE ~Fails(r)
      <4>1. \A k \in Fd \ {r.ret} : Seen(r.fs, k) = Seen(f, k)
        BY <2>2, <2>3, <3>2, OpenSeen
      <4> QED
        BY <3>2, <4>1 DEF New
    <3> QED
      BY <3>1, <3>2
  <2>5. ASSUME ~Fails(r) PROVE Named(r.fs, r.ret)
    <3>1. PICK n : n = Lookup(r.fs, name)
      OBVIOUS
    <3>2. Seen(r.fs, r.ret) = {On(n, mode)} /\ n # NoNode
      BY <2>2, <2>3, <2>5, <3>1, OpenLeads
    <3>3. n = r.fs.dir[name]
      BY <2>3, <3>1, FSAssumption DEF Lookup
    <3> QED
      BY <3>2, <3>3 DEF Named
  <2>6. OnlyOn(fs, r.fs, S \cup New(r))
    BY <1>4, <2>2, <2>3, ThenOpened
  <2>7. \A k \in S \cup New(r) : Seen(r.fs, k) = {} \/ Named(r.fs, k)
    <3>1. ASSUME NEW k \in S \ New(r) PROVE Seen(r.fs, k) = {}
      BY <1>4, <2>4, <3>1
    <3>2. ASSUME NEW k \in New(r) PROVE Named(r.fs, k)
      BY <2>5, <3>2 DEF New
    <3> QED
      BY <3>1, <3>2
  <2>8. HeldOK(r.fs, flag, backup)
    BY <1>1, <2>6, <2>7, HeldKept
  <2> QED
    BY <2>1, <2>2, <2>8
<1>6. CASE Fclose(h)
  <2>1. fs' = f
    BY <1>3, <1>6 DEF Fclose
  <2>2. HeldOK(f, flag, backup)
    BY <1>1, <1>4, HeldKept
  <2> QED
    BY <2>1, <2>2
<1>7. CASE (\E lines \in Prints : Fputs(h, lines)) \/ Fread(h) \/ Fseek(h)
  <2>1. sfile[h].can # {}
    <3>1. sfile[h].binary => sfile[h].can # {}
      BY <1>1 DEF HandlesOK
    <3> QED
      BY <1>7, <3>1 DEF Fputs, Fread, Fseek
  <2>2. PICK fd : fd = sfile[h].fd
    OBVIOUS
  <2>3. fd \in Fd
    BY <1>1, <2>1, <2>2, LiveFd
  <2>4. \/ \E lines \in Prints : fs' = Write(fs, fd, lines).fs
        \/ fs' = Read(fs, fd).fs
        \/ fs' = Seek(fs, fd, 0).fs
    BY <1>7, <2>2 DEF Fputs, Fread, Fseek
  <2>5. Same(fs, fs')
    BY <1>1, <2>3, <2>4, WriteIsSame, ReadIsSame, SeekIsSame
  <2>6. OnlyOn(fs, fs', {})
    BY <1>1, <2>5, OnlyItself, ThenSame
  <2> QED
    BY <1>1, <2>6, HeldKept
<1> QED
  BY <1>2, <1>5, <1>6, <1>7

LEMMA AssembleSourceCloses ==
  ASSUME fs \in FileSystem, NEW s \in Source, AssembleSource(s), NodesNeverRunOut
  PROVE  OnlyOn(fs, fs', {})
<1> DEFINE clean == Unlink(fs, "mmo").fs
           mms == Written(clean, "mms", <<s>>)
           run == Mmixal(mms.fs, s)
           lst == IF run.ret = 0 THEN ReadToHeap(run.fs, "listing").fs ELSE run.fs
<1>1. /\ <<s>> \in Seq(Line) /\ "mms" \in Path \ Foreign /\ "mmo" \in Path \ Foreign
      /\ "listing" \in Path \ Foreign
  BY PathNames DEF Foreign, Own
<1>2. fs' \in {Logged(mms.fs, 3), Unlink(lst, "mms").fs}
  BY DEF AssembleSource
<1>3. OnlyOn(fs, clean, {})
  BY <1>1, OnlyItself, ThenUnlinked
<1> HIDE DEF clean
<1>4. OnlyOn(fs, mms.fs, {})
  <2>1. clean \in FileSystem
    BY <1>3 DEF OnlyOn
  <2>2. OnlyOn(clean, mms.fs, {})
    BY <1>1, <2>1, WrittenCloses
  <2> HIDE DEF mms
  <2> QED
    BY <1>3, <2>2 DEF OnlyOn
<1> HIDE DEF mms
<1>5. OnlyOn(fs, run.fs, {})
  <2>1. mms.fs \in FileSystem
    BY <1>4 DEF OnlyOn
  <2>2. OnlyOn(mms.fs, run.fs, {})
    BY <2>1, MmixalCloses
  <2> HIDE DEF run
  <2> QED
    BY <1>4, <2>2 DEF OnlyOn
<1> HIDE DEF run
<1>6. OnlyOn(fs, lst, {})
  <2>1. run.fs \in FileSystem
    BY <1>5 DEF OnlyOn
  <2>2. OnlyOn(run.fs, ReadToHeap(run.fs, "listing").fs, {})
    BY <1>1, <2>1, ReadToHeapCloses
  <2>3. OnlyOn(fs, ReadToHeap(run.fs, "listing").fs, {})
    BY <1>5, <2>2 DEF OnlyOn
  <2> QED
    BY <1>5, <2>3
<1> HIDE DEF lst
<1>7. OnlyOn(fs, Logged(mms.fs, 3), {}) /\ OnlyOn(fs, Unlink(lst, "mms").fs, {})
  BY <1>1, <1>4, <1>6, ThenLogged, ThenUnlinked
<1> QED
  BY <1>2, <1>7

LEMMA HeldStep ==
  ASSUME HeldInv, [RedirectNext]_redirectVars, NodesNeverRunOut, ~troubled', ~meddled'
  PROVE  CallExact' /\ HeldOK(fs', flag', backup')
<1>1. ~troubled' /\ ~meddled
  BY MeddledStays
<1>2. /\ fs \in FileSystem /\ flag \in [StdStream -> BOOLEAN] /\ RedirectInv
      /\ "err" \in StdStream /\ "out" \in StdStream /\ StdStream = {"out", "err"}
  BY Targets DEF HeldInv, RedirectInv, RedirectTypeOK
<1>3. ~troubled => /\ flag["err"] <=> pc # "idle"
                   /\ flag["out"] <=> pc \in {"executing", "refused"}
                   /\ \A s \in StdStream : flag[s] => backup[s] # NoFd
                   /\ HeldOK(fs, flag, backup) /\ Undisturbed
  BY <1>1 DEF HeldInv, CallExact, Undisturbed
<1>4. CASE AssembleMMIXAL \/ PerformInstructions
  <2>1. RedirectStream("err") /\ pc = "idle" /\ pc' \in {"assembling", "redirectOut"}
    BY <1>4 DEF AssembleMMIXAL, PerformInstructions, Begin
  <2>2. /\ ~troubled /\ flag'["err"] = TRUE /\ backup'["err"] # NoFd
        /\ flag'["out"] = flag["out"] /\ backup'["out"] = backup["out"]
        /\ HeldOK(fs', flag', backup')
    BY <1>1, <1>2, <2>1, RedirectStreamHeld
  <2>3. ~flag["out"]
    BY <1>3, <2>1, <2>2
  <2> QED
    BY <1>2, <1>3, <2>1, <2>2, <2>3 DEF CallExact
<1>5. CASE RedirectOut
  <2>1. RedirectStream("out") /\ pc = "redirectOut" /\ pc' = "executing"
    BY <1>5 DEF RedirectOut
  <2>2. /\ ~troubled /\ flag'["out"] = TRUE /\ backup'["out"] # NoFd
        /\ flag'["err"] = flag["err"] /\ backup'["err"] = backup["err"]
        /\ HeldOK(fs', flag', backup')
    BY <1>1, <1>2, <2>1, RedirectStreamHeld
  <2>3. flag["err"] = TRUE
    BY <1>3, <2>1, <2>2
  <2> QED
    BY <1>2, <1>3, <2>1, <2>2, <2>3 DEF CallExact
<1>6. CASE \E s \in Source : AssembleSource(s)
  <2>1. /\ flag' = flag /\ backup' = backup /\ troubled' = troubled
        /\ pc = "assembling" /\ pc' = "assembled"
    BY <1>6 DEF AssembleSource
  <2>2. OnlyOn(fs, fs', {})
    BY <1>2, <1>6, AssembleSourceCloses
  <2>3. HeldOK(fs', flag, backup)
    BY <1>1, <1>3, <2>1, <2>2, HeldKept
  <2> QED
    BY <1>1, <1>3, <2>1, <2>3 DEF CallExact
<1>7. CASE Initialize \/ Finalize \/ PerformRefused \/ ExecuteRefused \/ UNCHANGED redirectVars
  <2>1. /\ flag' = flag /\ backup' = backup /\ troubled' = troubled
        /\ pc' = pc \/ (pc = "executing" /\ pc' = "refused")
        /\ fs' \in {fs, Logged(fs, 1), Logged(fs, 2)}
    BY <1>7 DEF Initialize, Finalize, PerformRefused, ExecuteRefused, redirectVars
  <2>2. OnlyOn(fs, fs', {})
    BY <1>2, <2>1, OnlyItself, ThenLogged
  <2>3. HeldOK(fs', flag, backup)
    BY <1>1, <1>3, <2>1, <2>2, HeldKept
  <2> QED
    BY <1>1, <1>3, <2>1, <2>3 DEF CallExact
<1>8. CASE ProgramStep
  <2>1. /\ flag' = flag /\ backup' = backup /\ troubled' = troubled /\ pc' = pc
    BY <1>8 DEF ProgramStep, Fopen, Fclose, Fputs, Fread, Fseek, Trap
  <2>2. Undisturbed
    BY <1>1, <1>3, <2>1
  <2>3. HeldOK(fs', flag, backup)
    BY <1>8, <2>2, ProgramHeld
  <2> QED
    BY <1>1, <1>3, <2>1, <2>3 DEF CallExact
<1>9. CASE Abort
  BY <1>1, <1>9 DEF Abort
<1>10. CASE RestoreOut
  <2>1. PICK r : r = Restored("out")
    OBVIOUS
  <2>2. /\ pc \in {"executing", "refused"} /\ pc' = "executed" /\ fs' = r.fs
        /\ flag' = [flag EXCEPT !["out"] = r.flagged] /\ backup' = backup /\ troubled' = troubled
    BY <1>10, <2>1 DEF RestoreOut
  <2>3. flag'["out"] = r.flagged /\ flag'["err"] = flag["err"]
    BY <1>2, <2>2
  <2>4. flag["out"] /\ flag["err"] /\ Undisturbed
    BY <1>1, <1>3, <2>2
  <2>5. \A u \in StdStream \ {"out"} : flag[u] => flag'[u] /\ backup'[u] = backup[u]
    BY <1>2, <2>2, <2>3
  <2>6. r.flagged = FALSE /\ HeldOK(fs', flag', backup')
    BY <1>1, <1>2, <2>1, <2>2, <2>4, <2>5, RestoredHeld
  <2>7. flag'["err"] = TRUE /\ flag'["out"] = FALSE
    BY <1>2, <2>3, <2>4, <2>6
  <2>8. \A s \in StdStream : flag'[s] => backup'[s] # NoFd
    BY <1>1, <1>2, <1>3, <2>2, <2>4, <2>7
  <2> QED
    BY <2>2, <2>6, <2>7, <2>8 DEF CallExact
<1>11. CASE RestoreErr
  <2>1. PICK r : r = Restored("err")
    OBVIOUS
  <2>2. /\ pc \in {"assembled", "executed"} /\ pc' = "idle" /\ fs' \in {r.fs, Logged(r.fs, 1)}
        /\ flag' = [flag EXCEPT !["err"] = r.flagged] /\ troubled' = troubled
    BY <1>11, <2>1 DEF RestoreErr
  <2>3. flag'["err"] = r.flagged /\ flag'["out"] = flag["out"]
    BY <1>2, <2>2
  <2>4. ~flag["out"] /\ flag["err"] /\ Undisturbed
    BY <1>1, <1>3, <2>2
  <2>5. \A u \in StdStream \ {"err"} : ~flag[u]
    BY <1>2, <2>4
  <2>6. r.flagged = FALSE /\ HeldOK(fs', flag', backup')
    BY <1>1, <1>2, <2>1, <2>2, <2>4, <2>5, RestoredHeld
  <2>7. flag'["err"] = FALSE /\ flag'["out"] = FALSE
    BY <1>2, <2>3, <2>4, <2>6
  <2>8. \A s \in StdStream : ~flag'[s]
    BY <1>2, <2>7
  <2> QED
    BY <2>2, <2>6, <2>7, <2>8 DEF CallExact
<1> QED
  BY <1>4, <1>5, <1>6, <1>7, <1>8, <1>9, <1>10, <1>11 DEF RedirectNext

LEMMA InitHoldsNothing ==
  ASSUME RedirectInit, NodesNeverRunOut
  PROVE  HeldInv
<1>1. RedirectInv
  BY InitHasInv
<1>2. /\ fs = StandardStreams /\ pc = "idle" /\ \A s \in StdStream : flag[s] = FALSE
  BY DEF RedirectInit
<1>3. CallExact
  BY <1>2, Targets DEF CallExact
<1>4. HeldOK(fs, flag, backup)
  BY <1>2, StandardStreamsSeen DEF HeldOK
<1> QED
  BY <1>1, <1>3, <1>4 DEF HeldInv

\* Between two calls nothing is open but the consoles and what the program has left open
\* of its own files: every call has closed what it has opened, and has given the console
\* back, as long as no redirection has failed, no call has died, and no program has opened
\* one of the files of the simulator itself.
THEOREM NothingIsHeldBack ==
  ASSUME NodesNeverRunOut
  PROVE  RedirectSpec => []NothingHeldBack
<1>1. RedirectInit => HeldInv
  BY InitHoldsNothing
<1>2. HeldInv /\ [RedirectNext]_redirectVars => HeldInv'
  <2>1. SUFFICES ASSUME HeldInv, [RedirectNext]_redirectVars PROVE HeldInv'
    OBVIOUS
  <2>2. RedirectInv'
    BY <2>1, NextKeepsInv DEF HeldInv
  <2>3. ASSUME ~troubled', ~meddled' PROVE CallExact' /\ HeldOK(fs', flag', backup')
    BY <2>1, <2>3, HeldStep
  <2> QED
    BY <2>2, <2>3 DEF HeldInv, Undisturbed
<1>3. HeldInv => NothingHeldBack
  <2>1. SUFFICES ASSUME HeldInv, pc = "idle", Undisturbed, NEW fd \in OpenFds(fs) \ 0..2
                 PROVE  \E name \in UserFile \ Own : fs.stream[fd].node = fs.dir[name]
    BY DEF NothingHeldBack, Undisturbed
  <2>2. HeldOK(fs, flag, backup) /\ \A s \in StdStream : ~flag[s]
    BY <2>1, Targets DEF HeldInv, CallExact
  <2>3. fd \in Fd /\ Seen(fs, fd) # {}
    BY <2>1 DEF OpenFds, Seen
  <2>4. Named(fs, fd)
    BY <2>1, <2>2, <2>3 DEF HeldOK, IsBackup
  <2>5. PICK name \in UserFile \ Own, m \in Mode : Seen(fs, fd) = {On(fs.dir[name], m)}
    BY <2>4 DEF Named
  <2>6. PICK n : n = fs.dir[name]
    OBVIOUS
  <2>7. fs.stream[fd].node = n
    BY <2>5, <2>6, SeenIs
  <2> QED
    BY <2>6, <2>7
<1> QED
  BY <1>1, <1>2, <1>3, PTL DEF RedirectSpec
=============================================================================
