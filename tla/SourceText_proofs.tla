-------------------------- MODULE SourceText_proofs --------------------------
(***************************************************************************)
(* Theorems about SourceText, for every text and whatever is typed: the    *)
(* variables keep their types, and the two colourings keep the text, agree *)
(* on its comments and operations, and colour a line on its own.           *)
(*                                                                         *)
(* Both colourings read a line from its start.  The editor's tokens are a  *)
(* recursion over the rest of the line, so what is said of them is proved  *)
(* by induction on the length of the rest, with the state of the scan:     *)
(* inString is TRUE exactly where an odd number of quotes is behind it     *)
(* (TokenAlong, ScanKeepsComment).                                         *)
(***************************************************************************)
EXTENDS SourceText, NaturalSets, FiniteSetTheorems, SequenceTheorems, TLAPS

USE TextAssumption

-----------------------------------------------------------------------------
(* Texts.                                                                  *)

\* Two texts, one after the other.
LEMMA TwoTexts ==
  ASSUME NEW a \in Seq(Lexeme), NEW b \in Seq(Lexeme)
  PROVE  a \o b \in Seq(Lexeme) /\ Len(a \o b) = Len(a) + Len(b)
OBVIOUS

\* A text of one lexeme.
LEMMA OneLexeme ==
  ASSUME NEW s \in Seq(Lexeme), Len(s) = 1
  PROVE  s = <<s[1]>>
OBVIOUS

\* What replaces a part of a text leaves a text, of a known length.
LEMMA ChangedText ==
  ASSUME NEW text \in Seq(Lexeme), NEW to \in 0..Len(text), NEW from \in 0..Len(text),
         NEW insert \in Seq(Lexeme)
  PROVE  /\ Changed(text, from, to, insert) \in Seq(Lexeme)
         /\ Len(Changed(text, from, to, insert)) = from + Len(insert) + (Len(text) - to)
<1>1. Take(text, from) \in Seq(Lexeme) /\ Len(Take(text, from)) = from
  BY DEF Take
<1>2. Drop(text, to) \in Seq(Lexeme) /\ Len(Drop(text, to)) = Len(text) - to
  BY DEF Drop
<1>3. /\ Take(text, from) \o insert \in Seq(Lexeme)
      /\ Len(Take(text, from) \o insert) = from + Len(insert)
  BY <1>1, TwoTexts
<1>4. /\ (Take(text, from) \o insert) \o Drop(text, to) \in Seq(Lexeme)
      /\ Len((Take(text, from) \o insert) \o Drop(text, to))
           = Len(Take(text, from) \o insert) + Len(Drop(text, to))
  BY <1>2, <1>3, TwoTexts
<1>5. Changed(text, from, to, insert) = (Take(text, from) \o insert) \o Drop(text, to)
  BY Zenon DEF Changed
<1> QED
  BY <1>2, <1>3, <1>4, <1>5

LEMMA LinesAreCounted ==
  ASSUME NEW text \in Seq(Lexeme)
  PROVE  NumLines(text) \in Nat
<1>1. IsFiniteSet(1..Len(text))
  BY FS_Interval
<1>2. IsFiniteSet(Breaks(text))
  BY <1>1, FS_Subset DEF Breaks
<1> QED
  BY <1>2, FS_CardinalityType DEF NumLines

-----------------------------------------------------------------------------
(* The invariant.                                                          *)

\* The form has the document, which is what makes its colours those of the editor.
TextInv == TextTypeOK /\ form = doc

LEMMA TextInvInit == Init => TextInv
<1> SUFFICES ASSUME Init PROVE TextInv
  OBVIOUS
<1>1. form \in Seq(Lexeme) /\ doc = form
  BY DEF Init
<1> QED
  BY <1>1 DEF Init, TextInv, TextTypeOK

LEMMA EditorKeepsText ==
  ASSUME TextInv, NEW to \in 0..Len(doc), NEW from \in 0..to, NEW insert \in Seq(Lexeme),
         Change(from, to, insert)
  PROVE  TextInv'
<1>1. doc' \in Seq(Lexeme) /\ form' = doc'
  BY ChangedText DEF TextInv, TextTypeOK, Change, HookUpListener
<1>2. UNCHANGED unlocked
  BY DEF Change
<1> QED
  BY <1>1, <1>2 DEF TextInv, TextTypeOK

LEMMA TextInvStep ==
  ASSUME TextInv, [Next]_vars
  PROVE  TextInv'
<1>1. CASE Unlock
  BY <1>1 DEF Unlock, TextInv, TextTypeOK
<1>2. CASE \E to \in 0..Len(doc) : \E from \in 0..to :
              \/ Change(from, to, <<>>)
              \/ \E x \in Typed : Room /\ Change(from, to, <<x>>)
  <2>1. PICK to \in 0..Len(doc) : \E from \in 0..to :
              \/ Change(from, to, <<>>)
              \/ \E x \in Typed : Room /\ Change(from, to, <<x>>)
    BY <1>2
  <2>2. PICK from \in 0..to : \E insert \in Seq(Lexeme) : Change(from, to, insert)
    <3>1. <<>> \in Seq(Lexeme) /\ \A x \in Typed : <<x>> \in Seq(Lexeme)
      OBVIOUS
    <3> QED
      BY <2>1, <3>1
  <2>3. PICK insert \in Seq(Lexeme) : Change(from, to, insert)
    BY <2>2
  <2> QED
    BY <2>3, EditorKeepsText
<1>3. CASE UNCHANGED vars
  BY <1>3 DEF vars, TextInv, TextTypeOK
<1> QED
  BY <1>1, <1>2, <1>3 DEF Next

LEMMA TextInvariant == Spec => []TextInv
BY TextInvInit, TextInvStep, PTL DEF Spec

-----------------------------------------------------------------------------
(* Parts of sequences.                                                     *)

\* The first n of a sequence.
LEMMA TakeIs ==
  ASSUME NEW S, NEW s \in Seq(S), NEW n \in 0..Len(s)
  PROVE  /\ Take(s, n) \in Seq(S)
         /\ Len(Take(s, n)) = n
         /\ \A i \in 1..n : Take(s, n)[i] = s[i]
BY DEF Take

LEMMA FirstTaken ==
  ASSUME NEW S, NEW s \in Seq(S), 1 \in 0..Len(s)
  PROVE  /\ Take(s, 1) \in Seq(S) /\ Len(Take(s, 1)) = 1
         /\ Take(s, 1)[1] = s[1]
BY DEF Take

\* What follows the first n of a sequence.
LEMMA DropIs ==
  ASSUME NEW S, NEW s \in Seq(S), NEW n \in 0..Len(s)
  PROVE  /\ Drop(s, n) \in Seq(S)
         /\ Len(Drop(s, n)) = Len(s) - n
         /\ \A i \in 1..Len(s) - n : Drop(s, n)[i] = s[n + i]
BY DEF Drop

LEMMA DropAny ==
  ASSUME NEW S, NEW s \in Seq(S), NEW n \in Nat
  PROVE  Drop(s, n) \in Seq(S)
BY DEF Drop

LEMMA ElementIs ==
  ASSUME NEW S, NEW s \in Seq(S), NEW i \in 1..Len(s)
  PROVE  s[i] \in S
OBVIOUS

\* Sequences are equal element by element.
LEMMA SameSequence ==
  ASSUME NEW S, NEW s \in Seq(S), NEW t \in Seq(S), Len(s) = Len(t),
         \A i \in 1..Len(s) : s[i] = t[i]
  PROVE  s = t
BY SeqEqual

LEMMA JoinIs ==
  ASSUME NEW S, NEW s \in Seq(S), NEW t \in Seq(S)
  PROVE  /\ s \o t \in Seq(S)
         /\ Len(s \o t) = Len(s) + Len(t)
         /\ \A i \in 1..Len(s) : (s \o t)[i] = s[i]
         /\ \A i \in 1..Len(t) : (s \o t)[Len(s) + i] = t[i]
OBVIOUS

LEMMA TakeAndDrop ==
  ASSUME NEW S, NEW s \in Seq(S), NEW n \in 0..Len(s)
  PROVE  Take(s, n) \o Drop(s, n) = s
<1> DEFINE a == Take(s, n)
           b == Drop(s, n)
<1>1. a \in Seq(S) /\ Len(a) = n /\ \A i \in 1..n : a[i] = s[i]
  BY TakeIs
<1>2. b \in Seq(S) /\ Len(b) = Len(s) - n /\ \A i \in 1..Len(s) - n : b[i] = s[n + i]
  BY DropIs
<1> HIDE DEF a, b
<1>3. /\ a \o b \in Seq(S) /\ Len(a \o b) = Len(s)
  BY <1>1, <1>2, JoinIs
<1>4. ASSUME NEW i \in 1..Len(s) PROVE (a \o b)[i] = s[i]
  <2>1. CASE i <= n
    BY <1>1, <1>2, <2>1, JoinIs
  <2>2. CASE i > n
    <3>1. i - n \in 1..Len(b) /\ i = n + (i - n)
      BY <1>2, <2>2
    <3>2. (a \o b)[n + (i - n)] = b[i - n]
      BY <1>1, <1>2, <3>1, JoinIs
    <3>3. b[i - n] = s[n + (i - n)]
      BY <1>2, <3>1
    <3> QED
      BY <3>1, <3>2, <3>3
  <2>3. i <= n \/ i > n
    OBVIOUS
  <2> QED
    BY <2>1, <2>2, <2>3
<1>5. a \o b = s
  BY <1>3, <1>4, SameSequence
<1> QED
  BY <1>5 DEF a, b

LEMMA DropTwice ==
  ASSUME NEW S, NEW s \in Seq(S), NEW m \in 0..Len(s), NEW n \in 0..Len(s) - m
  PROVE  Drop(Drop(s, m), n) = Drop(s, m + n)
<1> DEFINE a == Drop(s, m)
           b == Drop(a, n)
           c == Drop(s, m + n)
<1>1. a \in Seq(S) /\ Len(a) = Len(s) - m /\ \A i \in 1..Len(s) - m : a[i] = s[m + i]
  BY DropIs
<1>2. m + n \in 0..Len(s)
  OBVIOUS
<1>3. /\ c \in Seq(S) /\ Len(c) = Len(s) - (m + n)
      /\ \A i \in 1..Len(s) - (m + n) : c[i] = s[(m + n) + i]
  BY <1>2, DropIs
<1> HIDE DEF a
<1>4. /\ b \in Seq(S) /\ Len(b) = Len(a) - n
      /\ \A i \in 1..Len(a) - n : b[i] = a[n + i]
  <2>1. n \in 0..Len(a)
    BY <1>1
  <2> QED
    BY SMTT(30), <1>1, <2>1, DropIs
<1> HIDE DEF b, c
<1>5. Len(b) = Len(c)
  BY <1>1, <1>3, <1>4
<1>6. ASSUME NEW i \in 1..Len(b) PROVE b[i] = c[i]
  <2>1. i \in 1..Len(a) - n /\ n + i \in 1..Len(s) - m /\ i \in 1..Len(s) - (m + n)
    BY <1>1, <1>4
  <2>2. b[i] = a[n + i] /\ a[n + i] = s[m + (n + i)] /\ c[i] = s[(m + n) + i]
    BY <1>1, <1>3, <1>4, <2>1
  <2>3. m + (n + i) = (m + n) + i
    OBVIOUS
  <2> QED
    BY <2>2, <2>3
<1>7. b = c
  BY <1>3, <1>4, <1>5, <1>6, SameSequence
<1> QED
  BY <1>7 DEF a, b, c

-----------------------------------------------------------------------------
(* Run and First: what the regular expressions match.                      *)

\* Run stops in front of the first lexeme that is not in S.
LEMMA RunIs ==
  ASSUME NEW line \in Seq(Lexeme), NEW S
  PROVE  /\ Run(line, S) \in 0..Len(line)
         /\ \A i \in 1..Run(line, S) : line[i] \in S
         /\ Run(line, S) < Len(line) => line[Run(line, S) + 1] \notin S
<1> DEFINE len == Len(line)
           T == {i \in 1..len : line[i] \notin S} \cup {len + 1}
           U == {n \in 1..len : \A i \in 1..n : line[i] \in S}
<1>1. len \in Nat /\ T \in SUBSET Nat /\ T # {}
  OBVIOUS
<1>2. PICK n \in T : \A i \in T : n <= i
  BY <1>1, LeastElement
<1>3. U = 1..n - 1
  <2>1. ASSUME NEW k \in U PROVE k \in 1..n - 1
    <3>1. k \in 1..len /\ \A i \in 1..k : line[i] \in S
      OBVIOUS
    <3>2. ~(n <= k)
      BY <1>2, <3>1
    <3> QED
      BY <1>1, <1>2, <3>1, <3>2
  <2>2. ASSUME NEW k \in 1..n - 1 PROVE k \in U
    <3>1. \A i \in 1..k : i \in 1..len /\ i \notin T
      BY <1>1, <1>2
    <3> QED
      BY <1>1, <1>2, <3>1
  <2> QED
    BY <2>1, <2>2
<1>4. Run(line, S) = Cardinality(U)
  BY DEF Run
<1>5. Cardinality(1..n - 1) = n - 1
  <2>1. n \in Nat /\ n >= 1
    BY <1>2, <1>1
  <2> HIDE DEF T
  <2> QED
    BY <2>1, FS_Interval
<1>6. Run(line, S) = n - 1
  BY <1>3, <1>4, <1>5
<1>7. ASSUME NEW i \in 1..n - 1 PROVE line[i] \in S
  <2>1. n \in 1..len + 1
    BY <1>1
  <2>2. i \in 1..len /\ i < n
    BY <1>1, <2>1
  <2>3. i \notin T
    BY <1>2, <2>1, <2>2
  <2> QED
    BY <2>2, <2>3
<1>8. n <= len => line[n] \notin S
  BY <1>2, <1>1
<1> HIDE DEF T, U
<1>9. n \in 1..len + 1
  BY <1>1, <1>2 DEF T
<1> QED
  BY <1>1, <1>6, <1>7, <1>8, <1>9

\* First is the least place with a lexeme of S, or one past the end.
LEMMA FirstIs ==
  ASSUME NEW line \in Seq(Lexeme), NEW S
  PROVE  /\ First(line, S) \in 1..Len(line) + 1
         /\ \A i \in 1..First(line, S) - 1 : line[i] \in Lexeme \ S
         /\ First(line, S) <= Len(line) => line[First(line, S)] \in S
<1> DEFINE r == Run(line, Lexeme \ S)
<1>1. /\ r \in 0..Len(line)
      /\ \A i \in 1..r : line[i] \in Lexeme \ S
      /\ r < Len(line) => line[r + 1] \notin Lexeme \ S
  BY RunIs
<1>2. First(line, S) = r + 1
  BY DEF First
<1> HIDE DEF r
<1>3. r < Len(line) => line[r + 1] \in Lexeme
  BY <1>1, ElementIs
<1>4. (r + 1) - 1 = r /\ r + 1 \in 1..Len(line) + 1 /\ (r + 1 <= Len(line) => r < Len(line))
  BY <1>1
<1> QED
  BY <1>1, <1>2, <1>3, <1>4

-----------------------------------------------------------------------------
(* Recursion over the natural numbers, and texts that are joined.          *)

Recursion(f, S, first, step, n) ==
  /\ f \in [0..n -> S]
  /\ f[0] = first
  /\ \A i \in 0..n - 1 : f[i + 1] = step[i][f[i]]

\* A function defined by recursion exists, up to any number.
LEMMA RecursionExists ==
  ASSUME NEW S, NEW first \in S, NEW step \in [Nat -> [S -> S]], NEW n \in Nat
  PROVE  \E f : Recursion(f, S, first, step, n)
<1> DEFINE Good(f, m) == /\ f \in [0..m -> S]
                         /\ f[0] = first
                         /\ \A i \in 0..m - 1 : f[i + 1] = step[i][f[i]]
           P == {m \in Nat : \E f : Good(f, m)}
<1>1. 0 \in P
  <2>1. Good([i \in 0..0 |-> first], 0)
    OBVIOUS
  <2> QED
    BY <2>1
<1>2. ASSUME NEW m \in P PROVE m + 1 \in P
  <2>1. PICK f : Good(f, m)
    OBVIOUS
  <2>2. PICK v \in S : v = step[m][f[m]]
    <3>1. f[m] \in S /\ step[m] \in [S -> S]
      BY <2>1
    <3> QED
      BY <3>1
  <2> DEFINE h == [i \in 0..m + 1 |-> IF i = m + 1 THEN v ELSE f[i]]
  <2>3. h \in [0..m + 1 -> S]
    BY <2>1
  <2>4. h[0] = first
    BY <2>1
  <2>5. ASSUME NEW i \in 0..m PROVE h[i + 1] = step[i][h[i]]
    <3>1. CASE i = m
      BY <2>2, <3>1
    <3>2. CASE i # m
      <4>1. i \in 0..m - 1 /\ i + 1 # m + 1 /\ i # m + 1 /\ i + 1 \in 0..m + 1 /\ i \in 0..m + 1
        BY <3>2
      <4>2. h[i + 1] = f[i + 1] /\ h[i] = f[i]
        BY <4>1
      <4>3. f[i + 1] = step[i][f[i]]
        BY <2>1, <4>1
      <4> QED
        BY <4>2, <4>3
    <3> QED
      BY <3>1, <3>2
  <2> HIDE DEF h
  <2>6. (m + 1) - 1 = m
    OBVIOUS
  <2>7. Good(h, m + 1)
    BY <2>3, <2>4, <2>5, <2>6
  <2> HIDE DEF Good
  <2> QED
    BY <2>7
<1>3. P = Nat
  <2> HIDE DEF P
  <2> QED
    BY <1>1, <1>2, InductionOverNat DEF P
<1>4. PICK f : Good(f, n)
  <2>1. n \in P
    BY <1>3
  <2> QED
    BY <2>1
<1>5. Recursion(f, S, first, step, n)
  BY <1>4 DEF Recursion
<1> QED
  BY <1>5

Text == Seq(Lexeme)

\* What FlattenSeq has joined after each of the texts.
Joins(f, texts) ==
  /\ f \in [0..Len(texts) -> Text]
  /\ f[0] = <<>>
  /\ \A i \in 1..Len(texts) : f[i] = f[i - 1] \o texts[i]

LEMMA JoinsExist ==
  ASSUME NEW texts \in Seq(Text)
  PROVE  \E f : Joins(f, texts)
<1> DEFINE len == Len(texts)
           step == [i \in Nat |-> [x \in Text |-> IF i < len THEN x \o texts[i + 1] ELSE x]]
<1>1. len \in Nat /\ <<>> \in Text
  BY DEF Text
<1>2. \A i \in Nat : i < len => texts[i + 1] \in Text
  OBVIOUS
<1>3. step \in [Nat -> [Text -> Text]]
  <2>1. \A x \in Text, y \in Text : x \o y \in Text
    BY JoinIs DEF Text
  <2> HIDE DEF len
  <2> QED
    BY <1>1, <1>2, <2>1
<1>4. \A i \in 1..len, x \in Text : step[i - 1][x] = x \o texts[i]
  <2>1. \A i \in 1..len : i - 1 \in Nat /\ i - 1 < len /\ (i - 1) + 1 = i
    BY <1>1
  <2> HIDE DEF len
  <2> QED
    BY <2>1
<1> HIDE DEF step
<1>5. PICK f : Recursion(f, Text, <<>>, step, len)
  <2> HIDE DEF len
  <2> QED
    BY <1>1, <1>3, RecursionExists
<1>6. ASSUME NEW i \in 1..len PROVE f[i] = f[i - 1] \o texts[i]
  <2>1. i - 1 \in 0..len - 1 /\ (i - 1) + 1 = i /\ i - 1 \in 0..len
    BY <1>1
  <2>2. f[i - 1] \in Text
    BY <1>5, <2>1 DEF Recursion
  <2>3. f[(i - 1) + 1] = step[i - 1][f[i - 1]]
    BY <1>5, <2>1 DEF Recursion
  <2> QED
    BY <1>4, <2>1, <2>2, <2>3
<1> QED
  BY <1>5, <1>6 DEF Joins, Recursion

\* FlattenSeq, the recursive function of SequencesExt, is what has been joined at the end.
LEMMA FlattenIs ==
  ASSUME NEW texts \in Seq(Text)
  PROVE  \E f : Joins(f, texts) /\ FlattenSeq(texts) = f[Len(texts)]
<1>1. CASE Len(texts) = 0
  <2>1. texts = <<>>
    BY <1>1
  <2>2. FlattenSeq(texts) = <<>>
    BY <1>1, <2>1 DEF FlattenSeq
  <2>3. PICK f : Joins(f, texts)
    BY JoinsExist
  <2> QED
    BY <1>1, <2>2, <2>3 DEF Joins
<1>2. CASE Len(texts) # 0
  <2> DEFINE Flattens(f) ==
               f = [i \in 1..Len(texts) |-> IF i = 1 THEN texts[i] ELSE f[i - 1] \o texts[i]]
             flatten == CHOOSE f : Flattens(f)
             len == Len(texts)
  <2>1. PICK h : Joins(h, texts)
    BY JoinsExist
  <2> DEFINE g == [i \in 1..len |-> h[i]]
  <2>2. len \in Nat \ {0}
    BY <1>2
  <2>3. ASSUME NEW i \in 1..len
        PROVE  g[i] = IF i = 1 THEN texts[i] ELSE g[i - 1] \o texts[i]
    <3>1. h[i] = h[i - 1] \o texts[i]
      BY <2>1 DEF Joins
    <3>2. CASE i = 1
      <4>1. texts[i] \in Text
        OBVIOUS
      <4>2. h[0] = <<>> /\ <<>> \o texts[i] = texts[i]
        BY <2>1, <4>1 DEF Joins, Text
      <4>3. g[i] = h[i] /\ i - 1 = 0
        BY <3>2
      <4> QED
        BY <3>1, <3>2, <4>2, <4>3
    <3>3. CASE i # 1
      <4>1. i - 1 \in 1..len
        BY <3>3
      <4> QED
        BY <3>1, <3>3, <4>1
    <3> QED
      BY <3>2, <3>3
  <2>4. Flattens(g)
    <3>1. g = [i \in 1..len |-> g[i]]
      OBVIOUS
    <3> HIDE DEF g
    <3> QED
      BY <2>3, <3>1
  <2>5. Flattens(flatten)
    <3> HIDE DEF Flattens
    <3> QED
      BY <2>4
  <2>6. FlattenSeq(texts) = flatten[len]
    BY <1>2 DEF FlattenSeq
  <2> HIDE DEF flatten, g
  <2> DEFINE P == {n \in Nat : n \in 1..len => flatten[n] = h[n]}
  <2>7. 0 \in P
    OBVIOUS
  <2>8. ASSUME NEW n \in P PROVE n + 1 \in P
    <3>1. ASSUME n + 1 \in 1..len PROVE flatten[n + 1] = h[n + 1]
      <4>1. flatten[n + 1] = IF n + 1 = 1 THEN texts[n + 1] ELSE flatten[(n + 1) - 1] \o texts[n + 1]
        BY <2>5, <3>1
      <4>2. h[n + 1] = h[(n + 1) - 1] \o texts[n + 1]
        BY <2>1, <3>1 DEF Joins
      <4>3. (n + 1) - 1 = n /\ n \in Nat
        OBVIOUS
      <4>4. CASE n = 0
        <5>1. texts[n + 1] \in Text
          BY <3>1
        <5>2. h[0] = <<>> /\ <<>> \o texts[n + 1] = texts[n + 1]
          BY <2>1, <5>1 DEF Joins, Text
        <5>3. n + 1 = 1
          BY <4>4
        <5> QED
          BY <4>1, <4>2, <4>3, <4>4, <5>2, <5>3
      <4>5. CASE n # 0
        <5>1. n \in 1..len /\ n + 1 # 1
          BY <3>1, <4>3, <4>5
        <5>2. flatten[n] = h[n]
          BY <5>1
        <5> QED
          BY <4>1, <4>2, <4>3, <5>1, <5>2
      <4> QED
        BY <4>4, <4>5
    <3>2. n + 1 \in Nat
      OBVIOUS
    <3> QED
      BY <3>1, <3>2, Zenon
  <2>9. P = Nat
    <3> HIDE DEF P
    <3> QED
      BY <2>7, <2>8, InductionOverNat DEF P
  <2>10. flatten[len] = h[len]
    BY <2>2, <2>9
  <2> QED
    BY <2>1, <2>6, <2>10
<1> QED
  BY <1>1, <1>2

LEMMA JoinAssociates ==
  \A x \in Text, y \in Text, z \in Text : (x \o y) \o z = x \o (y \o z)
BY SMTT(30), ConcatAssociative DEF Text

\* Texts are joined in two parts as they are in one.
LEMMA FlattenJoin ==
  ASSUME NEW a \in Seq(Text), NEW b \in Seq(Text)
  PROVE  /\ FlattenSeq(a \o b) = FlattenSeq(a) \o FlattenSeq(b)
         /\ FlattenSeq(a) \in Text
<1>0. PICK la \in Nat, lb \in Nat : la = Len(a) /\ lb = Len(b)
  OBVIOUS
<1>1. PICK f : Joins(f, a) /\ FlattenSeq(a) = f[Len(a)]
  BY FlattenIs
<1>2. PICK g : Joins(g, b) /\ FlattenSeq(b) = g[Len(b)]
  BY FlattenIs
<1> DEFINE c == a \o b
<1>3. /\ c \in Seq(Text) /\ Len(c) = la + lb
      /\ \A i \in 1..la : c[i] = a[i]
      /\ \A i \in 1..lb : c[la + i] = b[i]
  BY <1>0, JoinIs
<1> HIDE DEF c
<1>4. PICK h : Joins(h, c) /\ FlattenSeq(c) = h[Len(c)]
  BY <1>3, FlattenIs
<1>5. /\ h[0] = <<>> /\ \A i \in 1..la + lb : h[i] = h[i - 1] \o c[i]
      /\ f[0] = <<>> /\ \A i \in 1..la : f[i] = f[i - 1] \o a[i]
      /\ g[0] = <<>> /\ \A i \in 1..lb : g[i] = g[i - 1] \o b[i]
      /\ f[la] \in Text /\ \A i \in 0..lb : g[i] \in Text
  <2>1. /\ h[0] = <<>> /\ \A i \in 1..la + lb : h[i] = h[i - 1] \o c[i]
    BY <1>3, <1>4 DEF Joins
  <2>2. /\ f[0] = <<>> /\ \A i \in 1..la : f[i] = f[i - 1] \o a[i]
    BY <1>0, <1>1 DEF Joins
  <2>3. /\ g[0] = <<>> /\ \A i \in 1..lb : g[i] = g[i - 1] \o b[i]
    BY <1>0, <1>2 DEF Joins
  <2>4. f[la] \in Text
    BY <1>0, <1>1 DEF Joins
  <2>5. \A i \in 0..lb : g[i] \in Text
    BY <1>0, <1>2 DEF Joins
  <2> QED
    BY <2>1, <2>2, <2>3, <2>4, <2>5
<1> DEFINE P == {n \in Nat : n <= la => h[n] = f[n]}
           Q == {n \in Nat : n <= lb => h[la + n] = f[la] \o g[n]}
<1>6. 0 \in P
  BY <1>5
<1>7. ASSUME NEW n \in P PROVE n + 1 \in P
  <2>1. ASSUME n + 1 <= la PROVE h[n + 1] = f[n + 1]
    <3>1. n \in Nat /\ n <= la /\ (n + 1) - 1 = n
      BY <2>1
    <3>2. n + 1 \in 1..la /\ n + 1 \in 1..la + lb
      BY <2>1, <3>1
    <3>3. h[n + 1] = h[n] \o c[n + 1] /\ f[n + 1] = f[n] \o a[n + 1]
      BY <1>5, <3>1, <3>2
    <3>4. c[n + 1] = a[n + 1]
      BY <1>0, <1>3, <3>2
    <3>5. h[n] = f[n]
      BY <3>1
    <3> QED
      BY <3>3, <3>4, <3>5
  <2>2. n + 1 \in Nat
    OBVIOUS
  <2> QED
    BY <2>1, <2>2, Zenon
<1>8. P = Nat
  <2> HIDE DEF P
  <2> QED
    BY <1>6, <1>7, InductionOverNat DEF P
<1>9. h[la] = f[la]
  BY <1>8
<1>10. 0 \in Q
  <2>1. f[la] \o <<>> = f[la] /\ la + 0 = la
    BY <1>5 DEF Text
  <2> QED
    BY <1>5, <1>9, <2>1
<1>11. ASSUME NEW n \in Q PROVE n + 1 \in Q
  <2>1. ASSUME n + 1 <= lb PROVE h[la + (n + 1)] = f[la] \o g[n + 1]
    <3>1. n \in Nat /\ n <= lb /\ (n + 1) - 1 = n /\ (la + (n + 1)) - 1 = la + n
      BY <2>1
    <3>2. n + 1 \in 1..lb /\ la + (n + 1) \in 1..la + lb /\ n \in 0..lb
      BY <2>1, <3>1
    <3>3. h[la + (n + 1)] = h[la + n] \o c[la + (n + 1)]
      BY <1>5, <3>1, <3>2
    <3>4. g[n + 1] = g[n] \o b[n + 1]
      BY <1>5, <3>1, <3>2
    <3>5. c[la + (n + 1)] = b[n + 1]
      BY <1>0, <1>3, <3>2
    <3>6. h[la + n] = f[la] \o g[n]
      BY <3>1
    <3>7. g[n] \in Text /\ b[n + 1] \in Text
      BY <1>0, <1>5, <3>2
    <3>8. (f[la] \o g[n]) \o b[n + 1] = f[la] \o (g[n] \o b[n + 1])
      BY <1>5, <3>7, JoinAssociates
    <3> QED
      BY <3>3, <3>4, <3>5, <3>6, <3>8
  <2>2. n + 1 \in Nat
    OBVIOUS
  <2> QED
    BY <2>1, <2>2, Zenon
<1>12. Q = Nat
  <2> HIDE DEF Q
  <2> QED
    BY <1>10, <1>11, InductionOverNat DEF Q
<1>13. h[la + lb] = f[la] \o g[lb]
  <2>1. lb \in Q
    <3> HIDE DEF Q
    <3> QED
      BY <1>12
  <2>2. lb <= lb
    OBVIOUS
  <2> QED
    BY <2>1, <2>2, Zenon
<1> QED
  BY <1>0, <1>1, <1>2, <1>3, <1>4, <1>5, <1>13 DEF c

LEMMA FlattenFew ==
  /\ FlattenSeq(<<>>) = <<>>
  /\ \A x \in Text : FlattenSeq(<<x>>) = x
<1>1. FlattenSeq(<<>>) = <<>>
  BY DEF FlattenSeq
<1>2. ASSUME NEW x \in Text PROVE FlattenSeq(<<x>>) = x
  <2>1. <<x>> \in Seq(Text) /\ Len(<<x>>) = 1 /\ <<x>>[1] = x
    OBVIOUS
  <2>2. PICK f : Joins(f, <<x>>) /\ FlattenSeq(<<x>>) = f[1]
    BY <2>1, FlattenIs
  <2>3. f[0] = <<>> /\ f[1] = f[0] \o x
    <3>1. 1 \in 1..Len(<<x>>) /\ 1 - 1 = 0
      BY <2>1
    <3> QED
      BY <2>1, <2>2, <3>1 DEF Joins
  <2> QED
    BY <2>2, <2>3 DEF Text
<1> QED
  BY <1>1, <1>2

-----------------------------------------------------------------------------
(* Lines.                                                                  *)

InLine == Lexeme \ {"newline"}
Line == Seq(InLine)

LEMMA SequenceOver ==
  ASSUME NEW S, NEW T, NEW s \in Seq(S), \A i \in 1..Len(s) : s[i] \in T
  PROVE  s \in Seq(T)
OBVIOUS

LEMMA LinesAreTexts ==
  ASSUME NEW line \in Line
  PROVE  line \in Text /\ Len(line) \in Nat
<1>1. \A i \in 1..Len(line) : line[i] \in Lexeme
  BY ElementIs DEF Line, InLine
<1> QED
  BY <1>1, SequenceOver DEF Line, Text

LEMMA PartsOfLines ==
  ASSUME NEW line \in Line, NEW n \in 0..Len(line)
  PROVE  Take(line, n) \in Line /\ Drop(line, n) \in Line
BY TakeIs, DropIs DEF Line

\* The rest of a text up to its first newline.
LEMMA LineOf ==
  ASSUME NEW rest \in Text
  PROVE  /\ First(rest, {"newline"}) \in Nat
         /\ Take(rest, First(rest, {"newline"}) - 1) \in Line
<1> DEFINE k == First(rest, {"newline"})
           line == Take(rest, k - 1)
<1>1. k \in 1..Len(rest) + 1 /\ \A i \in 1..k - 1 : rest[i] \in InLine
  BY FirstIs DEF Text, InLine
<1> HIDE DEF k
<1>2. k - 1 \in 0..Len(rest) /\ k \in Nat
  BY <1>1 DEF Text
<1>3. line \in Seq(Lexeme) /\ Len(line) = k - 1 /\ \A i \in 1..k - 1 : line[i] = rest[i]
  BY <1>2, TakeIs DEF Text
<1> HIDE DEF line
<1>4. \A i \in 1..Len(line) : line[i] \in InLine
  BY <1>1, <1>3
<1>5. line \in Line
  BY <1>3, <1>4, SequenceOver DEF Line
<1> QED
  BY <1>2, <1>5 DEF k, line

Follows(x, text) == x + First(Drop(text, x), {"newline"})

LEMMA FollowsIs ==
  ASSUME NEW text \in Text, NEW x \in Nat
  PROVE  Follows(x, text) \in Nat /\ Drop(text, x) \in Text
<1>1. Drop(text, x) \in Text
  BY DropAny DEF Text
<1>2. First(Drop(text, x), {"newline"}) \in Nat
  BY <1>1, LineOf
<1> QED
  BY <1>1, <1>2 DEF Follows

Counts(f, text) ==
  f = [n \in 1..NumLines(text) |->
         IF n = 1 THEN 0 ELSE f[n - 1] + First(Drop(text, f[n - 1]), {"newline"})]

LEMMA CountsExist ==
  ASSUME NEW text \in Text
  PROVE  \E f : Counts(f, text)
<1> DEFINE num == NumLines(text)
           step == [i \in Nat |-> [x \in Nat |-> Follows(x, text)]]
<1>1. num \in Nat
  BY LinesAreCounted DEF Text
<1>2. step \in [Nat -> [Nat -> Nat]]
  BY FollowsIs
<1>3. \A i \in Nat, x \in Nat : step[i][x] = Follows(x, text)
  OBVIOUS
<1> HIDE DEF step
<1>4. PICK h : Recursion(h, Nat, 0, step, num)
  <2> HIDE DEF num
  <2> QED
    BY <1>1, <1>2, RecursionExists
<1> DEFINE g == [n \in 1..num |-> h[n - 1]]
<1> HIDE DEF num
<1>5. ASSUME NEW n \in 1..num
      PROVE  g[n] = IF n = 1 THEN 0 ELSE Follows(g[n - 1], text)
  <2>1. g[n] = h[n - 1]
    OBVIOUS
  <2>2. CASE n = 1
    BY <1>4, <2>1, <2>2 DEF Recursion
  <2>3. CASE n # 1
    <3>1. n - 1 \in 1..num /\ n - 2 \in 0..num - 1 /\ n - 2 \in Nat /\ n - 2 \in 0..num
      BY <1>1, <2>3
    <3>2. g[n - 1] = h[(n - 1) - 1] /\ (n - 1) - 1 = n - 2 /\ (n - 2) + 1 = n - 1
      BY <1>1, <3>1
    <3>3. h[(n - 2) + 1] = step[n - 2][h[n - 2]] /\ h[n - 2] \in Nat
      BY <1>4, <3>1 DEF Recursion
    <3>4. h[n - 1] = Follows(h[n - 2], text)
      BY <1>3, <3>1, <3>2, <3>3
    <3> QED
      BY <2>1, <2>3, <3>2, <3>4
  <2> QED
    BY <2>2, <2>3
<1>6. g = [n \in 1..num |-> g[n]]
  OBVIOUS
<1> HIDE DEF g
<1>7. Counts(g, text)
  BY <1>5, <1>6 DEF Counts, Follows, num
<1> QED
  BY <1>7

\* The lines of a text are texts without a newline.
LEMMA LinesAre ==
  ASSUME NEW text \in Text
  PROVE  /\ DOMAIN Lines(text) = 1..NumLines(text)
         /\ \A n \in 1..NumLines(text) : Lines(text)[n] \in Line
<1> DEFINE before == CHOOSE f : Counts(f, text)
           num == NumLines(text)
           Rest(n) == Drop(text, before[n])
<1>1. Counts(before, text)
  BY CountsExist
<1>2. Lines(text) = [n \in 1..num |-> Take(Rest(n), First(Rest(n), {"newline"}) - 1)]
  BY DEF Lines, Counts
<1> HIDE DEF before
<1>3. num \in Nat
  BY LinesAreCounted DEF Text
<1> HIDE DEF num
<1>4. \A n \in 1..num : before[n] = IF n = 1 THEN 0 ELSE Follows(before[n - 1], text)
  BY <1>1 DEF Counts, Follows, num
<1> DEFINE P == {n \in Nat : n \in 1..num => before[n] \in Nat}
<1>5. 0 \in P
  OBVIOUS
<1>6. ASSUME NEW n \in P PROVE n + 1 \in P
  <2>1. n \in Nat /\ n + 1 \in Nat /\ (n + 1) - 1 = n
    OBVIOUS
  <2>2. ASSUME n + 1 \in 1..num PROVE before[n + 1] \in Nat
    <3>1. CASE n = 0
      <4>1. n + 1 = 1
        BY <3>1
      <4>2. before[n + 1] = 0
        BY <1>4, <2>2, <4>1
      <4> QED
        BY <4>2
    <3>2. CASE n # 0
      <4>1. n \in 1..num /\ n + 1 # 1
        BY <1>3, <2>1, <2>2, <3>2
      <4>2. before[n] \in Nat
        BY <4>1
      <4>3. before[n + 1] = Follows(before[n], text)
        BY <1>4, <2>1, <2>2, <4>1
      <4> QED
        BY <4>2, <4>3, FollowsIs
    <3> QED
      BY <3>1, <3>2
  <2> QED
    BY <2>1, <2>2, Zenon
<1>7. P = Nat
  <2> HIDE DEF P
  <2> QED
    BY <1>5, <1>6, InductionOverNat DEF P
<1>8. ASSUME NEW n \in 1..num PROVE Lines(text)[n] \in Line
  <2>1. n \in P
    <3>1. n \in Nat
      BY <1>3
    <3> HIDE DEF P
    <3> QED
      BY <1>7, <3>1
  <2>2. before[n] \in Nat
    BY <2>1
  <2>3. Rest(n) \in Text
    BY <2>2, FollowsIs
  <2>4. Lines(text)[n] = Take(Rest(n), First(Rest(n), {"newline"}) - 1)
    BY <1>2
  <2> HIDE DEF Rest
  <2> QED
    BY <2>3, <2>4, LineOf
<1>9. DOMAIN Lines(text) = 1..num
  BY <1>2
<1> QED
  BY <1>8, <1>9 DEF num

-----------------------------------------------------------------------------
(* Quotes.                                                                 *)

QuotesTo(line, j) == {k \in 1..j : line[k] = "quote"}

\* A string is open behind the first j lexemes.
Open(line, j) == OddQuotes(Take(line, j))

LEMMA OpenIs ==
  ASSUME NEW line \in Line, NEW j \in 0..Len(line)
  PROVE  /\ IsFiniteSet(QuotesTo(line, j)) /\ Cardinality(QuotesTo(line, j)) \in Nat
         /\ Open(line, j) <=> Cardinality(QuotesTo(line, j)) % 2 = 1
<1> DEFINE t == Take(line, j)
<1>1. Len(t) = j /\ \A i \in 1..j : t[i] = line[i]
  BY TakeIs DEF Line
<1> HIDE DEF t
<1>2. {i \in 1..Len(t) : t[i] = "quote"} = QuotesTo(line, j)
  BY <1>1 DEF QuotesTo
<1>3. OddQuotes(t) <=> Cardinality(QuotesTo(line, j)) % 2 = 1
  BY <1>2 DEF OddQuotes
<1>4. j \in Int
  BY LinesAreTexts
<1>5. IsFiniteSet(1..j)
  BY <1>4, FS_Interval
<1>6. IsFiniteSet(QuotesTo(line, j))
  BY <1>5, FS_Subset DEF QuotesTo
<1>7. Cardinality(QuotesTo(line, j)) \in Nat
  BY <1>6, FS_CardinalityType
<1> QED
  BY <1>3, <1>6, <1>7 DEF Open, t

\* No quote between two places: the string is open at both or at neither.
LEMMA OpenAlong ==
  ASSUME NEW line \in Line, NEW i \in 0..Len(line), NEW j \in i..Len(line),
         \A k \in i + 1..j : line[k] # "quote"
  PROVE  Open(line, j) <=> Open(line, i)
<1>1. j \in 0..Len(line) /\ i \in Nat /\ j \in Nat
  BY LinesAreTexts
<1>2. QuotesTo(line, j) = QuotesTo(line, i)
  <2>1. ASSUME NEW k \in 1..j, line[k] = "quote" PROVE k \in 1..i
    <3>1. ~(k \in i + 1..j)
      BY <2>1
    <3> QED
      BY <1>1, <3>1
  <2>2. \A k \in 1..i : k \in 1..j
    BY <1>1
  <2> QED
    BY <2>1, <2>2 DEF QuotesTo
<1> QED
  BY <1>1, <1>2, OpenIs

\* A quote opens or closes the string.
LEMMA OpenTurns ==
  ASSUME NEW line \in Line, NEW i \in 1..Len(line), line[i] = "quote"
  PROVE  Open(line, i) <=> ~Open(line, i - 1)
<1> DEFINE S == QuotesTo(line, i - 1)
<1>1. i \in 0..Len(line) /\ i - 1 \in 0..Len(line)
  BY LinesAreTexts
<1>2. QuotesTo(line, i) = S \cup {i} /\ i \notin S
  BY LinesAreTexts DEF QuotesTo
<1>3. IsFiniteSet(S) /\ Cardinality(S) \in Nat
  BY <1>1, OpenIs
<1> HIDE DEF S
<1>4. Cardinality(S \cup {i}) = Cardinality(S) + 1
  BY <1>2, <1>3, FS_AddElement
<1>5. PICK c \in Nat : c = Cardinality(S)
  BY <1>3
<1>6. (c + 1) % 2 = 1 <=> ~(c % 2 = 1)
  OBVIOUS
<1>7. Open(line, i) <=> (c + 1) % 2 = 1
  BY <1>1, <1>2, <1>4, <1>5, OpenIs
<1>8. Open(line, i - 1) <=> c % 2 = 1
  BY <1>1, <1>5, OpenIs DEF S
<1> QED
  BY <1>6, <1>7, <1>8

-----------------------------------------------------------------------------
(* What a token can be.                                                    *)

Class == {"none", "hl-expr", "hl-label", "hl-opcode", "hl-directive", "hl-comment"}

Tok == [len : Nat, class : Class, inString : BOOLEAN]

\* No string is opened or closed.  Out of a string, a token is blank or has no space.
PlainToken(t, rest, s) ==
  /\ t.inString = s /\ t.class # "hl-comment"
  /\ \A k \in 1..t.len : rest[k] # "quote" /\ (s \/ rest[k] # "percent")
  /\ s \/ (\A k \in 1..t.len : rest[k] = "space") \/ (\A k \in 1..t.len : rest[k] # "space")

ClosingQuote(t, rest, s) ==
  s /\ ~t.inString /\ t.class # "hl-comment" /\ t.len = 1 /\ rest[1] = "quote"

CommentToken(t, rest, s) ==
  ~s /\ ~t.inString /\ t.class = "hl-comment" /\ t.len = Len(rest) /\ rest[1] = "percent"

\* A string, to its closing quote or to the end of the line.
StringToken(t, rest, s) ==
  /\ ~s /\ t.class # "hl-comment" /\ rest[1] = "quote"
  /\ IF t.inString
     THEN \A k \in 2..t.len : rest[k] # "quote"
     ELSE /\ t.len > 1 /\ rest[t.len] = "quote"
          /\ \A k \in 2..t.len - 1 : rest[k] # "quote"

TokenKinds(t, rest, s) ==
  PlainToken(t, rest, s) \/ ClosingQuote(t, rest, s) \/ CommentToken(t, rest, s)
    \/ StringToken(t, rest, s)

LEMMA RunStarts ==
  ASSUME NEW rest \in Line, Len(rest) > 0, NEW S, rest[1] \in S
  PROVE  /\ Run(rest, S) \in 1..Len(rest)
         /\ \A k \in 1..Run(rest, S) : rest[k] \in S
<1>1. rest \in Seq(Lexeme)
  BY LinesAreTexts DEF Text
<1> DEFINE r == Run(rest, S)
<1>2. /\ r \in 0..Len(rest) /\ \A k \in 1..r : rest[k] \in S
      /\ r < Len(rest) => rest[r + 1] \notin S
  BY <1>1, RunIs
<1> HIDE DEF r
<1>3. r # 0
  BY <1>2
<1>4. r \in 1..Len(rest)
  BY <1>2, <1>3, LinesAreTexts
<1> QED
  BY <1>2, <1>4 DEF r

LEMMA WordClassIs ==
  ASSUME NEW word
  PROVE  WordClass(word) \in {"hl-opcode", "hl-directive", "hl-label"}
BY DEF WordClass

\* The alternatives of token(): each takes a lexeme at least, and is of one kind.
LEMMA TokenIs ==
  ASSUME NEW rest \in Line, Len(rest) > 0, NEW s \in BOOLEAN
  PROVE  /\ Token(rest, s) \in Tok
         /\ Token(rest, s).len \in 1..Len(rest)
         /\ TokenKinds(Token(rest, s), rest, s)
<1> DEFINE t == Token(rest, s)
           Is(n, class, next) == t = [len |-> n, class |-> class, inString |-> next]
           Goal == t \in Tok /\ t.len \in 1..Len(rest) /\ TokenKinds(t, rest, s)
<1> SUFFICES Goal
  OBVIOUS
<1>1. rest[1] \in InLine /\ Len(rest) \in Nat /\ 1 \in 1..Len(rest)
  <2>1. Len(rest) \in Nat /\ 1 \in 1..Len(rest)
    BY LinesAreTexts
  <2> QED
    BY <2>1, ElementIs DEF Line
<1>2. rest \in Seq(Lexeme)
  BY LinesAreTexts DEF Text
<1>3. CASE rest[1] = "space"
  <2> DEFINE n == Run(rest, {"space"})
  <2>1. Is(n, "none", s)
    BY <1>3 DEF Token, Letters
  <2>2. n \in 1..Len(rest) /\ \A k \in 1..n : rest[k] \in {"space"}
    BY <1>3, RunStarts
  <2> HIDE DEF t, n
  <2>3. t \in Tok /\ t.len = n /\ t.class = "none" /\ t.inString = s
    BY <2>1, <2>2 DEF Tok, Class
  <2>4. PlainToken(t, rest, s)
    BY <2>2, <2>3 DEF PlainToken
  <2> QED
    BY <2>2, <2>3, <2>4 DEF TokenKinds
<1>4. CASE s /\ rest[1] \notin {"space", "quote"}
  <2> DEFINE n == Run(rest, Lexeme \ {"quote"})
  <2>1. First(rest, {"quote"}) - 1 = n
    BY <1>2, RunIs DEF First
  <2>2. Is(First(rest, {"quote"}) - 1, "hl-expr", TRUE)
    BY <1>4 DEF Token, Letters
  <2>3. n \in 1..Len(rest) /\ \A k \in 1..n : rest[k] \in Lexeme \ {"quote"}
    BY <1>1, <1>4, RunStarts DEF InLine
  <2> HIDE DEF t, n
  <2>4. t \in Tok /\ t.len = n /\ t.class = "hl-expr" /\ t.inString = TRUE
    BY <2>1, <2>2, <2>3 DEF Tok, Class
  <2>5. PlainToken(t, rest, s)
    BY <1>4, <2>3, <2>4 DEF PlainToken
  <2> QED
    BY <2>3, <2>4, <2>5 DEF TokenKinds
<1>5. CASE s /\ rest[1] = "quote"
  <2>1. Is(1, "hl-expr", FALSE)
    BY <1>5 DEF Token, Letters
  <2> HIDE DEF t
  <2>2. t \in Tok /\ t.len = 1 /\ t.class = "hl-expr" /\ t.inString = FALSE
    BY <2>1 DEF Tok, Class
  <2>3. ClosingQuote(t, rest, s)
    BY <1>5, <2>2 DEF ClosingQuote
  <2> QED
    BY <1>1, <2>2, <2>3 DEF TokenKinds
<1>6. CASE ~s /\ rest[1] = "percent"
  <2>1. Is(Len(rest), "hl-comment", FALSE)
    BY <1>6 DEF Token, Letters
  <2> HIDE DEF t
  <2>2. t \in Tok /\ t.len = Len(rest) /\ t.class = "hl-comment" /\ t.inString = FALSE
    BY <1>1, <2>1 DEF Tok, Class
  <2>3. CommentToken(t, rest, s)
    BY <1>6, <2>2 DEF CommentToken
  <2> QED
    BY <1>1, <2>2, <2>3 DEF TokenKinds
<1>7. CASE ~s /\ rest[1] = "quote"
  <2> DEFINE q == ToQuote(rest)
             d == Drop(rest, 1)
  <2>1. Is(IF q < Len(rest) THEN q + 1 ELSE Len(rest), "hl-expr", ~(q < Len(rest)))
    BY <1>7 DEF Token, Closed, Letters
  <2>2. d \in Seq(Lexeme) /\ Len(d) = Len(rest) - 1 /\ \A i \in 1..Len(rest) - 1 : d[i] = rest[1 + i]
    <3>1. 1 \in 0..Len(rest)
      BY <1>1
    <3> QED
      BY <1>2, <3>1, DropIs
  <2>3. q = First(d, {"quote"})
    BY DEF ToQuote
  <2> HIDE DEF q, d, t
  <2>4. /\ q \in 1..Len(d) + 1 /\ \A i \in 1..q - 1 : d[i] \in Lexeme \ {"quote"}
        /\ q <= Len(d) => d[q] = "quote"
    BY <2>2, <2>3, FirstIs
  <2>5. q \in 1..Len(rest) /\ q - 1 <= Len(rest) - 1
    BY <1>1, <2>2, <2>4
  <2>6. ASSUME NEW k \in 2..q PROVE rest[k] # "quote"
    <3>1. k - 1 \in 1..q - 1 /\ k - 1 \in 1..Len(rest) - 1 /\ 1 + (k - 1) = k
      BY <1>1, <2>5
    <3> QED
      BY <2>2, <2>4, <3>1
  <2>7. CASE q < Len(rest)
    <3>1. q < Len(rest)
      BY <2>7
    <3>2. t \in Tok /\ t.len = q + 1 /\ t.class = "hl-expr" /\ t.inString = FALSE
      <4>1. (IF q < Len(rest) THEN q + 1 ELSE Len(rest)) = q + 1 /\ (~(q < Len(rest))) = FALSE
        BY <3>1
      <4>2. t = [len |-> q + 1, class |-> "hl-expr", inString |-> FALSE]
        BY <2>1, <4>1, Zenon
      <4>3. q + 1 \in Nat
        BY <1>1, <2>5
      <4> QED
        BY <4>2, <4>3 DEF Tok, Class
    <3>3. rest[q + 1] = "quote"
      <4>1. q <= Len(d) /\ q \in 1..Len(rest) - 1 /\ 1 + q = q + 1
        BY <1>1, <2>2, <2>5, <3>1
      <4> QED
        BY <2>2, <2>4, <4>1
    <3>4. (q + 1) - 1 = q /\ q + 1 > 1 /\ q + 1 \in 1..Len(rest)
      BY <1>1, <2>5, <3>1
    <3>5. StringToken(t, rest, s)
      BY <1>7, <2>6, <3>2, <3>3, <3>4 DEF StringToken
    <3> QED
      BY <3>2, <3>4, <3>5 DEF TokenKinds
  <2>8. CASE ~(q < Len(rest))
    <3>1. ~(q < Len(rest))
      BY <2>8
    <3>2. q = Len(rest)
      BY <1>1, <2>5, <3>1
    <3>3. t \in Tok /\ t.len = q /\ t.class = "hl-expr" /\ t.inString = TRUE
      BY <1>1, <2>1, <2>8, <3>2 DEF Tok, Class
    <3>4. StringToken(t, rest, s)
      BY <1>7, <2>6, <3>3 DEF StringToken
    <3> QED
      BY <2>5, <3>3, <3>4 DEF TokenKinds
  <2> QED
    BY <2>7, <2>8
<1>8. CASE ~s /\ rest[1] \in Letters
  <2> DEFINE n == Run(rest, WordChars)
             class == WordClass(Take(rest, n))
  <2>1. Is(n, class, FALSE)
    BY <1>8 DEF Token, Letters
  <2>2. n \in 1..Len(rest) /\ \A k \in 1..n : rest[k] \in WordChars
    BY <1>8, RunStarts DEF WordChars
  <2>3. class \in {"hl-opcode", "hl-directive", "hl-label"}
    BY WordClassIs
  <2> HIDE DEF t, n, class
  <2>4. t \in Tok /\ t.len = n /\ t.class = class /\ t.inString = FALSE
    BY <2>1, <2>2, <2>3 DEF Tok, Class
  <2>5. \A k \in 1..n : rest[k] \notin {"quote", "percent", "space"}
    BY <2>2 DEF WordChars, Letters
  <2>6. PlainToken(t, rest, s)
    BY <1>8, <2>3, <2>4, <2>5 DEF PlainToken
  <2> QED
    BY <2>2, <2>4, <2>6 DEF TokenKinds
<1>9. CASE ~s /\ rest[1] = "digit"
  <2> DEFINE n == Run(rest, {"digit"})
  <2>1. Is(n, "hl-expr", FALSE)
    BY <1>9 DEF Token, Letters
  <2>2. n \in 1..Len(rest) /\ \A k \in 1..n : rest[k] \in {"digit"}
    BY <1>9, RunStarts
  <2> HIDE DEF t, n
  <2>3. t \in Tok /\ t.len = n /\ t.class = "hl-expr" /\ t.inString = FALSE
    BY <2>1, <2>2 DEF Tok, Class
  <2>4. PlainToken(t, rest, s)
    BY <1>9, <2>2, <2>3 DEF PlainToken
  <2> QED
    BY <2>2, <2>3, <2>4 DEF TokenKinds
<1>10. CASE ~s /\ rest[1] = "sign"
  <2>1. Is(1, "none", FALSE)
    BY <1>10 DEF Token, Letters
  <2> HIDE DEF t
  <2>2. t \in Tok /\ t.len = 1 /\ t.class = "none" /\ t.inString = FALSE
    BY <2>1 DEF Tok, Class
  <2>3. \A k \in 1..1 : k = 1
    OBVIOUS
  <2>4. PlainToken(t, rest, s)
    BY <1>10, <2>2, <2>3 DEF PlainToken
  <2> QED
    BY <1>1, <2>2, <2>4 DEF TokenKinds
<1>11. \/ rest[1] = "space" \/ rest[1] = "quote" \/ rest[1] = "percent" \/ rest[1] \in Letters
       \/ rest[1] = "digit" \/ rest[1] = "sign"
  BY <1>1 DEF InLine, Lexeme, WordChars
<1> HIDE DEF Goal, t
<1> QED
  BY <1>3, <1>4, <1>5, <1>6, <1>7, <1>8, <1>9, <1>10, <1>11

-----------------------------------------------------------------------------
(* The texts of pieces, and of those that are comments.                    *)

Pieces == [text : Text, class : Class]

CommentOf(p) == IF p.class = "hl-comment" THEN p.text ELSE <<>>

LEMMA PieceIs ==
  ASSUME NEW text \in Text, NEW class \in Class
  PROVE  /\ Piece(text, class) \in Pieces
         /\ Piece(text, class).text = text /\ Piece(text, class).class = class
         /\ <<Piece(text, class)>> \in Seq(Pieces)
BY DEF Piece, Pieces

LEMMA CommentOfIs ==
  ASSUME NEW p \in Pieces
  PROVE  p.text \in Text /\ CommentOf(p) \in Text
BY DEF Pieces, CommentOf, Text

LEMMA TextsOfPieces ==
  ASSUME NEW a \in Seq(Pieces)
  PROVE  /\ [i \in DOMAIN a |-> a[i].text] \in Seq(Text)
         /\ [i \in DOMAIN a |-> CommentOf(a[i])] \in Seq(Text)
         /\ Commented(a) = FlattenSeq([i \in DOMAIN a |-> CommentOf(a[i])])
<1>1. DOMAIN a = 1..Len(a) /\ Len(a) \in Nat /\ \A i \in 1..Len(a) : a[i] \in Pieces
  BY ElementIs
<1>2. [i \in DOMAIN a |-> a[i].text] \in Seq(Text)
  BY <1>1, CommentOfIs
<1>3. [i \in DOMAIN a |-> CommentOf(a[i])] \in Seq(Text)
  BY <1>1, CommentOfIs
<1>4. Commented(a) = FlattenSeq([i \in DOMAIN a |-> CommentOf(a[i])])
  BY DEF Commented, CommentOf
<1> QED
  BY <1>2, <1>3, <1>4

\* The texts, and the comments, of pieces one behind the other.
LEMMA TextsJoin ==
  ASSUME NEW a \in Seq(Pieces), NEW b \in Seq(Pieces)
  PROVE  /\ a \o b \in Seq(Pieces)
         /\ Texts(a \o b) = Texts(a) \o Texts(b) /\ Texts(a) \in Text
         /\ Commented(a \o b) = Commented(a) \o Commented(b) /\ Commented(a) \in Text
<1> DEFINE c == a \o b
           la == Len(a)
           lb == Len(b)
           T(s) == [i \in DOMAIN s |-> s[i].text]
           C(s) == [i \in DOMAIN s |-> CommentOf(s[i])]
<1>1. /\ c \in Seq(Pieces) /\ Len(c) = la + lb
      /\ \A i \in 1..la : c[i] = a[i]
      /\ \A i \in 1..lb : c[la + i] = b[i]
  BY JoinIs
<1>2. la \in Nat /\ lb \in Nat /\ DOMAIN a = 1..la /\ DOMAIN b = 1..lb
  OBVIOUS
<1> HIDE DEF c, la, lb
<1>3. DOMAIN c = 1..la + lb
  BY <1>1
<1>4. ASSUME NEW x \in Seq(Text), NEW y \in Seq(Text), NEW z \in Seq(Text),
             Len(x) = la, Len(y) = lb, Len(z) = la + lb,
             \A i \in 1..la : z[i] = x[i], \A i \in 1..lb : z[la + i] = y[i]
      PROVE  FlattenSeq(z) = FlattenSeq(x) \o FlattenSeq(y)
  <2>1. /\ x \o y \in Seq(Text) /\ Len(x \o y) = la + lb
        /\ \A i \in 1..la : (x \o y)[i] = x[i]
        /\ \A i \in 1..lb : (x \o y)[la + i] = y[i]
    <3>1. PICK m, n : m = Len(x) /\ n = Len(y)
      OBVIOUS
    <3>2. /\ x \o y \in Seq(Text) /\ Len(x \o y) = m + n
          /\ \A i \in 1..m : (x \o y)[i] = x[i]
          /\ \A i \in 1..n : (x \o y)[m + i] = y[i]
      BY <3>1, JoinIs
    <3> QED
      BY <1>4, <3>1, <3>2
  <2>2. ASSUME NEW i \in 1..la + lb PROVE z[i] = (x \o y)[i]
    <3>1. CASE i \in 1..la
      BY <1>4, <2>1, <3>1
    <3>2. CASE i \notin 1..la
      <4>1. i - la \in 1..lb /\ la + (i - la) = i
        BY <1>2, <3>2
      <4>2. z[la + (i - la)] = (x \o y)[la + (i - la)]
        BY <1>4, <2>1, <4>1
      <4> QED
        BY <4>1, <4>2
    <3> QED
      BY <3>1, <3>2
  <2>3. z = x \o y
    BY <1>4, <2>1, <2>2, SameSequence
  <2> QED
    BY <2>3, FlattenJoin
<1>5. Texts(c) = Texts(a) \o Texts(b) /\ Texts(a) \in Text
  <2>1. T(a) \in Seq(Text) /\ T(b) \in Seq(Text) /\ T(c) \in Seq(Text)
    BY <1>1, TextsOfPieces
  <2>2. Len(T(a)) = la /\ Len(T(b)) = lb /\ Len(T(c)) = la + lb
    BY <1>2, <1>3
  <2>3. /\ \A i \in 1..la : T(c)[i] = T(a)[i]
        /\ \A i \in 1..lb : T(c)[la + i] = T(b)[i]
    BY <1>1, <1>2, <1>3
  <2>4. Texts(a) = FlattenSeq(T(a)) /\ Texts(b) = FlattenSeq(T(b)) /\ Texts(c) = FlattenSeq(T(c))
    BY DEF Texts
  <2> HIDE DEF T
  <2>5. FlattenSeq(T(c)) = FlattenSeq(T(a)) \o FlattenSeq(T(b))
    BY <1>4, <2>1, <2>2, <2>3
  <2> QED
    BY <2>1, <2>4, <2>5, FlattenJoin
<1>6. Commented(c) = Commented(a) \o Commented(b) /\ Commented(a) \in Text
  <2>1. C(a) \in Seq(Text) /\ C(b) \in Seq(Text) /\ C(c) \in Seq(Text)
    BY <1>1, TextsOfPieces
  <2>2. Len(C(a)) = la /\ Len(C(b)) = lb /\ Len(C(c)) = la + lb
    BY <1>2, <1>3
  <2>3. /\ \A i \in 1..la : C(c)[i] = C(a)[i]
        /\ \A i \in 1..lb : C(c)[la + i] = C(b)[i]
    BY <1>1, <1>2, <1>3
  <2>4. /\ Commented(a) = FlattenSeq(C(a)) /\ Commented(b) = FlattenSeq(C(b))
        /\ Commented(c) = FlattenSeq(C(c))
    BY <1>1, TextsOfPieces
  <2> HIDE DEF C
  <2>5. FlattenSeq(C(c)) = FlattenSeq(C(a)) \o FlattenSeq(C(b))
    BY <1>4, <2>1, <2>2, <2>3
  <2> QED
    BY <2>1, <2>4, <2>5, FlattenJoin
<1> QED
  BY <1>1, <1>5, <1>6 DEF c

LEMMA TextsFew ==
  /\ <<>> \in Seq(Pieces) /\ Texts(<<>>) = <<>> /\ Commented(<<>>) = <<>>
  /\ \A p \in Pieces : Texts(<<p>>) = p.text /\ Commented(<<p>>) = CommentOf(p)
<1> DEFINE none == [i \in DOMAIN <<>> |-> <<>>]
<1>1. <<>> \in Seq(Pieces) /\ DOMAIN <<>> = {}
  OBVIOUS
<1>2. Texts(<<>>) = <<>>
  <2>1. [i \in DOMAIN <<>> |-> <<>>[i].text] = <<>>
    BY <1>1
  <2> QED
    BY <2>1, FlattenFew DEF Texts
<1>3. Commented(<<>>) = <<>>
  <2>1. [i \in DOMAIN <<>> |-> CommentOf(<<>>[i])] = <<>>
    BY <1>1
  <2> QED
    BY <1>1, <2>1, TextsOfPieces, FlattenFew
<1>4. ASSUME NEW p \in Pieces PROVE Texts(<<p>>) = p.text /\ Commented(<<p>>) = CommentOf(p)
  <2> DEFINE s == <<p>>
             x == [i \in DOMAIN s |-> s[i].text]
             y == [i \in DOMAIN s |-> CommentOf(s[i])]
  <2>1. s \in Seq(Pieces) /\ DOMAIN s = 1..1 /\ s[1] = p
    OBVIOUS
  <2>2. p.text \in Text /\ CommentOf(p) \in Text
    BY CommentOfIs
  <2>3. Texts(s) = FlattenSeq(x) /\ Commented(s) = FlattenSeq(y)
    BY <2>1, TextsOfPieces DEF Texts
  <2> HIDE DEF s
  <2>4. x = <<p.text>> /\ y = <<CommentOf(p)>>
    <3>1. /\ x \in Seq(Text) /\ Len(x) = 1 /\ x[1] = p.text
          /\ y \in Seq(Text) /\ Len(y) = 1 /\ y[1] = CommentOf(p)
      <4>1. x \in Seq(Text) /\ y \in Seq(Text)
        BY <2>1, TextsOfPieces
      <4>2. DOMAIN x = 1..1 /\ x[1] = p.text /\ DOMAIN y = 1..1 /\ y[1] = CommentOf(p)
        BY <2>1
      <4> HIDE DEF x, y
      <4> QED
        BY <4>1, <4>2
    <3>2. /\ <<p.text>> \in Seq(Text) /\ Len(<<p.text>>) = 1
          /\ <<CommentOf(p)>> \in Seq(Text) /\ Len(<<CommentOf(p)>>) = 1
      BY <2>2
    <3> HIDE DEF x, y
    <3>3. x = <<p.text>>
      BY <3>1, <3>2, SameSequence
    <3>4. y = <<CommentOf(p)>>
      BY <3>1, <3>2, SameSequence
    <3> QED
      BY <3>3, <3>4
  <2> HIDE DEF x, y
  <2>5. Texts(s) = p.text /\ Commented(s) = CommentOf(p)
    BY <2>2, <2>3, <2>4, FlattenFew
  <2> QED
    BY <2>5 DEF s
<1> QED
  BY <1>1, <1>2, <1>3, <1>4

-----------------------------------------------------------------------------
(* The tokens of a line, from the last lexemes to the first.               *)

Ending(line, n) == Drop(line, Len(line) - n)

ScanAt(f, line, n, s) ==
  IF n = 0 THEN [pieces |-> <<>>, inString |-> s]
  ELSE LET t == Token(Ending(line, n), s)
           after == f[n - t.len][t.inString]
       IN [pieces |-> <<Piece(Take(Ending(line, n), t.len), t.class)>> \o after.pieces,
           inString |-> after.inString]

Scans(f, line, m) == f = [n \in 0..m |-> [s \in BOOLEAN |-> ScanAt(f, line, n, s)]]

\* The last n lexemes of a line.
LEMMA EndingIs ==
  ASSUME NEW line \in Line, NEW n \in 0..Len(line)
  PROVE  /\ Ending(line, n) \in Line /\ Len(Ending(line, n)) = n
         /\ \A k \in 1..n : Ending(line, n)[k] = line[(Len(line) - n) + k]
<1> DEFINE len == Len(line)
           d == Drop(line, len - n)
<1>1. len \in Nat /\ line \in Seq(InLine)
  BY LinesAreTexts DEF Line
<1>2. len - n \in 0..len /\ len - (len - n) = n
  BY <1>1
<1>3. /\ d \in Seq(InLine) /\ Len(d) = len - (len - n)
      /\ \A i \in 1..len - (len - n) : d[i] = line[(len - n) + i]
  BY <1>1, <1>2, DropIs
<1> HIDE DEF d, len
<1>4. d \in Line /\ Len(d) = n /\ \A i \in 1..n : d[i] = line[(len - n) + i]
  BY <1>2, <1>3 DEF Line
<1> QED
  BY <1>4 DEF Ending, d, len

\* A token of the last n lexemes, n > 0, is one of them at least.
LEMMA TokenOfEnding ==
  ASSUME NEW line \in Line, NEW n \in 1..Len(line), NEW s \in BOOLEAN
  PROVE  LET t == Token(Ending(line, n), s)
         IN /\ t \in Tok /\ t.len \in 1..n /\ n - t.len \in 0..n - 1
            /\ t.inString \in BOOLEAN /\ t.class \in Class
            /\ TokenKinds(t, Ending(line, n), s)
<1> DEFINE t == Token(Ending(line, n), s)
<1>1. n \in 0..Len(line) /\ n \in Nat /\ n > 0
  BY LinesAreTexts
<1>2. Ending(line, n) \in Line /\ Len(Ending(line, n)) = n
  BY <1>1, EndingIs
<1>3. t \in Tok /\ t.len \in 1..n /\ TokenKinds(t, Ending(line, n), s)
  BY <1>1, <1>2, TokenIs
<1> HIDE DEF t
<1>4. n - t.len \in 0..n - 1
  BY <1>1, <1>3
<1>5. t.inString \in BOOLEAN /\ t.class \in Class
  BY <1>3 DEF Tok
<1> QED
  BY <1>3, <1>4, <1>5 DEF t

LEMMA ScanAtAgrees ==
  ASSUME NEW line \in Line, NEW n \in 0..Len(line), NEW s \in BOOLEAN, NEW f, NEW h,
         \A k \in 0..n - 1 : f[k] = h[k]
  PROVE  ScanAt(f, line, n, s) = ScanAt(h, line, n, s)
<1>1. CASE n = 0
  BY <1>1 DEF ScanAt
<1>2. CASE n # 0
  <2> DEFINE t == Token(Ending(line, n), s)
  <2>1. n \in 1..Len(line)
    BY <1>2, LinesAreTexts
  <2>2. n - t.len \in 0..n - 1
    BY <2>1, TokenOfEnding
  <2>3. f[n - t.len] = h[n - t.len]
    BY <2>2
  <2> QED
    BY <2>3 DEF ScanAt
<1> QED
  BY <1>1, <1>2

\* The recursive function of Tokens exists: a token is one lexeme at least, so that
\* what it leaves is shorter.
LEMMA ScansExist ==
  ASSUME NEW line \in Line
  PROVE  \E f : Scans(f, line, Len(line))
<1> DEFINE len == Len(line)
           P == {m \in Nat : m <= len => \E f : Scans(f, line, m)}
<1>1. len \in Nat
  BY LinesAreTexts
<1>2. ASSUME NEW m \in 0..len, NEW f, NEW h, f = [n \in 0..m - 1 |-> f[n]],
             \A n \in 0..m - 1 : f[n] = [s \in BOOLEAN |-> ScanAt(f, line, n, s)],
             h = [n \in 0..m |-> IF n = m THEN [s \in BOOLEAN |-> ScanAt(f, line, m, s)] ELSE f[n]]
      PROVE  Scans(h, line, m)
  <2>1. ASSUME NEW n \in 0..m PROVE h[n] = [s \in BOOLEAN |-> ScanAt(h, line, n, s)]
    <3>1. \A k \in 0..n - 1 : f[k] = h[k]
      BY <1>1, <1>2
    <3>2. n \in 0..len
      BY <1>1
    <3>3. \A s \in BOOLEAN : ScanAt(f, line, n, s) = ScanAt(h, line, n, s)
      BY <3>1, <3>2, ScanAtAgrees
    <3>4. h[n] = [s \in BOOLEAN |-> ScanAt(f, line, n, s)]
      <4>1. CASE n = m
        BY <1>2, <4>1
      <4>2. CASE n # m
        <5>1. n \in 0..m - 1
          BY <1>1, <4>2
        <5>2. h[n] = f[n]
          BY <1>2, <4>2
        <5> QED
          BY <1>2, <5>1, <5>2
      <4> QED
        BY <4>1, <4>2
    <3> QED
      BY <3>3, <3>4
  <2>2. h = [n \in 0..m |-> h[n]]
    BY <1>2
  <2> QED
    BY <2>1, <2>2 DEF Scans
<1>3. 0 \in P
  <2> DEFINE f == [n \in 0..0 - 1 |-> <<>>]
             h == [n \in 0..0 |-> IF n = 0 THEN [s \in BOOLEAN |-> ScanAt(f, line, 0, s)] ELSE f[n]]
  <2>1. 0 \in 0..len /\ 0..0 - 1 = {}
    BY <1>1
  <2>2. f = [n \in 0..0 - 1 |-> f[n]]
    OBVIOUS
  <2>3. \A n \in 0..0 - 1 : f[n] = [s \in BOOLEAN |-> ScanAt(f, line, n, s)]
    BY <2>1
  <2> HIDE DEF f
  <2>4. Scans(h, line, 0)
    BY <1>2, <2>1, <2>2, <2>3
  <2> HIDE DEF h
  <2> QED
    BY <2>4
<1>4. ASSUME NEW m \in P PROVE m + 1 \in P
  <2>1. m \in Nat /\ m + 1 \in Nat /\ (m + 1) - 1 = m
    OBVIOUS
  <2>2. ASSUME m + 1 <= len PROVE \E f : Scans(f, line, m + 1)
    <3>1. m <= len /\ m + 1 \in 0..len
      BY <1>1, <2>1, <2>2
    <3>2. PICK f : Scans(f, line, m)
      BY <3>1
    <3>3. f = [n \in 0..m |-> f[n]] /\ \A n \in 0..m : f[n] = [s \in BOOLEAN |-> ScanAt(f, line, n, s)]
      BY <3>2 DEF Scans
    <3> DEFINE h == [n \in 0..m + 1 |->
                       IF n = m + 1 THEN [s \in BOOLEAN |-> ScanAt(f, line, m + 1, s)] ELSE f[n]]
    <3>4. PICK q : q = m + 1
      OBVIOUS
    <3>5. q - 1 = m /\ q \in 0..len
      BY <2>1, <3>1, <3>4
    <3>6. h = [n \in 0..q |-> IF n = q THEN [s \in BOOLEAN |-> ScanAt(f, line, q, s)] ELSE f[n]]
      BY <3>4
    <3>7. f = [n \in 0..q - 1 |-> f[n]]
      BY <3>3, <3>5
    <3>8. \A n \in 0..q - 1 : f[n] = [s \in BOOLEAN |-> ScanAt(f, line, n, s)]
      BY <3>3, <3>5
    <3> HIDE DEF h, P
    <3>9. Scans(h, line, q)
      BY <1>2, <3>5, <3>6, <3>7, <3>8
    <3> QED
      BY <3>4, <3>9
  <2> QED
    BY <2>1, <2>2, Zenon
<1>5. P = Nat
  <2> HIDE DEF P
  <2> QED
    BY <1>3, <1>4, InductionOverNat DEF P
<1>6. len \in P
  <2> HIDE DEF P
  <2> QED
    BY <1>1, <1>5
<1>7. len <= len
  BY <1>1
<1> QED
  BY <1>6, <1>7, Zenon

\* Tokens(line, s) is what the recursive function says of the whole line.
LEMMA TokensAre ==
  ASSUME NEW line \in Line
  PROVE  \E f : /\ \A n \in 0..Len(line), s \in BOOLEAN : f[n][s] = ScanAt(f, line, n, s)
                /\ \A s \in BOOLEAN : Tokens(line, s) = f[Len(line)][s]
<1> DEFINE scan == CHOOSE f : Scans(f, line, Len(line))
<1>1. Scans(scan, line, Len(line))
  BY ScansExist
<1>2. \A s \in BOOLEAN : Tokens(line, s) = scan[Len(line)][s]
  BY DEF Tokens, Scans, ScanAt, Ending
<1> HIDE DEF scan
<1>3. \A n \in 0..Len(line), s \in BOOLEAN : scan[n][s] = ScanAt(scan, line, n, s)
  BY <1>1 DEF Scans
<1> QED
  BY <1>2, <1>3

\* What has been scanned of each end of a line, in each state.
Scanned(f, line) ==
  \A n \in 0..Len(line), s \in BOOLEAN : f[n][s] = ScanAt(f, line, n, s)

TokenPiece(line, n, t) == Piece(Take(Ending(line, n), t.len), t.class)

LEMMA ScanStarts ==
  ASSUME NEW line \in Line, NEW f, Scanned(f, line), NEW s \in BOOLEAN
  PROVE  f[0][s].pieces = <<>> /\ f[0][s].inString = s
<1>1. 0 \in 0..Len(line)
  BY LinesAreTexts
<1>2. f[0][s] = ScanAt(f, line, 0, s)
  BY <1>1 DEF Scanned
<1>3. ScanAt(f, line, 0, s) = [pieces |-> <<>>, inString |-> s]
  BY DEF ScanAt
<1> QED
  BY <1>2, <1>3

\* What is left behind the token is the end of the line.
LEMMA EndingSplits ==
  ASSUME NEW line \in Line, NEW n \in 0..Len(line), NEW k \in 0..n
  PROVE  /\ Take(Ending(line, n), k) \in Text
         /\ Take(Ending(line, n), k) \o Ending(line, n - k) = Ending(line, n)
<1> DEFINE len == Len(line)
           d == Ending(line, n)
<1>1. len \in Nat /\ line \in Seq(InLine)
  BY LinesAreTexts DEF Line
<1>2. d \in Line /\ Len(d) = n
  BY EndingIs
<1>3. len - n \in 0..len /\ k \in 0..len - (len - n) /\ (len - n) + k = len - (n - k)
  BY <1>1
<1>4. Drop(d, k) = Ending(line, n - k)
  <2>1. Drop(Drop(line, len - n), k) = Drop(line, (len - n) + k)
    BY <1>1, <1>3, DropTwice
  <2> QED
    BY <1>3, <2>1 DEF Ending
<1> HIDE DEF d
<1>5. k \in 0..Len(d)
  BY <1>2
<1>6. Take(d, k) \o Drop(d, k) = d
  BY <1>2, <1>5, TakeAndDrop DEF Line
<1>7. Take(d, k) \in Text
  BY <1>2, <1>5, PartsOfLines, LinesAreTexts
<1> QED
  BY <1>4, <1>6, <1>7 DEF d

LEMMA TokenPieceIs ==
  ASSUME NEW line \in Line, NEW n \in 1..Len(line), NEW s \in BOOLEAN,
         NEW t, t = Token(Ending(line, n), s)
  PROVE  /\ TokenPiece(line, n, t) \in Pieces
         /\ TokenPiece(line, n, t).text = Take(Ending(line, n), t.len)
         /\ TokenPiece(line, n, t).class = t.class
<1>1. n \in 0..Len(line) /\ t.len \in 0..n /\ t.class \in Class
  BY TokenOfEnding, LinesAreTexts
<1>2. Take(Ending(line, n), t.len) \in Text
  BY <1>1, EndingSplits
<1> QED
  BY <1>1, <1>2, PieceIs DEF TokenPiece

\* One step of the scan: the token t, the piece p of it, and what is scanned behind it.
ScanStep(f, line, n, s, t, p, a) ==
  /\ t = Token(Ending(line, n), s) /\ t \in Tok
  /\ t.len \in 1..n /\ n - t.len \in 0..n - 1 /\ t.inString \in BOOLEAN
  /\ TokenKinds(t, Ending(line, n), s)
  /\ p = TokenPiece(line, n, t) /\ p \in Pieces
  /\ p.text = Take(Ending(line, n), t.len) /\ p.class = t.class
  /\ a = f[n - t.len][t.inString]
  /\ f[n][s].pieces = <<p>> \o a.pieces /\ f[n][s].inString = a.inString

LEMMA ScanSteps ==
  ASSUME NEW line \in Line, NEW f, Scanned(f, line), NEW n \in 1..Len(line), NEW s \in BOOLEAN
  PROVE  \E t, p, a : ScanStep(f, line, n, s, t, p, a)
<1>1. PICK t : t = Token(Ending(line, n), s)
  OBVIOUS
<1>2. PICK a : a = f[n - t.len][t.inString]
  OBVIOUS
<1>3. PICK p : p = TokenPiece(line, n, t)
  OBVIOUS
<1>4. PICK b : b = <<p>> \o a.pieces
  OBVIOUS
<1>5. n \in 0..Len(line) /\ n # 0
  BY LinesAreTexts
<1>6. f[n][s] = ScanAt(f, line, n, s)
  BY <1>5 DEF Scanned
<1>7. ScanAt(f, line, n, s) = [pieces |-> b, inString |-> a.inString]
  BY <1>1, <1>2, <1>3, <1>4, <1>5 DEF ScanAt, TokenPiece
<1>8. f[n][s].pieces = <<p>> \o a.pieces /\ f[n][s].inString = a.inString
  BY <1>4, <1>6, <1>7
<1>9. /\ t \in Tok /\ t.len \in 1..n /\ n - t.len \in 0..n - 1 /\ t.inString \in BOOLEAN
      /\ TokenKinds(t, Ending(line, n), s)
  BY <1>1, TokenOfEnding
<1>10. p \in Pieces /\ p.text = Take(Ending(line, n), t.len) /\ p.class = t.class
  BY <1>1, <1>3, TokenPieceIs
<1>11. ScanStep(f, line, n, s, t, p, a)
  BY <1>1, <1>2, <1>3, <1>8, <1>9, <1>10, Zenon DEF ScanStep
<1> QED
  BY <1>11

\* Induction on the rest of the line: the tokens of it are its text.
LEMMA ScanKeepsText ==
  ASSUME NEW line \in Line, NEW f, Scanned(f, line)
  PROVE  \A n \in 0..Len(line), s \in BOOLEAN :
           /\ f[n][s].pieces \in Seq(Pieces) /\ f[n][s].inString \in BOOLEAN
           /\ Texts(f[n][s].pieces) = Ending(line, n)
<1> DEFINE len == Len(line)
           Good(n) == \A s \in BOOLEAN : /\ f[n][s].pieces \in Seq(Pieces)
                                         /\ f[n][s].inString \in BOOLEAN
                                         /\ Texts(f[n][s].pieces) = Ending(line, n)
           S == {n \in 0..len : Good(n)}
<1>1. len \in Nat
  BY LinesAreTexts
<1>2. Good(0)
  <2>1. ASSUME NEW s \in BOOLEAN
        PROVE  /\ f[0][s].pieces \in Seq(Pieces) /\ f[0][s].inString \in BOOLEAN
               /\ Texts(f[0][s].pieces) = Ending(line, 0)
    <3>1. f[0][s].pieces = <<>> /\ f[0][s].inString = s
      BY ScanStarts
    <3>2. Ending(line, 0) = <<>>
      <4>1. 0 \in 0..len
        BY <1>1
      <4>2. Ending(line, 0) \in Line /\ Len(Ending(line, 0)) = 0
        BY <4>1, EndingIs
      <4> QED
        BY <4>2 DEF Line
    <3> QED
      BY <3>1, <3>2, TextsFew
  <2> QED
    BY <2>1
<1>3. ASSUME NEW n \in 1..len, \A m \in 0..n - 1 : Good(m) PROVE Good(n)
  <2>1. ASSUME NEW s \in BOOLEAN
        PROVE  /\ f[n][s].pieces \in Seq(Pieces) /\ f[n][s].inString \in BOOLEAN
               /\ Texts(f[n][s].pieces) = Ending(line, n)
    <3>1. PICK t, p, a : ScanStep(f, line, n, s, t, p, a)
      BY ScanSteps
    <3>2. t.len \in 1..n /\ n - t.len \in 0..n - 1 /\ t.inString \in BOOLEAN
      BY <3>1 DEF ScanStep
    <3>4. a.pieces \in Seq(Pieces) /\ a.inString \in BOOLEAN /\ Texts(a.pieces) = Ending(line, n - t.len)
      BY <1>3, <3>1, <3>2 DEF ScanStep
    <3>6. p \in Pieces /\ p.text = Take(Ending(line, n), t.len)
      BY <3>1 DEF ScanStep
    <3>7. f[n][s].pieces = <<p>> \o a.pieces /\ f[n][s].inString = a.inString
      BY <3>1 DEF ScanStep
    <3>8. <<p>> \in Seq(Pieces)
      BY <3>6
    <3>9. /\ <<p>> \o a.pieces \in Seq(Pieces)
          /\ Texts(<<p>> \o a.pieces) = Texts(<<p>>) \o Texts(a.pieces)
      BY <3>4, <3>8, TextsJoin
    <3>10. Texts(<<p>>) = p.text
      BY <3>6, TextsFew
    <3>11. Take(Ending(line, n), t.len) \o Ending(line, n - t.len) = Ending(line, n)
      <4>1. n \in 0..Len(line) /\ t.len \in 0..n
        BY <1>1, <3>2
      <4> QED
        BY <4>1, EndingSplits
    <3>12. Texts(f[n][s].pieces) = Ending(line, n)
      BY <3>4, <3>6, <3>7, <3>9, <3>10, <3>11
    <3> QED
      BY <3>4, <3>7, <3>9, <3>12
  <2> QED
    BY <2>1
<1> HIDE DEF Good
<1>4. ASSUME NEW n \in 0..len, \A m \in 0..n - 1 : m \in S PROVE n \in S
  <2>1. \A m \in 0..n - 1 : Good(m)
    BY <1>4
  <2>2. CASE n = 0
    BY <1>2, <2>2
  <2>3. CASE n # 0
    <3>1. n \in 1..len
      BY <1>1, <2>3
    <3> QED
      BY <1>3, <2>1, <3>1
  <2> QED
    BY <2>2, <2>3
<1>5. \A n \in 0..len : n \in S
  <2> HIDE DEF S
  <2> QED
    BY <1>1, <1>4, StrongInduction
<1> QED
  BY <1>5 DEF Good

\* The editor's tokens are the line.
LEMMA TokensKeepText ==
  ASSUME NEW line \in Line, NEW s \in BOOLEAN
  PROVE  /\ Tokens(line, s).pieces \in Seq(Pieces) /\ Tokens(line, s).inString \in BOOLEAN
         /\ Texts(Tokens(line, s).pieces) = line
<1>1. PICK f : Scanned(f, line) /\ \A r \in BOOLEAN : Tokens(line, r) = f[Len(line)][r]
  BY TokensAre DEF Scanned
<1>2. Len(line) \in 0..Len(line)
  BY LinesAreTexts
<1>3. /\ Tokens(line, s).pieces \in Seq(Pieces) /\ Tokens(line, s).inString \in BOOLEAN
      /\ Texts(Tokens(line, s).pieces) = Ending(line, Len(line))
  BY SMTT(30), <1>1, <1>2, ScanKeepsText
<1>4. Ending(line, Len(line)) = line
  <2> DEFINE d == Ending(line, Len(line))
  <2>1. d \in Line /\ Len(d) = Len(line) /\ \A k \in 1..Len(line) : d[k] = line[(Len(line) - Len(line)) + k]
    BY <1>2, EndingIs
  <2>2. \A k \in 1..Len(line) : (Len(line) - Len(line)) + k = k
    BY LinesAreTexts
  <2> HIDE DEF d
  <2>3. d = line
    BY <2>1, <2>2, SameSequence DEF Line
  <2> QED
    BY <2>3 DEF d
<1> QED
  BY <1>3, <1>4

-----------------------------------------------------------------------------
(* Where the comment of a line starts, to both colourings.                 *)

\* A percent sign out of a string.
Percent(line, x) == line[x] = "percent" /\ ~Open(line, x - 1)

\* CommentStart is the first percent sign out of a string, or one past the end.
LEMMA CommentStartIs ==
  ASSUME NEW line \in Line
  PROVE  /\ CommentStart(line) \in 1..Len(line) + 1
         /\ \A x \in 1..CommentStart(line) - 1 : ~Percent(line, x)
         /\ CommentStart(line) <= Len(line) => Percent(line, CommentStart(line))
<1> DEFINE found == {i \in 1..Len(line) : Percent(line, i)}
           c == CHOOSE i \in found : \A j \in found : i <= j
<1>1. Len(line) \in Nat
  BY LinesAreTexts
<1>2. CommentStart(line) = IF found = {} THEN Len(line) + 1 ELSE c
  BY DEF CommentStart, Percent, Open
<1>3. found \in SUBSET Nat
  BY <1>1
<1>4. CASE found = {}
  <2>1. CommentStart(line) = Len(line) + 1
    BY <1>2, <1>4
  <2>2. \A x \in 1..Len(line) : ~Percent(line, x)
    BY <1>4
  <2>3. (Len(line) + 1) - 1 = Len(line) /\ ~(Len(line) + 1 <= Len(line)) /\ Len(line) + 1 \in 1..Len(line) + 1
    BY <1>1
  <2> QED
    BY <2>1, <2>2, <2>3
<1>5. CASE found # {}
  <2> HIDE DEF found
  <2>1. \E i \in found : \A j \in found : i <= j
    BY <1>3, <1>5, LeastElement
  <2>2. c \in found /\ \A j \in found : c <= j
    BY <2>1
  <2>3. CommentStart(line) = c
    BY <1>2, <1>5
  <2> HIDE DEF c
  <2>4. c \in 1..Len(line) /\ Percent(line, c)
    BY <2>2 DEF found
  <2>5. ASSUME NEW x \in 1..c - 1 PROVE ~Percent(line, x)
    <3>1. x \in 1..Len(line) /\ ~(c <= x)
      BY <1>1, <2>4
    <3>2. x \notin found
      BY <2>2, <3>1
    <3> QED
      BY <3>1, <3>2 DEF found
  <2>6. c \in 1..Len(line) + 1
    BY <1>1, <2>4
  <2> QED
    BY <2>3, <2>4, <2>5, <2>6
<1> QED
  BY <1>4, <1>5

\* A token ends where the state it leaves is right, and hides no percent sign.
LEMMA TokenAlong ==
  ASSUME NEW line \in Line, NEW i \in 0..Len(line) - 1, NEW s \in BOOLEAN, s <=> Open(line, i),
         NEW t \in Tok, NEW e \in i + 1..Len(line), t.len = e - i, NEW rest,
         \A k \in 1..e - i : rest[k] = line[i + k],
         TokenKinds(t, rest, s)
  PROVE  \/ CommentToken(t, rest, s) /\ Percent(line, i + 1)
         \/ /\ t.class # "hl-comment" /\ (t.inString <=> Open(line, e))
            /\ \A x \in i + 1..e : ~Percent(line, x)
<1> DEFINE Goal == \/ CommentToken(t, rest, s) /\ Percent(line, i + 1)
                   \/ /\ t.class # "hl-comment" /\ (t.inString <=> Open(line, e))
                      /\ \A x \in i + 1..e : ~Percent(line, x)
<1> SUFFICES Goal
  OBVIOUS
<1>1. Len(line) \in Nat /\ i \in Nat /\ e \in Nat /\ i \in 0..Len(line) /\ 1 \in 1..e - i
  BY LinesAreTexts
<1>2. ASSUME NEW x \in i + 1..e PROVE line[x] = rest[x - i] /\ x - i \in 1..t.len
  <2>1. x - i \in 1..e - i /\ i + (x - i) = x
    BY <1>1
  <2> QED
    BY <2>1
<1>3. line[i + 1] = rest[1]
  BY <1>1
<1>4. ASSUME NEW j \in i..e, NEW x \in j..e, \A k \in j + 1..x : line[k] # "quote"
      PROVE  Open(line, x) <=> Open(line, j)
  <2>1. j \in 0..Len(line) /\ x \in j..Len(line)
    BY <1>1
  <2> QED
    BY <1>4, <2>1, OpenAlong
<1>5. CASE PlainToken(t, rest, s)
  <2>1. \A k \in i + 1..e : line[k] # "quote"
    BY <1>2, <1>5 DEF PlainToken
  <2>2. ASSUME NEW x \in i..e PROVE Open(line, x) <=> s
    <3>1. \A k \in i + 1..x : line[k] # "quote"
      BY <1>1, <2>1
    <3>2. i \in i..e /\ x \in i..e
      BY <1>1
    <3> QED
      BY <1>4, <3>1, <3>2
  <2>3. ASSUME NEW x \in i + 1..e PROVE ~Percent(line, x)
    <3>1. x - 1 \in i..e
      BY <1>1
    <3>2. s \/ line[x] # "percent"
      BY <1>2, <1>5 DEF PlainToken
    <3> QED
      BY <2>2, <3>1, <3>2 DEF Percent
  <2>4. t.class # "hl-comment" /\ t.inString = s /\ e \in i..e
    BY <1>1, <1>5 DEF PlainToken
  <2> QED
    BY <2>2, <2>3, <2>4
<1>6. CASE ClosingQuote(t, rest, s)
  <2>1. s /\ ~t.inString /\ t.class # "hl-comment" /\ t.len = 1 /\ rest[1] = "quote"
    BY <1>6 DEF ClosingQuote
  <2>2. e = i + 1 /\ (i + 1) - 1 = i /\ i + 1 \in 1..Len(line)
    BY <1>1, <2>1
  <2>3. line[i + 1] = "quote"
    BY <1>3, <2>1
  <2>4. Open(line, i + 1) <=> ~Open(line, i)
    BY <2>2, <2>3, OpenTurns
  <2>5. ASSUME NEW x \in i + 1..e PROVE ~Percent(line, x)
    <3>1. x = i + 1
      BY <1>1, <2>2
    <3> QED
      BY <2>3, <3>1 DEF Percent
  <2> QED
    BY <2>1, <2>2, <2>4, <2>5
<1>7. CASE CommentToken(t, rest, s)
  <2>1. line[i + 1] = "percent" /\ ~s /\ (i + 1) - 1 = i
    BY <1>1, <1>3, <1>7 DEF CommentToken
  <2> QED
    BY <1>7, <2>1 DEF Percent
<1>8. CASE StringToken(t, rest, s)
  <2>1. ~s /\ t.class # "hl-comment" /\ line[i + 1] = "quote"
    BY <1>3, <1>8 DEF StringToken
  <2>2. (i + 1) - 1 = i /\ i + 1 \in 1..Len(line) /\ i + 1 \in i..e
    BY <1>1
  <2>3. Open(line, i + 1)
    BY <2>1, <2>2, OpenTurns
  <2>4. ASSUME NEW z \in i + 1..e, \A k \in 2..z - i : rest[k] # "quote"
        PROVE  /\ Open(line, z)
               /\ \A x \in i + 1..z : ~Percent(line, x)
    <3>1. ASSUME NEW x \in i + 1..z PROVE Open(line, x)
      <4>1. ASSUME NEW k \in (i + 1) + 1..x PROVE line[k] # "quote"
        <5>1. k \in i + 1..e /\ k - i \in 2..z - i
          BY <1>1
        <5> QED
          BY <1>2, <2>4, <5>1
      <4>2. i + 1 \in i..e /\ x \in i + 1..e
        BY <1>1
      <4> QED
        BY <1>4, <2>3, <4>1, <4>2
    <3>2. ASSUME NEW x \in i + 1..z PROVE ~Percent(line, x)
      <4>1. CASE x = i + 1
        BY <2>1, <4>1 DEF Percent
      <4>2. CASE x # i + 1
        <5>1. x - 1 \in i + 1..z
          BY <1>1, <4>2
        <5> QED
          BY <3>1, <5>1 DEF Percent
      <4> QED
        BY <4>1, <4>2
    <3>3. z \in i + 1..z
      BY <1>1
    <3> QED
      BY <3>1, <3>2, <3>3
  <2>5. CASE t.inString
    <3>1. \A k \in 2..e - i : rest[k] # "quote"
      BY <1>8, <2>5 DEF StringToken
    <3>2. e \in i + 1..e
      BY <1>1
    <3> QED
      BY <2>1, <2>4, <2>5, <3>1, <3>2
  <2>6. CASE ~t.inString
    <3>1. t.len > 1 /\ rest[t.len] = "quote" /\ \A k \in 2..t.len - 1 : rest[k] # "quote"
      BY <1>8, <2>6 DEF StringToken
    <3>2. e - 1 \in i + 1..e /\ (e - 1) - i = t.len - 1 /\ e \in 1..Len(line)
      BY <1>1, <3>1
    <3>3. line[e] = "quote"
      <4>1. e \in i + 1..e /\ e - i = t.len
        BY <1>1
      <4> QED
        BY <1>2, <3>1, <4>1
    <3>4. Open(line, e - 1) /\ \A x \in i + 1..e - 1 : ~Percent(line, x)
      BY <2>4, <3>1, <3>2
    <3>5. ~Open(line, e)
      BY <3>2, <3>3, <3>4, OpenTurns
    <3>6. ASSUME NEW x \in i + 1..e PROVE ~Percent(line, x)
      <4>1. CASE x = e
        BY <3>3, <4>1 DEF Percent
      <4>2. CASE x # e
        <5>1. x \in i + 1..e - 1
          BY <1>1, <4>2
        <5> QED
          BY <3>4, <5>1
      <4> QED
        BY <4>1, <4>2
    <3> QED
      BY <2>1, <2>6, <3>5, <3>6
  <2> QED
    BY <2>5, <2>6
<1> HIDE DEF Goal
<1> QED
  BY <1>5, <1>6, <1>7, <1>8 DEF TokenKinds

\* The comment of a line.
CommentPart(line) == Drop(line, CommentStart(line) - 1)

\* A string is open where the comment starts, or where the line ends.
LeftOpen(line) == Open(line, CommentStart(line) - 1)

LEMMA CommentPartIs ==
  ASSUME NEW line \in Line
  PROVE  CommentPart(line) \in Text /\ CommentStart(line) - 1 \in 0..Len(line)
<1>1. CommentStart(line) - 1 \in 0..Len(line)
  BY CommentStartIs, LinesAreTexts
<1>2. Drop(line, CommentStart(line) - 1) \in Line
  BY <1>1, PartsOfLines
<1> QED
  BY <1>1, <1>2, LinesAreTexts DEF CommentPart

\* Nothing of the comment has been read: what is left of the line holds all of it.
LEMMA ScanKeepsComment ==
  ASSUME NEW line \in Line, NEW f, Scanned(f, line), NEW n \in 0..Len(line), NEW s \in BOOLEAN,
         s <=> Open(line, Len(line) - n), Len(line) - n < CommentStart(line)
  PROVE  /\ Commented(f[n][s].pieces) = CommentPart(line)
         /\ f[n][s].inString <=> LeftOpen(line)
<1> DEFINE len == Len(line)
           start == CommentStart(line)
           Good(m) == \A r \in BOOLEAN :
                        (r <=> Open(line, len - m)) /\ len - m < start
                          => /\ Commented(f[m][r].pieces) = CommentPart(line)
                             /\ f[m][r].inString <=> LeftOpen(line)
           S == {m \in 0..len : Good(m)}
<1>1. len \in Nat /\ start \in 1..len + 1 /\ start \in Nat /\ line \in Seq(Lexeme)
  BY CommentStartIs, LinesAreTexts DEF Text
<1>2. /\ \A x \in 1..start - 1 : ~Percent(line, x)
      /\ start <= len => Percent(line, start)
  BY CommentStartIs
<1>3. CommentPart(line) = Drop(line, start - 1) /\ LeftOpen(line) = Open(line, start - 1)
  BY DEF CommentPart, LeftOpen
<1> HIDE DEF len, start
<1>4. Good(0)
  <2> SUFFICES ASSUME NEW r \in BOOLEAN, r <=> Open(line, len - 0), len - 0 < start
               PROVE  /\ Commented(f[0][r].pieces) = CommentPart(line)
                      /\ f[0][r].inString <=> LeftOpen(line)
    OBVIOUS
  <2>1. start - 1 = len /\ len - 0 = len
    BY <1>1
  <2>2. Drop(line, len) = <<>>
    <3>1. len + 1 > Len(line) /\ len = Len(line)
      BY <1>1 DEF len
    <3> QED
      BY <1>1, <3>1 DEF Drop
  <2>3. f[0][r].pieces = <<>> /\ f[0][r].inString = r
    BY ScanStarts
  <2>4. Commented(f[0][r].pieces) = <<>>
    BY <2>3, TextsFew
  <2> QED
    BY <1>3, <2>1, <2>2, <2>3, <2>4
<1>5. ASSUME NEW m \in 1..len, \A k \in 0..m - 1 : Good(k) PROVE Good(m)
  <2> SUFFICES ASSUME NEW r \in BOOLEAN, r <=> Open(line, len - m), len - m < start
               PROVE  /\ Commented(f[m][r].pieces) = CommentPart(line)
                      /\ f[m][r].inString <=> LeftOpen(line)
    OBVIOUS
  <2>1. PICK t, p, a : ScanStep(f, line, m, r, t, p, a)
    <3>1. m \in 1..Len(line)
      BY DEF len
    <3> QED
      BY <3>1, ScanSteps
  <2>2. PICK i : i = len - m
    OBVIOUS
  <2>3. PICK e : e = i + t.len
    OBVIOUS
  <2>4. /\ t \in Tok /\ t.len \in 1..m /\ m - t.len \in 0..m - 1 /\ t.inString \in BOOLEAN
        /\ TokenKinds(t, Ending(line, m), r)
        /\ p \in Pieces /\ p.text = Take(Ending(line, m), t.len) /\ p.class = t.class
        /\ f[m][r].pieces = <<p>> \o a.pieces /\ f[m][r].inString = a.inString
    BY <2>1 DEF ScanStep
  <2>5. a = f[m - t.len][t.inString]
    BY <2>1 DEF ScanStep
  <2>6. /\ i \in 0..Len(line) - 1 /\ e \in i + 1..Len(line) /\ t.len = e - i
        /\ len - (m - t.len) = e /\ m \in 0..Len(line) /\ m - t.len \in 0..Len(line)
    <3>1. PICK l : l = t.len
      OBVIOUS
    <3>2. l \in 1..m /\ e = i + l /\ i = len - m /\ len \in Nat /\ m \in 1..len
      BY <1>1, <2>2, <2>3, <2>4, <3>1
    <3>3. /\ i \in 0..len - 1 /\ e \in i + 1..len /\ l = e - i
          /\ len - (m - l) = e /\ m \in 0..len /\ m - l \in 0..len
      BY <3>2
    <3> QED
      BY <3>1, <3>3 DEF len
  <2>7. PICK rest : rest = Ending(line, m)
    OBVIOUS
  <2>8. /\ rest \in Line /\ Len(rest) = m
        /\ \A k \in 1..m : rest[k] = line[i + k]
    BY <2>2, <2>6, <2>7, EndingIs DEF len
  <2>9. \A k \in 1..e - i : rest[k] = line[i + k]
    BY <1>1, <2>4, <2>6, <2>8
  <2>10. \/ CommentToken(t, rest, r) /\ Percent(line, i + 1)
         \/ /\ t.class # "hl-comment" /\ (t.inString <=> Open(line, e))
            /\ \A x \in i + 1..e : ~Percent(line, x)
    <3>1. (r <=> Open(line, i)) /\ TokenKinds(t, rest, r)
      BY <2>2, <2>4, <2>7
    <3>2. t \in Tok /\ i \in 0..Len(line) - 1 /\ e \in i + 1..Len(line) /\ t.len = e - i
      BY <2>4, <2>6
    <3> HIDE DEF Good, S
    <3> QED
      BY <2>9, <3>1, <3>2, TokenAlong
  <2>11. <<p>> \in Seq(Pieces) /\ Commented(<<p>>) = CommentOf(p)
    BY <2>4, TextsFew
  <2>12. a.pieces \in Seq(Pieces)
    BY <2>4, <2>5, <2>6, ScanKeepsText
  <2>13. Commented(f[m][r].pieces) = CommentOf(p) \o Commented(a.pieces) /\ Commented(a.pieces) \in Text
    BY ZenonT(30), <2>4, <2>11, <2>12, TextsJoin
  <2>14. CASE CommentToken(t, rest, r) /\ Percent(line, i + 1)
    <3>1. t.class = "hl-comment" /\ ~t.inString /\ t.len = m /\ ~r
      BY <2>8, <2>14 DEF CommentToken
    <3>2. start = i + 1 /\ start - 1 = i
      <4>1. ~(i + 1 \in 1..start - 1)
        BY <1>2, <2>14
      <4> QED
        BY <1>1, <2>2, <2>6, <4>1
    <3>3. a.pieces = <<>> /\ a.inString = FALSE
      <4>1. m - t.len = 0 /\ t.inString = FALSE
        BY <1>1, <2>4, <3>1
      <4>2. f[0][FALSE].pieces = <<>> /\ f[0][FALSE].inString = FALSE
        BY ScanStarts
      <4> QED
        BY <2>5, <4>1, <4>2
    <3>4. CommentOf(p) = p.text /\ p.text = Take(rest, m)
      BY <2>4, <2>7, <3>1 DEF CommentOf
    <3>5. Take(rest, m) = rest
      <4>1. rest \in Seq(Lexeme) /\ m = Len(rest)
        BY <2>8, LinesAreTexts DEF Text
      <4>2. m \in 0..Len(rest)
        BY <1>1, <4>1
      <4>3. Take(rest, m) \in Seq(Lexeme) /\ Len(Take(rest, m)) = m /\ \A k \in 1..m : Take(rest, m)[k] = rest[k]
        BY <4>1, <4>2, TakeIs
      <4> QED
        BY <4>1, <4>3, SameSequence
    <3>6. rest = CommentPart(line)
      BY <1>3, <2>2, <2>7, <3>2 DEF Ending, len
    <3>7. Commented(a.pieces) = <<>>
      BY <3>3, TextsFew
    <3>8. rest \o <<>> = rest
      BY <2>8 DEF Line
    <3>9. Commented(f[m][r].pieces) = CommentPart(line)
      BY <2>13, <3>4, <3>5, <3>6, <3>7, <3>8
    <3>10. f[m][r].inString <=> LeftOpen(line)
      BY <1>3, <2>2, <2>4, <3>1, <3>2, <3>3
    <3> QED
      BY <3>9, <3>10
  <2>15. CASE /\ t.class # "hl-comment" /\ (t.inString <=> Open(line, e))
              /\ \A x \in i + 1..e : ~Percent(line, x)
    <3>1. ~(start \in i + 1..e)
      <4>1. start \in i + 1..e => start <= len
        BY <1>1, <2>6 DEF len
      <4> QED
        BY <1>2, <2>15, <4>1
    <3>2. e < start
      BY <1>1, <2>2, <2>6, <3>1
    <3>3. Good(m - t.len)
      BY <1>5, <2>4
    <3>4. /\ Commented(a.pieces) = CommentPart(line)
          /\ a.inString <=> LeftOpen(line)
      <4>1. (t.inString <=> Open(line, len - (m - t.len))) /\ len - (m - t.len) < start
        BY <2>6, <2>15, <3>2
      <4> QED
        BY <2>4, <2>5, <3>3, <4>1
    <3>5. CommentOf(p) = <<>>
      BY <2>4, <2>15 DEF CommentOf
    <3>6. <<>> \o Commented(a.pieces) = Commented(a.pieces)
      BY <2>13 DEF Text
    <3> QED
      BY <2>4, <2>13, <3>4, <3>5, <3>6
  <2> QED
    BY <2>10, <2>14, <2>15
<1> HIDE DEF Good
<1>6. ASSUME NEW m \in 0..len, \A k \in 0..m - 1 : k \in S PROVE m \in S
  <2>1. \A k \in 0..m - 1 : Good(k)
    BY <1>6
  <2>2. CASE m = 0
    BY <1>4, <2>2
  <2>3. CASE m # 0
    <3>1. m \in 1..len
      BY <1>1, <2>3
    <3> QED
      BY <1>5, <2>1, <3>1
  <2> QED
    BY <2>2, <2>3
<1>7. \A m \in 0..len : m \in S
  <2> HIDE DEF S
  <2> QED
    BY <1>1, <1>6, StrongInduction
<1>8. Good(n)
  BY <1>7 DEF len
<1> QED
  BY <1>8 DEF Good, len, start

\* The editor's comment of a line whose strings were closed in front of it.
LEMMA CommentOfTokens ==
  ASSUME NEW line \in Line
  PROVE  /\ Commented(Tokens(line, FALSE).pieces) = CommentPart(line)
         /\ Tokens(line, FALSE).inString <=> LeftOpen(line)
<1>1. PICK f : Scanned(f, line) /\ \A r \in BOOLEAN : Tokens(line, r) = f[Len(line)][r]
  BY TokensAre DEF Scanned
<1>2. /\ Len(line) \in 0..Len(line) /\ Len(line) - Len(line) = 0
      /\ 0 \in 0..Len(line) /\ 0 < CommentStart(line)
  BY CommentStartIs, LinesAreTexts
<1>3. ~Open(line, 0)
  <2>1. QuotesTo(line, 0) = {}
    BY DEF QuotesTo
  <2>2. Cardinality(QuotesTo(line, 0)) = 0
    BY <2>1, FS_EmptySet
  <2> QED
    BY <1>2, <2>2, OpenIs
<1>4. FALSE <=> Open(line, Len(line) - Len(line))
  BY <1>2, <1>3
<1>5. Len(line) - Len(line) < CommentStart(line)
  BY <1>2
<1>6. Commented(f[Len(line)][FALSE].pieces) = CommentPart(line)
  BY <1>1, <1>2, <1>4, <1>5, ScanKeepsComment
<1>7. f[Len(line)][FALSE].inString <=> LeftOpen(line)
  BY <1>1, <1>2, <1>4, <1>5, ScanKeepsComment
<1> QED
  BY <1>1, <1>6, <1>7

-----------------------------------------------------------------------------
(* The spans of the highlighter.                                           *)

\* Where a label, the blank space and the operation of a line end.
Match(code, l, b, o) ==
  /\ l \in 0..Len(code) /\ b \in 0..Len(code) - l /\ o \in 0..Len(code) - (l + b)
  /\ Label(code) = Take(code, l) /\ Len(Label(code)) = l
  /\ \A k \in 1..l : code[k] # "space"
  /\ BlankSpace(code) = Take(Drop(code, l), b) /\ Len(BlankSpace(code)) = b
  /\ \A k \in l + 1..l + b : code[k] = "space"
  /\ AfterBlank(code) = Drop(code, l + b) /\ Len(AfterBlank(code)) = Len(code) - (l + b)
  /\ Operation(code) = Take(AfterBlank(code), o) /\ Len(Operation(code)) = o
  /\ (l + b) + o < Len(code) => code[((l + b) + o) + 1] = "space"
  /\ Remainder(code) = Drop(AfterBlank(code), o)

\* Every code can be split like that.
LEMMA MatchExists ==
  ASSUME NEW code \in Line
  PROVE  \E l, b, o : Match(code, l, b, o)
<1> DEFINE len == Len(code)
<1>1. len \in Nat /\ code \in Seq(Lexeme)
  BY LinesAreTexts DEF Text
<1>2. PICK l : l = Run(code, NonSpace)
  OBVIOUS
<1>3. l \in 0..len /\ \A k \in 1..l : code[k] # "space"
  BY <1>1, <1>2, RunIs DEF NonSpace
<1>4. Label(code) = Take(code, l) /\ Len(Label(code)) = l
  <2>1. Label(code) = Take(code, l)
    BY <1>2 DEF Label
  <2>2. Len(Take(code, l)) = l
    BY <1>1, <1>3, TakeIs
  <2> QED
    BY <2>1, <2>2
<1>5. PICK rest : rest = Drop(code, l)
  OBVIOUS
<1>6. rest \in Seq(Lexeme) /\ Len(rest) = len - l /\ \A k \in 1..len - l : rest[k] = code[l + k]
  BY <1>1, <1>3, <1>5, DropIs
<1>7. PICK b : b = Run(rest, {"space"})
  OBVIOUS
<1>8. b \in 0..len - l /\ \A k \in 1..b : rest[k] \in {"space"}
  BY <1>6, <1>7, RunIs
<1>9. BlankSpace(code) = Take(rest, b) /\ Len(BlankSpace(code)) = b
  <2>1. BlankSpace(code) = Take(rest, b)
    BY <1>4, <1>5, <1>7 DEF BlankSpace
  <2>2. b \in 0..Len(rest)
    BY <1>6, <1>8
  <2>3. Len(Take(rest, b)) = b
    BY <1>6, <2>2, TakeIs
  <2> QED
    BY <2>1, <2>3
<1>10. ASSUME NEW k \in l + 1..l + b PROVE code[k] = "space"
  <2>1. k - l \in 1..b /\ k - l \in 1..len - l /\ l + (k - l) = k
    BY <1>3, <1>8
  <2> QED
    BY <1>6, <1>8, <2>1
<1>11. PICK after : after = Drop(code, l + b)
  OBVIOUS
<1>12. l + b \in 0..len
  BY <1>1, <1>3, <1>8
<1>13. /\ after \in Seq(Lexeme) /\ Len(after) = len - (l + b)
       /\ \A k \in 1..len - (l + b) : after[k] = code[(l + b) + k]
  BY <1>1, <1>11, <1>12, DropIs
<1>14. AfterBlank(code) = after
  BY <1>4, <1>9, <1>11 DEF AfterBlank
<1>15. PICK o : o = Run(after, NonSpace)
  OBVIOUS
<1>16. o \in 0..len - (l + b) /\ (o < len - (l + b) => after[o + 1] \notin NonSpace)
  BY <1>13, <1>15, RunIs
<1>17. Operation(code) = Take(after, o) /\ Len(Operation(code)) = o
  <2>1. Operation(code) = Take(after, o)
    BY <1>14, <1>15 DEF Operation
  <2>2. o \in 0..Len(after)
    BY <1>13, <1>16
  <2>3. Len(Take(after, o)) = o
    BY <1>13, <2>2, TakeIs
  <2> QED
    BY <2>1, <2>3
<1>18. ASSUME (l + b) + o < len PROVE code[((l + b) + o) + 1] = "space"
  <2>1. o < len - (l + b) /\ o + 1 \in 1..len - (l + b) /\ (l + b) + (o + 1) = ((l + b) + o) + 1
    BY <1>1, <1>12, <1>16, <1>18
  <2>2. after[o + 1] \in Lexeme
    BY <1>13, <2>1, ElementIs
  <2> QED
    BY <1>13, <1>16, <2>1, <2>2 DEF NonSpace
<1>19. Remainder(code) = Drop(after, o)
  BY <1>14, <1>17 DEF Remainder
<1>20. Match(code, l, b, o)
  BY <1>3, <1>4, <1>5, <1>8, <1>9, <1>10, <1>11, <1>13, <1>14, <1>16, <1>17, <1>18, <1>19 DEF Match
<1> QED
  BY <1>20

\* The groups of the regular expression are the code, one after the other.
LEMMA GroupsAreTheCode ==
  ASSUME NEW code \in Line
  PROVE  /\ Label(code) \in Text /\ BlankSpace(code) \in Text
         /\ Operation(code) \in Text /\ Remainder(code) \in Text
         /\ ((Label(code) \o BlankSpace(code)) \o Operation(code)) \o Remainder(code) = code
<1>1. PICK l, b, o : Match(code, l, b, o)
  BY MatchExists
<1>2. PICK L, B, O, R, A, D : /\ L = Label(code) /\ B = BlankSpace(code) /\ O = Operation(code)
                              /\ R = Remainder(code) /\ A = AfterBlank(code) /\ D = Drop(code, l)
  OBVIOUS
<1>3. /\ l \in 0..Len(code) /\ b \in 0..Len(code) - l /\ o \in 0..Len(code) - (l + b)
      /\ L = Take(code, l) /\ B = Take(D, b) /\ A = Drop(code, l + b)
      /\ Len(A) = Len(code) - (l + b) /\ O = Take(A, o) /\ R = Drop(A, o)
  BY <1>1, <1>2 DEF Match
<1>4. code \in Seq(Lexeme) /\ Len(code) \in Nat
  BY LinesAreTexts DEF Text
<1>5. L \in Seq(Lexeme) /\ D \in Seq(Lexeme) /\ Len(D) = Len(code) - l /\ L \o D = code
  BY ZenonT(30), <1>2, <1>3, <1>4, TakeIs, DropIs, TakeAndDrop
<1>6. b \in 0..Len(D)
  BY <1>3, <1>5
<1>7. Drop(D, b) = A
  BY <1>2, <1>3, <1>4, DropTwice
<1>8. B \in Seq(Lexeme) /\ A \in Seq(Lexeme) /\ B \o A = D
  <2>1. B \in Seq(Lexeme)
    BY <1>3, <1>5, <1>6, TakeIs
  <2>2. A \in Seq(Lexeme)
    BY <1>5, <1>6, <1>7, DropIs
  <2>3. Take(D, b) \o Drop(D, b) = D
    BY <1>5, <1>6, TakeAndDrop
  <2> QED
    BY <1>3, <1>7, <2>1, <2>2, <2>3
<1>9. o \in 0..Len(A)
  BY <1>3
<1>10. O \in Seq(Lexeme) /\ R \in Seq(Lexeme) /\ O \o R = A
  BY <1>3, <1>8, <1>9, TakeIs, DropIs, TakeAndDrop
<1>11. ((L \o B) \o O) \o R = code
  <2>1. L \in Text /\ B \in Text /\ O \in Text /\ R \in Text /\ L \o B \in Text /\ O \o R \in Text
    BY <1>5, <1>8, <1>10, JoinIs DEF Text
  <2>2. ((L \o B) \o O) \o R = (L \o B) \o (O \o R)
    BY ZenonT(30), <2>1, JoinAssociates
  <2>3. (L \o B) \o (O \o R) = L \o (B \o (O \o R))
    BY SMTT(30), <2>1, JoinAssociates
  <2> QED
    BY <1>5, <1>8, <1>10, <2>2, <2>3
<1> QED
  BY <1>2, <1>5, <1>8, <1>10, <1>11 DEF Text

\* A span has its text; an empty one is left out.
LEMMA SpanIs ==
  ASSUME NEW text \in Text, NEW class \in Class
  PROVE  /\ Span(text, class) \in Seq(Pieces) /\ Texts(Span(text, class)) = text
         /\ Commented(Span(text, class)) = IF class = "hl-comment" THEN text ELSE <<>>
<1>1. CASE text = <<>>
  BY <1>1, TextsFew DEF Span
<1>2. CASE text # <<>>
  <2>1. PICK p : p = Piece(text, class)
    OBVIOUS
  <2>2. p \in Pieces /\ p.text = text /\ p.class = class /\ <<p>> \in Seq(Pieces)
    BY <2>1, PieceIs
  <2>3. Span(text, class) = <<p>>
    BY <1>2, <2>1 DEF Span
  <2>4. Texts(<<p>>) = text /\ Commented(<<p>>) = IF class = "hl-comment" THEN text ELSE <<>>
    BY <2>2, TextsFew DEF CommentOf
  <2> QED
    BY <2>2, <2>3, <2>4
<1> QED
  BY <1>1, <1>2

\* Spans that are no comment, one behind the other.
Plain(pieces, text) == pieces \in Seq(Pieces) /\ Texts(pieces) = text /\ Commented(pieces) = <<>>

LEMMA PlainSpan ==
  ASSUME NEW text \in Text, NEW class \in Class \ {"hl-comment"}
  PROVE  Plain(Span(text, class), text)
BY SpanIs DEF Plain

LEMMA PlainJoin ==
  ASSUME NEW a, NEW b, NEW x, NEW y, Plain(a, x), Plain(b, y)
  PROVE  Plain(a \o b, x \o y)
<1>1. /\ a \o b \in Seq(Pieces) /\ Texts(a \o b) = Texts(a) \o Texts(b)
      /\ Commented(a \o b) = Commented(a) \o Commented(b)
  BY TextsJoin DEF Plain
<1>2. <<>> \o <<>> = <<>>
  OBVIOUS
<1> QED
  BY <1>1, <1>2 DEF Plain

LEMMA OpCodeClassIs ==
  ASSUME NEW word
  PROVE  OpCodeClass(word) \in {"hl-opcode", "hl-directive", "hl-expr"}
BY DEF OpCodeClass

\* The spans of code are the code, and no comment.
LEMMA HighlightCodeIsPlain ==
  ASSUME NEW code \in Line
  PROVE  Plain(HighlightCode(code), code)
<1>1. CASE BlankSpace(code) = <<>>
  <2>1. code \in Text /\ "hl-expr" \in Class \ {"hl-comment"}
    BY LinesAreTexts DEF Class
  <2>2. HighlightCode(code) = Span(code, "hl-expr")
    BY <1>1 DEF HighlightCode
  <2> QED
    BY <2>1, <2>2, PlainSpan
<1>2. CASE BlankSpace(code) # <<>>
  <2>1. PICK L, B, O, R : /\ L = Label(code) /\ B = BlankSpace(code)
                          /\ O = Operation(code) /\ R = Remainder(code)
    OBVIOUS
  <2>2. /\ L \in Text /\ B \in Text /\ O \in Text /\ R \in Text
        /\ ((L \o B) \o O) \o R = code
    BY <2>1, GroupsAreTheCode
  <2>3. PICK x, y, z, w : /\ x = Span(L, "hl-label") /\ y = Span(B, "none")
                          /\ z = Span(O, OpCodeClass(O)) /\ w = Span(R, "hl-expr")
    OBVIOUS
  <2>4. HighlightCode(code) = ((x \o y) \o z) \o w
    BY <1>2, <2>1, <2>3, Zenon DEF HighlightCode
  <2>5. /\ "hl-label" \in Class \ {"hl-comment"} /\ "none" \in Class \ {"hl-comment"}
        /\ "hl-expr" \in Class \ {"hl-comment"} /\ OpCodeClass(O) \in Class \ {"hl-comment"}
    BY OpCodeClassIs DEF Class
  <2>6. Plain(x, L) /\ Plain(y, B) /\ Plain(z, O) /\ Plain(w, R)
    BY <2>2, <2>3, <2>5, PlainSpan
  <2>7. Plain(x \o y, L \o B)
    BY <2>6, PlainJoin
  <2>8. Plain((x \o y) \o z, (L \o B) \o O)
    BY <2>6, <2>7, PlainJoin
  <2>9. Plain(((x \o y) \o z) \o w, ((L \o B) \o O) \o R)
    BY <2>6, <2>8, PlainJoin
  <2> QED
    BY <2>2, <2>4, <2>9
<1> QED
  BY <1>1, <1>2

\* The highlighter's spans are the line, and its comment is the line's.
LEMMA HighlightLineIs ==
  ASSUME NEW line \in Line
  PROVE  /\ HighlightLine(line) \in Seq(Pieces)
         /\ Texts(HighlightLine(line)) = line
         /\ Commented(HighlightLine(line)) = CommentPart(line)
<1>1. PICK n : n = CommentStart(line) - 1
  OBVIOUS
<1>2. n \in 0..Len(line) /\ line \in Seq(Lexeme)
  BY <1>1, CommentPartIs, LinesAreTexts DEF Text
<1>3. PICK code, comment : code = Take(line, n) /\ comment = Drop(line, n)
  OBVIOUS
<1>4. code \in Line /\ comment \in Text /\ code \o comment = line
  BY <1>2, <1>3, PartsOfLines, LinesAreTexts, TakeAndDrop
<1>5. PICK x, y : x = HighlightCode(code) /\ y = Span(comment, "hl-comment")
  OBVIOUS
<1>6. HighlightLine(line) = x \o y
  BY <1>1, <1>3, <1>5 DEF HighlightLine
<1>7. x \in Seq(Pieces) /\ Texts(x) = code /\ Commented(x) = <<>>
  BY <1>4, <1>5, HighlightCodeIsPlain DEF Plain
<1>8. y \in Seq(Pieces) /\ Texts(y) = comment /\ Commented(y) = comment
  <2>1. "hl-comment" \in Class
    BY DEF Class
  <2> QED
    BY <1>4, <1>5, <2>1, SpanIs
<1>9. /\ x \o y \in Seq(Pieces) /\ Texts(x \o y) = Texts(x) \o Texts(y)
      /\ Commented(x \o y) = Commented(x) \o Commented(y)
  BY <1>7, <1>8, TextsJoin
<1>10. <<>> \o comment = comment
  BY <1>4 DEF Text
<1>11. comment = CommentPart(line)
  BY <1>1, <1>3 DEF CommentPart
<1> QED
  BY <1>4, <1>6, <1>7, <1>8, <1>9, <1>10, <1>11

-----------------------------------------------------------------------------
(* The tokens of a text, line after line.                                  *)

\* What the lines of the texts can be coloured as.
Coloured == {Tokens(line, s) : line \in Line, s \in BOOLEAN}

LEMMA ColouredIs ==
  ASSUME NEW v \in Coloured
  PROVE  v.inString \in BOOLEAN
BY TokensKeepText DEF Coloured

ColouredLines(f, text) ==
  f = [n \in 1..NumLines(text) |->
         Tokens(Lines(text)[n], IF n = 1 THEN FALSE ELSE f[n - 1].inString)]

\* The recursive function of Tokenized exists.
LEMMA ColouredLinesExist ==
  ASSUME NEW text \in Text
  PROVE  \E f : ColouredLines(f, text)
<1> DEFINE num == NumLines(text)
           line(i) == IF i \in 1..num THEN Lines(text)[i] ELSE <<>>
           first == Tokens(line(1), FALSE)
           step == [i \in Nat |-> [v \in Coloured |-> Tokens(line(i + 2), v.inString)]]
<1>1. num \in Nat
  BY LinesAreCounted DEF Text
<1>2. ASSUME NEW i \in Nat PROVE line(i) \in Line
  BY LinesAre DEF Line
<1>3. \A i \in 1..num : line(i) = Lines(text)[i]
  OBVIOUS
<1> HIDE DEF line, num
<1>4. \A i \in Nat, s \in BOOLEAN : Tokens(line(i), s) \in Coloured
  BY <1>2 DEF Coloured
<1>5. first \in Coloured
  BY <1>4
<1>6. ASSUME NEW i \in Nat, NEW v \in Coloured PROVE Tokens(line(i + 2), v.inString) \in Coloured
  BY <1>4, ColouredIs
<1>7. step \in [Nat -> [Coloured -> Coloured]]
  BY <1>6
<1>8. \A i \in Nat, v \in Coloured : step[i][v] = Tokens(line(i + 2), v.inString)
  OBVIOUS
<1> HIDE DEF step, first
<1>9. PICK h : Recursion(h, Coloured, first, step, num)
  BY <1>1, <1>5, <1>7, RecursionExists
<1> DEFINE g == [n \in 1..num |-> h[n - 1]]
<1>10. ASSUME NEW n \in 1..num
       PROVE  g[n] = Tokens(line(n), IF n = 1 THEN FALSE ELSE g[n - 1].inString)
  <2>1. g[n] = h[n - 1]
    OBVIOUS
  <2>2. CASE n = 1
    <3>1. n - 1 = 0
      BY <2>2
    <3>2. g[n] = first
      BY <1>9, <2>1, <3>1 DEF Recursion
    <3> HIDE DEF g
    <3> QED
      BY <2>2, <3>2 DEF first
  <2>3. CASE n # 1
    <3>1. n - 1 \in 1..num /\ n - 2 \in 0..num - 1 /\ n - 2 \in Nat /\ n - 2 \in 0..num
      BY <1>1, <2>3
    <3>2. /\ g[n - 1] = h[(n - 1) - 1] /\ (n - 1) - 1 = n - 2
          /\ (n - 2) + 1 = n - 1 /\ (n - 2) + 2 = n
      BY <1>1, <3>1
    <3>3. h[(n - 2) + 1] = step[n - 2][h[n - 2]] /\ h[n - 2] \in Coloured
      BY <1>9, <3>1 DEF Recursion
    <3>4. h[n - 1] = Tokens(line(n), h[n - 2].inString)
      BY <1>8, <3>1, <3>2, <3>3
    <3> QED
      BY <2>1, <2>3, <3>2, <3>4
  <2> QED
    BY <2>2, <2>3
<1>11. g = [n \in 1..num |-> g[n]]
  OBVIOUS
<1> HIDE DEF g
<1>12. \A n \in 1..num :
         g[n] = Tokens(Lines(text)[n], IF n = 1 THEN FALSE ELSE g[n - 1].inString)
  BY <1>3, <1>10
<1>13. ColouredLines(g, text)
  BY <1>11, <1>12 DEF ColouredLines, num
<1> QED
  BY <1>13

\* Each line is read in the state that the one in front of it has left.
LEMMA TokenizedIs ==
  ASSUME NEW text \in Text
  PROVE  /\ DOMAIN Tokenized(text) = 1..NumLines(text)
         /\ \A n \in 1..NumLines(text) :
              Tokenized(text)[n]
                = Tokens(Lines(text)[n], IF n = 1 THEN FALSE ELSE Tokenized(text)[n - 1].inString)
<1> DEFINE line == CHOOSE f : ColouredLines(f, text)
           num == NumLines(text)
<1>1. ColouredLines(line, text)
  BY ColouredLinesExist
<1>2. Tokenized(text) = [n \in 1..num |-> line[n]]
  BY DEF Tokenized, ColouredLines
<1> HIDE DEF line
<1>3. line = [n \in 1..num |-> Tokens(Lines(text)[n], IF n = 1 THEN FALSE ELSE line[n - 1].inString)]
  BY <1>1 DEF ColouredLines
<1>4. Tokenized(text) = line
  BY <1>2, <1>3
<1> QED
  BY <1>3, <1>4

\* Induction on the lines: each is read in one of the two states.
LEMMA TokenizedLine ==
  ASSUME NEW text \in Text, NEW n \in 1..NumLines(text)
  PROVE  \E s \in BOOLEAN : Tokenized(text)[n] = Tokens(Lines(text)[n], s)
<1> DEFINE num == NumLines(text)
           P == {m \in Nat : m \in 1..num => \E s \in BOOLEAN : Tokenized(text)[m] = Tokens(Lines(text)[m], s)}
<1>1. num \in Nat
  BY LinesAreCounted DEF Text
<1>2. \A m \in 1..num : Lines(text)[m] \in Line
  BY LinesAre
<1>3. \A m \in 1..num :
        Tokenized(text)[m]
          = Tokens(Lines(text)[m], IF m = 1 THEN FALSE ELSE Tokenized(text)[m - 1].inString)
  BY TokenizedIs
<1> HIDE DEF num
<1>4. 0 \in P
  OBVIOUS
<1>5. ASSUME NEW m \in P PROVE m + 1 \in P
  <2>1. m \in Nat /\ m + 1 \in Nat /\ (m + 1) - 1 = m
    OBVIOUS
  <2>2. ASSUME m + 1 \in 1..num
        PROVE  \E s \in BOOLEAN : Tokenized(text)[m + 1] = Tokens(Lines(text)[m + 1], s)
    <3>1. CASE m = 0
      <4>1. m + 1 = 1
        BY <3>1
      <4>2. Tokenized(text)[m + 1] = Tokens(Lines(text)[m + 1], FALSE)
        BY <1>3, <2>2, <4>1
      <4> QED
        BY <4>2
    <3>2. CASE m # 0
      <4>1. m \in 1..num /\ m + 1 # 1
        BY <1>1, <2>1, <2>2, <3>2
      <4>2. PICK s \in BOOLEAN : Tokenized(text)[m] = Tokens(Lines(text)[m], s)
        BY <4>1
      <4>3. Tokenized(text)[m].inString \in BOOLEAN
        BY <1>2, <4>1, <4>2, TokensKeepText
      <4>4. Tokenized(text)[m + 1] = Tokens(Lines(text)[m + 1], Tokenized(text)[m].inString)
        BY <1>3, <2>1, <2>2, <4>1
      <4> QED
        BY <4>3, <4>4
    <3> QED
      BY <3>1, <3>2
  <2> QED
    BY <2>1, <2>2, Zenon
<1>6. P = Nat
  <2> HIDE DEF P
  <2> QED
    BY <1>4, <1>5, InductionOverNat DEF P
<1>7. n \in P
  <2>1. n \in Nat
    BY <1>1 DEF num
  <2> HIDE DEF P
  <2> QED
    BY <1>6, <2>1
<1> QED
  BY <1>7 DEF num

\* A line is read out of a string when the strings of the lines in front are closed.
LEMMA ClosedTokens ==
  ASSUME NEW text \in Text, NEW n \in 1..NumLines(text), ClosedBefore(Lines(text), n)
  PROVE  Tokenized(text)[n] = Tokens(Lines(text)[n], FALSE)
<1> DEFINE num == NumLines(text)
           P == {m \in Nat : m \in 1..n => Tokenized(text)[m] = Tokens(Lines(text)[m], FALSE)}
<1>1. num \in Nat /\ n \in Nat /\ n \in 1..num
  BY LinesAreCounted DEF Text
<1>2. \A m \in 1..num : Lines(text)[m] \in Line
  BY LinesAre
<1>3. \A m \in 1..num :
        Tokenized(text)[m]
          = Tokens(Lines(text)[m], IF m = 1 THEN FALSE ELSE Tokenized(text)[m - 1].inString)
  BY TokenizedIs
<1>4. \A m \in 1..n - 1 : ~LeftOpen(Lines(text)[m])
  BY DEF ClosedBefore, LeftOpen, Open
<1> HIDE DEF num
<1>5. 0 \in P
  OBVIOUS
<1>6. ASSUME NEW m \in P PROVE m + 1 \in P
  <2>1. m \in Nat /\ m + 1 \in Nat /\ (m + 1) - 1 = m
    OBVIOUS
  <2>2. ASSUME m + 1 \in 1..n
        PROVE  Tokenized(text)[m + 1] = Tokens(Lines(text)[m + 1], FALSE)
    <3>1. m + 1 \in 1..num
      BY <1>1, <2>1, <2>2
    <3>2. CASE m = 0
      <4>1. m + 1 = 1
        BY <3>2
      <4> QED
        BY <1>3, <3>1, <4>1
    <3>3. CASE m # 0
      <4>1. m \in 1..n /\ m \in 1..n - 1 /\ m \in 1..num /\ m + 1 # 1
        BY <1>1, <2>1, <2>2, <3>3
      <4>2. Tokenized(text)[m] = Tokens(Lines(text)[m], FALSE) /\ Lines(text)[m] \in Line
        BY <1>2, <4>1
      <4>3. Tokens(Lines(text)[m], FALSE).inString <=> LeftOpen(Lines(text)[m])
        BY <4>2, CommentOfTokens
      <4>4. Tokenized(text)[m].inString \in BOOLEAN
        BY <4>2, TokensKeepText
      <4>5. Tokenized(text)[m].inString = FALSE
        BY <1>4, <4>1, <4>2, <4>3, <4>4
      <4>6. Tokenized(text)[m + 1] = Tokens(Lines(text)[m + 1], Tokenized(text)[m].inString)
        BY <1>3, <2>1, <3>1, <4>1
      <4> QED
        BY <4>5, <4>6
    <3> QED
      BY <3>2, <3>3
  <2> QED
    BY <2>1, <2>2, Zenon
<1>7. P = Nat
  <2> HIDE DEF P
  <2> QED
    BY <1>5, <1>6, InductionOverNat DEF P
<1>8. n \in P
  <2> HIDE DEF P
  <2> QED
    BY <1>1, <1>7
<1>9. n \in 1..n
  BY <1>1
<1> QED
  BY <1>8, <1>9

-----------------------------------------------------------------------------
(* Operations.                                                             *)

LEMMA PiecesJoined ==
  ASSUME NEW S, NEW a \in Seq(S), NEW b \in Seq(S)
  PROVE  ToSet(a \o b) = ToSet(a) \cup ToSet(b)
<1>1. /\ Len(a \o b) = Len(a) + Len(b)
      /\ \A i \in 1..Len(a) : (a \o b)[i] = a[i]
      /\ \A i \in 1..Len(b) : (a \o b)[Len(a) + i] = b[i]
  BY JoinIs
<1>2. /\ DOMAIN a = 1..Len(a) /\ DOMAIN b = 1..Len(b) /\ Len(a) \in Nat /\ Len(b) \in Nat
      /\ DOMAIN (a \o b) = 1..Len(a) + Len(b)
  BY <1>1
<1>3. ASSUME NEW x \in ToSet(a) PROVE x \in ToSet(a \o b)
  <2>1. PICK i \in 1..Len(a) : x = a[i]
    BY <1>2 DEF ToSet
  <2>2. i \in 1..Len(a) + Len(b) /\ (a \o b)[i] = x
    BY <1>1, <1>2, <2>1
  <2> QED
    BY <1>2, <2>2 DEF ToSet
<1>4. ASSUME NEW x \in ToSet(b) PROVE x \in ToSet(a \o b)
  <2>1. PICK i \in 1..Len(b) : x = b[i]
    BY <1>2 DEF ToSet
  <2>2. Len(a) + i \in 1..Len(a) + Len(b) /\ (a \o b)[Len(a) + i] = x
    BY <1>1, <1>2, <2>1
  <2> QED
    BY <1>2, <2>2 DEF ToSet
<1>5. ASSUME NEW x \in ToSet(a \o b) PROVE x \in ToSet(a) \cup ToSet(b)
  <2>1. PICK i \in 1..Len(a) + Len(b) : x = (a \o b)[i]
    BY <1>2 DEF ToSet
  <2>2. CASE i \in 1..Len(a)
    BY <1>1, <1>2, <2>1, <2>2 DEF ToSet
  <2>3. CASE i \notin 1..Len(a)
    <3>1. i - Len(a) \in 1..Len(b) /\ Len(a) + (i - Len(a)) = i
      BY <1>2, <2>3
    <3>2. x = b[i - Len(a)]
      BY <1>1, <2>1, <3>1
    <3> QED
      BY <1>2, <3>1, <3>2 DEF ToSet
  <2> QED
    BY <2>2, <2>3
<1> QED
  BY <1>3, <1>4, <1>5

LEMMA SpanElement ==
  ASSUME NEW text, NEW class, NEW p \in ToSet(Span(text, class))
  PROVE  p = Piece(text, class) /\ p.class = class /\ p.text = text
<1>1. p = Piece(text, class)
  BY DEF Span, ToSet
<1> QED
  BY <1>1 DEF Piece

\* The code of a line is what stands in front of its comment.
CodePart(line) == Take(line, CommentStart(line) - 1)

\* The one span that can be an operation.
LEMMA OperationSpan ==
  ASSUME NEW line \in Line, NEW p \in ToSet(HighlightLine(line)),
         p.class \in {"hl-opcode", "hl-directive"}
  PROVE  /\ BlankSpace(CodePart(line)) # <<>>
         /\ p = Piece(Operation(CodePart(line)), OpCodeClass(Operation(CodePart(line))))
         /\ p.text = Operation(CodePart(line))
         /\ p.class = OpCodeClass(Operation(CodePart(line)))
<1>1. PICK n, code, comment : /\ n = CommentStart(line) - 1
                              /\ code = Take(line, n) /\ comment = Drop(line, n)
  OBVIOUS
<1>2. code \in Line /\ comment \in Text /\ code \in Text
  BY <1>1, CommentPartIs, PartsOfLines, LinesAreTexts
<1>3. PICK x, y : x = HighlightCode(code) /\ y = Span(comment, "hl-comment")
  OBVIOUS
<1>4. HighlightLine(line) = x \o y
  BY <1>1, <1>3 DEF HighlightLine
<1>5. x \in Seq(Pieces) /\ y \in Seq(Pieces)
  <2>1. "hl-comment" \in Class
    BY DEF Class
  <2> QED
    BY <1>2, <1>3, <2>1, HighlightCodeIsPlain, SpanIs DEF Plain
<1>6. p \in ToSet(x)
  <2>1. p \in ToSet(x) \cup ToSet(y)
    BY <1>4, <1>5, PiecesJoined
  <2>2. p \notin ToSet(y)
    BY <1>3, SpanElement
  <2> QED
    BY <2>1, <2>2
<1>7. CASE BlankSpace(code) = <<>>
  <2>1. x = Span(code, "hl-expr")
    BY <1>3, <1>7 DEF HighlightCode
  <2> QED
    BY <1>6, <2>1, SpanElement
<1>8. CASE BlankSpace(code) # <<>>
  <2>1. PICK L, B, O, R : /\ L = Label(code) /\ B = BlankSpace(code)
                          /\ O = Operation(code) /\ R = Remainder(code)
    OBVIOUS
  <2>2. L \in Text /\ B \in Text /\ O \in Text /\ R \in Text
    BY <1>2, <2>1, GroupsAreTheCode
  <2>3. PICK u, v, z, w : /\ u = Span(L, "hl-label") /\ v = Span(B, "none")
                          /\ z = Span(O, OpCodeClass(O)) /\ w = Span(R, "hl-expr")
    OBVIOUS
  <2>4. x = ((u \o v) \o z) \o w
    BY <1>3, <1>8, <2>1, <2>3, Zenon DEF HighlightCode
  <2>5. "hl-label" \in Class /\ "none" \in Class /\ "hl-expr" \in Class /\ OpCodeClass(O) \in Class
    BY OpCodeClassIs DEF Class
  <2>6. u \in Seq(Pieces) /\ v \in Seq(Pieces) /\ z \in Seq(Pieces) /\ w \in Seq(Pieces)
    BY <2>2, <2>3, <2>5, SpanIs
  <2>7. PICK g, h : g = u \o v /\ h = g \o z
    OBVIOUS
  <2>8. g \in Seq(Pieces) /\ h \in Seq(Pieces)
    BY <2>6, <2>7, JoinIs
  <2>9. p \in ToSet(h) \cup ToSet(w)
    <3>1. x = h \o w
      BY <2>4, <2>7
    <3>2. ToSet(h \o w) = ToSet(h) \cup ToSet(w)
      BY <2>6, <2>8, PiecesJoined
    <3> QED
      BY <1>6, <3>1, <3>2
  <2>10. ToSet(h) = ToSet(g) \cup ToSet(z) /\ ToSet(g) = ToSet(u) \cup ToSet(v)
    <3>1. ToSet(g \o z) = ToSet(g) \cup ToSet(z)
      BY <2>6, <2>8, PiecesJoined
    <3>2. ToSet(u \o v) = ToSet(u) \cup ToSet(v)
      BY <2>6, PiecesJoined
    <3> QED
      BY <2>7, <3>1, <3>2
  <2>11. p \notin ToSet(u) /\ p \notin ToSet(v) /\ p \notin ToSet(w)
    BY <2>3, SpanElement
  <2>12. p \in ToSet(z)
    BY <2>9, <2>10, <2>11
  <2>13. p = Piece(O, OpCodeClass(O)) /\ p.text = O /\ p.class = OpCodeClass(O)
    BY <2>3, <2>12, SpanElement
  <2>14. code = CodePart(line)
    BY <1>1 DEF CodePart
  <2> QED
    BY <1>8, <2>1, <2>13, <2>14
<1> QED
  BY <1>7, <1>8

\* An operation of one lexeme, behind a margin or a label without a quote.
OperationAt(line, q) ==
  /\ q \in 2..Len(line) /\ line[q - 1] = "space" /\ line[q] \in {"opcode", "directive"}
  /\ q < Len(line) => line[q + 1] \notin WordChars
  /\ \A k \in 1..q - 1 : line[k] \notin {"quote", "percent"}

\* The operation of a line whose label has no quote stands out of any string, behind a
\* space and in front of no further letter.
LEMMA SimpleOperation ==
  ASSUME NEW line \in Line, BlankSpace(CodePart(line)) # <<>>,
         NEW word, word = Operation(CodePart(line)), Len(word) = 1,
         OpCodeClass(word) \in {"hl-opcode", "hl-directive"},
         "quote" \notin ToSet(Label(line))
  PROVE  \E q \in 1..Len(line) :
           OperationAt(line, q) /\ word = <<line[q]>> /\ OpCodeClass(word) = WordClass(word)
<1>1. PICK start, code : start = CommentStart(line) /\ code = CodePart(line)
  OBVIOUS
<1>2. /\ start - 1 \in 0..Len(line) /\ start \in 1..Len(line) + 1 /\ Len(line) \in Nat
      /\ line \in Seq(Lexeme)
      /\ \A x \in 1..start - 1 : ~Percent(line, x)
      /\ start <= Len(line) => Percent(line, start)
  BY <1>1, CommentPartIs, CommentStartIs, LinesAreTexts DEF Text
<1>3. code \in Line /\ Len(code) = start - 1 /\ \A k \in 1..start - 1 : code[k] = line[k]
  <2>1. code = Take(line, start - 1)
    BY <1>1 DEF CodePart
  <2> QED
    BY ZenonT(30), <1>2, <2>1, PartsOfLines, TakeIs
<1>4. PICK l, b, o : Match(code, l, b, o)
  BY <1>3, MatchExists
<1>5. /\ l \in 0..Len(code) /\ b \in 0..Len(code) - l /\ o \in 0..Len(code) - (l + b)
      /\ \A k \in 1..l : code[k] # "space"
      /\ \A k \in l + 1..l + b : code[k] = "space"
      /\ BlankSpace(code) = Take(Drop(code, l), b)
      /\ AfterBlank(code) = Drop(code, l + b) /\ Len(AfterBlank(code)) = Len(code) - (l + b)
      /\ Operation(code) = Take(AfterBlank(code), o) /\ Len(Operation(code)) = o
      /\ (l + b) + o < Len(code) => code[((l + b) + o) + 1] = "space"
  BY <1>4 DEF Match
<1>6. b # 0
  <2>1. SUFFICES ASSUME b = 0 PROVE FALSE
    OBVIOUS
  <2>2. BlankSpace(code) = <<>>
    BY <1>5, <2>1 DEF Take
  <2> QED
    BY <1>1, <2>2
<1>7. o = 1 /\ word = Operation(code)
  BY <1>1, <1>5
<1>8. PICK q : q = (l + b) + 1
  OBVIOUS
<1>9. /\ q \in 2..start - 1 /\ q \in 2..Len(line) /\ q - 1 = l + b /\ l \in Nat /\ q \in Nat
      /\ q - 1 \in l + 1..l + b /\ q \in 1..Len(line) /\ l + b \in 0..Len(code)
      /\ 1 \in 1..Len(code) - (l + b) /\ 1 \in 0..Len(AfterBlank(code))
      /\ (l + b) + o = q
  BY <1>2, <1>3, <1>5, <1>6, <1>7, <1>8
<1>10. word = <<line[q]>>
  <2>1. PICK after : after = AfterBlank(code)
    OBVIOUS
  <2>2. code \in Seq(Lexeme)
    BY <1>3, LinesAreTexts DEF Text
  <2>3. after \in Seq(Lexeme) /\ after[1] = code[(l + b) + 1]
    <3>1. PICK m : m = l + b
      OBVIOUS
    <3>2. m \in 0..Len(code) /\ 1 \in 1..Len(code) - m /\ after = Drop(code, m)
      BY <1>5, <1>9, <2>1, <3>1
    <3>3. after \in Seq(Lexeme) /\ after[1] = code[m + 1]
      BY <2>2, <3>2, DropIs
    <3> QED
      BY <3>1, <3>3
  <2>4. after[1] = line[q]
    BY <1>3, <1>8, <1>9, <2>3
  <2>5. word \in Seq(Lexeme) /\ Len(word) = 1 /\ word[1] = after[1]
    <3>1. word = Take(after, 1) /\ 1 \in 0..Len(after)
      BY <1>5, <1>7, <1>9, <2>1
    <3>2. after \in Seq(Lexeme)
      BY <2>3
    <3>3. /\ Take(after, 1) \in Seq(Lexeme) /\ Len(Take(after, 1)) = 1
          /\ Take(after, 1)[1] = after[1]
      BY <3>1, <3>2, FirstTaken
    <3> QED
      BY <3>1, <3>3
  <2>6. word = <<word[1]>>
    BY <2>5, OneLexeme
  <2> QED
    BY <2>4, <2>5, <2>6
<1>11. line[q] \in {"opcode", "directive"} /\ OpCodeClass(word) = WordClass(word)
  <2>1. word \in OpCode \/ word \in AssemblerDirective
    BY DEF OpCodeClass
  <2>2. word = <<"opcode">> \/ word = <<"directive">>
    BY <2>1 DEF OpCode, AssemblerDirective
  <2>3. line[q] = word[1]
    BY <1>10
  <2>4. line[q] \in {"opcode", "directive"}
    BY <2>2, <2>3
  <2>5. OpCodeClass(word) = WordClass(word)
    BY <2>1 DEF OpCodeClass, WordClass
  <2> QED
    BY <2>4, <2>5
<1>12. line[q - 1] = "space"
  <2>1. code[q - 1] = "space" /\ q - 1 \in 1..start - 1
    BY <1>2, <1>5, <1>9
  <2> QED
    BY <1>3, <2>1
<1>13. ASSUME NEW k \in 1..q - 1 PROVE line[k] # "quote"
  <2>1. k \in 1..start - 1 /\ code[k] = line[k]
    BY <1>2, <1>3, <1>9
  <2>2. CASE k > l
    <3>1. k \in l + 1..l + b
      BY <1>9, <2>2
    <3> QED
      BY <1>5, <2>1, <3>1
  <2>3. CASE k <= l
    <3>1. PICK r : r = Run(line, NonSpace)
      OBVIOUS
    <3>2. r \in 0..Len(line) /\ (r < Len(line) => line[r + 1] \notin NonSpace)
      BY <1>2, <3>1, RunIs
    <3>3. k <= r
      <4>1. SUFFICES ASSUME r < k PROVE FALSE
        BY <3>2
      <4>2. r + 1 \in 1..l /\ r < Len(line) /\ r + 1 \in 1..start - 1 /\ r + 1 \in 1..Len(line)
        BY <1>2, <1>3, <1>5, <2>1, <2>3, <3>2, <4>1
      <4>3. line[r + 1] # "space" /\ line[r + 1] \in Lexeme
        BY <1>2, <1>3, <1>5, <4>2, ElementIs
      <4> QED
        BY <3>2, <4>2, <4>3 DEF NonSpace
    <3>4. PICK label : label = Take(line, r)
      OBVIOUS
    <3>5. label \in Seq(Lexeme) /\ Len(label) = r /\ label[k] = line[k] /\ k \in 1..r
      <4>1. k \in 1..r
        BY <3>2, <3>3
      <4> QED
        BY <1>2, <3>2, <3>4, <4>1, TakeIs
    <3>6. Label(line) = label
      BY <3>1, <3>4 DEF Label
    <3>7. label[k] \in ToSet(label)
      BY <3>5 DEF ToSet
    <3> QED
      BY <3>5, <3>6, <3>7
  <2>4. k > l \/ k <= l
    BY <1>9
  <2> QED
    BY <2>2, <2>3, <2>4
<1>14. ASSUME NEW k \in 1..q - 1 PROVE line[k] # "percent"
  <2>1. k \in 1..start - 1 /\ k - 1 \in 0..Len(line)
    BY <1>2, <1>9
  <2>2. QuotesTo(line, k - 1) = {}
    <3>1. \A j \in 1..k - 1 : j \in 1..q - 1
      BY <1>9
    <3> QED
      BY <1>13, <3>1 DEF QuotesTo
  <2>3. ~Open(line, k - 1)
    <3>1. Cardinality(QuotesTo(line, k - 1)) = 0
      BY <2>2, FS_EmptySet
    <3> QED
      BY <2>1, <3>1, OpenIs
  <2> QED
    BY <1>2, <2>1, <2>3 DEF Percent
<1>15. ASSUME q < Len(line) PROVE line[q + 1] \notin WordChars
  <2>1. CASE q < Len(code)
    <3>1. code[q + 1] = "space" /\ q + 1 \in 1..start - 1
      BY <1>3, <1>5, <1>9, <2>1
    <3> QED
      BY <1>3, <3>1 DEF WordChars, Letters
  <2>2. CASE ~(q < Len(code))
    <3>1. start = q + 1 /\ start <= Len(line)
      BY <1>2, <1>3, <1>9, <1>15, <2>2
    <3>2. line[q + 1] = "percent"
      BY <1>2, <3>1 DEF Percent
    <3> QED
      BY <3>2 DEF WordChars, Letters
  <2> QED
    BY <2>1, <2>2
<1>16. OperationAt(line, q)
  BY <1>9, <1>11, <1>12, <1>13, <1>14, <1>15 DEF OperationAt
<1> QED
  BY <1>9, <1>10, <1>11, <1>16

\* The token of an operation.
WordPiece(line, q) == Piece(<<line[q]>>, WordClass(<<line[q]>>))

LEMMA TokenOfOperation ==
  ASSUME NEW line \in Line, NEW q, OperationAt(line, q), NEW n \in 1..Len(line),
         Len(line) - n = q - 1
  PROVE  \A t : t = Token(Ending(line, n), FALSE) => TokenPiece(line, n, t) = WordPiece(line, q)
<1>1. PICK rest : rest = Ending(line, n)
  OBVIOUS
<1>2. /\ rest \in Line /\ Len(rest) = n /\ rest \in Seq(Lexeme)
      /\ \A k \in 1..n : rest[k] = line[(q - 1) + k]
  <2>1. n \in 0..Len(line)
    BY LinesAreTexts
  <2>2. /\ rest \in Line /\ Len(rest) = n
        /\ \A k \in 1..n : rest[k] = line[(Len(line) - n) + k]
    BY <1>1, <2>1, EndingIs
  <2> QED
    BY <2>2, LinesAreTexts DEF Text
<1>3. q \in 2..Len(line) /\ Len(line) \in Nat /\ q \in Nat /\ n \in Nat /\ n > 0 /\ 1 \in 0..n /\ 1 \in 1..n
  BY LinesAreTexts DEF OperationAt
<1>4. rest[1] = line[q] /\ line[q] \in Letters /\ line[q] \in WordChars
  <2>1. (q - 1) + 1 = q
    BY <1>3
  <2>2. line[q] \in Letters
    BY DEF OperationAt, Letters
  <2> QED
    BY <1>2, <1>3, <2>1, <2>2 DEF WordChars
<1>5. PICK r : r = Run(rest, WordChars)
  OBVIOUS
<1>6. r = 1
  <2>1. r \in 1..n /\ \A k \in 1..r : rest[k] \in WordChars
    BY <1>2, <1>3, <1>4, <1>5, RunStarts
  <2>2. SUFFICES ASSUME r # 1 PROVE FALSE
    OBVIOUS
  <2>3. 2 \in 1..r /\ 2 \in 1..n /\ (q - 1) + 2 = q + 1 /\ q < Len(line)
    BY <1>3, <2>1, <2>2
  <2>4. line[q + 1] \in WordChars
    BY <1>2, <2>1, <2>3
  <2> QED
    BY <2>3, <2>4 DEF OperationAt
<1> TAKE t
<1>0. HAVE t = Token(Ending(line, n), FALSE)
<1>7. t = [len |-> r, class |-> WordClass(Take(rest, r)), inString |-> FALSE]
  BY <1>0, <1>1, <1>4, <1>5 DEF Token, Letters
<1>8. Take(rest, 1) = <<line[q]>>
  <2>1. Take(rest, 1) \in Seq(Lexeme) /\ Len(Take(rest, 1)) = 1 /\ Take(rest, 1)[1] = rest[1]
    <3>1. 1 \in 0..Len(rest) /\ 1 \in 1..1
      BY <1>2, <1>3
    <3> QED
      BY <1>2, <3>1, TakeIs
  <2> QED
    BY <1>4, <2>1
<1>9. t.len = 1 /\ t.class = WordClass(<<line[q]>>)
  <2>1. PICK c : c = WordClass(Take(rest, r))
    OBVIOUS
  <2>2. t = [len |-> r, class |-> c, inString |-> FALSE]
    BY <1>7, <2>1, Zenon
  <2>3. t.len = r /\ t.class = c
    BY <2>2
  <2> QED
    BY <1>6, <1>8, <2>1, <2>3
<1> QED
  BY <1>1, <1>8, <1>9 DEF TokenPiece, WordPiece

\* In front of an operation, and out of a string, no token reaches it.
LEMMA TokenBeforeOperation ==
  ASSUME NEW line \in Line, NEW q, OperationAt(line, q), NEW i \in Nat, i + 1 < q,
         NEW t \in Tok, NEW rest, NEW l \in Nat, l = t.len,
         l \in 1..Len(line) - i, \A k \in 1..l : rest[k] = line[i + k],
         TokenKinds(t, rest, FALSE)
  PROVE  t.inString = FALSE /\ i + l < q
<1>1. q \in 2..Len(line) /\ Len(line) \in Nat /\ q \in Nat /\ 1 \in 1..l
  BY LinesAreTexts DEF OperationAt
<1>2. rest[1] \notin {"quote", "percent"}
  <2>1. i + 1 \in 1..q - 1 /\ rest[1] = line[i + 1]
    BY <1>1
  <2> QED
    BY <2>1 DEF OperationAt
<1>3. PlainToken(t, rest, FALSE)
  BY <1>2 DEF TokenKinds, ClosingQuote, CommentToken, StringToken
<1>4. i + l < q
  <2>1. SUFFICES ASSUME ~(i + l < q) PROVE FALSE
    OBVIOUS
  <2>2. q - i \in 1..l /\ (q - 1) - i \in 1..l /\ i + (q - i) = q /\ i + ((q - 1) - i) = q - 1
    BY <1>1, <2>1
  <2>3. rest[q - i] = line[q] /\ rest[(q - 1) - i] = line[q - 1]
    BY <2>2
  <2>4. line[q] # "space" /\ line[q - 1] = "space"
    BY DEF OperationAt
  <2>5. (\A k \in 1..l : rest[k] = "space") \/ (\A k \in 1..l : rest[k] # "space")
    BY <1>3 DEF PlainToken
  <2> QED
    BY <2>2, <2>3, <2>4, <2>5
<1> QED
  BY <1>3, <1>4 DEF PlainToken

\* Induction on the rest of the line: while it holds the operation, its tokens do.
LEMMA ScanFindsOperation ==
  ASSUME NEW line \in Line, NEW f, Scanned(f, line), NEW q, OperationAt(line, q)
  PROVE  WordPiece(line, q) \in ToSet(f[Len(line)][FALSE].pieces)
<1> DEFINE len == Len(line)
           Good(n) == len - n < q => WordPiece(line, q) \in ToSet(f[n][FALSE].pieces)
           S == {n \in 0..len : Good(n)}
<1>1. len \in Nat /\ q \in Nat /\ q \in 2..len
  BY LinesAreTexts DEF OperationAt
<1>2. Good(0)
  BY <1>1
<1>3. ASSUME NEW n \in 1..len, \A m \in 0..n - 1 : Good(m) PROVE Good(n)
  <2> SUFFICES ASSUME len - n < q PROVE WordPiece(line, q) \in ToSet(f[n][FALSE].pieces)
    OBVIOUS
  <2>1. PICK t, p, a : ScanStep(f, line, n, FALSE, t, p, a)
    BY ScanSteps
  <2>2. PICK l : l = t.len
    OBVIOUS
  <2>3. PICK i : i = len - n
    OBVIOUS
  <2>4. /\ t = Token(Ending(line, n), FALSE) /\ t \in Tok
        /\ l \in 1..n /\ n - l \in 0..n - 1 /\ t.inString \in BOOLEAN
        /\ TokenKinds(t, Ending(line, n), FALSE)
        /\ p = TokenPiece(line, n, t) /\ p \in Pieces
        /\ a = f[n - l][t.inString]
        /\ f[n][FALSE].pieces = <<p>> \o a.pieces
    BY <2>1, <2>2 DEF ScanStep
  <2>5. i \in Nat /\ i + 1 <= q /\ n = len - i /\ n - l \in 0..len /\ n \in 0..len
    BY <1>1, <2>3, <2>4
  <2>6. a.pieces \in Seq(Pieces) /\ <<p>> \in Seq(Pieces)
    <3>1. \A m \in 0..Len(line), s \in BOOLEAN : f[m][s].pieces \in Seq(Pieces)
      BY ScanKeepsText
    <3>2. a.pieces \in Seq(Pieces)
      BY <2>4, <2>5, <3>1
    <3>3. p \in Pieces
      BY <2>4
    <3>4. <<p>> \in Seq(Pieces)
      BY <3>3
    <3> QED
      BY <3>2, <3>4
  <2>7. ToSet(f[n][FALSE].pieces) = ToSet(<<p>>) \cup ToSet(a.pieces)
    <3>1. PICK u : u = <<p>>
      OBVIOUS
    <3>2. PICK v : v = a.pieces
      OBVIOUS
    <3>3. u \in Seq(Pieces)
      BY <2>6, <3>1
    <3>4. v \in Seq(Pieces)
      BY <2>6, <3>2
    <3>5. ToSet(u \o v) = ToSet(u) \cup ToSet(v)
      BY <3>3, <3>4, PiecesJoined
    <3>6. f[n][FALSE].pieces = u \o v
      BY <2>4, <3>1, <3>2
    <3> QED
      BY <3>1, <3>2, <3>5, <3>6
  <2>8. CASE i + 1 = q
    <3>1. len - n = q - 1
      BY <1>1, <2>3, <2>5, <2>8
    <3>2. p = WordPiece(line, q)
      BY <2>4, <3>1, TokenOfOperation
    <3>3. p \in ToSet(<<p>>)
      <4>1. 1 \in DOMAIN <<p>> /\ <<p>>[1] = p
        OBVIOUS
      <4> QED
        BY <4>1 DEF ToSet
    <3> QED
      BY <2>7, <3>2, <3>3
  <2>9. CASE i + 1 # q
    <3>1. i + 1 < q
      BY <1>1, <2>5, <2>9
    <3>2. PICK rest : rest = Ending(line, n)
      OBVIOUS
    <3>3. \A k \in 1..n : rest[k] = line[i + k]
      BY <2>3, <2>5, <3>2, EndingIs
    <3>4. l \in Nat /\ l \in 1..Len(line) - i /\ \A k \in 1..l : rest[k] = line[i + k]
      BY <1>1, <2>4, <2>5, <3>3
    <3>5. TokenKinds(t, rest, FALSE)
      BY <2>4, <3>2
    <3>6. t.inString = FALSE /\ i + l < q
      <4>1. i \in Nat /\ i + 1 < q /\ t \in Tok /\ l = t.len
        BY <2>2, <2>4, <2>5, <3>1
      <4> HIDE DEF Good, S, len
      <4>2. t.inString = FALSE
        BY <3>4, <3>5, <4>1, TokenBeforeOperation
      <4>3. i + l < q
        BY <3>4, <3>5, <4>1, TokenBeforeOperation
      <4> QED
        BY <4>2, <4>3
    <3>7. len - (n - l) < q
      BY <1>1, <2>3, <2>4, <2>5, <3>6
    <3>8. Good(n - l)
      BY <1>3, <2>4
    <3>9. WordPiece(line, q) \in ToSet(a.pieces)
      BY <2>4, <3>6, <3>7, <3>8
    <3> QED
      BY <2>7, <3>9
  <2> QED
    BY <2>8, <2>9
<1> HIDE DEF Good, len
<1>4. ASSUME NEW m \in 0..len, \A k \in 0..m - 1 : k \in S PROVE m \in S
  <2>1. \A k \in 0..m - 1 : Good(k)
    BY <1>4
  <2>2. CASE m = 0
    BY <1>2, <2>2
  <2>3. CASE m # 0
    <3>1. m \in 1..len
      BY <1>1, <2>3
    <3> QED
      BY <1>3, <2>1, <3>1
  <2> QED
    BY <2>2, <2>3
<1>5. \A m \in 0..len : m \in S
  <2> HIDE DEF S
  <2> QED
    BY <1>1, <1>4, StrongInduction
<1>6. Good(len) /\ len - len < q
  BY <1>1, <1>5
<1> QED
  BY <1>6 DEF Good, len

LEMMA TokensFindOperation ==
  ASSUME NEW line \in Line, NEW q, OperationAt(line, q)
  PROVE  WordPiece(line, q) \in ToSet(Tokens(line, FALSE).pieces)
<1>1. PICK f : Scanned(f, line) /\ \A r \in BOOLEAN : Tokens(line, r) = f[Len(line)][r]
  BY TokensAre DEF Scanned
<1>2. WordPiece(line, q) \in ToSet(f[Len(line)][FALSE].pieces)
  BY <1>1, ScanFindsOperation
<1> QED
  BY <1>1, <1>2

-----------------------------------------------------------------------------
(* The two colourings of a text.                                           *)

\* A span of the highlighter that is a simple operation is a token of the editor.
LEMMA OperationOfLine ==
  ASSUME NEW line \in Line, NEW p \in ToSet(HighlightLine(line)),
         p.class \in {"hl-opcode", "hl-directive"}, Len(p.text) = 1,
         "quote" \notin ToSet(Label(line))
  PROVE  p \in ToSet(Tokens(line, FALSE).pieces)
<1>1. PICK word : word = Operation(CodePart(line))
  OBVIOUS
<1>2. /\ BlankSpace(CodePart(line)) # <<>>
      /\ p = Piece(word, OpCodeClass(word)) /\ p.text = word /\ p.class = OpCodeClass(word)
  BY <1>1, OperationSpan
<1>3. Len(word) = 1 /\ OpCodeClass(word) \in {"hl-opcode", "hl-directive"}
  BY <1>2
<1>4. PICK q \in 1..Len(line) :
        OperationAt(line, q) /\ word = <<line[q]>> /\ OpCodeClass(word) = WordClass(word)
  BY <1>1, <1>2, <1>3, SimpleOperation
<1>5. p = WordPiece(line, q)
  BY <1>2, <1>4 DEF WordPiece
<1> QED
  BY <1>4, <1>5, TokensFindOperation

\* The colourings of a text are those of its lines.
LEMMA ColouringsOf ==
  ASSUME NEW text \in Text
  PROVE  \A n \in DOMAIN Lines(text) :
           /\ n \in 1..NumLines(text) /\ Lines(text)[n] \in Line
           /\ Highlight(text)[n] = HighlightLine(Lines(text)[n])
           /\ \E s \in BOOLEAN : Tokenized(text)[n] = Tokens(Lines(text)[n], s)
           /\ ClosedBefore(Lines(text), n) => Tokenized(text)[n] = Tokens(Lines(text)[n], FALSE)
<1> SUFFICES ASSUME NEW n \in 1..NumLines(text)
             PROVE  /\ Lines(text)[n] \in Line
                    /\ Highlight(text)[n] = HighlightLine(Lines(text)[n])
                    /\ \E s \in BOOLEAN : Tokenized(text)[n] = Tokens(Lines(text)[n], s)
                    /\ ClosedBefore(Lines(text), n)
                         => Tokenized(text)[n] = Tokens(Lines(text)[n], FALSE)
  BY LinesAre
<1>1. Lines(text)[n] \in Line
  BY LinesAre
<1>2. Highlight(text)[n] = HighlightLine(Lines(text)[n])
  BY DEF Highlight
<1>3. \E s \in BOOLEAN : Tokenized(text)[n] = Tokens(Lines(text)[n], s)
  BY TokenizedLine
<1>4. ClosedBefore(Lines(text), n) => Tokenized(text)[n] = Tokens(Lines(text)[n], FALSE)
  BY ClosedTokens
<1> QED
  BY <1>1, <1>2, <1>3, <1>4

LEMMA FormIsText ==
  TextInv => form \in Text
BY DEF TextInv, TextTypeOK, Text

-----------------------------------------------------------------------------
(* The theorems.                                                           *)

\* Type correctness: whatever is changed, the document and the form stay texts, which
\* is what every theorem below rests on.
THEOREM TextTypeCorrect == Spec => []TextTypeOK
<1>1. TextInv => TextTypeOK
  BY DEF TextInv
<1> QED
  BY <1>1, TextInvariant, PTL

\* syntax_highlighter.ts, highlight, and mmixal_language.ts, token: of every text, the
\* spans of a line and its tokens are the characters of the line, each of them once
\* and in their order.
THEOREM ColouringsKeepTheText == Spec => []ColouringKeepsTheText
<1>1. ASSUME TextInv PROVE ColouringKeepsTheText
  <2>1. form \in Text
    BY <1>1, FormIsText
  <2>2. ASSUME NEW n \in DOMAIN Lines(form)
        PROVE  /\ Texts(Highlight(form)[n]) = Lines(form)[n]
               /\ Texts(Tokenized(form)[n].pieces) = Lines(form)[n]
    <3>1. PICK line : line = Lines(form)[n]
      OBVIOUS
    <3>2. /\ line \in Line /\ Highlight(form)[n] = HighlightLine(line)
          /\ \E s \in BOOLEAN : Tokenized(form)[n] = Tokens(line, s)
      BY <2>1, <3>1, ColouringsOf
    <3>3. PICK s \in BOOLEAN : Tokenized(form)[n] = Tokens(line, s)
      BY <3>2
    <3>4. Texts(HighlightLine(line)) = line
      BY <3>2, HighlightLineIs
    <3>5. Texts(Tokens(line, s).pieces) = line
      BY <3>2, TokensKeepText
    <3> QED
      BY <3>1, <3>2, <3>3, <3>4, <3>5
  <2> QED
    BY <2>2 DEF ColouringKeepsTheText
<1> QED
  BY <1>1, TextInvariant, PTL

\* findCommentStart, which counts the quotes in front of a percent sign, and token,
\* which carries the open string from token to token and from line to line: they
\* find the same comment in every line that begins out of a string.
THEOREM CommentsAlwaysAgree == Spec => []CommentsAgree
<1>1. ASSUME TextInv PROVE CommentsAgree
  <2>1. form \in Text
    BY <1>1, FormIsText
  <2>2. ASSUME NEW n \in DOMAIN Lines(form), ClosedBefore(Lines(form), n)
        PROVE  Commented(Highlight(form)[n]) = Commented(Tokenized(form)[n].pieces)
    <3>1. PICK line : line = Lines(form)[n]
      OBVIOUS
    <3>2. /\ line \in Line /\ Highlight(form)[n] = HighlightLine(line)
          /\ Tokenized(form)[n] = Tokens(line, FALSE)
      BY <2>1, <2>2, <3>1, ColouringsOf
    <3>3. Commented(HighlightLine(line)) = CommentPart(line)
      BY <3>2, HighlightLineIs
    <3>4. Commented(Tokens(line, FALSE).pieces) = CommentPart(line)
      BY <3>2, CommentOfTokens
    <3> QED
      BY <3>2, <3>3, <3>4
  <2> QED
    BY <2>2 DEF CommentsAgree
<1> QED
  BY <1>1, TextInvariant, PTL

\* MMIXMatch, which finds the operation behind a label and blank space, and token,
\* which looks every word up: what the first colours as an opcode or a directive of one
\* lexeme, the second colours alike, in every line that begins out of a string.
THEOREM OperationsAlwaysAgree == Spec => []OperationsAgree
<1>1. ASSUME TextInv PROVE OperationsAgree
  <2>1. form \in Text
    BY <1>1, FormIsText
  <2>2. ASSUME NEW n \in DOMAIN Lines(form), ClosedBefore(Lines(form), n),
               NEW i \in DOMAIN Highlight(form)[n],
               Highlight(form)[n][i].class \in {"hl-opcode", "hl-directive"},
               Len(Highlight(form)[n][i].text) = 1,
               "quote" \notin ToSet(Label(Lines(form)[n]))
        PROVE  Contains(Tokenized(form)[n].pieces, Highlight(form)[n][i])
    <3>1. PICK line : line = Lines(form)[n]
      OBVIOUS
    <3>2. /\ line \in Line /\ Highlight(form)[n] = HighlightLine(line)
          /\ Tokenized(form)[n] = Tokens(line, FALSE)
      BY <2>1, <2>2, <3>1, ColouringsOf
    <3>3. PICK p : p = Highlight(form)[n][i]
      OBVIOUS
    <3>4. p \in ToSet(HighlightLine(line))
      BY <3>2, <3>3 DEF ToSet
    <3>5. p.class \in {"hl-opcode", "hl-directive"} /\ Len(p.text) = 1 /\ "quote" \notin ToSet(Label(line))
      BY <2>2, <3>1, <3>3
    <3>6. p \in ToSet(Tokens(line, FALSE).pieces)
      BY <3>2, <3>4, <3>5, OperationOfLine
    <3>7. PICK pieces : pieces = Tokens(line, FALSE).pieces
      OBVIOUS
    <3>8. pieces \in Seq(Pieces) /\ p \in ToSet(pieces)
      BY <3>2, <3>6, <3>7, TokensKeepText
    <3>9. Contains(Tokens(line, FALSE).pieces, p)
      <4>1. DOMAIN pieces = 1..Len(pieces)
        BY <3>8
      <4>2. PICK j \in 1..Len(pieces) : pieces[j] = p
        BY <3>8, <4>1 DEF ToSet
      <4>3. Contains(pieces, p)
        BY <4>2 DEF Contains
      <4> QED
        BY <3>7, <4>3
    <3> QED
      BY <3>2, <3>3, <3>9
  <2> QED
    BY <2>2 DEF OperationsAgree
<1> QED
  BY <1>1, TextInvariant, PTL

\* mmixal, startState and token: the tokens of a line depend on the line alone while
\* the strings in front of it are closed, so that a change of the document recolours
\* no other line.
THEOREM LinesStandAlone == Spec => ClosedLinesStandAlone
<1>1. ASSUME TextInv, TextInv', [Next]_vars
      PROVE  LET lines == Lines(form)
                 next == Lines(form')
                 tokens == Tokenized(form)
                 nextTokens == Tokenized(form')
             IN \A n \in DOMAIN lines \cap DOMAIN next :
                  next[n] = lines[n] /\ ClosedBefore(lines, n) /\ ClosedBefore(next, n)
                    => nextTokens[n] = tokens[n]
  <2>1. form \in Text /\ form' \in Text
    BY <1>1 DEF TextInv, TextTypeOK, Text
  <2>2. ASSUME NEW a \in Text, NEW b \in Text, NEW n \in DOMAIN Lines(a) \cap DOMAIN Lines(b),
               Lines(b)[n] = Lines(a)[n], ClosedBefore(Lines(a), n), ClosedBefore(Lines(b), n)
        PROVE  Tokenized(b)[n] = Tokenized(a)[n]
    <3>1. Tokenized(a)[n] = Tokens(Lines(a)[n], FALSE)
      BY <2>2, ColouringsOf
    <3>2. Tokenized(b)[n] = Tokens(Lines(b)[n], FALSE)
      BY <2>2, ColouringsOf
    <3> QED
      BY <2>2, <3>1, <3>2
  <2> QED
    BY <2>1, <2>2
<1> QED
  BY <1>1, TextInvariant, PTL DEF Spec, ClosedLinesStandAlone
=============================================================================
