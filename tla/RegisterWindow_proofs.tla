----------------------- MODULE RegisterWindow_proofs -----------------------
(***************************************************************************)
(* The ring of local registers implements the register stack, whatever the *)
(* sizes of the ring and of the register file.                             *)
(***************************************************************************)
EXTENDS RegisterWindow, NaturalSets, SequenceTheorems

(***************************************************************************)
(* The ring and the memory hold one array of octas, Octas(m), the array in *)
(* which the window moves.  The lemmas of this section say what each step  *)
(* of the machine does to that array; the ring occurs in no later one.     *)
(***************************************************************************)

Word == Value \cup 0 .. Registers

Machines ==
  [l : [0 .. Ring - 1 -> Word], memory : Seq(Word), O : Nat, L : Nat]

InMemory(m) == Len(m.memory)

\* What is not in memory fits into the ring.
Fits(m) == InMemory(m) <= m.O + m.L /\ m.O + m.L - InMemory(m) <= Ring

LEMMA Sizes ==
  /\ Ring \in Nat \ {0} /\ Registers \in Nat /\ Ring >= Registers
  /\ MinG \in 2 .. Registers - 1 /\ MaxO \in Nat
  /\ 0 \in Value /\ 0 \in Word
BY RegistersAssumption, RingAssumption DEF Word

LEMMA SlotInRing ==
  ASSUME NEW i \in Nat
  PROVE  Slot(i) \in 0 .. Ring - 1
BY Sizes DEF Slot

LEMMA SlotsDiffer ==
  ASSUME NEW i \in Nat, NEW j \in Nat, i # j, i - j < Ring, j - i < Ring
  PROVE  Slot(i) # Slot(j)
<1>1. CASE i < j
  <2>1. i \in Int /\ j \in Int /\ j < i + Ring /\ Ring \in Nat \ {0}
    BY <1>1, Sizes
  <2>2. i % Ring # j % Ring
    BY ONLY <1>1, <2>1, RemaindersDiffer
  <2> QED
    BY <2>2 DEF Slot
<1>2. CASE j < i
  <2>1. j \in Int /\ i \in Int /\ i < j + Ring /\ Ring \in Nat \ {0}
    BY <1>2, Sizes
  <2>2. j % Ring # i % Ring
    BY ONLY <1>2, <2>1, RemaindersDiffer
  <2> QED
    BY <2>2 DEF Slot
<1> QED
  BY <1>1, <1>2

LEMMA OctasType ==
  ASSUME NEW m \in Machines
  PROVE  /\ InMemory(m) \in Nat
         /\ DOMAIN Octas(m) = 0 .. m.O + m.L - 1
         /\ \A i \in 0 .. m.O + m.L - 1 :
              /\ Octas(m)[i] \in Word
              /\ i < InMemory(m) => Octas(m)[i] = m.memory[i + 1]
              /\ i >= InMemory(m) => Octas(m)[i] = m.l[Slot(i)]
<1>1. m.l \in [0 .. Ring - 1 -> Word] /\ m.memory \in Seq(Word) /\ m.O \in Nat /\ m.L \in Nat
  BY DEF Machines
<1>2. InMemory(m) \in Nat
  BY <1>1 DEF InMemory
<1>3. ASSUME NEW i \in 0 .. m.O + m.L - 1
      PROVE  Octas(m)[i] = IF i < InMemory(m) THEN m.memory[i + 1] ELSE m.l[Slot(i)]
  BY DEF Octas, InMemory
<1>4. ASSUME NEW i \in 0 .. m.O + m.L - 1, i < InMemory(m) PROVE m.memory[i + 1] \in Word
  BY <1>1, <1>4, ElementOfSeq DEF InMemory
<1>5. ASSUME NEW i \in 0 .. m.O + m.L - 1 PROVE m.l[Slot(i)] \in Word
  <2>1. Slot(i) \in 0 .. Ring - 1
    BY <1>1, SlotInRing
  <2> QED
    BY <1>1, <2>1
<1>6. DOMAIN Octas(m) = 0 .. m.O + m.L - 1
  BY DEF Octas
<1> QED
  BY <1>1, <1>2, <1>3, <1>4, <1>5, <1>6

\* Storing the oldest register moves it and changes no octa.
LEMMA StoreMoves ==
  ASSUME NEW m \in Machines, Fits(m), InMemory(m) < m.O + m.L
  PROVE  /\ stack_store(m) \in Machines
         /\ InMemory(stack_store(m)) = InMemory(m) + 1
         /\ stack_store(m).O = m.O
         /\ stack_store(m).L = m.L
         /\ Octas(stack_store(m)) = Octas(m)
<1> DEFINE s == InMemory(m)
           n == stack_store(m)
<1>1. m.l \in [0 .. Ring - 1 -> Word] /\ m.memory \in Seq(Word) /\ m.O \in Nat /\ m.L \in Nat
  BY DEF Machines
<1>2. s \in Nat
  BY <1>1 DEF InMemory
<1>3. n = [l |-> m.l, memory |-> Append(m.memory, m.l[Slot(s)]), O |-> m.O, L |-> m.L]
  <2>1. n = [m EXCEPT !.memory = Append(m.memory, m.l[Slot(s)])]
    BY DEF stack_store, InMemory
  <2> QED
    BY <2>1 DEF Machines
<1>4. m.l[Slot(s)] \in Word
  BY <1>1, <1>2, SlotInRing
<1>5. Append(m.memory, m.l[Slot(s)]) \in Seq(Word) /\ Len(Append(m.memory, m.l[Slot(s)])) = s + 1
  BY <1>1, <1>4 DEF InMemory
<1>6. n \in Machines
  BY <1>1, <1>3, <1>5 DEF Machines
<1>7. InMemory(n) = s + 1
  BY <1>3, <1>5 DEF InMemory
<1>8. Octas(n) = Octas(m)
  <2>1. n.O = m.O /\ n.L = m.L /\ n.l = m.l
    BY <1>3
  <2>2. ASSUME NEW i \in 0 .. m.O + m.L - 1 PROVE Octas(n)[i] = Octas(m)[i]
    <3> HIDE DEF n
    <3>1. CASE i < s
      <4>1. n.memory[i + 1] = m.memory[i + 1]
        BY <1>1, <1>3, <1>4, <3>1 DEF InMemory
      <4> QED
        BY <3>1, <4>1, <2>1, <1>2, <1>6, <1>7, OctasType
    <3>2. CASE i = s
      <4>1. n.memory[i + 1] = m.l[Slot(i)]
        BY <1>1, <1>3, <1>4, <3>2 DEF InMemory
      <4> QED
        BY <3>2, <4>1, <2>1, <1>2, <1>6, <1>7, OctasType
    <3>3. CASE i > s
      BY <3>3, <2>1, <1>2, <1>6, <1>7, OctasType
    <3> QED
      BY <3>1, <3>2, <3>3, <1>2
  <2> QED
    BY <2>1, <2>2 DEF Octas
<1> QED
  BY <1>3, <1>6, <1>7, <1>8

\* After StoreIfFull there is room for one more.
LEMMA StoreMakesRoom ==
  ASSUME NEW m \in Machines, Fits(m), InMemory(m) < m.O + m.L
  PROVE  /\ StoreIfFull(m) \in Machines
         /\ StoreIfFull(m).O = m.O
         /\ StoreIfFull(m).L = m.L
         /\ Octas(StoreIfFull(m)) = Octas(m)
         /\ InMemory(StoreIfFull(m)) \in Nat
         /\ InMemory(StoreIfFull(m)) <= m.O + m.L
         /\ m.O + m.L - InMemory(StoreIfFull(m)) < Ring
         /\ \/ InMemory(StoreIfFull(m)) = InMemory(m)
            \/ /\ m.O + m.L - InMemory(m) = Ring
               /\ InMemory(StoreIfFull(m)) = InMemory(m) + 1
<1> DEFINE d == InMemory(m) - m.O - m.L
<1>1. InMemory(m) \in Nat /\ m.O \in Nat /\ m.L \in Nat
  BY DEF Machines, InMemory
<1>2. d \in Int /\ -Ring <= d /\ d < 0
  BY <1>1, Sizes DEF Fits
<1>3. d % Ring = 0 <=> d = -Ring
  <2> HIDE DEF d
  <2> QED
    BY <1>2, Sizes, MultiplesApart
<1>4. CASE d % Ring = 0
  <2>1. StoreIfFull(m) = stack_store(m)
    BY <1>4 DEF StoreIfFull, InMemory
  <2>2. m.O + m.L - InMemory(m) = Ring
    BY <1>1, <1>3, <1>4, Sizes
  <2> QED
    BY <2>1, <2>2, <1>1, Sizes, StoreMoves
<1>5. CASE d % Ring # 0
  <2>1. StoreIfFull(m) = m
    BY <1>5 DEF StoreIfFull, InMemory
  <2>2. m.O + m.L - InMemory(m) < Ring
    BY <1>1, <1>2, <1>3, <1>5, Sizes
  <2> QED
    BY <2>1, <2>2, <1>1
<1> QED
  BY <1>4, <1>5

\* A write into a register of the ring changes its octa and no other.
LEMMA WriteChangesOne ==
  ASSUME NEW m \in Machines, Fits(m), NEW w \in Word,
         NEW i \in InMemory(m) .. m.O + m.L - 1
  PROVE  LET n == [m EXCEPT !.l[Slot(i)] = w]
         IN /\ n \in Machines
            /\ n = [m EXCEPT !.l = n.l]
            /\ InMemory(n) = InMemory(m)
            /\ Octas(n) = [Octas(m) EXCEPT ![i] = w]
<1> DEFINE n == [m EXCEPT !.l[Slot(i)] = w]
<1>1. m.l \in [0 .. Ring - 1 -> Word] /\ m.memory \in Seq(Word) /\ m.O \in Nat /\ m.L \in Nat
  BY DEF Machines
<1>2. InMemory(m) \in Nat /\ i \in 0 .. m.O + m.L - 1
  BY <1>1 DEF InMemory
<1>3. n = [m EXCEPT !.l = [m.l EXCEPT ![Slot(i)] = w]]
  OBVIOUS
<1>4. [m.l EXCEPT ![Slot(i)] = w] \in [0 .. Ring - 1 -> Word]
  BY <1>1
<1>5. n.l = [m.l EXCEPT ![Slot(i)] = w] /\ n.memory = m.memory /\ n.O = m.O /\ n.L = m.L
  BY <1>3 DEF Machines
<1>6. n \in Machines
  BY <1>1, <1>3, <1>4 DEF Machines
<1> HIDE DEF n
<1>7. InMemory(n) = InMemory(m)
  BY <1>5 DEF InMemory
<1>8. ASSUME NEW j \in 0 .. m.O + m.L - 1, j # i PROVE Octas(n)[j] = Octas(m)[j]
  <2>1. CASE j < InMemory(m)
    BY <2>1, <1>2, <1>5, <1>6, <1>7, OctasType
  <2>2. CASE j >= InMemory(m)
    <3>1. Slot(j) # Slot(i)
      BY <2>2, <1>1, <1>2, <1>8, SlotsDiffer, Sizes DEF Fits
    <3>2. n.l[Slot(j)] = m.l[Slot(j)]
      BY <3>1, <1>1, <1>5
    <3> QED
      BY <3>2, <2>2, <1>2, <1>5, <1>6, <1>7, OctasType
  <2> QED
    BY <2>1, <2>2, <1>2
<1>9. Octas(n)[i] = w
  <2>1. i \in Nat
    BY <1>1, <1>2
  <2>2. Slot(i) \in 0 .. Ring - 1
    BY <2>1, SlotInRing
  <2>3. n.l[Slot(i)] = w
    BY <2>2, <1>1, <1>5
  <2>4. i \in 0 .. n.O + n.L - 1 /\ i >= InMemory(n)
    BY <1>1, <1>2, <1>5, <1>7
  <2> QED
    BY <2>3, <2>4, <1>6, OctasType
<1>10. Octas(n) = [Octas(m) EXCEPT ![i] = w]
  <2>1. Octas(n) = [j \in 0 .. m.O + m.L - 1 |-> Octas(n)[j]]
    BY <1>5 DEF Octas
  <2>2. [Octas(m) EXCEPT ![i] = w] = [j \in 0 .. m.O + m.L - 1 |-> IF j = i THEN w ELSE Octas(m)[j]]
    BY DEF Octas
  <2> QED
    BY <2>1, <2>2, <1>8, <1>9
<1>11. n = [m EXCEPT !.l = n.l]
  BY <1>3, <1>5
<1> QED
  BY <1>6, <1>7, <1>10, <1>11 DEF n

\* The machine between two instructions: nothing of the current routine is in
\* memory only, and one place of the ring is free.
Sound(m) ==
  /\ m \in Machines
  /\ InMemory(m) <= m.O
  /\ m.O + m.L - InMemory(m) < Ring

\* The octas of m, followed by zeroes up to a window of len registers.
Zeroed(m, len) ==
  [i \in 0 .. m.O + len - 1 |-> IF i < m.O + m.L THEN Octas(m)[i] ELSE 0]

\* A register added to the window is zero, and no octa changes with it.
LEMMA IncreaseAddsZero ==
  ASSUME NEW m, Sound(m), m.L + 1 < Ring
  PROVE  /\ Sound(IncreaseL(m))
         /\ IncreaseL(m).O = m.O
         /\ IncreaseL(m).L = m.L + 1
         /\ Octas(IncreaseL(m)) = Zeroed(m, m.L + 1)
<1> DEFINE k == [m EXCEPT !.L = @ + 1]
           n == [k EXCEPT !.l[Slot(m.O + m.L)] = 0]
<1>1. m \in Machines /\ m.l \in [0 .. Ring - 1 -> Word] /\ m.O \in Nat /\ m.L \in Nat /\ InMemory(m) \in Nat
  BY DEF Sound, Machines, InMemory
<1>2. InMemory(m) <= m.O /\ m.O + m.L - InMemory(m) < Ring
  BY DEF Sound
<1>3. k \in Machines /\ k.O = m.O /\ k.L = m.L + 1 /\ InMemory(k) = InMemory(m) /\ k.l = m.l /\ k.memory = m.memory
  BY <1>1 DEF Machines, InMemory
<1>4. IncreaseL(m) = StoreIfFull(n)
  BY DEF IncreaseL, Machines
<1> HIDE DEF k
<1>5. m.O + m.L \in InMemory(k) .. k.O + k.L - 1 /\ Fits(k) /\ 0 \in Word
  <2>1. \A from \in Nat, size \in Nat, low \in Nat :
          low <= from /\ from + size - low < Ring
            => /\ from + size \in low .. from + (size + 1) - 1
               /\ low <= from + (size + 1) /\ from + (size + 1) - low <= Ring
    BY Sizes
  <2>2. /\ m.O + m.L \in InMemory(m) .. m.O + (m.L + 1) - 1
        /\ InMemory(m) <= m.O + (m.L + 1) /\ m.O + (m.L + 1) - InMemory(m) <= Ring
    BY <1>1, <1>2, <2>1
  <2> QED
    BY <1>3, <2>2, Sizes DEF Fits
<1>6. /\ n \in Machines
      /\ n = [k EXCEPT !.l = n.l]
      /\ InMemory(n) = InMemory(k)
      /\ Octas(n) = [Octas(k) EXCEPT ![m.O + m.L] = 0]
  <2>1. ASSUME NEW i \in InMemory(k) .. k.O + k.L - 1, NEW w \in Word
        PROVE  LET z == [k EXCEPT !.l[Slot(i)] = w]
               IN /\ z \in Machines
                  /\ z = [k EXCEPT !.l = z.l]
                  /\ InMemory(z) = InMemory(k)
                  /\ Octas(z) = [Octas(k) EXCEPT ![i] = w]
    BY <1>3, <1>5, WriteChangesOne
  <2> QED
    BY <1>5, <2>1
<1>7. n.O = m.O /\ n.L = m.L + 1
  BY <1>3, <1>6 DEF Machines
<1>8. Octas(n) = Zeroed(m, m.L + 1)
  <2>1. Octas(k) = [i \in 0 .. m.O + m.L |->
                      IF i < InMemory(m) THEN m.memory[i + 1] ELSE m.l[Slot(i)]]
    BY <1>1, <1>3 DEF Octas, InMemory
  <2>2. ASSUME NEW i \in 0 .. m.O + m.L - 1 PROVE Octas(m)[i] = Octas(k)[i]
    <3>1. i \in 0 .. m.O + m.L
      BY <1>1
    <3>2. Octas(k)[i] = IF i < InMemory(m) THEN m.memory[i + 1] ELSE m.l[Slot(i)]
      BY <2>1, <3>1
    <3> QED
      BY <3>2 DEF Octas, InMemory
  <2>3. 0 .. m.O + (m.L + 1) - 1 = 0 .. m.O + m.L
    BY <1>1
  <2>4. Zeroed(m, m.L + 1) =
          [i \in 0 .. m.O + m.L |-> IF i < m.O + m.L THEN Octas(m)[i] ELSE 0]
    BY <2>3 DEF Zeroed
  <2>5. Octas(n) = [i \in 0 .. m.O + m.L |-> IF i = m.O + m.L THEN 0 ELSE Octas(k)[i]]
    BY <1>6, <2>1
  <2>6. ASSUME NEW i \in 0 .. m.O + m.L
        PROVE  (IF i = m.O + m.L THEN 0 ELSE Octas(k)[i])
                  = (IF i < m.O + m.L THEN Octas(m)[i] ELSE 0)
    BY <1>1, <2>2
  <2> QED
    BY <2>4, <2>5, <2>6
<1> HIDE DEF n
<1>9. Fits(n) /\ InMemory(n) < n.O + n.L
  BY SMTT(30), <1>1, <1>2, <1>3, <1>6, <1>7, Sizes DEF Fits
<1>10. Sound(StoreIfFull(n)) /\ StoreIfFull(n).O = m.O /\ StoreIfFull(n).L = m.L + 1
  <2> DEFINE q == StoreIfFull(n)
  <2>1. /\ q \in Machines /\ q.O = n.O /\ q.L = n.L
        /\ InMemory(q) \in Nat
        /\ n.O + n.L - InMemory(q) < Ring
        /\ \/ InMemory(q) = InMemory(n)
           \/ n.O + n.L - InMemory(n) = Ring /\ InMemory(q) = InMemory(n) + 1
    BY <1>6, <1>9, StoreMakesRoom
  <2> HIDE DEF q
  <2>2. InMemory(q) <= m.O
    <3>1. CASE InMemory(q) = InMemory(n)
      BY <3>1, <1>2, <1>3, <1>6
    <3>2. CASE n.O + n.L - InMemory(n) = Ring /\ InMemory(q) = InMemory(n) + 1
      <4>1. InMemory(n) = InMemory(m) /\ n.O + n.L = m.O + m.L + 1 /\ Ring \in Nat
        BY SMTT(30), <1>1, <1>3, <1>6, <1>7, Sizes
      <4>2. m.O + m.L + 1 - InMemory(m) = Ring
        BY SMTT(30), <3>2, <4>1, <1>1, <1>7
      <4>3. InMemory(m) + 1 <= m.O
        BY <4>1, <4>2, <1>1
      <4> QED
        BY <3>2, <4>1, <4>3
    <3> QED
      BY <2>1, <3>1, <3>2
  <2>3. Sound(q) /\ q.O = m.O /\ q.L = m.L + 1
    BY <2>1, <2>2, <1>7 DEF Sound
  <2> QED
    BY <2>3 DEF q
<1>11. Octas(StoreIfFull(n)) = Zeroed(m, m.L + 1)
  BY <1>6, <1>8, <1>9, StoreMakesRoom
<1> QED
  BY <1>4, <1>10, <1>11

Iterates(f, kind, m, count) ==
  f = [i \in 0 .. count |->
         IF i = 0 THEN m
         ELSE IF kind = "load" THEN stack_load(f[i - 1]) ELSE IncreaseL(f[i - 1])]

\* Steps can be repeated: the recursion of Repeat has a solution.
LEMMA StepsRepeat ==
  ASSUME NEW kind \in {"load", "increase"}, NEW m, NEW count \in Nat
  PROVE  \E f : Iterates(f, kind, m, count)
<1> DEFINE Step(r) == IF kind = "load" THEN stack_load(r) ELSE IncreaseL(r)
           Repeats(f, n) == f = [i \in 0 .. n |-> IF i = 0 THEN m ELSE Step(f[i - 1])]
           P == {n \in Nat : \E f : Repeats(f, n)}
<1> HIDE DEF Step
<1>1. 0 \in P
  <2> DEFINE f == [i \in 0 .. 0 |-> m]
  <2>1. Repeats(f, 0)
    OBVIOUS
  <2> QED
    BY <2>1
<1>2. ASSUME NEW n \in P PROVE n + 1 \in P
  <2>1. PICK f : Repeats(f, n)
    OBVIOUS
  <2> DEFINE h == [i \in 0 .. n + 1 |-> IF i = n + 1 THEN Step(f[n]) ELSE f[i]]
  <2>2. ASSUME NEW i \in 0 .. n + 1
        PROVE  h[i] = IF i = 0 THEN m ELSE Step(h[i - 1])
    <3>1. CASE i = n + 1
      <4>1. h[i - 1] = f[n] /\ h[i] = Step(f[n])
        BY <3>1
      <4> QED
        BY <3>1, <4>1
    <3>2. CASE i # n + 1 /\ i # 0
      <4>1. i \in 0 .. n /\ i - 1 \in 0 .. n
        BY <3>2
      <4>2. h[i] = f[i] /\ h[i - 1] = f[i - 1]
        BY <4>1, <3>2
      <4>3. f[i] = Step(f[i - 1])
        BY <2>1, <4>1, <3>2
      <4> QED
        BY <4>2, <4>3, <3>2
    <3>3. CASE i = 0
      BY <3>3, <2>1
    <3> QED
      BY <3>1, <3>2, <3>3
  <2>3. Repeats(h, n + 1)
    <3>1. h = [i \in 0 .. n + 1 |-> h[i]]
      OBVIOUS
    <3> HIDE DEF h
    <3> QED
      BY <2>2, <3>1
  <2> HIDE DEF h, Repeats
  <2>4. n \in Nat /\ \E e : Repeats(e, n + 1)
    BY <2>3
  <2> QED
    BY <2>4
<1>3. P = Nat
  <2> HIDE DEF P
  <2> QED
    BY <1>1, <1>2, InductionOverNat DEF P
<1> QED
  BY <1>3 DEF Step, Iterates

LEMMA IncreasesRepeat ==
  ASSUME NEW m, NEW count \in Nat
  PROVE  \E f : /\ f = [i \in 0 .. count |-> IF i = 0 THEN m ELSE IncreaseL(f[i - 1])]
                /\ Repeat(IncreaseL, count, m) = f[count]
<1> DEFINE Repeats(f) == f = [i \in 0 .. count |-> IF i = 0 THEN m ELSE IncreaseL(f[i - 1])]
           after == CHOOSE f : Repeats(f)
<1>1. \E f : Repeats(f)
  <2>1. PICK f : Iterates(f, "increase", m, count)
    BY StepsRepeat
  <2>2. Repeats(f)
    BY <2>1 DEF Iterates
  <2> QED
    BY <2>2
<1>2. Repeats(after)
  <2> HIDE DEF Repeats
  <2> QED
    BY <1>1
<1>3. Repeat(IncreaseL, count, m) = IF count > 0 THEN after[count] ELSE m
  BY DEF Repeat
<1> HIDE DEF after
<1>4. count = 0 => after[count] = m
  BY <1>2
<1>5. Repeat(IncreaseL, count, m) = after[count]
  BY <1>3, <1>4
<1> QED
  BY <1>2, <1>5

LEMMA LoadsRepeat ==
  ASSUME NEW m, NEW count \in Nat
  PROVE  \E f : /\ f = [i \in 0 .. count |-> IF i = 0 THEN m ELSE stack_load(f[i - 1])]
                /\ Repeat(stack_load, count, m) = f[count]
<1> DEFINE Repeats(f) == f = [i \in 0 .. count |-> IF i = 0 THEN m ELSE stack_load(f[i - 1])]
           after == CHOOSE f : Repeats(f)
<1>1. \E f : Repeats(f)
  <2>1. PICK f : Iterates(f, "load", m, count)
    BY StepsRepeat
  <2>2. Repeats(f)
    BY <2>1 DEF Iterates
  <2> QED
    BY <2>2
<1>2. Repeats(after)
  <2> HIDE DEF Repeats
  <2> QED
    BY <1>1
<1>3. Repeat(stack_load, count, m) = IF count > 0 THEN after[count] ELSE m
  BY DEF Repeat
<1> HIDE DEF after
<1>4. count = 0 => after[count] = m
  BY <1>2
<1>5. Repeat(stack_load, count, m) = after[count]
  BY <1>3, <1>4
<1> QED
  BY <1>2, <1>5

\* Installing $x as a destination fills the window up to $x with zeroes.
LEMMA ReachAddsZeroes ==
  ASSUME NEW m, Sound(m), NEW x \in Nat, x + 1 < Ring
  PROVE  LET n == Reach(x, m)
         IN /\ Sound(n)
            /\ n.O = m.O
            /\ n.L = IF x + 1 > m.L THEN x + 1 ELSE m.L
            /\ Octas(n) = Zeroed(m, n.L)
<1> DEFINE count == x + 1 - m.L
<1>1. m.O \in Nat /\ m.L \in Nat
  BY DEF Sound, Machines
<1>2. Octas(m) = Zeroed(m, m.L)
  BY <1>1 DEF Octas, Zeroed
<1>3. CASE x + 1 <= m.L
  <2>1. Reach(x, m) = m
    BY <1>1, <1>3 DEF Reach, Repeat
  <2> QED
    BY <2>1, <1>1, <1>2, <1>3
<1>4. CASE x + 1 > m.L
  <2>1. count \in Nat
    BY <1>1, <1>4
  <2>2. PICK f : /\ f = [i \in 0 .. count |-> IF i = 0 THEN m ELSE IncreaseL(f[i - 1])]
                 /\ Repeat(IncreaseL, count, m) = f[count]
    <3> HIDE DEF count
    <3> QED
      BY <2>1, IncreasesRepeat
  <2>3. Reach(x, m) = f[count]
    BY <2>2 DEF Reach
  <2> DEFINE Good(i) == /\ Sound(f[i])
                        /\ f[i].O = m.O
                        /\ f[i].L = m.L + i
                        /\ Octas(f[i]) = Zeroed(m, m.L + i)
             P == {i \in Nat : i <= count => Good(i)}
  <2>4. 0 \in P
    <3>1. f[0] = m /\ m.L + 0 = m.L
      BY <1>1, <2>1, <2>2
    <3> QED
      BY <3>1, <1>2
  <2>5. ASSUME NEW i \in P PROVE i + 1 \in P
    <3> SUFFICES ASSUME i + 1 <= count PROVE Good(i + 1)
      OBVIOUS
    <3>1. Good(i)
      BY <2>1
    <3>2. f[i + 1] = IncreaseL(f[i])
      <4>1. i + 1 \in 0 .. count /\ i + 1 # 0 /\ (i + 1) - 1 = i
        BY <2>1
      <4> HIDE DEF count, P
      <4> QED
        BY <2>2, <4>1
    <3>3. f[i].L + 1 < Ring
      BY <3>1, <1>1, Sizes
    <3>4. /\ Sound(IncreaseL(f[i]))
          /\ IncreaseL(f[i]).O = f[i].O
          /\ IncreaseL(f[i]).L = f[i].L + 1
          /\ Octas(IncreaseL(f[i])) = Zeroed(f[i], f[i].L + 1)
      BY <3>1, <3>3, IncreaseAddsZero
    <3>5. f[i].L + 1 = m.L + (i + 1)
      BY <3>1, <1>1
    <3>6. Zeroed(f[i], f[i].L + 1) = Zeroed(m, m.L + (i + 1))
      <4>1. ASSUME NEW j \in 0 .. m.O + (m.L + (i + 1)) - 1
            PROVE  (IF j < m.O + (m.L + i) THEN Zeroed(m, m.L + i)[j] ELSE 0)
                     = (IF j < m.O + m.L THEN Octas(m)[j] ELSE 0)
        <5>1. CASE j < m.O + (m.L + i)
          <6>1. j \in 0 .. m.O + (m.L + i) - 1
            BY <5>1, <1>1
          <6> QED
            BY <5>1, <6>1 DEF Zeroed
        <5>2. CASE ~(j < m.O + (m.L + i))
          BY <5>2, <1>1
        <5> QED
          BY <5>1, <5>2
      <4>2. Zeroed(f[i], f[i].L + 1) =
              [j \in 0 .. m.O + (m.L + (i + 1)) - 1 |->
                 IF j < m.O + (m.L + i) THEN Zeroed(m, m.L + i)[j] ELSE 0]
        BY <3>1, <3>5 DEF Zeroed
      <4>3. Zeroed(m, m.L + (i + 1)) =
              [j \in 0 .. m.O + (m.L + (i + 1)) - 1 |->
                 IF j < m.O + m.L THEN Octas(m)[j] ELSE 0]
        BY DEF Zeroed
      <4> QED
        BY <4>1, <4>2, <4>3
    <3> QED
      BY <3>1, <3>2, <3>4, <3>5, <3>6
  <2>6. P = Nat
    <3> HIDE DEF P
    <3> QED
      BY <2>4, <2>5, InductionOverNat DEF P
  <2>7. Good(count)
    BY <2>1, <2>6
  <2>8. m.L + count = x + 1
    BY <1>1
  <2> HIDE DEF count
  <2> QED
    BY <2>3, <2>7, <2>8, <1>4
<1> QED
  BY <1>1, <1>3, <1>4

\* Loading the youngest register that is in memory changes no octa but the
\* one whose place in the ring it takes.
LEMMA LoadMoves ==
  ASSUME NEW m \in Machines, InMemory(m) > 0, InMemory(m) <= m.O + m.L
  PROVE  /\ stack_load(m) \in Machines
         /\ InMemory(stack_load(m)) = InMemory(m) - 1
         /\ stack_load(m).O = m.O
         /\ stack_load(m).L = m.L
         /\ \A i \in 0 .. m.O + m.L - 1 :
              i < InMemory(m) - 1 + Ring => Octas(stack_load(m))[i] = Octas(m)[i]
<1> DEFINE s == InMemory(m)
           n == stack_load(m)
<1>1. m.l \in [0 .. Ring - 1 -> Word] /\ m.memory \in Seq(Word) /\ m.O \in Nat /\ m.L \in Nat
  BY DEF Machines
<1>2. s \in Nat /\ s - 1 \in Nat /\ s = Len(m.memory)
  BY <1>1 DEF InMemory
<1>3. n = [l |-> [m.l EXCEPT ![Slot(s - 1)] = m.memory[s]],
           memory |-> SubSeq(m.memory, 1, s - 1), O |-> m.O, L |-> m.L]
  <2>1. n = [m EXCEPT !.l = [m.l EXCEPT ![Slot(s - 1)] = m.memory[s]],
                      !.memory = SubSeq(m.memory, 1, s - 1)]
    BY DEF stack_load, InMemory, Last, Front
  <2> QED
    BY <2>1 DEF Machines
<1>4. m.memory[s] \in Word
  BY <1>1, <1>2, ElementOfSeq
<1>5. /\ SubSeq(m.memory, 1, s - 1) \in Seq(Word)
      /\ Len(SubSeq(m.memory, 1, s - 1)) = s - 1
      /\ \A i \in 1 .. s - 1 : SubSeq(m.memory, 1, s - 1)[i] = m.memory[i]
  BY <1>1, <1>2
<1>6. n \in Machines
  <2>1. [m.l EXCEPT ![Slot(s - 1)] = m.memory[s]] \in [0 .. Ring - 1 -> Word]
    BY <1>1, <1>4
  <2> HIDE DEF n, s
  <2> QED
    BY <1>1, <1>3, <1>5, <2>1 DEF Machines
<1>7. InMemory(n) = s - 1
  BY <1>3, <1>5 DEF InMemory
<1>8. ASSUME NEW i \in 0 .. m.O + m.L - 1, i < s - 1 + Ring
      PROVE  Octas(n)[i] = Octas(m)[i]
  <2>1. n.O = m.O /\ n.L = m.L /\ n.l = [m.l EXCEPT ![Slot(s - 1)] = m.memory[s]]
    BY <1>3
  <2> HIDE DEF n
  <2>2. i \in 0 .. n.O + n.L - 1 /\ i \in Nat
    BY <1>1, <2>1
  <2>3. Octas(n)[i] = IF i < s - 1 THEN n.memory[i + 1] ELSE n.l[Slot(i)]
    BY <2>2, <1>2, <1>6, <1>7, OctasType
  <2>4. Octas(m)[i] = IF i < s THEN m.memory[i + 1] ELSE m.l[Slot(i)]
    BY <2>2, <1>2, OctasType
  <2>5. CASE i < s - 1
    <3>1. n.memory[i + 1] = m.memory[i + 1]
      BY <1>2, <1>3, <1>5, <2>2, <2>5
    <3> QED
      BY <3>1, <2>3, <2>4, <2>5, <1>2
  <2>6. CASE i = s - 1
    <3>1. Slot(i) \in 0 .. Ring - 1 /\ s = i + 1
      BY <2>2, <2>6, <1>2, SlotInRing
    <3>2. n.l[Slot(i)] = m.memory[i + 1]
      <4> HIDE DEF s
      <4> QED
        BY <1>1, <2>1, <2>6, <3>1
    <3> QED
      BY <3>2, <2>3, <2>4, <2>6, <1>2
  <2>7. CASE i > s - 1
    <3>1. i # s - 1 /\ i - (s - 1) < Ring /\ (s - 1) - i < Ring
      <4>1. ASSUME NEW a \in Nat, NEW b \in Nat, NEW c \in Nat, a > b, a < b + c
            PROVE  a # b /\ a - b < c /\ b - a < c
        BY <4>1
      <4> HIDE DEF s
      <4> QED
        BY <4>1, <2>2, <2>7, <1>2, <1>8, Sizes
    <3>2. Slot(i) # Slot(s - 1)
      <4> HIDE DEF s
      <4> QED
        BY <3>1, <2>2, <1>2, SlotsDiffer
    <3>3. n.l[Slot(i)] = m.l[Slot(i)]
      BY <3>2, <1>1, <2>1
    <3> QED
      BY <3>3, <2>3, <2>4, <2>7, <1>2
  <2> QED
    BY <2>5, <2>6, <2>7, <2>2, <1>2
<1>9. n.O = m.O /\ n.L = m.L
  BY <1>3
<1> QED
  BY <1>6, <1>7, <1>8, <1>9

LEMMA LoadsMove ==
  ASSUME NEW m \in Machines, InMemory(m) <= m.O + m.L,
         NEW count \in 0 .. InMemory(m)
  PROVE  LET n == Repeat(stack_load, count, m)
         IN /\ n \in Machines
            /\ InMemory(n) = InMemory(m) - count
            /\ n.O = m.O
            /\ n.L = m.L
            /\ \A i \in 0 .. m.O + m.L - 1 :
                 i < InMemory(m) - count + Ring => Octas(n)[i] = Octas(m)[i]
<1>1. m.O \in Nat /\ m.L \in Nat /\ InMemory(m) \in Nat /\ count \in Nat
  BY DEF Machines, InMemory
<1>2. PICK f : /\ f = [i \in 0 .. count |-> IF i = 0 THEN m ELSE stack_load(f[i - 1])]
               /\ Repeat(stack_load, count, m) = f[count]
  BY <1>1, LoadsRepeat
<1> DEFINE Good(k) == /\ f[k] \in Machines
                      /\ InMemory(f[k]) = InMemory(m) - k
                      /\ f[k].O = m.O
                      /\ f[k].L = m.L
                      /\ \A i \in 0 .. m.O + m.L - 1 :
                           i < InMemory(m) - k + Ring => Octas(f[k])[i] = Octas(m)[i]
           P == {k \in Nat : k <= count => Good(k)}
<1>3. 0 \in P
  <2>1. f[0] = m /\ InMemory(m) - 0 = InMemory(m)
    BY <1>1, <1>2
  <2> QED
    BY <2>1
<1>4. ASSUME NEW k \in P PROVE k + 1 \in P
  <2> SUFFICES ASSUME k + 1 <= count PROVE Good(k + 1)
    OBVIOUS
  <2>1. k \in Nat /\ k + 1 \in 0 .. count
    BY <1>1
  <2>2. Good(k)
    BY <1>1
  <2>3. f[k + 1] = stack_load(f[k])
    <3>1. k + 1 # 0 /\ (k + 1) - 1 = k
      BY <2>1
    <3> HIDE DEF P
    <3> QED
      BY <1>2, <2>1, <3>1
  <2>4. InMemory(f[k]) > 0 /\ InMemory(f[k]) <= f[k].O + f[k].L
    BY <1>1, <2>1, <2>2
  <2>5. /\ f[k + 1] \in Machines
        /\ InMemory(f[k + 1]) = InMemory(f[k]) - 1
        /\ f[k + 1].O = f[k].O
        /\ f[k + 1].L = f[k].L
        /\ \A i \in 0 .. f[k].O + f[k].L - 1 :
             i < InMemory(f[k]) - 1 + Ring => Octas(f[k + 1])[i] = Octas(f[k])[i]
    BY <2>2, <2>3, <2>4, LoadMoves
  <2>6. InMemory(f[k]) - 1 = InMemory(m) - (k + 1)
    BY <1>1, <2>1, <2>2
  <2>7. ASSUME NEW i \in 0 .. m.O + m.L - 1, i < InMemory(m) - (k + 1) + Ring
        PROVE  Octas(f[k + 1])[i] = Octas(m)[i]
    <3>1. i < InMemory(m) - k + Ring
      BY <1>1, <2>1, <2>7, Sizes
    <3>2. Octas(f[k])[i] = Octas(m)[i]
      BY <2>2, <3>1
    <3>3. Octas(f[k + 1])[i] = Octas(f[k])[i]
      BY <2>2, <2>5, <2>6, <2>7
    <3> QED
      BY <3>2, <3>3
  <2> QED
    BY <2>2, <2>5, <2>6, <2>7
<1>5. P = Nat
  <2> HIDE DEF P
  <2> QED
    BY <1>3, <1>4, InductionOverNat DEF P
<1>6. Good(count)
  BY <1>1, <1>5
<1> QED
  BY <1>2, <1>6

(***************************************************************************)
(* The frames that the holes delimit.                                      *)
(***************************************************************************)

FrameBelow(frames, octas, top) ==
  LET k == octas[top - 1]
  IN IF top = 0 THEN <<>>
     ELSE IF k \notin 0 .. top - 1 THEN <<"no frame">>
     ELSE Append(frames[top - k - 1], [n \in 1 .. k |-> octas[top - k - 2 + n]])

AreFrames(frames, octas, top) ==
  frames = [i \in 0 .. top |-> FrameBelow(frames, octas, i)]

LEMMA FrameBelowAgrees ==
  ASSUME NEW f, NEW h, NEW a, NEW b, NEW top \in Nat,
         \A i \in 0 .. top - 1 : a[i] = b[i] /\ f[i] = h[i]
  PROVE  FrameBelow(f, a, top) = FrameBelow(h, b, top)
<1>1. CASE top = 0
  BY <1>1 DEF FrameBelow
<1>2. CASE top # 0
  <2> DEFINE k == a[top - 1]
  <2>1. k = b[top - 1]
    BY <1>2
  <2>2. CASE k \notin 0 .. top - 1
    BY <1>2, <2>1, <2>2 DEF FrameBelow
  <2>3. CASE k \in 0 .. top - 1
    <3>1. top - k - 1 \in 0 .. top - 1
      BY <1>2, <2>3
    <3>2. \A n \in 1 .. k : top - k - 2 + n \in 0 .. top - 1
      BY <1>2, <2>3
    <3>3. FrameBelow(f, a, top) = Append(f[top - k - 1], [n \in 1 .. k |-> a[top - k - 2 + n]])
      BY <1>2, <2>3 DEF FrameBelow
    <3>4. FrameBelow(h, b, top) = Append(h[top - k - 1], [n \in 1 .. k |-> b[top - k - 2 + n]])
      BY <1>2, <2>1, <2>3 DEF FrameBelow
    <3>5. [n \in 1 .. k |-> a[top - k - 2 + n]] = [n \in 1 .. k |-> b[top - k - 2 + n]]
      BY <3>2
    <3> QED
      BY <3>1, <3>3, <3>4, <3>5
  <2> QED
    BY <2>2, <2>3
<1> QED
  BY <1>1, <1>2

LEMMA FramesExist ==
  ASSUME NEW octas, NEW top \in Nat
  PROVE  \E f : AreFrames(f, octas, top)
<1> DEFINE P == {n \in Nat : \E f : AreFrames(f, octas, n)}
<1>1. 0 \in P
  <2> DEFINE f == [i \in 0 .. 0 |-> FrameBelow(<<>>, octas, 0)]
  <2>1. ASSUME NEW i \in 0 .. 0 PROVE FrameBelow(<<>>, octas, 0) = FrameBelow(f, octas, i)
    BY DEF FrameBelow
  <2>2. AreFrames(f, octas, 0)
    BY <2>1 DEF AreFrames
  <2> QED
    BY <2>2
<1>2. ASSUME NEW n \in P PROVE n + 1 \in P
  <2>1. PICK f : AreFrames(f, octas, n)
    OBVIOUS
  <2> DEFINE h == [i \in 0 .. n + 1 |-> IF i = n + 1 THEN FrameBelow(f, octas, i) ELSE f[i]]
  <2>2. n \in Nat
    OBVIOUS
  <2>3. ASSUME NEW i \in 0 .. n + 1 PROVE h[i] = FrameBelow(h, octas, i)
    <3>1. h[i] = FrameBelow(f, octas, i)
      <4>1. CASE i = n + 1
        BY <4>1
      <4>2. CASE i # n + 1
        <5>1. i \in 0 .. n
          BY <4>2, <2>2
        <5> QED
          BY <4>2, <5>1, <2>1 DEF AreFrames
      <4> QED
        BY <4>1, <4>2
    <3>2. \A j \in 0 .. i - 1 : octas[j] = octas[j] /\ f[j] = h[j]
      BY <2>2
    <3> HIDE DEF h
    <3>3. FrameBelow(f, octas, i) = FrameBelow(h, octas, i)
      BY <3>2, FrameBelowAgrees
    <3> QED
      BY <3>1, <3>3
  <2>4. AreFrames(h, octas, n + 1)
    <3>1. h = [i \in 0 .. n + 1 |-> h[i]]
      OBVIOUS
    <3> HIDE DEF h
    <3> QED
      BY <2>3, <3>1 DEF AreFrames
  <2> HIDE DEF h
  <2>5. \E e : AreFrames(e, octas, n + 1)
    BY <2>4
  <2> QED
    BY <2>2, <2>5
<1>3. P = Nat
  <2> HIDE DEF P
  <2> QED
    BY <1>1, <1>2, InductionOverNat DEF P
<1> QED
  BY <1>3

LEMMA FramesAreFrames ==
  ASSUME NEW octas, NEW top \in Nat
  PROVE  \E f : AreFrames(f, octas, top) /\ Frames(octas, top) = f[top]
<1> DEFINE frames == CHOOSE f : AreFrames(f, octas, top)
<1>1. AreFrames(frames, octas, top)
  BY FramesExist
<1>2. Frames(octas, top) = frames[top]
  BY DEF Frames, AreFrames, FrameBelow
<1> HIDE DEF frames
<1> QED
  BY <1>1, <1>2

SameBelow(a, b, top) == \A i \in 0 .. top - 1 : a[i] = b[i]

\* Frames depend only on the octas below.
LEMMA FramesAgree ==
  ASSUME NEW f, NEW h, NEW a, NEW b, NEW s \in Nat, NEW t \in Nat,
         AreFrames(f, a, s), AreFrames(h, b, t),
         NEW top \in Nat, top <= s, top <= t, SameBelow(a, b, top)
  PROVE  f[top] = h[top]
<1> DEFINE P == {n \in Nat : \A i \in 0 .. n : i <= top => f[i] = h[i]}
<1>1. ASSUME NEW i \in 0 .. top, \A j \in 0 .. i - 1 : f[j] = h[j]
      PROVE  f[i] = h[i]
  <2>1. f[i] = FrameBelow(f, a, i) /\ h[i] = FrameBelow(h, b, i)
    <3>1. i \in 0 .. s /\ i \in 0 .. t
      OBVIOUS
    <3> QED
      BY <3>1 DEF AreFrames
  <2>2. \A j \in 0 .. i - 1 : a[j] = b[j] /\ f[j] = h[j]
    BY <1>1 DEF SameBelow
  <2>3. FrameBelow(f, a, i) = FrameBelow(h, b, i)
    BY <2>2, FrameBelowAgrees
  <2> QED
    BY <2>1, <2>3
<1>2. 0 \in P
  BY <1>1
<1>3. ASSUME NEW n \in P PROVE n + 1 \in P
  <2>1. ASSUME n + 1 <= top PROVE f[n + 1] = h[n + 1]
    <3>1. n + 1 \in 0 .. top /\ \A j \in 0 .. (n + 1) - 1 : f[j] = h[j]
      BY <2>1
    <3> HIDE DEF P
    <3> QED
      BY <1>1, <3>1
  <2> QED
    BY <2>1
<1>4. P = Nat
  <2> HIDE DEF P
  <2> QED
    BY <1>2, <1>3, InductionOverNat DEF P
<1> QED
  BY <1>4

LEMMA FramesOfSame ==
  ASSUME NEW a, NEW b, NEW top \in Nat, SameBelow(a, b, top)
  PROVE  Frames(a, top) = Frames(b, top)
<1>1. PICK f : AreFrames(f, a, top) /\ Frames(a, top) = f[top]
  BY FramesAreFrames
<1>2. PICK h : AreFrames(h, b, top) /\ Frames(b, top) = h[top]
  BY FramesAreFrames
<1>3. AreFrames(f, a, top) /\ AreFrames(h, b, top) /\ top <= top
  BY <1>1, <1>2
<1>4. f[top] = h[top]
  BY <1>3, FramesAgree
<1> QED
  BY <1>1, <1>2, <1>4

LEMMA NoFrames ==
  ASSUME NEW octas
  PROVE  Frames(octas, 0) = <<>>
<1>1. PICK f : AreFrames(f, octas, 0) /\ Frames(octas, 0) = f[0]
  BY FramesAreFrames
<1> QED
  BY <1>1 DEF AreFrames, FrameBelow

FrameUnder(octas, k, top) == [n \in 1 .. k |-> octas[top - k - 2 + n]]

\* Above a hole there is one frame more than at the next hole below it.
LEMMA FramesStep ==
  ASSUME NEW octas, NEW top \in Nat \ {0}, NEW k \in 0 .. top - 1, octas[top - 1] = k
  PROVE  Frames(octas, top) =
           Append(Frames(octas, top - k - 1), FrameUnder(octas, k, top))
<1>1. PICK f : AreFrames(f, octas, top) /\ Frames(octas, top) = f[top]
  BY FramesAreFrames
<1>2. top - k - 1 \in Nat /\ top - k - 1 <= top
  OBVIOUS
<1>3. PICK h : AreFrames(h, octas, top - k - 1) /\ Frames(octas, top - k - 1) = h[top - k - 1]
  BY <1>2, FramesAreFrames
<1>4. f[top - k - 1] = h[top - k - 1]
  <2>0. SameBelow(octas, octas, top - k - 1)
    BY DEF SameBelow
  <2> DEFINE t == top - k - 1
  <2> HIDE DEF t
  <2>1. f[t] = h[t]
    BY <1>1, <1>2, <1>3, <2>0, FramesAgree DEF t
  <2> QED
    BY <2>1 DEF t
<1>5. f[top] = FrameBelow(f, octas, top)
  BY <1>1 DEF AreFrames
<1>6. FrameBelow(f, octas, top) =
        Append(f[top - k - 1], FrameUnder(octas, k, top))
  BY DEF FrameBelow, FrameUnder
<1> QED
  BY <1>1, <1>3, <1>4, <1>5, <1>6

Frame == {"no frame"} \cup Seq(Word)

LEMMA FramesType ==
  ASSUME NEW octas, NEW top \in Nat, \A i \in 0 .. top - 1 : octas[i] \in Word
  PROVE  Frames(octas, top) \in Seq(Frame)
<1> DEFINE Typed(t) == Frames(octas, t) \in Seq(Frame)
           P == {n \in Nat : n <= top => \A i \in 0 .. n : Typed(i)}
<1>1. ASSUME NEW t \in Nat, t <= top, \A i \in 0 .. t - 1 : Typed(i)
      PROVE  Typed(t)
  <2> DEFINE k == octas[t - 1]
  <2>1. CASE t = 0
    BY <2>1, NoFrames, EmptySeq
  <2>2. CASE t # 0 /\ k \in 0 .. t - 1
    <3> DEFINE frame == [n \in 1 .. k |-> octas[t - k - 2 + n]]
    <3>1. t - k - 1 \in 0 .. t - 1 /\ k \in Nat
      BY <2>2
    <3>2. ASSUME NEW n \in 1 .. k PROVE octas[t - k - 2 + n] \in Word
      <4> HIDE DEF k
      <4>1. t - k - 2 + n \in 0 .. top - 1
        BY <2>2, <3>1, <1>1
      <4> QED
        BY <4>1
    <3>3. frame \in Seq(Word)
      <4>1. frame \in [1 .. k -> Word]
        BY <3>2
      <4> HIDE DEF k, frame
      <4> QED
        BY <3>1, <4>1, SeqDef
    <3>4. Frames(octas, t) = Append(Frames(octas, t - k - 1), frame)
      BY <2>2, FramesStep DEF FrameUnder
    <3>5. Typed(t - k - 1)
      BY <3>1, <1>1
    <3> HIDE DEF frame, k
    <3>6. frame \in Frame
      BY <3>3 DEF Frame
    <3> QED
      BY <3>4, <3>5, <3>6, AppendProperties
  <2>3. CASE t # 0 /\ k \notin 0 .. t - 1
    <3>1. PICK f : AreFrames(f, octas, t) /\ Frames(octas, t) = f[t]
      BY FramesAreFrames
    <3>2. f[t] = FrameBelow(f, octas, t)
      BY <3>1 DEF AreFrames
    <3>3. FrameBelow(f, octas, t) = <<"no frame">>
      BY <2>3 DEF FrameBelow
    <3>4. "no frame" \in Frame
      BY DEF Frame
    <3>5. ASSUME NEW e \in Frame PROVE <<e>> \in Seq(Frame)
      OBVIOUS
    <3> QED
      BY <3>1, <3>2, <3>3, <3>4, <3>5
  <2> QED
    BY <2>1, <2>2, <2>3
<1> HIDE DEF Typed
<1>2. 0 \in P
  <2>1. Typed(0)
    BY <1>1
  <2> QED
    BY <2>1
<1>3. ASSUME NEW n \in P PROVE n + 1 \in P
  <2>1. ASSUME n + 1 <= top PROVE Typed(n + 1)
    <3>1. n + 1 \in Nat /\ \A i \in 0 .. (n + 1) - 1 : Typed(i)
      BY <2>1
    <3> HIDE DEF P
    <3> QED
      BY <1>1, <2>1, <3>1
  <2>2. ASSUME n + 1 <= top, NEW i \in 0 .. n + 1 PROVE Typed(i)
    <3>1. i \in 0 .. n \/ i = n + 1
      OBVIOUS
    <3>2. n <= top
      BY <2>2
    <3> QED
      BY <2>1, <2>2, <3>1, <3>2
  <2> QED
    BY <2>2
<1>4. P = Nat
  <2> HIDE DEF P
  <2> QED
    BY <1>2, <1>3, InductionOverNat DEF P
<1>5. Typed(top)
  BY <1>4
<1> QED
  BY <1>5 DEF Typed

(***************************************************************************)
(* What each instruction does to the octas.                                *)
(***************************************************************************)

\* The holes lead from top to the main program: there is a set of tops of
\* frames, each of which is above a hole that tells where the next one is.
HolesLead(octas, top) ==
  \E tops \in SUBSET (0 .. top) :
    /\ top \in tops
    /\ \A t \in tops \ {0} :
         octas[t - 1] \in 0 .. t - 1 /\ t - octas[t - 1] - 1 \in tops

LEMMA HolesOfSame ==
  ASSUME NEW a, NEW b, NEW top \in Nat, SameBelow(a, b, top), HolesLead(a, top)
  PROVE  HolesLead(b, top)
<1>1. PICK tops \in SUBSET (0 .. top) :
        /\ top \in tops
        /\ \A t \in tops \ {0} : a[t - 1] \in 0 .. t - 1 /\ t - a[t - 1] - 1 \in tops
  BY DEF HolesLead
<1>2. ASSUME NEW t \in tops \ {0}
      PROVE  b[t - 1] \in 0 .. t - 1 /\ t - b[t - 1] - 1 \in tops
  <2>1. t - 1 \in 0 .. top - 1
    OBVIOUS
  <2>2. a[t - 1] = b[t - 1]
    BY <2>1 DEF SameBelow
  <2> QED
    BY <1>1, <2>2
<1> QED
  BY <1>1, <1>2 DEF HolesLead

LEMMA HoleAdded ==
  ASSUME NEW a, NEW b, NEW top \in Nat, SameBelow(a, b, top), HolesLead(a, top),
         NEW x \in Nat, b[top + x] = x
  PROVE  HolesLead(b, top + x + 1)
<1>1. HolesLead(b, top)
  BY HolesOfSame
<1>2. PICK tops \in SUBSET (0 .. top) :
        /\ top \in tops
        /\ \A t \in tops \ {0} : b[t - 1] \in 0 .. t - 1 /\ t - b[t - 1] - 1 \in tops
  BY <1>1 DEF HolesLead
<1> DEFINE u == top + x + 1
<1>3. u \in Nat \ {0} /\ u - 1 = top + x /\ u - x - 1 = top /\ x \in 0 .. u - 1
  OBVIOUS
<1>4. tops \cup {u} \in SUBSET (0 .. u)
  OBVIOUS
<1>5. ASSUME NEW t \in (tops \cup {u}) \ {0}
      PROVE  b[t - 1] \in 0 .. t - 1 /\ t - b[t - 1] - 1 \in tops \cup {u}
  <2>1. CASE t = u
    <3> HIDE DEF u
    <3> QED
      BY <1>2, <1>3, <2>1
  <2>2. CASE t # u
    BY <1>2, <2>2
  <2> QED
    BY <2>1, <2>2
<1> HIDE DEF u
<1>6. HolesLead(b, u)
  BY <1>4, <1>5 DEF HolesLead
<1> QED
  BY <1>6 DEF u

LEMMA HoleFound ==
  ASSUME NEW a, NEW top \in Nat \ {0}, HolesLead(a, top)
  PROVE  /\ a[top - 1] \in 0 .. top - 1
         /\ HolesLead(a, top - a[top - 1] - 1)
<1>1. PICK tops \in SUBSET (0 .. top) :
        /\ top \in tops
        /\ \A t \in tops \ {0} : a[t - 1] \in 0 .. t - 1 /\ t - a[t - 1] - 1 \in tops
  BY DEF HolesLead
<1> DEFINE u == top - a[top - 1] - 1
           below == tops \cap (0 .. u)
<1>2. a[top - 1] \in 0 .. top - 1 /\ u \in tops
  BY <1>1
<1>3. below \in SUBSET (0 .. u) /\ u \in below
  BY <1>2
<1>4. ASSUME NEW t \in below \ {0}
      PROVE  a[t - 1] \in 0 .. t - 1 /\ t - a[t - 1] - 1 \in below
  <2> DEFINE d == t - a[t - 1] - 1
  <2>1. a[t - 1] \in 0 .. t - 1 /\ d \in tops
    BY <1>1
  <2>2. d <= u
    <3>1. t \in Nat /\ t <= u /\ u \in Nat
      BY <1>2
    <3> HIDE DEF u
    <3> QED
      BY <2>1, <3>1
  <2>3. d \in 0 .. u
    BY <2>1, <2>2, <1>2
  <2> QED
    BY <2>1, <2>3
<1> HIDE DEF u, below
<1>5. HolesLead(a, u)
  BY <1>3, <1>4 DEF HolesLead
<1> QED
  BY <1>2, <1>5 DEF u

Greatest(a, b) == IF a > b THEN a ELSE b

\* A write to $x, x < rG.
LEMMA WritesRegister ==
  ASSUME NEW m, Sound(m), NEW x \in Nat, x + 1 < Ring, NEW v \in Word
  PROVE  LET n == [Reach(x, m) EXCEPT !.l[Slot(m.O + x)] = v]
         IN /\ Sound(n)
            /\ n = [Reach(x, m) EXCEPT !.l = n.l]
            /\ n.O = m.O
            /\ n.L = Greatest(m.L, x + 1)
            /\ Octas(n) = [Zeroed(m, n.L) EXCEPT ![m.O + x] = v]
<1> DEFINE r == Reach(x, m)
           n == [r EXCEPT !.l[Slot(m.O + x)] = v]
<1>1. m.O \in Nat /\ m.L \in Nat
  BY DEF Sound, Machines
<1>2. /\ Sound(r) /\ r.O = m.O /\ Octas(r) = Zeroed(m, r.L)
      /\ r.L = IF x + 1 > m.L THEN x + 1 ELSE m.L
  BY ReachAddsZeroes
<1>3. r.L = Greatest(m.L, x + 1)
  BY <1>1, <1>2 DEF Greatest
<1> HIDE DEF r
<1>4. r \in Machines /\ InMemory(r) <= r.O /\ r.O + r.L - InMemory(r) < Ring /\ InMemory(r) \in Nat
  BY <1>2, OctasType DEF Sound
<1>5. m.O + x \in InMemory(r) .. r.O + r.L - 1
  BY <1>1, <1>2, <1>4
<1>6. Fits(r)
  BY <1>1, <1>2, <1>4, Sizes DEF Fits
<1>7. /\ n \in Machines /\ n = [r EXCEPT !.l = n.l]
      /\ InMemory(n) = InMemory(r) /\ Octas(n) = [Octas(r) EXCEPT ![m.O + x] = v]
  <2>1. ASSUME NEW i \in InMemory(r) .. r.O + r.L - 1
        PROVE  LET z == [r EXCEPT !.l[Slot(i)] = v]
               IN /\ z \in Machines
                  /\ z = [r EXCEPT !.l = z.l]
                  /\ InMemory(z) = InMemory(r)
                  /\ Octas(z) = [Octas(r) EXCEPT ![i] = v]
    BY <1>4, <1>6, WriteChangesOne
  <2> QED
    BY <1>5, <2>1
<1> HIDE DEF n
<1>8. n.O = r.O /\ n.L = r.L
  BY <1>4, <1>7 DEF Machines
<1>9. Sound(n)
  BY <1>4, <1>7, <1>8 DEF Sound
<1> QED
  BY <1>2, <1>3, <1>7, <1>8, <1>9 DEF n, r

\* The window moves past the registers that a call keeps.
LEMMA WindowMoves ==
  ASSUME NEW m \in Machines, NEW c \in 0 .. m.L
  PROVE  LET n == [m EXCEPT !.L = m.L - c, !.O = m.O + c]
         IN /\ n \in Machines
            /\ n.O = m.O + c /\ n.L = m.L - c
            /\ InMemory(n) = InMemory(m)
            /\ Octas(n) = Octas(m)
<1> DEFINE n == [m EXCEPT !.L = m.L - c, !.O = m.O + c]
<1>1. m.O \in Nat /\ m.L \in Nat /\ c \in Nat /\ m.L - c \in Nat /\ m.O + c \in Nat
  BY DEF Machines
<1>2. n \in Machines /\ n.O = m.O + c /\ n.L = m.L - c /\ n.l = m.l /\ n.memory = m.memory
  BY <1>1 DEF Machines
<1>3. n.O + n.L = m.O + m.L
  BY <1>1, <1>2
<1> HIDE DEF n
<1>4. InMemory(n) = InMemory(m)
  BY <1>2 DEF InMemory
<1>5. Octas(n) = Octas(m)
  <2>0. n.O = m.O + c /\ n.L = m.L - c
    BY <1>2
  <2>1. n.O + n.L - 1 = m.O + m.L - 1
    BY ONLY <1>1, <2>0
  <2> QED
    BY <1>2, <2>1 DEF Octas
<1> QED
  BY <1>2, <1>4, <1>5 DEF n

\* PUSHJ, PUSHGO.
LEMMA PushesFrame ==
  ASSUME NEW m, Sound(m), NEW limit \in Nat, m.L <= limit, limit < Ring,
         limit <= Registers, NEW x \in Nat
  PROVE  LET r == IF x >= limit THEN StoreIfFull([m EXCEPT !.L = @ + 1]) ELSE Reach(x, m)
             xx == IF x >= limit THEN m.L ELSE x
             n == [r EXCEPT !.l[Slot(m.O + xx)] = xx,
                            !.L = @ - (xx + 1), !.O = @ + xx + 1]
             len == Greatest(m.L, xx + 1)
         IN /\ Sound(n)
            /\ n.O = m.O + xx + 1
            /\ n.L = len - (xx + 1)
            /\ Octas(n) = [Zeroed(m, len) EXCEPT ![m.O + xx] = xx]
<1> DEFINE r == IF x >= limit THEN StoreIfFull([m EXCEPT !.L = @ + 1]) ELSE Reach(x, m)
           xx == IF x >= limit THEN m.L ELSE x
           w == [r EXCEPT !.l[Slot(m.O + xx)] = xx]
           n == [r EXCEPT !.l[Slot(m.O + xx)] = xx,
                          !.L = @ - (xx + 1), !.O = @ + xx + 1]
           len == Greatest(m.L, xx + 1)
<1>1. m.O \in Nat /\ m.L \in Nat /\ InMemory(m) \in Nat /\ m \in Machines
  BY OctasType DEF Sound, Machines
<1>2. xx \in Nat /\ xx \in Word /\ xx <= limit
  BY <1>1, Sizes DEF Word
<1>3. /\ w \in Machines
      /\ InMemory(w) <= m.O + xx
      /\ w.O = m.O /\ w.L = len
      /\ m.O + len - InMemory(w) < Ring
      /\ Octas(w) = [Zeroed(m, len) EXCEPT ![m.O + xx] = xx]
      /\ r \in Machines /\ r.O = m.O /\ r.L = len
  <2>1. CASE x < limit
    <3>2. x + 1 < Ring
      BY <2>1, Sizes
    <3>3. r = Reach(x, m) /\ xx = x
      BY <2>1
    <3>4. /\ Sound(w) /\ w = [Reach(x, m) EXCEPT !.l = w.l]
          /\ w.O = m.O /\ w.L = len /\ Octas(w) = [Zeroed(m, w.L) EXCEPT ![m.O + x] = x]
      <4> HIDE DEF r, xx
      <4> QED
        BY <1>2, <3>2, <3>3, WritesRegister
    <3>6. r \in Machines /\ r.O = m.O /\ r.L = len
      <4>1. /\ Sound(r) /\ r.O = m.O
            /\ r.L = IF x + 1 > m.L THEN x + 1 ELSE m.L
        <5> HIDE DEF r, xx
        <5> QED
          BY <3>2, <3>3, ReachAddsZeroes
      <4> QED
        BY <4>1, <3>3, <1>1 DEF Sound, Greatest
    <3> HIDE DEF w, r, xx, len
    <3>5. w \in Machines /\ InMemory(w) \in Nat /\ InMemory(w) <= m.O /\ m.O + len - InMemory(w) < Ring
      BY <3>4, OctasType DEF Sound
    <3> QED
      BY <3>3, <3>4, <3>5, <3>6, <1>1
  <2>2. CASE x >= limit
    <3> DEFINE k == [m EXCEPT !.L = @ + 1]
    <3>1. xx = m.L /\ r = StoreIfFull(k)
      BY <2>2
    <3>2. len = m.L + 1
      BY <1>1, <3>1 DEF Greatest
    <3>3. k \in Machines /\ k.O = m.O /\ k.L = m.L + 1 /\ k.l = m.l /\ k.memory = m.memory
      BY <1>1 DEF Machines
    <3> HIDE DEF k, xx, len
    <3>4. InMemory(k) = InMemory(m)
      BY <3>3 DEF InMemory
    <3>5. InMemory(m) <= m.O /\ m.O + m.L - InMemory(m) < Ring
      BY DEF Sound
    <3>6. Fits(k) /\ InMemory(k) < k.O + k.L
      BY <1>1, <3>3, <3>4, <3>5, Sizes DEF Fits
    <3>7. /\ r \in Machines /\ r.O = m.O /\ r.L = m.L + 1
          /\ Octas(r) = Octas(k)
          /\ InMemory(r) \in Nat
          /\ m.O + (m.L + 1) - InMemory(r) < Ring
          /\ \/ InMemory(r) = InMemory(k)
             \/ /\ m.O + (m.L + 1) - InMemory(k) = Ring
                /\ InMemory(r) = InMemory(k) + 1
      BY <3>1, <3>3, <3>6, StoreMakesRoom
    <3> HIDE DEF r
    <3>8. InMemory(r) <= m.O + m.L
      <4>1. CASE InMemory(r) = InMemory(k)
        BY <4>1, <1>1, <3>4, <3>5
      <4>2. CASE m.O + (m.L + 1) - InMemory(k) = Ring /\ InMemory(r) = InMemory(k) + 1
        <5>1. Ring \in Nat /\ Ring >= 3
          BY Sizes
        <5> QED
          BY <4>2, <5>1, <1>1, <3>4
      <4> QED
        BY <3>7, <4>1, <4>2
    <3>9. m.O + xx \in InMemory(r) .. r.O + r.L - 1
      BY <1>1, <3>1, <3>7, <3>8
    <3>10. Fits(r)
      BY <1>1, <3>7, <3>8, Sizes DEF Fits
    <3>11. /\ w \in Machines /\ w = [r EXCEPT !.l = w.l]
           /\ InMemory(w) = InMemory(r) /\ Octas(w) = [Octas(r) EXCEPT ![m.O + xx] = xx]
      <4>1. ASSUME NEW i \in InMemory(r) .. r.O + r.L - 1
            PROVE  LET z == [r EXCEPT !.l[Slot(i)] = xx]
                   IN /\ z \in Machines
                      /\ z = [r EXCEPT !.l = z.l]
                      /\ InMemory(z) = InMemory(r)
                      /\ Octas(z) = [Octas(r) EXCEPT ![i] = xx]
        BY <1>2, <3>7, <3>10, WriteChangesOne
      <4> QED
        BY <3>9, <4>1
    <3> HIDE DEF w
    <3>12. w.O = m.O /\ w.L = len
      BY <3>2, <3>7, <3>11 DEF Machines
    <3>13. [Octas(k) EXCEPT ![m.O + xx] = xx] = [Zeroed(m, len) EXCEPT ![m.O + xx] = xx]
      <4>1. Octas(k) = [i \in 0 .. m.O + (m.L + 1) - 1 |->
                          IF i < InMemory(m) THEN m.memory[i + 1] ELSE m.l[Slot(i)]]
        BY <3>3 DEF Octas, InMemory
      <4>2. Zeroed(m, len) = [i \in 0 .. m.O + (m.L + 1) - 1 |->
                                IF i < m.O + m.L THEN Octas(m)[i] ELSE 0]
        BY <3>2 DEF Zeroed
      <4>3. ASSUME NEW i \in 0 .. m.O + (m.L + 1) - 1, i # m.O + xx
            PROVE  Octas(k)[i] = Zeroed(m, len)[i]
        <5>1. i \in 0 .. m.O + m.L - 1
          BY <4>3, <3>1, <1>1
        <5>2. Octas(m)[i] = IF i < InMemory(m) THEN m.memory[i + 1] ELSE m.l[Slot(i)]
          BY <5>1 DEF Octas, InMemory
        <5> QED
          BY <4>1, <4>2, <5>1, <5>2, <1>1
      <4> QED
        BY <4>1, <4>2, <4>3
    <3> QED
      BY <3>1, <3>2, <3>7, <3>8, <3>11, <3>12, <3>13
  <2> QED
    BY <2>1, <2>2
<1>4. len \in Nat /\ xx + 1 \in 0 .. len
  BY <1>1, <1>2 DEF Greatest
<1> HIDE DEF r, xx, len
<1>5. n = [w EXCEPT !.L = w.L - (xx + 1), !.O = w.O + (xx + 1)]
  <2>1. m.O + xx + 1 = m.O + (xx + 1)
    BY <1>1, <1>2
  <2> QED
    BY <2>1, <1>3 DEF Machines
<1> HIDE DEF n, w
<1>6. /\ n \in Machines /\ n.O = w.O + (xx + 1) /\ n.L = w.L - (xx + 1)
      /\ InMemory(n) = InMemory(w) /\ Octas(n) = Octas(w)
  <2>1. ASSUME NEW c \in 0 .. w.L
        PROVE  LET z == [w EXCEPT !.L = w.L - c, !.O = w.O + c]
               IN /\ z \in Machines
                  /\ z.O = w.O + c /\ z.L = w.L - c
                  /\ InMemory(z) = InMemory(w)
                  /\ Octas(z) = Octas(w)
    BY <1>3, WindowMoves
  <2> QED
    BY <1>3, <1>4, <1>5, <2>1
<1>7. Sound(n)
  <2>1. InMemory(w) \in Nat
    BY <1>3, OctasType
  <2>2. n.O + n.L = m.O + len
    BY <1>1, <1>2, <1>3, <1>4, <1>6
  <2>3. InMemory(n) <= n.O
    BY <2>1, <1>1, <1>2, <1>3, <1>6
  <2>4. n.O + n.L - InMemory(n) < Ring
    BY <2>1, <2>2, <1>1, <1>2, <1>3, <1>4, <1>6
  <2> QED
    BY <2>3, <2>4, <1>6 DEF Sound
<1>8. n.O = m.O + xx + 1 /\ n.L = len - (xx + 1)
  BY <1>1, <1>2, <1>3, <1>6
<1> QED
  BY <1>3, <1>6, <1>7, <1>8 DEF n, r, xx, len

\* The loads of POP bring the caller's registers back into the ring.
LEMMA LoadsReachFrame ==
  ASSUME NEW m, Sound(m), m.O > 0, m.L < Ring,
         NEW k \in 0 .. m.O - 1, k = Octas(m)[m.O - 1]
  PROVE  LET a == IF Len(m.memory) = m.O THEN stack_load(m) ELSE m
             b == Repeat(stack_load, Len(a.memory) - (m.O - k - 1), a)
         IN /\ a.l[Slot(m.O - 1)] = k
            /\ b \in Machines /\ b.O = m.O /\ b.L = m.L
            /\ \/ InMemory(b) = m.O - k - 1
               \/ InMemory(b) = InMemory(m) /\ InMemory(m) < m.O - k - 1
            /\ \A i \in 0 .. m.O + m.L - 1 :
                 i < m.O - k - 1 + Ring => Octas(b)[i] = Octas(m)[i]
<1> DEFINE a == IF Len(m.memory) = m.O THEN stack_load(m) ELSE m
           t == m.O - k - 1
           count == InMemory(a) - t
           b == Repeat(stack_load, count, a)
<1>1. /\ m \in Machines /\ InMemory(m) <= m.O /\ m.O + m.L - InMemory(m) < Ring
      /\ m.O \in Nat /\ m.L \in Nat /\ InMemory(m) \in Nat /\ Ring \in Nat
  BY Sizes, OctasType DEF Sound, Machines
<1>2. k \in Nat /\ t \in Nat /\ t <= m.O - 1 /\ t + k + 1 = m.O
  BY <1>1
<1>3. /\ a \in Machines /\ a.O = m.O /\ a.L = m.L
      /\ InMemory(a) = IF InMemory(m) = m.O THEN m.O - 1 ELSE InMemory(m)
      /\ \A i \in 0 .. m.O + m.L - 1 : Octas(a)[i] = Octas(m)[i]
  <2>1. CASE InMemory(m) = m.O
    <3>1. a = stack_load(m)
      BY <2>1 DEF InMemory
    <3> HIDE DEF a
    <3>2. /\ a \in Machines /\ InMemory(a) = InMemory(m) - 1 /\ a.O = m.O /\ a.L = m.L
          /\ \A i \in 0 .. m.O + m.L - 1 :
               i < InMemory(m) - 1 + Ring => Octas(a)[i] = Octas(m)[i]
      BY <1>1, <2>1, <3>1, LoadMoves
    <3>3. ASSUME NEW i \in 0 .. m.O + m.L - 1 PROVE i < InMemory(m) - 1 + Ring
      BY <1>1, <2>1
    <3> QED
      BY <2>1, <3>2, <3>3
  <2>2. CASE InMemory(m) # m.O
    <3>1. a = m
      BY <2>2 DEF InMemory
    <3> HIDE DEF a
    <3> QED
      BY <1>1, <2>2, <3>1
  <2> QED
    BY <2>1, <2>2
<1> HIDE DEF a
<1>4. InMemory(a) \in Nat /\ InMemory(a) <= m.O - 1
  BY <1>1, <1>3
<1>5. a.l[Slot(m.O - 1)] = k
  <2>1. m.O - 1 \in 0 .. a.O + a.L - 1 /\ m.O - 1 \in 0 .. m.O + m.L - 1
    BY <1>1, <1>3
  <2>2. Octas(a)[m.O - 1] = a.l[Slot(m.O - 1)]
    BY <2>1, <1>3, <1>4, OctasType
  <2> QED
    BY <2>1, <2>2, <1>3
<1>6. CASE count <= 0
  <2>1. b = a
    BY <1>6, <1>2, <1>4 DEF Repeat
  <2> HIDE DEF b, t
  <2>2. InMemory(b) <= t
    BY <1>2, <1>4, <1>6, <2>1
  <2>3. InMemory(b) = t \/ (InMemory(b) = InMemory(m) /\ InMemory(m) < t)
    BY <1>1, <1>2, <1>3, <1>4, <2>1, <2>2
  <2>4. /\ b \in Machines /\ b.O = m.O /\ b.L = m.L
        /\ \A i \in 0 .. m.O + m.L - 1 : i < t + Ring => Octas(b)[i] = Octas(m)[i]
    BY <1>3, <2>1
  <2> QED
    BY <1>5, <2>3, <2>4 DEF a, b, t, InMemory
<1>7. CASE count > 0
  <2>1. count \in 0 .. InMemory(a) /\ InMemory(a) <= a.O + a.L
    BY <1>1, <1>2, <1>3, <1>4, <1>7
  <2>2. InMemory(a) - count = t
    BY <1>2, <1>4
  <2>3. /\ b \in Machines
        /\ InMemory(b) = InMemory(a) - count
        /\ b.O = a.O
        /\ b.L = a.L
        /\ \A i \in 0 .. a.O + a.L - 1 :
             i < InMemory(a) - count + Ring => Octas(b)[i] = Octas(a)[i]
    <3> HIDE DEF count
    <3> QED
      BY <1>3, <2>1, LoadsMove
  <2> HIDE DEF b, t, count
  <2>4. InMemory(b) = t
    BY <2>2, <2>3
  <2>5. /\ b \in Machines /\ b.O = m.O /\ b.L = m.L
        /\ \A i \in 0 .. m.O + m.L - 1 : i < t + Ring => Octas(b)[i] = Octas(m)[i]
    BY <1>3, <2>2, <2>3
  <2> QED
    BY <1>5, <2>4, <2>5 DEF a, b, t, count, InMemory
<1>8. count <= 0 \/ count > 0
  BY <1>2, <1>4
<1> QED
  BY <1>6, <1>7, <1>8

\* POP: the window moves back to the hole, which takes the main result y.
AtHole(m) == IF Len(m.memory) = m.O THEN stack_load(m) ELSE m

Back(m, k) ==
  Repeat(stack_load, Len(AtHole(m).memory) - (m.O - k - 1), AtHole(m))

Popped(m, k, len, y) ==
  [Back(m, k) EXCEPT !.l[Slot(m.O - 1)] = IF len > k THEN y ELSE @,
                     !.L = len, !.O = @ - (k + 1)]

LEMMA PopsFrame ==
  ASSUME NEW m, Sound(m), m.O > 0, m.L < Ring,
         NEW k \in 0 .. m.O - 1, k = Octas(m)[m.O - 1],
         NEW len \in Nat, len < Ring, len <= k + m.L + 1, NEW y \in Word
  PROVE  LET n == Popped(m, k, len, y)
         IN /\ AtHole(m).l[Slot(m.O - 1)] = k
            /\ Sound(n)
            /\ n.O = m.O - (k + 1)
            /\ n.L = len
            /\ \A i \in 0 .. n.O + len - 1 :
                 Octas(n)[i] = IF i = m.O - 1 THEN y ELSE Octas(m)[i]
<1> DEFINE a == IF Len(m.memory) = m.O THEN stack_load(m) ELSE m
           b == Repeat(stack_load, Len(a.memory) - (m.O - k - 1), a)
           t == m.O - (k + 1)
           c == [b EXCEPT !.L = len, !.O = t]
           n == [b EXCEPT !.l[Slot(m.O - 1)] = IF len > k THEN y ELSE @,
                          !.L = len, !.O = @ - (k + 1)]
<1>0. AtHole(m) = a /\ Back(m, k) = b /\ Popped(m, k, len, y) = n
  BY DEF AtHole, Back, Popped
<1>1. /\ m \in Machines /\ InMemory(m) <= m.O /\ m.O + m.L - InMemory(m) < Ring
      /\ m.O \in Nat /\ m.L \in Nat /\ InMemory(m) \in Nat /\ Ring \in Nat
  BY Sizes, OctasType DEF Sound, Machines
<1>2. k \in Nat /\ t \in Nat /\ t = m.O - k - 1 /\ t + k + 1 = m.O
  BY <1>1
<1>3. /\ a.l[Slot(m.O - 1)] = k
      /\ b \in Machines /\ b.O = m.O /\ b.L = m.L
      /\ \/ InMemory(b) = m.O - k - 1
         \/ InMemory(b) = InMemory(m) /\ InMemory(m) < m.O - k - 1
      /\ \A i \in 0 .. m.O + m.L - 1 :
           i < m.O - k - 1 + Ring => Octas(b)[i] = Octas(m)[i]
  BY LoadsReachFrame
<1> HIDE DEF a, b
<1>4. c \in Machines /\ c.O = t /\ c.L = len /\ c.l = b.l /\ c.memory = b.memory
  BY <1>2, <1>3 DEF Machines
<1>5. InMemory(c) = InMemory(b) /\ InMemory(b) \in Nat /\ InMemory(b) <= t
  <2>1. InMemory(b) \in Nat
    BY <1>3, OctasType
  <2> QED
    BY <2>1, <1>1, <1>2, <1>3, <1>4 DEF InMemory
<1>6. t + len - InMemory(c) < Ring
  <2>1. CASE InMemory(b) = t
    BY <2>1, <1>1, <1>2, <1>5
  <2>2. CASE InMemory(b) = InMemory(m)
    <3>1. t + len <= m.O + m.L
      BY <1>1, <1>2
    <3> HIDE DEF t
    <3> QED
      BY <2>2, <3>1, <1>1, <1>2, <1>5
  <2> QED
    BY <2>1, <2>2, <1>2, <1>3
<1> HIDE DEF c
<1>7. Sound(c)
  BY <1>2, <1>4, <1>5, <1>6 DEF Sound
<1>8. ASSUME NEW i \in 0 .. t + len - 1 PROVE Octas(c)[i] = Octas(m)[i]
  <2>1. i \in Nat /\ i < t + Ring /\ i \in 0 .. m.O + m.L - 1
    BY <1>1, <1>2
  <2>2. Octas(c)[i] = Octas(b)[i]
    BY <2>1, <1>3, <1>4 DEF Octas
  <2> QED
    BY <2>1, <2>2, <1>2, <1>3
<1>9. CASE len <= k
  <2>1. n = c
    <3>1. ~(len > k)
      BY <1>2, <1>9
    <3> QED
      BY <3>1, <1>3 DEF c, Machines
  <2> HIDE DEF n, t, a, b
  <2>2. ASSUME NEW i \in 0 .. t + len - 1 PROVE i # m.O - 1
    BY <1>1, <1>2, <1>9
  <2> QED
    BY <2>1, <2>2, <1>0, <1>3, <1>4, <1>7, <1>8 DEF t
<1>10. CASE len > k
  <2>1. n = [c EXCEPT !.l[Slot(m.O - 1)] = y]
    BY <1>3, <1>10 DEF c, Machines
  <2> HIDE DEF n, t
  <2>2. m.O - 1 \in InMemory(c) .. c.O + c.L - 1 /\ Fits(c)
    BY <1>1, <1>2, <1>4, <1>5, <1>6, <1>10 DEF Fits
  <2>3. /\ n \in Machines
        /\ n = [c EXCEPT !.l = n.l]
        /\ InMemory(n) = InMemory(c)
        /\ Octas(n) = [Octas(c) EXCEPT ![m.O - 1] = y]
    <3>1. ASSUME NEW i \in InMemory(c) .. c.O + c.L - 1
          PROVE  LET z == [c EXCEPT !.l[Slot(i)] = y]
                 IN /\ z \in Machines
                    /\ z = [c EXCEPT !.l = z.l]
                    /\ InMemory(z) = InMemory(c)
                    /\ Octas(z) = [Octas(c) EXCEPT ![i] = y]
      BY <1>4, <2>2, WriteChangesOne
    <3> QED
      BY <2>1, <2>2, <3>1
  <2>4. n.O = t /\ n.L = len
    BY <2>3, <1>4 DEF Machines
  <2>5. Sound(n)
    BY <2>3, <2>4, <1>4, <1>7 DEF Sound
  <2>6. ASSUME NEW i \in 0 .. t + len - 1
        PROVE  Octas(n)[i] = IF i = m.O - 1 THEN y ELSE Octas(m)[i]
    <3>1. i \in DOMAIN Octas(c)
      BY <1>4, OctasType
    <3> QED
      BY <2>3, <3>1, <1>8
  <2> QED
    BY <2>4, <2>5, <2>6, <1>0, <1>3 DEF t
<1>11. len <= k \/ len > k
  BY <1>2
<1> QED
  BY <1>9, <1>10, <1>11

(***************************************************************************)
(* What that means for the register stack that the octas hold.             *)
(***************************************************************************)

LocalOf(m) == [i \in 1 .. m.L |-> Octas(m)[m.O + (i - 1)]]

SavedOf(m) == Frames(Octas(m), m.O)

ExtendedTo(c, seq) == seq \o [i \in 1 .. c - Len(seq) |-> 0]

LEMMA LocalType ==
  ASSUME NEW m \in Machines
  PROVE  /\ LocalOf(m) \in Seq(Word)
         /\ Len(LocalOf(m)) = m.L
         /\ \A i \in 1 .. m.L : LocalOf(m)[i] = Octas(m)[m.O + (i - 1)]
<1>1. m.O \in Nat /\ m.L \in Nat
  BY DEF Machines
<1>2. ASSUME NEW i \in 1 .. m.L PROVE Octas(m)[m.O + (i - 1)] \in Word
  <2>1. m.O + (i - 1) \in 0 .. m.O + m.L - 1
    BY <1>1
  <2> QED
    BY <2>1, OctasType
<1>3. LocalOf(m) \in [1 .. m.L -> Word]
  BY <1>2 DEF LocalOf
<1>4. LocalOf(m) \in Seq(Word)
  BY <1>1, <1>3, SeqDef
<1>5. Len(LocalOf(m)) = m.L
  BY <1>1, <1>3, <1>4, LenProperties
<1> QED
  BY <1>4, <1>5 DEF LocalOf

LEMMA SavedType ==
  ASSUME NEW m \in Machines
  PROVE  SavedOf(m) \in Seq(Frame)
<1>1. m.O \in Nat /\ m.L \in Nat
  BY DEF Machines
<1>2. ASSUME NEW i \in 0 .. m.O - 1 PROVE Octas(m)[i] \in Word
  <2>1. i \in 0 .. m.O + m.L - 1
    BY <1>1
  <2> QED
    BY <2>1, OctasType
<1> QED
  BY <1>1, <1>2, FramesType DEF SavedOf

LEMMA ExtendedIs ==
  ASSUME NEW seq \in Seq(Word), NEW c \in Int
  PROVE  /\ ExtendedTo(c, seq) \in Seq(Word)
         /\ Len(ExtendedTo(c, seq)) = Greatest(Len(seq), c)
         /\ \A i \in 1 .. Greatest(Len(seq), c) :
              ExtendedTo(c, seq)[i] = IF i <= Len(seq) THEN seq[i] ELSE 0
<1> DEFINE zeroes == [i \in 1 .. c - Len(seq) |-> 0]
           d == IF c > Len(seq) THEN c - Len(seq) ELSE 0
<1>1. Len(seq) \in Nat /\ d \in Nat
  OBVIOUS
<1>2. 1 .. c - Len(seq) = 1 .. d
  BY <1>1
<1>3. zeroes \in Seq(Word) /\ Len(zeroes) = d /\ \A i \in 1 .. d : zeroes[i] = 0
  <2>1. zeroes = [i \in 1 .. d |-> 0]
    BY <1>2
  <2>2. zeroes \in [1 .. d -> Word]
    BY <2>1, Sizes
  <2> HIDE DEF zeroes, d
  <2>3. zeroes \in Seq(Word)
    BY <1>1, <2>2, SeqDef
  <2>4. Len(zeroes) = d
    BY <1>1, <2>2, <2>3, LenProperties
  <2> QED
    BY <2>1, <2>3, <2>4
<1> HIDE DEF zeroes
<1>4. /\ seq \o zeroes \in Seq(Word)
      /\ Len(seq \o zeroes) = Len(seq) + Len(zeroes)
      /\ \A i \in 1 .. Len(seq) + Len(zeroes) :
           (seq \o zeroes)[i] = IF i <= Len(seq) THEN seq[i] ELSE zeroes[i - Len(seq)]
  BY <1>3, ConcatProperties
<1>5. Len(seq) + d = Greatest(Len(seq), c)
  BY <1>1 DEF Greatest
<1>6. ASSUME NEW i \in 1 .. Len(seq) + d, i > Len(seq) PROVE zeroes[i - Len(seq)] = 0
  <2>1. i - Len(seq) \in 1 .. d
    BY <1>1, <1>6
  <2> QED
    BY <2>1, <1>3
<1>7. ExtendedTo(c, seq) = seq \o zeroes
  BY DEF ExtendedTo, zeroes
<1> HIDE DEF d
<1> QED
  BY <1>1, <1>3, <1>4, <1>5, <1>6, <1>7

\* The frames below the window are those of the same octas.
LEMMA SavedOfSame ==
  ASSUME NEW m \in Machines, NEW n \in Machines, n.O = m.O,
         \A i \in 0 .. m.O - 1 : Octas(n)[i] = Octas(m)[i]
  PROVE  SavedOf(n) = SavedOf(m)
<1>1. m.O \in Nat /\ SameBelow(Octas(n), Octas(m), m.O)
  BY DEF Machines, SameBelow
<1> QED
  BY <1>1, FramesOfSame DEF SavedOf

\* Two sequences are the same if they have the same length and elements.
LEMMA SameSeq ==
  ASSUME NEW a \in Seq(Word), NEW b \in Seq(Word), Len(a) = Len(b),
         \A i \in 1 .. Len(a) : a[i] = b[i]
  PROVE  a = b
BY SeqEqual

LEMMA WriteRefines ==
  ASSUME NEW m \in Machines, NEW n \in Machines, NEW x \in Nat, NEW v \in Word,
         n.O = m.O, n.L = Greatest(m.L, x + 1),
         Octas(n) = [Zeroed(m, n.L) EXCEPT ![m.O + x] = v]
  PROVE  /\ SavedOf(n) = SavedOf(m)
         /\ LocalOf(n) = [ExtendedTo(x + 1, LocalOf(m)) EXCEPT ![x + 1] = v]
<1> DEFINE ext == ExtendedTo(x + 1, LocalOf(m))
<1>1. m.O \in Nat /\ m.L \in Nat /\ n.L \in Nat /\ m.L <= n.L /\ x + 1 <= n.L
  BY DEF Machines, Greatest
<1>2. /\ LocalOf(m) \in Seq(Word) /\ Len(LocalOf(m)) = m.L
      /\ \A i \in 1 .. m.L : LocalOf(m)[i] = Octas(m)[m.O + (i - 1)]
  BY LocalType
<1>3. /\ ext \in Seq(Word) /\ Len(ext) = n.L
      /\ \A i \in 1 .. n.L : ext[i] = IF i <= m.L THEN LocalOf(m)[i] ELSE 0
  <2>1. LocalOf(m) \in Seq(Word) /\ x + 1 \in Int
    BY <1>2
  <2>2. /\ ext \in Seq(Word)
        /\ Len(ext) = Greatest(Len(LocalOf(m)), x + 1)
        /\ \A i \in 1 .. Greatest(Len(LocalOf(m)), x + 1) :
             ext[i] = IF i <= Len(LocalOf(m)) THEN LocalOf(m)[i] ELSE 0
    BY ONLY <2>1, ExtendedIs
  <2> QED
    BY <1>2, <2>2
<1> HIDE DEF ext
<1>4. ASSUME NEW i \in 0 .. m.O + n.L - 1
      PROVE  Octas(n)[i] = IF i = m.O + x THEN v
                           ELSE IF i < m.O + m.L THEN Octas(m)[i] ELSE 0
  BY DEF Zeroed
<1>5. SavedOf(n) = SavedOf(m)
  <2>1. ASSUME NEW i \in 0 .. m.O - 1 PROVE Octas(n)[i] = Octas(m)[i]
    <3>1. i \in 0 .. m.O + n.L - 1 /\ i # m.O + x /\ i < m.O + m.L
      BY <1>1
    <3> QED
      BY <3>1, <1>4
  <2> QED
    BY <2>1, SavedOfSame
<1>6. ASSUME NEW i \in 1 .. n.L
      PROVE  Octas(n)[n.O + (i - 1)] = IF i = x + 1 THEN v ELSE ext[i]
  <2>1. m.O + (i - 1) \in 0 .. m.O + n.L - 1
    BY <1>1
  <2>2. (m.O + (i - 1) = m.O + x <=> i = x + 1) /\ (m.O + (i - 1) < m.O + m.L <=> i <= m.L)
    BY <1>1
  <2>3. i <= m.L => LocalOf(m)[i] = Octas(m)[m.O + (i - 1)]
    BY <1>1, <1>2
  <2> QED
    BY <2>1, <2>2, <2>3, <1>3, <1>4
<1>7. DOMAIN ext = 1 .. n.L
  BY <1>3, LenProperties
<1>8. [ext EXCEPT ![x + 1] = v] = [i \in 1 .. n.L |-> IF i = x + 1 THEN v ELSE ext[i]]
  <2>1. [ext EXCEPT ![x + 1] = v] = [i \in DOMAIN ext |-> IF i = x + 1 THEN v ELSE ext[i]]
    OBVIOUS
  <2> QED
    BY <2>1, <1>7
<1>9. LocalOf(n) = [i \in 1 .. n.L |-> Octas(n)[n.O + (i - 1)]]
  BY DEF LocalOf
<1> QED
  BY <1>5, <1>6, <1>8, <1>9 DEF ext

LEMMA CallRefines ==
  ASSUME NEW m \in Machines, NEW n \in Machines, NEW x \in Nat,
         NEW len \in Nat, len = Greatest(m.L, x + 1),
         n.O = m.O + x + 1, n.L = len - (x + 1),
         Octas(n) = [Zeroed(m, len) EXCEPT ![m.O + x] = x]
  PROVE  LET all == ExtendedTo(x + 1, LocalOf(m))
         IN /\ SavedOf(n) = Append(SavedOf(m), SubSeq(all, 1, x))
            /\ LocalOf(n) = SubSeq(all, x + 2, Len(all))
<1> DEFINE all == ExtendedTo(x + 1, LocalOf(m))
<1>1. m.O \in Nat /\ m.L \in Nat /\ n.L \in Nat /\ n.O \in Nat /\ m.L <= len /\ x + 1 <= len
  BY DEF Machines, Greatest
<1>2. /\ LocalOf(m) \in Seq(Word) /\ Len(LocalOf(m)) = m.L
      /\ \A i \in 1 .. m.L : LocalOf(m)[i] = Octas(m)[m.O + (i - 1)]
  BY LocalType
<1>3. /\ all \in Seq(Word) /\ Len(all) = len
      /\ \A i \in 1 .. len : all[i] = IF i <= m.L THEN LocalOf(m)[i] ELSE 0
  <2>1. LocalOf(m) \in Seq(Word) /\ x + 1 \in Int
    BY <1>2
  <2>2. /\ all \in Seq(Word)
        /\ Len(all) = Greatest(Len(LocalOf(m)), x + 1)
        /\ \A i \in 1 .. Greatest(Len(LocalOf(m)), x + 1) :
             all[i] = IF i <= Len(LocalOf(m)) THEN LocalOf(m)[i] ELSE 0
    BY ONLY <2>1, ExtendedIs
  <2> QED
    BY <1>2, <2>2
<1> HIDE DEF all
<1>4. ASSUME NEW i \in 0 .. m.O + len - 1
      PROVE  Octas(n)[i] = IF i = m.O + x THEN x
                           ELSE IF i < m.O + m.L THEN Octas(m)[i] ELSE 0
  BY DEF Zeroed
<1>5. ASSUME NEW i \in 1 .. len, i # x + 1
      PROVE  Octas(n)[m.O + (i - 1)] = all[i]
  <2>1. m.O + (i - 1) \in 0 .. m.O + len - 1
    BY <1>1
  <2>2. m.O + (i - 1) # m.O + x /\ (m.O + (i - 1) < m.O + m.L <=> i <= m.L)
    BY <1>1, <1>5
  <2>3. i <= m.L => LocalOf(m)[i] = Octas(m)[m.O + (i - 1)]
    BY <1>1, <1>2
  <2> QED
    BY <2>1, <2>2, <2>3, <1>3, <1>4
<1>6. Octas(n)[m.O + x] = x
  <2>1. m.O + x \in 0 .. m.O + len - 1
    BY <1>1
  <2> QED
    BY <2>1, <1>4
<1>7. SavedOf(n) = Append(SavedOf(m), SubSeq(all, 1, x))
  <2>1. Frames(Octas(n), m.O) = SavedOf(m)
    <3>1. ASSUME NEW i \in 0 .. m.O - 1 PROVE Octas(n)[i] = Octas(m)[i]
      <4>1. i \in 0 .. m.O + len - 1 /\ i # m.O + x /\ i < m.O + m.L
        BY <1>1
      <4> QED
        BY <4>1, <1>4
    <3>2. SameBelow(Octas(n), Octas(m), m.O)
      BY <3>1 DEF SameBelow
    <3> QED
      BY <1>1, <3>2, FramesOfSame DEF SavedOf
  <2>2. /\ n.O \in Nat \ {0} /\ x \in 0 .. n.O - 1
        /\ n.O - 1 = m.O + x /\ n.O - x - 1 = m.O
        /\ \A i \in Int : n.O - x - 2 + i = m.O + (i - 1)
    BY <1>1
  <2>6. Octas(n)[n.O - 1] = x
    BY <2>2, <1>6
  <2>3. Frames(Octas(n), n.O) =
          Append(Frames(Octas(n), n.O - x - 1), FrameUnder(Octas(n), x, n.O))
    <3>1. ASSUME NEW u \in Nat \ {0}, x \in 0 .. u - 1, Octas(n)[u - 1] = x
          PROVE  Frames(Octas(n), u) =
                   Append(Frames(Octas(n), u - x - 1), FrameUnder(Octas(n), x, u))
      BY ONLY <3>1, FramesStep
    <3>2. n.O \in Nat \ {0} /\ x \in 0 .. n.O - 1
      BY <2>2
    <3> QED
      BY ONLY <2>6, <3>1, <3>2
  <2>4. FrameUnder(Octas(n), x, n.O) = [i \in 1 .. x |-> all[i]]
    <3>1. ASSUME NEW i \in 1 .. x PROVE Octas(n)[n.O - x - 2 + i] = all[i]
      <4>1. i \in 1 .. len /\ i # x + 1 /\ i \in Int
        BY <1>1
      <4> QED
        BY <4>1, <2>2, <1>5
    <3> QED
      BY <3>1 DEF FrameUnder
  <2>5. SubSeq(all, 1, x) = [i \in 1 .. x |-> all[i]]
    BY <1>1, <1>3
  <2> QED
    BY <2>1, <2>2, <2>3, <2>4, <2>5 DEF SavedOf
<1>8. LocalOf(n) = SubSeq(all, x + 2, Len(all))
  <2>1. LocalOf(n) \in Seq(Word) /\ Len(LocalOf(n)) = n.L
        /\ \A i \in 1 .. n.L : LocalOf(n)[i] = Octas(n)[n.O + (i - 1)]
    BY LocalType
  <2>2. /\ SubSeq(all, x + 2, len) \in Seq(Word)
        /\ Len(SubSeq(all, x + 2, len)) = n.L
        /\ \A i \in 1 .. n.L : SubSeq(all, x + 2, len)[i] = all[x + 2 + i - 1]
    BY SMTT(30), <1>1, <1>3, SubSeqProperties
  <2>3. ASSUME NEW i \in 1 .. n.L PROVE LocalOf(n)[i] = SubSeq(all, x + 2, len)[i]
    <3>1. x + 2 + i - 1 \in 1 .. len /\ x + 2 + i - 1 # x + 1
      BY <1>1
    <3>2. n.O + (i - 1) = m.O + ((x + 2 + i - 1) - 1)
      BY <1>1
    <3> QED
      BY ZenonT(30), <2>1, <2>2, <3>1, <3>2, <1>5
  <2> HIDE DEF all
  <2>4. LocalOf(n) = SubSeq(all, x + 2, len)
    BY <2>1, <2>2, <2>3, SameSeq
  <2> QED
    BY <2>4, <1>3
<1> QED
  BY <1>7, <1>8 DEF all

ResultsOf(x, seq) ==
  LET all == IF x <= Len(seq) THEN SubSeq(seq, 1, x) ELSE Append(seq, 0)
  IN IF all = <<>> THEN <<>> ELSE <<Last(all)>> \o Front(all)

LEMMA ResultsAre ==
  ASSUME NEW seq \in Seq(Word), NEW x \in Nat,
         NEW r \in Nat, r = IF x <= Len(seq) THEN x ELSE Len(seq) + 1,
         NEW y, y = IF x # 0 /\ x <= Len(seq) THEN seq[x] ELSE 0
  PROVE  /\ ResultsOf(x, seq) \in Seq(Word)
         /\ Len(ResultsOf(x, seq)) = r
         /\ \A j \in 1 .. r : ResultsOf(x, seq)[j] = IF j = 1 THEN y ELSE seq[j - 1]
<1> DEFINE all == IF x <= Len(seq) THEN SubSeq(seq, 1, x) ELSE Append(seq, 0)
<1>1. Len(seq) \in Nat /\ seq \in [1 .. Len(seq) -> Word]
  BY LenProperties
<1>2. /\ all \in Seq(Word) /\ Len(all) = r
      /\ \A j \in 1 .. r - 1 : all[j] = seq[j]
      /\ r > 0 => all[r] = y
  <2>1. CASE x <= Len(seq)
    <3>1. \A j \in 1 .. x : seq[j] \in Word
      BY <1>1, <2>1
    <3>2. /\ SubSeq(seq, 1, x) \in Seq(Word)
          /\ Len(SubSeq(seq, 1, x)) = x
          /\ \A j \in 1 .. x : SubSeq(seq, 1, x)[j] = seq[j]
      BY <1>1, <2>1, <3>1, SubSeqProperties
    <3> QED
      BY <1>1, <2>1, <3>2
  <2>2. CASE ~(x <= Len(seq))
    BY <1>1, <2>2, Sizes, AppendProperties
  <2> QED
    BY <2>1, <2>2
<1> HIDE DEF all
<1>3. CASE r = 0
  <2>1. all = <<>>
    BY <1>2, <1>3, EmptySeq
  <2>2. ResultsOf(x, seq) = <<>>
    BY <2>1 DEF ResultsOf, all
  <2> QED
    BY <2>2, <1>3, EmptySeq
<1>4. CASE r > 0
  <2>1. all # <<>>
    BY <1>2, <1>4, EmptySeq
  <2>2. ResultsOf(x, seq) = <<all[r]>> \o SubSeq(all, 1, r - 1)
    BY <2>1, <1>2 DEF ResultsOf, all, Last, Front
  <2>3. all[r] \in Word
    BY <1>2, <1>4, ElementOfSeq
  <2>4. <<all[r]>> \in Seq(Word) /\ Len(<<all[r]>>) = 1 /\ <<all[r]>>[1] = all[r]
    BY <2>3
  <2>5. /\ SubSeq(all, 1, r - 1) \in Seq(Word)
        /\ Len(SubSeq(all, 1, r - 1)) = r - 1
        /\ \A j \in 1 .. r - 1 : SubSeq(all, 1, r - 1)[j] = all[j]
    <3>1. \A j \in 1 .. r - 1 : all[j] \in Word
      BY <1>2, ElementOfSeq
    <3> QED
      BY <1>4, <3>1, SubSeqProperties
  <2> DEFINE first == <<all[r]>>
             rest == SubSeq(all, 1, r - 1)
  <2> HIDE DEF first, rest
  <2>6. /\ first \o rest \in Seq(Word)
        /\ Len(first \o rest) = Len(first) + Len(rest)
        /\ \A j \in 1 .. Len(first) + Len(rest) :
             (first \o rest)[j] = IF j <= Len(first) THEN first[j] ELSE rest[j - Len(first)]
    BY <2>4, <2>5, ConcatProperties DEF first, rest
  <2>7. Len(first) = 1 /\ first[1] = y /\ Len(rest) = r - 1
    BY <1>2, <1>4, <2>4, <2>5 DEF first, rest
  <2>8. ASSUME NEW j \in 1 .. r PROVE (first \o rest)[j] = IF j = 1 THEN y ELSE seq[j - 1]
    <3>1. j \in 1 .. Len(first) + Len(rest)
      BY <2>7
    <3>2. CASE j = 1
      BY <2>6, <2>7, <3>1, <3>2
    <3>3. CASE j # 1
      <4>1. j - 1 \in 1 .. r - 1
        BY <3>3
      <4>2. rest[j - 1] = seq[j - 1]
        BY <4>1, <1>2, <2>5 DEF rest
      <4> QED
        BY <2>6, <2>7, <3>1, <3>3, <4>2
    <3> QED
      BY <3>2, <3>3
  <2>9. ResultsOf(x, seq) = first \o rest
    BY <2>2 DEF first, rest
  <2>10. Len(first \o rest) = r
    BY <1>4, <2>6, <2>7
  <2> QED
    BY <2>6, <2>8, <2>9, <2>10
<1> QED
  BY <1>3, <1>4

LEMMA TruncatedIs ==
  ASSUME NEW seq \in Seq(Word), NEW c \in Nat
  PROVE  /\ Stack!Truncated(seq, c) \in Seq(Word)
         /\ Len(Stack!Truncated(seq, c)) = Least(Len(seq), c)
         /\ \A i \in 1 .. Least(Len(seq), c) : Stack!Truncated(seq, c)[i] = seq[i]
<1>1. Len(seq) \in Nat /\ seq \in [1 .. Len(seq) -> Word]
  BY LenProperties
<1>2. CASE Len(seq) <= c
  BY <1>1, <1>2 DEF Stack!Truncated, Least
<1>3. CASE ~(Len(seq) <= c)
  <2>1. \A j \in 1 .. c : seq[j] \in Word
    BY <1>1, <1>3
  <2>2. /\ SubSeq(seq, 1, c) \in Seq(Word)
        /\ Len(SubSeq(seq, 1, c)) = c
        /\ \A j \in 1 .. c : SubSeq(seq, 1, c)[j] = seq[j]
    BY <1>1, <1>3, <2>1, SubSeqProperties
  <2> QED
    BY <1>1, <1>3, <2>2 DEF Stack!Truncated, Least
<1> QED
  BY <1>2, <1>3

LEMMA ShrinkRefines ==
  ASSUME NEW m \in Machines, NEW z \in Nat
  PROVE  LET n == [m EXCEPT !.L = Least(z, m.L)]
         IN /\ n \in Machines
            /\ InMemory(n) = InMemory(m)
            /\ SavedOf(n) = SavedOf(m)
            /\ LocalOf(n) = Stack!Truncated(LocalOf(m), z)
            /\ \A i \in 0 .. n.O + n.L - 1 : Octas(n)[i] = Octas(m)[i]
<1> DEFINE n == [m EXCEPT !.L = Least(z, m.L)]
<1>1. m.O \in Nat /\ m.L \in Nat /\ Least(z, m.L) \in Nat /\ Least(z, m.L) <= m.L
  BY DEF Machines, Least
<1>2. /\ n \in Machines /\ n.O = m.O /\ n.L = Least(z, m.L)
      /\ n.l = m.l /\ n.memory = m.memory
  BY <1>1 DEF Machines
<1> HIDE DEF n
<1>3. ASSUME NEW i \in 0 .. n.O + n.L - 1 PROVE Octas(n)[i] = Octas(m)[i]
  <2>1. i \in 0 .. m.O + m.L - 1
    BY <1>1, <1>2
  <2> QED
    BY <1>2, <2>1 DEF Octas
<1>4. SavedOf(n) = SavedOf(m)
  <2>1. ASSUME NEW i \in 0 .. m.O - 1 PROVE Octas(n)[i] = Octas(m)[i]
    <3>1. i \in 0 .. n.O + n.L - 1
      BY <1>1, <1>2
    <3> QED
      BY <1>3, <3>1
  <2> QED
    BY <1>2, <2>1, SavedOfSame
<1>5. LocalOf(n) = Stack!Truncated(LocalOf(m), z)
  <2>1. /\ LocalOf(m) \in Seq(Word) /\ Len(LocalOf(m)) = m.L
        /\ \A i \in 1 .. m.L : LocalOf(m)[i] = Octas(m)[m.O + (i - 1)]
    BY LocalType
  <2>2. /\ LocalOf(n) \in Seq(Word) /\ Len(LocalOf(n)) = n.L
        /\ \A i \in 1 .. n.L : LocalOf(n)[i] = Octas(n)[n.O + (i - 1)]
    BY <1>2, LocalType
  <2> DEFINE t == Stack!Truncated(LocalOf(m), z)
  <2>3. /\ t \in Seq(Word) /\ Len(t) = Least(m.L, z)
        /\ \A i \in 1 .. Least(m.L, z) : t[i] = LocalOf(m)[i]
    BY <2>1, TruncatedIs
  <2> HIDE DEF t
  <2>4. Least(m.L, z) = n.L
    BY <1>1, <1>2 DEF Least
  <2>5. ASSUME NEW i \in 1 .. n.L PROVE LocalOf(n)[i] = t[i]
    <3>1. n.O + (i - 1) \in 0 .. n.O + n.L - 1 /\ i \in 1 .. m.L
      BY <1>1, <1>2
    <3> QED
      BY <2>1, <2>2, <2>3, <2>4, <3>1, <1>2, <1>3
  <2>6. LocalOf(n) = t
    BY <2>2, <2>3, <2>4, <2>5, SameSeq
  <2> QED
    BY <2>6 DEF t
<1>6. InMemory(n) = InMemory(m)
  BY <1>2 DEF InMemory
<1> QED
  BY <1>2, <1>3, <1>4, <1>5, <1>6 DEF n

LEMMA ReturnRefines ==
  ASSUME NEW m \in Machines, NEW n \in Machines, m.O > 0,
         NEW k \in 0 .. m.O - 1, k = Octas(m)[m.O - 1],
         NEW x \in Nat, NEW limit \in Nat,
         NEW r \in Nat, r = IF x <= m.L THEN x ELSE m.L + 1,
         NEW y, y = IF x # 0 /\ x <= m.L THEN Octas(m)[m.O + (x - 1)] ELSE 0,
         n.O = m.O - (k + 1), n.L = Least(k + r, limit),
         \A i \in 0 .. n.O + n.L - 1 :
           Octas(n)[i] = IF i = m.O - 1 THEN y ELSE Octas(m)[i]
  PROVE  /\ SavedOf(m) # <<>>
         /\ SavedOf(n) = Front(SavedOf(m))
         /\ LocalOf(n) = Stack!Truncated(Last(SavedOf(m)) \o ResultsOf(x, LocalOf(m)), limit)
<1> DEFINE frame == FrameUnder(Octas(m), k, m.O)
           results == ResultsOf(x, LocalOf(m))
<1>1. /\ m.O \in Nat \ {0} /\ m.L \in Nat /\ n.O \in Nat /\ n.L \in Nat /\ k \in Nat
      /\ n.O = m.O - k - 1 /\ n.O + k = m.O - 1
      /\ n.L <= k + r /\ r <= m.L + 1
  <2>1. m.O \in Nat \ {0} /\ m.L \in Nat /\ n.O \in Nat /\ n.L \in Nat /\ k \in Nat
    BY DEF Machines
  <2>2. n.O = m.O - k - 1 /\ n.O + k = m.O - 1
    BY <2>1
  <2>3. n.L <= k + r
    BY <2>1 DEF Least
  <2>4. r <= m.L + 1
    BY <2>1
  <2> QED
    BY <2>1, <2>2, <2>3, <2>4
<1>2. SavedOf(m) = Append(SavedOf(n), frame)
  <2>1. Frames(Octas(m), m.O) = Append(Frames(Octas(m), m.O - k - 1), frame)
    BY <1>1, FramesStep
  <2>2. SameBelow(Octas(n), Octas(m), n.O)
    <3>1. ASSUME NEW i \in 0 .. n.O - 1 PROVE Octas(n)[i] = Octas(m)[i]
      <4>1. i \in 0 .. n.O + n.L - 1 /\ i # m.O - 1
        BY <1>1
      <4> QED
        BY <4>1
    <3> QED
      BY <3>1 DEF SameBelow
  <2>3. Frames(Octas(n), n.O) = Frames(Octas(m), n.O)
    BY <1>1, <2>2, FramesOfSame
  <2> QED
    BY <1>1, <2>1, <2>3 DEF SavedOf
<1>3. frame \in Seq(Word) /\ Len(frame) = k
      /\ \A i \in 1 .. k : frame[i] = Octas(m)[n.O + (i - 1)]
  <2>1. ASSUME NEW i \in 1 .. k
        PROVE  /\ m.O - k - 2 + i = n.O + (i - 1)
               /\ n.O + (i - 1) \in 0 .. m.O + m.L - 1
    BY <1>1
  <2>2. frame = [i \in 1 .. k |-> Octas(m)[n.O + (i - 1)]]
    BY <2>1 DEF FrameUnder
  <2>3. \A i \in 1 .. k : Octas(m)[n.O + (i - 1)] \in Word
    BY <2>1, OctasType
  <2>4. frame \in [1 .. k -> Word]
    BY <2>2, <2>3
  <2> HIDE DEF frame
  <2>5. frame \in Seq(Word)
    BY <1>1, <2>4, SeqDef
  <2>6. Len(frame) = k
    BY <1>1, <2>4, <2>5, LenProperties
  <2> QED
    BY <2>2, <2>5, <2>6
<1> HIDE DEF frame
<1>4. frame \in Frame /\ SavedOf(n) \in Seq(Frame)
  BY <1>3, SavedType DEF Frame
<1>5. /\ SavedOf(m) # <<>>
      /\ Front(SavedOf(m)) = SavedOf(n)
      /\ Last(SavedOf(m)) = frame
  <2> DEFINE sv == SavedOf(n)
  <2> HIDE DEF sv
  <2>1. sv \in Seq(Frame)
    BY <1>4 DEF sv
  <2>2. /\ Append(sv, frame) # <<>> /\ Len(Append(sv, frame)) = Len(sv) + 1
        /\ \A i \in 1 .. Len(sv) : Append(sv, frame)[i] = sv[i]
        /\ Append(sv, frame)[Len(sv) + 1] = frame
        /\ Append(sv, frame) \in Seq(Frame)
    BY <1>4, <2>1, AppendProperties
  <2>3. Last(Append(sv, frame)) = frame
    BY <2>2 DEF Last
  <2>4. Front(Append(sv, frame)) = sv
    <3>1. Len(sv) \in Nat /\ \A i \in 1 .. Len(sv) : Append(sv, frame)[i] \in Frame
      BY <2>1, <2>2, ElementOfSeq
    <3>2. /\ SubSeq(Append(sv, frame), 1, Len(sv)) \in Seq(Frame)
          /\ Len(SubSeq(Append(sv, frame), 1, Len(sv))) = Len(sv)
          /\ \A i \in 1 .. Len(sv) :
               SubSeq(Append(sv, frame), 1, Len(sv))[i] = Append(sv, frame)[i]
      BY <3>1, SubSeqProperties
    <3>3. SubSeq(Append(sv, frame), 1, Len(sv)) = sv
      BY <2>1, <2>2, <3>2, SeqEqual
    <3>4. Len(Append(sv, frame)) - 1 = Len(sv)
      BY <2>2, <3>1
    <3> QED
      BY <3>3, <3>4 DEF Front
  <2> QED
    BY <1>2, <2>2, <2>3, <2>4 DEF sv
<1>6. /\ LocalOf(m) \in Seq(Word) /\ Len(LocalOf(m)) = m.L
      /\ \A i \in 1 .. m.L : LocalOf(m)[i] = Octas(m)[m.O + (i - 1)]
  BY LocalType
<1>7. /\ results \in Seq(Word) /\ Len(results) = r
      /\ \A j \in 1 .. r : results[j] = IF j = 1 THEN y ELSE LocalOf(m)[j - 1]
  <2>1. r = IF x <= Len(LocalOf(m)) THEN x ELSE Len(LocalOf(m)) + 1
    BY <1>6
  <2>2. y = IF x # 0 /\ x <= Len(LocalOf(m)) THEN LocalOf(m)[x] ELSE 0
    BY <1>6
  <2> QED
    BY SMTT(30), <1>6, <2>1, <2>2, ResultsAre
<1> HIDE DEF results
<1>8. /\ frame \o results \in Seq(Word) /\ Len(frame \o results) = k + r
      /\ \A i \in 1 .. k + r :
           (frame \o results)[i] = IF i <= k THEN frame[i] ELSE results[i - k]
  <2>1. /\ frame \o results \in Seq(Word) /\ Len(frame \o results) = Len(frame) + Len(results)
        /\ \A i \in 1 .. Len(frame) + Len(results) :
             (frame \o results)[i] = IF i <= Len(frame) THEN frame[i] ELSE results[i - Len(frame)]
    BY ZenonT(30), <1>3, <1>7, ConcatProperties
  <2> QED
    BY <2>1, <1>3, <1>7
<1> DEFINE t == Stack!Truncated(frame \o results, limit)
<1>9. /\ t \in Seq(Word) /\ Len(t) = n.L
      /\ \A i \in 1 .. n.L : t[i] = (frame \o results)[i]
  <2> DEFINE whole == frame \o results
  <2> HIDE DEF whole
  <2>1. whole \in Seq(Word) /\ Len(whole) = k + r
    BY <1>8 DEF whole
  <2>2. /\ Stack!Truncated(whole, limit) \in Seq(Word)
        /\ Len(Stack!Truncated(whole, limit)) = Least(Len(whole), limit)
        /\ \A i \in 1 .. Least(Len(whole), limit) : Stack!Truncated(whole, limit)[i] = whole[i]
    BY ONLY <2>1, limit \in Nat, TruncatedIs
  <2> QED
    BY <2>1, <2>2 DEF whole
<1> HIDE DEF t
<1>10. /\ LocalOf(n) \in Seq(Word) /\ Len(LocalOf(n)) = n.L
       /\ \A i \in 1 .. n.L : LocalOf(n)[i] = Octas(n)[n.O + (i - 1)]
  BY LocalType
<1>11. ASSUME NEW i \in 1 .. n.L PROVE LocalOf(n)[i] = t[i]
  <2>1. n.O + (i - 1) \in 0 .. n.O + n.L - 1 /\ i \in 1 .. k + r
    BY <1>1
  <2>2. LocalOf(n)[i] = IF n.O + (i - 1) = m.O - 1 THEN y ELSE Octas(m)[n.O + (i - 1)]
    BY <2>1, <1>10
  <2>3. t[i] = IF i <= k THEN frame[i] ELSE results[i - k]
    <3>1. t[i] = (frame \o results)[i]
      BY <1>9
    <3>2. (frame \o results)[i] = IF i <= k THEN frame[i] ELSE results[i - k]
      BY <2>1, <1>8
    <3> QED
      BY <3>1, <3>2
  <2>4. CASE i <= k
    <3>1. n.O + (i - 1) # m.O - 1 /\ i \in 1 .. k
      BY <2>4, <1>1
    <3> QED
      BY <2>2, <2>3, <2>4, <3>1, <1>3
  <2>5. CASE i = k + 1
    <3>1. n.O + (i - 1) = m.O - 1 /\ i - k = 1 /\ ~(i <= k)
      BY <2>5, <1>1
    <3>2. r >= 1
      BY <2>5, <2>1, <1>1
    <3> QED
      BY SMTT(30), <2>2, <2>3, <3>1, <3>2, <1>7
  <2>6. CASE i > k + 1
    <3>1. /\ n.O + (i - 1) # m.O - 1 /\ ~(i <= k) /\ i - k \in 1 .. r /\ i - k # 1
          /\ i - k - 1 \in 1 .. m.L
          /\ n.O + (i - 1) = m.O + ((i - k - 1) - 1)
      BY <2>6, <2>1, <1>1
    <3>2. results[i - k] = LocalOf(m)[i - k - 1]
      BY <3>1, <1>7
    <3>3. LocalOf(m)[i - k - 1] = Octas(m)[n.O + (i - 1)]
      BY <3>1, <1>6
    <3> QED
      BY <2>2, <2>3, <3>1, <3>2, <3>3
  <2>7. i <= k \/ i = k + 1 \/ i > k + 1
    BY <1>1
  <2> QED
    BY <2>4, <2>5, <2>6, <2>7
<1>12. LocalOf(n) = t
  BY <1>9, <1>10, <1>11, SameSeq
<1> QED
  BY <1>5, <1>12 DEF t, results

(***************************************************************************)
(* The invariant and the refinement.                                       *)
(***************************************************************************)

WindowInv ==
  /\ RegisterTypeOK
  /\ RingHasRoom
  /\ HolesLead(Octas(Machine), O)

LEMMA InvGives ==
  ASSUME WindowInv
  PROVE  /\ Sound(Machine)
         /\ Machine.O = O /\ Machine.L = L /\ Machine.l = l /\ Machine.memory = memory
         /\ O \in Nat /\ L \in Nat /\ G \in Nat /\ L <= G /\ G < Ring /\ G < Registers
         /\ HolesLead(Octas(Machine), O)
<1>1. /\ l \in [0 .. Ring - 1 -> Word] /\ memory \in Seq(Word)
      /\ O \in Nat /\ L \in Nat /\ G \in Nat /\ L <= G /\ G < Ring /\ G < Registers
  BY Sizes DEF WindowInv, RegisterTypeOK, Word
<1>2. Machine.O = O /\ Machine.L = L /\ Machine.l = l /\ Machine.memory = memory
  BY DEF Machine
<1>3. Machine \in Machines
  BY <1>1 DEF Machine, Machines
<1>4. Sound(Machine)
  BY <1>2, <1>3 DEF WindowInv, RingHasRoom, Sound, InMemory
<1> QED
  BY <1>1, <1>2, <1>4 DEF WindowInv

DollarsOf(m, limit, globals) ==
  [n \in 1 .. m.L |->
     IF n - 1 >= limit THEN globals[n - 1]
     ELSE IF n - 1 < m.L THEN m.l[Slot(m.O + (n - 1))] ELSE 0]

\* In a sound machine, $0 .. $(L-1) are the octas of the window.
LEMMA DollarsAreOctas ==
  ASSUME NEW m, Sound(m), NEW limit \in Nat, m.L <= limit, NEW globals
  PROVE  LocalOf(m) = DollarsOf(m, limit, globals)
<1>1. m \in Machines /\ m.O \in Nat /\ m.L \in Nat /\ InMemory(m) \in Nat /\ InMemory(m) <= m.O
  BY OctasType DEF Sound, Machines
<1>2. ASSUME NEW n \in 1 .. m.L
      PROVE  Octas(m)[m.O + (n - 1)] =
               IF n - 1 >= limit THEN globals[n - 1]
               ELSE IF n - 1 < m.L THEN m.l[Slot(m.O + (n - 1))] ELSE 0
  <2>1. ~(n - 1 >= limit) /\ n - 1 < m.L
    BY <1>1
  <2>2. m.O + (n - 1) \in 0 .. m.O + m.L - 1 /\ m.O + (n - 1) >= InMemory(m)
    BY <1>1
  <2>3. Octas(m)[m.O + (n - 1)] = m.l[Slot(m.O + (n - 1))]
    BY <2>2, <1>1, OctasType
  <2> QED
    BY <2>1, <2>3
<1> QED
  BY <1>2 DEF LocalOf, DollarsOf

LEMMA StackNow ==
  ASSUME WindowInv
  PROVE  Saved = SavedOf(Machine) /\ Local = LocalOf(Machine)
<1>1. /\ Sound(Machine) /\ L <= G /\ G \in Nat
      /\ Machine.O = O /\ Machine.L = L /\ Machine.l = l
  BY InvGives
<1>2. Saved = SavedOf(Machine)
  BY <1>1 DEF Saved, SavedOf
<1>3. Local = LocalOf(Machine)
  <2>1. LocalOf(Machine) = DollarsOf(Machine, G, g)
    BY <1>1, DollarsAreOctas
  <2> QED
    BY <1>1, <2>1 DEF Local, Dollar, DollarsOf
<1> QED
  BY <1>2, <1>3

\* A step that leaves a sound machine with holes that lead home.
LEMMA StepGives ==
  ASSUME NEW n, Sound(n), HolesLead(Octas(n), n.O), n.O <= MaxO,
         l' = n.l, memory' = n.memory, O' = n.O, L' = n.L, n.L <= G',
         G' \in MinG .. Registers - 1, g' \in [0 .. Registers - 1 -> Value]
  PROVE  /\ WindowInv'
         /\ Saved' = SavedOf(n)
         /\ Local' = LocalOf(n)
<1>1. /\ n.l \in [0 .. Ring - 1 -> Word] /\ n.memory \in Seq(Word) /\ n.O \in Nat /\ n.L \in Nat
      /\ n \in Machines
  BY DEF Sound, Machines
<1>2. Machine' = n
  <2>1. Machine' = [l |-> n.l, memory |-> n.memory, O |-> n.O, L |-> n.L]
    BY DEF Machine
  <2> QED
    BY <1>1, <2>1 DEF Machines
<1>3. RegisterTypeOK'
  <2>1. O' \in 0 .. MaxO /\ L' \in 0 .. G'
    BY <1>1, Sizes
  <2> QED
    BY <1>1, <2>1 DEF RegisterTypeOK, Word
<1>4. RingHasRoom'
  BY DEF RingHasRoom, Sound, InMemory
<1>5. HolesLead(Octas(Machine), O)'
  <2>1. HolesLead(Octas(Machine'), O')
    BY <1>2
  <2> QED
    BY <2>1
<1>6. WindowInv'
  BY <1>3, <1>4, <1>5 DEF WindowInv
<1>7. Saved' = SavedOf(n)
  <2>1. Saved' = Frames(Octas(Machine'), O')
    BY DEF Saved
  <2> QED
    BY <1>2, <2>1 DEF SavedOf
<1>8. Local' = LocalOf(n)
  <2>1. G' \in Nat
    BY Sizes
  <2>2. LocalOf(n) = DollarsOf(n, G', g')
    BY <2>1, DollarsAreOctas
  <2> QED
    BY <2>2 DEF Local, Dollar, DollarsOf
<1> QED
  BY <1>6, <1>7, <1>8

\* Any instruction with a destination, the local ones being writes.
LEMMA SetXStep ==
  ASSUME WindowInv, NEW x \in 0 .. Registers - 1, NEW v \in Value, SetX(x, v)
  PROVE  /\ WindowInv'
         /\ Stack!Write(x, v) \/ UNCHANGED Stack!stackVars
<1>1. /\ Sound(Machine)
      /\ Machine.O = O /\ Machine.L = L /\ Machine.l = l /\ Machine.memory = memory
      /\ O \in Nat /\ L \in Nat /\ G \in Nat /\ L <= G /\ G < Ring /\ G < Registers
      /\ HolesLead(Octas(Machine), O)
      /\ O <= MaxO /\ G \in MinG .. Registers - 1 /\ g \in [0 .. Registers - 1 -> Value]
  BY InvGives DEF WindowInv, RegisterTypeOK
<1>2. Saved = SavedOf(Machine) /\ Local = LocalOf(Machine)
  BY StackNow
<1>3. G' = G
  BY DEF SetX
<1> DEFINE M == Machine
<1> HIDE DEF M
<1>4. CASE x >= G
  <2>1. UNCHANGED <<l, memory, O, L>> /\ g' = [g EXCEPT ![x] = v]
    BY <1>4 DEF SetX
  <2>2. g' \in [0 .. Registers - 1 -> Value]
    BY <1>1, <2>1
  <2>3. l' = M.l /\ memory' = M.memory /\ O' = M.O /\ L' = M.L
    BY <1>1, <2>1 DEF M
  <2>4. WindowInv' /\ Saved' = SavedOf(M) /\ Local' = LocalOf(M)
    <3>1. Sound(M) /\ HolesLead(Octas(M), M.O) /\ M.O <= MaxO /\ M.L <= G'
      BY <1>1, <1>3 DEF M
    <3> QED
      BY <1>1, <1>3, <2>2, <2>3, <3>1, StepGives
  <2> QED
    BY <1>2, <1>3, <2>4 DEF M, Stack!stackVars
<1>5. CASE x < G
  <2> DEFINE n == [Reach(x, M) EXCEPT !.l[Slot(M.O + x)] = v]
  <2>2. x \in Nat /\ x + 1 < Ring /\ v \in Word
    BY <1>1, <1>5, Sizes DEF Word
  <2>3. /\ Sound(n) /\ n = [Reach(x, M) EXCEPT !.l = n.l]
        /\ n.O = M.O /\ n.L = Greatest(M.L, x + 1)
        /\ Octas(n) = [Zeroed(M, n.L) EXCEPT ![M.O + x] = v]
    <3>1. ASSUME NEW m, Sound(m)
          PROVE  LET z == [Reach(x, m) EXCEPT !.l[Slot(m.O + x)] = v]
                 IN /\ Sound(z) /\ z = [Reach(x, m) EXCEPT !.l = z.l]
                    /\ z.O = m.O /\ z.L = Greatest(m.L, x + 1)
                    /\ Octas(z) = [Zeroed(m, z.L) EXCEPT ![m.O + x] = v]
      BY ONLY <2>2, <3>1, WritesRegister
    <3>2. Sound(M)
      BY <1>1 DEF M
    <3> QED
      BY ONLY <3>1, <3>2
  <2>4. /\ Reach(x, M).O = M.O
    BY <1>1, <2>2, ReachAddsZeroes DEF M
  <2>5. l' = n.l /\ memory' = n.memory /\ O' = n.O /\ L' = n.L /\ g' = g
    <3>1. Become([Reach(x, Machine) EXCEPT !.l[Slot(Reach(x, Machine).O + x)] = v]) /\ g' = g
      BY <1>1, <1>5 DEF SetX
    <3>2. Become(n)
      BY <2>4, <3>1 DEF M
    <3> HIDE DEF n
    <3> QED
      BY <3>1, <3>2 DEF Become
  <2> HIDE DEF n
  <2>6. M \in Machines /\ n \in Machines /\ M.O = O /\ M.L = L
    BY <1>1, <2>3 DEF M, Sound
  <2>7. /\ SavedOf(n) = SavedOf(M)
        /\ LocalOf(n) = [ExtendedTo(x + 1, LocalOf(M)) EXCEPT ![x + 1] = v]
    BY <2>2, <2>3, <2>6, WriteRefines
  <2>8. HolesLead(Octas(n), n.O)
    <3>1. ASSUME NEW i \in 0 .. O - 1 PROVE Octas(M)[i] = Octas(n)[i]
      <4>1. /\ i \in 0 .. M.O + n.L - 1 /\ i # M.O + x /\ i < M.O + M.L
            /\ n.L \in Nat
        BY <1>1, <2>2, <2>3, <2>6 DEF Greatest
      <4> QED
        BY <2>3, <4>1 DEF Zeroed
    <3>2. SameBelow(Octas(M), Octas(n), O)
      BY <3>1 DEF SameBelow
    <3>3. HolesLead(Octas(M), O)
      BY <1>1 DEF M
    <3> QED
      BY <1>1, <2>3, <2>6, <3>2, <3>3, HolesOfSame
  <2>9. WindowInv' /\ Saved' = SavedOf(n) /\ Local' = LocalOf(n)
    <3>1. n.O <= MaxO /\ n.L <= G'
      BY <1>1, <1>3, <1>5, <2>2, <2>3, <2>6 DEF Greatest
    <3> QED
      BY <1>1, <1>3, <2>3, <2>5, <2>8, <3>1, StepGives
  <2>10. Local' = [Stack!Extended(x + 1) EXCEPT ![x + 1] = v]
    BY <1>2, <2>7, <2>9 DEF M, ExtendedTo, Stack!Extended
  <2>11. Stack!Write(x, v)
    BY <1>2, <1>3, <1>5, <2>7, <2>9, <2>10 DEF M, Stack!Write
  <2> QED
    BY <2>9, <2>11
<1> QED
  BY <1>1, <1>4, <1>5

\* Extending by one register changes nothing below it, and there is nothing
\* above it.
LEMMA CallOfAll ==
  ASSUME NEW seq \in Seq(Word)
  PROVE  LET ext == ExtendedTo(Len(seq) + 1, seq)
         IN /\ SubSeq(ext, 1, Len(seq)) = SubSeq(seq, 1, Len(seq))
            /\ SubSeq(ext, Len(seq) + 2, Len(ext)) = SubSeq(seq, Len(seq) + 2, Len(seq))
<1> DEFINE ext == ExtendedTo(Len(seq) + 1, seq)
           len == Len(seq)
<1>1. len \in Nat
  OBVIOUS
<1>2. /\ ext \in Seq(Word) /\ Len(ext) = len + 1
      /\ \A i \in 1 .. len : ext[i] = seq[i]
  <2>1. len + 1 \in Int
    BY <1>1
  <2>2. /\ ext \in Seq(Word)
        /\ Len(ext) = Greatest(len, len + 1)
        /\ \A i \in 1 .. Greatest(len, len + 1) : ext[i] = IF i <= len THEN seq[i] ELSE 0
    BY <2>1, ExtendedIs
  <2>3. Greatest(len, len + 1) = len + 1
    BY <1>1 DEF Greatest
  <2> QED
    BY <1>1, <2>2, <2>3
<1> HIDE DEF ext
<1>3. ASSUME NEW a \in Seq(Word), NEW c \in Int, NEW d \in Int,
             \A i \in c .. d : i \in 1 .. Len(a)
      PROVE  /\ SubSeq(a, c, d) \in Seq(Word)
             /\ Len(SubSeq(a, c, d)) = IF c <= d THEN d - c + 1 ELSE 0
             /\ \A i \in 1 .. d - c + 1 : SubSeq(a, c, d)[i] = a[c + i - 1]
  <2>1. \A i \in c .. d : a[i] \in Word
    BY <1>3, ElementOfSeq
  <2> QED
    BY <1>3, <2>1, SubSeqProperties
<1>4. SubSeq(ext, 1, len) = SubSeq(seq, 1, len)
  <2>1. /\ SubSeq(ext, 1, len) \in Seq(Word)
        /\ Len(SubSeq(ext, 1, len)) = len
        /\ \A i \in 1 .. len : SubSeq(ext, 1, len)[i] = ext[i]
    BY <1>1, <1>2, <1>3
  <2>2. /\ SubSeq(seq, 1, len) \in Seq(Word)
        /\ Len(SubSeq(seq, 1, len)) = len
        /\ \A i \in 1 .. len : SubSeq(seq, 1, len)[i] = seq[i]
    BY <1>1, <1>3
  <2> QED
    BY <1>2, <2>1, <2>2, SameSeq
<1>5. SubSeq(ext, len + 2, Len(ext)) = SubSeq(seq, len + 2, len)
  <2>1. /\ SubSeq(ext, len + 2, Len(ext)) \in Seq(Word)
        /\ Len(SubSeq(ext, len + 2, Len(ext))) = 0
    BY <1>1, <1>2, <1>3
  <2>2. /\ SubSeq(seq, len + 2, len) \in Seq(Word)
        /\ Len(SubSeq(seq, len + 2, len)) = 0
    BY <1>1, <1>3
  <2> QED
    BY <2>1, <2>2, SameSeq
<1> QED
  BY <1>4, <1>5 DEF ext

\* PUSHJ and PUSHGO.
LEMMA PushStep ==
  ASSUME WindowInv, NEW x \in 0 .. Registers - 1, Push(x)
  PROVE  WindowInv' /\ Stack!Call(x)
<1>1. /\ Sound(Machine)
      /\ Machine.O = O /\ Machine.L = L /\ Machine.l = l /\ Machine.memory = memory
      /\ O \in Nat /\ L \in Nat /\ G \in Nat /\ L <= G /\ G < Ring /\ G < Registers
      /\ HolesLead(Octas(Machine), O)
      /\ O <= MaxO /\ G \in MinG .. Registers - 1 /\ g \in [0 .. Registers - 1 -> Value]
  BY InvGives DEF WindowInv, RegisterTypeOK
<1>2. Saved = SavedOf(Machine) /\ Local = LocalOf(Machine)
  BY StackNow
<1>3. G' = G /\ g' = g
  BY DEF Push
<1>4. x \in Nat /\ MaxO \in Nat
  BY Sizes
<1> DEFINE M == Machine
           r == IF x >= G THEN StoreIfFull([M EXCEPT !.L = @ + 1]) ELSE Reach(x, M)
           xx == IF x >= G THEN M.L ELSE x
           n == [r EXCEPT !.l[Slot(M.O + xx)] = xx,
                          !.L = @ - (xx + 1), !.O = @ + xx + 1]
           len == Greatest(M.L, xx + 1)
<1>5. O + xx + 1 <= MaxO /\ Become(n)
  BY <1>1 DEF Push
<1>6. /\ Sound(n)
      /\ n.O = M.O + xx + 1
      /\ n.L = len - (xx + 1)
      /\ Octas(n) = [Zeroed(M, len) EXCEPT ![M.O + xx] = xx]
  <2>1. ASSUME NEW m, Sound(m), NEW limit \in Nat, m.L <= limit, limit < Ring, limit <= Registers
        PROVE  LET rr == IF x >= limit THEN StoreIfFull([m EXCEPT !.L = @ + 1]) ELSE Reach(x, m)
                   xy == IF x >= limit THEN m.L ELSE x
                   z == [rr EXCEPT !.l[Slot(m.O + xy)] = xy,
                                   !.L = @ - (xy + 1), !.O = @ + xy + 1]
                   ln == Greatest(m.L, xy + 1)
               IN /\ Sound(z) /\ z.O = m.O + xy + 1 /\ z.L = ln - (xy + 1)
                  /\ Octas(z) = [Zeroed(m, ln) EXCEPT ![m.O + xy] = xy]
    BY ONLY ZenonT(30), <1>4, <2>1, PushesFrame
  <2>2. Sound(M) /\ M.L <= G /\ G < Ring /\ G <= Registers /\ G \in Nat
    BY <1>1, Sizes
  <2> QED
    BY ONLY <2>1, <2>2
<1> HIDE DEF M, n, r
<1>7. M \in Machines /\ n \in Machines /\ M.O = O /\ M.L = L /\ xx \in Nat /\ len \in Nat
      /\ xx < len /\ L <= len
  BY <1>1, <1>4, <1>6 DEF M, Sound, Greatest
<1>8. l' = n.l /\ memory' = n.memory /\ O' = n.O /\ L' = n.L
  BY <1>5 DEF Become
<1>9. /\ SavedOf(n) = Append(SavedOf(M), SubSeq(ExtendedTo(xx + 1, LocalOf(M)), 1, xx))
      /\ LocalOf(n) = SubSeq(ExtendedTo(xx + 1, LocalOf(M)), xx + 2,
                             Len(ExtendedTo(xx + 1, LocalOf(M))))
  <2> HIDE DEF xx, len
  <2>1. len = Greatest(M.L, xx + 1)
    BY DEF len
  <2> QED
    BY SMTT(30), <1>6, <1>7, <2>1, CallRefines
<1>10. HolesLead(Octas(n), n.O)
  <2>1. ASSUME NEW i \in 0 .. O - 1 PROVE Octas(M)[i] = Octas(n)[i]
    <3>1. /\ i \in 0 .. M.O + len - 1 /\ i # M.O + xx /\ i < M.O + M.L
      BY <1>1, <1>7
    <3> HIDE DEF len, xx
    <3> QED
      BY <1>6, <3>1 DEF Zeroed
  <2>2. SameBelow(Octas(M), Octas(n), O)
    BY <2>1 DEF SameBelow
  <2>3. HolesLead(Octas(M), O)
    BY <1>1 DEF M
  <2>4. Octas(n)[O + xx] = xx
    <3>1. O + xx \in 0 .. M.O + len - 1
      BY <1>1, <1>7
    <3> HIDE DEF len, xx
    <3> QED
      BY <1>6, <1>7, <3>1 DEF Zeroed
  <2>5. HolesLead(Octas(n), O + xx + 1)
    <3> HIDE DEF xx
    <3> QED
      BY <1>1, <1>7, <2>2, <2>3, <2>4, HoleAdded
  <2> QED
    BY <1>6, <1>7, <2>5
<1>11. WindowInv' /\ Saved' = SavedOf(n) /\ Local' = LocalOf(n)
  <2>1. n.O <= MaxO
    BY <1>5, <1>6, <1>7
  <2>2. n.L <= G'
    BY <1>1, <1>3, <1>4, <1>6, <1>7 DEF Greatest
  <2> QED
    BY <1>1, <1>3, <1>6, <1>8, <1>10, <2>1, <2>2, StepGives
<1>12. /\ LocalOf(M) \in Seq(Word) /\ Len(LocalOf(M)) = L
       /\ Saved = SavedOf(M) /\ Local = LocalOf(M)
  <2>1. Len(LocalOf(M)) = M.L
    BY <1>7, LocalType
  <2> QED
    BY <1>2, <1>7, <2>1, LocalType DEF M
<1>13. CASE x < G
  <2>1. xx = x
    BY <1>1, <1>4, <1>13
  <2>2. /\ Saved' = Append(Saved, SubSeq(Stack!Extended(x + 1), 1, x))
        /\ Local' = SubSeq(Stack!Extended(x + 1), x + 2, Len(Stack!Extended(x + 1)))
    BY <1>9, <1>11, <1>12, <2>1 DEF ExtendedTo, Stack!Extended
  <2> QED
    BY <1>3, <1>11, <1>13, <2>2 DEF Stack!Call
<1>14. CASE x >= G
  <2>1. xx = L /\ ~(x < G)
    BY <1>1, <1>4, <1>7, <1>14
  <2>2. /\ Saved' = Append(Saved, SubSeq(Local, 1, Len(Local)))
        /\ Local' = SubSeq(Local, Len(Local) + 2, Len(Local))
    BY <1>9, <1>11, <1>12, <2>1, CallOfAll
  <2> QED
    BY <1>3, <1>11, <2>1, <2>2 DEF Stack!Call
<1> QED
  BY <1>1, <1>4, <1>13, <1>14

\* POP: the hole tells where the caller's registers are.
LEMMA PopStep ==
  ASSUME WindowInv, NEW x \in 0 .. Registers - 1, Pop(x)
  PROVE  WindowInv' /\ Stack!Return(x)
<1>1. /\ Sound(Machine)
      /\ Machine.O = O /\ Machine.L = L /\ Machine.l = l /\ Machine.memory = memory
      /\ O \in Nat /\ L \in Nat /\ G \in Nat /\ L <= G /\ G < Ring /\ G < Registers
      /\ HolesLead(Octas(Machine), O)
      /\ O <= MaxO /\ G \in MinG .. Registers - 1 /\ g \in [0 .. Registers - 1 -> Value]
  BY InvGives DEF WindowInv, RegisterTypeOK
<1>2. Saved = SavedOf(Machine) /\ Local = LocalOf(Machine)
  BY StackNow
<1>3. G' = G /\ g' = g /\ O > 0
  BY DEF Pop
<1>4. x \in Nat /\ MaxO \in Nat
  BY Sizes
<1> DEFINE M == Machine
           y == IF x # 0 /\ x <= L THEN l[Slot(O + x - 1)] ELSE 0
           k == AtHole(M).l[Slot(M.O - 1)]
           r == IF x <= L THEN x ELSE L + 1
           newL == Least(k + r, G)
           n == Popped(M, k, newL, y)
<1>5. Become(n)
  BY <1>1 DEF Pop, AtHole, Back, Popped
<1> DEFINE h == Octas(M)[M.O - 1]
<1>6. h \in 0 .. M.O - 1 /\ HolesLead(Octas(M), M.O - h - 1)
  <2>1. HolesLead(Octas(M), M.O) /\ M.O \in Nat \ {0}
    BY <1>1, <1>3
  <2> HIDE DEF M
  <2> QED
    BY <2>1, HoleFound
<1> HIDE DEF M, h
<1>7. Sound(M) /\ M \in Machines /\ M.O = O /\ M.L = L /\ M.l = l /\ M.L < Ring /\ M.O > 0
  <2>1. Sound(M) /\ M.O = O /\ M.L = L /\ M.l = l /\ O > 0
    BY <1>1, <1>3 DEF M
  <2>2. M \in Machines
    BY <2>1 DEF Sound
  <2> QED
    BY <1>1, <2>1, <2>2, Sizes
<1>8. k = h
  <2>1. ASSUME NEW m, Sound(m), m.O > 0, m.L < Ring,
               NEW j \in 0 .. m.O - 1, j = Octas(m)[m.O - 1]
        PROVE  AtHole(m).l[Slot(m.O - 1)] = j
    BY ONLY <2>1, LoadsReachFrame DEF AtHole
  <2>2. h = Octas(M)[M.O - 1]
    BY DEF h
  <2> QED
    BY ONLY <1>6, <1>7, <2>1, <2>2
<1>9. y \in Word /\ y = IF x # 0 /\ x <= M.L THEN Octas(M)[M.O + (x - 1)] ELSE 0
  <2>1. CASE x # 0 /\ x <= L
    <3>1. /\ M.O + (x - 1) \in 0 .. M.O + M.L - 1 /\ M.O + (x - 1) >= InMemory(M)
          /\ O + x - 1 = M.O + (x - 1)
      <4>1. InMemory(M) \in Nat /\ InMemory(M) <= M.O
        BY <1>7, OctasType DEF Sound
      <4> QED
        BY <1>1, <1>4, <1>7, <2>1, <4>1
    <3>2. /\ Octas(M)[M.O + (x - 1)] \in Word
          /\ Octas(M)[M.O + (x - 1)] = M.l[Slot(M.O + (x - 1))]
      BY <1>7, <3>1, OctasType
    <3> QED
      BY <1>7, <2>1, <3>1, <3>2
  <2>2. CASE ~(x # 0 /\ x <= L)
    BY <1>7, <2>2, Sizes
  <2> QED
    BY <2>1, <2>2
<1>10. /\ r \in Nat /\ r <= L + 1 /\ newL \in Nat /\ newL <= G /\ newL < Ring
       /\ newL <= k + M.L + 1
  <2>1. k \in Nat
    BY <1>6, <1>7, <1>8
  <2>2. r \in Nat /\ r <= L + 1
    BY <1>1, <1>4
  <2>3. ASSUME NEW c \in Nat, c <= k + (L + 1)
        PROVE  Least(c, G) \in Nat /\ Least(c, G) <= G /\ Least(c, G) <= k + (L + 1)
    BY <1>1, <2>1, <2>3 DEF Least
  <2>4. k + r \in Nat /\ k + r <= k + (L + 1)
    BY <1>1, <2>1, <2>2
  <2>5. newL \in Nat /\ newL <= G /\ newL <= k + (L + 1)
    BY <2>3, <2>4
  <2> HIDE DEF k, r, newL
  <2> QED
    BY <1>1, <1>7, <2>1, <2>2, <2>5, Sizes
<1>11. /\ Sound(n)
       /\ n.O = M.O - (k + 1)
       /\ n.L = newL
       /\ \A i \in 0 .. n.O + newL - 1 :
            Octas(n)[i] = IF i = M.O - 1 THEN y ELSE Octas(M)[i]
  <2>1. ASSUME NEW m, Sound(m), m.O > 0, m.L < Ring,
               NEW j \in 0 .. m.O - 1, j = Octas(m)[m.O - 1],
               NEW len \in Nat, len < Ring, len <= j + m.L + 1, NEW w \in Word
        PROVE  LET z == Popped(m, j, len, w)
               IN /\ Sound(z) /\ z.O = m.O - (j + 1) /\ z.L = len
                  /\ \A i \in 0 .. z.O + len - 1 :
                       Octas(z)[i] = IF i = m.O - 1 THEN w ELSE Octas(m)[i]
    BY ONLY <2>1, PopsFrame
  <2>2. k \in 0 .. M.O - 1 /\ k = Octas(M)[M.O - 1]
    BY <1>6, <1>8 DEF h
  <2>3. newL \in Nat /\ newL < Ring /\ newL <= k + M.L + 1 /\ y \in Word
    BY <1>9, <1>10
  <2>4. Sound(M) /\ M.O > 0 /\ M.L < Ring
    BY <1>7
  <2> HIDE DEF k, newL, y
  <2> QED
    BY ONLY <2>1, <2>2, <2>3, <2>4
<1> HIDE DEF n
<1>12. l' = n.l /\ memory' = n.memory /\ O' = n.O /\ L' = n.L
  BY <1>5 DEF Become
<1> HIDE DEF k, newL, y, r
<1>13. HolesLead(Octas(n), n.O)
  <2>1. n.O = M.O - h - 1 /\ n.O \in Nat /\ n.O <= M.O - 1
    <3>1. n.O = M.O - (h + 1) /\ h \in 0 .. M.O - 1 /\ M.O \in Nat
      BY <1>1, <1>6, <1>7, <1>8, <1>11
    <3> QED
      BY <3>1
  <2>2. ASSUME NEW i \in 0 .. n.O - 1 PROVE Octas(M)[i] = Octas(n)[i]
    <3>1. i \in 0 .. n.O + newL - 1 /\ i # M.O - 1
      BY <1>7, <1>10, <2>1
    <3> QED
      BY <1>11, <3>1
  <2>3. SameBelow(Octas(M), Octas(n), n.O)
    BY <2>2 DEF SameBelow
  <2>4. HolesLead(Octas(M), n.O)
    BY <1>6, <2>1
  <2> QED
    BY <2>1, <2>3, <2>4, HolesOfSame
<1>14. /\ SavedOf(M) # <<>>
       /\ SavedOf(n) = Front(SavedOf(M))
       /\ LocalOf(n) = Stack!Truncated(Last(SavedOf(M)) \o ResultsOf(x, LocalOf(M)), G)
  <2>1. n \in Machines
    BY <1>11 DEF Sound
  <2>2. k \in 0 .. M.O - 1 /\ k = Octas(M)[M.O - 1]
    BY <1>6, <1>8 DEF h
  <2>3. n.L = Least(k + r, G)
    BY <1>11 DEF newL
  <2>4. r = IF x <= M.L THEN x ELSE M.L + 1
    BY <1>7 DEF r
  <2>5. \A i \in 0 .. n.O + n.L - 1 :
          Octas(n)[i] = IF i = M.O - 1 THEN y ELSE Octas(M)[i]
    BY <1>11
  <2>6. n.O = M.O - (k + 1) /\ M \in Machines /\ M.O > 0 /\ x \in Nat /\ G \in Nat
        /\ r \in Nat
    BY <1>1, <1>4, <1>7, <1>10, <1>11
  <2> QED
    BY ONLY SMTT(30), <1>9, <2>1, <2>2, <2>3, <2>4, <2>5, <2>6, ReturnRefines
<1>15. WindowInv' /\ Saved' = SavedOf(n) /\ Local' = LocalOf(n)
  <2>1. n.O <= MaxO
    BY <1>1, <1>4, <1>6, <1>7, <1>8, <1>11
  <2>2. n.L <= G'
    BY <1>3, <1>10, <1>11
  <2> QED
    BY <1>1, <1>3, <1>11, <1>12, <1>13, <2>1, <2>2, StepGives
<1>16. Saved = SavedOf(M) /\ Local = LocalOf(M)
  BY <1>2 DEF M
<1>17. /\ Saved # <<>> /\ Saved' = Front(Saved)
       /\ Local' = Stack!Truncated(Last(Saved) \o ResultsOf(x, Local), G)
  BY <1>14, <1>15, <1>16
<1> QED
  BY <1>3, <1>15, <1>17 DEF Stack!Return, ResultsOf, Stack!Last, Stack!Front, Last, Front

\* PUT rL.
LEMMA PutLStep ==
  ASSUME WindowInv, NEW z \in 0 .. Registers - 1, PutL(z)
  PROVE  WindowInv' /\ Stack!Shrink(z)
<1>1. /\ Sound(Machine)
      /\ Machine.O = O /\ Machine.L = L /\ Machine.l = l /\ Machine.memory = memory
      /\ O \in Nat /\ L \in Nat /\ G \in Nat /\ L <= G
      /\ HolesLead(Octas(Machine), O)
      /\ O <= MaxO /\ G \in MinG .. Registers - 1 /\ g \in [0 .. Registers - 1 -> Value]
  BY InvGives DEF WindowInv, RegisterTypeOK
<1>2. Saved = SavedOf(Machine) /\ Local = LocalOf(Machine)
  BY StackNow
<1>3. L' = Least(z, L) /\ l' = l /\ g' = g /\ memory' = memory /\ O' = O /\ G' = G
  BY DEF PutL
<1>4. z \in Nat
  BY Sizes
<1> DEFINE M == Machine
<1> HIDE DEF M
<1> DEFINE n == [M EXCEPT !.L = Least(z, M.L)]
<1>5. M \in Machines /\ M.O = O /\ M.L = L /\ M.l = l /\ M.memory = memory
      /\ InMemory(M) <= M.O /\ M.O + M.L - InMemory(M) < Ring /\ InMemory(M) \in Nat
  <2>1. M \in Machines
    BY <1>1 DEF M, Sound
  <2> QED
    BY <1>1, <2>1, OctasType DEF M, Sound
<1>6. /\ n \in Machines
      /\ InMemory(n) = InMemory(M)
      /\ SavedOf(n) = SavedOf(M)
      /\ LocalOf(n) = Stack!Truncated(LocalOf(M), z)
      /\ \A i \in 0 .. n.O + n.L - 1 : Octas(n)[i] = Octas(M)[i]
  BY <1>4, <1>5, ShrinkRefines
<1>7. n.l = l /\ n.memory = memory /\ n.O = O /\ n.L = Least(z, L)
  BY <1>5 DEF Machines
<1> HIDE DEF n
<1>8. n.L \in Nat /\ n.L <= L
  BY <1>1, <1>4, <1>7 DEF Least
<1>9. Sound(n)
  BY <1>1, <1>5, <1>6, <1>7, <1>8, Sizes DEF Sound
<1>10. HolesLead(Octas(n), n.O)
  <2>1. ASSUME NEW i \in 0 .. O - 1 PROVE Octas(M)[i] = Octas(n)[i]
    <3>1. i \in 0 .. n.O + n.L - 1
      BY <1>1, <1>7, <1>8
    <3> QED
      BY <1>6, <3>1
  <2>2. SameBelow(Octas(M), Octas(n), O)
    BY <2>1 DEF SameBelow
  <2> QED
    BY <1>1, <1>7, <2>2, HolesOfSame DEF M
<1>11. WindowInv' /\ Saved' = SavedOf(n) /\ Local' = LocalOf(n)
  <2>1. n.O <= MaxO /\ n.L <= G'
    BY <1>1, <1>3, <1>7, <1>8
  <2> QED
    BY <1>1, <1>3, <1>7, <1>9, <1>10, <2>1, StepGives
<1> QED
  BY <1>2, <1>3, <1>6, <1>11 DEF M, Stack!Shrink

\* PUT rG.
LEMMA PutGStep ==
  ASSUME WindowInv, NEW z \in MinG .. Registers - 1, PutG(z)
  PROVE  WindowInv' /\ Stack!SetLimit(z)
<1>1. /\ Sound(Machine)
      /\ Machine.O = O /\ Machine.L = L /\ Machine.l = l /\ Machine.memory = memory
      /\ O \in Nat /\ L \in Nat /\ G \in Nat /\ L <= G
      /\ HolesLead(Octas(Machine), O)
      /\ O <= MaxO /\ G \in MinG .. Registers - 1 /\ g \in [0 .. Registers - 1 -> Value]
  BY InvGives DEF WindowInv, RegisterTypeOK
<1>2. Saved = SavedOf(Machine) /\ Local = LocalOf(Machine)
  BY StackNow
<1>3. /\ z >= L /\ G' = z /\ l' = l /\ memory' = memory /\ O' = O /\ L' = L
      /\ g' = [x \in DOMAIN g |-> IF x \in z .. G - 1 THEN 0 ELSE g[x]]
  BY DEF PutG
<1>4. g' \in [0 .. Registers - 1 -> Value]
  BY <1>1, <1>3, Sizes
<1> DEFINE M == Machine
<1> HIDE DEF M
<1>5. /\ Sound(M) /\ HolesLead(Octas(M), M.O) /\ M.O <= MaxO /\ M.L <= G'
      /\ l' = M.l /\ memory' = M.memory /\ O' = M.O /\ L' = M.L
      /\ G' \in MinG .. Registers - 1
  BY <1>1, <1>3 DEF M
<1>6. WindowInv' /\ Saved' = SavedOf(M) /\ Local' = LocalOf(M)
  BY <1>4, <1>5, StepGives
<1>7. Len(Local) = L
  <2>1. M \in Machines /\ M.L = L
    BY <1>1, <1>5 DEF M, Sound
  <2> QED
    BY <1>2, <2>1, LocalType DEF M
<1> QED
  BY <1>2, <1>3, <1>6, <1>7 DEF M, Stack!SetLimit

\* What the initial UNSAVE leaves: no frame yet, and two registers.
LEMMA StartsEmpty ==
  ASSUME MachineInit
  PROVE  WindowInv /\ Stack!StackInit
<1>1. /\ l \in {f \in [0 .. Ring - 1 -> Value \cup {2}] :
                  {f[0], f[1]} \subseteq Value
                  /\ \A i \in 2 .. Ring - 1 : f[i] = IF i = 2 THEN 2 ELSE 0}
      /\ g = [x \in 0 .. Registers - 1 |-> 0]
      /\ memory = <<>> /\ O = 0 /\ L = 2 /\ G \in MinG .. Registers - 1
  BY DEF MachineInit
<1>2. 2 \in 0 .. Registers /\ G \in Nat /\ L <= G /\ L < Ring
  BY <1>1, Sizes
<1>3. l \in [0 .. Ring - 1 -> Word]
  BY <1>1, <1>2 DEF Word
<1>4. RegisterTypeOK
  <2>1. g \in [0 .. Registers - 1 -> Value]
    BY <1>1, Sizes
  <2>2. memory \in Seq(Word) /\ O \in 0 .. MaxO /\ L \in 0 .. G
    BY <1>1, <1>2, Sizes
  <2> QED
    BY <1>1, <1>3, <2>1, <2>2 DEF RegisterTypeOK, Word
<1>5. RingHasRoom
  BY <1>1, <1>2 DEF RingHasRoom
<1>6. HolesLead(Octas(Machine), O)
  <2>1. {0} \in SUBSET (0 .. 0) /\ 0 \in {0} /\ {0} \ {0} = {}
    OBVIOUS
  <2> QED
    BY <1>1, <2>1 DEF HolesLead
<1>7. WindowInv
  BY <1>4, <1>5, <1>6 DEF WindowInv
<1>8. Saved = <<>>
  <2>1. Frames(Octas(Machine), 0) = <<>>
    BY NoFrames
  <2> QED
    BY <1>1, <2>1 DEF Saved
<1>9. Local \in [1 .. 2 -> Value]
  <2>1. ASSUME NEW n \in 1 .. 2 PROVE Dollar(n - 1) \in Value
    <3>1. ~(n - 1 >= G) /\ n - 1 < L /\ O + (n - 1) = n - 1 /\ (n - 1 = 0 \/ n - 1 = 1)
      BY <1>1, <1>2, Sizes
    <3>2. Slot(0) = 0 /\ Slot(1) = 1
      BY <1>1, <1>2, Sizes DEF Slot
    <3>3. l[0] \in Value /\ l[1] \in Value
      BY <1>1
    <3>4. Dollar(n - 1) = l[Slot(n - 1)]
      BY <3>1 DEF Dollar
    <3> QED
      BY <3>1, <3>2, <3>3, <3>4
  <2> QED
    BY <1>1, <2>1 DEF Local
<1> QED
  BY <1>1, <1>7, <1>8, <1>9 DEF Stack!StackInit

\* Every instruction keeps the invariant and is a step of the register stack
\* or leaves it as it is: only a write to a global register does that.
LEMMA InstructionKeeps ==
  ASSUME WindowInv, [Instruction]_machineVars
  PROVE  WindowInv' /\ [Stack!StackNext]_(Stack!stackVars)
<1>1. ASSUME NEW x \in 0 .. Registers - 1, NEW v \in Value, SetX(x, v)
      PROVE  WindowInv' /\ [Stack!StackNext]_(Stack!stackVars)
  <2>1. WindowInv' /\ (Stack!Write(x, v) \/ UNCHANGED Stack!stackVars)
    BY <1>1, SetXStep
  <2> QED
    BY <2>1 DEF Stack!StackNext
<1>2. ASSUME NEW x \in 0 .. Registers - 1, Push(x)
      PROVE  WindowInv' /\ [Stack!StackNext]_(Stack!stackVars)
  <2>1. WindowInv' /\ Stack!Call(x)
    BY <1>2, PushStep
  <2> QED
    BY <2>1 DEF Stack!StackNext
<1>3. ASSUME NEW x \in 0 .. Registers - 1, Pop(x)
      PROVE  WindowInv' /\ [Stack!StackNext]_(Stack!stackVars)
  <2>1. WindowInv' /\ Stack!Return(x)
    BY <1>3, PopStep
  <2> QED
    BY <2>1 DEF Stack!StackNext
<1>4. ASSUME NEW x \in 0 .. Registers - 1, PutL(x)
      PROVE  WindowInv' /\ [Stack!StackNext]_(Stack!stackVars)
  <2>1. WindowInv' /\ Stack!Shrink(x)
    BY <1>4, PutLStep
  <2> QED
    BY <2>1 DEF Stack!StackNext
<1>5. ASSUME NEW z \in MinG .. Registers - 1, PutG(z)
      PROVE  WindowInv' /\ [Stack!StackNext]_(Stack!stackVars)
  <2>1. WindowInv' /\ Stack!SetLimit(z)
    BY <1>5, PutGStep
  <2> QED
    BY <2>1 DEF Stack!StackNext
<1>6. CASE UNCHANGED machineVars
  <2>1. l' = l /\ g' = g /\ memory' = memory /\ O' = O /\ L' = L /\ G' = G
    BY <1>6 DEF machineVars
  <2>2. Machine' = Machine
    BY <2>1 DEF Machine
  <2>3. RegisterTypeOK' /\ RingHasRoom'
    BY <2>1 DEF WindowInv, RegisterTypeOK, RingHasRoom
  <2>4. HolesLead(Octas(Machine), O)'
    <3>1. HolesLead(Octas(Machine'), O')
      BY <2>1, <2>2 DEF WindowInv
    <3> QED
      BY <3>1
  <2>5. WindowInv'
    BY <2>3, <2>4 DEF WindowInv
  <2>6. Saved' = Saved
    <3>1. Saved' = Frames(Octas(Machine'), O')
      BY DEF Saved
    <3> QED
      BY <2>1, <2>2, <3>1 DEF Saved
  <2>7. Local' = Local
    BY <2>1 DEF Local, Dollar
  <2> QED
    BY <2>1, <2>5, <2>6, <2>7 DEF Stack!stackVars
<1> QED
  BY <1>1, <1>2, <1>3, <1>4, <1>5, <1>6 DEF Instruction

(***************************************************************************)
(* The theorems.                                                           *)
(***************************************************************************)

\* Every execution of every program keeps the types, the room in the ring and
\* the trail of holes, for every size of the ring and of the register file.
THEOREM WindowStaysSound == MachineSpec => []WindowInv
<1>1. MachineInit => WindowInv
  BY StartsEmpty
<1>2. WindowInv /\ [Instruction]_machineVars => WindowInv'
  BY InstructionKeeps
<1> QED
  BY <1>1, <1>2, PTL DEF MachineSpec

\* The state of the machine is well typed: rL never passes rG.
THEOREM RegistersAreTyped == MachineSpec => []RegisterTypeOK
<1>1. WindowInv => RegisterTypeOK
  BY DEF WindowInv
<1> QED
  BY <1>1, WindowStaysSound, PTL

\* The ring never runs over and never holds less than the current routine:
\* one place of it is free between any two instructions.
THEOREM RingAlwaysHasRoom == MachineSpec => []RingHasRoom
<1>1. WindowInv => RingHasRoom
  BY DEF WindowInv
<1> QED
  BY <1>1, WindowStaysSound, PTL

\* The ring, the memory and the holes implement the register stack: whatever
\* spills and comes back, a routine finds its own registers as it left them.
THEOREM StackIsKept == MachineSpec => KeepsTheStack
<1>1. MachineInit => Stack!StackInit
  BY StartsEmpty
<1>2. WindowInv /\ [Instruction]_machineVars => [Stack!StackNext]_(Stack!stackVars)
  BY InstructionKeeps
<1> QED
  BY <1>1, <1>2, WindowStaysSound, PTL DEF MachineSpec, KeepsTheStack, Stack!StackSpec

=============================================================================
