--------------------------- MODULE RegisterWindow ---------------------------
(***************************************************************************)
(* The registers that the page shows: get_general_register_data of         *)
(* wasm/src/simulator.c over the register file of the MMIX machine, the    *)
(* ring of local registers of vendor/mmixware/mmix-sim.w (mmixlib is built *)
(* from it).  One action per kind of instruction that moves or writes the  *)
(* window; a program is any sequence of them in which every return has     *)
(* its call.  rO/8 and rS/8 are O and Len(memory): the memory of the       *)
(* register stack is kept as the sequence of octas below rS, the only ones *)
(* the machine reads back.  SAVE and UNSAVE are left out.                  *)
(***************************************************************************)
EXTENDS Integers, Sequences, SequencesExt

CONSTANTS
  Value,      \* what a register holds
  MinG,       \* the least legal rG, 32 in MMIX
  Registers,  \* GENERAL_REGISTER_COUNT
  Ring,       \* lring_size
  MaxO        \* a bound on the depth of the register stack

ASSUME RegistersAssumption ==
  /\ Registers \in Nat
  /\ MinG \in 2 .. Registers - 1
  /\ MaxO \in Nat
  /\ 0 \in Value

ASSUME RingAssumption ==
  /\ Ring \in Nat
  /\ Ring >= Registers
  /\ \E n \in 0 .. Ring : Ring = 2 ^ n

VARIABLES
  l,       \* the ring of local registers; x & lring_mask is x % Ring
  g,       \* the global registers
  memory,  \* the octas of the register stack that are in memory
  O, L, G

machineVars == <<l, g, memory, O, L, G>>

(* The ring *)

Machine == [l |-> l, memory |-> memory, O |-> O, L |-> L]

Become(m) == l' = m.l /\ memory' = m.memory /\ O' = m.O /\ L' = m.L

Slot(i) == i % Ring

stack_store(m) ==
  [m EXCEPT !.memory = Append(@, m.l[Slot(Len(m.memory))])]

stack_load(m) ==
  [m EXCEPT !.l[Slot(Len(m.memory) - 1)] = Last(m.memory), !.memory = Front(@)]

\* Mutant: the ring is taken to be full only when it has run over.
StoreWhenOver(m) ==
  IF m.O + m.L - Len(m.memory) > Ring THEN stack_store(m) ELSE m

StoreIfFull(m) ==
  IF (Len(m.memory) - m.O - m.L) % Ring = 0 THEN stack_store(m) ELSE m

IncreaseL(m) ==
  StoreIfFull([m EXCEPT !.l[Slot(m.O + m.L)] = 0, !.L = @ + 1])

Repeat(Step(_), n, m) ==
  LET after[i \in 0 .. n] == IF i = 0 THEN m ELSE Step(after[i - 1])
  IN IF n > 0 THEN after[n] ELSE m

Least(a, b) == IF a <= b THEN a ELSE b

Reach(x, m) == Repeat(IncreaseL, x + 1 - m.L, m)

(* The instructions *)

\* The initial UNSAVE leaves argc in $0, the address of argv in $1, O = S = 0,
\* and behind them the 2 that told it how many registers to load.
MachineInit ==
  /\ l \in {f \in [0 .. Ring - 1 -> Value \cup {2}] :
            {f[0], f[1]} \subseteq Value
            /\ \A i \in 2 .. Ring - 1 : f[i] = IF i = 2 THEN 2 ELSE 0}
  /\ g = [x \in 0 .. Registers - 1 |-> 0]
  /\ memory = <<>>
  /\ O = 0
  /\ L = 2
  /\ G \in MinG .. Registers - 1

\* Any instruction with the destination $x.
SetX(x, v) ==
  /\ IF x >= G
     THEN g' = [g EXCEPT ![x] = v] /\ UNCHANGED <<l, memory, O, L>>
     ELSE LET m == Reach(x, Machine)
          IN Become([m EXCEPT !.l[Slot(m.O + x)] = v]) /\ UNCHANGED g
  /\ UNCHANGED G

\* PUSHJ, PUSHGO: the hole records the amount pushed.
Push(x) ==
  LET m == IF x >= G THEN StoreIfFull([Machine EXCEPT !.L = @ + 1])
                     ELSE Reach(x, Machine)
      xx == IF x >= G THEN L ELSE x
  IN /\ O + xx + 1 <= MaxO
     /\ Become([m EXCEPT !.l[Slot(O + xx)] = xx,
                         !.L = @ - (xx + 1), !.O = @ + xx + 1])
     /\ UNCHANGED <<g, G>>

\* Mutant: the main result is read after the caller's registers are back.
PopReadingLate(x) ==
  LET atHole == IF Len(memory) = O THEN stack_load(Machine) ELSE Machine
      k == atHole.l[Slot(O - 1)]
      back == Repeat(stack_load, Len(atHole.memory) - (O - k - 1), atHole)
      y == IF x # 0 /\ x <= L THEN back.l[Slot(O + x - 1)] ELSE 0
      newL == Least(k + (IF x <= L THEN x ELSE L + 1), G)
  IN /\ O > 0
     /\ Become([back EXCEPT !.l[Slot(O - 1)] = IF newL > k THEN y ELSE @,
                            !.L = newL, !.O = @ - (k + 1)])
     /\ UNCHANGED <<g, G>>

Pop(x) ==
  LET y == IF x # 0 /\ x <= L THEN l[Slot(O + x - 1)] ELSE 0
      atHole == IF Len(memory) = O THEN stack_load(Machine) ELSE Machine
      k == atHole.l[Slot(O - 1)]
      back == Repeat(stack_load, Len(atHole.memory) - (O - k - 1), atHole)
      newL == Least(k + (IF x <= L THEN x ELSE L + 1), G)
  IN /\ O > 0
     /\ Become([back EXCEPT !.l[Slot(O - 1)] = IF newL > k THEN y ELSE @,
                            !.L = newL, !.O = @ - (k + 1)])
     /\ UNCHANGED <<g, G>>

PutL(z) ==
  /\ L' = Least(z, L)
  /\ UNCHANGED <<l, g, memory, O, G>>

\* PUT rG with another value is an illegal instruction, which halts.
PutG(z) ==
  /\ z >= L
  /\ G' = z
  /\ g' = [x \in DOMAIN g |-> IF x \in z .. G - 1 THEN 0 ELSE g[x]]
  /\ UNCHANGED <<l, memory, O, L>>

Instruction ==
  \/ \E x \in 0 .. Registers - 1, v \in Value : SetX(x, v)
  \/ \E x \in 0 .. Registers - 1 : Push(x) \/ Pop(x) \/ PutL(x)
  \/ \E z \in MinG .. Registers - 1 : PutG(z)

MachineSpec == MachineInit /\ [][Instruction]_machineVars

(* What a program sees in $k, and what the page shows *)

Dollar(k) == IF k >= G THEN g[k] ELSE IF k < L THEN l[Slot(O + k)] ELSE 0

get_general_register_data(k) ==
  IF k >= G THEN g[k] ELSE IF k < L THEN l[Slot(0 + k)] ELSE 0

(* The register stack that the ring and the memory hold together *)

Octas(m) ==
  [i \in 0 .. m.O + m.L - 1 |->
     IF i < Len(m.memory) THEN m.memory[i + 1] ELSE m.l[Slot(i)]]

\* The frames below the hole at top - 1, found by following the holes down.
Frames(octas, top) ==
  LET frames[i \in 0 .. top] ==
        LET k == octas[i - 1]
        IN IF i = 0 THEN <<>>
           ELSE IF k \notin 0 .. i - 1 THEN <<"no frame">>
           ELSE Append(frames[i - k - 1],
                       [n \in 1 .. k |-> octas[i - k - 2 + n]])
  IN frames[top]

Saved == Frames(Octas(Machine), O)

Local == [n \in 1 .. L |-> Dollar(n - 1)]

Stack == INSTANCE RegisterStack WITH saved <- Saved, local <- Local, limit <- G

(* Properties *)

RegisterTypeOK ==
  /\ l \in [0 .. Ring - 1 -> Value \cup 0 .. Registers]
  /\ g \in [0 .. Registers - 1 -> Value]
  /\ memory \in Seq(Value \cup 0 .. Registers)
  /\ O \in 0 .. MaxO
  /\ G \in MinG .. Registers - 1
  /\ L \in 0 .. G

\* The ring never runs over: the registers of the current routine and of the
\* callers that are not in memory yet always leave one place free in it, the
\* one that the next increase of rL clears, and nothing of the current
\* routine is in memory only.  Broken by a stack_store that is one too late.
RingHasRoom == Len(memory) <= O /\ O + L - Len(memory) < Ring

\* The machine implements the register stack: however calls, returns and
\* writes make the window turn in the ring, spill into memory and come back,
\* no routine ever loses a register of its own or sees one of another.
KeepsTheStack == Stack!StackSpec

\* simulator.h: get_general_register_data gets the data "from a general
\* register", so the panel shows what the program has in $k.
ShowsTheProgramsRegisters ==
  \A k \in 0 .. Registers - 1 : get_general_register_data(k) = Dollar(k)
=============================================================================
