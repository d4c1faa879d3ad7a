--------------------------- MODULE RegisterStack ---------------------------
(***************************************************************************)
(* What the register stack of MMIX promises to a program: every routine    *)
(* has local registers $0, $1, ... of its own, a call keeps the registers  *)
(* below its operand, and a return gives them back with the results after  *)
(* them.  Where a register is kept, in the ring of local registers or in   *)
(* memory, is not the program's concern.                                   *)
(***************************************************************************)
EXTENDS Integers, Sequences, SequencesExt

CONSTANTS
  Value,     \* what a register holds
  MinG,      \* the least legal rG, 32 in MMIX
  Registers  \* the number of register names, 256 in MMIX

VARIABLES
  saved,  \* the registers of the callers, the innermost last
  local,  \* the registers of the current routine
  limit   \* rG, the first register that is global

stackVars == <<saved, local, limit>>

StackInit ==
  /\ saved = <<>>
  /\ local \in [1 .. 2 -> Value]
  /\ limit \in MinG .. Registers - 1

\* A register beyond the local ones is zero as soon as one writes behind it.
Extended(n) == local \o [i \in 1 .. n - Len(local) |-> 0]

Truncated(seq, n) == IF Len(seq) <= n THEN seq ELSE SubSeq(seq, 1, n)

Write(x, v) ==
  /\ x < limit
  /\ local' = [Extended(x + 1) EXCEPT ![x + 1] = v]
  /\ UNCHANGED <<saved, limit>>

\* A call keeps $0 .. $(x-1) for the caller and renames what is above $x.
Call(x) ==
  /\ LET all == IF x < limit THEN Extended(x + 1) ELSE local
         kept == IF x < limit THEN x ELSE Len(local)
     IN /\ saved' = Append(saved, SubSeq(all, 1, kept))
        /\ local' = SubSeq(all, kept + 2, Len(all))
  /\ UNCHANGED limit

\* A return of x results puts the last of them, the main one, where the
\* call left its hole, and the others after it.
Return(x) ==
  /\ saved # <<>>
  /\ LET all == IF x <= Len(local) THEN SubSeq(local, 1, x) ELSE Append(local, 0)
         results == IF all = <<>> THEN <<>> ELSE <<Last(all)>> \o Front(all)
     IN local' = Truncated(Last(saved) \o results, limit)
  /\ saved' = Front(saved)
  /\ UNCHANGED limit

Shrink(z) ==
  /\ local' = Truncated(local, z)
  /\ UNCHANGED <<saved, limit>>

SetLimit(z) ==
  /\ z >= Len(local)
  /\ limit' = z
  /\ UNCHANGED <<saved, local>>

StackNext ==
  \/ \E x \in 0 .. Registers - 1, v \in Value : Write(x, v)
  \/ \E x \in 0 .. Registers - 1 : Call(x) \/ Return(x) \/ Shrink(x)
  \/ \E z \in MinG .. Registers - 1 : SetLimit(z)

StackSpec == StackInit /\ [][StackNext]_stackVars
=============================================================================
