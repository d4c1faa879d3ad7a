----------------------------- MODULE MCSimulator -----------------------------
(* A small instance of MMIXSimulator for TLC.                              *)
EXTENDS MMIXSimulator, TLC

CONSTANTS short, long, endless, bad

\* Batches until each program halts.
MCLength == short :> 1 @@ long :> 3 @@ endless :> Forever
=============================================================================
