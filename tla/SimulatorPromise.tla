-------------------------- MODULE SimulatorPromise --------------------------
(***************************************************************************)
(* What the interface ISimulator promises, with no machine, no files and   *)
(* no clock: a program that has been assembled may be run, and a run shows *)
(* either all that is delivered of its output or that it took too long.    *)
(***************************************************************************)
CONSTANTS
  Program,     \* sources that assemble
  Faulty,      \* sources that do not
  Terminating, \* the programs that halt
  Nothing,     \* no program is ready to run
  Delivers,    \* [Terminating -> all that is delivered of its output]
  Complaint,   \* [Faulty -> what the assembler says about the source]
  TooSlow,     \* the report that a run has been cut off
  Blank        \* the empty output

VARIABLES
  ready,    \* the program that Run would run, or Nothing
  running,  \* a run is under way
  shown     \* what getStdOut() returns

vars == <<ready, running, shown>>

Init == ready = Nothing /\ ~running /\ shown = Blank

Accept(p) == ~running /\ ready' = p /\ UNCHANGED <<running, shown>>

Reject(s) == ~running /\ ready' = Nothing /\ shown' = Complaint[s] /\ UNCHANGED running

Start == ~running /\ ready # Nothing /\ running' = TRUE /\ UNCHANGED <<ready, shown>>

Finish ==
  /\ running
  /\ ready \in Terminating /\ shown' = Delivers[ready]
  /\ running' = FALSE
  /\ UNCHANGED ready

CutOff ==
  /\ running
  /\ shown' = TooSlow
  /\ running' = FALSE
  /\ UNCHANGED ready

Next ==
  \/ \E p \in Program : Accept(p)
  \/ \E s \in Faulty : Reject(s)
  \/ Start
  \/ Finish
  \/ CutOff

\* Every run comes to an end.
Spec == Init /\ [][Next]_vars /\ WF_vars(Finish \/ CutOff)
=============================================================================
