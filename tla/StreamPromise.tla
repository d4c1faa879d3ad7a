---------------------------- MODULE StreamPromise ----------------------------
(***************************************************************************)
(* What redirecting a standard stream promises (wasm/src/io_utils.h): what *)
(* is printed between redirect and restore is delivered as a text, whole   *)
(* and in order, or not at all, and otherwise the stream is the console.   *)
(* The promise ends when the files of the redirection are tampered with.   *)
(***************************************************************************)
EXTENDS Naturals, Sequences

CONSTANTS
  Lost,        \* the text of a call that could not redirect or restore
  BufferLines  \* what a text may have

VARIABLES
  captured,  \* the stream is redirected
  printed,   \* what has been printed since
  text,      \* what the last call delivered
  disturbed  \* somebody else has opened the files that capture the stream

promiseVars == <<captured, printed, text, disturbed>>

PromiseInit == ~captured /\ printed = <<>> /\ text = Lost /\ ~disturbed

Begin == ~captured /\ captured' /\ printed' = <<>> /\ UNCHANGED text

\* printed' begins with printed.
Emit ==
  /\ captured
  /\ Len(printed') >= Len(printed)
  /\ SubSeq(printed', 1, Len(printed)) = printed
  /\ UNCHANGED captured

\* A text that does not fit its buffer is dropped.
Deliver ==
  /\ captured /\ ~captured'
  /\ printed' = <<>>
  /\ text' = IF Len(printed) <= BufferLines THEN printed ELSE <<>>

Lose == text' = Lost /\ UNCHANGED <<captured, printed>>

Kept == Begin \/ (Emit /\ text' \in {text, Lost}) \/ Deliver \/ Lose

PromiseNext == (Kept /\ UNCHANGED disturbed) \/ disturbed'

Promise == PromiseInit /\ [][PromiseNext]_promiseVars
=============================================================================
