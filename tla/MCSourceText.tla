---------------------------- MODULE MCSourceText -----------------------------
(* A small instance of SourceText for TLC.                                 *)
EXTENDS SourceText

\* An empty source, a label with an operation, and a line with an open string.
MCInitial ==
  { <<>>,
    <<"name", "space", "digit", "opcode">>,
    <<"directive", "space", "quote", "newline">> }
=============================================================================
