-------------------------- MODULE MCRegisterWindow --------------------------
(***************************************************************************)
(* A ring of four registers of which two or three are local.               *)
(***************************************************************************)
EXTENDS RegisterWindow

MCValue == {0, 1}
=============================================================================
