----------------------------- MODULE MCAccounts ------------------------------
(* Small instances of Accounts for TLC.                                    *)
EXTENDS Accounts, TLC

CONSTANTS ann, bob, b1, b2, p1, p2, chosen

\* Browsers and rows are interchangeable.
Symmetry == Permutations(Browser) \cup Permutations(Program)
=============================================================================
