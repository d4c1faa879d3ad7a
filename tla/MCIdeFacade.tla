----------------------------- MODULE MCIdeFacade -----------------------------
(* Small instances of IdeFacade for TLC.                                   *)
EXTENDS IdeFacade, TLC

CONSTANTS short, long, endless, flood, wordy, hungry, bad, bad2, huge

\* Batches until each program halts.
AdverseLength == flood :> 2 @@ hungry :> 2

\* The first of two batches prints too much.
AdverseFlooding == {<<"out", flood, 1>>}

HonestPrograms == {short, long, endless, flood, wordy}
HonestLength ==
  [p \in HonestPrograms |-> CASE p = short -> 1 [] p = long -> 3 [] p = endless -> Forever
                              [] p = flood -> 2 [] p = wordy -> 1]

\* One stream of one batch, and both streams of the last.
HonestFlooding == {<<"out", flood, 1>>, <<"err", long, 2>>, <<"out", long, 3>>, <<"err", long, 3>>}
=============================================================================
