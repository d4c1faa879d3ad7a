-------------------------- MODULE MCStreamRedirect --------------------------
EXTENDS StreamRedirect

\* A program prints a line, or more than a buffer holds.
MCPrints == {<<"printed">>, <<"printed", "printed">>}

\* A program reads a text file, or reads and writes a binary one.
MCOpens == {<<"r", FALSE>>, <<"w+", TRUE>>}
=============================================================================
