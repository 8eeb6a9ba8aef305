---------------------------- MODULE MCCommandBus ----------------------------
EXTENDS CommandBus, TLC

CONSTANTS r1, r2, r3, c1, c2, f1, f2, e1, e2

\* Twins: every run submits the same command.
TwinsCommand == [r \in Runs |-> c1]
TwinsPrint   == [r \in Runs |-> f1]
TwinsEffect  == [r \in Runs |-> e1]

\* Rivals: r3 submits a second command that names the same effect.
RivalsCommand == [r \in Runs |-> IF r = r3 THEN c2 ELSE c1]
RivalsPrint   == [r \in Runs |-> f1]
RivalsEffect  == [r \in Runs |-> e1]

\* Clash: r3 reuses the command id with another content.
ClashCommand == [r \in Runs |-> c1]
ClashPrint   == [r \in Runs |-> IF r = r3 THEN f2 ELSE f1]
ClashEffect  == [r \in Runs |-> IF r = r3 THEN e2 ELSE e1]

Swap == Permutations({r1, r2})
=============================================================================
