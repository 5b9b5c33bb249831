---------------------------- MODULE MCTurnCycle -----------------------------
\* Instances of TurnCycle for TLC.
EXTENDS TurnCycle

Setting(timeout, fixedlength, turnblock, autotoggle, tex, phases) ==
    [timeout |-> timeout, fixedlength |-> fixedlength, turnblock |-> turnblock,
     autotoggle |-> autotoggle, tex |-> tex, phases |-> phases]

\* Turns with and without a time limit, of a fixed length, with phases, and
\* waiting for players who are away; one player of the tex AI, or two.
MCSettings ==
    {Setting(TRUE, FALSE, FALSE, TRUE, {2}, <<Players>>),
     Setting(TRUE, TRUE, FALSE, FALSE, {2}, <<Players>>),
     Setting(FALSE, FALSE, TRUE, FALSE, {2}, <<{1}, {2}>>),
     Setting(FALSE, FALSE, FALSE, FALSE, {1, 2}, <<Players>>)}

MCNoTimeout == {Setting(FALSE, FALSE, FALSE, TRUE, {2}, <<Players>>)}
=============================================================================
